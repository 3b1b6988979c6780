--------------------- MODULE NamespaceLifecycle_proofs ---------------------
(***************************************************************************)
(* Proofs about an onboarded namespace, for any number of administrators,   *)
(* runs and versions: its document changes only as the handlers have read   *)
(* it, and the outcome of no validation is lost without a trace.            *)
(***************************************************************************)
EXTENDS NamespaceLifecycle, TLAPS

-----------------------------------------------------------------------------
LEMMA InitInvariant == Init => LifecycleIInv
<1> SUFFICES ASSUME Init PROVE LifecycleIInv
    OBVIOUS
<1>1. 1 \in 1..MaxVersion /\ 1 \in 1..MaxRuns /\ 0 \in 0..MaxVersion /\ 0 \in 0..MaxRuns
    BY BoundsAssumption
<1>2. runs = <<"done">> /\ Len(runs) = 1 /\ DOMAIN runs = {1} /\ runs[1] = "done"
    BY DEF Init
<1>3. TypeOK
  <2>1. namespace \in Namespace /\ namespace.run = 1
      BY <1>1 DEF Init, Namespace, Lifecycles
  <2>2. runs \in Seq({"running", "done", "failed"}) /\ Len(runs) <= MaxRuns
      BY <1>2, BoundsAssumption
  <2>3. Away \in Page /\ Away.at = "away"
      BY <1>1 DEF Away, Stages, Page
  <2>4. page = [c \in Admin |-> Away] /\ refused = {}
      BY DEF Init
  <2> QED
      BY <1>2, <2>1, <2>2, <2>3, <2>4 DEF TypeOK
<1>4. OutcomesKept
    BY <1>2 DEF OutcomesKept, Init
<1>5. \A c \in Admin : PageConsistent(c)
  <2> SUFFICES ASSUME NEW c \in Admin PROVE PageConsistent(c)
      OBVIOUS
  <2>1. page[c] = Away /\ namespace.etag = 1
      BY DEF Init
  <2>2. Away.at = "away" /\ Away.etag = 0 /\ Away.run = 0
      BY DEF Away
  <2> QED
      BY <2>1, <2>2 DEF PageConsistent
<1> QED
    BY <1>3, <1>4, <1>5 DEF LifecycleIInv

-----------------------------------------------------------------------------
(* One lemma per action.                                                    *)
LEMMA TypeFacts ==
    ASSUME TypeOK
    PROVE  /\ Len(runs) \in Nat /\ DOMAIN runs = 1..Len(runs) /\ Len(runs) <= MaxRuns
           /\ namespace.run \in DOMAIN runs /\ namespace.etag \in 1..MaxVersion
           /\ namespace.lifecycle \in Lifecycles
           /\ MaxRuns \in Nat /\ MaxVersion \in Nat
<1>1. runs \in Seq({"running", "done", "failed"}) /\ namespace \in Namespace
      /\ Len(runs) <= MaxRuns
    BY DEF TypeOK
<1>2. Len(runs) \in Nat /\ DOMAIN runs = 1..Len(runs)
    BY <1>1
<1>3. namespace.run \in DOMAIN runs
    BY DEF TypeOK
<1> QED
    BY <1>1, <1>2, <1>3, BoundsAssumption DEF Namespace

LEMMA FinishRunKeeps ==
    ASSUME LifecycleIInv, NEW k \in DOMAIN runs, FinishRun(k)
    PROVE  LifecycleIInv'
<1>1. runs[k] = "running" /\ UNCHANGED <<namespace, page, refused>>
    BY DEF FinishRun
<1>2. PICK status \in {"done", "failed"} : runs' = [runs EXCEPT ![k] = status]
    BY DEF FinishRun
<1>3. TypeOK /\ OutcomesKept /\ \A c \in Admin : PageConsistent(c)
    BY DEF LifecycleIInv
<1>4. /\ runs' \in Seq({"running", "done", "failed"}) /\ Len(runs') = Len(runs)
      /\ DOMAIN runs' = DOMAIN runs
      /\ \A j \in DOMAIN runs : j # k => runs'[j] = runs[j]
      /\ runs'[k] = status
    BY <1>2, <1>3 DEF TypeOK
<1>5. TypeOK'
    BY <1>1, <1>3, <1>4 DEF TypeOK
<1>6. OutcomesKept'
    BY <1>1, <1>3, <1>4 DEF OutcomesKept
<1>7. \A c \in Admin : PageConsistent(c)'
    BY <1>1, <1>3, <1>4 DEF PageConsistent
<1> QED
    BY <1>5, <1>6, <1>7 DEF LifecycleIInv

(* What the other pages hold stays true if only one page changes, and the   *)
(* run of that page is the document's, refused, or still the page's.        *)
LEMMA PageStep ==
    ASSUME LifecycleIInv, NEW c \in Admin, NEW p \in Page,
           page' = [page EXCEPT ![c] = p], UNCHANGED <<namespace, runs>>,
           refused' \subseteq DOMAIN runs, refused \subseteq refused',
           PageConsistent(c)', 
           page[c].run \in {0, p.run} \/ page[c].run \in refused'
    PROVE  LifecycleIInv'
<1>1. TypeOK /\ OutcomesKept /\ \A d \in Admin : PageConsistent(d)
    BY DEF LifecycleIInv
<1>2. page' \in [Admin -> Page] /\ page'[c] = p
      /\ \A d \in Admin : d # c => page'[d] = page[d]
    BY <1>1 DEF TypeOK
<1>3. \A d \in Admin : PageConsistent(d)'
    BY <1>1, <1>2 DEF PageConsistent
<1>4. TypeOK'
    BY <1>1, <1>2, <1>3 DEF TypeOK, PageConsistent, ReadAllows
<1>5. OutcomesKept'
  <2> SUFFICES ASSUME NEW k \in DOMAIN runs, runs[k] # "failed", namespace.run < k,
                      k \notin refused'
               PROVE  \E d \in Admin : page'[d].run = k
      BY DEF OutcomesKept
  <2>1. PICK d \in Admin : page[d].run = k
      BY <1>1 DEF OutcomesKept
  <2>2. k # 0
      BY <1>1, TypeFacts
  <2> QED
      BY <1>2, <2>1, <2>2
<1> QED
    BY <1>3, <1>4, <1>5 DEF LifecycleIInv

LEMMA FetchDetailsKeeps ==
    ASSUME LifecycleIInv, NEW c \in Admin, FetchDetails(c)
    PROVE  LifecycleIInv'
<1>1. TypeOK /\ PageConsistent(c)
    BY DEF LifecycleIInv
<1>2. Details \in Page /\ Details.at = "open" /\ Details.run = 0
      /\ Details.etag = namespace.etag
  <2>1. Away \in Page /\ Away.run = 0
      BY <1>1, TypeFacts DEF Away, Page, Stages
  <2>2. namespace.etag \in 0..MaxVersion /\ namespace.lifecycle \in Lifecycles
      BY <1>1, TypeFacts
  <2> QED
      BY <2>1, <2>2 DEF Details, Page, Stages
<1>3. page' = [page EXCEPT ![c] = Details] /\ UNCHANGED <<namespace, runs, refused>>
      /\ page[c].at # "validating"
    BY DEF FetchDetails
<1>4. page'[c] = Details
    BY <1>1, <1>3 DEF TypeOK
<1>5. PageConsistent(c)'
    BY <1>1, <1>2, <1>3, <1>4, TypeFacts DEF PageConsistent
<1> QED
    BY <1>1, <1>2, <1>3, <1>5, PageStep DEF TypeOK, PageConsistent

LEMMA AskKeeps ==
    ASSUME LifecycleIInv, NEW c \in Admin, NEW op \in Operations, Ask(c, op)
    PROVE  LifecycleIInv'
<1>1. TypeOK /\ PageConsistent(c)
    BY DEF LifecycleIInv
<1> DEFINE p == [page[c] EXCEPT !.at = "sent", !.op = op, !.lifecycle = None]
<1>2. page[c] \in Page
    BY <1>1 DEF TypeOK
<1>3. p \in Page /\ p.at = "sent" /\ p.op = op /\ p.run = page[c].run
      /\ p.etag = page[c].etag
    BY <1>2 DEF Page, Stages
<1>4. page' = [page EXCEPT ![c] = p] /\ UNCHANGED <<namespace, runs, refused>>
      /\ page[c].at = "open"
    BY DEF Ask
<1>5. page'[c] = p
    BY <1>1, <1>4 DEF TypeOK
<1> HIDE DEF p
<1>6. PageConsistent(c)'
    BY <1>1, <1>3, <1>4, <1>5 DEF PageConsistent
<1> QED
    BY <1>1, <1>3, <1>4, <1>6, PageStep DEF TypeOK

LEMMA FailKeeps ==
    ASSUME LifecycleIInv, NEW c \in Admin, Fail(c)
    PROVE  LifecycleIInv'
<1>1. TypeOK /\ PageConsistent(c)
    BY DEF LifecycleIInv
<1>2. Away \in Page /\ Away.at = "away" /\ Away.run = 0 /\ Away.etag = 0
    BY <1>1, TypeFacts DEF Away, Page, Stages
<1>3. page' = [page EXCEPT ![c] = Away] /\ UNCHANGED <<namespace, runs>>
      /\ refused' = refused \cup ({page[c].run} \ {0})
    BY DEF Fail
<1>4. page'[c] = Away
    BY <1>1, <1>3 DEF TypeOK
<1>5. PageConsistent(c)'
    BY <1>1, <1>2, <1>3, <1>4, TypeFacts DEF PageConsistent
<1>6. page[c].run = 0 \/ page[c].run \in DOMAIN runs
    BY <1>1 DEF PageConsistent
<1> QED
    BY <1>1, <1>2, <1>3, <1>5, <1>6, PageStep DEF TypeOK

LEMMA ReadOnlyKeeps ==
    ASSUME LifecycleIInv, NEW c \in Admin, ReadOnly(c)
    PROVE  LifecycleIInv'
<1>1. TypeOK /\ PageConsistent(c)
    BY DEF LifecycleIInv
<1> DEFINE p == [page[c] EXCEPT !.at = "ready", !.read = namespace, !.run = 0]
<1>2. page[c] \in Page /\ namespace \in Namespace /\ 0 \in 0..MaxRuns
    BY <1>1, TypeFacts DEF TypeOK
<1>3. p \in Page /\ p.at = "ready" /\ p.op = page[c].op /\ p.run = 0
      /\ p.etag = page[c].etag /\ p.read = namespace
    BY <1>2 DEF Page, Stages
<1>4. page' = [page EXCEPT ![c] = p] /\ UNCHANGED <<namespace, runs, refused>>
      /\ page[c].at = "sent" /\ ReadAllows(page[c].op, namespace.lifecycle)
    BY DEF ReadOnly, Read
<1>5. page'[c] = p
    BY <1>1, <1>4 DEF TypeOK
<1> HIDE DEF p
<1>6. PageConsistent(c)'
    BY <1>1, <1>2, <1>3, <1>4, <1>5, TypeFacts DEF PageConsistent, ReadAllows
<1>7. page[c].run = 0
    BY <1>1, <1>4 DEF PageConsistent
<1> QED
    BY <1>1, <1>3, <1>4, <1>6, <1>7, PageStep DEF TypeOK

LEMMA ReadAndValidateKeeps ==
    ASSUME LifecycleIInv, NEW c \in Admin, ReadAndValidate(c)
    PROVE  LifecycleIInv'
<1>1. TypeOK /\ OutcomesKept /\ \A d \in Admin : PageConsistent(d)
    BY DEF LifecycleIInv
<1> DEFINE p == [page[c] EXCEPT !.at = "validating", !.read = namespace,
                                !.run = NewRun]
<1>2. /\ page' = [page EXCEPT ![c] = p] /\ UNCHANGED <<namespace, refused>>
      /\ page[c].at = "sent" /\ ReadAllows(page[c].op, namespace.lifecycle)
      /\ runs' = Append(runs, "running") /\ NewRun <= MaxRuns
    BY DEF ReadAndValidate, Read
<1>3. /\ NewRun = Len(runs) + 1 /\ NewRun \in 0..MaxRuns /\ NewRun \notin DOMAIN runs
      /\ namespace.run < NewRun
    BY <1>1, <1>2, TypeFacts DEF NewRun
<1>4. /\ runs' \in Seq({"running", "done", "failed"})
      /\ DOMAIN runs' = DOMAIN runs \cup {NewRun}
      /\ Len(runs') = NewRun
      /\ \A k \in DOMAIN runs : runs'[k] = runs[k]
    BY <1>1, <1>2, <1>3, TypeFacts DEF TypeOK
<1>5. page[c] \in Page /\ namespace \in Namespace
    BY <1>1 DEF TypeOK
<1>6. p \in Page /\ p.at = "validating" /\ p.op = page[c].op /\ p.run = NewRun
      /\ p.etag = page[c].etag /\ p.read = namespace
    BY <1>3, <1>5 DEF Page, Stages
<1> HIDE DEF p
<1>7. page' \in [Admin -> Page] /\ page'[c] = p
      /\ \A d \in Admin : d # c => page'[d] = page[d]
    BY <1>1, <1>2, <1>6 DEF TypeOK
<1>8. \A d \in Admin : PageConsistent(d)'
  <2>1. PageConsistent(c)'
      BY <1>1, <1>2, <1>3, <1>4, <1>5, <1>6, <1>7, TypeFacts
      DEF PageConsistent, ReadAllows
  <2>2. ASSUME NEW d \in Admin, d # c PROVE PageConsistent(d)'
      BY <1>1, <1>2, <1>4, <1>7, <2>2 DEF PageConsistent
  <2> QED
      BY <2>1, <2>2
<1>9. TypeOK'
    BY <1>1, <1>2, <1>3, <1>4, <1>7, <1>8 DEF TypeOK, PageConsistent, ReadAllows
<1>10. OutcomesKept'
  <2> SUFFICES ASSUME NEW k \in DOMAIN runs', runs'[k] # "failed", namespace.run < k,
                      k \notin refused
               PROVE  \E d \in Admin : page'[d].run = k
      BY <1>2 DEF OutcomesKept
  <2>1. CASE k = NewRun
      BY <1>6, <1>7, <2>1
  <2>2. CASE k \in DOMAIN runs
    <3>1. PICK d \in Admin : page[d].run = k
        BY <1>1, <1>4, <2>2 DEF OutcomesKept
    <3>2. page[c].run = 0 /\ k # 0
        BY <1>1, <1>2, <2>2, TypeFacts DEF PageConsistent
    <3> QED
        BY <1>7, <3>1, <3>2
  <2> QED
      BY <1>4, <2>1, <2>2
<1> QED
    BY <1>8, <1>9, <1>10 DEF LifecycleIInv

-----------------------------------------------------------------------------
(* The conditional write: it succeeds only if the handler's document is the  *)
(* one in the store.                                                        *)
LEMMA WriteReplacesWhatWasRead ==
    ASSUME LifecycleIInv, NEW c \in Admin, UpdateNamespace(c), IfMatch(c)
    PROVE  /\ page[c].read = namespace
           /\ namespace' = [namespace EXCEPT !.etag = namespace.etag + 1,
                  !.lifecycle = Target(page[c].op, @),
                  !.run = IF page[c].run = 0 THEN @ ELSE page[c].run]
           /\ page[c].op \in Operations
           /\ ReadAllows(page[c].op, namespace.lifecycle)
           /\ page[c].run # 0 =>
                 /\ page[c].run \in DOMAIN runs /\ runs[page[c].run] = "done"
                 /\ namespace.run < page[c].run
<1>1. TypeOK /\ PageConsistent(c)
    BY DEF LifecycleIInv
<1>2. page[c].at \in {"validating", "ready"}
    BY DEF UpdateNamespace
<1>3. page[c].etag \in Nat /\ page[c].read.etag \in Nat /\ namespace.etag \in Nat
    BY <1>1, <1>2 DEF TypeOK, Page, PageConsistent, Namespace
<1>4. page[c].read.etag = namespace.etag
    BY <1>1, <1>2, <1>3 DEF IfMatch, Expected, PageConsistent
<1>5. page[c].read = namespace
    BY <1>1, <1>2, <1>4 DEF PageConsistent
<1>6. namespace' = Updated(c)
    BY DEF UpdateNamespace
<1>7. page[c].run # 0 => page[c].at = "validating"
    BY <1>1 DEF PageConsistent
<1>8. page[c].run # 0 => runs[page[c].run] = "done"
    BY <1>2, <1>7 DEF UpdateNamespace
<1>9. page[c].run # 0 => page[c].run \in DOMAIN runs /\ namespace.run < page[c].run
    BY <1>1, <1>5, <1>7 DEF PageConsistent
<1>10. page[c].op \in Operations /\ ReadAllows(page[c].op, namespace.lifecycle)
    BY <1>1, <1>2, <1>5 DEF PageConsistent
<1> QED
    BY <1>5, <1>6, <1>8, <1>9, <1>10 DEF Updated

LEMMA WrittenIsNamespace ==
    ASSUME LifecycleIInv, NEW c \in Admin, UpdateNamespace(c), IfMatch(c)
    PROVE  /\ namespace' \in Namespace /\ namespace'.etag = namespace.etag + 1
           /\ namespace'.lifecycle = Target(page[c].op, namespace.lifecycle)
           /\ namespace'.run = IF page[c].run = 0 THEN namespace.run ELSE page[c].run
<1>1. TypeOK
    BY DEF LifecycleIInv
<1>2. namespace \in Namespace /\ namespace.etag < MaxVersion
    BY <1>1 DEF TypeOK, UpdateNamespace
<1>3. namespace.etag + 1 \in 1..MaxVersion
    BY <1>1, <1>2, TypeFacts
<1>4. Target(page[c].op, namespace.lifecycle) \in Lifecycles
    BY <1>2 DEF Target, Namespace, Lifecycles
<1>5. page[c].run # 0 => page[c].run \in 1..MaxRuns
  <2>1. page[c].run # 0 => page[c].run \in DOMAIN runs
      BY WriteReplacesWhatWasRead
  <2> HIDE DEF LifecycleIInv
  <2> QED
      BY <1>1, <2>1, TypeFacts
<1> HIDE DEF LifecycleIInv
<1> QED
    BY <1>2, <1>3, <1>4, <1>5, WriteReplacesWhatWasRead DEF Namespace

LEMMA UpdateNamespaceKeeps ==
    ASSUME LifecycleIInv, NEW c \in Admin, UpdateNamespace(c)
    PROVE  LifecycleIInv'
<1>1. TypeOK /\ OutcomesKept /\ \A d \in Admin : PageConsistent(d)
    BY DEF LifecycleIInv
<1>2. page' = [page EXCEPT ![c] = Away] /\ UNCHANGED runs
    BY DEF UpdateNamespace
<1>3. Away \in Page /\ Away.at = "away" /\ Away.run = 0 /\ Away.etag = 0
    BY <1>1, TypeFacts DEF Away, Page, Stages
<1>4. page'[c] = Away /\ page' \in [Admin -> Page]
      /\ \A d \in Admin : d # c => page'[d] = page[d]
    BY <1>1, <1>2, <1>3 DEF TypeOK
<1>5. page[c].run = 0 \/ page[c].run \in DOMAIN runs
    BY <1>1 DEF PageConsistent
<1>6. CASE ~IfMatch(c)
  <2>1. UNCHANGED namespace /\ refused' = refused \cup ({page[c].run} \ {0})
      BY <1>6 DEF UpdateNamespace
  <2>2. PageConsistent(c)'
      BY <1>1, <1>3, <1>4, <2>1, TypeFacts DEF PageConsistent
  <2> QED
      BY <1>1, <1>2, <1>3, <1>5, <2>1, <2>2, PageStep DEF TypeOK
<1>7. CASE IfMatch(c)
  <2>1. /\ namespace' \in Namespace /\ namespace'.etag = namespace.etag + 1
        /\ namespace'.run = IF page[c].run = 0 THEN namespace.run ELSE page[c].run
      BY <1>7, WrittenIsNamespace
  <2>2. page[c].run # 0 =>
            /\ page[c].run \in DOMAIN runs /\ runs[page[c].run] = "done"
            /\ namespace.run < page[c].run
      BY <1>7, WriteReplacesWhatWasRead
  <2>3. UNCHANGED refused
      BY <1>7 DEF UpdateNamespace
  <2>4. \A d \in Admin : PageConsistent(d)'
    <3>1. PageConsistent(c)'
        BY <1>3, <1>4, <2>1, <1>1, TypeFacts DEF PageConsistent
    <3>2. ASSUME NEW d \in Admin, d # c PROVE PageConsistent(d)'
      <4>1. page'[d] = page[d] /\ PageConsistent(d)
          BY <1>1, <1>4, <3>2
      <4>2. page[d] \in Page /\ namespace.etag \in Nat
          BY <1>1, TypeFacts DEF TypeOK
      <4>3. page[d].etag \in Nat /\ page[d].etag <= namespace'.etag
          BY <2>1, <4>1, <4>2 DEF PageConsistent, Page
      <4>4. page[d].at \in {"validating", "ready"} =>
                page[d].read.etag \in Nat /\ page[d].read.etag < namespace'.etag
          BY <2>1, <4>1, <4>2 DEF PageConsistent, Namespace
      <4> QED
          BY <1>2, <2>1, <4>1, <4>2, <4>3, <4>4 DEF PageConsistent
    <3> QED
        BY <3>1, <3>2
  <2>5. TypeOK'
      BY <1>1, <1>2, <1>4, <2>1, <2>2, <2>3, <2>4, TypeFacts
      DEF TypeOK, PageConsistent, ReadAllows
  <2>6. OutcomesKept'
    <3> SUFFICES ASSUME NEW k \in DOMAIN runs, runs[k] # "failed", namespace'.run < k,
                        k \notin refused
                 PROVE  \E d \in Admin : page'[d].run = k
        BY <1>2, <2>3 DEF OutcomesKept
    <3>1. namespace.run < k /\ k # page[c].run
        BY <1>1, <2>1, <2>2, TypeFacts
    <3>2. PICK d \in Admin : page[d].run = k
        BY <1>1, <3>1 DEF OutcomesKept
    <3> QED
        BY <1>4, <3>1, <3>2
  <2> QED
      BY <2>4, <2>5, <2>6 DEF LifecycleIInv
<1> QED
    BY <1>6, <1>7

-----------------------------------------------------------------------------
(* The inductive invariant: pages and handlers are behind the document, and  *)
(* every run that did not fail is in the document, on its way to it, or      *)
(* refused.                                                                 *)
THEOREM LifecycleInvariant == Spec => []LifecycleIInv
<1>1. LifecycleIInv /\ [Next]_vars => LifecycleIInv'
  <2> SUFFICES ASSUME LifecycleIInv, [Next]_vars PROVE LifecycleIInv'
      OBVIOUS
  <2>1. CASE \E k \in DOMAIN runs : FinishRun(k)
      BY <2>1, FinishRunKeeps
  <2>2. CASE \E c \in Admin : FetchDetails(c) \/ Fail(c)
      BY <2>2, FetchDetailsKeeps, FailKeeps
  <2>3. CASE \E c \in Admin : \E op \in Operations : Ask(c, op)
      BY <2>3, AskKeeps
  <2>4. CASE \E c \in Admin : ReadAndValidate(c) \/ ReadOnly(c)
      BY <2>4, ReadAndValidateKeeps, ReadOnlyKeeps
  <2>5. CASE \E c \in Admin : UpdateNamespace(c)
      BY <2>5, UpdateNamespaceKeeps
  <2>6. CASE UNCHANGED vars
      BY <2>6 DEF vars, LifecycleIInv, TypeOK, OutcomesKept, PageConsistent, ReadAllows
  <2> QED
      BY <2>1, <2>2, <2>3, <2>4, <2>5, <2>6 DEF Next
<1> QED
    BY <1>1, InitInvariant, PTL DEF Spec

(* Type correctness, and that a handler writes only what is permitted in the *)
(* document that it has read.                                               *)
THEOREM LifecycleTypeCorrect == Spec => []TypeOK
<1>1. LifecycleIInv => TypeOK
    BY DEF LifecycleIInv
<1> QED
    BY <1>1, LifecycleInvariant, PTL

(* FR-016: the status of a namespace mirrors its latest run, unless that is  *)
(* about to be written or its write was refused.                            *)
THEOREM StatusMirrors == Spec => []StatusMirrorsLatestRun
<1>1. LifecycleIInv => StatusMirrorsLatestRun
    BY DEF LifecycleIInv, OutcomesKept, StatusMirrorsLatestRun
<1> QED
    BY <1>1, LifecycleInvariant, PTL

(* A document is replaced as its handler has read it, by a transition of the *)
(* table, with a newer validation or the same, and once archived only by a   *)
(* restoring or an edit.                                                    *)
THEOREM DocumentsMoveForward == Spec => DocumentMovesForward
<1> DEFINE Forward(c) ==
      namespace' # namespace /\ page'[c] # page[c] =>
        /\ page[c].read = namespace
        /\ namespace'.lifecycle # namespace.lifecycle =>
             /\ Permitted(page[c].op, namespace.lifecycle)
             /\ namespace'.lifecycle = Target(page[c].op, namespace.lifecycle)
        /\ namespace'.run >= namespace.run
        /\ namespace.lifecycle = "Archived" => page[c].op \in {"restore", "edit"}
<1>1. LifecycleIInv /\ [Next]_vars => [\A c \in Admin : Forward(c)]_vars
  <2> SUFFICES ASSUME LifecycleIInv, Next, namespace' # namespace,
                      NEW c \in Admin, page'[c] # page[c]
               PROVE  Forward(c)
      BY DEF vars
  <2>1. PICK d \in Admin : UpdateNamespace(d)
      BY DEF Next, FinishRun, FetchDetails, Fail, Ask, ReadAndValidate, ReadOnly
  <2>2. page \in [Admin -> Page] /\ page' = [page EXCEPT ![d] = Away]
      BY <2>1 DEF LifecycleIInv, TypeOK, UpdateNamespace
  <2>3. d = c
      BY <2>2
  <2>4. UpdateNamespace(c) /\ IfMatch(c)
      BY <2>1, <2>3 DEF UpdateNamespace
  <2>5. /\ page[c].read = namespace /\ page[c].op \in Operations
        /\ ReadAllows(page[c].op, namespace.lifecycle)
        /\ page[c].run # 0 => namespace.run < page[c].run
      BY <2>4, WriteReplacesWhatWasRead
  <2>6. /\ namespace'.lifecycle = Target(page[c].op, namespace.lifecycle)
        /\ namespace'.run = IF page[c].run = 0 THEN namespace.run ELSE page[c].run
      BY <2>4, WrittenIsNamespace
  <2>7. namespace'.run >= namespace.run
    <3>1. namespace.run \in Nat /\ page[c].run \in Nat
        BY TypeFacts, <2>2 DEF LifecycleIInv, TypeOK, Page
    <3> QED
        BY <2>5, <2>6, <3>1
  <2>8. namespace'.lifecycle # namespace.lifecycle =>
             Permitted(page[c].op, namespace.lifecycle)
      BY <2>5, <2>6 DEF Operations, ReadAllows, Target, Transitions
  <2>9. namespace.lifecycle = "Archived" => page[c].op \in {"restore", "edit"}
      BY <2>5 DEF Operations, ReadAllows, Permitted, Transitions
  <2> QED
      BY <2>5, <2>6, <2>7, <2>8, <2>9
<1> QED
    BY <1>1, LifecycleInvariant, PTL DEF Spec, DocumentMovesForward
=============================================================================
