----------------------- MODULE EntityCuration_proofs -----------------------
(***************************************************************************)
(* Proofs about the curation of an entity, for any number of tabs, users,   *)
(* services and versions.  A handler reads the document twice and writes it *)
(* later; since the write is conditional on a version that is no newer than *)
(* either read, all three see one document.                                 *)
(***************************************************************************)
EXTENDS EntityCuration, TLAPS

-----------------------------------------------------------------------------
(* Types of what the actions put together.                                  *)
LEMMA ClosedType ==
    ASSUME NEW d \in Entity
    PROVE  /\ Closed(d) \in Page
           /\ \A p \in {Closed(d), [Closed(d) EXCEPT !.at = "open"]} :
                 /\ p \in Page /\ p.at \in {"away", "open"}
                 /\ p.seen = d /\ p.etag = d.etag /\ p.meta = d.meta
<1>1. d.etag \in 1..MaxVersion /\ d.meta \in 1..MaxVersion
    BY DEF Entity
<1>2. Closed(d) \in Page /\ Closed(d).at = "away" /\ Closed(d).seen = d
      /\ Closed(d).etag = d.etag /\ Closed(d).meta = d.meta
    BY <1>1 DEF Closed, Page, Stages
<1> DEFINE p == [Closed(d) EXCEPT !.at = "open"]
<1>3. p \in Page /\ p.at = "open" /\ p.seen = d /\ p.etag = d.etag /\ p.meta = d.meta
    BY <1>2 DEF Page, Stages
<1> HIDE DEF p
<1>4. \A q \in {Closed(d), p} :
          /\ q \in Page /\ q.at \in {"away", "open"}
          /\ q.seen = d /\ q.etag = d.etag /\ q.meta = d.meta
    BY <1>2, <1>3
<1> QED
    BY <1>2, <1>4 DEF p

LEMMA EntityFacts ==
    ASSUME TypeOK
    PROVE  /\ entity \in Entity /\ entity.etag \in 1..MaxVersion
           /\ entity.meta \in 1..MaxVersion /\ entity.meta <= entity.etag
           /\ entity.owners \subseteq Service /\ MaxVersion \in Nat
    BY BoundsAssumption DEF TypeOK, Entity

LEMMA InitInvariant == Init => CurationIInv
<1> SUFFICES ASSUME Init PROVE CurationIInv
    OBVIOUS
<1>1. PICK owners \in SUBSET Service :
          /\ entity = [etag |-> 1, meta |-> 1, archived |-> FALSE, owners |-> owners]
          /\ tab = [t \in Tab |-> Closed(entity)]
    BY DEF Init
<1>2. entity \in Entity /\ entity.meta = 1 /\ entity.etag = 1
    BY <1>1, BoundsAssumption DEF Entity
<1>3. Closed(entity) \in Page
    BY <1>2, ClosedType
<1>4. tab \in [Tab -> Page] /\ \A t \in Tab : tab[t] = Closed(entity)
    BY <1>1, <1>3
<1>5. /\ Closed(entity).at = "away" /\ Closed(entity).seen = entity
      /\ Closed(entity).etag = entity.etag /\ Closed(entity).meta = entity.meta
    BY DEF Closed
<1>6. ASSUME NEW t \in Tab PROVE TabConsistent(t)
  <2>1. /\ tab[t].at = "away" /\ tab[t].seen = entity
        /\ tab[t].etag = entity.etag /\ tab[t].meta = entity.meta
      BY <1>4, <1>5
  <2>2. entity.etag <= entity.etag /\ entity.meta <= entity.etag
      BY <1>2
  <2> QED
      BY <2>1, <2>2 DEF TabConsistent
<1>7. TypeOK
    BY <1>2, <1>4, <1>6 DEF TypeOK, TabConsistent
<1> QED
    BY <1>6, <1>7 DEF CurationIInv

-----------------------------------------------------------------------------
(* A step of one page that leaves the document alone.                       *)
LEMMA PageStep ==
    ASSUME CurationIInv, NEW t \in Tab, NEW p \in Page,
           tab' = [tab EXCEPT ![t] = p], UNCHANGED entity, TabConsistent(t)'
    PROVE  CurationIInv'
<1>1. TypeOK /\ \A u \in Tab : TabConsistent(u)
    BY DEF CurationIInv
<1>2. tab' \in [Tab -> Page] /\ \A u \in Tab : u # t => tab'[u] = tab[u]
    BY <1>1 DEF TypeOK
<1>3. \A u \in Tab : TabConsistent(u)'
    BY <1>1, <1>2 DEF TabConsistent
<1> QED
    BY <1>1, <1>2, <1>3 DEF CurationIInv, TypeOK, TabConsistent

LEMMA PageFacts ==
    ASSUME CurationIInv, NEW t \in Tab
    PROVE  /\ tab[t] \in Page /\ TabConsistent(t) /\ entity \in Entity
           /\ tab[t].seen \in Entity /\ tab[t].etag \in 1..MaxVersion
           /\ tab[t].meta \in 1..MaxVersion
           /\ \A p : [tab EXCEPT ![t] = p][t] = p
    BY DEF CurationIInv, TypeOK, Page

LEMMA OpenKeeps ==
    ASSUME CurationIInv, NEW t \in Tab, Open(t) \/ Leave(t)
    PROVE  CurationIInv'
<1>1. /\ tab[t] \in Page /\ TabConsistent(t) /\ entity \in Entity
      /\ tab[t].seen \in Entity /\ \A p : [tab EXCEPT ![t] = p][t] = p
    BY PageFacts
<1>2. UNCHANGED entity
    BY DEF Open, Leave
<1>3. PICK d \in {entity, tab[t].seen} :
          \/ tab' = [tab EXCEPT ![t] = Closed(d)]
          \/ tab' = [tab EXCEPT ![t] = [Closed(d) EXCEPT !.at = "open"]]
    BY DEF Open, Leave
<1>4. PICK p \in {Closed(d), [Closed(d) EXCEPT !.at = "open"]} : tab' = [tab EXCEPT ![t] = p]
    BY <1>3
<1>5. d \in Entity /\ d.etag <= entity.etag /\ (d.etag = entity.etag => d = entity)
    BY <1>1 DEF TabConsistent, Entity
<1>6. p \in Page /\ p.at \in {"away", "open"} /\ p.seen = d /\ p.etag = d.etag
      /\ p.meta = d.meta
    BY <1>4, <1>5, ClosedType
<1>7. tab'[t] = p
    BY <1>1, <1>4
<1>8. TabConsistent(t)'
    BY <1>2, <1>5, <1>6, <1>7 DEF TabConsistent
<1> QED
    BY <1>2, <1>4, <1>6, <1>8, PageStep

LEMMA RefetchKeeps ==
    ASSUME CurationIInv, NEW t \in Tab, Refetch(t)
    PROVE  CurationIInv'
<1>1. /\ tab[t] \in Page /\ TabConsistent(t) /\ entity \in Entity
      /\ \A p : [tab EXCEPT ![t] = p][t] = p
    BY PageFacts
<1> DEFINE p == [tab[t] EXCEPT !.seen = entity]
<1>2. tab' = [tab EXCEPT ![t] = p] /\ UNCHANGED entity
    BY DEF Refetch
<1>3. p \in Page /\ p.seen = entity /\ p.at = tab[t].at /\ p.op = tab[t].op
      /\ p.service = tab[t].service /\ p.etag = tab[t].etag
      /\ p.meta = tab[t].meta /\ p.read = tab[t].read /\ p.handed = tab[t].handed
    BY <1>1 DEF Page
<1> HIDE DEF p
<1>4. tab'[t] = p
    BY <1>1, <1>2
<1>5. TabConsistent(t)'
    BY <1>1, <1>2, <1>3, <1>4 DEF TabConsistent, Entity
<1> QED
    BY <1>2, <1>3, <1>5, PageStep

LEMMA AskKeeps ==
    ASSUME CurationIInv, NEW t \in Tab, NEW op \in Operations,
           NEW s \in Service \cup {None}, Ask(t, op, s)
    PROVE  CurationIInv'
<1>1. /\ tab[t] \in Page /\ TabConsistent(t) /\ \A p : [tab EXCEPT ![t] = p][t] = p
    BY PageFacts
<1> DEFINE p == [tab[t] EXCEPT !.at = "sent", !.op = op, !.service = s]
<1>2. /\ tab' = [tab EXCEPT ![t] = p] /\ UNCHANGED entity
      /\ op \in {"add", "remove"} => s \in Service
  <2>1. op \in {"add", "remove"} => s # None
      BY DEF Ask, Offered
  <2>2. tab' = [tab EXCEPT ![t] = p] /\ UNCHANGED entity
      BY DEF Ask
  <2> QED
      BY <2>1, <2>2
<1>3. p \in Page /\ p.seen = tab[t].seen /\ p.at = "sent" /\ p.op = op
      /\ p.service = s /\ p.etag = tab[t].etag
      /\ p.meta = tab[t].meta /\ p.handed = tab[t].handed
    BY <1>1 DEF Page, Stages
<1> HIDE DEF p
<1>4. tab'[t] = p
    BY <1>1, <1>2
<1>5. TabConsistent(t)'
    BY <1>1, <1>2, <1>3, <1>4 DEF TabConsistent
<1> QED
    BY <1>2, <1>3, <1>5, PageStep

(* An error response or a conflict: both leave the form as it was.           *)
LEMMA RejectKeeps ==
    ASSUME CurationIInv, NEW t \in Tab, Reject(t) \/ Conflict(t)
    PROVE  CurationIInv'
<1>1. /\ tab[t] \in Page /\ TabConsistent(t) /\ \A p : [tab EXCEPT ![t] = p][t] = p
    BY PageFacts
<1> DEFINE p == [tab[t] EXCEPT !.at = "open", !.op = None, !.service = None, !.read = {},
                               !.etag = tab[t].etag, !.meta = tab[t].meta]
<1>2. tab' = [tab EXCEPT ![t] = p] /\ UNCHANGED entity
    BY DEF Reject, Conflict, Ended, AfterConflict
<1>3. p \in Page /\ p.seen = tab[t].seen /\ p.at = "open" /\ p.etag = tab[t].etag
      /\ p.meta = tab[t].meta /\ p.handed = tab[t].handed
    BY <1>1 DEF Page, Stages
<1> HIDE DEF p
<1>4. tab'[t] = p
    BY <1>1, <1>2
<1>5. TabConsistent(t)'
    BY <1>1, <1>2, <1>3, <1>4 DEF TabConsistent
<1> QED
    BY <1>2, <1>3, <1>5, PageStep

LEMMA AssociatedKeeps ==
    ASSUME CurationIInv, NEW t \in Tab, Associated(t)
    PROVE  CurationIInv'
<1>1. /\ tab[t] \in Page /\ TabConsistent(t) /\ entity \in Entity
      /\ tab[t].seen \in Entity /\ \A p : [tab EXCEPT ![t] = p][t] = p
    BY PageFacts
<1>2. UNCHANGED entity
    BY DEF Associated
<1>3. CASE \E d \in {entity, tab[t].seen} : Handed(t, d)
  <2>1. PICK d \in {entity, tab[t].seen} : Handed(t, d)
      BY <1>3
  <2> DEFINE p == [tab[t] EXCEPT !.at = "open", !.seen = d, !.etag = d.etag,
                                 !.handed = d.meta # tab[t].meta]
  <2>2. tab' = [tab EXCEPT ![t] = p]
      BY <2>1 DEF Handed
  <2>3. d \in Entity /\ d.etag \in 1..MaxVersion /\ d.etag <= entity.etag
        /\ (d.etag = entity.etag => d = entity)
      BY <1>1 DEF TabConsistent, Entity
  <2>4. p \in Page /\ p.seen = d /\ p.at = "open" /\ p.etag = d.etag
        /\ p.meta = tab[t].meta /\ p.handed = (d.meta # tab[t].meta)
      BY <1>1, <2>3 DEF Page, Stages
  <2> HIDE DEF p
  <2>5. tab'[t] = p
      BY <1>1, <2>2
  <2>6. TabConsistent(t)'
      BY <1>2, <2>3, <2>4, <2>5 DEF TabConsistent
  <2> QED
      BY <1>2, <2>2, <2>4, <2>6, PageStep
<1>4. CASE tab' = [tab EXCEPT ![t].at = "open", ![t].seen = entity]
  <2> DEFINE p == [tab[t] EXCEPT !.at = "open", !.seen = entity]
  <2>1. tab' = [tab EXCEPT ![t] = p]
      BY <1>4
  <2>2. p \in Page /\ p.seen = entity /\ p.at = "open" /\ p.etag = tab[t].etag
        /\ p.meta = tab[t].meta /\ p.handed = tab[t].handed
      BY <1>1 DEF Page, Stages
  <2> HIDE DEF p
  <2>3. tab'[t] = p
      BY <1>1, <2>1
  <2>4. TabConsistent(t)'
      BY <1>1, <1>2, <2>2, <2>3 DEF TabConsistent, Entity
  <2> QED
      BY <1>2, <2>1, <2>2, <2>4, PageStep
<1> QED
    BY <1>3, <1>4 DEF Associated

LEMMA AuthorizeKeeps ==
    ASSUME CurationIInv, NEW t \in Tab, Authorize(t)
    PROVE  CurationIInv'
<1>1. /\ tab[t] \in Page /\ TabConsistent(t) /\ \A p : [tab EXCEPT ![t] = p][t] = p
    BY PageFacts
<1>2. tab[t].at = "sent" /\ Allowed(t, entity.owners) /\ UNCHANGED entity
    BY DEF Authorize
<1>3. PICK at \in {"authorized", "ready"} :
          /\ tab' = [tab EXCEPT ![t].at = at]
          /\ at = "ready" <=> tab[t].op \in {"save", "archive"}
    BY DEF Authorize
<1> DEFINE p == [tab[t] EXCEPT !.at = at]
<1>4. tab' = [tab EXCEPT ![t] = p]
    BY <1>3
<1>5. p \in Page /\ p.seen = tab[t].seen /\ p.at = at /\ p.op = tab[t].op
      /\ p.service = tab[t].service /\ p.etag = tab[t].etag
      /\ p.meta = tab[t].meta /\ p.handed = tab[t].handed
    BY <1>1 DEF Page, Stages
<1> HIDE DEF p
<1>6. tab'[t] = p
    BY <1>1, <1>4
<1>7. TabConsistent(t)'
    BY <1>1, <1>2, <1>3, <1>5, <1>6 DEF TabConsistent, Allowed, Operations
<1> QED
    BY <1>2, <1>4, <1>5, <1>7, PageStep

LEMMA ReadAssociationsKeeps ==
    ASSUME CurationIInv, NEW t \in Tab, ReadAssociations(t)
    PROVE  CurationIInv'
<1>1. /\ tab[t] \in Page /\ TabConsistent(t) /\ entity \in Entity
      /\ \A p : [tab EXCEPT ![t] = p][t] = p
    BY PageFacts
<1> DEFINE p == [tab[t] EXCEPT !.at = "ready", !.read = entity.owners]
<1>2. tab[t].at = "authorized" /\ tab' = [tab EXCEPT ![t] = p] /\ UNCHANGED entity
    BY DEF ReadAssociations
<1>3. p \in Page /\ p.seen = tab[t].seen /\ p.at = "ready" /\ p.op = tab[t].op
      /\ p.service = tab[t].service /\ p.etag = tab[t].etag /\ p.read = entity.owners
      /\ p.meta = tab[t].meta /\ p.handed = tab[t].handed
    BY <1>1 DEF Page, Stages, Entity
<1> HIDE DEF p
<1>4. tab'[t] = p
    BY <1>1, <1>2
<1>5. TabConsistent(t)'
    BY <1>1, <1>2, <1>3, <1>4 DEF TabConsistent, Allowed
<1> QED
    BY <1>2, <1>3, <1>5, PageStep

-----------------------------------------------------------------------------
(* A new version of the document: what the pages hold of it is older, so of  *)
(* the pages that do not change, nothing is claimed any more.                *)
LEMMA NewVersion ==
    ASSUME CurationIInv, entity' \in Entity, entity'.etag = entity.etag + 1,
           entity'.meta <= entity'.etag, tab' \in [Tab -> Page],
           \A u \in Tab : tab'[u] = tab[u] \/ TabConsistent(u)'
    PROVE  CurationIInv'
<1>1. TypeOK /\ \A u \in Tab : TabConsistent(u)
    BY DEF CurationIInv
<1>2. ASSUME NEW u \in Tab, tab'[u] = tab[u] PROVE TabConsistent(u)'
  <2>1. tab[u].etag < entity'.etag /\ tab[u].seen.etag < entity'.etag
      BY <1>1, PageFacts DEF TabConsistent, Entity
  <2>2. tab[u].etag # entity'.etag /\ tab[u].seen.etag # entity'.etag
        /\ tab[u].etag <= entity'.etag /\ tab[u].seen.etag <= entity'.etag
      BY <2>1, PageFacts DEF Entity
  <2> QED
      BY <1>1, <1>2, <2>2 DEF TabConsistent
<1>3. \A u \in Tab : TabConsistent(u)'
    BY <1>2
<1> QED
    BY <1>3 DEF CurationIInv, TypeOK, TabConsistent

LEMMA DiscoverKeeps == ASSUME CurationIInv, Discover PROVE CurationIInv'
<1>1. TypeOK
    BY DEF CurationIInv
<1>2. /\ entity' = [entity EXCEPT !.etag = @ + 1] /\ entity.etag < MaxVersion
      /\ tab' = tab
    BY DEF Discover
<1>3. entity' \in Entity /\ entity'.etag = entity.etag + 1 /\ entity'.meta <= entity'.etag
    BY <1>1, <1>2, EntityFacts DEF Entity
<1> QED
    BY <1>1, <1>2, <1>3, NewVersion DEF TypeOK

LEMMA PatchedType ==
    ASSUME CurationIInv, NEW t \in Tab, tab[t].at = "ready", entity.etag < MaxVersion
    PROVE  /\ Patched(t) \in Entity /\ Patched(t).etag = entity.etag + 1
           /\ Patched(t).meta <= Patched(t).etag
<1>1. /\ TabConsistent(t) /\ tab[t] \in Page /\ TypeOK
    BY PageFacts DEF CurationIInv
<1>2. tab[t].op \in Operations /\ tab[t].read \in SUBSET Service
      /\ (tab[t].op \in {"add", "remove"} => tab[t].service \in Service)
    BY <1>1 DEF TabConsistent, Page
<1> DEFINE d == [entity EXCEPT !.etag = @ + 1]
<1>3. d \in Entity /\ d.etag = entity.etag + 1 /\ d.meta <= d.etag /\ d.etag \in 1..MaxVersion
      /\ d.etag <= d.etag
    BY <1>1, EntityFacts DEF Entity
<1>4. Patched(t) = CASE tab[t].op = "save"    -> [d EXCEPT !.meta = d.etag]
                     [] tab[t].op = "archive" -> [d EXCEPT !.archived = TRUE]
                     [] tab[t].op = "add"     -> [d EXCEPT !.owners = tab[t].read \cup {tab[t].service}]
                     [] tab[t].op = "remove"  -> [d EXCEPT !.owners = tab[t].read \ {tab[t].service}]
    BY DEF Patched
<1> HIDE DEF d
<1>5. CASE tab[t].op = "save"
    BY <1>3, <1>4, <1>5 DEF Entity
<1>6. CASE tab[t].op = "archive"
    BY <1>3, <1>4, <1>6 DEF Entity
<1>7. CASE tab[t].op = "add"
    BY <1>2, <1>3, <1>4, <1>7 DEF Entity
<1>8. CASE tab[t].op = "remove"
    BY <1>2, <1>3, <1>4, <1>8 DEF Entity
<1> QED
    BY <1>2, <1>5, <1>6, <1>7, <1>8 DEF Operations

(* After a patch the page holds its answer, or what it held before.         *)
LEMMA ExecutePatchKeeps ==
    ASSUME CurationIInv, NEW t \in Tab, ExecutePatch(t)
    PROVE  CurationIInv'
<1>1. /\ tab[t] \in Page /\ TabConsistent(t) /\ entity \in Entity /\ TypeOK
      /\ tab[t].seen \in Entity /\ tab[t].etag \in 1..MaxVersion
      /\ \A p : [tab EXCEPT ![t] = p][t] = p
    BY PageFacts DEF CurationIInv
<1>2. tab[t].at = "ready" /\ entity.etag < MaxVersion /\ entity' = Patched(t)
    BY DEF ExecutePatch
<1>3. /\ entity' \in Entity /\ entity'.etag = entity.etag + 1
      /\ entity'.meta <= entity'.etag
    BY <1>2, PatchedType
<1>4. CASE \/ tab' = [tab EXCEPT ![t] = [Closed(entity') EXCEPT !.at = "open"]]
           \/ tab' = [tab EXCEPT ![t] = Closed(entity')]
  <2>1. PICK p \in {Closed(entity'), [Closed(entity') EXCEPT !.at = "open"]} :
            tab' = [tab EXCEPT ![t] = p]
      BY <1>4
  <2>2. p \in Page /\ p.at \in {"away", "open"} /\ p.seen = entity'
        /\ p.etag = entity'.etag /\ p.meta = entity'.meta
      BY <1>3, <2>1, ClosedType
  <2>3. tab'[t] = p /\ tab' \in [Tab -> Page] /\ \A u \in Tab : u # t => tab'[u] = tab[u]
      BY <1>1, <2>1, <2>2 DEF TypeOK
  <2>4. TabConsistent(t)'
      BY <1>3, <2>2, <2>3 DEF TabConsistent, Entity
  <2> QED
      BY <1>3, <2>3, <2>4, NewVersion
<1>5. CASE Ended(t, tab[t], "associated") \/ Ended(t, tab[t], "open")
  <2>1. PICK at \in {"associated", "open"} : Ended(t, tab[t], at)
      BY <1>5
  <2> DEFINE p == [tab[t] EXCEPT !.at = at, !.op = None, !.service = None, !.read = {},
                                 !.etag = tab[t].etag, !.meta = tab[t].meta]
  <2>2. tab' = [tab EXCEPT ![t] = p]
      BY <2>1 DEF Ended
  <2>3. p \in Page /\ p.seen = tab[t].seen /\ p.at \in {"associated", "open"}
        /\ p.etag = tab[t].etag
      BY <1>1, <2>1 DEF Page, Stages
  <2> HIDE DEF p
  <2>4. tab'[t] = p /\ tab' \in [Tab -> Page] /\ \A u \in Tab : u # t => tab'[u] = tab[u]
      BY <1>1, <2>2, <2>3 DEF TypeOK
  <2>5. /\ tab[t].etag # entity'.etag /\ tab[t].seen.etag # entity'.etag
        /\ tab[t].etag <= entity'.etag /\ tab[t].seen.etag <= entity'.etag
      BY <1>1, <1>3 DEF TabConsistent, Entity
  <2>6. TabConsistent(t)'
      BY <2>3, <2>4, <2>5 DEF TabConsistent
  <2> QED
      BY <1>3, <2>4, <2>6, NewVersion
<1> QED
    BY <1>4, <1>5 DEF ExecutePatch

-----------------------------------------------------------------------------
LEMMA NextInvariant == CurationIInv /\ [Next]_vars => CurationIInv'
<1> SUFFICES ASSUME CurationIInv, [Next]_vars PROVE CurationIInv'
    OBVIOUS
<1>1. ASSUME NEW t \in Tab, Open(t) \/ Leave(t) PROVE CurationIInv'
    BY <1>1, OpenKeeps
<1>2. ASSUME NEW t \in Tab, Refetch(t) PROVE CurationIInv'
    BY <1>2, RefetchKeeps
<1>3. ASSUME NEW t \in Tab, Reject(t) \/ Conflict(t) PROVE CurationIInv'
    BY <1>3, RejectKeeps
<1>4. ASSUME NEW t \in Tab, Associated(t) PROVE CurationIInv'
    BY <1>4, AssociatedKeeps
<1>5. ASSUME NEW t \in Tab, NEW op \in Operations, NEW s \in Service \cup {None},
             Ask(t, op, s)
      PROVE CurationIInv'
    BY <1>5, AskKeeps
<1>6. ASSUME NEW t \in Tab, Authorize(t) PROVE CurationIInv'
    BY <1>6, AuthorizeKeeps
<1>7. ASSUME NEW t \in Tab, ReadAssociations(t) PROVE CurationIInv'
    BY <1>7, ReadAssociationsKeeps
<1>8. ASSUME NEW t \in Tab, ExecutePatch(t) PROVE CurationIInv'
    BY <1>8, ExecutePatchKeeps
<1>9. CASE Discover
    BY <1>9, DiscoverKeeps
<1>10. CASE UNCHANGED vars
    BY <1>10 DEF vars, CurationIInv, TypeOK, TabConsistent
<1> QED
    BY <1>1, <1>2, <1>3, <1>4, <1>5, <1>6, <1>7, <1>8, <1>9, <1>10 DEF Next

-----------------------------------------------------------------------------
(* What a page holds and what its handler has found out agree with the      *)
(* document as long as the document is the version that the page sends:     *)
(* published-entity-edit-form.tsx, service-association-editor.tsx, the      *)
(* curation endpoints and CosmosPublishedEntityStore.Curation.cs.           *)
THEOREM CurationInvariant == Spec => []CurationIInv
<1>1. Init => CurationIInv
    BY InitInvariant
<1>2. CurationIInv /\ [Next]_vars => CurationIInv'
    BY NextInvariant
<1> QED
    BY <1>1, <1>2, PTL DEF Spec

(* Nobody holds a version that is not there yet, and a form holds the       *)
(* metadata of its version unless the association editor handed it the ETag. *)
THEOREM CurationTypeCorrect == Spec => []TypeOK
<1>1. CurationIInv => TypeOK
    BY DEF CurationIInv
<1> QED
    BY <1>1, CurationInvariant, PTL

(* Only the patch of a request changes the document and a page in one step. *)
LEMMA ChangeIsPatch ==
    ASSUME CurationIInv, Next, NEW t \in Tab, entity' # entity, tab'[t] # tab[t]
    PROVE  ExecutePatch(t)
<1>1. tab \in [Tab -> Page]
    BY DEF CurationIInv, TypeOK
<1>2. PICK u \in Tab : ExecutePatch(u)
    BY DEF Next, Open, Leave, Refetch, Reject, Associated, Ask, Authorize,
           ReadAssociations, Conflict, Discover
<1>3. \E p : tab' = [tab EXCEPT ![u] = p]
    BY <1>2 DEF ExecutePatch, Ended
<1>4. t = u
    BY <1>1, <1>3
<1> QED
    BY <1>2, <1>4

(* Add/RemoveAssociationAsync and the authorizer: authorization, the         *)
(* associations and the patch belong to one version of the document, so no   *)
(* association is lost and nobody changes what he may not.                   *)
THEOREM PatchesWhatWasRead == Spec => ChangesWhatWasRead
<1> DEFINE Change(t) ==
        entity' # entity /\ tab'[t] # tab[t] =>
          /\ Allowed(t, entity.owners)
          /\ entity'.owners = CASE tab[t].op = "add"    -> entity.owners \cup {tab[t].service}
                                [] tab[t].op = "remove" -> entity.owners \ {tab[t].service}
                                [] OTHER -> entity.owners
<1>1. CurationIInv /\ [Next]_vars => [\A t \in Tab : Change(t)]_vars
  <2> SUFFICES ASSUME CurationIInv, Next, NEW t \in Tab, entity' # entity,
                      tab'[t] # tab[t]
               PROVE  Change(t)
      OBVIOUS
  <2>1. ExecutePatch(t)
      BY ChangeIsPatch
  <2>2. tab[t].at = "ready" /\ tab[t].etag = entity.etag /\ entity' = Patched(t)
      BY <2>1 DEF ExecutePatch, IfMatch
  <2>3. /\ Allowed(t, entity.owners) /\ tab[t].op \in Operations
        /\ tab[t].op \in {"add", "remove"} => tab[t].read = entity.owners
      BY <2>2, PageFacts DEF TabConsistent
  <2>4. entity.owners \subseteq Service /\ entity \in Entity
      BY PageFacts DEF Entity
  <2>5. CASE tab[t].op = "save"
      BY <2>2, <2>3, <2>4, <2>5 DEF Patched, Entity
  <2>6. CASE tab[t].op = "archive"
      BY <2>2, <2>3, <2>4, <2>6 DEF Patched, Entity
  <2>7. CASE tab[t].op = "add"
      BY <2>2, <2>3, <2>4, <2>7 DEF Patched, Entity
  <2>8. CASE tab[t].op = "remove"
      BY <2>2, <2>3, <2>4, <2>8 DEF Patched, Entity
  <2> QED
      BY <2>3, <2>5, <2>6, <2>7, <2>8 DEF Operations
<1> QED
    BY <1>1, CurationInvariant, PTL DEF Spec, ChangesWhatWasRead

(* updateMutation of published-entity-edit-form.tsx: a save overwrites no    *)
(* metadata that its form never had, except after the association editor     *)
(* handed the form a newer ETag.                                            *)
THEOREM OverwritesFollowAssociating == Spec => OverwritesOnlyAfterAssociating
<1>1. CurationIInv /\ [Next]_vars
      => [\A t \in Tab : entity'.meta # entity.meta /\ tab'[t] # tab[t] =>
                             tab[t].meta = entity.meta \/ tab[t].handed]_vars
  <2> SUFFICES ASSUME CurationIInv, Next, NEW t \in Tab, entity'.meta # entity.meta,
                      tab'[t] # tab[t]
               PROVE  tab[t].meta = entity.meta \/ tab[t].handed
      OBVIOUS
  <2>1. ExecutePatch(t)
      BY ChangeIsPatch
  <2>2. tab[t].etag = entity.etag
      BY <2>1 DEF ExecutePatch, IfMatch
  <2> QED
      BY <2>2, PageFacts DEF TabConsistent
<1> QED
    BY <1>1, CurationInvariant, PTL DEF Spec, OverwritesOnlyAfterAssociating
=============================================================================
