-------------------- MODULE NamespaceOnboarding_proofs ---------------------
(***************************************************************************)
(* Proofs about the onboarding of Azure namespaces, for any number of       *)
(* wizards, resources and validation runs: what a namespace is created      *)
(* against, and when one resource can be onboarded twice.                   *)
(***************************************************************************)
EXTENDS NamespaceOnboarding, TLAPS

-----------------------------------------------------------------------------
(* Types.                                                                   *)
WizardState == [step : Steps, arm : ArmId \cup {None}, run : 0..MaxRuns,
                busy : 0..MaxRuns]
Post == [ns : Wizard, arm : ArmId, run : 1..MaxRuns, since : SUBSET Wizard,
         at : {"sent", "checked"}]

LEMMA FreshType == Fresh \in WizardState /\ Fresh.step = "form" /\ Fresh.run = 0
                   /\ Fresh.busy = 0 /\ Fresh.arm = None
<1>1. 0 \in 0..MaxRuns
    BY BoundsAssumption
<1> QED
    BY <1>1 DEF Fresh, WizardState, Steps

LEMMA AbsentIsNoDocument == Absent \notin Document
<1>1. Absent.run = 0
    BY DEF Absent
<1>2. \A d \in Document : d.run \in 1..MaxRuns
    BY DEF Document
<1>3. 0 \notin 1..MaxRuns
    BY BoundsAssumption
<1> QED
    BY <1>1, <1>2, <1>3

LEMMA CanonicalType ==
    ASSUME NEW a \in ArmId
    PROVE  Canonical[a] \in ArmId /\ Canonical[Canonical[a]] = Canonical[a]
    BY CanonicalAssumption

LEMMA RunFacts ==
    ASSUME TypeOK
    PROVE  /\ Len(runs) \in Nat /\ DOMAIN runs = 1..Len(runs) /\ Len(runs) <= MaxRuns
           /\ MaxRuns \in Nat
           /\ \A k \in DOMAIN runs : /\ k \in 1..MaxRuns /\ k \in Nat /\ k # 0
                                     /\ runs[k] \in Run
                                     /\ runs[k].ns \in Wizard /\ runs[k].arm \in ArmId
<1>1. runs \in Seq(Run) /\ Len(runs) <= MaxRuns
    BY DEF TypeOK
<1>2. Len(runs) \in Nat /\ DOMAIN runs = 1..Len(runs)
    BY <1>1
<1>3. \A k \in DOMAIN runs : runs[k] \in Run
    BY <1>1, <1>2
<1>4. \A r \in Run : r.ns \in Wizard /\ r.arm \in ArmId
    BY DEF Run
<1> QED
    BY <1>1, <1>2, <1>3, <1>4, BoundsAssumption

LEMMA WizardFacts ==
    ASSUME TypeOK, NEW w \in Wizard
    PROVE  /\ wizard[w] \in WizardState /\ wizard[w].step \in Steps
           /\ wizard[w].arm \in ArmId \cup {None}
           /\ wizard[w].run \in 0..MaxRuns /\ wizard[w].busy \in 0..MaxRuns
           /\ answers[w] \subseteq 1..MaxRuns
<1>1. wizard[w] \in WizardState /\ answers[w] \in SUBSET (1..MaxRuns)
    BY DEF TypeOK, WizardState
<1> QED
    BY <1>1 DEF WizardState

LEMMA PostFacts ==
    ASSUME TypeOK, NEW p \in posts
    PROVE  /\ p \in Post /\ p.ns \in Wizard /\ p.arm \in ArmId /\ p.run \in 1..MaxRuns
           /\ p.since \subseteq Wizard /\ p.at \in {"sent", "checked"}
<1>1. p \in Post
    BY DEF TypeOK, Post
<1> QED
    BY <1>1 DEF Post

(* A document is of the same resource as what was typed and as the parser's  *)
(* form of it.                                                              *)
LEMMA OnboardedOfCanonical ==
    ASSUME NEW a \in ArmId
    PROVE  Onboarded(Canonical[a]) = Onboarded(a)
    BY CanonicalType DEF Onboarded, SameResource

-----------------------------------------------------------------------------
LEMMA InitInvariant == Init => OnboardingIInv
<1> SUFFICES ASSUME Init PROVE OnboardingIInv
    OBVIOUS
<1>1. runs = <<>> /\ Len(runs) = 0 /\ DOMAIN runs = {} /\ runs \in Seq(Run)
    BY DEF Init
<1>2. \A n \in Wizard : ~Exists(n)
    BY DEF Init, Exists
<1>3. wizard \in [Wizard -> WizardState] /\ \A w \in Wizard : wizard[w] = Fresh
    BY FreshType DEF Init
<1>4. TypeOK
    BY <1>1, <1>2, <1>3, BoundsAssumption DEF TypeOK, Init, WizardState
<1>5. \A w \in Wizard : WizardConsistent(w)
    BY <1>1, <1>3, FreshType DEF WizardConsistent, Init
<1> QED
    BY <1>1, <1>2, <1>4, <1>5 DEF OnboardingIInv, ForeignRunOnlyByLateAnswer, Init

-----------------------------------------------------------------------------
(* A step of wizard w alone, which may start runs of its namespace: the      *)
(* other wizards keep what they have, the posts what they were sent with.    *)
LEMMA WizardStep ==
    ASSUME OnboardingIInv, NEW w \in Wizard, NEW v \in WizardState,
           wizard' = [wizard EXCEPT ![w] = v], UNCHANGED <<store, posts>>,
           runs' \in Seq(Run), Len(runs') <= MaxRuns, DOMAIN runs \subseteq DOMAIN runs',
           \A k \in DOMAIN runs : runs'[k] = runs[k],
           \A k \in DOMAIN runs' : k \notin DOMAIN runs =>
               runs'[k].ns = w /\ Canonical[runs'[k].arm] = runs'[k].arm,
           answers' \in [Wizard -> SUBSET (1..MaxRuns)],
           strayed \subseteq strayed', strayed' \subseteq Wizard,
           \A u \in Wizard : u # w => answers'[u] = answers[u],
           WizardConsistent(w)',
           \A p \in posts : p.ns = w /\ v.step = "review" /\ v.busy # 0 =>
               w \in strayed' \/ p.run = v.run
    PROVE  OnboardingIInv'
<1>1. /\ TypeOK /\ ForeignRunOnlyByLateAnswer
      /\ \A k \in DOMAIN runs : Canonical[runs[k].arm] = runs[k].arm
      /\ \A u \in Wizard : WizardConsistent(u)
      /\ \A p \in posts : PostConsistent(p)
    BY DEF OnboardingIInv
<1>2. /\ wizard' \in [Wizard -> WizardState] /\ wizard'[w] = v
      /\ \A u \in Wizard : u # w => wizard'[u] = wizard[u]
    BY <1>1 DEF TypeOK, WizardState
<1>3. \A n \in Wizard : Exists(n)' <=> Exists(n)
    BY DEF Exists
<1>4. TypeOK'
    BY <1>1, <1>2, <1>3 DEF TypeOK, WizardState, Post
<1>5. ForeignRunOnlyByLateAnswer'
    BY <1>1, <1>3 DEF ForeignRunOnlyByLateAnswer, TypeOK
<1>6. (\A k \in DOMAIN runs : Canonical[runs[k].arm] = runs[k].arm)'
    BY <1>1
<1>7. ASSUME NEW u \in Wizard, u # w PROVE WizardConsistent(u)'
  <2>1. wizard'[u] = wizard[u] /\ answers'[u] = answers[u] /\ WizardConsistent(u)
      BY <1>1, <1>2, <1>7
  <2>2. \A k \in DOMAIN runs' : runs'[k].ns = u => k \in DOMAIN runs
      BY <1>7
  <2> QED
      BY <2>1, <2>2 DEF WizardConsistent
<1>8. ASSUME NEW p \in posts PROVE PostConsistent(p)'
  <2>1. PostConsistent(p) /\ p.ns \in Wizard
      BY <1>1, <1>8, PostFacts
  <2>2. Onboarded(p.arm)' = Onboarded(p.arm)
      BY DEF Onboarded, Exists
  <2> QED
      BY <1>2, <2>1, <2>2 DEF PostConsistent
<1> QED
    BY <1>4, <1>5, <1>6, <1>7, <1>8 DEF OnboardingIInv

(* ... and one that starts no run.                                          *)
LEMMA WizardOnlyStep ==
    ASSUME OnboardingIInv, NEW w \in Wizard, NEW v \in WizardState,
           wizard' = [wizard EXCEPT ![w] = v], UNCHANGED <<store, posts, runs>>,
           answers' \in [Wizard -> SUBSET (1..MaxRuns)],
           strayed \subseteq strayed', strayed' \subseteq Wizard,
           \A u \in Wizard : u # w => answers'[u] = answers[u],
           WizardConsistent(w)',
           \A p \in posts : p.ns = w /\ v.step = "review" /\ v.busy # 0 =>
               w \in strayed' \/ p.run = v.run
    PROVE  OnboardingIInv'
<1>1. runs' \in Seq(Run) /\ Len(runs') <= MaxRuns
    BY DEF OnboardingIInv, TypeOK
<1>2. runs' = runs /\ UNCHANGED <<store, posts>>
    OBVIOUS
<1>3. \A k \in DOMAIN runs : runs'[k] = runs[k]
    BY <1>2
<1>4. \A k \in DOMAIN runs' : k \in DOMAIN runs
    BY <1>2
<1>5. DOMAIN runs \subseteq DOMAIN runs'
    BY <1>2
<1> QED
    BY <1>1, <1>2, <1>3, <1>4, <1>5, WizardStep

-----------------------------------------------------------------------------
(* One lemma per action.                                                    *)
LEMMA FinishRunKeeps ==
    ASSUME OnboardingIInv, NEW k \in DOMAIN runs, FinishRun(k)
    PROVE  OnboardingIInv'
<1>1. /\ TypeOK /\ ForeignRunOnlyByLateAnswer
      /\ \A j \in DOMAIN runs : Canonical[runs[j].arm] = runs[j].arm
      /\ \A w \in Wizard : WizardConsistent(w)
      /\ \A p \in posts : PostConsistent(p)
    BY DEF OnboardingIInv
<1>2. runs[k].status = "running" /\ UNCHANGED <<store, wizard, answers, posts, strayed>>
    BY DEF FinishRun, wizardVars
<1>3. PICK status \in Outcomes \cup {"failed"} : runs' = [runs EXCEPT ![k].status = status]
    BY DEF FinishRun
<1> DEFINE r == [runs[k] EXCEPT !.status = status]
<1>4. r \in Run /\ r.ns = runs[k].ns /\ r.arm = runs[k].arm
  <2>1. runs[k] \in Run
      BY <1>1, RunFacts
  <2> QED
      BY <2>1 DEF Run
<1>5. runs' = [runs EXCEPT ![k] = r]
    BY <1>3
<1> HIDE DEF r
<1>6. /\ runs' \in Seq(Run) /\ Len(runs') = Len(runs) /\ DOMAIN runs' = DOMAIN runs
      /\ \A j \in DOMAIN runs : j # k => runs'[j] = runs[j]
      /\ runs'[k] = r
    BY <1>1, <1>4, <1>5 DEF TypeOK
<1>7. \A j \in DOMAIN runs : /\ runs'[j].ns = runs[j].ns /\ runs'[j].arm = runs[j].arm
                             /\ runs[j].status = "failed" => runs'[j].status = "failed"
    BY <1>2, <1>4, <1>6
<1>8. \A n \in Wizard : Exists(n)' <=> Exists(n)
    BY <1>2 DEF Exists
<1>9. TypeOK'
    BY <1>1, <1>2, <1>6, <1>7, <1>8 DEF TypeOK
<1>10. ForeignRunOnlyByLateAnswer'
    BY <1>1, <1>2, <1>7, <1>8 DEF ForeignRunOnlyByLateAnswer, TypeOK
<1>11. (\A j \in DOMAIN runs : Canonical[runs[j].arm] = runs[j].arm)'
    BY <1>1, <1>6, <1>7
<1>12. ASSUME NEW w \in Wizard PROVE WizardConsistent(w)'
    BY <1>1, <1>2, <1>6, <1>7 DEF WizardConsistent
<1>13. ASSUME NEW p \in posts PROVE PostConsistent(p)'
  <2>1. Onboarded(p.arm)' = Onboarded(p.arm)
      BY <1>2 DEF Onboarded, Exists
  <2> QED
      BY <1>1, <1>2, <1>6, <1>7, <2>1 DEF PostConsistent
<1> QED
    BY <1>2, <1>9, <1>10, <1>11, <1>12, <1>13 DEF OnboardingIInv

LEMMA TypeArmIdKeeps ==
    ASSUME OnboardingIInv, NEW w \in Wizard, NEW arm \in ArmId, TypeArmId(w, arm)
    PROVE  OnboardingIInv'
<1>1. TypeOK /\ WizardConsistent(w)
    BY DEF OnboardingIInv
<1> DEFINE v == [wizard[w] EXCEPT !.arm = arm]
<1>2. /\ v \in WizardState /\ v.step = "form" /\ v.arm = arm
      /\ v.run = wizard[w].run /\ v.busy = wizard[w].busy
    BY <1>1, WizardFacts DEF WizardState, TypeArmId
<1>3. /\ wizard' = [wizard EXCEPT ![w] = v]
      /\ UNCHANGED <<store, runs, answers, posts, strayed>>
    BY DEF TypeArmId, WizardOnly
<1> HIDE DEF v
<1>4. wizard'[w] = v
    BY <1>1, <1>3 DEF TypeOK
<1>5. WizardConsistent(w)'
    BY <1>1, <1>2, <1>3, <1>4 DEF WizardConsistent
<1> QED
    BY <1>1, <1>2, <1>3, <1>5, WizardOnlyStep DEF TypeOK

(* A wizard goes to another step and shows the same run.                     *)
LEMMA ShowKeeps ==
    ASSUME OnboardingIInv, NEW w \in Wizard, NEW step \in Steps, Show(w, step),
           UNCHANGED <<runs, answers, strayed, store, posts>>,
           step \in {"validation", "review"} => wizard[w].arm \in ArmId,
           step = "review" => /\ wizard[w].run # 0
                              /\ runs[wizard[w].run].arm = wizard[w].arm \/ w \in strayed
    PROVE  OnboardingIInv'
<1>1. TypeOK /\ WizardConsistent(w)
    BY DEF OnboardingIInv
<1> DEFINE v == [wizard[w] EXCEPT !.step = step, !.busy = 0]
<1>2. /\ v \in WizardState /\ v.step = step /\ v.arm = wizard[w].arm
      /\ v.run = wizard[w].run /\ v.busy = 0
  <2>1. 0 \in 0..MaxRuns
      BY BoundsAssumption
  <2> QED
      BY <1>1, <2>1, WizardFacts DEF WizardState
<1>3. wizard' = [wizard EXCEPT ![w] = v]
    BY DEF Show
<1> HIDE DEF v
<1>4. wizard'[w] = v
    BY <1>1, <1>3 DEF TypeOK
<1>5. WizardConsistent(w)'
    BY <1>1, <1>2, <1>3, <1>4 DEF WizardConsistent
<1> QED
    BY <1>1, <1>2, <1>3, <1>5, WizardOnlyStep DEF TypeOK

LEMMA GoToValidationKeeps ==
    ASSUME OnboardingIInv, NEW w \in Wizard, GoToValidation(w)
    PROVE  OnboardingIInv'
<1>1. TypeOK /\ WizardConsistent(w)
    BY DEF OnboardingIInv
<1>2. /\ Show(w, "validation") /\ UNCHANGED <<runs, answers, strayed, store, posts>>
      /\ wizard[w].arm # None \/ wizard[w].step = "review"
    BY DEF GoToValidation, WizardOnly
<1>3. wizard[w].arm \in ArmId
    BY <1>1, <1>2, WizardFacts DEF WizardConsistent
<1> QED
    BY <1>2, <1>3, ShowKeeps DEF Steps

LEMMA GoBackKeeps ==
    ASSUME OnboardingIInv, NEW w \in Wizard, GoBack(w)
    PROVE  OnboardingIInv'
<1>1. Show(w, "form") /\ UNCHANGED <<runs, answers, strayed, store, posts>>
    BY DEF GoBack, WizardOnly
<1> QED
    BY <1>1, ShowKeeps DEF Steps

LEMMA ContinueKeeps ==
    ASSUME OnboardingIInv, NEW w \in Wizard, Continue(w)
    PROVE  OnboardingIInv'
<1>1. TypeOK /\ WizardConsistent(w)
    BY DEF OnboardingIInv
<1>2. /\ Show(w, "review") /\ UNCHANGED <<runs, answers, strayed, store, posts>>
      /\ wizard[w].step = "validation" /\ wizard[w].run # 0
      /\ runs[wizard[w].run].arm = wizard[w].arm
    BY DEF Continue, WizardOnly, ShowsOk, ArmIdIsStale
<1>3. wizard[w].arm \in ArmId
    BY <1>1, <1>2 DEF WizardConsistent
<1> QED
    BY <1>2, <1>3, ShowKeeps DEF Steps

LEMMA ReopenKeeps ==
    ASSUME OnboardingIInv, NEW w \in Wizard, Reopen(w)
    PROVE  OnboardingIInv'
<1>1. TypeOK
    BY DEF OnboardingIInv
<1> DEFINE v == [Fresh EXCEPT !.arm = wizard[w].arm]
<1>2. v \in WizardState /\ v.step = "form" /\ v.run = 0
    BY <1>1, FreshType, WizardFacts DEF WizardState
<1>3. /\ wizard' = [wizard EXCEPT ![w] = v] /\ answers' = [answers EXCEPT ![w] = {}]
      /\ UNCHANGED <<store, runs, posts, strayed>>
    BY DEF Reopen, WizardOnly
<1> HIDE DEF v
<1>4. /\ wizard'[w] = v /\ answers'[w] = {}
      /\ answers' \in [Wizard -> SUBSET (1..MaxRuns)]
      /\ \A u \in Wizard : u # w => answers'[u] = answers[u]
    BY <1>1, <1>3 DEF TypeOK
<1>5. WizardConsistent(w)'
    BY <1>2, <1>4 DEF WizardConsistent
<1> QED
    BY <1>1, <1>2, <1>3, <1>4, <1>5, WizardOnlyStep DEF TypeOK

LEMMA RunValidationKeeps ==
    ASSUME OnboardingIInv, NEW w \in Wizard, RunValidation(w)
    PROVE  OnboardingIInv'
<1>1. TypeOK /\ WizardConsistent(w)
    BY DEF OnboardingIInv
<1> DEFINE v == [wizard[w] EXCEPT !.busy = NewRun]
           r == [ns |-> w, arm |-> Canonical[wizard[w].arm], status |-> "running"]
<1>2. /\ wizard[w].step = "validation" /\ wizard[w].busy = 0
      /\ runs' = Append(runs, r) /\ Len(runs) < MaxRuns
      /\ wizard' = [wizard EXCEPT ![w] = v]
      /\ answers' = [answers EXCEPT ![w] = @ \cup {NewRun}]
      /\ UNCHANGED <<store, posts, strayed>>
    BY DEF RunValidation, StartRun, WizardOnly
<1>3. wizard[w].arm \in ArmId
    BY <1>1, <1>2 DEF WizardConsistent
<1>4. r \in Run /\ r.ns = w /\ Canonical[r.arm] = r.arm
    BY <1>3, CanonicalType DEF Run
<1>5. /\ NewRun = Len(runs) + 1 /\ NewRun \in 1..MaxRuns /\ NewRun \in 0..MaxRuns
      /\ NewRun \notin DOMAIN runs /\ NewRun # 0
      /\ \A k \in DOMAIN runs : k <= NewRun
    BY <1>1, <1>2, RunFacts DEF NewRun
<1>6. /\ v \in WizardState /\ v.step = "validation" /\ v.arm = wizard[w].arm
      /\ v.run = wizard[w].run /\ v.busy = NewRun
    BY <1>1, <1>2, <1>5, WizardFacts DEF WizardState
<1> HIDE DEF v, r
<1>7. /\ runs' \in Seq(Run) /\ Len(runs') = NewRun
      /\ DOMAIN runs' = DOMAIN runs \cup {NewRun} /\ runs'[NewRun] = r
      /\ \A k \in DOMAIN runs : runs'[k] = runs[k]
    BY <1>1, <1>2, <1>4, <1>5, RunFacts DEF TypeOK
<1>8. /\ answers' \in [Wizard -> SUBSET (1..MaxRuns)]
      /\ answers'[w] = answers[w] \cup {NewRun}
      /\ \A u \in Wizard : u # w => answers'[u] = answers[u]
    BY <1>1, <1>2, <1>5 DEF TypeOK
<1>9. wizard'[w] = v
    BY <1>1, <1>2 DEF TypeOK
<1>10. WizardConsistent(w)'
  <2>1. /\ wizard'[w].step = "validation" /\ wizard'[w].arm \in ArmId
        /\ wizard'[w].run = wizard[w].run /\ wizard'[w].busy = NewRun
        /\ wizard[w].run # 0 => /\ wizard[w].run \in DOMAIN runs'
                                /\ runs'[wizard[w].run].ns = w
      BY <1>1, <1>3, <1>6, <1>7, <1>9 DEF WizardConsistent
  <2>2. \A k \in answers'[w] : k \in DOMAIN runs' /\ runs'[k].ns = w
      BY <1>1, <1>4, <1>7, <1>8 DEF WizardConsistent
  <2>3. NewRun \in answers'[w] /\ \A k \in DOMAIN runs' : k <= NewRun
      BY <1>5, <1>7, <1>8
  <2>4. wizard[w].run # 0 =>
          \/ w \in strayed
          \/ \A k \in DOMAIN runs' : runs'[k].ns = w /\ k > wizard[w].run =>
                 k \in answers'[w] \/ runs'[k].status = "failed"
      BY <1>1, <1>7, <1>8 DEF WizardConsistent
  <2> QED
      BY <1>2, <2>1, <2>2, <2>3, <2>4 DEF WizardConsistent
<1>11. DOMAIN runs \subseteq DOMAIN runs' /\ Len(runs') <= MaxRuns
    BY <1>5, <1>7, BoundsAssumption
<1>12. \A k \in DOMAIN runs' : k \notin DOMAIN runs =>
           runs'[k].ns = w /\ Canonical[runs'[k].arm] = runs'[k].arm
    BY <1>4, <1>7
<1>13. strayed \subseteq strayed' /\ strayed' \subseteq Wizard
    BY <1>1, <1>2 DEF TypeOK
<1>14. \A p \in posts : p.ns = w /\ v.step = "review" /\ v.busy # 0 =>
           w \in strayed' \/ p.run = v.run
    BY <1>6
<1>15. UNCHANGED <<store, posts>> /\ wizard' = [wizard EXCEPT ![w] = v]
    BY <1>2
<1>16. \A k \in DOMAIN runs : runs'[k] = runs[k]
    BY <1>7
<1>17. v \in WizardState /\ runs' \in Seq(Run)
    BY <1>6, <1>7
<1> QED
    BY <1>8, <1>10, <1>11, <1>12, <1>13, <1>14, <1>15, <1>16, <1>17,
       WizardStep

LEMMA AnswerKeeps ==
    ASSUME OnboardingIInv, NEW w \in Wizard, NEW k \in answers[w], Answer(w, k)
    PROVE  OnboardingIInv'
<1>1. TypeOK /\ WizardConsistent(w)
    BY DEF OnboardingIInv
<1> DEFINE busy == IF wizard[w].busy = k /\ wizard[w].step = "validation"
                   THEN 0 ELSE wizard[w].busy
           v == [wizard[w] EXCEPT !.run = Shown(w, k), !.busy = busy]
           awaited == wizard[w].step = "validation" /\ wizard[w].busy = k
<1>2. /\ runs[k].status # "running" /\ UNCHANGED <<store, runs, posts>>
      /\ answers' = [answers EXCEPT ![w] = @ \ {k}]
      /\ wizard' = [wizard EXCEPT ![w] = v]
      /\ strayed' = IF awaited THEN strayed ELSE strayed \cup {w}
    BY DEF Answer, WizardOnly
<1>3. k \in DOMAIN runs /\ runs[k].ns = w /\ k \in 1..MaxRuns /\ k # 0
    BY <1>1, RunFacts DEF WizardConsistent
<1>4. /\ Shown(w, k) \in 0..MaxRuns
      /\ Shown(w, k) = IF runs[k].status = "failed" THEN wizard[w].run ELSE k
    BY <1>1, <1>3, RunFacts, WizardFacts DEF Shown
<1>5. busy \in 0..MaxRuns
    BY <1>1, WizardFacts, BoundsAssumption
<1>6. /\ v \in WizardState /\ v.step = wizard[w].step /\ v.arm = wizard[w].arm
      /\ v.run = Shown(w, k) /\ v.busy = busy
    BY <1>1, <1>4, <1>5, WizardFacts DEF WizardState
<1> HIDE DEF v
<1>7. /\ answers' \in [Wizard -> SUBSET (1..MaxRuns)]
      /\ answers'[w] = answers[w] \ {k}
      /\ \A u \in Wizard : u # w => answers'[u] = answers[u]
    BY <1>1, <1>2 DEF TypeOK
<1>8. wizard'[w] = v
    BY <1>1, <1>2 DEF TypeOK
<1>9. strayed \subseteq strayed' /\ strayed' \subseteq Wizard /\ (awaited \/ w \in strayed')
    BY <1>1, <1>2 DEF TypeOK
<1>10. WizardConsistent(w)'
  <2>1. wizard'[w].run # 0 =>
          wizard'[w].run \in DOMAIN runs' /\ runs'[wizard'[w].run].ns = w
      BY <1>1, <1>2, <1>3, <1>4, <1>6, <1>8 DEF WizardConsistent
  <2>2. \A j \in answers'[w] : j \in DOMAIN runs' /\ runs'[j].ns = w
      BY <1>1, <1>2, <1>7 DEF WizardConsistent
  <2>3. wizard'[w].step \in {"validation", "review"} => wizard'[w].arm \in ArmId
      BY <1>1, <1>6, <1>8 DEF WizardConsistent
  <2>4. wizard'[w].step = "validation" /\ wizard'[w].busy # 0 =>
          /\ wizard'[w].busy \in answers'[w]
          /\ \A j \in DOMAIN runs' : runs'[j].ns = w => j <= wizard'[w].busy
      BY <1>1, <1>2, <1>6, <1>7, <1>8 DEF WizardConsistent
  <2>5. wizard'[w].step = "review" => wizard'[w].run # 0 /\ w \in strayed'
      BY <1>1, <1>3, <1>4, <1>6, <1>8, <1>9 DEF WizardConsistent
  <2>6. wizard'[w].run # 0 =>
          \/ w \in strayed'
          \/ \A j \in DOMAIN runs' : runs'[j].ns = w /\ j > wizard'[w].run =>
                 j \in answers'[w] \/ runs'[j].status = "failed"
    <3>1. CASE ~awaited
        BY <1>9, <3>1
    <3>2. CASE awaited /\ runs[k].status = "failed"
        BY <1>1, <1>2, <1>4, <1>6, <1>7, <1>8, <3>2 DEF WizardConsistent
    <3>3. CASE awaited /\ runs[k].status # "failed"
      <4>1. wizard'[w].run = k
          BY <1>4, <1>6, <1>8, <3>3
      <4>2. \A j \in DOMAIN runs : runs[j].ns = w => j <= k
          BY <1>1, <1>3, <3>3 DEF WizardConsistent
      <4>3. \A j \in DOMAIN runs : j \in Nat /\ k \in Nat
          BY <1>1, <1>3, RunFacts
      <4> QED
          BY <1>2, <4>1, <4>2, <4>3
    <3> QED
        BY <3>1, <3>2, <3>3
  <2> QED
      BY <2>1, <2>2, <2>3, <2>4, <2>5, <2>6 DEF WizardConsistent
<1>11. ASSUME NEW p \in posts, p.ns = w, v.step = "review", v.busy # 0
       PROVE  w \in strayed'
    BY <1>6, <1>9, <1>11
<1> QED
    BY <1>2, <1>6, <1>7, <1>9, <1>10, <1>11, WizardOnlyStep

-----------------------------------------------------------------------------
(* Registrations.                                                           *)
LEMMA RegisterKeeps ==
    ASSUME OnboardingIInv, NEW w \in Wizard, Register(w)
    PROVE  OnboardingIInv'
<1>1. /\ TypeOK /\ ForeignRunOnlyByLateAnswer
      /\ \A k \in DOMAIN runs : Canonical[runs[k].arm] = runs[k].arm
      /\ \A u \in Wizard : WizardConsistent(u)
      /\ \A p \in posts : PostConsistent(p)
    BY DEF OnboardingIInv
<1> DEFINE v == [wizard[w] EXCEPT !.busy = 1]
           q == [ns |-> w, arm |-> wizard[w].arm, since |-> {},
                 run |-> wizard[w].run, at |-> "sent"]
<1>2. /\ wizard[w].step = "review" /\ wizard[w].run # 0 /\ \A p \in posts : p.ns # w
      /\ wizard' = [wizard EXCEPT ![w] = v] /\ posts' = posts \cup {q}
      /\ UNCHANGED <<store, runs, answers, strayed>>
    BY DEF Register, ShowsOk
<1>3. /\ wizard[w].arm \in ArmId /\ wizard[w].run \in DOMAIN runs
      /\ runs[wizard[w].run].ns = w
      /\ runs[wizard[w].run].arm = wizard[w].arm \/ w \in strayed
    BY <1>1, <1>2 DEF WizardConsistent
<1>4. wizard[w].run \in 1..MaxRuns /\ 1 \in 0..MaxRuns
    BY <1>1, <1>3, RunFacts
<1>5. /\ v \in WizardState /\ v.step = wizard[w].step /\ v.arm = wizard[w].arm
      /\ v.run = wizard[w].run /\ v.busy = 1
    BY <1>1, <1>4, WizardFacts DEF WizardState
<1>6. /\ q \in Post /\ q.ns = w /\ q.arm = wizard[w].arm /\ q.run = wizard[w].run
      /\ q.at = "sent"
    BY <1>3, <1>4 DEF Post
<1> HIDE DEF v, q
<1>7. /\ wizard' \in [Wizard -> WizardState] /\ wizard'[w] = v
      /\ \A u \in Wizard : u # w => wizard'[u] = wizard[u]
    BY <1>1, <1>2, <1>5 DEF TypeOK, WizardState
<1>8. \A n \in Wizard : Exists(n)' <=> Exists(n)
    BY <1>2 DEF Exists
<1>9. posts' \subseteq Post
    BY <1>1, <1>2, <1>6 DEF TypeOK, Post
<1>10. TypeOK'
    BY <1>1, <1>2, <1>7, <1>8, <1>9 DEF TypeOK, WizardState, Post
<1>11. ForeignRunOnlyByLateAnswer'
    BY <1>1, <1>2, <1>8 DEF ForeignRunOnlyByLateAnswer
<1>12. ASSUME NEW u \in Wizard PROVE WizardConsistent(u)'
  <2>1. WizardConsistent(u) /\ WizardConsistent(w)
      BY <1>1
  <2>2. CASE u = w
      BY <1>2, <1>5, <1>7, <2>1, <2>2 DEF WizardConsistent
  <2>3. CASE u # w
      BY <1>2, <1>7, <2>1, <2>3 DEF WizardConsistent
  <2> QED
      BY <2>2, <2>3
<1>13. ASSUME NEW p \in posts PROVE PostConsistent(p)'
  <2>1. PostConsistent(p) /\ p.ns \in Wizard /\ p.ns # w
      BY <1>1, <1>2, PostFacts
  <2>2. Onboarded(p.arm)' = Onboarded(p.arm)
      BY <1>2 DEF Onboarded, Exists
  <2> QED
      BY <1>2, <1>6, <1>7, <2>1, <2>2 DEF PostConsistent
<1>14. ASSUME NEW p \in posts', p = q PROVE PostConsistent(p)'
  <2>1. runs[q.run].arm = Canonical[q.arm] \/ q.ns \in strayed
      BY <1>1, <1>3, <1>6
  <2> QED
      BY <1>2, <1>3, <1>5, <1>6, <1>7, <1>14, <2>1 DEF PostConsistent
<1> QED
    BY <1>1, <1>2, <1>10, <1>11, <1>12, <1>13, <1>14 DEF OnboardingIInv

LEMMA OnboardingCheckKeeps ==
    ASSUME OnboardingIInv, NEW p \in posts, OnboardingCheck(p)
    PROVE  OnboardingIInv'
<1>1. /\ TypeOK /\ ForeignRunOnlyByLateAnswer
      /\ \A k \in DOMAIN runs : Canonical[runs[k].arm] = runs[k].arm
      /\ \A u \in Wizard : WizardConsistent(u)
      /\ \A q \in posts : PostConsistent(q)
    BY DEF OnboardingIInv
<1> DEFINE c == [p EXCEPT !.at = "checked"]
<1>2. /\ Onboarded(p.arm) = {} /\ posts' = (posts \ {p}) \cup {c}
      /\ UNCHANGED <<store, runs, wizard, answers, strayed>>
    BY DEF OnboardingCheck
<1>3. /\ c \in Post /\ c.ns = p.ns /\ c.arm = p.arm /\ c.run = p.run /\ c.at = "checked"
      /\ c.since = p.since
    BY <1>1, PostFacts DEF Post
<1> HIDE DEF c
<1>4. \A n \in Wizard : Exists(n)' <=> Exists(n)
    BY <1>2 DEF Exists
<1>5. posts' \subseteq Post
    BY <1>1, <1>2, <1>3 DEF TypeOK, Post
<1>6. TypeOK'
    BY <1>1, <1>2, <1>4, <1>5 DEF TypeOK, Post
<1>7. ForeignRunOnlyByLateAnswer'
    BY <1>1, <1>2, <1>4 DEF ForeignRunOnlyByLateAnswer
<1>8. \A u \in Wizard : WizardConsistent(u)'
    BY <1>1, <1>2 DEF WizardConsistent
<1>9. ASSUME NEW q \in posts' PROVE PostConsistent(q)'
  <2>1. \A a \in ArmId : Onboarded(a)' = Onboarded(a)
      BY <1>2 DEF Onboarded, Exists
  <2>2. p.arm \in ArmId /\ PostConsistent(p)
      BY <1>1, PostFacts
  <2>3. CASE q = c
    <3>1. Onboarded(c.arm)' = {}
        BY <1>2, <1>3, <2>1, <2>2
    <3> QED
        BY <1>2, <1>3, <2>2, <2>3, <3>1 DEF PostConsistent
  <2>4. CASE q # c
    <3>1. q \in posts /\ q # p /\ PostConsistent(q) /\ q.arm \in ArmId
        BY <1>1, <1>2, <2>4, PostFacts
    <3>2. q.ns # p.ns
        BY <3>1 DEF PostConsistent
    <3>3. Onboarded(q.arm)' = Onboarded(q.arm)
        BY <2>1, <3>1
    <3> QED
        BY <1>2, <1>3, <3>1, <3>2, <3>3 DEF PostConsistent
  <2> QED
      BY <2>3, <2>4
<1> QED
    BY <1>1, <1>2, <1>6, <1>7, <1>8, <1>9 DEF OnboardingIInv

(* The response to a registration leaves the wizard consistent, and waiting  *)
(* for nothing in step 5.                                                   *)
LEMMA AnsweredFacts ==
    ASSUME OnboardingIInv, NEW w \in Wizard, NEW step \in {wizard[w].step, "registered"},
           Answered(w, step), UNCHANGED <<runs, answers, strayed>>
    PROVE  /\ wizard' \in [Wizard -> WizardState]
           /\ \A u \in Wizard : u # w => wizard'[u] = wizard[u]
           /\ \A u \in Wizard : WizardConsistent(u)'
           /\ wizard'[w].step = "review" => wizard'[w].busy = 0
<1>1. TypeOK /\ \A u \in Wizard : WizardConsistent(u)
    BY DEF OnboardingIInv
<1>2. wizard \in [Wizard -> WizardState] /\ wizard[w] \in WizardState
    BY <1>1 DEF TypeOK, WizardState
<1>3. CASE wizard[w].step = "review" \/ step = "registered"
  <2> DEFINE v == [wizard[w] EXCEPT !.step = step, !.busy = 0]
  <2>1. wizard' = [wizard EXCEPT ![w] = v]
      BY <1>3 DEF Answered
  <2>2. /\ v \in WizardState /\ v.step = step /\ v.arm = wizard[w].arm
        /\ v.run = wizard[w].run /\ v.busy = 0
    <3>1. 0 \in 0..MaxRuns /\ step \in Steps
        BY <1>1, WizardFacts, BoundsAssumption DEF Steps
    <3> QED
        BY <1>2, <3>1 DEF WizardState
  <2> HIDE DEF v
  <2>3. /\ wizard' \in [Wizard -> WizardState] /\ wizard'[w] = v
        /\ \A u \in Wizard : u # w => wizard'[u] = wizard[u]
      BY <1>2, <2>1, <2>2
  <2>4. ASSUME NEW u \in Wizard PROVE WizardConsistent(u)'
    <3>1. WizardConsistent(u) /\ WizardConsistent(w)
        BY <1>1
    <3>2. CASE u = w
        BY <1>3, <2>2, <2>3, <3>1, <3>2 DEF WizardConsistent
    <3>3. CASE u # w
        BY <2>3, <3>1, <3>3 DEF WizardConsistent
    <3> QED
        BY <3>2, <3>3
  <2> QED
      BY <2>2, <2>3, <2>4
<1>4. CASE wizard[w].step # "review" /\ step # "registered"
  <2>1. wizard' = wizard
      BY <1>4 DEF Answered
  <2>2. \A u \in Wizard : WizardConsistent(u)'
      BY <1>1, <2>1 DEF WizardConsistent
  <2> QED
      BY <1>2, <1>4, <2>1, <2>2
<1> QED
    BY <1>3, <1>4

LEMMA RejectKeeps ==
    ASSUME OnboardingIInv, NEW p \in posts, Reject(p)
    PROVE  OnboardingIInv'
<1>1. /\ TypeOK /\ ForeignRunOnlyByLateAnswer
      /\ \A k \in DOMAIN runs : Canonical[runs[k].arm] = runs[k].arm
      /\ \A q \in posts : PostConsistent(q)
    BY DEF OnboardingIInv
<1>2. /\ posts' = posts \ {p} /\ UNCHANGED <<store, runs, answers, strayed>>
      /\ Answered(p.ns, wizard[p.ns].step)
    BY DEF Reject
<1>3. /\ wizard' \in [Wizard -> WizardState]
      /\ \A u \in Wizard : u # p.ns => wizard'[u] = wizard[u]
      /\ \A u \in Wizard : WizardConsistent(u)'
    BY <1>1, <1>2, PostFacts, AnsweredFacts
<1>4. \A n \in Wizard : Exists(n)' <=> Exists(n)
    BY <1>2 DEF Exists
<1>5. TypeOK'
    BY <1>1, <1>2, <1>3, <1>4 DEF TypeOK, WizardState
<1>6. ForeignRunOnlyByLateAnswer'
    BY <1>1, <1>2, <1>4 DEF ForeignRunOnlyByLateAnswer
<1>7. ASSUME NEW q \in posts' PROVE PostConsistent(q)'
  <2>1. PostConsistent(q) /\ q.ns \in Wizard /\ q.ns # p.ns
      BY <1>1, <1>2, PostFacts DEF PostConsistent
  <2>2. Onboarded(q.arm)' = Onboarded(q.arm)
      BY <1>2 DEF Onboarded, Exists
  <2> QED
      BY <1>2, <1>3, <2>1, <2>2 DEF PostConsistent
<1> QED
    BY <1>1, <1>2, <1>3, <1>5, <1>6, <1>7 DEF OnboardingIInv

(* What a creation writes, and what it does to the other registrations.      *)
LEMMA CreateFacts ==
    ASSUME TypeOK, NEW p \in posts, OnboardingCreate(p)
    PROVE  /\ store'[p.ns].arm = Canonical[p.arm] /\ store'[p.ns].run = p.run
           /\ store'[p.ns] \in Document /\ store' \in [Wizard -> Document \cup {Absent}]
           /\ \A n \in Wizard : n # p.ns => store'[n] = store[n]
           /\ \A n \in Wizard : Exists(n)' <=> Exists(n) \/ n = p.ns
           /\ \A a \in ArmId : Onboarded(a)' \subseteq Onboarded(a) \cup {p.ns}
<1> DEFINE d == [arm |-> Canonical[p.arm], run |-> p.run]
<1>1. store' = [store EXCEPT ![p.ns] = d] /\ p.ns \in Wizard
    BY PostFacts DEF OnboardingCreate
<1>2. d \in Document /\ d.arm = Canonical[p.arm] /\ d.run = p.run
    BY PostFacts, CanonicalType DEF Document
<1>3. d # Absent
    BY <1>2, AbsentIsNoDocument
<1> HIDE DEF d
<1>4. /\ store' \in [Wizard -> Document \cup {Absent}] /\ store'[p.ns] = d
      /\ \A n \in Wizard : n # p.ns => store'[n] = store[n]
    BY <1>1, <1>2 DEF TypeOK
<1>5. \A n \in Wizard : Exists(n)' <=> Exists(n) \/ n = p.ns
    BY <1>3, <1>4 DEF Exists
<1>6. \A a \in ArmId : Onboarded(a)' \subseteq Onboarded(a) \cup {p.ns}
    BY <1>4, <1>5 DEF Onboarded, SameResource
<1> QED
    BY <1>2, <1>4, <1>5, <1>6

LEMMA OnboardingCreateKeeps ==
    ASSUME OnboardingIInv, NEW p \in posts, OnboardingCreate(p)
    PROVE  OnboardingIInv'
<1>1. /\ TypeOK /\ ForeignRunOnlyByLateAnswer
      /\ \A k \in DOMAIN runs : Canonical[runs[k].arm] = runs[k].arm
      /\ \A q \in posts : PostConsistent(q)
    BY DEF OnboardingIInv
<1> DEFINE Since(q) == IF q.at = "checked" THEN q.since \cup {p.ns} ELSE q.since
           seen(q) == [q EXCEPT !.since = Since(q)]
<1>2. /\ posts' = {seen(q) : q \in posts \ {p}} /\ UNCHANGED <<runs, answers, strayed>>
      /\ \E step \in {wizard[p.ns].step, "registered"} : Answered(p.ns, step)
    BY DEF OnboardingCreate
<1>3. ASSUME NEW q \in posts
      PROVE  /\ seen(q) \in Post /\ seen(q).ns = q.ns /\ seen(q).arm = q.arm
             /\ seen(q).run = q.run /\ seen(q).at = q.at
             /\ q.since \subseteq seen(q).since
             /\ q.at = "checked" => p.ns \in seen(q).since
  <2>1. q \in Post /\ Since(q) \in SUBSET Wizard
      BY <1>1, <1>3, PostFacts
  <2> HIDE DEF Since
  <2>2. /\ seen(q) \in Post /\ seen(q).ns = q.ns /\ seen(q).arm = q.arm
        /\ seen(q).run = q.run /\ seen(q).at = q.at /\ seen(q).since = Since(q)
      BY <2>1 DEF Post
  <2> QED
      BY <2>2 DEF Since
<1> HIDE DEF seen
<1>4. p.ns \in Wizard /\ PostConsistent(p) /\ p.run \in DOMAIN runs
    BY <1>1, PostFacts DEF PostConsistent
<1>5. /\ wizard' \in [Wizard -> WizardState]
      /\ \A u \in Wizard : u # p.ns => wizard'[u] = wizard[u]
      /\ \A u \in Wizard : WizardConsistent(u)'
    BY <1>2, <1>4, AnsweredFacts
<1>6. \A n \in Wizard : Exists(n)' => /\ store'[n].run \in DOMAIN runs
                                      /\ runs[store'[n].run].ns = n
                                      /\ runs[store'[n].run].arm = store'[n].arm
                                         \/ n \in strayed
  <2> SUFFICES ASSUME NEW n \in Wizard, Exists(n)'
               PROVE  /\ store'[n].run \in DOMAIN runs
                      /\ runs[store'[n].run].ns = n
                      /\ runs[store'[n].run].arm = store'[n].arm \/ n \in strayed
      OBVIOUS
  <2>1. CASE n = p.ns
      BY <1>1, <1>4, <2>1, CreateFacts DEF PostConsistent
  <2>2. CASE n # p.ns
      BY <1>1, <2>2, CreateFacts DEF TypeOK, ForeignRunOnlyByLateAnswer
  <2> QED
      BY <2>1, <2>2
<1>7. TypeOK'
  <2>1. posts' \subseteq Post
      BY <1>2, <1>3
  <2> QED
      BY <1>1, <1>2, <1>5, <1>6, <2>1, CreateFacts DEF TypeOK, WizardState, Post
<1>8. ForeignRunOnlyByLateAnswer'
    BY <1>2, <1>6 DEF ForeignRunOnlyByLateAnswer
<1>9. ASSUME NEW q \in posts \ {p} PROVE PostConsistent(seen(q))'
  <2>1. q.ns \in Wizard /\ q.arm \in ArmId /\ PostConsistent(q) /\ q.ns # p.ns
      BY <1>1, <1>9, PostFacts DEF PostConsistent
  <2>2. q.at = "checked" => Onboarded(q.arm)' \subseteq seen(q).since
      BY <1>1, <1>3, <1>9, <2>1, CreateFacts DEF PostConsistent
  <2>3. \A r \in posts' : r.ns = q.ns => r = seen(q)
      BY <1>2, <1>3, <1>9, <2>1 DEF PostConsistent
  <2> QED
      BY <1>2, <1>3, <1>5, <1>9, <2>1, <2>2, <2>3 DEF PostConsistent
<1> QED
    BY <1>1, <1>2, <1>5, <1>7, <1>8, <1>9 DEF OnboardingIInv

-----------------------------------------------------------------------------
(* The inductive invariant: a wizard to which no answer has strayed shows    *)
(* the latest run answered, and a registration is of what its wizard shows.  *)
THEOREM OnboardingInvariant == Spec => []OnboardingIInv
<1>1. OnboardingIInv /\ [Next]_vars => OnboardingIInv'
  <2> SUFFICES ASSUME OnboardingIInv, [Next]_vars PROVE OnboardingIInv'
      OBVIOUS
  <2>1. CASE \E k \in DOMAIN runs : FinishRun(k)
      BY <2>1, FinishRunKeeps
  <2>2. ASSUME NEW w \in Wizard, NEW arm \in ArmId, TypeArmId(w, arm)
        PROVE  OnboardingIInv'
      BY <2>2, TypeArmIdKeeps
  <2>3. ASSUME NEW w \in Wizard, GoToValidation(w) \/ GoBack(w) \/ Reopen(w)
        PROVE  OnboardingIInv'
      BY <2>3, GoToValidationKeeps, GoBackKeeps, ReopenKeeps
  <2>4. ASSUME NEW w \in Wizard, RunValidation(w) \/ Continue(w) \/ Register(w)
        PROVE  OnboardingIInv'
      BY <2>4, RunValidationKeeps, ContinueKeeps, RegisterKeeps
  <2>5. ASSUME NEW w \in Wizard, NEW k \in answers[w], Answer(w, k)
        PROVE  OnboardingIInv'
      BY <2>5, AnswerKeeps
  <2>6. ASSUME NEW p \in posts, OnboardingCheck(p) \/ OnboardingCreate(p) \/ Reject(p)
        PROVE  OnboardingIInv'
      BY <2>6, OnboardingCheckKeeps, OnboardingCreateKeeps, RejectKeeps
  <2>7. CASE UNCHANGED vars
    <3>1. UNCHANGED <<store, runs, wizard, answers, posts, strayed>>
        BY <2>7 DEF vars, wizardVars
    <3>2. (\A p \in posts : PostConsistent(p))'
        BY <3>1 DEF OnboardingIInv, PostConsistent, Onboarded, Exists
    <3>3. (\A w \in Wizard : WizardConsistent(w))'
        BY <3>1 DEF OnboardingIInv, WizardConsistent
    <3>4. TypeOK' /\ ForeignRunOnlyByLateAnswer'
        BY <3>1 DEF OnboardingIInv, TypeOK, ForeignRunOnlyByLateAnswer, Exists
    <3> QED
        BY <3>1, <3>2, <3>3, <3>4 DEF OnboardingIInv
  <2> QED
      BY <2>1, <2>2, <2>3, <2>4, <2>5, <2>6, <2>7 DEF Next
<1> QED
    BY <1>1, InitInvariant, PTL DEF Spec

(* Type correctness; the run of a namespace is one of that namespace.        *)
THEOREM OnboardingTypeCorrect == Spec => []TypeOK
<1>1. OnboardingIInv => TypeOK
    BY DEF OnboardingIInv
<1> QED
    BY <1>1, OnboardingInvariant, PTL

(* FR-003: a namespace carries the validation of another resource only if an *)
(* answer came when its wizard had left the step that waited for it.         *)
THEOREM ForeignRunsByLateAnswers == Spec => []ForeignRunOnlyByLateAnswer
<1>1. OnboardingIInv => ForeignRunOnlyByLateAnswer
    BY DEF OnboardingIInv
<1> QED
    BY <1>1, OnboardingInvariant, PTL

(* A registration disappears as its namespace appears: that is its creation. *)
LEMMA CreationIsOfThePost ==
    ASSUME OnboardingIInv, Next, NEW p \in posts,
           ~Exists(p.ns), store'[p.ns] # Absent
    PROVE  OnboardingCreate(p)
<1>1. TypeOK /\ PostConsistent(p) /\ p.ns \in Wizard
    BY PostFacts DEF OnboardingIInv
<1>2. store' # store
    BY DEF Exists
<1>3. PICK q \in posts : OnboardingCreate(q)
  <2>1. ASSUME NEW w \in Wizard,
               \/ \E arm \in ArmId : TypeArmId(w, arm)
               \/ GoToValidation(w) \/ GoBack(w) \/ Reopen(w)
               \/ RunValidation(w) \/ Continue(w) \/ Register(w)
               \/ \E k \in answers[w] : Answer(w, k)
        PROVE  FALSE
      BY <1>2, <2>1 DEF TypeArmId, GoToValidation, GoBack, Reopen, RunValidation,
         Continue, Register, Answer, WizardOnly
  <2>2. ASSUME NEW k \in DOMAIN runs, FinishRun(k) PROVE FALSE
      BY <1>2, <2>2 DEF FinishRun
  <2>3. ASSUME NEW q \in posts, OnboardingCheck(q) \/ Reject(q) PROVE FALSE
      BY <1>2, <2>3 DEF OnboardingCheck, Reject
  <2> QED
      BY <2>1, <2>2, <2>3 DEF Next
<1>4. q.ns = p.ns
  <2>1. \A n \in Wizard : n # q.ns => store'[n] = store[n]
      BY <1>1, <1>3, CreateFacts
  <2> QED
      BY <1>1, <2>1 DEF Exists
<1> QED
    BY <1>1, <1>3, <1>4 DEF PostConsistent

(* FR-007: a resource is onboarded twice only if both requests had looked    *)
(* for the other before either of them wrote.                               *)
THEOREM SharedByRace == Spec => SharedOnlyByRace
<1> DEFINE Raced(p) == ~Exists(p.ns) /\ store'[p.ns] # Absent /\ p \notin posts' =>
                           Onboarded(store'[p.ns].arm) \subseteq p.since
<1>1. OnboardingIInv /\ [Next]_vars => [\A p \in posts : Raced(p)]_vars
  <2> SUFFICES ASSUME OnboardingIInv, Next, NEW p \in posts,
                      ~Exists(p.ns), store'[p.ns] # Absent
               PROVE  Onboarded(store'[p.ns].arm) \subseteq p.since
      OBVIOUS
  <2>1. TypeOK /\ PostConsistent(p) /\ p.arm \in ArmId
      BY PostFacts DEF OnboardingIInv
  <2>2. OnboardingCreate(p)
      BY CreationIsOfThePost
  <2>3. p.at = "checked" /\ store'[p.ns].arm = Canonical[p.arm]
      BY <2>1, <2>2, CreateFacts DEF OnboardingCreate
  <2>4. Onboarded(p.arm) \subseteq p.since
      BY <2>1, <2>3 DEF PostConsistent
  <2> QED
      BY <2>1, <2>3, <2>4, OnboardedOfCanonical
<1> QED
    BY <1>1, OnboardingInvariant, PTL DEF Spec, SharedOnlyByRace

(* FR-023a: a namespace is created against a run though a newer one was      *)
(* Unhealthy only if that answer was not there, or strayed, or the wizard no *)
(* longer waited for the registration.                                      *)
THEOREM NewerFailuresUnseen == Spec => NewerFailureUnseen
<1> DEFINE Unseen(p, k) == \/ k \in answers[p.ns] \/ p.ns \in strayed
                           \/ wizard[p.ns].step # "review" \/ wizard[p.ns].busy = 0
           Late(p) == ~Exists(p.ns) /\ store'[p.ns] # Absent /\ p \notin posts' =>
                          \A k \in DOMAIN runs :
                              runs[k].ns = p.ns /\ k > p.run /\ runs[k].status = "Unhealthy"
                                  => Unseen(p, k)
<1>1. OnboardingIInv /\ [Next]_vars => [\A p \in posts : Late(p)]_vars
  <2> SUFFICES ASSUME OnboardingIInv, NEW p \in posts, NEW k \in DOMAIN runs,
                      runs[k].ns = p.ns, k > p.run, runs[k].status = "Unhealthy",
                      p.ns \notin strayed, wizard[p.ns].step = "review",
                      wizard[p.ns].busy # 0
               PROVE  k \in answers[p.ns]
      OBVIOUS
  <2>1. PostConsistent(p) /\ WizardConsistent(p.ns)
      BY PostFacts DEF OnboardingIInv
  <2>2. p.run = wizard[p.ns].run
      BY <2>1 DEF PostConsistent
  <2>3. wizard[p.ns].run # 0
      BY <2>1 DEF WizardConsistent
  <2> QED
      BY <2>1, <2>2, <2>3 DEF WizardConsistent
<1> QED
    BY <1>1, OnboardingInvariant, PTL DEF Spec, NewerFailureUnseen
=============================================================================
