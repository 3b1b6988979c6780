------------------------ MODULE NamespaceOnboarding ------------------------
(***************************************************************************)
(* Onboarding Azure namespaces: wizards in browser tabs that validate an    *)
(* Azure resource and register it, and the endpoints behind them.           *)
(*                                                                         *)
(* A validation run is known by its number, in the order of ExecutedAtUtc. *)
(* Healthy and Degraded are one outcome, "ok": nothing tells them apart.   *)
(* A wizard draws one namespace id, so the id is named after the wizard.   *)
(***************************************************************************)
EXTENDS Naturals, Sequences

CONSTANTS
    Wizard,      \* wizards, and the ids of the namespaces they register
    ArmId,       \* Azure resource ids as users type them
    Canonical,   \* Canonical[a]: the form the parser gives a
    MaxRuns      \* validation runs in a behaviour

ASSUME CanonicalAssumption ==
    /\ Canonical \in [ArmId -> ArmId]
    /\ \A a \in ArmId : Canonical[Canonical[a]] = Canonical[a]
ASSUME BoundsAssumption == MaxRuns \in Nat

VARIABLES
    store,    \* store[n]: the document of namespace n, or Absent
    runs,     \* the validation runs, by number
    wizard,   \* wizard[w]: the state of wizard w
    answers,  \* answers[w]: w's runs whose answers have not come
    posts,    \* registrations the API is working on
    strayed   \* history: wizards that an answer reached outside its step

wizardVars == <<wizard, answers, posts>>
vars == <<store, runs, wizardVars, strayed>>

-----------------------------------------------------------------------------
None == "none"
Document == [arm : ArmId, run : 1..MaxRuns]
Absent == [arm |-> None, run |-> 0]
Exists(n) == store[n] # Absent

Outcomes == {"ok", "Unhealthy"}
Run == [ns : Wizard, arm : ArmId, status : {"running", "failed"} \cup Outcomes]

\* Steps 1 to 3 of the wizard are one; busy is the answer that the step on
\* the screen waits for: a run's number in step 4, any number in step 5.
Steps == {"form", "validation", "review", "registered"}
Fresh == [step |-> "form", arm |-> None, run |-> 0, busy |-> 0]

Init ==
    /\ store = [n \in Wizard |-> Absent]
    /\ runs = <<>>
    /\ wizard = [w \in Wizard |-> Fresh]
    /\ answers = [w \in Wizard |-> {}]
    /\ posts = {}
    /\ strayed = {}

-----------------------------------------------------------------------------
(* Validation runs.                                                        *)

\* Mutation: the caller takes the run that the store holds last.
LastRun == Len(runs)
NewRun == Len(runs) + 1
StartRun(n, arm) ==
    /\ Len(runs) < MaxRuns
    /\ runs' = Append(runs, [ns |-> n, arm |-> Canonical[arm],
                             status |-> "running"])

\* The five checks end, and the run is appended to the store; or an error
\* leaves the runner, and there is no run.
FinishRun(k) ==
    /\ runs[k].status = "running"
    /\ \E status \in Outcomes \cup {"failed"} :
           runs' = [runs EXCEPT ![k].status = status]
    /\ UNCHANGED <<store, wizardVars, strayed>>

-----------------------------------------------------------------------------
(* The wizard.                                                             *)

Show(w, step) == wizard' = [wizard EXCEPT ![w].step = step, ![w].busy = 0]
WizardOnly == UNCHANGED <<store, posts>>

\* Step 1: an id that no inventory query has found, as far as this shows.
TypeArmId(w, arm) ==
    /\ wizard[w].step = "form" /\ wizard[w].arm # arm
    /\ wizard' = [wizard EXCEPT ![w].arm = arm]
    /\ UNCHANGED <<runs, answers, strayed>> /\ WizardOnly

GoToValidation(w) ==
    /\ \/ wizard[w].step = "form" /\ wizard[w].arm # None
       \/ wizard[w].step = "review"
    /\ Show(w, "validation")
    /\ UNCHANGED <<runs, answers, strayed>> /\ WizardOnly

\* Back, or a click on a completed step.
GoBack(w) ==
    /\ wizard[w].step \in {"validation", "review"}
    /\ Show(w, "form")
    /\ UNCHANGED <<runs, answers, strayed>> /\ WizardOnly

\* Away from the page and back: the form values come from the session storage,
\* the run does not, and answers to the page before find nobody.
Reopen(w) ==
    /\ wizard[w].step \in {"form", "validation", "review"}
    /\ wizard' = [wizard EXCEPT ![w] = [Fresh EXCEPT !.arm = wizard[w].arm]]
    /\ answers' = [answers EXCEPT ![w] = {}]
    /\ UNCHANGED <<runs, strayed>> /\ WizardOnly

\* The step that is left forgets that it waits, its answer comes all the same.
RunValidation(w) ==
    /\ wizard[w].step = "validation" /\ wizard[w].busy = 0
    /\ StartRun(w, wizard[w].arm)
    /\ wizard' = [wizard EXCEPT ![w].busy = NewRun]
    /\ answers' = [answers EXCEPT ![w] = @ \cup {NewRun}]
    /\ UNCHANGED strayed /\ WizardOnly

\* Mutation: an Unhealthy answer leaves the result of before.
ShownIfOk(w, k) == IF runs[k].status = "ok" THEN k ELSE wizard[w].run
Shown(w, k) == IF runs[k].status = "failed" THEN wizard[w].run ELSE k

Answer(w, k) ==
    /\ k \in answers[w] /\ wizard[w].step # "registered"
    /\ runs[k].status # "running"
    /\ answers' = [answers EXCEPT ![w] = @ \ {k}]
    /\ wizard' = [wizard EXCEPT
           ![w].run = Shown(w, k),
           ![w].busy = IF @ = k /\ wizard[w].step = "validation" THEN 0 ELSE @]
    /\ strayed' = IF wizard[w].step = "validation" /\ wizard[w].busy = k
                  THEN strayed ELSE strayed \cup {w}
    /\ UNCHANGED runs /\ WizardOnly

\* Mutation: step 4 looks at the outcome only.
StaleAccepted(w) == FALSE
\* The banner of step 4, which compares the parser's form with what was typed.
ArmIdIsStale(w) == runs[wizard[w].run].arm # wizard[w].arm

ShowsOk(w) == wizard[w].run # 0 /\ runs[wizard[w].run].status = "ok"

Continue(w) ==
    /\ wizard[w].step = "validation"
    /\ ShowsOk(w) /\ ~ArmIdIsStale(w)
    /\ Show(w, "review")
    /\ UNCHANGED <<runs, answers, strayed>> /\ WizardOnly

\* Bound: one registration of a wizard at a time (leaving step 5 and coming
\* back allows another, of the same id, which the container refuses).
Register(w) ==
    /\ wizard[w].step = "review" /\ wizard[w].busy = 0
    /\ ShowsOk(w) /\ \A p \in posts : p.ns # w
    /\ wizard' = [wizard EXCEPT ![w].busy = 1]
    /\ posts' = posts \cup {[ns |-> w, arm |-> wizard[w].arm, since |-> {},
                             run |-> wizard[w].run, at |-> "sent"]}
    /\ UNCHANGED <<store, runs, answers, strayed>>

-----------------------------------------------------------------------------
(* OnboardingEndpoint.                                                     *)

\* An error response, or the end of the process; step 5 shows it if it is there.
Answered(w, step) ==
    wizard' = IF wizard[w].step = "review" \/ step = "registered"
              THEN [wizard EXCEPT ![w].step = step, ![w].busy = 0] ELSE wizard

Reject(p) ==
    /\ p \in posts
    /\ posts' = posts \ {p}
    /\ Answered(p.ns, wizard[p.ns].step)
    /\ UNCHANGED <<store, runs, answers, strayed>>

SameResource(a, b) == Canonical[a] = Canonical[b]
Onboarded(arm) ==
    {n \in Wizard : Exists(n) /\ SameResource(store[n].arm, arm)}

\* Mutation: the validator looks at the run only.
OnboardingCheckRun(p) ==
    /\ p.at = "sent"
    /\ runs[p.run].ns = p.ns /\ runs[p.run].status = "ok"
    /\ posts' = (posts \ {p}) \cup {[p EXCEPT !.at = "checked"]}
    /\ UNCHANGED <<store, runs, wizard, answers, strayed>>
\* The validator: the resource is not onboarded, the run is of this namespace,
\* not Unhealthy and not older than 30 minutes (if it is, Reject).
OnboardingCheck(p) ==
    /\ p.at = "sent" /\ Onboarded(p.arm) = {}
    /\ runs[p.run].ns = p.ns /\ runs[p.run].status = "ok"
    /\ posts' = (posts \ {p}) \cup {[p EXCEPT !.at = "checked"]}
    /\ UNCHANGED <<store, runs, wizard, answers, strayed>>

\* CreateAsync, which refuses an id that is there, and the response.
OnboardingCreate(p) ==
    /\ p.at = "checked" /\ ~Exists(p.ns)
    /\ store' = [store EXCEPT ![p.ns] =
           [arm |-> Canonical[p.arm], run |-> p.run]]
    /\ posts' = {[q EXCEPT !.since = IF q.at = "checked" THEN @ \cup {p.ns} ELSE @]
                     : q \in posts \ {p}}
    /\ \E step \in {wizard[p.ns].step, "registered"} : Answered(p.ns, step)
    /\ UNCHANGED <<runs, answers, strayed>>

-----------------------------------------------------------------------------
Next ==
    \/ \E k \in DOMAIN runs : FinishRun(k)
    \/ \E w \in Wizard :
        \/ \E arm \in ArmId : TypeArmId(w, arm)
        \/ GoToValidation(w) \/ GoBack(w) \/ Reopen(w)
        \/ RunValidation(w) \/ Continue(w) \/ Register(w)
        \/ \E k \in answers[w] : Answer(w, k)
    \/ \E p \in posts : OnboardingCheck(p) \/ OnboardingCreate(p) \/ Reject(p)

Spec == Init /\ [][Next]_vars

-----------------------------------------------------------------------------
(* Properties.                                                             *)

\* Types, and that what refers to a run refers to one of its namespace.
TypeOK ==
    /\ store \in [Wizard -> Document \cup {Absent}]
    /\ runs \in Seq(Run) /\ Len(runs) <= MaxRuns
    /\ wizard \in [Wizard -> [step : Steps, arm : ArmId \cup {None},
                              run : 0..MaxRuns, busy : 0..MaxRuns]]
    /\ answers \in [Wizard -> SUBSET (1..MaxRuns)]
    /\ posts \subseteq [ns : Wizard, arm : ArmId, run : 1..MaxRuns,
                        since : SUBSET Wizard, at : {"sent", "checked"}]
    /\ strayed \subseteq Wizard
    /\ \A n \in Wizard : Exists(n) => /\ store[n].run \in DOMAIN runs
                                      /\ runs[store[n].run].ns = n

\* FR-003: a changed resource id is validated anew.  A namespace carries the
\* validation of another resource only if the answer to an earlier validation
\* came when the wizard had left the step that waited for it.
ForeignRunOnlyByLateAnswer ==
    \A n \in Wizard : Exists(n) =>
        runs[store[n].run].arm = store[n].arm \/ n \in strayed

\* FR-023a: the latest validation decides.  A namespace is created against a run
\* though a newer one was Unhealthy only if that answer was not there yet, came
\* after one that was newer still, or was asked for after registering.
NewerFailureUnseen ==
    [][\A p \in posts :
         ~Exists(p.ns) /\ store'[p.ns] # Absent /\ p \notin posts' =>
             \A k \in DOMAIN runs :
                 runs[k].ns = p.ns /\ k > p.run /\ runs[k].status = "Unhealthy" =>
                     \/ k \in answers[p.ns] \/ p.ns \in strayed
                     \/ wizard[p.ns].step # "review" \/ wizard[p.ns].busy = 0]_vars

\* FR-007: an Azure namespace is onboarded once.  The query for it comes before
\* the write, so it is onboarded twice only if both requests had asked before
\* either of them wrote.
SharedOnlyByRace ==
    [][\A p \in posts :
         ~Exists(p.ns) /\ store'[p.ns] # Absent /\ p \notin posts' =>
             Onboarded(store'[p.ns].arm) \subseteq p.since]_vars

\* The inductive invariant.  A wizard that waits in step 4 waits for its latest
\* run; one that no answer has strayed to shows its latest answered run, and in
\* step 5 one of the resource it names; a post in work is its wizard's.
WizardConsistent(w) ==
    /\ wizard[w].run # 0 => wizard[w].run \in DOMAIN runs /\ runs[wizard[w].run].ns = w
    /\ \A k \in answers[w] : k \in DOMAIN runs /\ runs[k].ns = w
    /\ wizard[w].step \in {"validation", "review"} => wizard[w].arm \in ArmId
    /\ wizard[w].step = "validation" /\ wizard[w].busy # 0 =>
          /\ wizard[w].busy \in answers[w]
          /\ \A k \in DOMAIN runs : runs[k].ns = w => k <= wizard[w].busy
    /\ wizard[w].step = "review" =>
          wizard[w].run # 0 /\ (runs[wizard[w].run].arm = wizard[w].arm \/ w \in strayed)
    /\ wizard[w].run # 0 =>
          \/ w \in strayed
          \/ \A k \in DOMAIN runs : runs[k].ns = w /\ k > wizard[w].run =>
                 k \in answers[w] \/ runs[k].status = "failed"
PostConsistent(p) ==
    /\ p.run \in DOMAIN runs /\ runs[p.run].ns = p.ns
    /\ runs[p.run].arm = Canonical[p.arm] \/ p.ns \in strayed
    /\ p.at = "checked" => Onboarded(p.arm) \subseteq p.since
    /\ wizard[p.ns].step = "review" /\ wizard[p.ns].busy # 0 =>
          p.ns \in strayed \/ p.run = wizard[p.ns].run
    /\ \A q \in posts : q.ns = p.ns => q = p
OnboardingIInv ==
    /\ TypeOK /\ ForeignRunOnlyByLateAnswer
    /\ \A k \in DOMAIN runs : Canonical[runs[k].arm] = runs[k].arm
    /\ \A w \in Wizard : WizardConsistent(w)
    /\ \A p \in posts : PostConsistent(p)
=============================================================================
