------------------------ MODULE DiscoveryRuns_proofs ------------------------
(***************************************************************************)
(* Proofs about the discovery runs: their steps are steps of the lock, so  *)
(* all that DiscoveryLock_proofs says holds of them too, and the safety    *)
(* invariants follow for any number of requests, workers and deliveries    *)
(* and whatever faults the environment produces.                           *)
(***************************************************************************)
EXTENDS DiscoveryRuns, DiscoveryLock_proofs

-----------------------------------------------------------------------------
(* Every step of the runs is a step of the lock or leaves the lock alone.  *)
LEMMA StepIsLockStep == [Next]_vars => [LockNext]_lockVars
<1> SUFFICES ASSUME [Next]_vars PROVE [LockNext]_lockVars
    OBVIOUS
<1>1. ASSUME NEW r \in Request,
             \/ GateBlocks(r) \/ AcquireExhausted(r) \/ MarkWorkerLost(r)
             \/ CreateQueuedRun(r) \/ FetchActiveRun(r) \/ AnswerCoalesced(r)
             \/ Publish(r) \/ Abandoned(r) \/ MessageLockExpires(r)
      PROVE  UNCHANGED lockVars
    BY <1>1 DEF GateBlocks, AcquireExhausted, MarkWorkerLost, CreateQueuedRun,
       FetchActiveRun, AnswerCoalesced, Publish, Abandoned, MessageLockExpires
<1>2. ASSUME NEW r \in Request,
             \/ EnsureRun(r) \/ AcquireStep(r) \/ Abandon(r) \/ ReleaseStep(r)
      PROVE  LockNext
    BY <1>2 DEF EnsureRun, AcquireStep, Abandon, ReleaseStep, LockNext, LockStep
<1>3. ASSUME NEW r \in Request, ApiFails(r)
      PROVE  [LockNext]_lockVars
    <2>1. Fail(r) \/ UNCHANGED lockVars
        BY <1>3 DEF ApiFails
    <2> QED
        BY <2>1 DEF LockNext
<1>4. ASSUME NEW w \in Worker, WorkerStep(w) \/ WorkerThrows(w) \/ WorkerDies(w)
      PROVE  UNCHANGED lockVars
    BY <1>4 DEF WorkerStep, Deliver, ResolveFails, TransitionToInProgress,
       CrawlEnds, RecordSuccess, RecordFailure, WorkerThrows, WorkerDies
<1>5. CASE \/ \E o \in Operator : ResetRead(o) \/ ResetClear(o)
           \/ Tick
    BY <1>5 DEF LockNext
<1>6. CASE UNCHANGED vars
    BY <1>6 DEF vars
<1> QED
    BY <1>1, <1>2, <1>3, <1>4, <1>5, <1>6 DEF Next, ApiStep

(* The runs implement the lock.                                            *)
THEOREM RunsUseTheLock == Spec => LockSpec
<1>1. Init => LockInit
    BY DEF Init
<1> QED
    BY <1>1, StepIsLockStep, PTL DEF Spec, LockSpec

-----------------------------------------------------------------------------
(* What a step of the lock leaves as it was.                               *)
LEMMA LockEffects ==
    ASSUME LockIInv, [LockNext]_lockVars, NEW r \in Request
    PROVE  /\ grant[r] > 0 => grant'[r] = grant[r]
           /\ (grant[r] > 0 /\ ~Live(r)) => ~Live(r)'
           /\ pc[r] = "released" => pc'[r] = "released"
           /\ pc[r] = "coalesced" => pc'[r] = "coalesced" /\ seen'[r] = seen[r]
<1>0. LockTypeOK /\ LockTypeOK'
    BY TypeStep DEF LockIInv
<1>1. grant[r] > 0 => grant'[r] = grant[r]
    <2>1. ASSUME NEW s \in Request, StepTakes(s), grant[r] > 0
          PROVE  grant'[r] = grant[r]
        BY <1>0, <2>1 DEF StepTakes, Take, LockTypeOK
    <2> QED
        BY <2>1, StepCases DEF StepOpens, Tick, historyVars
<1>2. clock <= clock' /\ ended \subseteq ended'
    BY <1>0, StepCases DEF StepTakes, StepOpens, Open, Tick, historyVars,
       LockTypeOK
<1>3. (grant[r] > 0 /\ ~Live(r)) => ~Live(r)'
    BY <1>0, <1>1, <1>2, SkewAssumption DEF Live, LockTypeOK
<1>4. pc[r] \in {"released", "coalesced"} => UNCHANGED <<pc[r], seen[r]>>
    BY <1>0 DEF LockTypeOK, LockNext, LockStep, BeginAcquire, ReadLock, Decide,
       CreateLock, ReplaceLock, Retry, BeginRelease, ReleaseRead, ReleaseClear,
       Fail, InLockCall, ResetRead, ResetClear, Tick, lockVars, callVars, Goto
<1> QED
    BY <1>1, <1>3, <1>4

(* A run is marked as lost only by the request that stole its lease, after *)
(* the end of it.                                                          *)
LEMMA StolenIsOver ==
    ASSUME LockIInv, NEW r \in Request, pc[r] = "stolen"
    PROVE  /\ StolenRun(r) \in Request
           /\ grant[StolenRun(r)] > 0
           /\ ~Live(StolenRun(r))
<1>1. /\ seen[r].run # NoRun /\ seen[r].expires <= clock + Skew
      /\ Snapshot(seen[r]) /\ seen[r] \in LockDocument
    BY DEF LockIInv, CallConsistent, DocumentsConsistent, LockTypeOK
<1>2. clock + Skew \in Nat /\ seen[r].expires \in Nat
    BY <1>1, SkewAssumption DEF LockIInv, LockTypeOK, LockDocument
<1> QED
    BY <1>1, <1>2, RequestAssumption DEF StolenRun, Snapshot, Live, LockDocument

-----------------------------------------------------------------------------
(* A write to a run keeps its document's type, never removes a document,   *)
(* and records WorkerLost only where it says so.                           *)
RunWritten(lost) ==
    /\ run' \in [Request -> RunDocument]
    /\ \A s \in Request : /\ Exists(s) => Exists(s)'
                          /\ run'[s].failure = "WorkerLost" =>
                                run[s].failure = "WorkerLost" \/ s \in lost

LEMMA StatusWritten ==
    ASSUME TypeOK, NEW r \in Request,
           NEW status \in {"Queued", "InProgress", "Succeeded"},
           SetStatus(r, status)
    PROVE  RunWritten({}) /\ Exists(r)'
BY DEF TypeOK, SetStatus, RunWritten, RunDocument, Statuses, Exists

LEMMA FailureWritten ==
    ASSUME TypeOK, NEW r \in Request, NEW failure \in Failures,
           BestEffort(SetFailed(r, failure)),
           NEW lost \in SUBSET Request, failure = "WorkerLost" => r \in lost
    PROVE  RunWritten(lost)
<1>1. CASE run' = run
    BY <1>1 DEF TypeOK, RunWritten, RunDocument, Exists
<1>2. CASE run' = [run EXCEPT ![r] = [status |-> "Failed",
                                      failure |-> failure]]
    <2>1. [status |-> "Failed", failure |-> failure] \in RunDocument
        BY DEF RunDocument, Statuses
    <2>2. run'[r] = [status |-> "Failed", failure |-> failure]
          /\ \A s \in Request \ {r} : run'[s] = run[s]
        BY <1>2 DEF TypeOK
    <2>3. run' \in [Request -> RunDocument]
        BY <1>2, <2>1 DEF TypeOK
    <2> QED
        BY <2>2, <2>3 DEF RunWritten, Exists
<1> QED
    BY <1>1, <1>2 DEF BestEffort, SetFailed

LEMMA RunUntouched ==
    ASSUME TypeOK, UNCHANGED run
    PROVE  RunWritten({})
BY DEF TypeOK, RunWritten, Exists

(* A request that another actor's step does not concern keeps what its     *)
(* handler has established.                                                *)
LEMMA OthersKeepRuns ==
    ASSUME LockIInv, [LockNext]_lockVars, TypeOK,
           NEW r \in Request, RunConsistent(r),
           UNCHANGED <<api[r], answer[r], message[r], deliveries[r]>>,
           NEW lost \in SUBSET Request, RunWritten(lost),
           r \in lost => grant[r] > 0 /\ ~Live(r)
    PROVE  RunConsistent(r)'
<1>1. /\ grant[r] > 0 => grant'[r] = grant[r]
      /\ (grant[r] > 0 /\ ~Live(r)) => ~Live(r)'
      /\ pc[r] = "released" => pc'[r] = "released"
      /\ pc[r] = "coalesced" => pc'[r] = "coalesced" /\ seen'[r] = seen[r]
    BY LockEffects
<1>2. /\ Exists(r) => Exists(r)'
      /\ run'[r].failure = "WorkerLost" => grant[r] > 0 /\ ~Live(r)
    <2>1. Exists(r) => Exists(r)'
        BY DEF RunWritten, Exists
    <2>2. run'[r].failure = "WorkerLost" => grant[r] > 0 /\ ~Live(r)
        BY DEF RunWritten, RunConsistent
    <2> QED
        BY <2>1, <2>2
<1>3. pc[r] = "coalesced" => ActiveRun(r) \in Request
    BY DEF LockIInv, CoalescedOntoCurrentLease
<1>4. pc[r] = "coalesced" /\ Exists(ActiveRun(r)) => Exists(ActiveRun(r))'
    <2> SUFFICES ASSUME pc[r] = "coalesced", Exists(ActiveRun(r))
                 PROVE  Exists(ActiveRun(r))'
        OBVIOUS
    <2>1. ActiveRun(r)' = ActiveRun(r)
        BY <1>1 DEF ActiveRun
    <2> QED
        BY <1>3, <2>1 DEF RunWritten, Exists
<1> QED
    BY <1>1, <1>2, <1>4 DEF RunConsistent

-----------------------------------------------------------------------------
(* The types of the runs' variables are kept by every step.                *)
LEMMA RunsTypeStep ==
    ASSUME LockIInv, RunsIInv, [Next]_vars
    PROVE  TypeOK'
<1>0. /\ TypeOK /\ LockTypeOK'
      /\ \A r \in Request : RunConsistent(r)
      /\ \A w \in Worker : worker[w].pc # "idle" => worker[w].run \in Request
    BY StepIsLockStep, TypeStep DEF RunsIInv, LockIInv, TypeOK, WorkerState
<1> USE <1>0, DeliveriesAssumption
        DEF TypeOK, ApiPc, Answers, MessageStates, AtApi, Respond
<1>1. ASSUME NEW r \in Request,
             \/ GateBlocks(r) \/ EnsureRun(r) \/ AcquireStep(r)
             \/ AcquireExhausted(r) \/ AnswerCoalesced(r) \/ ReleaseStep(r)
             \/ Abandoned(r)
      PROVE  TypeOK'
    BY <1>1 DEF GateBlocks, EnsureRun, AcquireStep, AcquireExhausted,
       AnswerCoalesced, ReleaseStep, Abandoned, runVars
<1>2. ASSUME NEW r \in Request, FetchActiveRun(r)
      PROVE  TypeOK'
    BY <1>2 DEF FetchActiveRun
<1>3. ASSUME NEW r \in Request, Publish(r) \/ ApiFails(r)
      PROVE  TypeOK'
    BY <1>3 DEF Publish, ApiFails
<1>4. ASSUME NEW r \in Request, MarkWorkerLost(r)
      PROVE  TypeOK'
    <2>1. StolenRun(r) \in Request
        BY <1>4, StolenIsOver DEF MarkWorkerLost
    <2>2. run' \in [Request -> RunDocument]
        BY <1>4, <2>1, FailureWritten DEF MarkWorkerLost, RunWritten, Failures
    <2> QED
        BY <1>4, <2>2 DEF MarkWorkerLost
<1>5. ASSUME NEW r \in Request, CreateQueuedRun(r)
      PROVE  TypeOK'
    <2>1. run' \in [Request -> RunDocument]
        BY <1>5, StatusWritten DEF CreateQueuedRun, RunWritten
    <2> QED
        BY <1>5, <2>1 DEF CreateQueuedRun
<1>6. ASSUME NEW r \in Request, Abandon(r)
      PROVE  TypeOK'
    <2>1. run' \in [Request -> RunDocument]
        BY <1>6, FailureWritten DEF Abandon, RunWritten, Failures
    <2> QED
        BY <1>6, <2>1 DEF Abandon
<1>7. ASSUME NEW r \in Request, MessageLockExpires(r)
      PROVE  TypeOK'
    BY <1>7 DEF MessageLockExpires, Redelivered
<1>8. ASSUME NEW w \in Worker, NEW r \in Request, Deliver(w, r)
      PROVE  TypeOK'
    <2>1. deliveries[r] < MaxDeliveries
        BY <1>8 DEF Deliver, RunConsistent
    <2>2. deliveries' \in [Request -> 0..MaxDeliveries]
        BY <1>8, <2>1 DEF Deliver
    <2> QED
        BY <1>8, <2>2 DEF Deliver, WorkerState
<1>9. ASSUME NEW w \in Worker,
             ResolveFails(w) \/ CrawlEnds(w) \/ TransitionToInProgress(w)
      PROVE  TypeOK'
    <2>1. worker' \in [Worker -> WorkerState]
        BY <1>9 DEF ResolveFails, CrawlEnds, TransitionToInProgress, AtWorker,
           WorkerState
    <2>2. run' \in [Request -> RunDocument]
        BY <1>9, StatusWritten DEF ResolveFails, CrawlEnds,
           TransitionToInProgress, RunWritten
    <2> QED
        BY <1>9, <2>1, <2>2 DEF ResolveFails, CrawlEnds, TransitionToInProgress
<1>10. ASSUME NEW w \in Worker, RecordSuccess(w) \/ RecordFailure(w)
       PROVE  TypeOK'
    <2>1. worker[w].run \in Request
        BY <1>10 DEF RecordSuccess, RecordFailure
    <2>2. run' \in [Request -> RunDocument]
        <3>1. CASE RecordSuccess(w)
            BY <2>1, <3>1, StatusWritten DEF RecordSuccess, RunWritten
        <3>2. CASE RecordFailure(w)
            BY <2>1, <3>2, FailureWritten DEF RecordFailure, RunWritten,
               Failures
        <3> QED
            BY <1>10, <3>1, <3>2
    <2>3. Return(w) /\ UNCHANGED <<lockVars, api, answer, deliveries>>
        BY <1>10 DEF RecordSuccess, RecordFailure
    <2> QED
        BY <2>1, <2>2, <2>3 DEF Return, Idle, WorkerState
<1>11. ASSUME NEW w \in Worker, WorkerThrows(w) \/ WorkerDies(w)
       PROVE  TypeOK'
    BY <1>11 DEF WorkerThrows, WorkerDies, Throw, Redelivered, Idle, WorkerState
<1>12. CASE UNCHANGED runVars
    BY <1>12 DEF runVars
<1> QED
    BY <1>1, <1>2, <1>3, <1>4, <1>5, <1>6, <1>7, <1>8, <1>9, <1>10, <1>11,
       <1>12 DEF Next, ApiStep, WorkerStep, vars

(* The request whose handler takes the step establishes what its next step *)
(* relies on, and no request is disturbed.                                 *)
LEMMA ApiStepKeepsRuns ==
    ASSUME LockIInv, [LockNext]_lockVars, RunsIInv, NEW r \in Request,
           GateBlocks(r) \/ EnsureRun(r) \/ ApiStep(r) \/ ApiFails(r)
    PROVE  \A s \in Request : RunConsistent(s)'
<1> USE DEF AtApi, Respond
<1>0. /\ TypeOK /\ LockTypeOK
      /\ \A s \in Request : RunConsistent(s)
      /\ CallConsistent(r)
    BY DEF RunsIInv, LockIInv
<1>1. \A s \in Request :
         /\ grant[s] > 0 => grant'[s] = grant[s]
         /\ (grant[s] > 0 /\ ~Live(s)) => ~Live(s)'
         /\ pc[s] = "released" => pc'[s] = "released"
         /\ pc[s] = "coalesced" => pc'[s] = "coalesced" /\ seen'[s] = seen[s]
    BY LockEffects
<1>2. CASE UNCHANGED run
    <2>1. ASSUME NEW s \in Request \ {r}
          PROVE  RunConsistent(s)'
        <3>1. UNCHANGED <<api[s], answer[s], message[s], deliveries[s]>>
            BY <1>0, <2>1 DEF GateBlocks, EnsureRun, ApiStep, AcquireStep,
               AcquireExhausted, MarkWorkerLost, CreateQueuedRun,
               FetchActiveRun, AnswerCoalesced, Publish, Abandon, ReleaseStep,
               Abandoned, ApiFails, runVars, TypeOK
        <3> QED
            BY <1>0, <1>2, <3>1, RunUntouched, OthersKeepRuns
    <2>2. RunConsistent(r)'
        <3>1. /\ (Exists(r) <=> Exists(r)')
              /\ run'[r] = run[r]
            BY <1>2 DEF Exists
        <3>2. pc[r] = "coalesced" =>
                 (Exists(ActiveRun(r)) <=> Exists(ActiveRun(r))')
            BY <1>1, <1>2 DEF Exists, ActiveRun
        <3>3. CASE GateBlocks(r) \/ AcquireExhausted(r) \/ Abandoned(r)
            BY <1>0, <1>1, <3>1, <3>2, <3>3 DEF GateBlocks, AcquireExhausted,
               Abandoned, RunConsistent, TypeOK
        <3>4. CASE EnsureRun(r) \/ AcquireStep(r) \/ ReleaseStep(r)
            BY <1>0, <1>1, <3>1, <3>2, <3>4 DEF EnsureRun, AcquireStep,
               ReleaseStep, RunConsistent, TypeOK, runVars
        <3>5. CASE FetchActiveRun(r) \/ AnswerCoalesced(r)
            BY <1>0, <1>1, <3>1, <3>2, <3>5 DEF FetchActiveRun,
               AnswerCoalesced, RunConsistent, TypeOK
        <3>6. CASE Publish(r)
            BY <1>0, <1>1, <3>1, <3>2, <3>6, DeliveriesAssumption
            DEF Publish, RunConsistent, TypeOK
        <3>7. CASE MarkWorkerLost(r) \/ CreateQueuedRun(r) \/ Abandon(r)
            BY <1>0, <1>1, <1>2, <3>1, <3>2, <3>7, StatusWritten
            DEF MarkWorkerLost, CreateQueuedRun, Abandon, RunConsistent,
                CallConsistent, TypeOK, BeginRelease
        <3>8. CASE ApiFails(r)
            BY <1>0, <1>1, <3>1, <3>2, <3>8 DEF ApiFails, RunConsistent, TypeOK
        <3> QED
            BY <3>3, <3>4, <3>5, <3>6, <3>7, <3>8 DEF ApiStep
    <2> QED
        BY <2>1, <2>2
<1>3. ASSUME MarkWorkerLost(r)
      PROVE  \A s \in Request : RunConsistent(s)'
    <2>1. /\ StolenRun(r) \in Request
          /\ grant[StolenRun(r)] > 0 /\ ~Live(StolenRun(r))
        BY <1>3, StolenIsOver DEF MarkWorkerLost
    <2>2. RunWritten({StolenRun(r)})
        BY <1>0, <1>3, <2>1, FailureWritten DEF MarkWorkerLost, Failures
    <2>3. ASSUME NEW s \in Request \ {r}
          PROVE  RunConsistent(s)'
        BY <1>0, <1>3, <2>1, <2>2, OthersKeepRuns DEF MarkWorkerLost, TypeOK
    <2>4. RunConsistent(r)'
        <3>1. run'[r].failure = "WorkerLost" => grant[r] > 0 /\ ~Live(r)
            BY <1>0, <2>1, <2>2 DEF RunWritten, RunConsistent
        <3>2. grant[r] > 0 /\ message[r] = "none" /\ answer'[r] = answer[r]
              /\ api'[r] = "create" /\ message' = message
              /\ deliveries' = deliveries /\ pc[r] = "stolen" /\ pc' = pc
            BY <1>0, <1>3 DEF MarkWorkerLost, RunConsistent, CallConsistent,
               TypeOK, lockVars
        <3> QED
            BY <1>0, <1>1, <3>1, <3>2 DEF RunConsistent
    <2> QED
        BY <2>3, <2>4
<1>4. ASSUME CreateQueuedRun(r)
      PROVE  \A s \in Request : RunConsistent(s)'
    <2>1. RunWritten({}) /\ Exists(r)'
        BY <1>0, <1>4, StatusWritten DEF CreateQueuedRun
    <2>2. ASSUME NEW s \in Request \ {r}
          PROVE  RunConsistent(s)'
        BY <1>0, <1>4, <2>1, OthersKeepRuns DEF CreateQueuedRun, TypeOK
    <2>3. RunConsistent(r)'
        <3>1. run'[r].failure = "WorkerLost" => grant[r] > 0 /\ ~Live(r)
            BY <1>0, <2>1 DEF RunWritten, RunConsistent
        <3>2. grant[r] > 0 /\ message[r] = "none" /\ answer'[r] = answer[r]
              /\ api'[r] = "publish" /\ message' = message
              /\ deliveries' = deliveries /\ pc' = pc /\ seen' = seen
            BY <1>0, <1>4 DEF CreateQueuedRun, RunConsistent, CallConsistent,
               TypeOK, lockVars, callVars
        <3>3. answer[r] = "coalesced" => Exists(ActiveRun(r))'
            <4>1. ActiveRun(r)' = ActiveRun(r)
                BY <3>2 DEF ActiveRun
            <4>2. pc[r] = "coalesced" => ActiveRun(r) \in Request
                BY DEF LockIInv, CoalescedOntoCurrentLease
            <4> QED
                BY <1>0, <2>1, <4>1, <4>2 DEF RunConsistent, RunWritten, Exists
        <3> QED
            BY <1>0, <1>1, <2>1, <3>1, <3>2, <3>3 DEF RunConsistent
    <2> QED
        BY <2>2, <2>3
<1>5. ASSUME Abandon(r)
      PROVE  \A s \in Request : RunConsistent(s)'
    <2>1. RunWritten({})
        BY <1>0, <1>5, FailureWritten DEF Abandon, Failures
    <2>2. ASSUME NEW s \in Request \ {r}
          PROVE  RunConsistent(s)'
        BY <1>0, <1>5, <2>1, OthersKeepRuns DEF Abandon, TypeOK
    <2>3. RunConsistent(r)'
        <3>1. run'[r].failure = "WorkerLost" => grant[r] > 0 /\ ~Live(r)
            BY <1>0, <2>1 DEF RunWritten, RunConsistent
        <3>2. /\ api[r] = "abandon" /\ api'[r] = "release"
              /\ pc[r] \in {"acquired", "stolen"}
              /\ UNCHANGED <<answer, message, deliveries>>
            BY <1>0, <1>5 DEF Abandon, TypeOK, BeginRelease
        <3>3. Exists(r)'
            BY <1>0, <2>1, <3>2 DEF RunConsistent, RunWritten, Exists
        <3> QED
            BY <1>0, <1>1, <3>1, <3>2, <3>3 DEF RunConsistent
    <2> QED
        BY <2>2, <2>3
<1> QED
    BY <1>2, <1>3, <1>4, <1>5 DEF GateBlocks, EnsureRun, ApiStep, AcquireStep,
       AcquireExhausted, FetchActiveRun, AnswerCoalesced, Publish, ReleaseStep,
       Abandoned, ApiFails, runVars

(* The queue and the worker leave the requests alone; a message only moves *)
(* on, and a worker writes only statuses that are not WorkerLost.          *)
LEMMA QueueStepKeepsRuns ==
    ASSUME LockIInv, [LockNext]_lockVars, RunsIInv,
           \/ \E r \in Request : MessageLockExpires(r)
           \/ \E w \in Worker : WorkerStep(w) \/ WorkerThrows(w) \/ WorkerDies(w)
    PROVE  \A s \in Request : RunConsistent(s)'
<1>0. /\ TypeOK
      /\ \A r \in Request : RunConsistent(r)
      /\ \A w \in Worker : worker[w].pc # "idle" =>
             /\ worker[w].run \in Request
             /\ message[worker[w].run] # "none"
    BY DEF RunsIInv, TypeOK, WorkerState
<1>1. UNCHANGED <<lockVars, api, answer>>
    BY DEF MessageLockExpires, WorkerStep, Deliver, ResolveFails,
       TransitionToInProgress, CrawlEnds, RecordSuccess, RecordFailure,
       WorkerThrows, WorkerDies
<1>2. RunWritten({})
    <2>1. CASE UNCHANGED run
        BY <1>0, <2>1, RunUntouched
    <2>2. ASSUME NEW w \in Worker, TransitionToInProgress(w) \/ RecordSuccess(w)
          PROVE  RunWritten({})
        BY <1>0, <2>2, StatusWritten DEF TransitionToInProgress, RecordSuccess
    <2>3. ASSUME NEW w \in Worker, RecordFailure(w)
          PROVE  RunWritten({})
        BY <1>0, <2>3, FailureWritten DEF RecordFailure, Failures
    <2> QED
        BY <2>1, <2>2, <2>3 DEF MessageLockExpires, WorkerStep, Deliver,
           ResolveFails, CrawlEnds, WorkerThrows, WorkerDies
<1>3. \A s \in Request :
         /\ message'[s] = "none" <=> message[s] = "none"
         /\ message[s] = "none" => deliveries'[s] = deliveries[s]
         /\ message'[s] = "ready" => deliveries'[s] < MaxDeliveries
    <2>1. ASSUME NEW r \in Request, MessageLockExpires(r), NEW s \in Request
          PROVE  /\ message'[s] = "none" <=> message[s] = "none"
                 /\ deliveries'[s] = deliveries[s]
                 /\ message'[s] = "ready" => deliveries'[s] < MaxDeliveries
        BY <1>0, <2>1 DEF MessageLockExpires, Redelivered, RunConsistent, TypeOK
    <2>2. ASSUME NEW w \in Worker, NEW r \in Request, Deliver(w, r),
                 NEW s \in Request
          PROVE  /\ message'[s] = "none" <=> message[s] = "none"
                 /\ message[s] = "none" => deliveries'[s] = deliveries[s]
                 /\ message'[s] = "ready" => deliveries'[s] < MaxDeliveries
        BY <1>0, <2>2 DEF Deliver, RunConsistent, TypeOK
    <2>3. ASSUME NEW w \in Worker,
                 \/ RecordSuccess(w) \/ RecordFailure(w) \/ WorkerThrows(w),
                 NEW s \in Request
          PROVE  /\ message'[s] = "none" <=> message[s] = "none"
                 /\ deliveries'[s] = deliveries[s]
                 /\ message'[s] = "ready" => deliveries'[s] < MaxDeliveries
        <3>1. deliveries' = deliveries /\ (Return(w) \/ Throw(w))
              /\ worker[w].run \in Request /\ message[worker[w].run] # "none"
            BY <1>0, <2>3 DEF RecordSuccess, RecordFailure, WorkerThrows
        <3> QED
            BY <1>0, <3>1 DEF Return, Throw, Redelivered, RunConsistent, TypeOK
    <2>4. ASSUME UNCHANGED <<message, deliveries>>, NEW s \in Request
          PROVE  /\ message'[s] = "none" <=> message[s] = "none"
                 /\ deliveries'[s] = deliveries[s]
                 /\ message'[s] = "ready" => deliveries'[s] < MaxDeliveries
        BY <1>0, <2>4 DEF RunConsistent
    <2>5. \/ \E r \in Request : MessageLockExpires(r)
          \/ \E w \in Worker, r \in Request : Deliver(w, r)
          \/ \E w \in Worker :
                RecordSuccess(w) \/ RecordFailure(w) \/ WorkerThrows(w)
          \/ UNCHANGED <<message, deliveries>>
        BY DEF WorkerStep, ResolveFails, TransitionToInProgress, CrawlEnds,
           WorkerDies
    <2> QED
        BY <2>1, <2>2, <2>3, <2>4, <2>5
<1>4. ASSUME NEW s \in Request
      PROVE  RunConsistent(s)'
    <2>1. /\ Exists(s) => Exists(s)'
          /\ run'[s].failure = "WorkerLost" => run[s].failure = "WorkerLost"
        BY <1>2 DEF RunWritten, Exists
    <2>2. pc[s] = "coalesced" /\ Exists(ActiveRun(s)) => Exists(ActiveRun(s))'
        <3>1. ActiveRun(s)' = ActiveRun(s)
            BY <1>1 DEF ActiveRun, lockVars, callVars
        <3>2. pc[s] = "coalesced" => ActiveRun(s) \in Request
            BY DEF LockIInv, CoalescedOntoCurrentLease
        <3> QED
            BY <1>2, <3>1, <3>2 DEF RunWritten, Exists
    <2>3. UNCHANGED <<api, answer, pc, grant>> /\ (Live(s)' <=> Live(s))
        BY <1>1 DEF lockVars, historyVars, Live
    <2> QED
        BY <1>0, <1>3, <2>1, <2>2, <2>3 DEF RunConsistent
<1> QED
    BY <1>4

(* A worker works on a run whose message was sent.                         *)
LEMMA WorkersStep ==
    ASSUME RunsIInv, [Next]_vars, NEW w \in Worker, worker'[w].pc # "idle"
    PROVE  worker'[w].run # NoRun /\ message'[worker'[w].run] # "none"
<1>0. /\ TypeOK
      /\ \A v \in Worker : worker[v].pc # "idle" =>
             /\ worker[v].run \in Request
             /\ message[worker[v].run] # "none"
    BY DEF RunsIInv, TypeOK, WorkerState
<1>1. \A s \in Request : message[s] # "none" => message'[s] # "none"
    BY <1>0 DEF TypeOK, Next, ApiStep, WorkerStep, GateBlocks, EnsureRun,
       AcquireStep, AcquireExhausted, MarkWorkerLost, CreateQueuedRun,
       FetchActiveRun, AnswerCoalesced, Publish, Abandon, ReleaseStep,
       Abandoned, ApiFails, MessageLockExpires, Redelivered, Deliver,
       ResolveFails, TransitionToInProgress, CrawlEnds, RecordSuccess,
       RecordFailure, Return, Throw, WorkerThrows, WorkerDies, runVars, vars
<1>2. ASSUME NEW v \in Worker, NEW r \in Request, Deliver(v, r)
      PROVE  worker'[w].run # NoRun /\ message'[worker'[w].run] # "none"
    <2>1. CASE v = w
        BY <1>0, <1>2, <2>1, RequestAssumption DEF Deliver, TypeOK
    <2>2. CASE v # w
        BY <1>0, <1>1, <1>2, <2>2, RequestAssumption DEF Deliver, TypeOK
    <2> QED
        BY <2>1, <2>2
<1>3. CASE worker[w].pc # "idle" /\ worker'[w].run = worker[w].run
    BY <1>0, <1>1, <1>3, RequestAssumption
<1>4. \/ \E v \in Worker, r \in Request : Deliver(v, r)
      \/ worker[w].pc # "idle" /\ worker'[w].run = worker[w].run
    BY <1>0 DEF TypeOK, WorkerState, Idle, Next, ApiStep, WorkerStep,
       GateBlocks, EnsureRun, AcquireStep, AcquireExhausted, MarkWorkerLost,
       CreateQueuedRun, FetchActiveRun, AnswerCoalesced, Publish, Abandon,
       ReleaseStep, Abandoned, ApiFails, MessageLockExpires, ResolveFails,
       TransitionToInProgress, CrawlEnds, AtWorker, RecordSuccess,
       RecordFailure, Return, Throw, WorkerThrows, WorkerDies, runVars, vars
<1> QED
    BY <1>2, <1>3, <1>4

LEMMA RunsIInvInit == Init => RunsIInv
<1> SUFFICES ASSUME Init PROVE RunsIInv
    OBVIOUS
<1>1. LockTypeOK
    BY LockIInvInit DEF Init, LockIInv
<1>2. TypeOK
    BY <1>1, DeliveriesAssumption DEF Init, TypeOK, ApiPc, Answers, RunDocument,
       Statuses, Failures, Absent, MessageStates, WorkerState, Idle
<1>3. \A r \in Request : RunConsistent(r)
    BY DeliveriesAssumption DEF Init, RunConsistent, Absent
<1> QED
    BY <1>2, <1>3 DEF Init, Idle, RunsIInv

LEMMA RunsIInvStep == LockIInv /\ RunsIInv /\ [Next]_vars => RunsIInv'
<1> SUFFICES ASSUME LockIInv, RunsIInv, [Next]_vars PROVE RunsIInv'
    OBVIOUS
<1>1. TypeOK'
    BY RunsTypeStep
<1>2. [LockNext]_lockVars
    BY StepIsLockStep
<1>3. ASSUME UNCHANGED runVars
      PROVE  \A r \in Request : RunConsistent(r)'
    <2>1. TypeOK /\ UNCHANGED <<run, api, answer, message, deliveries>>
        BY <1>3 DEF runVars, RunsIInv
    <2>2. RunWritten({})
        BY <2>1, RunUntouched
    <2> QED
        BY <1>2, <2>1, <2>2, OthersKeepRuns DEF RunsIInv
<1>4. \A r \in Request : RunConsistent(r)'
    BY <1>2, <1>3, ApiStepKeepsRuns, QueueStepKeepsRuns DEF Next, vars
<1> QED
    BY <1>1, <1>4, WorkersStep DEF RunsIInv

(* The invariant of the runs is inductive, given the lock's.               *)
THEOREM RunsInvariant == Spec => []RunsIInv
<1>1. Spec => []LockIInv
    BY RunsUseTheLock, LockInvariant, PTL
<1> QED
    BY <1>1, RunsIInvInit, RunsIInvStep, PTL DEF Spec

(* The variables of the runs keep their types; no message is delivered     *)
(* more than MaxDeliveries times.                                          *)
THEOREM RunsTypeCorrect == Spec => []TypeOK
<1>1. RunsIInv => TypeOK
    BY DEF RunsIInv
<1> QED
    BY RunsInvariant, <1>1, PTL

(* No phantom run: a 202 names a run whose document exists, and for a new  *)
(* run its message was sent (StartDiscoveryEndpoint, issue #116).          *)
THEOREM AcceptedRunsAreReal == Spec => []AcceptedRunIsReal
<1>1. RunsIInv => AcceptedRunIsReal
    BY DEF RunsIInv, RunConsistent, AcceptedRunIsReal
<1> QED
    BY RunsInvariant, <1>1, PTL

(* A request answered with an enqueue failure does not leave its run in    *)
(* the lock (AbandonQueuedRunAsync).                                       *)
THEOREM EnqueueFailuresFreeTheLock == Spec => []EnqueueFailureFreesLock
<1>1. RunsIInv /\ ReleasedMeansFree => EnqueueFailureFreesLock
    BY DEF RunsIInv, RunConsistent, ReleasedMeansFree, EnqueueFailureFreesLock
<1>2. Spec => []ReleasedMeansFree
    BY RunsUseTheLock, ReleaseFrees, PTL
<1> QED
    BY RunsInvariant, <1>1, <1>2, PTL

(* A run is recorded as WorkerLost only when its lease is over.            *)
THEOREM LostRunsAreOver == Spec => []WorkerLostOnlyAfterExpiry
<1>1. RunsIInv => WorkerLostOnlyAfterExpiry
    BY DEF RunsIInv, RunConsistent, WorkerLostOnlyAfterExpiry
<1> QED
    BY RunsInvariant, <1>1, PTL

(* A worker only ever works on a run that was granted the lock and whose   *)
(* document exists.                                                        *)
THEOREM WorkersWorkOnGrantedRuns == Spec => []WorkedRunsWereGranted
<1>1. RunsIInv => WorkedRunsWereGranted
    <2> SUFFICES ASSUME RunsIInv, NEW w \in Worker, worker[w].pc # "idle"
                 PROVE  grant[worker[w].run] > 0 /\ Exists(worker[w].run)
        BY DEF WorkedRunsWereGranted
    <2>1. worker[w].run \in Request /\ message[worker[w].run] # "none"
        BY DEF RunsIInv, TypeOK, WorkerState
    <2> QED
        BY <2>1 DEF RunsIInv, RunConsistent
<1> QED
    BY RunsInvariant, <1>1, PTL

-----------------------------------------------------------------------------
(* Only a delivery starts an invocation, and it counts one more than any   *)
(* before it: no two invocations share a delivery.                         *)
LEMMA DeliveriesStep ==
    ASSUME RunsIInv, DeliveriesDiffer, [Next]_vars
    PROVE  DeliveriesDiffer'
<1>1. /\ TypeOK
      /\ \A w \in Worker : worker[w].pc # "idle" =>
            /\ worker[w].run \in Request
            /\ worker[w].delivery <= deliveries[worker[w].run]
      /\ \A w \in Worker : worker[w].delivery \in Nat
      /\ \A r \in Request : deliveries[r] \in Nat
    BY DeliveriesAssumption DEF RunsIInv, DeliveriesDiffer, TypeOK, WorkerState
<1>2. ASSUME UNCHANGED deliveries,
             \A w \in Worker : \/ worker'[w].pc = "idle"
                               \/ /\ worker[w].pc # "idle"
                                  /\ worker'[w].run = worker[w].run
                                  /\ worker'[w].delivery = worker[w].delivery
      PROVE  DeliveriesDiffer'
    BY <1>2 DEF DeliveriesDiffer
<1>3. ASSUME NEW w \in Worker, NEW r \in Request, Deliver(w, r)
      PROVE  DeliveriesDiffer'
  <2>1. /\ deliveries'[r] = deliveries[r] + 1
        /\ \A s \in Request : s # r => deliveries'[s] = deliveries[s]
        /\ worker'[w].run = r /\ worker'[w].delivery = deliveries'[r]
        /\ \A v \in Worker : v # w => worker'[v] = worker[v]
      BY <1>1, <1>3 DEF Deliver, TypeOK
  <2>2. ASSUME NEW v \in Worker, v # w, worker'[v].pc # "idle"
        PROVE  /\ worker'[v].delivery <= deliveries'[worker'[v].run]
               /\ worker'[v].run = r => worker'[v].delivery # deliveries'[r]
      BY <1>1, <2>1, <2>2
  <2>3. \A v \in Worker : worker'[v].pc # "idle" =>
            worker'[v].delivery <= deliveries'[worker'[v].run]
    <3>1. worker'[w].delivery <= deliveries'[worker'[w].run]
        BY <1>1, <2>1
    <3> QED
        BY <2>2, <3>1
  <2>4. \A u, v \in Worker :
            worker'[u].pc # "idle" /\ worker'[v].pc # "idle"
            /\ worker'[u].run = worker'[v].run
            /\ worker'[u].delivery = worker'[v].delivery => u = v
      BY <2>1, <2>2 DEF DeliveriesDiffer
  <2> QED
      BY <2>3, <2>4 DEF DeliveriesDiffer
<1>4. ASSUME NEW w \in Worker,
             \/ ResolveFails(w) \/ TransitionToInProgress(w) \/ CrawlEnds(w)
             \/ RecordSuccess(w) \/ RecordFailure(w)
             \/ WorkerThrows(w) \/ WorkerDies(w)
      PROVE  DeliveriesDiffer'
  <2>1. /\ UNCHANGED deliveries /\ worker[w].pc # "idle"
        /\ \/ worker' = [worker EXCEPT ![w] = Idle]
           \/ \E label \in {"crawl", "succeed", "fail"} : AtWorker(w, label)
      BY <1>4 DEF ResolveFails, TransitionToInProgress, CrawlEnds,
         RecordSuccess, RecordFailure, WorkerThrows, WorkerDies, Return, Throw
  <2>2. \A v \in Worker : \/ worker'[v].pc = "idle"
                          \/ /\ worker[v].pc # "idle"
                             /\ worker'[v].run = worker[v].run
                             /\ worker'[v].delivery = worker[v].delivery
    <3>1. CASE worker' = [worker EXCEPT ![w] = Idle]
        BY <1>1, <3>1 DEF TypeOK, Idle
    <3>2. ASSUME NEW label \in {"crawl", "succeed", "fail"}, AtWorker(w, label)
          PROVE  \A v \in Worker : \/ worker'[v].pc = "idle"
                                   \/ /\ worker[v].pc # "idle"
                                      /\ worker'[v].run = worker[v].run
                                      /\ worker'[v].delivery = worker[v].delivery
        BY <1>1, <2>1, <3>2 DEF AtWorker, TypeOK, WorkerState
    <3> QED
        BY <2>1, <3>1, <3>2
  <2> QED
      BY <1>2, <2>1, <2>2
<1>5. CASE UNCHANGED <<worker, deliveries>>
    BY <1>2, <1>5
<1>6. ASSUME NEW r \in Request,
             \/ GateBlocks(r) \/ EnsureRun(r) \/ ApiStep(r) \/ ApiFails(r)
             \/ MessageLockExpires(r)
      PROVE  UNCHANGED <<worker, deliveries>>
    BY <1>6 DEF GateBlocks, EnsureRun, ApiStep, AcquireStep, AcquireExhausted,
       MarkWorkerLost, CreateQueuedRun, FetchActiveRun, AnswerCoalesced, Publish,
       Abandon, ReleaseStep, Abandoned, ApiFails, MessageLockExpires, runVars
<1> QED
    BY <1>3, <1>4, <1>5, <1>6 DEF Next, WorkerStep, vars, runVars

(* FR-003, whatever fails: of two workers in a run at the same time, one   *)
(* has lost the lease of its run or the lock on its message.               *)
THEOREM OneWorkerIsEntitled == Spec => []OneEntitledWorker
<1>1. Spec => []LockIInv
    BY RunsUseTheLock, LockInvariant, PTL
<1>2. Init => DeliveriesDiffer
    BY DEF Init, Idle, DeliveriesDiffer
<1>3. RunsIInv /\ DeliveriesDiffer /\ [Next]_vars => DeliveriesDiffer'
    BY DeliveriesStep
<1>4. LockIInv /\ RunsIInv /\ DeliveriesDiffer => OneEntitledWorker
  <2> SUFFICES ASSUME LockIInv, RunsIInv, DeliveriesDiffer,
                      NEW v \in Worker, NEW w \in Worker,
                      Entitled(v), Entitled(w)
               PROVE  v = w
      BY DEF OneEntitledWorker
  <2>1. ASSUME NEW u \in Worker, Entitled(u)
        PROVE  /\ worker[u].pc # "idle" /\ lock.run = worker[u].run
               /\ worker[u].delivery = deliveries[worker[u].run]
    <3>1. worker[u].run \in Request
        BY <2>1 DEF Entitled, RunsIInv, TypeOK, WorkerState
    <3> QED
        BY <2>1, <3>1 DEF Entitled, Holds, LockIInv, LiveLeaseHoldsLock
  <2>2. worker[v].run = worker[w].run
      BY <2>1
  <2> QED
      BY <2>1, <2>2 DEF DeliveriesDiffer
<1> QED
    BY <1>1, <1>2, <1>3, <1>4, RunsInvariant, PTL DEF Spec

-----------------------------------------------------------------------------
(* Mutual exclusion of the workers.  It needs what DiscoveryLockExpirySeconds *)
(* is there for: no lease ends while its run may be worked on (TimelySpec),  *)
(* and more than the clocks differ is left of it when it is written.  And no *)
(* operator clears the lock of a run in progress, no failure sends a message *)
(* of a run that is abandoned or takes one from a worker in progress.        *)
TimelyAssumption ==
    /\ Operator = {} /\ "ambiguous" \notin Faults /\ "relock" \notin Faults
    /\ Skew + Skew < ExpirySeconds

(* A step of request r, in the lock or in its handler.                      *)
LEMMA TimelyLockStep ==
    ASSUME TimelyAssumption, LockIInv, TypeOK, NEW r \in Request, LeaseKept(r),
           api[r] # "done", r \in ended => api[r] = "release",
           \/ BeginAcquire(r) \/ BeginRelease(r) \/ Fail(r)
           \/ ReadLock(r) \/ Decide(r) \/ CreateLock(r) \/ ReplaceLock(r)
           \/ ReleaseRead(r) \/ ReleaseClear(r) \/ UNCHANGED lockVars
    PROVE  /\ pc'[r] \in {"create", "replace"} => clock + Skew < until'[r]
           /\ grant'[r] > 0 => until'[r] = grant'[r] /\ clock + Skew < grant'[r]
           /\ ended' \subseteq ended \cup {r} /\ clock' = clock
           /\ ended' = ended \/ ReleaseClear(r)
           /\ \A s \in Request : s # r => UNCHANGED <<pc[s], until[s], grant[s]>>
<1>1. /\ LockTypeOK /\ CallConsistent(r) /\ message[r] = "none" /\ ~Finished(r)
      /\ clock \in Nat /\ Skew \in Nat /\ ExpirySeconds \in Nat
      /\ until[r] \in Nat /\ grant[r] \in Nat
    BY SkewAssumption, ExpiryAssumption DEF LockIInv, LeaseKept, Finished, LockTypeOK
<1>2. /\ pc[r] \in {"create", "replace"} => clock + Skew < until[r]
      /\ grant[r] > 0 => until[r] = grant[r] /\ clock + Skew < grant[r]
    BY <1>1 DEF LeaseKept
<1> USE <1>1, <1>2 DEF LockTypeOK, Goto
<1>3. CASE \/ BeginAcquire(r) \/ BeginRelease(r) \/ Fail(r) \/ ReadLock(r)
           \/ ReleaseRead(r) \/ UNCHANGED lockVars
    BY <1>3 DEF BeginAcquire, BeginRelease, Fail, ReadLock, ReleaseRead, InLockCall,
       lockVars, callVars, historyVars
<1>4. CASE Decide(r)
  <2>1. PICK now \in Nat :
           /\ clock - Skew <= now
           /\ \/ until' = [until EXCEPT ![r] = now + ExpirySeconds]
              \/ until' = until /\ Goto(r, "coalesced")
      BY <1>4, DecideCases
  <2>2. clock + Skew < now + ExpirySeconds
      BY <2>1 DEF TimelyAssumption
  <2>3. grant[r] = 0 /\ UNCHANGED <<clock, grant, ended>>
        /\ \A s \in Request : s # r => pc'[s] = pc[s]
      BY <1>4 DEF Decide, CallConsistent, historyVars
  <2> QED
      BY <2>1, <2>2, <2>3
<1>5. CASE CreateLock(r) \/ ReplaceLock(r)
  <2>1. /\ UNCHANGED <<clock, until, ended>> /\ pc[r] \in {"create", "replace"}
        /\ pc'[r] \notin {"create", "replace"}
        /\ \A s \in Request : s # r => pc'[s] = pc[s]
        /\ grant' = grant \/ grant' = [grant EXCEPT ![r] = until[r]]
      BY <1>5 DEF CreateLock, ReplaceLock, Take, Retry
  <2> QED
      BY <2>1
<1>6. CASE ReleaseClear(r)
  <2>1. /\ UNCHANGED <<clock, until, grant>> /\ pc'[r] = "released"
        /\ \A s \in Request : s # r => pc'[s] = pc[s]
      BY <1>6 DEF ReleaseClear, callVars
  <2>2. ended' \subseteq ended \cup {r}
    <3>1. CASE ended' = ended
        BY <3>1
    <3>2. CASE IfMatch(lock, seen[r]) /\ Open
      <4>1. seen[r].run = r /\ Snapshot(seen[r])
          BY <1>6 DEF ReleaseClear, CallConsistent, LockIInv, DocumentsConsistent
      <4>2. lock = seen[r]
          BY <3>2, <4>1 DEF IfMatch, Snapshot
      <4> QED
          BY <3>2, <4>1, <4>2 DEF Open
    <3> QED
        BY <1>6, <3>1, <3>2 DEF ReleaseClear
  <2> QED
      BY <1>6, <2>1, <2>2
<1> QED
    BY <1>3, <1>4, <1>5, <1>6

LEMMA TimelyApiStep ==
    ASSUME TimelyAssumption, LockIInv, RunsIInv, TimelyIInv, NEW r \in Request,
           GateBlocks(r) \/ EnsureRun(r) \/ ApiStep(r) \/ ApiFails(r)
    PROVE  TimelyIInv'
<1>1. /\ TypeOK /\ RunConsistent(r) /\ \A s \in Request : LeaseKept(s)
      /\ \A w \in Worker : worker[w].pc # "idle" => Holds(w)
    BY DEF RunsIInv, TimelyIInv
<1>2. /\ api[r] # "done" /\ UNCHANGED <<worker, deliveries>>
      /\ \A s \in Request : s # r => UNCHANGED <<api[s], message[s]>>
      /\ \/ BeginAcquire(r) \/ BeginRelease(r) \/ Fail(r)
         \/ ReadLock(r) \/ Decide(r) \/ CreateLock(r) \/ ReplaceLock(r)
         \/ ReleaseRead(r) \/ ReleaseClear(r) \/ UNCHANGED lockVars
    BY <1>1 DEF GateBlocks, EnsureRun, ApiStep, AcquireStep, AcquireExhausted,
       MarkWorkerLost, CreateQueuedRun, FetchActiveRun, AnswerCoalesced, Publish,
       Abandon, ReleaseStep, Abandoned, ApiFails, AtApi, Respond, runVars, TypeOK
<1>3. message[r] = "none" /\ (r \in ended => api[r] = "release")
    BY <1>1, <1>2 DEF LeaseKept
<1>4. /\ pc'[r] \in {"create", "replace"} => clock + Skew < until'[r]
      /\ grant'[r] > 0 => until'[r] = grant'[r] /\ clock + Skew < grant'[r]
      /\ ended' \subseteq ended \cup {r} /\ clock' = clock
      /\ ended' = ended \/ ReleaseClear(r)
      /\ \A s \in Request : s # r => UNCHANGED <<pc[s], until[s], grant[s]>>
    BY <1>1, <1>2, <1>3, TimelyLockStep
<1>5. /\ message'[r] # "none" => api'[r] = "done" /\ r \notin ended'
      /\ r \in ended' => api'[r] \in {"release", "done"} /\ message'[r] = "none"
  <2> USE <1>1, <1>3, <1>4 DEF TypeOK
  <2>1. CASE Publish(r)
    <3>1. api[r] = "publish" /\ ended' = ended
        BY <2>1 DEF Publish, lockVars, historyVars
    <3>2. message'[r] = "none" \/ api'[r] = "done"
        BY <2>1 DEF Publish, AtApi, Respond, TimelyAssumption
    <3> QED
        BY <3>1, <3>2
  <2>2. CASE ReleaseStep(r)
      BY <2>2 DEF ReleaseStep, runVars
  <2>3. CASE \/ GateBlocks(r) \/ EnsureRun(r) \/ AcquireStep(r) \/ AcquireExhausted(r)
             \/ MarkWorkerLost(r) \/ CreateQueuedRun(r) \/ FetchActiveRun(r)
             \/ AnswerCoalesced(r) \/ Abandon(r) \/ Abandoned(r) \/ ApiFails(r)
    <3>1. ended' = ended /\ message' = message
        BY <2>3 DEF GateBlocks, EnsureRun, AcquireStep, AcquireExhausted,
           MarkWorkerLost, CreateQueuedRun, FetchActiveRun, AnswerCoalesced, Abandon,
           Abandoned, ApiFails, Fail, BeginAcquire, BeginRelease, ReadLock, Decide,
           CreateLock, ReplaceLock, lockVars, historyVars, runVars
    <3>2. api[r] = "release" => api'[r] \in {"release", "done"}
        BY <2>3 DEF GateBlocks, EnsureRun, AcquireStep, AcquireExhausted,
           MarkWorkerLost, CreateQueuedRun, FetchActiveRun, AnswerCoalesced, Abandon,
           Abandoned, ApiFails, AtApi, Respond, runVars
    <3> QED
        BY <3>1, <3>2
  <2> QED
      BY <2>1, <2>2, <2>3 DEF ApiStep
<1>6. ASSUME NEW s \in Request PROVE LeaseKept(s)'
  <2>1. CASE s = r
      BY <1>4, <1>5, <2>1 DEF LeaseKept
  <2>2. CASE s # r
      BY <1>1, <1>2, <1>4, <2>2 DEF LeaseKept, Finished
  <2> QED
      BY <2>1, <2>2
<1>7. ASSUME NEW w \in Worker, worker'[w].pc # "idle" PROVE Holds(w)'
  <2>1. Holds(w) /\ worker[w].run \in Request
      BY <1>1, <1>2, <1>7 DEF RunsIInv, TypeOK, WorkerState
  <2> QED
      BY <1>2, <1>3, <2>1 DEF Holds
<1> QED
    BY <1>2, <1>6, <1>7 DEF TimelyIInv, OneRunAtATime

(* Between its grant and its end, a run has the lock: it is the only one.    *)
LEMMA UnfinishedIsOnlyOne ==
    ASSUME TimelyAssumption, LockIInv, RunsIInv, TimelyIInv,
           NEW r \in Request, NEW s \in Request,
           message[r] \in {"ready", "taken"}, message[s] \in {"ready", "taken"}
    PROVE  r = s
<1>1. ASSUME NEW t \in Request, message[t] \in {"ready", "taken"}
      PROVE  lock.run = t
  <2>1. RunConsistent(t) /\ LeaseKept(t)
      BY DEF RunsIInv, TimelyIInv
  <2>2. grant[t] > 0 /\ ~Finished(t) /\ t \notin ended
      BY <1>1, <2>1 DEF RunConsistent, LeaseKept, Finished
  <2>3. clock \in Nat /\ Skew \in Nat /\ grant[t] \in Nat
      BY SkewAssumption DEF LockIInv, LockTypeOK
  <2>4. Live(t)
      BY <2>1, <2>2, <2>3 DEF LeaseKept, Live
  <2> QED
      BY <2>4 DEF LockIInv, LiveLeaseHoldsLock
<1> QED
    BY <1>1

LEMMA TimelyQueueStep ==
    ASSUME TimelyAssumption, LockIInv, RunsIInv, TimelyIInv,
           \/ \E r \in Request : MessageLockExpires(r)
           \/ \E w \in Worker : WorkerStep(w) \/ WorkerThrows(w) \/ WorkerDies(w)
    PROVE  TimelyIInv'
<1>1. /\ TypeOK /\ \A s \in Request : LeaseKept(s)
      /\ \A w \in Worker : worker[w].pc # "idle" => Holds(w)
      /\ \A v, w \in Worker : worker[v].pc # "idle" /\ worker[w].pc # "idle" => v = w
      /\ \A w \in Worker : worker[w].pc # "idle" => worker[w].run \in Request
      /\ \A w \in Worker : worker[w].pc # "idle" => message[worker[w].run] = "taken"
    BY DEF RunsIInv, TimelyIInv, OneRunAtATime, TypeOK, WorkerState, Holds
<1>2. UNCHANGED <<lockVars, api>>
    BY DEF MessageLockExpires, WorkerStep, Deliver, ResolveFails,
       TransitionToInProgress, CrawlEnds, RecordSuccess, RecordFailure,
       WorkerThrows, WorkerDies
<1>3. ASSUME \A s \in Request : /\ message'[s] = "none" <=> message[s] = "none"
                                /\ message[s] \in {"settled", "dead"} =>
                                       message'[s] = message[s]
      PROVE  \A s \in Request : LeaseKept(s)'
    BY <1>1, <1>2, <1>3 DEF LeaseKept, Finished, lockVars, callVars, historyVars
<1>4. ASSUME NEW r \in Request, MessageLockExpires(r) PROVE TimelyIInv'
  <2>1. /\ message[r] = "taken" /\ message' = [message EXCEPT ![r] = Redelivered(r)]
        /\ UNCHANGED <<worker, deliveries>>
        /\ \A w \in Worker : worker[w].run = r => ~Holds(w)
      BY <1>4 DEF MessageLockExpires, TimelyAssumption
  <2>2. \A s \in Request : LeaseKept(s)'
      BY <1>1, <1>3, <2>1 DEF Redelivered, TypeOK
  <2>3. \A w \in Worker : worker'[w].pc # "idle" => Holds(w)'
      BY <1>1, <2>1 DEF Holds, TypeOK
  <2> QED
      BY <2>1, <2>2, <2>3 DEF TimelyIInv, OneRunAtATime
<1>5. ASSUME NEW w \in Worker, NEW r \in Request, Deliver(w, r) PROVE TimelyIInv'
  <2>1. /\ message[r] = "ready" /\ message' = [message EXCEPT ![r] = "taken"]
        /\ worker' = [worker EXCEPT ![w] = [pc |-> "resolve", run |-> r,
                                           delivery |-> deliveries'[r]]]
      BY <1>5 DEF Deliver
  <2>2. \A v \in Worker : worker[v].pc = "idle"
      BY <1>1, <2>1, UnfinishedIsOnlyOne
  <2>3. \A s \in Request : LeaseKept(s)'
      BY <1>1, <1>3, <2>1 DEF TypeOK
  <2>4. /\ worker'[w].run = r /\ worker'[w].delivery = deliveries'[r]
        /\ message'[r] = "taken"
        /\ \A v \in Worker : v # w => worker'[v].pc = "idle"
      BY <1>1, <2>1, <2>2 DEF TypeOK
  <2>5. \A v \in Worker : worker'[v].pc # "idle" => Holds(v)'
      BY <2>4 DEF Holds
  <2> QED
      BY <2>3, <2>4, <2>5 DEF TimelyIInv, OneRunAtATime
<1>6. ASSUME NEW w \in Worker,
             ResolveFails(w) \/ TransitionToInProgress(w) \/ CrawlEnds(w)
      PROVE  TimelyIInv'
  <2>1. UNCHANGED <<message, deliveries>> /\ worker[w].pc # "idle"
      BY <1>6 DEF ResolveFails, TransitionToInProgress, CrawlEnds
  <2>2. /\ worker'[w].run = worker[w].run /\ worker'[w].delivery = worker[w].delivery
        /\ \A v \in Worker : v # w => worker'[v] = worker[v]
      BY <1>1, <1>6 DEF ResolveFails, TransitionToInProgress, CrawlEnds, AtWorker,
         TypeOK, WorkerState
  <2>3. \A s \in Request : LeaseKept(s)'
      BY <1>3, <2>1
  <2> QED
      BY <1>1, <2>1, <2>2, <2>3 DEF TimelyIInv, OneRunAtATime, Holds
<1>7. ASSUME NEW w \in Worker,
             \/ RecordSuccess(w) \/ RecordFailure(w) \/ WorkerThrows(w) \/ WorkerDies(w)
      PROVE  TimelyIInv'
  <2>1. /\ worker[w].pc # "idle" /\ worker' = [worker EXCEPT ![w] = Idle]
        /\ \/ UNCHANGED message
           \/ \E state \in {"ready", "settled", "dead"} :
                 message' = [message EXCEPT ![worker[w].run] = state]
    <3>1. /\ worker[w].pc # "idle"
          /\ \/ Return(w) \/ Throw(w)
             \/ UNCHANGED message /\ worker' = [worker EXCEPT ![w] = Idle]
        BY <1>7 DEF RecordSuccess, RecordFailure, WorkerThrows, WorkerDies
    <3>2. Holds(w)
        BY <1>1, <3>1
    <3>3. Return(w) \/ Throw(w) =>
             /\ worker' = [worker EXCEPT ![w] = Idle]
             /\ \E state \in {"ready", "settled", "dead"} :
                   message' = [message EXCEPT ![worker[w].run] = state]
        BY <3>2 DEF Return, Throw, Redelivered
    <3> QED
        BY <3>1, <3>3
  <2>2. \A v \in Worker : worker'[v].pc = "idle"
      BY <1>1, <2>1 DEF Idle, TypeOK
  <2>3. \A s \in Request : LeaseKept(s)'
      BY <1>1, <1>3, <2>1 DEF TypeOK
  <2> QED
      BY <2>2, <2>3 DEF TimelyIInv, OneRunAtATime
<1> QED
    BY <1>4, <1>5, <1>6, <1>7 DEF WorkerStep

LEMMA TimelyTick ==
    ASSUME LockIInv, TimelyIInv, TimelyNext, Tick, UNCHANGED runVars
    PROVE  TimelyIInv'
<1>1. /\ clock' # clock /\ UNCHANGED <<pc, until, grant, ended>>
      /\ UNCHANGED <<api, message, deliveries, worker>>
  <2>1. clock \in Nat
      BY DEF LockIInv, LockTypeOK
  <2> QED
      BY <2>1 DEF Tick, callVars, historyVars, runVars
<1>2. \A r \in Request : UsesLease(r) => clock' + Skew < until[r]
    BY <1>1 DEF TimelyNext
<1>3. ASSUME NEW r \in Request PROVE LeaseKept(r)'
  <2>1. LeaseKept(r)
      BY DEF TimelyIInv
  <2> QED
      BY <1>1, <1>2, <2>1 DEF LeaseKept, UsesLease, Finished
<1> QED
    BY <1>1, <1>3 DEF TimelyIInv, OneRunAtATime, Holds

(* The invariant of the timely runs is inductive, given those of the lock    *)
(* and of the runs.                                                         *)
LEMMA TimelyStep ==
    ASSUME TimelyAssumption, LockIInv, RunsIInv, TimelyIInv, [TimelyNext]_vars
    PROVE  TimelyIInv'
<1>1. CASE UNCHANGED vars
    BY <1>1 DEF vars, lockVars, callVars, historyVars, runVars, TimelyIInv, LeaseKept,
       Finished, Holds, OneRunAtATime
<1>2. CASE TimelyNext
    BY <1>2, TimelyApiStep, TimelyQueueStep, TimelyTick
    DEF TimelyNext, Next, TimelyAssumption
<1> QED
    BY <1>1, <1>2

(* FR-003: at most one discovery of the namespace is running at a time, if   *)
(* no lease ends before its run.                                            *)
THEOREM OneRunWhenTimely ==
    ASSUME TimelyAssumption PROVE TimelySpec => []OneRunAtATime
<1>1. TimelySpec => Spec
  <2>1. [TimelyNext]_vars => [Next]_vars
      BY DEF TimelyNext
  <2> QED
      BY <2>1, PTL DEF TimelySpec, Spec
<1>2. Spec => []LockIInv
    BY RunsUseTheLock, LockInvariant, PTL
<1>3. Init => TimelyIInv
    BY DEF Init, LockInit, TimelyIInv, LeaseKept, Finished, OneRunAtATime, Idle
<1>4. LockIInv /\ RunsIInv /\ TimelyIInv /\ [TimelyNext]_vars => TimelyIInv'
    BY TimelyStep
<1>5. TimelyIInv => OneRunAtATime
    BY DEF TimelyIInv
<1> QED
    BY <1>1, <1>2, <1>3, <1>4, <1>5, RunsInvariant, PTL DEF TimelySpec
=============================================================================
