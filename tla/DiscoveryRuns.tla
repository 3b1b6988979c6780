--------------------------- MODULE DiscoveryRuns ---------------------------
(***************************************************************************)
(* The life of a discovery run of one namespace: the StartDiscovery        *)
(* endpoint and the DiscoveryRunCoalescer on top of the lock, the          *)
(* `discovery-runs` documents, the `discovery-requested` queue and the     *)
(* indexer's worker, as far as they decide which runs exist and in which   *)
(* status.  What a worker writes to the catalog is module EntityDiscovery. *)
(*                                                                         *)
(* Every step is a step of DiscoveryLock or leaves its variables alone, so *)
(* what is proved of the lock holds here.                                  *)
(***************************************************************************)
EXTENDS DiscoveryLock

CONSTANTS
    Worker,         \* concurrent executions of DiscoveryRequestedFunction
    MaxDeliveries,  \* max_delivery_count of the queue
    Faults          \* the failures the environment may produce

\* "api"       a pod dies, or a Cosmos call of the API throws
\* "enqueue"   PublishAsync throws and the message was not accepted
\* "ambiguous" PublishAsync throws although the message was accepted
\* "store"     a best-effort status write of a run fails
\* "worker"    the worker dies, or a run update throws in the worker
\* "relock"    the message lock is lost while the worker is still running
FaultKinds == {"api", "enqueue", "ambiguous", "store", "worker", "relock"}

ASSUME FaultsAssumption == Faults \subseteq FaultKinds
ASSUME DeliveriesAssumption == MaxDeliveries \in Nat \ {0}

VARIABLES
    api,        \* api[r]: where StartDiscoveryEndpoint.HandleAsync is
    answer,     \* answer[r]: the response r got
    run,        \* run[r]: the DiscoveryRun document
    message,    \* message[r]: the state of the queue message of run r
    deliveries, \* deliveries[r]: its delivery count
    worker      \* worker[w]: the invocation w is executing

runVars == <<api, answer, run, message, deliveries, worker>>
vars == <<lockVars, runVars>>

-----------------------------------------------------------------------------
Statuses == {"none", "Queued", "InProgress", "Succeeded", "Failed"}
Failures == {"none", "WorkerLost", "Transport", "Crawl"}
RunDocument == [status : Statuses, failure : Failures]

Absent == [status |-> "none", failure |-> "none"]
Exists(r) == run[r].status # "none"
Terminal(status) == status \in {"Succeeded", "Failed"}

ApiPc == {"new", "ensure", "create", "append", "publish", "abandon",
          "release", "done"}
Answers == {"none", "blocked", "accepted", "coalesced", "missingRun",
            "enqueueFailed", "error"}
MessageStates == {"none", "ready", "taken", "settled", "dead"}

Idle == [pc |-> "idle", run |-> NoRun, delivery |-> 0]
WorkerState == [pc : {"idle", "resolve", "crawl", "succeed", "fail"},
                run : Request \cup {NoRun}, delivery : Nat]

Init ==
    /\ LockInit
    /\ api = [r \in Request |-> "new"]
    /\ answer = [r \in Request |-> "none"]
    /\ run = [r \in Request |-> Absent]
    /\ message = [r \in Request |-> "none"]
    /\ deliveries = [r \in Request |-> 0]
    /\ worker = [w \in Worker |-> Idle]

AtApi(r, label) == api' = [api EXCEPT ![r] = label]
Respond(r, kind) ==
    /\ answer' = [answer EXCEPT ![r] = kind]
    /\ AtApi(r, "done")

\* UpdateStatusAsync and the worker's updates patch without IfMatch and
\* without looking at the current status; a missing document is a 404.
SetStatus(r, status) == run' = [run EXCEPT ![r].status = status]
SetFailed(r, failure) ==
    run' = IF Exists(r)
           THEN [run EXCEPT ![r] = [status |-> "Failed", failure |-> failure]]
           ELSE run

\* A write whose failure the caller swallows.
BestEffort(write) == write \/ ("store" \in Faults /\ UNCHANGED run)

-----------------------------------------------------------------------------
(* StartDiscoveryEndpoint.HandleAsync and the coalescer.                   *)

\* 404 or LifecycleBlocked: the gate is consulted before the lock.
GateBlocks(r) ==
    /\ api[r] = "new"
    /\ Respond(r, "blocked")
    /\ UNCHANGED <<lockVars, run, message, deliveries, worker>>

EnsureRun(r) ==
    /\ api[r] = "new"
    /\ BeginAcquire(r)
    /\ AtApi(r, "ensure")
    /\ UNCHANGED <<answer, run, message, deliveries, worker>>

AcquireStep(r) ==
    /\ api[r] = "ensure"
    /\ ReadLock(r) \/ Decide(r) \/ CreateLock(r) \/ ReplaceLock(r)
    /\ UNCHANGED runVars

AcquireExhausted(r) ==
    /\ api[r] = "ensure" /\ pc[r] = "exhausted"
    /\ Respond(r, "error")
    /\ UNCHANGED <<lockVars, run, message, deliveries, worker>>

\* Stolen: the prior run is presumed lost, whatever became of it.
MarkWorkerLost(r) ==
    /\ api[r] = "ensure" /\ pc[r] = "stolen"
    /\ BestEffort(SetFailed(StolenRun(r), "WorkerLost"))
    /\ AtApi(r, "create")
    /\ UNCHANGED <<lockVars, answer, message, deliveries, worker>>

CreateQueuedRun(r) ==
    /\ \/ api[r] = "ensure" /\ pc[r] = "acquired"
       \/ api[r] = "create"
    /\ SetStatus(r, "Queued")
    /\ AtApi(r, "publish")
    /\ UNCHANGED <<lockVars, answer, message, deliveries, worker>>

\* Mutations: the result of GetAsync is not checked; a missing run is
\* created on the spot.
FetchActiveRunUnchecked(r) ==
    /\ api[r] = "ensure" /\ pc[r] = "coalesced"
    /\ AtApi(r, "append")
    /\ UNCHANGED <<lockVars, answer, run, message, deliveries, worker>>

FetchOrCreateRun(r) ==
    /\ api[r] = "ensure" /\ pc[r] = "coalesced"
    /\ AtApi(r, IF Exists(ActiveRun(r)) THEN "append" ELSE "create")
    /\ UNCHANGED <<lockVars, answer, run, message, deliveries, worker>>

\* Coalesced: GetAsync of the run the lock names.
FetchActiveRun(r) ==
    /\ api[r] = "ensure" /\ pc[r] = "coalesced"
    /\ IF Exists(ActiveRun(r))
       THEN AtApi(r, "append") /\ UNCHANGED answer
       ELSE Respond(r, "missingRun")
    /\ UNCHANGED <<lockVars, run, message, deliveries, worker>>

\* AppendCoalescedRequestAsync touches only the audit array.
AnswerCoalesced(r) ==
    /\ api[r] = "append"
    /\ Respond(r, "coalesced")
    /\ UNCHANGED <<lockVars, run, message, deliveries, worker>>

Publish(r) ==
    /\ api[r] = "publish"
    /\ \/ /\ message' = [message EXCEPT ![r] = "ready"]
          /\ Respond(r, "accepted")
       \/ /\ "enqueue" \in Faults
          /\ AtApi(r, "abandon")
          /\ UNCHANGED <<message, answer>>
       \/ /\ "ambiguous" \in Faults
          /\ message' = [message EXCEPT ![r] = "ready"]
          /\ AtApi(r, "abandon")
          /\ UNCHANGED answer
    /\ UNCHANGED <<lockVars, run, deliveries, worker>>

\* Mutation: the run is marked, the lock is kept.
AbandonKeepsLock(r) ==
    /\ api[r] = "abandon"
    /\ BestEffort(SetFailed(r, "Transport"))
    /\ Respond(r, "enqueueFailed")
    /\ UNCHANGED <<lockVars, message, deliveries, worker>>

\* AbandonQueuedRunAsync: mark Failed/Transport, then ReleaseAsync.
Abandon(r) ==
    /\ api[r] = "abandon"
    /\ BestEffort(SetFailed(r, "Transport"))
    /\ BeginRelease(r)
    /\ AtApi(r, "release")
    /\ UNCHANGED <<answer, message, deliveries, worker>>

ReleaseStep(r) ==
    /\ api[r] = "release"
    /\ ReleaseRead(r) \/ ReleaseClear(r)
    /\ UNCHANGED runVars

Abandoned(r) ==
    /\ api[r] = "release" /\ pc[r] = "released"
    /\ Respond(r, "enqueueFailed")
    /\ UNCHANGED <<lockVars, run, message, deliveries, worker>>

ApiFails(r) ==
    /\ "api" \in Faults
    /\ api[r] \notin {"new", "done"}
    /\ IF pc[r] \in InLockCall THEN Fail(r) ELSE UNCHANGED lockVars
    /\ Respond(r, "error")
    /\ UNCHANGED <<run, message, deliveries, worker>>

-----------------------------------------------------------------------------
(* The queue and the worker (DiscoveryRequestedFunction, the orchestrator  *)
(* and its run updater).                                                   *)

AtWorker(w, label) == worker' = [worker EXCEPT ![w].pc = label]

Deliver(w, r) ==
    /\ worker[w].pc = "idle"
    /\ message[r] = "ready"
    /\ message' = [message EXCEPT ![r] = "taken"]
    /\ deliveries' = [deliveries EXCEPT ![r] = @ + 1]
    /\ worker' = [worker EXCEPT ![w] = [pc |-> "resolve", run |-> r,
                                        delivery |-> deliveries'[r]]]
    /\ UNCHANGED <<lockVars, api, answer, run>>

\* The invocation w ends: its message is completed or given back, unless
\* its lock on the message is gone by then.
Holds(w) ==
    LET r == worker[w].run
    IN  message[r] = "taken" /\ deliveries[r] = worker[w].delivery

\* Mutation: one delivery too many.
RedeliveredOnceMore(r) == IF deliveries[r] <= MaxDeliveries
                          THEN "ready" ELSE "dead"

Redelivered(r) == IF deliveries[r] < MaxDeliveries THEN "ready" ELSE "dead"

Return(w) ==
    /\ message' = [message EXCEPT ![worker[w].run] =
                       IF Holds(w) THEN "settled" ELSE @]
    /\ worker' = [worker EXCEPT ![w] = Idle]

Throw(w) ==
    /\ message' = [message EXCEPT ![worker[w].run] =
                       IF Holds(w) THEN Redelivered(worker[w].run) ELSE @]
    /\ worker' = [worker EXCEPT ![w] = Idle]

\* ResolveAsync throws: NotFound / LockAcquire.
ResolveFails(w) ==
    /\ worker[w].pc = "resolve"
    /\ AtWorker(w, "fail")
    /\ UNCHANGED <<lockVars, api, answer, run, message, deliveries>>

TransitionToInProgress(w) ==
    /\ worker[w].pc = "resolve"
    /\ SetStatus(worker[w].run, "InProgress")
    /\ AtWorker(w, "crawl")
    /\ UNCHANGED <<lockVars, api, answer, message, deliveries>>

\* The scopes and the missing-sweep: all done, or the first exception.
CrawlEnds(w) ==
    /\ worker[w].pc = "crawl"
    /\ AtWorker(w, "succeed") \/ AtWorker(w, "fail")
    /\ UNCHANGED <<lockVars, api, answer, run, message, deliveries>>

RecordSuccess(w) ==
    /\ worker[w].pc = "succeed"
    /\ SetStatus(worker[w].run, "Succeeded")
    /\ Return(w)
    /\ UNCHANGED <<lockVars, api, answer, deliveries>>

\* Mutation: the failure is logged, not recorded.
RecordNothing(w) ==
    /\ worker[w].pc = "fail"
    /\ Return(w)
    /\ UNCHANGED <<lockVars, api, answer, run, deliveries>>

RecordFailure(w) ==
    /\ worker[w].pc = "fail"
    /\ BestEffort(SetFailed(worker[w].run, "Crawl"))
    /\ Return(w)
    /\ UNCHANGED <<lockVars, api, answer, deliveries>>

\* An update that is not caught: the trigger gives the message back.
WorkerThrows(w) ==
    /\ "worker" \in Faults
    /\ worker[w].pc \in {"resolve", "succeed"}
    /\ Throw(w)
    /\ UNCHANGED <<lockVars, api, answer, run, deliveries>>

\* The process dies; the message comes back when its lock expires.
WorkerDies(w) ==
    /\ "worker" \in Faults
    /\ worker[w].pc # "idle"
    /\ worker' = [worker EXCEPT ![w] = Idle]
    /\ UNCHANGED <<lockVars, api, answer, run, message, deliveries>>

MessageLockExpires(r) ==
    /\ message[r] = "taken"
    /\ \/ "relock" \in Faults
       \/ ~\E w \in Worker : worker[w].run = r /\ Holds(w)
    /\ message' = [message EXCEPT ![r] = Redelivered(r)]
    /\ UNCHANGED <<lockVars, api, answer, run, deliveries, worker>>

-----------------------------------------------------------------------------
ApiStep(r) ==
    \/ AcquireStep(r)
    \/ AcquireExhausted(r)
    \/ MarkWorkerLost(r)
    \/ CreateQueuedRun(r)
    \/ FetchActiveRun(r)
    \/ AnswerCoalesced(r)
    \/ Publish(r)
    \/ Abandon(r)
    \/ ReleaseStep(r)
    \/ Abandoned(r)

WorkerStep(w) ==
    \/ \E r \in Request : Deliver(w, r)
    \/ ResolveFails(w)
    \/ TransitionToInProgress(w)
    \/ CrawlEnds(w)
    \/ RecordSuccess(w)
    \/ RecordFailure(w)

Next ==
    \/ \E r \in Request :
         \/ GateBlocks(r)
         \/ EnsureRun(r)
         \/ ApiStep(r)
         \/ ApiFails(r)
         \/ MessageLockExpires(r)
    \/ \E w \in Worker : WorkerStep(w) \/ WorkerThrows(w) \/ WorkerDies(w)
    \/ \E o \in Operator : (ResetRead(o) \/ ResetClear(o)) /\ UNCHANGED runVars
    \/ Tick /\ UNCHANGED runVars

Spec == Init /\ [][Next]_vars

\* Requests in progress and the worker's trigger keep running, and a lock
\* on a message that nobody serves expires.
FairSpec ==
    /\ Spec
    /\ \A r \in Request : WF_vars(ApiStep(r)) /\ WF_vars(MessageLockExpires(r))
    /\ \A w \in Worker : WF_vars(WorkerStep(w))

(* The assumption behind DiscoveryLockExpirySeconds ("to allow the worker  *)
(* time to complete a run"): time does not reach the end of a lease while  *)
(* it is being written or the run may still be worked on.  The lease       *)
(* counts from the pod's reading of the time, not from the write.          *)
Finished(r) ==
    \/ message[r] \in {"settled", "dead"}
    \/ message[r] = "none" /\ api[r] = "done"
UsesLease(r) ==
    \/ pc[r] \in {"create", "replace"}
    \/ grant[r] > 0 /\ ~Finished(r)
TimelyNext ==
    /\ Next
    /\ clock' # clock =>
         \A r \in Request : UsesLease(r) => clock' + Skew < until[r]
TimelySpec == Init /\ [][TimelyNext]_vars

-----------------------------------------------------------------------------
(* Type invariant.                                                         *)
TypeOK ==
    /\ LockTypeOK
    /\ api \in [Request -> ApiPc]
    /\ answer \in [Request -> Answers]
    /\ run \in [Request -> RunDocument]
    /\ message \in [Request -> MessageStates]
    /\ deliveries \in [Request -> 0..MaxDeliveries]
    /\ worker \in [Worker -> WorkerState]

(* A 202 always names a run whose document exists, and a 202 for a new run *)
(* means its message reached the queue: no phantom run (issue #116 in      *)
(* StartDiscoveryEndpoint.cs).                                             *)
AcceptedRunIsReal ==
    \A r \in Request :
        /\ answer[r] = "accepted" => Exists(r) /\ message[r] # "none"
        /\ answer[r] = "coalesced" => Exists(ActiveRun(r))

(* A run that could not be enqueued does not keep the lock: when the 502   *)
(* is answered, the lock names another run or none, so the next request    *)
(* does not coalesce onto a run no worker will process (issue #116).       *)
EnqueueFailureFreesLock ==
    \A r \in Request : answer[r] = "enqueueFailed" => lock.run # r

(* A run is recorded as WorkerLost only if its lease is over: a steal from *)
(* an old read never condemns a run that holds the namespace.              *)
WorkerLostOnlyAfterExpiry ==
    \A r \in Request : run[r].failure = "WorkerLost" => ~Live(r)

(* A worker only ever works on a run that was granted the lock and whose   *)
(* document was created before the message was sent.                       *)
WorkedRunsWereGranted ==
    \A w \in Worker : worker[w].pc # "idle" =>
        /\ grant[worker[w].run] > 0
        /\ Exists(worker[w].run)

(* At most one discovery of the namespace is running at a time (FR-003),   *)
(* whatever fails: a second worker gets in only when the first has lost    *)
(* the lease of its run or the lock on its message.                        *)
Entitled(w) == worker[w].pc # "idle" /\ Live(worker[w].run) /\ Holds(w)
OneEntitledWorker == \A v, w \in Worker : Entitled(v) /\ Entitled(w) => v = w

(* What a request's handler has established at each of its steps, and what *)
(* the queue and the run documents say of it.                              *)
RunConsistent(r) ==
    /\ api[r] \in {"create", "publish", "abandon", "release"} => grant[r] > 0
    /\ api[r] \in {"publish", "abandon", "release"} => Exists(r)
    /\ api[r] \in {"new", "ensure", "create", "append", "publish"}
           => message[r] = "none"
    /\ api[r] = "append" \/ answer[r] = "coalesced"
           => pc[r] = "coalesced" /\ Exists(ActiveRun(r))
    /\ answer[r] = "accepted" => message[r] # "none"
    /\ answer[r] = "enqueueFailed" => pc[r] = "released"
    /\ message[r] # "none" => Exists(r) /\ grant[r] > 0
    /\ message[r] = "none" => deliveries[r] = 0
    /\ message[r] = "ready" => deliveries[r] < MaxDeliveries
    /\ run[r].failure = "WorkerLost" => grant[r] > 0 /\ ~Live(r)

(* The inductive invariant of the runs, on top of the lock's.              *)
RunsIInv ==
    /\ TypeOK
    /\ \A r \in Request : RunConsistent(r)
    /\ \A w \in Worker : worker[w].pc # "idle" =>
           worker[w].run # NoRun /\ message[worker[w].run] # "none"

(* Deliveries are counted: no two invocations have the same one.           *)
DeliveriesDiffer ==
    /\ \A w \in Worker : worker[w].pc # "idle" =>
           worker[w].delivery <= deliveries[worker[w].run]
    /\ \A v, w \in Worker :
           worker[v].pc # "idle" /\ worker[w].pc # "idle"
           /\ worker[v].run = worker[w].run
           /\ worker[v].delivery = worker[w].delivery => v = w

(* One worker at a time, if no lease ends before its run.                  *)
OneRunAtATime ==
    \A v, w \in Worker :
        worker[v].pc # "idle" /\ worker[w].pc # "idle" => v = w

(* The inductive invariant of the timely runs when no operator resets the  *)
(* lock and no failure duplicates a message: a run that may still be       *)
(* worked on has a lease that runs and was not given back, and the worker  *)
(* on it holds its message.                                                *)
LeaseKept(r) ==
    /\ pc[r] \in {"create", "replace"} => clock + Skew < until[r]
    /\ grant[r] > 0 => until[r] = grant[r]
    /\ grant[r] > 0 /\ ~Finished(r) => clock + Skew < grant[r]
    /\ r \in ended => api[r] \in {"release", "done"} /\ message[r] = "none"
    /\ message[r] # "none" => api[r] = "done"
TimelyIInv ==
    /\ \A r \in Request : LeaseKept(r)
    /\ \A w \in Worker : worker[w].pc # "idle" => Holds(w)
    /\ OneRunAtATime

(* The lock is released when its run reaches a terminal status             *)
(* (IDiscoveryLockStore: "Worker-side release").                           *)
TerminalRunReleasesLock ==
    \A r \in Request : Terminal(run[r].status) ~> lock.run # r

(* Every request that was taken up gets a response.                        *)
RequestsAreAnswered == \A r \in Request : api[r] # "new" ~> api[r] = "done"

(* Every run that was accepted is worked on to the end: it reaches a       *)
(* terminal status, or its message is dead-lettered.                       *)
AcceptedRunEnds ==
    \A r \in Request :
        answer[r] = "accepted" ~>
            Terminal(run[r].status) \/ message[r] = "dead"
=============================================================================
