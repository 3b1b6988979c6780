--------------------------- MODULE DiscoveryLock ---------------------------
(***************************************************************************)
(* The per-namespace discovery lock: one Cosmos document per namespace,    *)
(* changed only by conditional writes on its ETag, with a lease that is    *)
(* never renewed.  The API takes it in CosmosDiscoveryLockStore before it  *)
(* starts a discovery run, gives it back in ReleaseAsync when the run      *)
(* could not be enqueued, and an operator can clear it with the            *)
(* DiscoveryLockReset tool.                                                *)
(*                                                                         *)
(* One namespace is modelled.  A request is identified with the run id it  *)
(* generates (NewRunId), so Request is also the set of run ids.  Every     *)
(* read and every write of the document is a step of its own: anything may *)
(* happen between the read of a version and the write that depends on it.  *)
(***************************************************************************)
EXTENDS Integers, FiniteSets

CONSTANTS
    Request,        \* POST .../discover requests; each brings a new run id
    Operator,       \* invocations of the DiscoveryLockReset tool
    NoRun,          \* currentRunId = null
    ExpirySeconds,  \* DiscoveryLockExpirySeconds: length of a lease
    MaxRetries,     \* attempts of TryAcquireAsync
    Skew,           \* how far the clock of a pod may be from the true time
    MaxClock        \* bound on the true time, for model checking only

ASSUME RequestAssumption == NoRun \notin Request
ASSUME ExpiryAssumption == ExpirySeconds \in Nat \ {0}
ASSUME RetriesAssumption == MaxRetries \in Nat \ {0}
ASSUME SkewAssumption == Skew \in Nat
ASSUME ClockAssumption == MaxClock \in Nat

VARIABLES
    clock,      \* the true time
    lock,       \* the lock document: ETag, currentRunId, expectedReleaseByUtc
    pc,         \* pc[r]: where request r is in TryAcquireAsync / ReleaseAsync
    attempt,    \* attempt[r]: the loop counter of TryAcquireAsync
    seen,       \* seen[r]: the document as r read it last
    until,      \* until[r]: the expectedReleaseByUtc r is about to write
    opPc,       \* opPc[o]: where an invocation of the reset tool is
    opSeen,     \* opSeen[o]: the document the tool read
    grant,      \* history: end of the lease granted to r, 0 if none was
    ended,      \* history: the runs whose lease was given back or reset
    asked       \* history: the true time at which request r began

callVars == <<attempt, seen, until>>
toolVars == <<opPc, opSeen>>
historyVars == <<grant, ended, asked>>
lockVars == <<clock, lock, pc, callVars, toolVars, historyVars>>

-----------------------------------------------------------------------------
(* The document.  ETag 0 stands for "no document yet" (404 on a read).     *)

LockDocument == [etag : Nat, run : Request \cup {NoRun}, expires : Nat]

NoDocument == [etag |-> 0, run |-> NoRun, expires |-> 0]

\* The document that is left when the last of earlier runs was released.
Reopened == [etag |-> 1, run |-> NoRun, expires |-> 0]

\* The version a write produces: Cosmos gives every write a fresh ETag.
Written(d, r, e) == [etag |-> d.etag + 1, run |-> r, expires |-> e]

\* IfMatchEtag: the write succeeds only on the version that was read.
\* Mutation: the condition is not sent.
IfMatchIgnored(d, s) == TRUE
IfMatch(d, s) == d.etag = s.etag

\* TimeProvider.GetUtcNow() on some pod.
Readings == {t \in (clock - Skew)..(clock + Skew) : t >= 0}

\* The end of a lease that is written at the pod's time.
\* Mutation: twice the length.
LeaseEndTwice(now) == now + ExpirySeconds + ExpirySeconds
LeaseEnd(now) == now + ExpirySeconds

\* Path 4 against path 5: the lease has not passed at the pod's time.
\* Mutations: a lease is still held at its very end; a lease about to end
\* counts as over.
UnexpiredInclusive(d, now) == d.expires >= now
UnexpiredOnlyLong(d, now) == d.expires > now + ExpirySeconds
Unexpired(d, now) == d.expires > now

LockPc == {"idle", "read", "decide", "create", "replace", "acquired",
           "stolen", "coalesced", "exhausted", "relRead", "relClear",
           "released", "failed"}

-----------------------------------------------------------------------------
LockInit ==
    /\ clock = 0
    /\ lock \in {NoDocument, Reopened}
    /\ pc = [r \in Request |-> "idle"]
    /\ attempt = [r \in Request |-> 0]
    /\ seen = [r \in Request |-> NoDocument]
    /\ until = [r \in Request |-> 0]
    /\ opPc = [o \in Operator |-> "idle"]
    /\ opSeen = [o \in Operator |-> NoDocument]
    /\ grant = [r \in Request |-> 0]
    /\ ended = {}
    /\ asked = [r \in Request |-> 0]

\* ActiveRunId of a Coalesced outcome, StolenRunId of a Stolen one: the run
\* named by the document the outcome was decided on.
ActiveRun(r) == seen[r].run
StolenRun(r) == seen[r].run

Goto(r, label) == pc' = [pc EXCEPT ![r] = label]

\* EnsureRunAsync calls TryAcquireAsync with a new run id.
BeginAcquire(r) ==
    /\ pc[r] = "idle"
    /\ Goto(r, "read")
    /\ asked' = [asked EXCEPT ![r] = clock]
    /\ UNCHANGED <<clock, lock, callVars, toolVars, grant, ended>>

ReadLock(r) ==
    /\ pc[r] = "read"
    /\ seen' = [seen EXCEPT ![r] = lock]
    /\ Goto(r, "decide")
    /\ UNCHANGED <<clock, lock, attempt, until, toolVars, historyVars>>

\* The branch on what was read, at the time the pod reads after the read.
Decide(r) ==
    /\ pc[r] = "decide"
    /\ \E now \in Readings :
         LET d == seen[r]
             take == until' = [until EXCEPT ![r] = LeaseEnd(now)]
         IN  \/ /\ d.etag = 0
                /\ take
                /\ Goto(r, "create")
             \/ /\ d.etag # 0 /\ (d.run = NoRun \/ ~Unexpired(d, now))
                /\ take
                /\ Goto(r, "replace")
             \/ /\ d.etag # 0 /\ d.run # NoRun /\ Unexpired(d, now)
                /\ Goto(r, "coalesced")
                /\ UNCHANGED until
    /\ UNCHANGED <<clock, lock, attempt, seen, toolVars, historyVars>>

\* Mutation: the same write is attempted again, without a new read.
RetryInPlace(r) == Goto(r, pc[r]) /\ UNCHANGED <<lock, grant, attempt>>

\* Mutation: the last attempt is never made.
RetryTooSeldom(r) ==
    /\ attempt' = [attempt EXCEPT ![r] = @ + 1]
    /\ Goto(r, IF attempt[r] + 2 < MaxRetries THEN "read" ELSE "exhausted")
    /\ UNCHANGED <<lock, grant>>

\* Conflict or 412: next iteration of the loop, or the exception after it.
Retry(r) ==
    /\ attempt' = [attempt EXCEPT ![r] = @ + 1]
    /\ Goto(r, IF attempt[r] + 1 < MaxRetries THEN "read" ELSE "exhausted")
    /\ UNCHANGED <<lock, grant>>

\* The lock document now names r as holder.
Take(r) ==
    /\ lock' = Written(lock, r, until[r])
    /\ grant' = [grant EXCEPT ![r] = until[r]]
    /\ UNCHANGED attempt

\* Mutation: an upsert in place of the create, which never conflicts.
CreateLockByUpsert(r) ==
    /\ pc[r] = "create"
    /\ Take(r)
    /\ Goto(r, "acquired")
    /\ UNCHANGED <<clock, seen, until, toolVars, ended, asked>>

CreateLock(r) ==
    /\ pc[r] = "create"
    /\ \/ lock.etag = 0 /\ Take(r) /\ Goto(r, "acquired")
       \/ lock.etag # 0 /\ Retry(r)
    /\ UNCHANGED <<clock, seen, until, toolVars, ended, asked>>

ReplaceLock(r) ==
    /\ pc[r] = "replace"
    /\ \/ /\ IfMatch(lock, seen[r])
          /\ Take(r)
          /\ Goto(r, IF StolenRun(r) = NoRun THEN "acquired" ELSE "stolen")
       \/ ~IfMatch(lock, seen[r]) /\ Retry(r)
    /\ UNCHANGED <<clock, seen, until, toolVars, ended, asked>>

-----------------------------------------------------------------------------
(* ReleaseAsync: read, compare, conditional clear.                         *)

BeginRelease(r) ==
    /\ pc[r] \in {"acquired", "stolen"}
    /\ Goto(r, "relRead")
    /\ UNCHANGED <<clock, lock, callVars, toolVars, historyVars>>

\* Mutation: the release does not look who the holder is.
ReleaseReadUnchecked(r) ==
    /\ pc[r] = "relRead"
    /\ seen' = [seen EXCEPT ![r] = lock]
    /\ Goto(r, "relClear")
    /\ UNCHANGED <<clock, lock, attempt, until, toolVars, historyVars>>

\* "Only release if WE are the holder."
ReleaseRead(r) ==
    /\ pc[r] = "relRead"
    /\ seen' = [seen EXCEPT ![r] = lock]
    /\ Goto(r, IF lock.run = r THEN "relClear" ELSE "released")
    /\ UNCHANGED <<clock, lock, attempt, until, toolVars, historyVars>>

\* The write that opens the lock, by whoever it is done.
Open ==
    /\ lock' = Written(lock, NoRun, 0)
    /\ ended' = ended \cup ({lock.run} \ {NoRun})

\* A 412 is swallowed: someone else has changed the document.
ReleaseClear(r) ==
    /\ pc[r] = "relClear"
    /\ \/ IfMatch(lock, seen[r]) /\ Open
       \/ ~IfMatch(lock, seen[r]) /\ UNCHANGED <<lock, ended>>
    /\ Goto(r, "released")
    /\ UNCHANGED <<clock, callVars, toolVars, grant, asked>>

InLockCall == {"read", "decide", "create", "replace", "acquired", "stolen",
               "relRead", "relClear"}

\* A Cosmos error other than 404, 409 and 412 leaves the handler, or the pod
\* dies.  From "acquired" and "stolen" it is also the write that took effect
\* although its response was lost.
Fail(r) ==
    /\ pc[r] \in InLockCall
    /\ Goto(r, "failed")
    /\ UNCHANGED <<clock, lock, callVars, toolVars, historyVars>>

-----------------------------------------------------------------------------
(* The DiscoveryLockReset tool: read, then clear on the version read.      *)

ResetRead(o) ==
    /\ opPc[o] = "idle"
    /\ opSeen' = [opSeen EXCEPT ![o] = lock]
    /\ opPc' = [opPc EXCEPT ![o] = IF lock.etag = 0 THEN "done" ELSE "clear"]
    /\ UNCHANGED <<clock, lock, pc, callVars, historyVars>>

ResetClear(o) ==
    /\ opPc[o] = "clear"
    /\ \/ IfMatch(lock, opSeen[o]) /\ Open
       \/ ~IfMatch(lock, opSeen[o]) /\ UNCHANGED <<lock, ended>>
    /\ opPc' = [opPc EXCEPT ![o] = "done"]
    /\ UNCHANGED <<clock, pc, callVars, opSeen, grant, asked>>

Tick ==
    /\ clock < MaxClock
    /\ clock' = clock + 1
    /\ UNCHANGED <<lock, pc, callVars, toolVars, historyVars>>

-----------------------------------------------------------------------------
\* The steps of a call in progress, which only a failure can stop.
LockStep(r) ==
    \/ ReadLock(r)
    \/ Decide(r)
    \/ CreateLock(r)
    \/ ReplaceLock(r)
    \/ ReleaseRead(r)
    \/ ReleaseClear(r)

LockNext ==
    \/ \E r \in Request :
         \/ BeginAcquire(r)
         \/ LockStep(r)
         \/ BeginRelease(r)
         \/ Fail(r)
    \/ \E o \in Operator : ResetRead(o) \/ ResetClear(o)
    \/ Tick

LockSpec == LockInit /\ [][LockNext]_lockVars

-----------------------------------------------------------------------------
(* Type invariant.                                                         *)
LockTypeOK ==
    /\ clock \in Nat
    /\ lock \in LockDocument
    /\ pc \in [Request -> LockPc]
    /\ attempt \in [Request -> Nat]
    /\ seen \in [Request -> LockDocument]
    /\ until \in [Request -> Nat]
    /\ opPc \in [Operator -> {"idle", "clear", "done"}]
    /\ opSeen \in [Operator -> LockDocument]
    /\ grant \in [Request -> Nat]
    /\ ended \in SUBSET Request
    /\ asked \in [Request -> Nat]

\* The lease of r still runs on every pod's clock and nobody gave it back.
Live(r) == grant[r] > clock + Skew /\ r \notin ended

(* A lease that was granted, that no pod can believe to be over and that   *)
(* was not given back is the one in the lock document: no steal, release   *)
(* or reset working from an old read ever overwrites it (TryAcquireAsync   *)
(* and ReleaseAsync of DiscoveryLockStore.cs).                             *)
LiveLeaseHoldsLock == \A r \in Request : Live(r) => lock.run = r

(* Two runs never hold live leases on the namespace at the same time,      *)
(* which is what the lock is for (FR-003).                                 *)
LeaseExclusive == \A r, s \in Request : Live(r) /\ Live(s) => r = s

(* A request that gives up after MaxRetries attempts lost every one of     *)
(* them to a write of someone else: the loop never spins on its own, since *)
(* the document has reached its version MaxRetries by then.                *)
ExhaustedOnlyByContention ==
    \A r \in Request : pc[r] = "exhausted" => lock.etag >= MaxRetries

(* A request is coalesced only onto another run, one to which the lock was *)
(* granted with a lease that was not over when the request began: an       *)
(* expired holder never absorbs new requests (path 4 against path 5).      *)
CoalescedOntoCurrentLease ==
    \A r \in Request : pc[r] = "coalesced" =>
        /\ ActiveRun(r) \in Request \ {r}
        /\ grant[ActiveRun(r)] + Skew > asked[r]

(* After ReleaseAsync has returned, the lock does not name the run that    *)
(* was released, whoever changed the document in between: a swallowed 412  *)
(* never leaves the caller's own lease in place.                           *)
ReleasedMeansFree == \A r \in Request : pc[r] = "released" => lock.run # r

(* A version of the document that somebody read: it is no newer than the   *)
(* document, it is the document if their ETags agree, and the run it names *)
(* was granted exactly that lease and has no later version of its own.     *)
Snapshot(d) ==
    /\ d.etag <= lock.etag
    /\ (d.etag = lock.etag => d = lock)
    /\ d.run # NoRun => /\ grant[d.run] = d.expires
                        /\ d.expires > 0
                        /\ (lock.run = d.run => d.etag = lock.etag)

(* What is known of the document and of every version of it that a request *)
(* or an operator still holds.                                             *)
DocumentsConsistent ==
    /\ Snapshot(lock)
    /\ (lock.etag = 0 => lock = NoDocument)
    /\ (lock.run = NoRun => lock.expires = 0)
    /\ lock.run \notin ended
    /\ \A s \in ended : grant[s] > 0
    /\ \A r \in Request : Snapshot(seen[r])
    /\ \A o \in Operator : Snapshot(opSeen[o])

(* What a request has established by the time it reaches each step.        *)
CallConsistent(r) ==
    /\ asked[r] <= clock
    /\ attempt[r] <= lock.etag
    /\ pc[r] \in {"decide", "create", "replace"}
           => attempt[r] <= seen[r].etag
    /\ pc[r] = "exhausted" => attempt[r] >= MaxRetries
    /\ pc[r] = "create" => seen[r].etag = 0
    /\ pc[r] = "replace" => seen[r].etag # 0
    /\ pc[r] = "replace" /\ seen[r].run # NoRun
           => seen[r].expires <= clock + Skew
    /\ pc[r] \in {"create", "replace"}
           => until[r] \in 1..(clock + Skew + ExpirySeconds)
    /\ pc[r] = "relClear" => seen[r].run = r
    /\ pc[r] \in {"idle", "read", "decide", "create", "replace", "coalesced",
                  "exhausted"} => grant[r] = 0
    /\ pc[r] \in {"acquired", "stolen", "relRead", "relClear", "released"}
           => grant[r] > 0
    /\ pc[r] = "stolen" => /\ seen[r].run # NoRun
                           /\ seen[r].expires <= clock + Skew

(* The inductive invariant of the lock, from which everything said of it   *)
(* below follows.                                                          *)
LockIInv ==
    /\ LockTypeOK
    /\ DocumentsConsistent
    /\ \A r \in Request : CallConsistent(r)
    /\ LiveLeaseHoldsLock
    /\ CoalescedOntoCurrentLease
    /\ ReleasedMeansFree

(* The lock passes from one run straight to another only when the first    *)
(* one's lease is over on the clock of the pod that steals it.             *)
StealOnlyAfterExpiry ==
    [][ (lock.run # NoRun /\ lock'.run \notin {lock.run, NoRun})
            => lock.expires <= clock + Skew ]_lock

(* The lock is opened only by the release of its own holder or by an       *)
(* operator that saw this very holder.                                     *)
OpenedOnlyByHolderOrReset ==
    [][ (lock.run # NoRun /\ lock'.run = NoRun)
            => \/ pc[lock.run] = "relClear" /\ pc'[lock.run] = "released"
               \/ \E o \in Operator :
                    /\ opPc[o] = "clear" /\ opPc'[o] = "done"
                    /\ opSeen[o].run = lock.run ]_lock

(* A run is granted the lock at most once, with a lease no longer than     *)
(* ExpirySeconds from the (skewed) present.                                *)
GrantedOnce ==
    [][ \A r \in Request : grant'[r] # grant[r] =>
            /\ grant[r] = 0
            /\ grant'[r] <= clock + Skew + ExpirySeconds ]_grant

(* The lock is a lease: holder and end are those of the document, and a    *)
(* run has been served when it was granted one.                            *)
Lease == INSTANCE DiscoveryLease
             WITH holder <- lock.run, leaseEnd <- lock.expires,
                  served <- {r \in Request : grant[r] > 0}

(* Whatever requests, operators and failures do, the document goes through *)
(* the states of a lease that passes on only when it is over or given back.*)
ImplementsLease == Lease!Spec
=============================================================================
