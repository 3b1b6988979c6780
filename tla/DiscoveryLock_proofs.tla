------------------------ MODULE DiscoveryLock_proofs ------------------------
(***************************************************************************)
(* Proofs about the discovery lock, for every number of requests and       *)
(* operators, every lease length, retry limit and clock skew.              *)
(***************************************************************************)
EXTENDS DiscoveryLock, TLAPS

-----------------------------------------------------------------------------
(* What Decide does, with the reading of the pod's clock named.            *)
LEMMA DecideCases ==
    ASSUME LockTypeOK, NEW r \in Request, Decide(r)
    PROVE  \E now \in Nat :
              /\ clock - Skew <= now /\ now <= clock + Skew
              /\ \/ /\ seen[r].etag = 0
                    /\ until' = [until EXCEPT ![r] = now + ExpirySeconds]
                    /\ Goto(r, "create")
                 \/ /\ seen[r].etag # 0
                    /\ seen[r].run = NoRun \/ seen[r].expires <= now
                    /\ until' = [until EXCEPT ![r] = now + ExpirySeconds]
                    /\ Goto(r, "replace")
                 \/ /\ seen[r].run # NoRun /\ seen[r].expires > now
                    /\ until' = until
                    /\ Goto(r, "coalesced")
<1>1. PICK now \in Readings : Decide(r)!2!(now)
    BY DEF Decide
<1>2. now \in Nat /\ clock - Skew <= now /\ now <= clock + Skew
    BY SkewAssumption DEF Readings, LockTypeOK
<1>3. seen[r].expires \in Nat
    BY DEF LockTypeOK, LockDocument
<1>4. Unexpired(seen[r], now) <=> seen[r].expires > now
    BY DEF Unexpired
<1>5. LeaseEnd(now) = now + ExpirySeconds
    BY DEF LeaseEnd
<1> QED
    BY <1>1, <1>2, <1>3, <1>4, <1>5

(* A write makes a document of a document.                                 *)
LEMMA WrittenType ==
    ASSUME NEW d \in LockDocument, NEW r \in Request \cup {NoRun}, NEW e \in Nat
    PROVE  Written(d, r, e) \in LockDocument
BY DEF Written, LockDocument

(* Taking the lock changes the document and the history of grants, with a  *)
(* value of the right type.                                                *)
LEMMA TakeType ==
    ASSUME LockTypeOK, NEW r \in Request, Take(r)
    PROVE  /\ lock' \in LockDocument
           /\ grant' \in [Request -> Nat]
           /\ attempt' = attempt
<1>1. until[r] \in Nat /\ lock \in LockDocument /\ grant \in [Request -> Nat]
    BY DEF LockTypeOK
<1> QED
    BY <1>1, WrittenType DEF Take

(* What ReplaceLock does: the write on the version read, or one more turn. *)
LEMMA ReplaceCases ==
    ASSUME NEW r \in Request, ReplaceLock(r)
    PROVE  \/ /\ lock.etag = seen[r].etag
              /\ Take(r)
              /\ Goto(r, "acquired") \/ Goto(r, "stolen")
           \/ lock.etag # seen[r].etag /\ Retry(r)
<1>1. CASE StolenRun(r) = NoRun
    BY <1>1 DEF ReplaceLock, IfMatch
<1>2. CASE StolenRun(r) # NoRun
    BY <1>2 DEF ReplaceLock, IfMatch
<1> QED
    BY <1>1, <1>2

(* The types of the variables are kept by every step.                      *)
LEMMA TypeStep == LockTypeOK /\ [LockNext]_lockVars => LockTypeOK'
<1> SUFFICES ASSUME LockTypeOK, [LockNext]_lockVars PROVE LockTypeOK'
    OBVIOUS
<1> USE RequestAssumption, ExpiryAssumption, RetriesAssumption,
        SkewAssumption, ClockAssumption
        DEF LockTypeOK, LockDocument, LockPc, Goto, callVars, toolVars,
            historyVars
<1>1. ASSUME NEW r \in Request, BeginAcquire(r) PROVE LockTypeOK'
    BY <1>1 DEF BeginAcquire
<1>2. ASSUME NEW r \in Request, ReadLock(r) PROVE LockTypeOK'
    BY <1>2 DEF ReadLock
<1>3. ASSUME NEW r \in Request, Decide(r) PROVE LockTypeOK'
    <2> PICK now \in Nat :
            \/ until' = [until EXCEPT ![r] = now + ExpirySeconds]
               /\ (Goto(r, "create") \/ Goto(r, "replace"))
            \/ until' = until /\ Goto(r, "coalesced")
        BY <1>3, DecideCases
    <2> QED
        BY <1>3 DEF Decide
<1>4. ASSUME NEW r \in Request, CreateLock(r) PROVE LockTypeOK'
    <2>1. CASE Take(r) /\ Goto(r, "acquired")
        BY <1>4, <2>1, TakeType DEF CreateLock
    <2>2. CASE Retry(r)
        BY <1>4, <2>2 DEF CreateLock, Retry
    <2> QED
        BY <1>4, <2>1, <2>2 DEF CreateLock
<1>5. ASSUME NEW r \in Request, ReplaceLock(r) PROVE LockTypeOK'
    <2>1. CASE Take(r) /\ (Goto(r, "acquired") \/ Goto(r, "stolen"))
        BY <1>5, <2>1, TakeType DEF ReplaceLock
    <2>2. CASE Retry(r)
        BY <1>5, <2>2 DEF ReplaceLock, Retry
    <2> QED
        BY <1>5, <2>1, <2>2, ReplaceCases
<1>6. ASSUME NEW r \in Request, BeginRelease(r) PROVE LockTypeOK'
    BY <1>6 DEF BeginRelease
<1>7. ASSUME NEW r \in Request, ReleaseRead(r) PROVE LockTypeOK'
    BY <1>7 DEF ReleaseRead
<1>8. ASSUME NEW r \in Request, ReleaseClear(r) PROVE LockTypeOK'
    BY <1>8 DEF ReleaseClear, Open, Written
<1>9. ASSUME NEW r \in Request, Fail(r) PROVE LockTypeOK'
    BY <1>9 DEF Fail
<1>10. ASSUME NEW o \in Operator, ResetRead(o) PROVE LockTypeOK'
    BY <1>10 DEF ResetRead
<1>11. ASSUME NEW o \in Operator, ResetClear(o) PROVE LockTypeOK'
    BY <1>11 DEF ResetClear, Open, Written
<1>12. CASE Tick
    BY <1>12 DEF Tick
<1>13. CASE UNCHANGED lockVars
    BY <1>13 DEF lockVars
<1> QED
    BY <1>1, <1>2, <1>3, <1>4, <1>5, <1>6, <1>7, <1>8, <1>9, <1>10, <1>11,
       <1>12, <1>13 DEF LockNext, LockStep

-----------------------------------------------------------------------------
(* The three things a step can do to the document, and why each of them    *)
(* keeps every version that somebody still holds consistent with it.       *)

\* Reading it, or leaving it alone.
LEMMA DocumentsRead ==
    ASSUME LockTypeOK, DocumentsConsistent, UNCHANGED <<lock, grant, ended>>,
           \A r \in Request : seen'[r] \in {seen[r], lock},
           \A o \in Operator : opSeen'[o] \in {opSeen[o], lock}
    PROVE  DocumentsConsistent'
BY DEF DocumentsConsistent, Snapshot, NoDocument

\* Granting it to a run that never held it.
LEMMA DocumentsTaken ==
    ASSUME LockTypeOK, DocumentsConsistent,
           NEW r \in Request, Take(r), grant[r] = 0, until[r] > 0,
           UNCHANGED <<seen, opSeen, ended>>
    PROVE  DocumentsConsistent'
<1> USE RequestAssumption DEF LockTypeOK, LockDocument, Take, Written
<1>1. /\ lock'.etag = lock.etag + 1
      /\ lock'.run = r
      /\ lock'.expires = until[r]
      /\ lock.etag \in Nat
    OBVIOUS
<1>2. \A s \in Request : s # r => grant'[s] = grant[s]
    OBVIOUS
<1>3. grant'[r] = until[r]
    OBVIOUS
<1>4. ASSUME NEW d \in LockDocument, Snapshot(d)
      PROVE  /\ d.etag < lock'.etag
             /\ d.run # NoRun => /\ grant'[d.run] = d.expires
                                 /\ d.expires > 0
                                 /\ lock'.run # d.run
    BY <1>1, <1>2, <1>4 DEF Snapshot
<1>5. \A s \in Request : Snapshot(seen[s])'
    BY <1>1, <1>4 DEF DocumentsConsistent, Snapshot
<1>6. \A o \in Operator : Snapshot(opSeen[o])'
    BY <1>1, <1>4 DEF DocumentsConsistent, Snapshot
<1>7. Snapshot(lock)'
    BY <1>1, <1>3 DEF Snapshot
<1>8. r \notin ended /\ \A s \in ended : grant'[s] > 0
    BY <1>2 DEF DocumentsConsistent
<1> QED
    BY <1>1, <1>5, <1>6, <1>7, <1>8 DEF DocumentsConsistent, NoDocument

\* Opening it.
LEMMA DocumentsOpened ==
    ASSUME LockTypeOK, DocumentsConsistent, Open,
           UNCHANGED <<seen, opSeen, grant>>
    PROVE  DocumentsConsistent'
<1> USE RequestAssumption DEF LockTypeOK, LockDocument, Open, Written
<1>1. /\ lock'.etag = lock.etag + 1
      /\ lock'.run = NoRun
      /\ lock'.expires = 0
      /\ lock.etag \in Nat
    OBVIOUS
<1>2. \A s \in Request : Snapshot(seen[s])'
    BY <1>1 DEF DocumentsConsistent, Snapshot
<1>3. \A o \in Operator : Snapshot(opSeen[o])'
    BY <1>1 DEF DocumentsConsistent, Snapshot
<1>4. Snapshot(lock)'
    BY <1>1 DEF Snapshot
<1>5. NoRun \notin ended' /\ \A s \in ended' : grant'[s] > 0
    BY DEF DocumentsConsistent, Snapshot
<1> QED
    BY <1>1, <1>2, <1>3, <1>4, <1>5 DEF DocumentsConsistent, NoDocument

-----------------------------------------------------------------------------
(* The invariant is kept by every step: one lemma for each of its parts    *)
(* that depends on how the document and the calls move together.           *)

\* What a request knows when it is about to write.
LEMMA AboutToWrite ==
    ASSUME LockIInv, NEW r \in Request, pc[r] \in {"create", "replace"}
    PROVE  /\ grant[r] = 0
           /\ until[r] > 0
           /\ r \notin ended
           /\ until[r] <= clock + Skew + ExpirySeconds
<1>1. /\ grant[r] = 0
      /\ until[r] \in 1..(clock + Skew + ExpirySeconds)
    BY DEF LockIInv, CallConsistent
<1>2. \A s \in ended : grant[s] > 0
    BY DEF LockIInv, DocumentsConsistent
<1> QED
    BY <1>1, <1>2, SkewAssumption, ExpiryAssumption DEF LockIInv, LockTypeOK

LEMMA DocumentsStep ==
    LockIInv /\ [LockNext]_lockVars => DocumentsConsistent'
<1> SUFFICES ASSUME LockIInv, [LockNext]_lockVars
             PROVE  DocumentsConsistent'
    OBVIOUS
<1> USE DEF callVars, toolVars, historyVars
<1>0. LockTypeOK /\ DocumentsConsistent
    BY DEF LockIInv
<1>1. ASSUME NEW r \in Request,
             \/ BeginAcquire(r) \/ Decide(r) \/ BeginRelease(r) \/ Fail(r)
             \/ ReadLock(r) \/ ReleaseRead(r)
      PROVE  DocumentsConsistent'
    <2>1. /\ UNCHANGED <<lock, grant, ended, opSeen>>
          /\ seen' = seen \/ seen' = [seen EXCEPT ![r] = lock]
        BY <1>1 DEF BeginAcquire, Decide, BeginRelease, Fail, ReadLock,
                    ReleaseRead
    <2>2. \A s \in Request : seen'[s] \in {seen[s], lock}
        BY <1>0, <2>1 DEF LockTypeOK
    <2> QED
        BY <1>0, <2>1, <2>2, DocumentsRead
<1>2. ASSUME NEW r \in Request, CreateLock(r) \/ ReplaceLock(r)
      PROVE  DocumentsConsistent'
    <2>1. /\ UNCHANGED <<seen, opSeen, ended>>
          /\ Take(r) \/ UNCHANGED <<lock, grant>>
          /\ pc[r] \in {"create", "replace"}
        BY <1>2 DEF CreateLock, ReplaceLock, Retry
    <2>2. CASE Take(r)
        BY <1>0, <2>1, <2>2, AboutToWrite, DocumentsTaken
    <2>3. CASE UNCHANGED <<lock, grant>>
        BY <1>0, <2>1, <2>3, DocumentsRead
    <2> QED
        BY <2>1, <2>2, <2>3
<1>3. ASSUME \/ \E r \in Request : ReleaseClear(r)
             \/ \E o \in Operator : ResetClear(o)
      PROVE  DocumentsConsistent'
    <2>1. /\ UNCHANGED <<seen, opSeen, grant>>
          /\ Open \/ UNCHANGED <<lock, ended>>
        BY <1>3 DEF ReleaseClear, ResetClear
    <2> QED
        BY <1>0, <2>1, DocumentsOpened, DocumentsRead
<1>4. ASSUME NEW o \in Operator, ResetRead(o)
      PROVE  DocumentsConsistent'
    <2>1. /\ UNCHANGED <<lock, grant, ended, seen>>
          /\ opSeen' = [opSeen EXCEPT ![o] = lock]
        BY <1>4 DEF ResetRead
    <2>2. \A q \in Operator : opSeen'[q] \in {opSeen[q], lock}
        BY <1>0, <2>1 DEF LockTypeOK
    <2> QED
        BY <1>0, <2>1, <2>2, DocumentsRead
<1>5. CASE Tick \/ UNCHANGED lockVars
    BY <1>0, <1>5, DocumentsRead DEF Tick, lockVars
<1> QED
    BY <1>1, <1>2, <1>3, <1>4, <1>5 DEF LockNext, LockStep

\* No write replaces a lease that is live.
LEMMA LiveStep == LockIInv /\ [LockNext]_lockVars => LiveLeaseHoldsLock'
<1> SUFFICES ASSUME LockIInv, [LockNext]_lockVars
             PROVE  LiveLeaseHoldsLock'
    OBVIOUS
<1> USE RequestAssumption, SkewAssumption
        DEF LiveLeaseHoldsLock, Live, callVars, toolVars, historyVars
<1>0. LockTypeOK /\ DocumentsConsistent /\ LiveLeaseHoldsLock
    BY DEF LockIInv
<1>1. ASSUME NEW r \in Request, CreateLock(r) \/ ReplaceLock(r), Take(r)
      PROVE  LiveLeaseHoldsLock'
    <2>1. \A s \in Request : ~Live(s)
        <3>1. CASE CreateLock(r)
            BY <1>0, <1>1, <3>1 DEF CreateLock, Retry, Take,
               Written, DocumentsConsistent, NoDocument, LockTypeOK,
               LockDocument
        <3>2. CASE ReplaceLock(r)
            <4>1. lock = seen[r]
                BY <1>0, <1>1, <3>2, ReplaceCases DEF Retry, Take, Written,
                   DocumentsConsistent, Snapshot, LockTypeOK, LockDocument
            <4>2. lock.run = NoRun \/ lock.expires <= clock + Skew
                BY <3>2, <4>1 DEF LockIInv, CallConsistent, ReplaceLock
            <4> QED
                BY <1>0, <4>2 DEF DocumentsConsistent, Snapshot,
                   LockTypeOK, LockDocument
        <3> QED
            BY <1>1, <3>1, <3>2
    <2>2. /\ lock'.run = r
          /\ \A s \in Request \ {r} : grant'[s] = grant[s]
          /\ UNCHANGED <<clock, ended>>
        BY <1>0, <1>1 DEF Take, Written, CreateLock, ReplaceLock, LockTypeOK
    <2> QED
        BY <2>1, <2>2
<1>2. ASSUME Open, UNCHANGED <<clock, grant>>
      PROVE  LiveLeaseHoldsLock'
    BY <1>0, <1>2 DEF Open
<1>3. ASSUME UNCHANGED <<lock, grant, ended>>, clock' = clock \/ Tick
      PROVE  LiveLeaseHoldsLock'
    BY <1>0, <1>3 DEF Tick, LockTypeOK
<1>4. \/ \E r \in Request : (CreateLock(r) \/ ReplaceLock(r)) /\ Take(r)
      \/ Open /\ UNCHANGED <<clock, grant>>
      \/ UNCHANGED <<lock, grant, ended>> /\ (clock' = clock \/ Tick)
    BY DEF LockNext, LockStep, BeginAcquire, ReadLock, Decide, CreateLock,
       ReplaceLock, Retry, BeginRelease, ReleaseRead, ReleaseClear, Fail,
       ResetRead, ResetClear, Tick, lockVars
<1> QED
    BY <1>1, <1>2, <1>3, <1>4

\* A release that has returned left another holder in place, or none.
LEMMA ReleasedStep == LockIInv /\ [LockNext]_lockVars => ReleasedMeansFree'
<1> SUFFICES ASSUME LockIInv, [LockNext]_lockVars,
                    NEW r \in Request, pc'[r] = "released"
             PROVE  lock'.run # r
    BY DEF ReleasedMeansFree
<1> USE RequestAssumption
<1>0. /\ LockTypeOK /\ DocumentsConsistent /\ CallConsistent(r)
      /\ pc[r] = "released" => lock.run # r
    BY DEF LockIInv, ReleasedMeansFree
<1>1. CASE pc[r] # "released"
    <2>1. ReleaseRead(r) \/ ReleaseClear(r)
        BY <1>0, <1>1 DEF LockTypeOK, LockNext, LockStep, BeginAcquire,
           ReadLock, Decide, CreateLock, ReplaceLock, Retry, BeginRelease,
           ReleaseRead, ReleaseClear, Fail, ResetRead, ResetClear, Tick,
           lockVars, Goto, LockPc
    <2>2. CASE ReleaseRead(r)
        BY <1>0, <2>2 DEF ReleaseRead, Goto, LockTypeOK
    <2>3. CASE ReleaseClear(r)
        BY <1>0, <2>3 DEF ReleaseClear, Open, Written, IfMatch, Goto,
           LockTypeOK, CallConsistent, DocumentsConsistent, Snapshot
    <2> QED
        BY <2>1, <2>2, <2>3
<1>2. CASE pc[r] = "released"
    <2>1. lock'.run \in {lock.run, NoRun}
              \/ \E s \in Request \ {r} : lock'.run = s
        BY <1>2 DEF LockNext, LockStep, BeginAcquire, ReadLock, Decide,
           CreateLock, ReplaceLock, Retry, Take, BeginRelease, ReleaseRead,
           ReleaseClear, Open, Written, Fail, ResetRead, ResetClear, Tick,
           lockVars
    <2> QED
        BY <1>0, <1>2, <2>1
<1> QED
    BY <1>1, <1>2

\* A request never coalesces onto a lease that was over when it asked, and
\* the lease it coalesced onto is never rewritten.
LEMMA CoalescedStep ==
    LockIInv /\ [LockNext]_lockVars => CoalescedOntoCurrentLease'
<1> SUFFICES ASSUME LockIInv, [LockNext]_lockVars,
                    NEW r \in Request, pc'[r] = "coalesced"
             PROVE  /\ seen'[r].run \in Request \ {r}
                    /\ grant'[seen'[r].run] + Skew > asked'[r]
    BY DEF CoalescedOntoCurrentLease, ActiveRun
<1> USE SkewAssumption
<1>0. /\ LockTypeOK /\ DocumentsConsistent /\ CallConsistent(r)
      /\ pc[r] = "coalesced" => /\ seen[r].run \in Request \ {r}
                                /\ grant[seen[r].run] + Skew > asked[r]
    BY DEF LockIInv, CoalescedOntoCurrentLease, ActiveRun
<1>1. CASE pc[r] # "coalesced"
    <2>1. Decide(r)
        BY <1>0, <1>1 DEF LockTypeOK, LockNext, LockStep, BeginAcquire,
           ReadLock, Decide, CreateLock, ReplaceLock, Retry, BeginRelease,
           ReleaseRead, ReleaseClear, Fail, ResetRead, ResetClear, Tick,
           lockVars, Goto, LockPc
    <2>2. PICK now \in Nat : /\ clock - Skew <= now
                             /\ seen[r].run # NoRun
                             /\ seen[r].expires > now
        BY <1>0, <2>1, DecideCases DEF Goto, LockTypeOK
    <2>3. /\ grant[seen[r].run] = seen[r].expires
          /\ seen[r].expires > 0
          /\ asked[r] <= clock
          /\ grant[r] = 0
        BY <1>0, <2>1, <2>2 DEF DocumentsConsistent, Snapshot, CallConsistent,
           Decide
    <2>4. UNCHANGED <<seen, grant, asked>>
        BY <2>1 DEF Decide, historyVars
    <2>5. /\ clock \in Nat /\ asked[r] \in Nat /\ seen[r].expires \in Nat
          /\ seen[r].run \in Request \cup {NoRun}
        BY <1>0 DEF LockTypeOK, LockDocument
    <2> QED
        BY <2>2, <2>3, <2>4, <2>5
<1>2. CASE pc[r] = "coalesced"
    <2>1. /\ seen'[r] = seen[r] /\ asked'[r] = asked[r]
        BY <1>0, <1>2 DEF LockTypeOK, LockNext, LockStep, BeginAcquire,
           ReadLock, Decide, CreateLock, ReplaceLock, Retry, BeginRelease,
           ReleaseRead, ReleaseClear, Fail, ResetRead, ResetClear, Tick,
           lockVars, callVars, historyVars, InLockCall
    <2>2. \/ grant' = grant
          \/ \E s \in Request : /\ pc[s] \in {"create", "replace"}
                                /\ grant' = [grant EXCEPT ![s] = until[s]]
        BY DEF LockNext, LockStep, BeginAcquire, ReadLock, Decide, CreateLock,
           ReplaceLock, Retry, Take, BeginRelease, ReleaseRead, ReleaseClear,
           Fail, ResetRead, ResetClear, Tick, lockVars, historyVars
    <2>3. grant[seen[r].run] > 0
        BY <1>0, <1>2, RequestAssumption DEF DocumentsConsistent, Snapshot
    <2>4. grant'[seen[r].run] = grant[seen[r].run]
        BY <1>0, <1>2, <2>2, <2>3, AboutToWrite DEF LockTypeOK
    <2> QED
        BY <1>0, <1>2, <2>1, <2>4
<1> QED
    BY <1>1, <1>2

\* A request that takes no step keeps what it has established: the document
\* and the clock only move forward, and nobody else is granted its lease.
LEMMA OthersKeepCalls ==
    ASSUME LockTypeOK, NEW r \in Request, CallConsistent(r),
           UNCHANGED <<pc[r], attempt[r], seen[r], until[r], grant[r],
                       asked[r]>>,
           clock' \in Nat, clock <= clock',
           lock'.etag \in Nat, lock.etag <= lock'.etag
    PROVE  CallConsistent(r)'
<1>1. /\ clock \in Nat /\ asked[r] \in Nat /\ attempt[r] \in Nat
      /\ until[r] \in Nat /\ seen[r].expires \in Nat /\ lock.etag \in Nat
    BY DEF LockTypeOK, LockDocument
<1> QED
    BY <1>1, SkewAssumption, ExpiryAssumption DEF CallConsistent

\* Each step of a request establishes what its next step relies on.
LEMMA CallStep ==
    LockIInv /\ [LockNext]_lockVars => \A r \in Request : CallConsistent(r)'
<1> SUFFICES ASSUME LockIInv, [LockNext]_lockVars
             PROVE  \A r \in Request : CallConsistent(r)'
    OBVIOUS
<1>0. /\ LockTypeOK /\ LockTypeOK' /\ DocumentsConsistent
      /\ \A r \in Request : CallConsistent(r)
    BY TypeStep DEF LockIInv
<1>1. /\ clock' \in Nat /\ clock <= clock'
      /\ lock'.etag \in Nat /\ lock.etag <= lock'.etag
    <2>1. clock \in Nat /\ clock' \in Nat /\ lock.etag \in Nat
              /\ lock'.etag \in Nat
        BY <1>0 DEF LockTypeOK, LockDocument
    <2>2. clock' = clock \/ clock' = clock + 1
        BY DEF LockNext, LockStep, BeginAcquire, ReadLock, Decide, CreateLock,
           ReplaceLock, BeginRelease, ReleaseRead, ReleaseClear, Fail,
           ResetRead, ResetClear, Tick, lockVars
    <2>3. lock'.etag = lock.etag \/ lock'.etag = lock.etag + 1
        BY DEF LockNext, LockStep, BeginAcquire, ReadLock, Decide, CreateLock,
           ReplaceLock, Retry, Take, Open, Written, BeginRelease, ReleaseRead,
           ReleaseClear, Fail, ResetRead, ResetClear, Tick, lockVars
    <2> QED
        BY <2>1, <2>2, <2>3
<1>2. ASSUME NEW r \in Request,
             LockStep(r) \/ BeginAcquire(r) \/ BeginRelease(r) \/ Fail(r),
             NEW s \in Request \ {r}
      PROVE  CallConsistent(s)'
    <2>1. UNCHANGED <<pc[s], attempt[s], seen[s], until[s], grant[s],
                      asked[s]>>
        BY <1>0, <1>2 DEF LockTypeOK, LockStep, BeginAcquire, ReadLock, Decide,
           CreateLock, ReplaceLock, Retry, Take, BeginRelease, ReleaseRead,
           ReleaseClear, Fail, Goto, callVars, historyVars
    <2> QED
        BY <1>0, <1>1, <2>1, OthersKeepCalls
<1>3. ASSUME NEW r \in Request, BeginAcquire(r) \/ BeginRelease(r) \/ Fail(r)
      PROVE  CallConsistent(r)'
    BY <1>0, <1>3 DEF BeginAcquire, BeginRelease, Fail, Goto, InLockCall,
       callVars, toolVars, historyVars, CallConsistent, LockTypeOK, LockDocument
<1>4. ASSUME NEW r \in Request, ReadLock(r)
      PROVE  CallConsistent(r)'
    BY <1>0, <1>4 DEF ReadLock, Goto, historyVars, CallConsistent, LockTypeOK
<1>5. ASSUME NEW r \in Request, Decide(r)
      PROVE  CallConsistent(r)'
    <2>1. /\ UNCHANGED <<clock, lock, attempt, seen, grant, asked>>
          /\ pc[r] = "decide"
        BY <1>5 DEF Decide, historyVars
    <2>2. PICK now \in Nat :
            /\ now <= clock + Skew
            /\ \/ /\ seen[r].etag = 0
                  /\ until'[r] = now + ExpirySeconds
                  /\ pc'[r] = "create"
               \/ /\ seen[r].etag # 0
                  /\ seen[r].run = NoRun \/ seen[r].expires <= now
                  /\ until'[r] = now + ExpirySeconds
                  /\ pc'[r] = "replace"
               \/ pc'[r] = "coalesced"
        BY <1>0, <1>5, DecideCases DEF Goto, LockTypeOK
    <2>3. clock \in Nat /\ seen[r].expires \in Nat /\ until'[r] \in Nat
        BY <1>0 DEF LockTypeOK, LockDocument
    <2> QED
        BY <1>0, <2>1, <2>2, <2>3, SkewAssumption, ExpiryAssumption
        DEF CallConsistent
<1>6. ASSUME NEW r \in Request, CreateLock(r) \/ ReplaceLock(r)
      PROVE  CallConsistent(r)'
    <2>1. /\ pc[r] \in {"create", "replace"}
          /\ UNCHANGED <<clock, seen, until, asked>>
        BY <1>6 DEF CreateLock, ReplaceLock
    <2>2. CASE Take(r)
        <3>1. pc'[r] \in {"acquired", "stolen"}
            BY <1>0, <1>6, <2>2, ReplaceCases DEF CreateLock, ReplaceLock, Goto,
               Take, Written, Retry, LockTypeOK, LockDocument
        <3>2. attempt'[r] = attempt[r] /\ attempt[r] \in Nat
            BY <1>0, <2>2 DEF Take, LockTypeOK
        <3>3. grant'[r] = until[r] /\ until[r] > 0
            BY <1>0, <2>1, <2>2, AboutToWrite DEF Take, LockTypeOK
        <3>4. pc'[r] = "stolen" => /\ seen[r].run # NoRun
                                   /\ seen[r].expires <= clock + Skew
            <4>1. SUFFICES ASSUME pc'[r] = "stolen"
                           PROVE  ReplaceLock(r) /\ StolenRun(r) # NoRun
                BY <1>0 DEF ReplaceLock, CallConsistent, StolenRun
            <4>2. ReplaceLock(r)
                BY <1>0, <1>6, <4>1 DEF CreateLock, Retry, Goto, LockTypeOK
            <4>3. StolenRun(r) # NoRun
                BY <1>0, <4>1, <4>2 DEF ReplaceLock, Retry, Goto, LockTypeOK
            <4> QED
                BY <4>2, <4>3
        <3> QED
            BY <1>0, <1>1, <2>1, <3>1, <3>2, <3>3, <3>4
            DEF CallConsistent, LockTypeOK, LockDocument
    <2>3. CASE Retry(r)
        <3>1. lock.etag # seen[r].etag
            <4>1. lock' = lock /\ lock.etag \in Nat
                BY <1>0, <2>3 DEF Retry, LockTypeOK, LockDocument
            <4>2. ~Take(r)
                BY <4>1 DEF Take, Written
            <4>3. CASE CreateLock(r)
                BY <1>0, <4>2, <4>3 DEF CreateLock, CallConsistent
            <4>4. CASE ReplaceLock(r)
                BY <4>2, <4>4, ReplaceCases
            <4> QED
                BY <1>6, <4>3, <4>4
        <3>2. seen[r].etag <= lock.etag /\ attempt[r] <= seen[r].etag
            BY <1>0, <2>1 DEF DocumentsConsistent, Snapshot, CallConsistent
        <3>3. /\ attempt'[r] = attempt[r] + 1
              /\ UNCHANGED <<lock, grant>>
              /\ \/ pc'[r] = "read"
                 \/ pc'[r] = "exhausted" /\ attempt[r] + 1 >= MaxRetries
            BY <1>0, <2>3, RetriesAssumption DEF Retry, Goto, LockTypeOK
        <3>4. /\ attempt[r] \in Nat /\ lock.etag \in Nat /\ seen[r].etag \in Nat
            BY <1>0 DEF LockTypeOK, LockDocument
        <3> QED
            BY <1>0, <2>1, <3>1, <3>2, <3>3, <3>4 DEF CallConsistent
    <2> QED
        BY <1>6, <2>2, <2>3, ReplaceCases DEF CreateLock
<1>7. ASSUME NEW r \in Request, ReleaseRead(r) \/ ReleaseClear(r)
      PROVE  CallConsistent(r)'
    <2>1. /\ pc[r] \in {"relRead", "relClear"}
          /\ UNCHANGED <<clock, attempt, until, grant, asked>>
          /\ \/ pc'[r] = "relClear" /\ seen'[r].run = r
             \/ pc'[r] = "released"
        BY <1>0, <1>7 DEF ReleaseRead, ReleaseClear, Goto, callVars,
           historyVars, LockTypeOK
    <2>2. attempt[r] \in Nat /\ lock.etag \in Nat
        BY <1>0 DEF LockTypeOK, LockDocument
    <2> QED
        BY <1>0, <1>1, <2>1, <2>2 DEF CallConsistent
<1>8. ASSUME UNCHANGED <<pc, attempt, seen, until, grant, asked>>
      PROVE  \A r \in Request : CallConsistent(r)'
    BY <1>0, <1>1, <1>8, OthersKeepCalls
<1>9. ASSUME NEW r \in Request,
             LockStep(r) \/ BeginAcquire(r) \/ BeginRelease(r) \/ Fail(r)
      PROVE  \A s \in Request : CallConsistent(s)'
    BY <1>2, <1>3, <1>4, <1>5, <1>6, <1>7, <1>9 DEF LockStep
<1>10. ASSUME \/ \E o \in Operator : ResetRead(o) \/ ResetClear(o)
              \/ Tick \/ UNCHANGED lockVars
       PROVE  UNCHANGED <<pc, attempt, seen, until, grant, asked>>
    BY <1>10 DEF ResetRead, ResetClear, Tick, lockVars, callVars, historyVars
<1> QED
    BY <1>8, <1>9, <1>10 DEF LockNext

-----------------------------------------------------------------------------
(* The initial state satisfies the invariant.                              *)
LEMMA LockIInvInit == LockInit => LockIInv
<1> SUFFICES ASSUME LockInit PROVE LockIInv
    OBVIOUS
<1> USE RequestAssumption, SkewAssumption DEF LockInit, NoDocument, Reopened
<1>1. LockTypeOK
    BY DEF LockTypeOK, LockDocument, LockPc
<1>2. DocumentsConsistent
    BY DEF DocumentsConsistent, Snapshot
<1>3. \A r \in Request : CallConsistent(r)
    BY DEF CallConsistent
<1>4. LiveLeaseHoldsLock /\ CoalescedOntoCurrentLease /\ ReleasedMeansFree
    BY DEF LiveLeaseHoldsLock, Live, CoalescedOntoCurrentLease,
       ReleasedMeansFree
<1> QED
    BY <1>1, <1>2, <1>3, <1>4 DEF LockIInv

(* LockIInv is an invariant of the lock, and it is inductive: every version *)
(* of the document that a request or an operator still holds is consistent *)
(* with the present one, and each call has established what its next write *)
(* relies on (TryAcquireAsync and ReleaseAsync).                           *)
THEOREM LockInvariant == LockSpec => []LockIInv
<1>1. LockIInv /\ [LockNext]_lockVars => LockIInv'
    BY TypeStep, DocumentsStep, CallStep, LiveStep, CoalescedStep, ReleasedStep
    DEF LockIInv
<1> QED
    BY LockIInvInit, <1>1, PTL DEF LockSpec

(* The variables of the lock keep their types.                             *)
THEOREM LockTypeCorrect == LockSpec => []LockTypeOK
<1>1. LockIInv => LockTypeOK
    BY DEF LockIInv
<1> QED
    BY LockInvariant, <1>1, PTL

(* A lease that no pod can believe to be over and that was not given back  *)
(* is never overwritten, for any number of requests, operators and retries *)
(* and any bound on the clock skew.                                        *)
THEOREM LiveLeaseIsKept == LockSpec => []LiveLeaseHoldsLock
<1>1. LockIInv => LiveLeaseHoldsLock
    BY DEF LockIInv
<1> QED
    BY LockInvariant, <1>1, PTL

(* Mutual exclusion: two runs never hold live leases together.             *)
THEOREM MutualExclusion == LockSpec => []LeaseExclusive
<1>1. LockIInv => LeaseExclusive
    BY DEF LockIInv, LiveLeaseHoldsLock, LeaseExclusive
<1> QED
    BY LockInvariant, <1>1, PTL

(* A request is coalesced only onto a lease that was not over.             *)
THEOREM CoalescingIsCurrent == LockSpec => []CoalescedOntoCurrentLease
<1>1. LockIInv => CoalescedOntoCurrentLease
    BY DEF LockIInv
<1> QED
    BY LockInvariant, <1>1, PTL

(* ReleaseAsync never leaves its own run's lease in place.                 *)
THEOREM ReleaseFrees == LockSpec => []ReleasedMeansFree
<1>1. LockIInv => ReleasedMeansFree
    BY DEF LockIInv
<1> QED
    BY LockInvariant, <1>1, PTL

(* The retry loop gives up only after MaxRetries writes of others.         *)
THEOREM ExhaustionIsContention == LockSpec => []ExhaustedOnlyByContention
<1>1. LockIInv => ExhaustedOnlyByContention
    <2> SUFFICES ASSUME LockIInv, NEW r \in Request, pc[r] = "exhausted"
                 PROVE  lock.etag >= MaxRetries
        BY DEF ExhaustedOnlyByContention
    <2>1. attempt[r] >= MaxRetries /\ attempt[r] <= lock.etag
        BY DEF LockIInv, CallConsistent
    <2>2. attempt[r] \in Nat /\ lock.etag \in Nat /\ MaxRetries \in Nat
        BY RetriesAssumption DEF LockIInv, LockTypeOK, LockDocument
    <2> QED
        BY <2>1, <2>2
<1> QED
    BY LockInvariant, <1>1, PTL

-----------------------------------------------------------------------------
(* What a step may do to the document: nothing, grant it to a run that     *)
(* never held it when the present lease is over, or open it for a releasing *)
(* holder or an operator that saw the holder.                              *)
StepTakes(r) ==
    /\ Take(r)
    /\ grant[r] = 0
    /\ until[r] \in 1..(clock + Skew + ExpirySeconds)
    /\ lock.run = NoRun \/ lock.expires <= clock + Skew
    /\ UNCHANGED <<clock, ended>>

StepOpens ==
    /\ Open
    /\ UNCHANGED <<clock, grant>>
    /\ \/ \E r \in Request : /\ pc[r] = "relClear" /\ pc'[r] = "released"
                             /\ lock.run = r
       \/ \E o \in Operator : /\ opPc[o] = "clear" /\ opPc'[o] = "done"
                              /\ opSeen[o].run = lock.run

LEMMA StepCases ==
    ASSUME LockIInv, [LockNext]_lockVars
    PROVE  \/ \E r \in Request : StepTakes(r)
           \/ StepOpens
           \/ UNCHANGED <<lock, grant, ended, clock>>
           \/ Tick
<1>0. /\ LockTypeOK /\ DocumentsConsistent
      /\ \A r \in Request : CallConsistent(r)
    BY DEF LockIInv
<1>1. ASSUME NEW r \in Request, CreateLock(r) \/ ReplaceLock(r), Take(r)
      PROVE  StepTakes(r)
    <2>1. /\ pc[r] \in {"create", "replace"}
          /\ UNCHANGED <<clock, ended>>
        BY <1>1 DEF CreateLock, ReplaceLock
    <2>2. /\ grant[r] = 0
          /\ until[r] \in 1..(clock + Skew + ExpirySeconds)
        BY <1>0, <2>1 DEF CallConsistent
    <2>3. lock'.etag # lock.etag
        BY <1>0, <1>1 DEF Take, Written, LockTypeOK, LockDocument
    <2>4. CASE CreateLock(r)
        <3>1. lock = NoDocument
            BY <1>0, <2>3, <2>4 DEF CreateLock, Retry, DocumentsConsistent
        <3> QED
            BY <1>1, <2>1, <2>2, <3>1 DEF NoDocument, StepTakes
    <2>5. CASE ReplaceLock(r)
        <3>1. lock = seen[r]
            BY <1>0, <2>3, <2>5, ReplaceCases DEF Retry, DocumentsConsistent,
               Snapshot
        <3>2. lock.run = NoRun \/ lock.expires <= clock + Skew
            BY <1>0, <2>5, <3>1 DEF CallConsistent, ReplaceLock
        <3> QED
            BY <1>1, <2>1, <2>2, <3>2 DEF StepTakes
    <2> QED
        BY <1>1, <2>4, <2>5
<1>2. ASSUME NEW r \in Request, CreateLock(r) \/ ReplaceLock(r), Retry(r)
      PROVE  UNCHANGED <<lock, grant, ended, clock>>
    BY <1>2 DEF CreateLock, ReplaceLock, Retry
<1>3. ASSUME NEW r \in Request, ReleaseClear(r)
      PROVE  StepOpens \/ UNCHANGED <<lock, grant, ended, clock>>
    <2>1. CASE IfMatch(lock, seen[r]) /\ Open
        <3>1. lock.run = r
            BY <1>0, <1>3, <2>1 DEF ReleaseClear, IfMatch, CallConsistent,
               DocumentsConsistent, Snapshot
        <3>2. pc'[r] = "released"
            BY <1>0, <1>3 DEF ReleaseClear, Goto, LockTypeOK
        <3> QED
            BY <1>3, <2>1, <3>1, <3>2 DEF ReleaseClear, StepOpens
    <2>2. CASE UNCHANGED <<lock, ended>>
        BY <1>3, <2>2 DEF ReleaseClear
    <2> QED
        BY <1>3, <2>1, <2>2 DEF ReleaseClear
<1>4. ASSUME NEW o \in Operator, ResetClear(o)
      PROVE  StepOpens \/ UNCHANGED <<lock, grant, ended, clock>>
    <2>1. CASE IfMatch(lock, opSeen[o]) /\ Open
        <3>1. opSeen[o].run = lock.run
            BY <1>0, <1>4, <2>1 DEF IfMatch, DocumentsConsistent, Snapshot
        <3>2. opPc'[o] = "done"
            BY <1>0, <1>4 DEF ResetClear, LockTypeOK
        <3> QED
            BY <1>4, <2>1, <3>1, <3>2 DEF ResetClear, StepOpens
    <2>2. CASE UNCHANGED <<lock, ended>>
        BY <1>4, <2>2 DEF ResetClear
    <2> QED
        BY <1>4, <2>1, <2>2 DEF ResetClear
<1>5. ASSUME NEW r \in Request,
             \/ BeginAcquire(r) \/ Decide(r) \/ BeginRelease(r) \/ Fail(r)
             \/ ReadLock(r) \/ ReleaseRead(r)
      PROVE  UNCHANGED <<lock, grant, ended, clock>>
    BY <1>5 DEF BeginAcquire, Decide, BeginRelease, Fail, ReadLock,
       ReleaseRead, historyVars
<1>6. ASSUME (\E o \in Operator : ResetRead(o)) \/ UNCHANGED lockVars
      PROVE  UNCHANGED <<lock, grant, ended, clock>>
    BY <1>6 DEF ResetRead, lockVars, historyVars
<1> QED
    BY <1>1, <1>2, <1>3, <1>4, <1>5, <1>6, ReplaceCases
    DEF LockNext, LockStep, CreateLock

(* The lock passes straight from one run to another only when the first    *)
(* one's lease is over on the clock of the pod that steals it.             *)
THEOREM StealsAreLate == LockSpec => StealOnlyAfterExpiry
<1>1. ASSUME LockIInv, [LockNext]_lockVars,
             lock.run # NoRun, lock'.run \notin {lock.run, NoRun}
      PROVE  lock.expires <= clock + Skew
    BY <1>1, StepCases DEF StepTakes, StepOpens, Open, Written, Tick
<1> QED
    BY LockInvariant, <1>1, PTL DEF LockSpec, StealOnlyAfterExpiry

(* The lock is opened only by the release of its own holder or by an       *)
(* operator that saw this very holder.                                     *)
THEOREM OpeningsAreOwned == LockSpec => OpenedOnlyByHolderOrReset
<1>1. ASSUME LockIInv, [LockNext]_lockVars,
             lock.run # NoRun, lock'.run = NoRun
      PROVE  \/ pc[lock.run] = "relClear" /\ pc'[lock.run] = "released"
             \/ \E o \in Operator : /\ opPc[o] = "clear" /\ opPc'[o] = "done"
                                    /\ opSeen[o].run = lock.run
    BY <1>1, StepCases, RequestAssumption
    DEF StepTakes, Take, StepOpens, Written, Tick
<1>2. LockIInv /\ [LockNext]_lockVars =>
        [ (lock.run # NoRun /\ lock'.run = NoRun)
            => \/ pc[lock.run] = "relClear" /\ pc'[lock.run] = "released"
               \/ \E o \in Operator :
                    /\ opPc[o] = "clear" /\ opPc'[o] = "done"
                    /\ opSeen[o].run = lock.run ]_lock
    BY <1>1
<1> QED
    BY LockInvariant, <1>2, PTL DEF LockSpec, OpenedOnlyByHolderOrReset

(* A run is granted the lock at most once, with a lease no longer than     *)
(* ExpirySeconds from the skewed present.                                  *)
THEOREM GrantsAreSingle == LockSpec => GrantedOnce
<1>1. ASSUME LockIInv, [LockNext]_lockVars,
             NEW r \in Request, grant'[r] # grant[r]
      PROVE  grant[r] = 0 /\ grant'[r] <= clock + Skew + ExpirySeconds
    <2>1. PICK s \in Request : StepTakes(s)
        BY <1>1, StepCases DEF StepOpens, Tick, historyVars
    <2>2. s = r /\ grant'[r] = until[r]
        BY <1>1, <2>1 DEF StepTakes, Take, LockIInv, LockTypeOK
    <2> QED
        BY <2>1, <2>2, SkewAssumption, ExpiryAssumption
        DEF StepTakes, LockIInv, LockTypeOK
<1>2. LockIInv /\ [LockNext]_lockVars =>
        [\A r \in Request : grant'[r] # grant[r] =>
            /\ grant[r] = 0
            /\ grant'[r] <= clock + Skew + ExpirySeconds]_grant
    BY <1>1
<1> QED
    BY LockInvariant, <1>2, PTL DEF LockSpec, GrantedOnce

(* Refinement: the documents, ETags, retries and failures of the lock are  *)
(* an implementation of a lease.                                           *)
THEOREM LockIsLease == LockSpec => ImplementsLease
<1> DEFINE served == {r \in Request : grant[r] > 0}
<1>1. LockInit => Lease!Init
    BY DEF LockInit, NoDocument, Reopened, Lease!Init
<1>2. ASSUME LockIInv, [LockNext]_lockVars
      PROVE  [Lease!Next]_(Lease!leaseVars)
    <2>0. /\ LockTypeOK /\ DocumentsConsistent
        BY <1>2 DEF LockIInv
    <2>1. ASSUME NEW r \in Request, StepTakes(r)
          PROVE  Lease!Grant(r)
        <3>1. /\ lock'.run = r /\ lock'.expires = until[r]
              /\ grant' = [grant EXCEPT ![r] = until[r]]
              /\ grant[r] = 0 /\ until[r] \in 1..(clock + Skew + ExpirySeconds)
              /\ clock' = clock
            BY <2>1 DEF StepTakes, Take, Written
        <3>2. served' = served \cup {r}
            BY <2>0, <3>1 DEF LockTypeOK
        <3>3. r \notin served
            BY <3>1
        <3>4. lock.run = NoRun \/ lock.expires <= clock + Skew
            BY <2>1 DEF StepTakes
        <3> QED
            BY <3>1, <3>2, <3>3, <3>4 DEF Lease!Grant, Lease!Available
    <2>2. CASE StepOpens
        <3>1. lock'.run = NoRun /\ lock'.expires = 0
              /\ clock' = clock /\ served' = served
            BY <2>2 DEF StepOpens, Open, Written
        <3>2. CASE lock.run # NoRun
            BY <3>1, <3>2 DEF Lease!Next, Lease!GiveBack
        <3>3. CASE lock.run = NoRun
            BY <2>0, <3>1, <3>3 DEF Lease!leaseVars, DocumentsConsistent
        <3> QED
            BY <3>2, <3>3
    <2>3. CASE UNCHANGED <<lock, grant, ended, clock>>
        BY <2>3 DEF Lease!leaseVars
    <2>4. CASE Tick
        BY <2>4 DEF Tick, historyVars, Lease!Next, Lease!Tick
    <2> QED
        BY <1>2, <2>1, <2>2, <2>3, <2>4, StepCases DEF Lease!Next
<1> QED
    BY LockInvariant, <1>1, <1>2, PTL DEF LockSpec, ImplementsLease, Lease!Spec
=============================================================================
