--------------------------- MODULE DiscoveryLease ---------------------------
(***************************************************************************)
(* What the discovery lock of a namespace promises, without documents,     *)
(* ETags or retries: a lease that one run holds, that passes to another    *)
(* run only when it is over or was given back, and that no run gets twice. *)
(* DiscoveryLock implements this specification.                            *)
(***************************************************************************)
EXTENDS Integers

CONSTANTS Request, NoRun, ExpirySeconds, Skew

VARIABLES clock, holder, leaseEnd, served

leaseVars == <<clock, holder, leaseEnd, served>>

Init ==
    /\ clock = 0
    /\ holder = NoRun
    /\ leaseEnd = 0
    /\ served = {}

\* On some pod's clock the present holder, if there is one, is out of time.
Available == holder = NoRun \/ leaseEnd <= clock + Skew

Grant(r) ==
    /\ Available
    /\ r \notin served
    /\ holder' = r
    /\ leaseEnd' \in 1..(clock + Skew + ExpirySeconds)
    /\ served' = served \cup {r}
    /\ UNCHANGED clock

GiveBack ==
    /\ holder # NoRun
    /\ holder' = NoRun
    /\ leaseEnd' = 0
    /\ UNCHANGED <<clock, served>>

Tick ==
    /\ clock' = clock + 1
    /\ UNCHANGED <<holder, leaseEnd, served>>

Next == (\E r \in Request : Grant(r)) \/ GiveBack \/ Tick

Spec == Init /\ [][Next]_leaseVars
=============================================================================
