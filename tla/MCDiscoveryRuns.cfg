CONSTANTS
    Request = {r1, r2}
    Worker = {w1, w2}
    Operator = {}
    NoRun = NoRun
    ExpirySeconds = 1
    MaxRetries = 1
    Skew = 0
    MaxClock = 1
    MaxDeliveries = 1
    Faults = {"api", "enqueue", "ambiguous", "store", "worker", "relock"}
SPECIFICATION Spec
SYMMETRY Symmetry
INVARIANTS
    RunsIInv
    AcceptedRunIsReal
    EnqueueFailureFreesLock
    WorkerLostOnlyAfterExpiry
    WorkedRunsWereGranted
    OneEntitledWorker
CHECK_DEADLOCK FALSE
