CONSTANTS
    Request = {r1, r2}
    Worker = {w1, w2}
    Operator = {}
    NoRun = NoRun
    ExpirySeconds = 1
    MaxRetries = 2
    Skew = 0
    MaxClock = 1
    MaxDeliveries = 2
    Faults = {"api", "enqueue", "worker"}
SPECIFICATION FairSpec
PROPERTIES
    AcceptedRunEnds
    RequestsAreAnswered
CHECK_DEADLOCK FALSE
