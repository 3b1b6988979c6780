CONSTANTS
    Request = {r1, r2}
    Worker = {w1}
    Operator = {}
    NoRun = NoRun
    ExpirySeconds = 1
    MaxRetries = 2
    Skew = 0
    MaxClock = 1
    MaxDeliveries = 1
    Faults = {}
SPECIFICATION FairSpec
PROPERTIES
    TerminalRunReleasesLock
CHECK_DEADLOCK FALSE
