CONSTANTS
    Request = {r1, r2}
    Operator = {o1}
    NoRun = NoRun
    ExpirySeconds = 2
    MaxRetries = 2
    Skew = 1
    MaxClock = 4
SPECIFICATION LockSpec
SYMMETRY Symmetry
INVARIANTS
    LockIInv
    LeaseExclusive
    ExhaustedOnlyByContention
    CoalescedOntoCurrentLease
PROPERTIES
    StealOnlyAfterExpiry
    OpenedOnlyByHolderOrReset
    GrantedOnce
    ImplementsLease
CHECK_DEADLOCK FALSE
