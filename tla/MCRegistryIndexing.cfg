CONSTANTS
    Namespace = {n1}
    Queue = {}
    Name = {a}
    None = None
    Tab = {t1, t2}
    MaxVersion = 2
    Wildcards = {}
    BatchSize = 2
    Faults = {"throw", "crash", "drop", "expire", "die"}
    MaxFaults = 1
    MaxBacklog = 2
SPECIFICATION FairSpec
INVARIANTS
    TypeOK
    DeletedIsLeavingIndex
PROPERTIES
    IndexConverges
CHECK_DEADLOCK FALSE
