CONSTANTS
    Queue = {q1, q2}
    Topic = {}
    Subscription = {s1}
    Run = {x1}
    Curator = {}
    Nobody = Nobody
    MaxVersion = 1
    Capacity = 1
    Parallelism = 2
    PageSize = 1
    Faults = {"scope", "write", "sweep"}
SPECIFICATION FairSpec
INVARIANTS
    TypeOK
PROPERTIES
    SweptWereUnseen
    RunEnds
CHECK_DEADLOCK FALSE
