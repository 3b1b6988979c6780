CONSTANTS
    Queue = {q1}
    Topic = {}
    Subscription = {}
    Run = {x1, x2}
    Curator = {c1}
    Nobody = Nobody
    MaxVersion = 2
    Capacity = 1
    Parallelism = 1
    PageSize = 1
    Faults = {"cancel", "die"}
SPECIFICATION Spec
SYMMETRY Symmetry
INVARIANTS
    SuccessMeansCatalog
PROPERTIES
    SweptWereUnseen
    ArchivedEndsByUpdate
    CuratedSurvives
CHECK_DEADLOCK FALSE
