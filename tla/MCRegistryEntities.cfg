CONSTANTS
    Namespace = {n1, n2}
    Queue = {q1}
    Name = {a}
    None = None
    Tab = {t1, t2}
    MaxVersion = 3
    Wildcards = {"put"}
SPECIFICATION RegistrySpec
SYMMETRY Symmetry
INVARIANTS
    AuditDescribesChange
PROPERTIES
    OverwritesOnlyAfterRefetch
    HierarchyBrokenOnlyByRace
CHECK_DEADLOCK FALSE
