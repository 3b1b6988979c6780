CONSTANTS
    Admin = {c1, c2, c3}
    MaxRuns = 3
    MaxVersion = 4
SPECIFICATION Spec
SYMMETRY Symmetry
INVARIANTS
    TypeOK
    StatusMirrorsLatestRun
PROPERTIES
    DocumentMovesForward
CHECK_DEADLOCK FALSE
