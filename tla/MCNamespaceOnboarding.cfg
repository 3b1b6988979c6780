CONSTANTS
    Wizard = {w1, w2}
    arm1 = arm1
    arm2 = arm2
    ARM1 = ARM1
    ArmId = {arm1, ARM1, arm2}
    Canonical <- Spellings
    MaxRuns = 2
SPECIFICATION Spec
SYMMETRY Symmetry
INVARIANTS
    TypeOK
    ForeignRunOnlyByLateAnswer
PROPERTIES
    SharedOnlyByRace
    NewerFailureUnseen
CHECK_DEADLOCK FALSE
