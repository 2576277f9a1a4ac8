SPECIFICATION Spec
CONSTANTS
    Jobs = {j1, j2}
    None = None
    MaxFaults = 2
INVARIANTS
    TypeOK
    OldBinarySurvives
    SuccessIsHonest
PROPERTIES
    CandidatesAreDecided
CHECK_DEADLOCK FALSE
