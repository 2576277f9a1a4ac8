SPECIFICATION Spec
CONSTANTS
    Servers = {s1, s2}
    Runs = {r1, r2}
    Jobs = {j1, j2}
    Selections = {{s1}, {s1, s2}}
    Capable = {s1}
    Deletable = {s1}
    MaxAttempts = 2
    MaxFaults = 1
    None = None
INVARIANTS
    TypeOK
    OneRunAtATime
    NothingLeftBehind
    JobsMatchRows
PROPERTIES
    ImplementsContract
    
    OperationsFinish
    DrainedRunsAreSettled
CHECK_DEADLOCK FALSE
