SPECIFICATION Spec
CONSTANTS
    Events = {e1}
    Tokens = {t1, t2}
    Workers = {w1, w2}
    None = None
    Window = 2
    Lease = 1
    Backoff = 1
    MaxTime = 3
    MaxRevision = 3
    MaxFailures = 2
INVARIANTS
    TypeOK
    LeaseIsExclusive
PROPERTIES
    ImplementsContract
    RowsSettle
CHECK_DEADLOCK FALSE
