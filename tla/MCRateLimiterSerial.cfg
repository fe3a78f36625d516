SPECIFICATION Spec
CONSTANTS
    Worker = {w1, w2}
    Threaded = FALSE
    max_requests = 2
    window = 2
    MaxTime = 5
    MaxAdmitted = 4
INVARIANTS
    TypeOK
    LimitHolds
    RefusedOnlyAtLimit
CHECK_DEADLOCK FALSE
