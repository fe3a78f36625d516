SPECIFICATION Spec
CONSTANTS
    Worker = {w1, w2}
    Threaded = {TRUE, FALSE}
    MaxMeters = 2
    MaxPosts = 3
    MaxDicts = 4
INVARIANTS
    StatementOfLastPost
    NoMeterLostUnlessCleared
    NoStaleUsage
CHECK_DEADLOCK FALSE
