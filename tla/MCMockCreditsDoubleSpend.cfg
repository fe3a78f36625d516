SPECIFICATION Spec
CONSTANTS
    Worker = {w1, w2}
    NoOne = NoOne
    Threaded = TRUE
    Endpoint = {"payments"}
    Grant = {1}
    Charge = {1}
    MaxLedgers = 1
    MaxItems = 1
    MaxReturned = 1
INVARIANTS
    WithinGrant
