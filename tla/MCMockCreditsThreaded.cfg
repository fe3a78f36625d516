SPECIFICATION FairSpec
CONSTANTS
    Worker = {w1, w2}
    NoOne = NoOne
    Threaded = TRUE
    Endpoint = {"detail", "console"}
    Grant = {1}
    Charge <- MCChargeThreaded
    MaxLedgers = 2
    MaxItems = 1
    MaxReturned = 0
INVARIANTS
    Conservation
    
    BoundedOverdraft
PROPERTIES
    RequestsAnswered
