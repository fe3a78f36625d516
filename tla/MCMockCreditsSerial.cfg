SPECIFICATION Spec
CONSTANTS
    Worker = {w1, w2}
    NoOne = NoOne
    Threaded = FALSE
    Endpoint = {"detail", "payments"}
    Grant <- MCGrant
    Charge <- MCCharge
    MaxLedgers = 2
    MaxItems = 2
    MaxReturned = 1
INVARIANTS
    TypeOK
    ChargeOnlyWhenExhausted
    PaymentMatchesStatement
PROPERTIES
    PriorityRespected
    ImplementsCreditAccount
