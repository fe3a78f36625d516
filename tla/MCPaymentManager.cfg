SPECIFICATION FairSpec
CONSTANTS
    Manager = {m1}
    Client = {"Injected", "PaymentAPIClient", "BillingAPIClient"}
    max_retries = 3
    RetryTotal = 2
    MaxCalls = 4
INVARIANTS
    TypeOK
    PreparedMeansRegistered
    PaidMeansExecuted
    ExecutionsBounded
PROPERTIES
    PaidIsCancelledFirst
    CallsReturn
CHECK_DEADLOCK FALSE
