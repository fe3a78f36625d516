SPECIFICATION Spec
CONSTANTS
    User = {"steady"}
    Form = {f1, f2}
    MAX_ENTRIES = 3
    MaxCalculations = 2
    MaxPayments = 2
INVARIANTS
    RecalculationKeepsEntriesRight
CHECK_DEADLOCK FALSE
