SPECIFICATION Spec
CONSTANTS
    User = {"hasty", "patient"}
    Form = {f1, f2}
    MAX_ENTRIES = 2
    MaxCalculations = 2
    MaxPayments = 2
INVARIANTS
    HistoryInSync
    ButtonComesBack
    PatientHistoryRight
PROPERTIES
    PaidEntriesStayPaid
CHECK_DEADLOCK FALSE
