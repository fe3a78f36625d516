SPECIFICATION SpecFlow
CONSTANTS
    Request <- MCRequest
    VAT_RATE <- MCVatRate
    Short <- MCShort
    RowHeight = {8, 75}
    Offset <- MCOffset
    Now <- MCNow
    Day <- MCDay
    Typed <- MCTyped
    Instance = {"compute.g2.t4.c8m64", "network.floating_ip"}
    Stored <- MCStored
    HasStatement = {"e2"}
    MaxItems = 1
    MaxEdits = 2
INVARIANT ShownMonthIsBilled
