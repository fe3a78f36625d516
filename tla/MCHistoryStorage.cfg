SPECIFICATION Spec
CONSTANTS
    Tab = {t1, t2}
    EntryId = {1, 2, 3, 4}
    ItemId = {1, 2}
    MAX_ENTRIES = 2
    Content <- MCContent
    Now = {8}
    Written <- MCWritten
    NoTab = NoTab
INVARIANTS
    TypeOK
    ReloadKeepsHistory
PROPERTY ImplementsHistoryList
