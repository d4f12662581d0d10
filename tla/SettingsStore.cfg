\* The page with its queue, the tray, refreshes and restarts over one store.
CONSTANTS
    Fields <- MCFields
    Values = {v0, v1}
    Default = v0
    Accounts = {a1, a2}
    NoAccount = NoAccount
    Pages = {p1, p2}
    Trays = {t1}
    NoWriter = NoWriter
    MaxRevisions = 3
    MaxLaunches = 2
SPECIFICATION Spec
SYMMETRY Symmetry
CONSTRAINT TraysInTime
INVARIANTS
    StoreInv
    NamesFollowAccounts
PROPERTIES
    PageSavesApplyTheirEdits
CHECK_DEADLOCK FALSE
