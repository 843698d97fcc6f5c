SPECIFICATION FairSpec
CONSTANTS
    MaxRequest = 5
    MaxUserRequest = 3
    Offered = {"sql", "select", "search", "cancel", "disable"}
    Row = {}
    MaxRows = 0
CHECK_DEADLOCK FALSE
INVARIANTS
    UiTypeOK
    TrackerTellsTruth
    RefreshNeverLost
PROPERTIES
    AutoRefreshInterruptsNothing
    NewestIsShown
    PendingRefreshIsSent
