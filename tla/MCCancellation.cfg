SPECIFICATION DbSpec
CONSTANTS
    MaxGeneration = 3
    Connection = {c1, c2}
    NoConnection = NoConnection
    PoolSize = 2
SYMMETRY Symmetry
CHECK_DEADLOCK FALSE
INVARIANTS
    CancelMeetsNoLaterOperation
    PoolIsClean
    NewestIsCancelable
    OutcomeIsTrue
    LendingIsExclusive
PROPERTY
    CanceledWaitNeverRuns
