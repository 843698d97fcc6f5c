SPECIFICATION Spec
CONSTANTS
    MaxGeneration = 2
    Connection = {c1, c2}
    NoConnection = NoConnection
    PoolSize = 1
    MaxRequest = 2
    MaxCancel = 0
SYMMETRY Symmetry
CHECK_DEADLOCK FALSE
INVARIANTS
    TypeOK
    AnsweredInOrder
    OneOpenOperation
    OverlapIsAdmitted
    CanceledOnlyOnRequest
    StopsClean
PROPERTY
    ImplementsSingleFlight
