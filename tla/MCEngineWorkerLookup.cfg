SPECIFICATION Spec
CONSTANTS
    MaxGeneration = 2
    Connection = {c1}
    NoConnection = NoConnection
    PoolSize = 1
    MaxRequest = 1
    MaxCancel = 1
CHECK_DEADLOCK FALSE
INVARIANT
    CancellationTracksActiveClient
