SPECIFICATION FairSpec
CONSTANTS
    MaxGeneration = 1
    Connection = {c1}
    NoConnection = NoConnection
    PoolSize = 1
    MaxRequest = 2
    MaxCancel = 1
CHECK_DEADLOCK FALSE
PROPERTIES
    InterruptedIsAnswered
    ShutdownCompletes
