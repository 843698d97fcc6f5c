SPECIFICATION Spec
CONSTANTS
    HasGpu = TRUE
    MaxChannels = 3
INVARIANTS
    BootstrapTypeOK
    FinalEventIsLast
    PanelTellsTruth
PROPERTIES
    LoadingEnds
CHECK_DEADLOCK FALSE
