SPECIFICATION Spec
CONSTANTS
    Size = 2
    Limit = 3
    HasGpu = TRUE
    MaxStarts = 2
    MaxFaults = 1
INVARIANTS
    DownloadTypeOK
    LoadedFilesVerify
    SoundPreparationSucceeds
PROPERTIES
    ImplementsPreparation
CHECK_DEADLOCK FALSE
