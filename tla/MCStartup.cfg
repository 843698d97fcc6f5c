SPECIFICATION Spec
CONSTANTS
    Procs = {p1, p2}
    NoProc = NoProc
    Names = {"prod", "demo"}
    DemoName = "demo"
    Uris = {"u1", "u2"}
    SavedUris = {"u1"}
    MaxKeys = 2
    NativeRoots = TRUE
    UriSpec <- MCUriSpec
    Tomls <- MCTomls
    MaxStarts = 3
    MaxActs = 3
SYMMETRY Symmetry
CHECK_DEADLOCK FALSE
INVARIANTS
    StartupTypeOK
    StoreOpensAgain
PROPERTIES
    PrimaryKept
    ProfilesKept
