SPECIFICATION ContentSpec
CONSTANTS
    k1 = k1
    Versions = {1, 3}
    Shipped = 2
    Shas = {m1, m2}
    Channels = {stable}
    Kiosks = {k1}
    Importers = {i1}
    Targets = {"linux", "windows-x64"}
    OldPin = 1
    InBucket <- MCInBucket
    MaxReleases = 2
    MaxRollouts = 1
    MaxAdmin = 1
    MaxVisits = 1
    KEEP_PER_CHANNEL = 1
    Editors = {m1, m2}
    CellIds = {1,2,3,4,5,6,7,8,9,10,11}
    MaxSpan = 2
    MaxPlace = 1
    MaxEdits = 2
    StartCells = 1
    AsReqs = {m1, m2}
    AsScreens = {1, 2}
    AsTitles = {"t", "u"}
    Owners = {"screen", "group"}
    Groups = {"group"}
    MaxItems = 4
    MaxAsOps = 2
    MaxFaults = 1
    DsTabs = {"t1", "t2"}
    DsNames = {"n", "m"}
    DsHandlers = {"h1", "h2"}
    MaxDsRows = 3
    MaxDsRuns = 2
    MaxDsChanges = 1
    Monitors = {"m", "n"}
    Custom = "c"
    Beats = {m1, m2}
    Savers = {n1, n2}
    Fields = {"host", "policy"}
    MaxRowIds = 3
    MaxChanges = 1
SYMMETRY Symmetry
INVARIANTS
    OffersSafe CalmSyncMirrors HeartbeatSafe
PROPERTIES
    ReleasesKept GridSteps ScreensSteps
CHECK_DEADLOCK FALSE
