SPECIFICATION CamerasSpec
CONSTANTS
    Cams = {1, 2}
    CamNames = {"n", "m"}
    CloudVendors = {"hikconnect", "tuya", "uniview", "tplink"}
    Syncs = {m1, m2}
    MaxRows = 3
    MaxChanges = 1
    DvDevices <- MCDvDevices
    DvHandlers = {m1, m2}
    MaxDvRows = 2
    MaxDvRuns = 2
    MaxDvEdits = 1
    TagNames = {"A", "B"}
    MaxTags = 4
    EtTopics = {"motion", "plate"}
    EtRefreshes = {"r1", "r2"}
    OeKiosks = {m1, m2}
    MaxNonces = 2
    OnvifServices = {"ptz"}
    MaxOnvifProfiles = 1
SYMMETRY Symmetry
INVARIANTS
    CloudSafe EventsSafe OnvifSafe
PROPERTIES
    DevicesSteps TopicsSteps
CHECK_DEADLOCK FALSE
