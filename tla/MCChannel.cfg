SPECIFICATION ChannelSpec
CONSTANTS
    Admins = {m1, m2}
    Requests = {1}
    Layouts = {7}
    QueueCap = 1
    MaxSocks = 2
    MaxMsgs = 2
    EvDisplays = {"d1"}
    EvLayouts = {"l1"}
    EvCameras = {"c1"}
    Slots = {m1, m2}
    IoTopics = {"io", "notopic"}
    NoTopic = "notopic"
    KioskWindow = 1
    IoWindow = 2
    MaxTime = 2
    MaxEvents = 2
    Serials = {s1}
    IoTenants = {t1, t2}
    DefaultTenant = t1
    MaxBoxes = 2
    MaxSecrets = 1
    MaxTries = 2
    IoBoxes = {"b1"}
    IoModels = {"m1", "m2"}
    IoModelOf <- MCIoModelOf
    IoDisplays = {"d1"}
    IoKiosks = {"k1"}
    IoChannels = {"stable"}
    IoVersions = {1, 2}
    MaxIoEdits = 1
    MaxIoRels = 2
SYMMETRY Symmetry
INVARIANTS
    ChannelSafe IngestSafe EnrolmentSafe
PROPERTIES
    HandsOver IoDevSteps
CHECK_DEADLOCK FALSE
