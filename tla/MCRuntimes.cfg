SPECIFICATION RuntimesFairSpec
CONSTANTS
    Tenants = {a, b}
    Ports = {1, 2}
    Attempts = 3
    MaxProcs = 5
    MaxNrChanges = 1
    MaxCalls = 2
    MaxFaults = 1
    GatePaths = {"p"}
    GateReqs = {"r1"}
    GateEdits = {"e1"}
    MaxGateGen = 4
    MaxGateChild = 2
    DvPages = {"p", "q"}
    DvWidgets = {"w"}
    Lifetime = 3
    Lease = 1
    MaxDvClock = 3
    MaxDvEdits = 1
    Layouts = {l1, l2}
    Cells = {x1, x2}
    Entities = {e1, e2, e3}
    Cameras = {c1, c2, c3, c4}
    DeviceCams = {c1, c2}
    Present = {c1, c3}
    Null = Null
    Web = Web
    Workers = {w1, w2}
    MaxChanges = 2
INVARIANTS
    StaleByOneLease 

     
CHECK_DEADLOCK FALSE
