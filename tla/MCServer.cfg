SPECIFICATION ServerSpec
CONSTANTS
    Requests = {"r1", "r2"}
    Conns = {"c1"}
    Schemas = {"a"}
    MaxOps = 4
    MaxLost = 1
    MgServers = {s1, s2}
    MgTenants = {"a", "b"}
    MgPastEnds = {0, 6, 12, 17, 21}
    MaxMgRuns = 2
    Sids = {s1, s2}
    Reqs = {q1, q2}
    Threshold = 1
    MaxPw = 1
    MaxReqs = 2
    Keys = {a, b, c}
    windowMs = 2
    max = 2
    maxBuckets = 2
    maxEntries = 3
    sweepMs = 1
    MaxTime = 4
SYMMETRY Symmetry
INVARIANTS
    DbSafe MigrationsSafe  LimiterSafe
CHECK_DEADLOCK FALSE
