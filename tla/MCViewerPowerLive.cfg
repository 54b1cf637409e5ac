SPECIFICATION ViewerLiveSpec
CONSTANTS
    NoCode = NoCode
    Codes = {c1}
    Devices = {d1}
    Admins = {a1}
    Tenants = {t1}
    Demo = demo
    MaxDemo = 1
    CodeTtl = 1
    Grace = 1
    MaxTime = 1
    None = None
    Socks = {s1, s2}
    Hbs = {h1}
    Cmds = {}
    MaxProc = 2
    MaxRev = 1
PROPERTIES
    SettledStateIsRecorded
CHECK_DEADLOCK FALSE
