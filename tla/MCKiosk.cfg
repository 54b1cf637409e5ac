SPECIFICATION KioskSpec
CONSTANTS
    NoCode = NoCode
    Codes = {c1, c2}
    Devices = {d1, d2}
    Admins = {a1}
    Tenants = {t1, t2}
    Demo = demo
    MaxDemo = 1
    CodeTtl = 1
    Grace = 1
    MaxTime = 1
    None = None
    Socks = {d1, d2}
    Hbs = {h1}
    Cmds = {t1, t2}
    MaxProc = 1
    MaxRev = 2
SYMMETRY Symmetry
INVARIANTS
    PairingSafe DemoWithinCapacity ViewerSafe
PROPERTIES
    IdentityOutlivesRejection 
CHECK_DEADLOCK FALSE
