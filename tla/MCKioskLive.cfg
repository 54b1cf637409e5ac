SPECIFICATION LiveSpec
CONSTANTS
    NoCode = NoCode
    Codes = {c1, c2}
    Devices = {d1}
    Admins = {a1}
    Tenants = {t1}
    Demo = demo
    MaxDemo = 1
    CodeTtl = 1
    Grace = 1
    MaxTime = 2
    MaxEntries = 4
    MaxOwners = 2
    BatchSize = 2

    
PROPERTIES
    ConfirmedDeviceIsPaired 
CHECK_DEADLOCK FALSE
