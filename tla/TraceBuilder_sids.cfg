\* Two logs of 24 devices, as the documentation's example has.
SPECIFICATION Spec
CONSTANTS
    Lines <- FirstAndSeventeenth
    Logs = 2
    MaxEvents = 3
    Tenants = 48
    MaxDevPerLog = 24
    LogTypes = {"txt"}
    Orders = {"rr"}
    Consec = 2
    FIRST_DEV_ID = 2
    MAX_DOMAINS_PER_LOG = 128
    SizeT = 65536
    UInt = 256
    MaxNat = 99
INVARIANT
    ContextPerTenant
CHECK_DEADLOCK FALSE
