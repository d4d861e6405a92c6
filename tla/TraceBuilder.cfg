\* Two logs of up to two valid devices, three tenants wanted, every order.
SPECIFICATION Spec
CONSTANTS
    Lines <- TwoDevices
    Logs = 2
    MaxEvents = 5
    Tenants = 3
    MaxDevPerLog = 2
    LogTypes = {"txt", "bin"}
    Orders = {"orig", "rr", "rand", "?"}
    Consec = 2
    FIRST_DEV_ID = 2
    MAX_DOMAINS_PER_LOG = 128
    SizeT = 65536
    UInt = 256
    MaxNat = 99
INVARIANTS
    DidsDense
    TenantsSeparate
    TenantsCounted
    ContextPerTenant
    StreamsKept
    RRFair
    NatRight
PROPERTY
    BuildEnds
CHECK_DEADLOCK FALSE
