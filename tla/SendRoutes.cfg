\* A POST /send, whose Redis calls may fail, or a GET /info, while a device moves between two brokers.
SPECIFICATION ApiSpec
CONSTANTS
    c1 = c1
    c2 = c2
    c3 = c3
    c4 = c4
    c5 = c5
    c6 = c6
    c7 = c7
    d1 = d1
    d3 = d3
    d4 = d4
    d5 = d5
    d6 = d6
    d7 = d7
    u1 = u1
    u2 = u2
    i1 = i1
    i2 = i2
    None = None
    Conns = {c1, c2, c3, c4, c5, c6, c7}
    Devices = {d1, d3, d4, d5, d6, d7}
    Users = {u1, u2}
    Instances = {i1, i2}
    Queries = {}
    deviceOf <- DeviceOf
    uidOf <- UserOf
    instanceOf <- BrokerOfConn
    SlowDevices = {}
    Crashable = {}
    CrashAt <- NoStep
    Stoppable = {}
    RedisFaults = FALSE
    Self = i1
    Requests <- AllKinds
    BatchSize = 3
    SendFaults = TRUE
INVARIANTS
    CountInBounds
    SendTypeOK
    GivenAsListed
    GivenWhereNamed
    SteadyIsSent
CHECK_DEADLOCK FALSE
