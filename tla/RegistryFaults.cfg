\* Two devices of one user, and GET /info, while any Redis call whose error is only logged may fail.
SPECIFICATION Spec
CONSTANTS
    c1 = c1
    c2 = c2
    c3 = c3
    d1 = d1
    d2 = d2
    u1 = u1
    u2 = u2
    i1 = i1
    i2 = i2
    q1 = q1
    None = None
    Conns = {c1, c2}
    Devices = {d1, d2}
    Users = {u1}
    Instances = {i1}
    Queries = {q1}
    deviceOf <- SecondDevice
    uidOf <- OneUser
    instanceOf <- OneBroker
    SlowDevices = {d2}
    Crashable = {}
    CrashAt <- ServingOnly
    Stoppable = {}
    RedisFaults = TRUE
INVARIANTS
    LastDeviceEventJustified
    NoGhostPresence
    OnlineUsersJustified
    LastUserEventJustified
PROPERTIES
    ServedStayListed
CHECK_DEADLOCK FALSE
