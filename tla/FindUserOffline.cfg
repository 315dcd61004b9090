\* user_offline is published while a session of the user is served (README.md:231).
SPECIFICATION Spec
CONSTANTS
    c1 = c1
    c2 = c2
    c3 = c3
    d1 = d1
    d2 = d2
    u1 = u1
    u2 = u2
    i1 = i1
    i2 = i2
    q1 = q1
    None = None
    Conns = {c1, c2}
    Devices = {d1}
    Users = {u1}
    Instances = {i1}
    Queries = {}
    deviceOf <- OneDevice
    uidOf <- OneUser
    instanceOf <- OneBroker
    SlowDevices = {}
    Crashable = {}
    CrashAt <- AnyStep
    Stoppable = {}
    RedisFaults = FALSE
INVARIANT
    UserOfflineMeansNoDevice
CHECK_DEADLOCK FALSE
