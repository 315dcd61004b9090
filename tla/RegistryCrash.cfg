\* A device, with late heartbeats, on two brokers, the first of which crashes, or stops, and restarts.
SPECIFICATION Spec
CONSTANTS
    c1 = c1
    c2 = c2
    c3 = c3
    d1 = d1
    d2 = d2
    u1 = u1
    u2 = u2
    i1 = i1
    i2 = i2
    q1 = q1
    None = None
    Conns = {c1, c2, c3}
    Devices = {d1}
    Users = {u1}
    Instances = {i1, i2}
    Queries = {}
    deviceOf <- OneDevice
    uidOf <- OneUser
    instanceOf <- SecondBroker
    SlowDevices = {d1}
    Crashable = {i1}
    CrashAt <- AnyStep
    Stoppable = {i1}
    RedisFaults = FALSE
INVARIANTS
    TypeOK
    DeviceCountExact
    InstanceSetAccurate
    LocalMapSound
    NoGhostPresence
    OnlineUsersJustified
CHECK_DEADLOCK FALSE
