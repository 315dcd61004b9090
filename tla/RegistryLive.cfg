\* Sessions of a user's two devices on one broker, which may crash and be started again.
SPECIFICATION FairSpec
CONSTANTS
    c1 = c1
    c2 = c2
    c3 = c3
    d1 = d1
    d2 = d2
    u1 = u1
    u2 = u2
    i1 = i1
    i2 = i2
    q1 = q1
    None = None
    Conns = {c1, c2, c3}
    Devices = {d1, d2}
    Users = {u1}
    Instances = {i1}
    Queries = {}
    deviceOf <- SecondDevice
    uidOf <- OneUser
    instanceOf <- OneBroker
    SlowDevices = {}
    Crashable = {i1}
    CrashAt <- ServingOnly
    Stoppable = {}
    RedisFaults = FALSE
INVARIANTS
    DeviceCountExact
    InstanceSetAccurate
    LocalMapSound
    NoGhostPresence
    OnlineUsersJustified
    LastUserEventJustified
    LastDeviceEventJustified
PROPERTIES
    ServedStayListed
    UserEventuallyOffline
    RestartForgets
CHECK_DEADLOCK FALSE
