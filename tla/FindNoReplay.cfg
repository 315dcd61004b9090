\* A client that comes back is sent no cached frame (handle_events.go:100).
SPECIFICATION Spec
CONSTANTS
    c1 = c1
    c2 = c2
    c3 = c3
    u1 = u1
    u2 = u2
    i1 = i1
    i2 = i2
    None = None
    Conns = {c1, c2}
    Users = {u1}
    Instances = {i1}
    uidOf <- SameUser
    instanceOf <- OneBroker
    CacheSize = 2
    Patient = TRUE
    MaxFrames = 3
PROPERTIES
    CachedFramesSent
CHECK_DEADLOCK FALSE
