\* Three requests of one device and a broadcast to two, during a shutdown or without one.
SPECIFICATION Spec
CONSTANTS
    c1 = c1
    c2 = c2
    c3 = c3
    d1 = d1
    d2 = d2
    r1 = r1
    r2 = r2
    None = None
    Sub = sub
    Stopper = stopper
    Conns = {c1, c2, c3}
    Devices = {d1, d2}
    Reqs = {r1}
    deviceOf <- OneDevice
    command <- SendAndKick
    targets <- ToAll
    MaxRemote = 0
    Stoppable = TRUE
SYMMETRY SameConns
INVARIANTS
    TypeOK
    WaitGroupExact
    NoStaleChannel
    NoSendOnClosed
    StopOutlastsSessions
    SteadyReceives
CHECK_DEADLOCK FALSE
