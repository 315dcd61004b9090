\* A shutdown that waits for a session that is over (sse_instance.go:168).
SPECIFICATION FairSpec
CONSTANTS
    c1 = c1
    c2 = c2
    c3 = c3
    d1 = d1
    d2 = d2
    r1 = r1
    r2 = r2
    None = None
    Sub = sub
    Stopper = stopper
    Conns = {c1, c2}
    Devices = {d1}
    Reqs = {}
    deviceOf <- OneDevice
    command <- SendAndKick
    targets <- ToAll
    MaxRemote = 0
    Stoppable = TRUE
PROPERTY
    StopAsksAll
CHECK_DEADLOCK FALSE
