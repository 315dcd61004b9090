\* Are senders that found a served session served? A POST /kick and an instruction of another broker.
SPECIFICATION FairSpec
CONSTANTS
    c1 = c1
    c2 = c2
    c3 = c3
    d1 = d1
    d2 = d2
    r1 = r1
    r2 = r2
    None = None
    Sub = sub
    Stopper = stopper
    Conns = {c1, c2}
    Devices = {d1}
    Reqs = {r2}
    deviceOf <- OneDevice
    command <- SendAndKick
    targets <- ToAll
    MaxRemote = 1
    Stoppable = FALSE
PROPERTIES
    LoopServes
CHECK_DEADLOCK FALSE
