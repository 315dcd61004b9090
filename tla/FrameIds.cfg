\* A client that connects three times, to two brokers, possibly as another user.
SPECIFICATION Spec
CONSTANTS
    c1 = c1
    c2 = c2
    c3 = c3
    u1 = u1
    u2 = u2
    i1 = i1
    i2 = i2
    None = None
    Conns = {c1, c2, c3}
    Users = {u1, u2}
    Instances = {i1, i2}
    uidOf <- ThenAnother
    instanceOf <- ThereAndBack
    CacheSize = 2
    Patient = FALSE
    MaxFrames = 4
INVARIANTS
    TypeOK
    CacheHoldsNewest
PROPERTIES
    IdsIncrease
    AtMostOnceInOrder
CHECK_DEADLOCK FALSE
