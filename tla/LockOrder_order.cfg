SPECIFICATION FairSpec
CONSTANTS
    p1 = p1
    p2 = p2
    p3 = p3
    c1 = c1
    k1 = k1
    i1 = i1
    u1 = u1
    u2 = u2
    u3 = u3
    Puts = {p1, p2, p3}
    LatePuts = {}
    Cancels = {c1}
    Cleaners = {k1}
    Images = {}
    Uploads = {u1, u2}
    Target <- OneUpload
    PartSlots = 1
    Threads = 4
    NoOne = NoOne
    NoGate = NoGate
INVARIANTS
    TypeOK
    GateExclusive
    GatesReclaimed
    NoWaitCycle
PROPERTIES
    ImplementsAccess
    EveryRequestEnds
CHECK_DEADLOCK FALSE
