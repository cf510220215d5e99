SPECIFICATION Spec
CONSTANTS
    p1 = p1
    p2 = p2
    p3 = p3
    c1 = c1
    k1 = k1
    i1 = i1
    u1 = u1
    u2 = u2
    u3 = u3
    Puts = {p1, p2}
    LatePuts = {}
    Cancels = {}
    Cleaners = {}
    Images = {i1}
    Uploads = {u1}
    Target <- TwoParts
    PartSlots = 3
    Threads = 3
    NoOne = NoOne
    NoGate = NoGate
INVARIANTS
    NoWaitCycle
CHECK_DEADLOCK FALSE
