SPECIFICATION FairSpec
CONSTANTS
    p1 = p1
    p2 = p2
    p3 = p3
    c1 = c1
    k1 = k1
    i1 = i1
    u1 = u1
    u2 = u2
    u3 = u3
    Puts = {p1, p2}
    LatePuts = {p2}
    Cancels = {c1}
    Cleaners = {}
    Images = {i1}
    Uploads = {u1, u2, u3}
    Target <- OwnUpload
    PartSlots = 1
    Threads = 3
    NoOne = NoOne
    NoGate = NoGate
PROPERTIES
    EveryRequestEnds
CHECK_DEADLOCK FALSE
