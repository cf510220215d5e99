SPECIFICATION Spec
CONSTANTS
    good = good
    bad = bad
    alice = alice
    root = root
    crew = crew
    put1 = put1
    put2 = put2
    comp1 = comp1
    comp2 = comp2
    work1 = work1
    work2 = work2
    Uploads = {u1, u2}
    TotalParts = 1
    Blobs = {good}
    Videos <- GoodVideo
    Sampled <- EveryPart
    Declared <- DeclaredGood
    Codes = {c1, c2}
    Users = {alice, root}
    Teams = {}
    Admins = {root}
    Founders <- NoManagers
    Managers <- NoManagers
    Putters = {put1}
    Completers = {comp1}
    Workers = {work1}
    Actor <- AliceOrRoot
    Jwt <- AdminJwts
    PartSlots = 3
    UserQuota = 1
    TeamQuota = 2
    UploadLimit = 2
    OsFaults = FALSE
    MaxCrashes = 0
    Hole = Hole
    Torn = Torn
    None = None
INVARIANTS
    WithinQuota
CHECK_DEADLOCK FALSE
