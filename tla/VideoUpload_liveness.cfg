SPECIFICATION FairSpec
CONSTANTS
    good = good
    bad = bad
    alice = alice
    root = root
    crew = crew
    put1 = put1
    put2 = put2
    comp1 = comp1
    comp2 = comp2
    work1 = work1
    work2 = work2
    Uploads = {u1}
    TotalParts = 2
    Blobs = {good}
    Videos <- GoodVideo
    Sampled <- EveryPart
    Declared <- DeclaredGood
    Codes = {c1}
    Users = {alice, root}
    Teams = {crew}
    Admins = {root}
    Founders <- AllFounders
    Managers <- NoManagers
    Putters = {put1}
    Completers = {comp1}
    Workers = {work1, work2}
    Actor <- AliceOrRoot
    Jwt <- AdminJwts
    PartSlots = 3
    UserQuota = 2
    TeamQuota = 2
    UploadLimit = 2
    OsFaults = TRUE
    MaxCrashes = 1
    Hole = Hole
    Torn = Torn
    None = None
PROPERTIES
    VerifyingSettles
    FinalizingSettles
    RetiredDirectoriesGo
CHECK_DEADLOCK FALSE
