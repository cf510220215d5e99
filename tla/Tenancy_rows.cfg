SPECIFICATION Spec
CONSTANTS
    root = root
    ann = ann
    bob = bob
    crew = crew
    clip = clip
    shelf = shelf
    Users = {root, ann, bob}
    Teams = {crew}
    Media = {clip}
    Groups = {shelf}
    Root = root
    None = None
    MaxCrashes = 1
    MaxEdits = 1
SYMMETRY Others
INVARIANTS
    TypeOK
    AdministratorRemains
    TeamsOwned
    GroupsRooted
PROPERTIES
    DeletionSparesTeams
CHECK_DEADLOCK FALSE
