SPECIFICATION Spec
CONSTANTS
    Repos = {r1}
    NoRepo = NoRepo
    Passes = {p1, p2}
    ReleaseLimit = 2
    NotesLimit = 1
    MaxAge = 0
    CheckMayFail = TRUE
    FetchMayFail = TRUE
    MaxPushes = 2
    MaxTime = 0
    MaxLost = 1
    r1 = r1
    p1 = p1
    p2 = p2
INVARIANTS
    TypeOK
    ReleasesUpToSync
    UniqueReleases
    AnnouncementBudget
SYMMETRY Symmetry
