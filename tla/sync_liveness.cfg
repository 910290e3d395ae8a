SPECIFICATION FairSpec
CONSTANTS
    Repos = {r1}
    NoRepo = NoRepo
    Passes = {p1}
    ReleaseLimit = 1
    NotesLimit = 1
    MaxAge = 0
    CheckMayFail = TRUE
    FetchMayFail = FALSE
    MaxPushes = 2
    MaxTime = 1
    MaxLost = 1
    r1 = r1
    p1 = p1
PROPERTIES
    EveryReleaseIngested
