SPECIFICATION Spec
CONSTANTS
    Repos = {r1}
    NoRepo = NoRepo
    Passes = {p1}
    ReleaseLimit = 3
    NotesLimit = 2
    MaxAge = 0
    CheckMayFail = TRUE
    FetchMayFail = TRUE
    MaxPushes = 3
    MaxTime = 0
    MaxLost = 1
    r1 = r1
    p1 = p1
INVARIANTS
    WatermarkHonest
SYMMETRY Symmetry
