CONSTANTS
    Passes = {p1, p2}
    p1 = p1
    a = a
    b = b
    c = c
    Packages = {a, b, c}
    Entries = {a, b}
    Folder <- MCFolder
    Starred = {a, b, c}
    Hooked = {a}
    Published <- MCPublished
    Connectors = {"gitlab", "fdroid", "winget"}
    Shelves = 2
    Limit = 1
    SearchSize = 1
    MaxMoves = 1
    MaxLost = 1
    Requests = {q1, q2}
    Workers = {w1, w2}
    NoJob = NoJob
    MaxJobs = 2
    MaxFaults = 2
    TaskCount = 3
    Interval <- MCInterval
    MaxDuration = 2
    Rounds = {k1, k2}
    HealthSources = {github, fmhy}
    MaxStreak = 2
SPECIFICATION MCSpec
INVARIANTS
    TypeOK
    CursorHonest
    JobsAccounted
    StreakHonest
PROPERTIES
    ScheduleKept
    IngestionProgress
CHECK_DEADLOCK FALSE
