SPECIFICATION FairSpec
CONSTANTS
    Repos = {r1, r2}
    Known <- MCKnown
    NoRepo = NoRepo
    Slugs = {s1, s2}
    MaxVersion = 2
    MaxLost = 2
INVARIANTS TypeOK CheckpointHonest BatchKeepsFreshest
PROPERTY PushesAskedFor
