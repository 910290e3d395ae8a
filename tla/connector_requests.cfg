SPECIFICATION FairSpec
CONSTANTS
    Clients = {c1, c2}
    MaxRequests = 2
    Period = 2
    Quota = 1
    Attempts = 2
    FeedTries = 2
    c1 = c1
    c2 = c2
INVARIANTS
    TypeOK
    WindowBudget
    RefusalHeeded
PROPERTIES
    EveryCallEnds
