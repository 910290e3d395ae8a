CONSTANTS
    Processes = {one, other}
    AskCount = 3
    Quota = 1
    Window = 2
    LastSecond = 2
    MaxRefused = 1
    Clients = {one, other}
    Users = {u1, u2}
    LibraryApps = {a}
    Apps = {a, b, d}
    Names = {n}
    MaxServed = 3
    Writers = {one, other}
    Feeds <- MCFeeds
    Stable = {"stable"}
    Keys = {1, 2}
    Keep = 2
    MaxVersions = 2
    MaxJobs = 2
    MaxBackups = 3
    MaxStops = 1
    Looks <- MCLooks
    Jobs = {one, other}
    CandidateLimit = 1
    RefreshLimit = 3
    Batch = 1
    MaxTouches = 1
    MaxRuns = 2
    Sessions = {one, other}
    AnalyticsApps = {1, 2}
    Batches <- MCBatches
    BatchLimit = 2
    Views = 2
    Week = 2
    Today = 4
    MaxIngests = 3
    MaxRefreshes = 2
    RowPasses = {"one", "two"}
    NoListing = none
    Listing <- MCListing
    Joined <- MCJoined
    Hinted <- MCHinted
    Fields <- MCFields
    Keyed <- MCKeyed
    RowsBefore = {"macos"}
    AppsBefore = {"r2"}
    Worlds <- MCWorlds
    Offered <- MCOffered
    TakeLimit = 2
    MaxReleases = 2
    Validators = {one, other}
    NoFile = none
    Files <- MCFiles
    MaxChecks = 12
    Pages <- MCPages
    WebLinks = {"v", "w", "apple"}
    StoreOf <- MCStoreOf
    PageSize = 1
    Lifetime = 1
    MaxCached = 2
    ListingEnd = 3
    MaxReleased = 3
    MaxListings = 2
    ScoredApps = {"one", "two"}
    Portraits <- MCPortraits
    Catalogue = {1, 2, 3}
    Distance <- MCDistance
    RowSets <- MCRowSets
    Requests <- MCRequests
    NoDocument = none
    PerPage = 1
    MaxChanges = 2
SPECIFICATION MCSpec
INVARIANTS
    TypeOK
    LimiterHonest
    LibraryHonest
    FilesHonest
    DerivedFresh
    RowsHonest
    AssetsHonest
    UpstreamRead
    ComputedHonest
SYMMETRY MCSymmetry
CHECK_DEADLOCK FALSE
