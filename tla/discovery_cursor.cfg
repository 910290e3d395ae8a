CONSTANTS
    Passes = {p1}
    a = a
    b = b
    c = c
    Packages = {a, b, c}
    Entries = {a, b, c}
    Folder <- MCFolder
    Starred = {a, b, c}
    Published <- MCPublished
    Connectors = {"github"}
    Shelves = 1
    Limit = 1
    SearchSize = 1
    MaxMoves = 0
    MaxLost = 0
SPECIFICATION DiscoverySpec
INVARIANT CursorHonest
