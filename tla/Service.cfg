SPECIFICATION ServiceSpec
CONSTANTS
    CallCount = 3
    Kinds = {"Play", "StopPlayback", "SaveSettings", "SavePlaybackSpeed", "Episodes", "RefreshMetadata"}
    SlotCount = 2
    Lookups = {1, 2, 3}
    Months = {1, 2}
    NoFetch = 0
    MaxCached = 1
    BrowseSize = 2
    FirstPages = 1
    MaxSubjects = 4
    Totals = {3, 5}
    Works <- MCWorks
    MaxCandidates = 5
    MaxFound = 2
INVARIANTS StoreOutlivesUse OneOwnedSession SavesAreKept LookupsAreServed StoredIsTheAnime OrderIsNoMatter
PROPERTIES WaitsEnd
CHECK_DEADLOCK FALSE
