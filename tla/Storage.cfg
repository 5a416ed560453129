SPECIFICATION FairSpec
CONSTANTS
    Latest = 2
    MaxOpenings = 2
    CallCount = 2
    Work = {"SavePlaybackCheckpoint", "RemoveHistory", "IngestSourceAnime", "SaveSourceRef",
            "SaveEpisodeMapping", "SaveMetadata", "Follow", "Unfollow", "ReplaceSchedule", "ListAll"}
    Stamps = {1, 2}
    Positions = {1, 2}
INVARIANTS StoreAgrees
PROPERTIES OthersAreKept ProgressIsKept CloseReturns
CHECK_DEADLOCK FALSE
