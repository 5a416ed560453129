SPECIFICATION DesktopSpec
CONSTANTS
    Last = 2
    MaxActions = 2
    Shows = {"a", "b"}
    MaxPlays = 3
    MaxSaves = 5
    Limit = 2
    MaxJobs = 2
INVARIANTS ReportsAreTrue ShownIsNotGivenUp BackgroundLeavesOne StarIsStored LastChoiceIsSaved
PROPERTIES BegunEnds
CHECK_DEADLOCK FALSE
