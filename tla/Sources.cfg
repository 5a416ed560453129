SPECIFICATION SourcesSpec
CONSTANTS
    Capacity = 2
    MaxOwner = 3
    MaxPublished = 4
    MaxPages = 3
    MaxListed = 5
    PageSize = 2
    MaxPosts = 7
    MaxInt = 4
    Numbers = {0, 1, 2, 3, 4, 5}
    Empty = empty
    Junk = junk
INVARIANTS DeliveredInOrder NoLostWakeup AnswerIsTheSites PassedWasAsked HonestIsPassed
PROPERTIES RelayEnds
CHECK_DEADLOCK FALSE
