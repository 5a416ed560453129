SPECIFICATION SearchSpec
CONSTANTS
    Animes = {a, b}
    MaxActions = 3
PROPERTIES FailedRefreshKeepsStored
CHECK_DEADLOCK FALSE
