SPECIFICATION Spec
CONSTANTS
    Last = 2
    MaxActions = 3
INVARIANTS LeftEndDoesNothing
CHECK_DEADLOCK FALSE
