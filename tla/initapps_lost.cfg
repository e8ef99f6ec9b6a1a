SPECIFICATION Spec
CONSTANTS
    NUM_APPS = 5
    Lists <- MCLists
    Olds = {0, 2}
    Pages = 2
CHECK_DEADLOCK FALSE
INVARIANT LatestIndex
