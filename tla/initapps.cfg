SPECIFICATION FairSpec
CONSTANTS
    NUM_APPS = 5
    Lists <- MCLists
    Olds = {0, 2}
    Pages = 2
CHECK_DEADLOCK FALSE
INVARIANTS TypeOK IdxInStep OwnAreas InstalledComplete InstancesAscend DeletedFirst InstallingInv
PROPERTY Ends
