SPECIFICATION FairSpec
CONSTANTS
    NUM_APPS = 5
    Ext <- MCExt
    DB_START = 2
    CODE_START = 16
    CodeAddrs = {14}
    PAGE_SIZE = 2
    AcbPage <- MCAcbPage
    LastAcbPage = 1
    Word = 32
    Sizes = {1, 3, 6, 7}
    InitSizes = {3}
    MaxLoads = 2
CHECK_DEADLOCK FALSE
INVARIANTS TypeOK AddsIntact SuccessStores InOrder PlacedInOrder LoadingInv
PROPERTIES OutsideUntouched LoadReturns
