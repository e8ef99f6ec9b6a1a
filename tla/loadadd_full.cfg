SPECIFICATION Spec
CONSTANTS
    NUM_APPS = 5
    Ext <- MCExt
    DB_START = 2
    CODE_START = 16
    CodeAddrs = {14}
    PAGE_SIZE = 2
    AcbPage <- MCAcbPage
    LastAcbPage = 1
    Word = 32
    Sizes = {3, 7}
    InitSizes = {3}
    MaxLoads = 2
CHECK_DEADLOCK FALSE
INVARIANT MovesOnlyWhatFits
