SPECIFICATION FairSpec
CONSTANTS
    Commands <- MCCommands
    ReqReports <- MCReqReports
    AckReports <- MCAckReports
    NUM_RETRIES = 3
    MaxCalls = 2
    Faults = {"send", "late", "cut", "nack", "payload", "type"}
CHECK_DEADLOCK FALSE
INVARIANTS
    TypeOK
    SuccessMeansExecuted
    AtMostOnce
    InStep
    ChannelInv
    PendingInv
PROPERTIES
    KeepsPromise
    CallsReturn
