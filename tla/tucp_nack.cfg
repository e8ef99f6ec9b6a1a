SPECIFICATION Spec
CONSTANTS
    Commands <- MCCommands
    ReqReports <- MCReqReports
    AckReports <- MCAckReports
    NUM_RETRIES = 5
    MaxCalls = 2
    Faults = {"payload"}
CHECK_DEADLOCK FALSE
INVARIANT GoodNack
