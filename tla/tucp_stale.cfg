SPECIFICATION Spec
CONSTANTS
    Commands <- MCWrites
    ReqReports <- MCWriteReports
    AckReports <- MCWriteAcks
    NUM_RETRIES = 5
    MaxCalls = 2
    Faults = {"late"}
CHECK_DEADLOCK FALSE
INVARIANT AckAnswersCommand
