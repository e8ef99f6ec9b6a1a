SPECIFICATION Spec
CONSTANTS
    Apps = {"schedule"}
    Msgs <- MCMsgs
    MsgLen <- MCMsgLen
    MAX_MSG_LEN = 100
    PAGE_SIZE = 16
    MaxRecs = 3
    MIN_MSG_LEN = 7
    Unused = {0, 2}
    Extra = {0}
    Garbage = {0, 65535}
    Appts <- MCAppts
    LastTime = 2
    Contacts <- MCContacts
    Begins <- MCBegins
    Occasions <- MCOccasions
    Schedules <- MCSchedules
    Descs = {1}
    Default = 0
    Timers <- MCTimers
    TimersHeld = 2
    AtEnds = {0, 2}
    Laps <- MCLaps
    Displays = {0, 3}
    Recs = {2, 9}
    Freed = {"intact", "astray", "crash"}
    MIN_CHRONO_RECS = 2
    MAX_CHRONO_RECS = 5
    OptionNumbers = {0, 260}
    NITE_ON_HOUR = 20
    NITE_ON_MINUTE = 0
CHECK_DEADLOCK FALSE
PROPERTY DeletesAsked
