SPECIFICATION Spec
CONSTANTS
    MaxLen = 4
    Bytes = {0}
    ok <- MCOk
    MaxDelivered = 3
INVARIANTS
    TypeOK
    NothingLost
    CountersAgree
    WatcherSurvives
PROPERTIES
    ImplementsFifo
    EveryMessageHandled
CHECK_DEADLOCK FALSE
