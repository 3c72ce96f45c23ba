SPECIFICATION OrderedSpec
CONSTANTS
    Mode = "RELIABLE_ORDERED"
    Window = 2
    WaitingCap = 1
    Budget = 2
    TheirGrant = 0
    Grant = 2
    HoldCeiling = 3
    RecvSlots = 3
    LossThreshold = 2
    RangeCount = 1
    StallTimer = TRUE
    MaxMsgs = 4
    MaxAcks = 2
INVARIANTS OrderedInv NothingForgotten Accounting
PROPERTIES ImplementsChannel OrderedDelivered
\* the flow is quiet once every message is delivered and polled
CHECK_DEADLOCK FALSE
