CONSTANTS
    MaxCalls = 2
    QueueCap = 1
    InboxBound = 2
SPECIFICATION Spec
PROPERTY IdsIncreaseOnTheWire
CHECK_DEADLOCK FALSE
