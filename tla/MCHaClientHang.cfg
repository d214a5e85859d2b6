CONSTANTS
    MaxCalls = 2
    QueueCap = 1
    InboxBound = 2
SPECIFICATION FairSpec
PROPERTY CallsReturnAfterClose
CHECK_DEADLOCK FALSE
