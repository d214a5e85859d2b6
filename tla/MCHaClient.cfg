CONSTANTS
    MaxCalls = 2
    QueueCap = 1
    InboxBound = 2
SPECIFICATION FairSpec
INVARIANTS
    ReplyFindsCaller
    EventFindsSubscription
    NoForgottenSender
    EndedLoopIsSignalled
PROPERTIES
    ImplementsRequestReply
    RequestsReturn
    SubscribersReleased
    LossIsSignalled
CHECK_DEADLOCK FALSE
