CONSTANTS
    MaxConnections = 2
    MaxSequence <- OneEach
    InboundCapacity = 1
    OutboundCapacity = 2
SPECIFICATION FairSpec
INVARIANTS
    
    ResponsesWithoutGap
    CloseStaysDue
PROPERTIES
    NothingAfterError
    ErrorFrameWritten
    CommandAnswered
    OnlyFullQueueDelaysExit
