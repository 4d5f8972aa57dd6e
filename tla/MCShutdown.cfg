CONSTANTS
    MaxConnections = 2
    MaxSequence <- TwoAndOne
    InboundCapacity = 1
    OutboundCapacity = 2
SPECIFICATION FairSpec
PROPERTIES
    ShutsDown
