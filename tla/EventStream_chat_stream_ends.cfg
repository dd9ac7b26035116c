SPECIFICATION StreamFairSpec
CONSTANTS
    Streams = {"s1"}
    ChannelSize = 1
    MaxEvents = 2
PROPERTIES
    ChatStreamEnds
CHECK_DEADLOCK FALSE
