SPECIFICATION FairSpec
CONSTANTS
    Channels = {"telegram"}
    Internal = {"cli"}
    MediaSenders = {"telegram"}
    Senders = {}
    QueueSize = 1
    MaxRetries = 1
    MaxChunks = 1
    MaxPublished <- FourText
    MaxCalls = 1
PROPERTIES
    ManagerGoesOn
CHECK_DEADLOCK FALSE
