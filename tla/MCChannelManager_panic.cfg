SPECIFICATION Spec
CONSTANTS
    Channels = {"telegram"}
    Internal = {"cli"}
    MediaSenders = {"telegram"}
    Senders = {}
    QueueSize = 1
    MaxRetries = 1
    MaxChunks = 1
    MaxPublished <- TwoTextOneMedia
    MaxCalls = 1
INVARIANT StopDoesNotPanic
CHECK_DEADLOCK FALSE
