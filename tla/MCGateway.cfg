SPECIFICATION SumSpec
CONSTANTS
    Channels = {"telegram"}
    Internal = {}
    MediaSenders = {"telegram"}
    Senders = {"tool"}
    QueueSize = 1
    MaxRetries = 1
    MaxChunks = 2
    MaxPublished <- TwoTextOneMedia
    MaxCalls = 1
    MdClients = {"a", "b"}
    MdPaths = {"x", "y"}
    MdScopes = {"s1", "s2"}
    MdMaxRefs = 2
    NtChannels = {"telegram", "discord"}
    NtRounds = 2
    NtBeats = 2
    NtRestarts = 1
    NtFailures = 1
INVARIANTS
    UnregisterDrains
    QuietWhenStopped
    MediaSafe
    NoticesSafe
PROPERTIES
    InOrder
CHECK_DEADLOCK FALSE
