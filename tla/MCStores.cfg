SPECIFICATION SumSpec
CONSTANTS
    w1 = w1  w2 = w2
    Writers = {w1, w2}
    Shard <- OneShard
    MaxMessages = 3
    MaxKeep = 2
    MaxCrashes = 2
    MaxFaults = 1
    Savers = {"loop", "cron", "summarizer"}
    CvRounds = 2
    CvIterations = 1
    CvRetries = 1
    CvTail = 3
    CvThreshold = 4
    CvBatch = 1
    CvOversized = {3}
    CvMishaps = 1
    r1 = r1  r2 = r2
    FbModels <- MCFbModels
    FbRequests = {r1, r2}
    FbErrors <- MCFbErrors
    FbTimes = {1, 1500}
    FbMaxRequests = 2
    FbMaxLapses = 1
    IbChannels = {"telegram", "feishu", "line", "discord", "slack", "slack_command", "onebot", "wecom", "wecom_app",
                  "pico", "whatsapp", "whatsapp_native", "qq", "qq_group", "maixcam", "dingtalk"}
    IbRules = {"any", "mention_only", "prefixes"}
    IbDeliveries = 2
    SdParts = 2
    SdRetries = 3
INVARIANTS
    StoreSafe
    ConversationSafe
    InboundSafe
PROPERTIES
    ImplementsStore
    FallbackCorrect
    SendingCorrect
CHECK_DEADLOCK FALSE
