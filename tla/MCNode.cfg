SPECIFICATION SumSpec
CONSTANTS
    ArCommands <- MCArCommands
    ArRestarts = 1
    ArTakes = 2
    VcSpeakers = {"s1", "s2"}
    VcListens = {"m1"}
    VcLoops = {"l1"}
    VcWakes <- MCVcWakes
    PrIds = {"brief", "beat"}
    PrTypings <- MCPrTypings
    PrDefaults = {"brief"}
    PrPeriod = 1
    PrMinute = 2
    PrHorizon = 2
    PrMaxCommands = 2
    PrMaxRestarts = 1
    VpEnrolments = {"e1"}
    VpCaptures = {"c1"}
    VpSyncs = {"y1", "y2"}
    TrRounds <- MCTrRounds
    TrRoles = {"guest", "trusted"}
    TrRisky = {"write_file", "exec"}
    TrRestricted = {"exec", "write_file", "edit_file", "append_file", "spawn", "install_skill"}
    TrArrivals = 1
    MsMissions = {"m1"}
    MsMessages = {"a", "reload"}
    MsCheckpoints = 1
    MsFailures = 1
    MsCrashes = 1
    MsBeats = 1
INVARIANTS
    ArmSafe
    VoiceSafe
    TriggersSafe
    PrintsSafe
    ToolRoundsSafe
    MissionsSafe
CHECK_DEADLOCK FALSE
