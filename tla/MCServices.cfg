SPECIFICATION SumFairSpec
CONSTANTS
    c1 = c1  c2 = c2  c3 = c3  s1 = s1  s2 = s2
    Publishers = {"p1", "p2"}
    Consumers = {}
    Closers = {"k1"}
    Capacity = 1
    SgMaxTasks = 2
    SgMaxChats = 2
    SgCapacity = 1
    Callers = {c1, c2, c3}
    Servers = {s1, s2}
    AgInbox <- MCAgInbox
    AgDeliveries = 2
    AgCronRounds = 1
    AgExpiries = 1
    CbJobs <- MCCbJobs
    CbDeaths = 1
INVARIANTS
    CutOnlyByRace
    NothingAfterClose
    RoundsSafe
PROPERTIES
    OnlyServersHoldUp
    RunKeepsUp
    BrainCorrect
    BusCloseReturns
    SubagentsCorrect
CHECK_DEADLOCK FALSE
