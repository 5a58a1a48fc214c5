SPECIFICATION SumFairSpec
CONSTANTS
    SkConns = {"k1", "k2"}
    SkMax = 1
    m1 = m1  m2 = m2
    Messages = {m1, m2}
    MaxAnswers = 2
    ObConns = {"k1", "k2"}
    ObRequests = {"r1", "r2"}
    AbChats = {"c1"}
    AbPollers = {"p1"}
    AbMaxTasks = 2
    AbParts = 1
    SpPieces = {"text", "word", "fence", "newline", "space"}
    SpMaxPieces = 5
    SpText = 30
    SpMaxLen = 40
    SpReserve = 5
    SpNewlineWindow = 15
    SpSpaceWindow = 8
    SpInside = 2
    SpMaxChunks = 8
INVARIANTS
    IndicatorsSafe
    AnswersSafe
PROPERTIES
    SocketsCorrect
    IndicatorEnds
    OneBotCorrect
    SplittingCorrect
    SendReturns
CHECK_DEADLOCK FALSE
