CONSTANTS
    None = None
    Pairs <- MCPairs
    Reasons <- MCReasons
    Objects <- MCObjects
    Calls = 2
    Blocks = 2
    StreamBytes = 5
    Lag = 1
SPECIFICATION FairStreamSpec
INVARIANT CompletionIsHonest
INVARIANT AnswersFaithful
PROPERTY TimerHitsItsWait
PROPERTY StalledStreamEnds
CHECK_DEADLOCK FALSE
