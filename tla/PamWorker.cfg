SPECIFICATION FairSpec
CONSTANTS
    MaxCalls = 2
    MaxMessages = 3
INVARIANTS MemorySound AnswersInPlace
PROPERTIES HungUpEnds PromiseKept
CHECK_DEADLOCK FALSE
