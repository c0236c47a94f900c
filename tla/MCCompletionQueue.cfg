CONSTANTS
    CQ_SIZE = 2
    Depth = 3
    MaxCompletions = 5
SPECIFICATION FairSpec
INVARIANTS
    TypeOK
    HandledInOrder
    NoMissedCompletion
    ThreadHasQueue
    NothingLeft
PROPERTIES
    EveryCompletionHandled
CHECK_DEADLOCK FALSE
