SPECIFICATION JoinSpec
CONSTANTS
    OsThreads = {t1}
    JoinFibers = {f1}
    MaxJoinCalls = 2
INVARIANT TerminationIsAnswered
CHECK_DEADLOCK FALSE
