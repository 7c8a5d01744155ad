SPECIFICATION ThreadsSpec
CONSTANTS
    t1 = t1
    t2 = t2
    t3 = t3
    Threads = {t1, t2, t3}
    Channels = {c1}
    Rendezvous = {c1}
    Capacity <- NoCapacity
    Captures <- ByAll
    WaiterMax = 3
    IdleMax = 1
    Modes <- BlockOrTimed
    Uncopyable <- LastOfT2
    MaxCalls <- TwiceT1T2
    OsThreads = {t1, t2}
    JoinFibers = {f1, f2}
    MaxJoinCalls = 5
    MutexFibers = {f1, f2}
    MaxMutexCalls = 7
INVARIANT TypeOK RendezvousHasReceiver ReapedOnceAfterExit FirstJoinTakesOutcome
PROPERTY ImplementsChannel JoinReturns DeathIsReported SignalEndsWait
CHECK_DEADLOCK FALSE
