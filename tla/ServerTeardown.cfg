SPECIFICATION TeardownFairSpec
CONSTANTS
    NumThreads = 2
    LoopsMayQuit = TRUE
    MaxConns = 2
INVARIANTS NoThreadOutlivesPool DiesOnlyOfSelfQuit
INVARIANTS TornDownOnce PollingLoopsTearDown LoopsOutliveServer
PROPERTIES StartReturns ServerDestructorReturns
CHECK_DEADLOCK FALSE
