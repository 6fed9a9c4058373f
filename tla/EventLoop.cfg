SPECIFICATION FairSpec
CONSTANTS
    Functors = {f1, f2}
    Callers = {t1, t2}
    MaxFunctors = 4
INVARIANTS ExactlyOnceInOrder RoundIsClosed
PROPERTIES QuitEndsLoop ImplementsTaskQueue
CHECK_DEADLOCK FALSE
