SPECIFICATION Spec
CONSTANTS
    Functors = {f1}
    Callers = {t1}
    MaxFunctors = 1
INVARIANT WakeupReachesPoll
CHECK_DEADLOCK FALSE
