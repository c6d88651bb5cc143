SPECIFICATION MCSpec
CONSTANTS
    Thread = {t1, t2, t3}
    Waiters = {t1, t2}
    Signallers = {t1, t3}
    NoThread = NoThread
    EBUSY = EBUSY
    Cv = Cv
    Ref = Ref
    INT_MAX = 1
    MutexTypes = {"NORMAL", "RECURSIVE", "ERRORCHECK"}
INVARIANTS MutexExcludes NobodyOversleeps QueueIsSafe
PROPERTIES SignalsArrive
