SPECIFICATION MCSpec
CONSTANTS
    t1 = t1
    t2 = t2
    t3 = t3
    NoThread = NoThread
    Thread = {t1, t2, t3}
    MaxIO = 3
INVARIANTS NeverTraps MarksAgree NothingIsLost 
PROPERTIES ShutdownFlushes WaitersReturn
