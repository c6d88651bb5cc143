SPECIFICATION MCSpec
CONSTANTS
    Thread = {t1, t2, t3, t4}
    INT_MIN <- MinInt
    SyncThread = {t1, t2, t3}
    NoThread = NoThread
    SEM_VALUE_MAX = 2
    MaxReaders = 2
    Limits = {1, 2}
INVARIANTS MutualExclusion NoLostWakeup ObjectsHold
PROPERTIES UnitsAreKept CallsSettle
