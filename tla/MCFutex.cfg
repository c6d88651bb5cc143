SPECIFICATION Spec
CONSTANTS
    Thread = {t1, t2, t3}
    Addr = {a1, a2}
    List = {l1, l2}
    NoList = NoList
    MaxRefs = 3
INVARIANT WaitlistsAreExact
PROPERTIES  OnlyNegativeLeaks
CHECK_DEADLOCK FALSE
