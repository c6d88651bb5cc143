SPECIFICATION Spec
CONSTANTS
    Thread = {t1, t2}
    Obj = {o1, o2, o3, o4}
    NoThread = NoThread
    NoObj = NoObj
    MINSIZE = 2
    MAX_DESCRIPTOR = 4
    MaxLen = 4
    MaxRefs = 1
SYMMETRY Symmetry
INVARIANTS RefCountExact NoUseAfterFree
PROPERTY LowestFree
