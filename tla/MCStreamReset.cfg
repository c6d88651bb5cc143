SPECIFICATION Spec
CONSTANTS
    Thread = {t1, t2}
    MaxIO = 2
INVARIANT NotResetWhileUsed
