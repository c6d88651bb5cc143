SPECIFICATION MCSpec
CONSTANTS
    r1 = r1
    r2 = r2
    w1 = w1
    w2 = w2
    Readers = {r1, r2}
    Writers = {w1, w2}
    Pollers = {r1, w1}
    PIPE_BUF = 2
    MaxIO = 3
    Modes = {"pair", "poll", "all"}
INVARIANT WakeupsAreExact
PROPERTIES PairReturns OnlyLeftoversTrap
