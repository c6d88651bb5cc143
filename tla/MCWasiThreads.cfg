SPECIFICATION Spec
CONSTANTS
    a = a
    b = b
    main = main
    NoThread = NoThread
    Thread <- AllThreads
    OwnStack <- OnlyB
    MaxLeaving = 1
INVARIANTS StackOutlivesThread ListIsExact BlocksAreOwned
PROPERTIES
    CallsReturn
CHECK_DEADLOCK FALSE
