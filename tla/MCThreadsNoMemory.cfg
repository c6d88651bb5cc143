CONSTANTS
    main = main
    t1 = t1
    t2 = t2
    t3 = t3
    NoThread = NoThread
    Thread = {main, t1, t2, t3}
    OwnStack = {main, t3}
SPECIFICATION SpecNoMemory
INVARIANT StackOutlivesThread
\* Threads that join each other in a cycle wait for ever.
CHECK_DEADLOCK FALSE
