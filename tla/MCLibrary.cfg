SPECIFICATION Spec
CONSTANTS
    t1 = t1
    t2 = t2
INVARIANTS AllocatorIsSound  EnvironIsMap ValuesBelong TablesAreExact
PROPERTIES BufferingIsUnseen LookupIsRight HandlersRunInOrder AlgorithmsAgree
\* Processes exit and calls return for good.
CHECK_DEADLOCK FALSE
