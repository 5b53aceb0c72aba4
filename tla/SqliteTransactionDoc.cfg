SPECIFICATION Spec
CONSTANTS
    t1 = t1
    t2 = t2
    Titles <- MCTitles
    Shapes <- MCShapes
    MaxBatch = 2
    MaxRows = 2
    MaxOpens = 1
CHECK_DEADLOCK FALSE
INVARIANTS
    SingleTransaction
