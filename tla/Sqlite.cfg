SPECIFICATION Spec
CONSTANTS
    t1 = t1
    t2 = t2
    Titles <- MCTitles
    Shapes <- MCShapes
    MaxBatch = 2
    MaxRows = 4
    MaxOpens = 3
SYMMETRY Symmetry
CHECK_DEADLOCK FALSE
INVARIANTS
    CatalogMatches ReadsBack
PROPERTIES
    ImplementsLog
