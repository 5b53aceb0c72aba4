CONSTANTS
    q1 = q1
    q2 = q2
    Kinds = {"Material", "Product"}
    Qualities <- MCQualities
    Programs <- MCPrograms
    MaxQty = 2
    MaxObjs = 3
SPECIFICATION Spec
SYMMETRY Symmetry
CHECK_DEADLOCK FALSE
INVARIANTS
    RowsTruthful
    MassBalance
    CompositionTimely
    IdsUnique
    QualitiesRecorded
