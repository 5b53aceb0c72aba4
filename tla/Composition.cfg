SPECIFICATION Spec
CONSTANTS
    Recipes <- MCRecipes
    Noticeable <- MCNoticeable
    Dt = 2
    DefaultDt = 1
    MaxComps = 4
    MaxMats = 2
    MaxTime = 2
CHECK_DEADLOCK FALSE
INVARIANTS
    DecayedOnce QualIdsMeanOne
PROPERTIES
    RestartFaithful
