SPECIFICATION FairSpec
CONSTANTS
    NULL = NULL
    Addr = {a1, a2, a3, a4}
    Proto <- MCProto
    Kind <- MCKind
    Lifetime <- MCLifetime
    Initial <- MCInitial
    Duration = 2
    MaxId = 5
    MaxCalls = 2
    Callers = {"LoadSched", "EnterNotify", "Build", "BuildNotify", "Tick", "Trade", "Tock", "DecomNotify"}
    BuildFor = {"Region", "Inst", "Facility"}
    Retire = {"Region", "Inst", "Facility"}
    Toggle = {"Tick", "Tock"}
INVARIANTS
    TypeOK QueuedOnce FamilyTree Registered CallsReachLiveAgents FacilitiesCounted
PROPERTIES
    Terminates
