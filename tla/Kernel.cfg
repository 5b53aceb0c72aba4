SPECIFICATION Spec
CONSTANTS
    NULL = NULL
    Addr = {a1, a2, a3, a4}
    Proto <- MCProto
    Kind <- MCKind
    Lifetime <- MCLifetime
    Initial <- MCInitial
    Duration = 3
    MaxId = 5
    MaxCalls = 3
    Callers = {"LoadSched", "EnterNotify", "Build", "BuildNotify", "Tick", "Trade", "Tock"}
    BuildFor = {"Inst"}
    Retire = {"Facility"}
    Toggle = {"Tick"}
INVARIANTS
    NoUseAfterFree SchedulesKept LifetimesEnforced RequestsHonoured
SYMMETRY Symmetry
PROPERTIES
    ImplementsPlan
