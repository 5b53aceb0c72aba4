SPECIFICATION Spec
CONSTANTS
    b1 = b1
    b2 = b2
    Backends <- MCBackends
    Counts = {0, 1, 2, 3}
    Interleaved = FALSE
    MaxOpen = 1
    MaxRows = 5
    MaxConfig = 1
    AnyTime = FALSE
    MayFail = TRUE
INVARIANTS OnlyZeroUndefined DeliveredIntact NothingLost
PROPERTY CloseDelivers
CHECK_DEADLOCK FALSE
