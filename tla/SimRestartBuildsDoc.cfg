CONSTANTS
    Initial = 1
    Duration = 2
    MaxAgents = 2
    MaxCalls = 1
SPECIFICATION Spec
INVARIANT
    PendingBuildsKept
