CONSTANTS
    Initial = 2
    Duration = 2
    MaxAgents = 4
    MaxCalls = 3
SPECIFICATION FairSpec
INVARIANTS
    InitFaithful
    AgentsRestored
    PlansRestored
PROPERTY
    InitEnds
