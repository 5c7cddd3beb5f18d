SPECIFICATION TdcaSpec
CONSTANTS
    NumNodes = 3
    CorePerformance <- MCCorePerformance
    NumCores <- MCNumCores
    NetworkBandwidth <- MCNetworkBandwidth
    Memory <- MCMemory
    Scale = 2
    Workflows <- MCWorkflows
    MemoryFlags = {FALSE}
INVARIANTS
    TdcaTypeOK
    InitialGroupsAreTrails
    NoTaskLost
    StateMatchesGroups
PROPERTY
    EndsWithValidSchedule
CHECK_DEADLOCK FALSE
