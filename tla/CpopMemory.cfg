SPECIFICATION Spec
CONSTANTS
    NumNodes = 2
    CorePerformance <- MCCorePerformance
    NumCores <- MCNumCores
    NetworkBandwidth <- MCNetworkBandwidth
    Memory <- MCMemory
    Scale = 2
    Workflows <- MCFittingWorkflows
    MemoryFlags = {TRUE}
INVARIANT MemoryRespected
CHECK_DEADLOCK FALSE
