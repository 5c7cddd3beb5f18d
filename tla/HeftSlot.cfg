SPECIFICATION Spec
CONSTANTS
    NumNodes = 2
    CorePerformance <- MCCorePerformance
    NumCores <- MCNumCores
    NetworkBandwidth <- MCNetworkBandwidth
    Memory <- MCMemory
    Scale = 2
    Workflows <- MCGapWorkflows
    MemoryFlags = {TRUE}
PROPERTY SlotIsEarliest
CHECK_DEADLOCK FALSE
