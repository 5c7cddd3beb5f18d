SPECIFICATION TimesSpec
CONSTANTS
    NumNodes = 2
    CorePerformance <- MCCorePerformance
    NumCores <- MCNumCores
    NetworkBandwidth <- MCNetworkBandwidth
    Memory <- MCMemory
    Scale = 2
    Workflows <- MCWorkflows
    MemoryFlags = {FALSE}
INVARIANTS
    TimesTypeOK
    BestNodeHasBestEft
    NeverBeforeEst
    CriticalTrailIsTight
CHECK_DEADLOCK FALSE
