SPECIFICATION Spec
CONSTANTS
    NumNodes = 3
    CorePerformance <- MCCorePerformance
    NumCores <- MCNumCores
    NetworkBandwidth <- MCNetworkBandwidth
    Memory <- MCMemory
    Scale = 2
    BagInputs <- MCSimilarBags
    Workflows <- MCSimilarWorkflows
    Algorithms <- MCBoth
PROPERTIES
    MostSimilarAdded
CHECK_DEADLOCK FALSE
