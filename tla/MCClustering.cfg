SPECIFICATION Spec
CONSTANTS
    NumNodes = 3
    CorePerformance <- MCCorePerformance
    NumCores <- MCNumCores
    NetworkBandwidth <- MCNetworkBandwidth
    Memory <- MCMemory
    Scale = 2
    BagInputs <- MCBags
    Workflows <- MCWorkflows
    Algorithms <- MCBoth
INVARIANTS
    TypeOK
    GroupsDivideBag
    MoreWorkOnFasterNodes
    BagOrderDecides
PROPERTIES
    ImplementsListScheduling
    Terminates
CHECK_DEADLOCK FALSE
