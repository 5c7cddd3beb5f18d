SPECIFICATION Spec
CONSTANTS
    NumNodes = 2
    CorePerformance <- MCCorePerformance
    NumCores <- MCNumCores
    NetworkBandwidth <- MCNetworkBandwidth
    Memory <- MCMemory
    Scale = 2
    Workflows <- MCWorkflows
    MemoryFlags = {FALSE, TRUE}
INVARIANTS
    TypeOK
    PathIsCritical
    QueueInSync
PROPERTIES
    ImplementsListScheduling
    Terminates
CHECK_DEADLOCK FALSE
