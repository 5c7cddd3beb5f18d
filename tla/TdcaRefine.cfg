SPECIFICATION TdcaSpec
CONSTANTS
    NumNodes = 2
    CorePerformance <- MCOne
    NumCores <- MCOne
    NetworkBandwidth <- MCOne
    Memory <- MCOne
    Scale = 1
    Workflows <- MCSharedNode
    MemoryFlags = {FALSE}
PROPERTY TaskLeavesItsNode
CHECK_DEADLOCK FALSE
