SPECIFICATION Spec
CONSTANTS
    NumNodes = 2
    CorePerformance <- MCCorePerformance
    NumCores <- MCNumCores
    NetworkBandwidth <- MCNetworkBandwidth
    Memory <- MCMemory
    Scale = 2
    Workflows <- MCWorkflows
    MemoryFlags = {FALSE, TRUE}
    Selections = {"", "none", "cpop", "typo"}
    Files <- MCFiles
    SizeValues = 8
INVARIANTS
    AssignmentDecides
    MatrixFollowsAssignment
PROPERTY ImplementsListScheduling
CHECK_DEADLOCK FALSE
