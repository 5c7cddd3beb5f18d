SPECIFICATION Spec
CONSTANTS
    NumNodes = 2
    CorePerformance <- MCCorePerformance
    NumCores <- MCNumCores
    NetworkBandwidth <- MCDifferentBandwidth
    Memory <- MCMemory
    Scale = 2
    Workflows <- MCWorkflows
    MemoryFlags = {FALSE}
INVARIANTS
    TypeOK
    NoOverlap
    PrecedenceRespected
    IndicesAgree
    CompleteIsValid
    MakespanIsLatestEnd
PROPERTIES
    PlacedStays
    NeverWorseThanAppending
CHECK_DEADLOCK FALSE
