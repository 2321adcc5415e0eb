SPECIFICATION Spec
CONSTANTS
    none = none
    NumProcs = 2
    Program <- LoopProgram
    Channels <- LoopChannels
    Inputs <- LoopInputs
    Outputs <- LoopOutputs
    SingleValue <- LoopSingleValue
    InitialValues <- LoopInitialValues
    Values <- MCValues
    Zero = 0
    NoData = none
    InitState <- MCInitState
    SentValue <- MCSentValue
    NextState <- MCNextState
    MaxQueued = 2
CHECK_DEADLOCK FALSE
INVARIANTS
    SerialOperation
    TickSettles
PROPERTIES
    CallsReturn
    DataUnblocks
    ImplementsNetwork
