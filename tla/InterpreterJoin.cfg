SPECIFICATION Spec
CONSTANTS
    none = none
    NumProcs = 2
    Program <- JoinProgram
    Channels <- JoinChannels
    Inputs <- JoinInputs
    Outputs <- JoinOutputs
    SingleValue <- JoinSingleValue
    InitialValues <- JoinInitialValues
    Values <- MCValues
    Zero = 0
    NoData = none
    InitState <- MCInitState
    SentValue <- MCSentValue
    NextState <- MCNextState
    OutputCounts <- MCOutputCounts
    MaxTicks = 2
    MaxQueued = 2
PROPERTIES
    TickRunsToFixpoint
    CallsReturn
    ImplementsNetwork
