CONSTANTS
    InputBits = 10
    OutputBits = 10
    Compute <- ModelCompute
    Body <- ModelBody
    ClocksPerBaud = 4
    Strategies = {"ice40"}
    Devices <- OneDevice
    Bytes <- ModelBytes
    MaxBytes <- OneRequest
SPECIFICATION IoSpec
INVARIANT HostReceivesReplies
