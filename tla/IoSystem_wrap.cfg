CONSTANTS
    InputBits = 10
    OutputBits = 10
    Compute <- ModelCompute
    Body <- ModelBody
    ClocksPerBaud = 4
    Strategies = {"null", "ice40"}
    Devices <- ModelDevices
    Bytes <- ModelBytes
    MaxBytes <- ModelMaxBytes
SPECIFICATION IoSpec
INVARIANTS
    RequestsDecoded
    RepliesInOrder
    OutputReadyHeld
    BytesDelivered
PROPERTY EverythingGetsThrough
