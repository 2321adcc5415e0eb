SPECIFICATION BlockSpec
CONSTANTS
  Ins <- MCIns
  Outs <- MCOuts
  Blocks <- MCBlocks
  MaxItems = 3
  MaxResets = 1
INVARIANTS
  ComputesProc
  IdleMeansDrained
PROPERTIES
  OutputsHeld
  EverythingSent
