SPECIFICATION Spec
CONSTANTS
  Ops <- ModelOps
  SideEffecting <- ModelSideEffecting
  Commutative <- ModelCommutative
  OperandTypes <- ModelOperandTypes
  Type <- ModelType
  Delay <- ModelDelay
  Meaning <- ModelMeaning
  Options <- ModelOptions
  NoBound = 1000
  MaxNodes = 4
  MaxEdits = 1
INVARIANTS
  UsersMatchOperands
  TopoSortSorts
  MeaningPreserved
  PassesExact
  ScheduleValid
  FailureMeansInfeasible
