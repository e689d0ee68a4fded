SPECIFICATION Spec
CONSTANTS
  Inputs <- MCInputs
  BatchCap = 3
  MaxDocs = 4
CHECK_DEADLOCK FALSE
INVARIANTS
  TotalExact
  CountsAddUp
