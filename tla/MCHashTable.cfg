SPECIFICATION Spec
CONSTANTS
  Keys <- MCKeys
  Values = {v1, v2}
  NoKey = NoKey
  NoValue = NoValue
  Hashes <- MCHashes
  MinCap = 4
INVARIANTS
  RobinHood
  FreeSlotExists
  ReinsertionFits
PROPERTY ImplementsMap
