SPECIFICATION Spec
CONSTANTS
  EntryCounts <- MCEntryCounts
  DocCounts <- MCDocCounts
  MaxCalls = 2
CHECK_DEADLOCK FALSE
INVARIANTS
  NoBadFree
  NoLeak
  ExactlyOneRepresentation
  FailureGivesBack
  DocsMatchEnriched
