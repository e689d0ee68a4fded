SPECIFICATION SearchSpec
CONSTANTS
  Requests <- MCRequests
  Workers = 2
  Cap = 4
  Chunks = 2
  ScanLimit = 5
  WordDocs = 2
INVARIANTS
  BestReturned
  AnsweredInFull
  FastStaysInIndex
  OnlyProxLeaks
