SPECIFICATION Spec
CONSTANTS
  Counts <- MCCounts
  WorkerOpts <- MCWorkerOpts
  DefaultWorkers = 2
  MaxHelpers = 3
INVARIANTS
  ReturnedMeansAllDone
  NoSharedSlot
  OverrunBounded
PROPERTY
  Implements
