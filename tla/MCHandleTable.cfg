SPECIFICATION Spec
CONSTANTS
  Threads = {t1, t2, t3, t4}
  Cap = 2
  MaxCorpora = 3
CHECK_DEADLOCK FALSE
INVARIANTS
  CountExact
  NoUseAfterFree
PROPERTY ImplementsLifetime
