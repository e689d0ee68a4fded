SPECIFICATION Spec
CONSTANTS
  Threads = {t1, t2}
  NoThread = NoThread
  Shutter = Shutter
  Kinds <- MCAllKinds
  MaxCalls = 3
  MaxShutdowns = 1
CHECK_DEADLOCK FALSE
INVARIANTS
  NoUseAfterFree
  ReadsPublished
  MapAvailable
  OneTableEach
PROPERTIES
  ShutdownReturns
  CallsReturn
