SPECIFICATION Spec
CONSTANTS
  a = a
  b = b
  w1 = w1
  w2 = w2
  NoToken = NoToken
  Null = Null
  Garbage = Garbage
  Token = {a, b}
  Docs <- MCDocs
  Batches <- MCBatches
  Workers = {w1, w2}
  Chunk = 1
  SeenInitCap = 1
  InitDocCap = 2
  MaxTokens = 2
  MaxEntries = 2
  MaxDocs = 3
  MaxCalls = 1
PROPERTY
  RejectedMapFilled
CHECK_DEADLOCK FALSE
