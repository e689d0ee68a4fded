SPECIFICATION CacheSpec
CONSTANTS
  Process = {p, r}
  Saver = {p}
  Cache = {c1, c2}
  Inode = {i1, i2, i3, i4}
  Null = Null
  Zero = Zero
PROPERTIES OldCacheSurvives ImplementsPath
CHECK_DEADLOCK FALSE
