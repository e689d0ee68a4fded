SPECIFICATION CacheSpec
CONSTANTS
  Process = {p, q}
  Saver = {p, q}
  Cache = {c1, c2}
  Inode = {i1, i2, i3, i4, i5, i6}
  Null = Null
  Zero = Zero
INVARIANT NoTornView
CHECK_DEADLOCK FALSE
