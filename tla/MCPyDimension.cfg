SPECIFICATION StartupSpec
CONSTANTS
  Obj = {a, b}
  Built = {a}
  MaxDim = 768
  MaxAdds = 2
  Reports <- MCReports
  None = None
INVARIANT HeaderTellsDimension
CHECK_DEADLOCK FALSE
