SPECIFICATION PySpec
CONSTANTS
  Obj = {a}
  Built = {a}
  MaxDim = 256
  MaxAdds = 2
  Reports <- MCReports
  None = None
INVARIANT SavedLabelsOwn
CHECK_DEADLOCK FALSE
