SPECIFICATION PySpec
CONSTANTS
  Obj = {a, b}
  Built = {a}
  MaxDim = 768
  MaxAdds = 2
  Reports <- MCReports
  None = None
INVARIANTS AnswersAgree SavedLabelsOfOwnCall
CHECK_DEADLOCK FALSE
