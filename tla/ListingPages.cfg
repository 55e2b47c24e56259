\* Four rows, three values to sort by, two changes while pages of one or two
\* rows are read.
SPECIFICATION Spec
CONSTANTS
  Rows = {x1, x2, x3, x4}
  Keys = {1, 2, 3}
  Facets = {mine, other}
  Own = {mine}
  IsSuperuser = FALSE
  MaxLimit = 2
  MaxSkip = 1
  MaxWrites = 2
SYMMETRY Symmetry
CHECK_DEADLOCK FALSE
INVARIANTS
  OnlyShiftsHide
  OnlyEntriesRepeat
  PageFitsTotal
  PageNumbersAgree
