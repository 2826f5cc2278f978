SPECIFICATION Spec
CONSTANTS
  Size = 3
  MaxChars = 4
  MaxRuns = 2
  MaxDebt = 2
INVARIANTS
  IndicesInArray
  CountNeverNegative
CHECK_DEADLOCK FALSE
