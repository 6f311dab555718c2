CONSTANTS
  Width = 4
  Few = {0, 5}
  MaxSteps = 3
SPECIFICATION Spec
CHECK_DEADLOCK FALSE
INVARIANT
  AsInTheBook
