CONSTANTS
  Spaces = {"s1", "s2"}
  NumPhysPages = 2
  numPages = 2
  PageSize = 2
  codeAddr = 0
  codeSize = 1
  dataAddr = 1
  dataSize = 2
  ArgAddress = 3
  Written = {3}
  MaxPrograms = 2
SPECIFICATION Spec
CHECK_DEADLOCK FALSE
INVARIANT
  NothingForgotten
