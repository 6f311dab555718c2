CONSTANTS
  Missionaries = {"m1", "m2", "m3"}
  Cannibals = {"c1", "c2"}
  max_crossings = 3
  Elves = {"e1", "e2", "e3", "e4"}
  Deer = {"d1", "d2"}
  Deliveries = 1
  num_procs = 4
  MaxCount = 6
  MsgLen = 4
  WINDOW = 3
  GiveUp = 2
  MaxTimeouts = 2
  MaxFaults = 2
  MaxClients = 3
  MaxTime = 2
  Initial = 1
  MAX_CONN = 2
  TIMEOUT = 1
  Spaces = {"s1", "s2"}
  NumPhysPages = 2
  numPages = 2
  PageSize = 2
  codeAddr = 0
  codeSize = 1
  dataAddr = 1
  dataSize = 2
  ArgAddress = 3
  Written = {3}
  MaxPrograms = 2
  FileUsers = {"t1", "t2"}
  SectorSize = 2
  fileLength = 3
  MaxWrites = 1
SPECIFICATION Spec
\* The programs end.
CHECK_DEADLOCK FALSE
INVARIANTS
  BoatSafe
  SantaSafe
  OneToken
  AcksAreHonest
  CountTellsThreads
  MemorySafe
  FileKept
PROPERTIES
  ElvesGetHelp
  ProgramsEnd
