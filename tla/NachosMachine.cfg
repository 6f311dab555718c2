SPECIFICATION Spec
\* Files, requests and programs run out.
CHECK_DEADLOCK FALSE
INVARIANTS
  FileSystemSafe
  MachineExact
  CallsSafe
  DiskOnTime
  DevicesInOrder
