CONSTANTS
  NoSem = NoSem
  MainThread = main
  Threads = {main, t1, t2, t3}
  Semaphores = {s1, disk}
  Devices = {disk}
  Priorities = {}
  DefaultPriority = 10
  InitialValue = 1
  MaxValue = 2
SPECIFICATION FairSpec
INVARIANTS
  TypeOK
  OnePlace
  NoLostWakeup
  DeviceHandshake
PROPERTY
  DeviceWaitEnds
\* Every thread may sleep for ever: Interrupt::Idle then halts the machine.
CHECK_DEADLOCK FALSE
