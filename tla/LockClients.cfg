CONSTANTS
  NoSem = NoSem
  NoThread = NoThread
  MainThread = main
  Threads = {main, t1, t2}
  Semaphores = {l1}
  Locks = {l1}
  Priorities = {10, 11, 12}
  DefaultPriority = 10
SPECIFICATION LockSpec
INVARIANTS
  LockSafe
  PriorityRestored
  ReadyListSorted
PROPERTY
  ImplementsLock
CHECK_DEADLOCK FALSE
