CONSTANTS
  NoSem = NoSem
  NoThread = NoThread
  NoMessage = NoMessage
  MainThread = main
  Threads = {main, a, b, c}
  Messages = {main, a, b, c}
  Ports <- JoinPorts
  Locks <- JoinPorts
  Conditions <- JoinConditions
  Semaphores <- JoinSemaphores
  DefaultPriority = 10
SPECIFICATION FairSpec
CHECK_DEADLOCK FALSE
INVARIANTS
  ThreadsSafe
PROPERTIES
  ExitsComplete
  ImplementsProcessTree
