CONSTANTS
  NoSem = NoSem
  NoThread = NoThread
  NoMessage = NoMessage
  MainThread = main
  Threads = {main, a, b, c}
  Messages = {main, a, b, c}
  Ports <- JoinPorts
  Locks <- JoinPorts
  Conditions <- JoinConditions
  Semaphores <- JoinSemaphores
  DefaultPriority = 10
SPECIFICATION Spec
CHECK_DEADLOCK FALSE
INVARIANT
  FinishedIsDestroyed
