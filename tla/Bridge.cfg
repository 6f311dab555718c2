\* One car against three, on a bridge for two.
CONSTANTS
  NoSem = NoSem
  NoThread = NoThread
  MainThread = 0
  N0 = 1
  N1 = 3
  Car_Lock = car_lock
  CV_DIR0_LOCK = cvd0lock
  CV_DIR1_LOCK = cvd1lock
  CV_DIR0 = cvd0
  CV_DIR1 = cvd1
  Threads <- BridgeThreads
  Locks <- BridgeLocks
  Conditions <- BridgeConditions
  Semaphores <- BridgeSemaphores
  MAX_LOAD = 2
  DefaultPriority = 10
SPECIFICATION Spec
CHECK_DEADLOCK FALSE
INVARIANTS
  BridgeSafe
