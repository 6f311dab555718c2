CONSTANTS
  NoSem = NoSem
  NoThread = NoThread
  MainThread = main
  Threads = {main, t1, t2}
  Locks = {lock}
  Semaphores = {lock, main, t1, t2}
  Conditions = {c1, c2}
  MonitorLock = lock
  DefaultPriority = 10
SPECIFICATION FairSpec
INVARIANTS
  ConditionSafe
PROPERTIES
  ImplementsMesaMonitor
  SignalledThreadResumes
\* When every thread waits on a condition the machine halts.
CHECK_DEADLOCK FALSE
