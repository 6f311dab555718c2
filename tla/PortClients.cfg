CONSTANTS
  NoSem = NoSem
  NoThread = NoThread
  NoMessage = NoMessage
  MainThread = s1
  Threads = {s1, s2, r1, r2}
  ThePort = port
  Ports = {port}
  Locks = {port}
  Semaphores = {port, s1, s2, r1, r2}
  Conditions <- PortConditions
  Messages = {s1, s2}
  Senders = {s1, s2}
  Receivers = {r1, r2}
  DefaultPriority = 10
SPECIFICATION Spec
CHECK_DEADLOCK FALSE
INVARIANTS
  PortSafe
PROPERTY
  ImplementsRendezvous
