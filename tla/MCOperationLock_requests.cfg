SPECIFICATION FairSpec
CONSTANTS
  p = p
  q = q
  p1 = p1
  p2 = p2
  q1 = q1
  None = None
  Managers = {p, q}
  Threads = {p1, p2, q1}
  ManagerOf <- MCManagerOf
  InMemory = {}
INVARIANTS ExclusiveAlone NoLeakedLock
PROPERTIES NoBypass ImplementsBarrier RequestsAnswered StartupDoesNotWait
