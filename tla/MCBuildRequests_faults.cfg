SPECIFICATION Spec
CONSTANTS
  a = a
  b = b
  s1 = s1
  s2 = s2
  l1 = l1
  l2 = l2
  t1 = t1
  t2 = t2
  port = port
  None = None
  Threads = {a, b}
  Keys <- MCKeys
  Locks = {l1, l2}
  Schemas = {s1, s2}
  MaxSeeds = 2
  PortPath = port
  MaxBuilds = 2
  MaxInstances = 2
  Temps = {t1, t2}
  MaxConcurrentBuilds = 1
  MaxFaults = 1
INVARIANTS KeyExclusive FinishedIntact NothingLeft SolversTracked
SYMMETRY MCSymmetry
