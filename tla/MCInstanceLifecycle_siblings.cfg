SPECIFICATION FairSpec
CONSTANTS
  dyn = dyn
  fixed = fixed
  a = a
  b = b
  None = None
  Ops = {a, b}
  Builds = {dyn, fixed}
  Target <- MCTarget
  NoPorts = {fixed}
  Hosts = 2
  PortLow = 1
  PortHigh = 2
  MaxInstances = 4
  Reserved = 1
  MaxContainers = 6
  Faults = {"docker", "crash", "exit"}
  MaxFaults = 1
  Overlap = FALSE
INVARIANT NetworksTracked
PROPERTIES OwnershipOutlivesContainer RecoverySettles RequestsEnd RetiredRemoved
