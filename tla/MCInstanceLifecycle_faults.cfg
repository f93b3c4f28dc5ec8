SPECIFICATION Spec
CONSTANTS
  dyn = dyn
  fixed = fixed
  a = a
  b = b
  None = None
  Ops = {a, b}
  Builds = {dyn, fixed}
  Target <- MCTarget
  NoPorts = {}
  Hosts = 1
  PortLow = 1
  PortHigh = 3
  MaxInstances = 4
  Reserved = 1
  MaxContainers = 6
  Faults = {"docker", "db", "crash", "lose"}
  MaxFaults = 2
  Overlap = FALSE
SYMMETRY RequestSymmetry
INVARIANTS RunningTracked ActiveNotRetired PortsRecorded PortsExclusive
PROPERTY FollowsLedger
