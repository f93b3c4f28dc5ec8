SPECIFICATION Spec
CONSTANTS
  dyn = dyn
  fixed = fixed
  a = a
  b = b
  None = None
  Ops = {a, b}
  Builds = {dyn, fixed}
  Target <- MCTarget
  NoPorts = {}
  Hosts = 1
  PortLow = 1
  PortHigh = 4
  MaxInstances = 3
  Reserved = 1
  MaxContainers = 8
  Faults = {}
  MaxFaults = 0
  Overlap = TRUE
PROPERTY OwnershipOutlivesContainer
