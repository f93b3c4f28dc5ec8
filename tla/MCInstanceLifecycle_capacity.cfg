SPECIFICATION Spec
CONSTANTS
  dyn = dyn
  fixed = fixed
  a = a
  b = b
  None = None
  Ops = {a}
  Builds = {dyn, fixed}
  Target <- MCTarget
  NoPorts = {}
  Hosts = 1
  PortLow = 1
  PortHigh = 4
  MaxInstances = 3
  Reserved = 1
  MaxContainers = 8
  Faults = {"docker", "lose"}
  MaxFaults = 2
  Overlap = FALSE
PROPERTY RecoveryRestoresCapacity
