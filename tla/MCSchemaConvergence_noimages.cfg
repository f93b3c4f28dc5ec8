SPECIFICATION Spec
CONSTANTS
  a = a
  b = b
  c = c
  None = None
  Keys = {a, b, c}
  Definitions <- DynamicOrNot
  Deployed <- OnlyDynamic
  Kinds = {"update"}
  MaxInstances = 2
  Faults = {"crash"}
  MaxFaults = 1
INVARIANT ActiveBuildsRunnable
