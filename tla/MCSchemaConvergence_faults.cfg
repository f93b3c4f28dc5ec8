SPECIFICATION FairSpec
CONSTANTS
  a = a
  b = b
  c = c
  None = None
  Keys = {a, b, c}
  Definitions <- ThreeDefinitions
  Deployed <- OnlyBigger
  Kinds = {"create", "update", "delete"}
  MaxInstances = 2
  Faults = {"docker", "db", "crash"}
  MaxFaults = 3
INVARIANTS WholeDefinition OnlyFinishedServe ConvergedExactly
PROPERTIES PriorCapacityKept RetriesConverge
