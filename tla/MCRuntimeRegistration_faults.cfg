SPECIFICATION Spec
CONSTANTS
  c1 = c1
  c2 = c2
  i1 = i1
  i2 = i2
  runc = runc
  empty = empty
  clashing = clashing
  broken = broken
  NoFile = NoFile
  None = None
  Commands = {c1, c2}
  Interceptors = {i1, i2}
  Foreign <- MCForeign
  Bases = {empty, clashing, broken}
  Empty = empty
  Parses = {empty, clashing}
  ValidAlone = {empty, clashing}
  ValidMerged = {empty}
  Validation = TRUE
SYMMETRY CommandSymmetry
INVARIANTS SettingsKept RegisteredStays DaemonFollows
PROPERTIES RollbackComplete TweakNotOmitted
