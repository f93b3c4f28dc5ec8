SPECIFICATION FairSpec
CONSTANTS
  p = p
  q = q
  r = r
  Processes = {p, q, r}
  Databases <- MCDatabases
  MaxFaults = 2
INVARIANTS MigrationRecoverable ServesValidated
PROPERTIES StartupEnds LoneStartServes
