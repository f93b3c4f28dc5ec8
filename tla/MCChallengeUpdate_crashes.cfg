SPECIFICATION FairSpec
CONSTANTS
  b1 = b1
  b2 = b2
  i1 = i1
  i2 = i2
  None = None
  Builds = {b1, b2}
  Instances = {i1, i2}
  BuildOf <- TwoEach
  MaxVersion = 2
  HasArtifacts = {1}
  MaxContainers = 6
  MaxFailures = 1
  MaxCrashes = 2
INVARIANTS TypeOK DigestVouches NoDebris AlwaysOneActive KeepsRunning
PROPERTY UpdatesConverge
