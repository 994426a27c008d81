CONSTANTS
  Pairs = 3
  Loose = 0
  Spaces = {s1, s2, s3, s4}
  KSpace = ks
  MaxTasks = 4
  MaxSleep = 0
  Spawned = 1
  KThreads = 0
SPECIFICATION Spec
SYMMETRY SpaceSymmetry
INVARIANTS WaitOnlyForOwnChild
