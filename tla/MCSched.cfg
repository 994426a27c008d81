CONSTANTS
  Pairs = 2
  Loose = 0
  Spaces = {s1, s2, s3, s4}
  KSpace = ks
  MaxTasks = 4
  MaxSleep = 2
  Spawned = 1
  KThreads = 1
SPECIFICATION FairSpec
INVARIANTS TypeOK RingSound WaiterHasChild SpacesSound OwnKernelStack SleepHonoured
PROPERTIES ReapSparesCurrent ImplementsTaskLife ReadyRuns ExitsNoticed SleepersWake
