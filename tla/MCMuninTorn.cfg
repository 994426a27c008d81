CONSTANTS
  Inodes = 5
  Blocks = 6
  BlockSize = 2
  Direct = 2
  Ptrs = 1
  Slots = 2
  Names = {"a", "bin", "docs", "readme"}
  InodeSectors = 2
  FirstSector <- MCFirst
  InFirst <- MCInFirst
  Paths <- MCPaths
  Len1 = 5
  Greeting = 2
  MaxCalls = 4
  MaxCuts = 2
\* At the bounds the system stays up, or off, for good.
CHECK_DEADLOCK FALSE
SPECIFICATION DiskSpec
INVARIANTS MountedIsValid
