CONSTANTS
  FrameSize = 4
  Entries = 2
  Maps <- MCMaps
  LowEnd = 8
  KernelStart = 12
  KernelEnd = 18
  HeapPages = 1
  Programs <- MCPrograms
  Stack <- MCStack
  Data <- MCData
  MaxSpaces = 2
  MaxMade = 4
\* At MaxMade, once all the processes have exited, nothing more happens.
CHECK_DEADLOCK FALSE
SPECIFICATION Spec
INVARIANTS TypeOK BitmapSound FramesOwned
PROPERTIES ImplementsUserMemory
