CONSTANTS
  Sectors = {1, 2}
  Addresses = {1, 2, 3}
  Values = {"a", "b"}
  QueueMax = 2
  QueueSizes = {0, 2, 3}
  IndexMod = 3
SPECIFICATION FairDriverSpec
INVARIANTS DriverTypeOK StopsOnlyIf
PROPERTIES RequestReturns ImplementsSectorDisk
CHECK_DEADLOCK FALSE
