CONSTANTS
  Arena = 240
  Header = 24
  Sizes = {0, 9, 30}
  StructSize = 8
  StackSize = 24
SPECIFICATION Spec
INVARIANTS TypeOK ListSound FailsOnlyWhenFull
PROPERTIES PairsStable ImplementsAllocator
