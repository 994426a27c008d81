CONSTANTS
  Tasks = {t1, t2}
  NFd = 1
  Inodes = 3
  Blocks = 4
  BlockSize = 3
  Direct = 2
  Ptrs = 1
  Slots = 1
  Names = {"a", "b"}
  FilePaths <- MCFiles
  DirPaths <- MCDirs
  Lens = {4}
  Values = {1}
  FlagSets <- MCFlags
SYMMETRY Sym
SPECIFICATION Spec
INVARIANTS TypeOK FilesSound
PROPERTIES OnlyFailedCallsUnflushed ImplementsFileTree
