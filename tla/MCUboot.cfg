CONSTANTS
  Values = {v1, v2}
  Default = Default
  Bad = Bad
  Versions <- MCVersions
  Home <- MCHome
  KernelHome <- MCKernelHome
  FdtFlashAddr = 1
  Places <- MCPlaces
  Files <- MCFiles
  Words = 8
  Boards <- MCBoards
SPECIFICATION MCSpec
INVARIANTS
  EnvAtomic
  FlashKept
  UpdateCoherent
  RightPlace
  HandedOverWhole
PROPERTIES
  SavesAtomically
