SPECIFICATION StructSpec
CONSTANTS
  Keys <- MCKeys
  Slots = {0, 1}
  MaxCollisions = 2
  MaxDepth = 4
  Versions = {1, 2}
  MaxEdits <- MCEdits
  NoRoot = NoRoot
  None = None
  c1 = c1
  c2 = c2
  Groups <- MCGroups
  ChunkSize = 3
  Sizes = {1, 2, 4}
  MaxBatch = 2
  MaxMessages = 4
  MaxFailures = 1
  MaxDropped = 1
  Devices = {d1, d2}
  Names = {a, b}
  MaxPerChunk = 1
  MaxNodes = 4
  MaxDirOps = 4
  MaxFileOps = 3
SYMMETRY Sym
INVARIANTS ChampExact MergesAsMaps LogReads ContentsExact NothingLost PathsAgree
CHECK_DEADLOCK FALSE
