SPECIFICATION Spec
CONSTANTS
  base = base  e = e  file = file  f0 = f0  f1 = f1  g = g  g0 = g0
  None = None
  Files <- MCFiles
  Dirs = {e}
  Base = base
  DirOf <- MCDirOf
  SortedFiles <- MCSortedFiles
  RemoteOrder <- MCRemoteOrder
  Candidates <- MCCandidates
  Contents <- Shorter
  Start <- ShorterStart
  Settings <- ShorterSettings
  BaseIsRoot = FALSE
INVARIANT WholeContents
