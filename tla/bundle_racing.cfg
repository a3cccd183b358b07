SPECIFICATION Spec
CONSTANTS
  Unborn = Unborn
  Trashed = Trashed
  Overwritten = Overwritten
  Taken = Taken
  aPak = aPak
  aToc = aToc
  aCas = aCas
  bPak = bPak
  ext = ext
  root = root
  Folders = {root}
  Stems <- MCStems
  Files <- MCFiles
  InitialDisk <- MCDisk
  Requests <- MCRacing
  Procs = {p1, p2}
  AtomicMove = TRUE
  MaxCalls = 2
  MaxFailures = 1
  MaxRemovals = 1
INVARIANT TypeOK
INVARIANT NoFileOverwritten
PROPERTY SuccessIsWhole
