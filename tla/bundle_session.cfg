SPECIFICATION Spec
CONSTANTS
  Unborn = Unborn
  Trashed = Trashed
  Overwritten = Overwritten
  Taken = Taken
  aPak = aPak
  aToc = aToc
  aCas = aCas
  bPak = bPak
  ext = ext
  root = root
  Folders = {root}
  Stems <- MCStems
  Files <- MCQuietFiles
  InitialDisk <- MCDisk
  Requests <- MCSession
  Procs = {p1}
  AtomicMove = FALSE
  MaxCalls = 4
  MaxFailures = 2
  MaxRemovals = 0
PROPERTY FailureIsAtomic
PROPERTY AtomicCalls
