SPECIFICATION FairSpec
CONSTANTS
  oldMod = oldMod
  oldDir = oldDir
  newMod = newMod
  newDir = newDir
  newer = newer
  outMod = outMod
  outDir = outDir
  s1 = s1
  s2 = s2
  Nobody = Nobody
  Items <- MCItems
  NameOf <- MCName
  Dirs <- MCDirs
  OldItems <- MCOld
  Sessions = {s1, s2}
  Staged <- MCStaged
  SameVolume = TRUE
  MaxFailures = 1
  MaxLeftovers = 1
  MaxTaken = 1
  MaxCancels = 1
  MaxCrashes = 1
INVARIANT TypeOK
INVARIANT RetryMeansComplete
PROPERTY NothingLost
PROPERTY CancelledMeansIntact
PROPERTY SuccessIsWhole
PROPERTY RestoreSucceeds
CHECK_DEADLOCK FALSE
