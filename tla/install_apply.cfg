SPECIFICATION Spec
CONSTANTS
  s1 = s1
  s2 = s2
  zip = zip
  near = near
  far = far
  n1 = n1
  n2 = n2
  sub = sub
  Root = Root
  None = None
  Torn = Torn
  Old = Old
  Foreign = Foreign
  Sessions = {s1, s2}
  Archives = {zip}
  Folders = {near, far}
  Holds <- MCHolds
  Selected <- MCSelected
  Nexus = {s2}
  Names = {n1, n2}
  FolderOf <- MCFolderOf
  Start <- MCStart
  Offers <- MCOffers
  MaxFailures = 2
  MaxForeign = 1
INVARIANT StagedComplete
INVARIANT OldSafe
PROPERTY CleanRollback
PROPERTY SuccessIsWhole
CHECK_DEADLOCK FALSE
