SPECIFICATION FairSpec
CONSTANTS
  NoRoot = NoRoot
  Roots = {r1, r2, gone}
  Gone = {gone}
  NotDirs = {}
  Writers = {w1}
  MaxChanges = 2
  MaxErrors = 1
  MaxMutations = 2
  MaxClicks = 2
INVARIANT TypeOK
INVARIANT RootWatched
INVARIANT OwnWritesSilent
PROPERTY CancelledStaysSilent
PROPERTY ChangesAnnounced
CHECK_DEADLOCK FALSE
