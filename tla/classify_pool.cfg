SPECIFICATION FairSpec
CONSTANTS
  a = a
  b = b
  c = c
  Entries = {a, b, c}
  Calls <- MCCalls
  Enabled = {a, b, c}
  Changing = {a}
  Priority <- MCPriority
  Listing <- MCListing
  Cores = 6
  Tiers <- MCTiers
  TopCap = 3
  Slots = {1, 2}
  MaxCalls = 2
  MaxChanges = 1
  MaxFailures = 2
INVARIANT ServedFresh
INVARIANT NoOrphans
INVARIANT ConflictsRight
PROPERTY ClassifyReturns
CHECK_DEADLOCK FALSE
