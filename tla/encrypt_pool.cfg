SPECIFICATION FairSpec
CONSTANTS
  w1 = w1
  w2 = w2
  m1 = m1
  m2 = m2
  Mods = {m1, m2}
  Workers = {w1, w2}
  Batches <- MCBatches
  Start <- MCStart
  None = None
  Torn = Torn
  MaxCalls = 2
  MaxFailures = 1
  MaxKills = 1
INVARIANT Recoverable
INVARIANT ReportsHonest
PROPERTY CallReturns
CHECK_DEADLOCK FALSE
