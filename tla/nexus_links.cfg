SPECIFICATION FairSpec
CONSTANTS
  c1 = c1
  c2 = c2
  f1 = f1
  Clicks = {c1, c2}
  Files = {f1}
  FileOf <- MCFileOf
  Downloads = {k1, k2}
  Nothing = Nothing
  MaxNetFailures = 1
INVARIANT NothingLeft
INVARIANT CancelledFails
PROPERTY LinkTaken
CHECK_DEADLOCK FALSE
