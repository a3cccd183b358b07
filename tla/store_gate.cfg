SPECIFICATION FairSpec
CONSTANTS
  Staged = Staged
  Missing = Missing
  Damaged = Damaged
  Nobody = Nobody
  Procs = {p1, p2}
  Changes = {c1, c2}
  Restorers = {p2}
  MaxDamage = 1
  MaxFailures = 1
  MaxCrashes = 1
INVARIANT TypeOK
INVARIANT Durable
INVARIANT AtMostOneLost
PROPERTY OneDocument
PROPERTY CallsReturn
