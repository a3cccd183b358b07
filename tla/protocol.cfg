SPECIFICATION Spec
CONSTANTS
  plain = plain
  other = other
  rich = rich
  bare = bare
  rest = rest
  Apps <- MCApps
  Parts = {rest, blank}
  Blank = blank
  Stored <- MCStored
  Self = Self
  None = None
  Calls = {p1, p2}
  MaxCalls = 5
  MaxForeign = 2
  MaxFailures = 2
SYMMETRY Symmetric
PROPERTY OptOutRespected
PROPERTY OwnerReturned
CHECK_DEADLOCK FALSE
