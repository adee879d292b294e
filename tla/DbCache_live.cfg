SPECIFICATION FairSpec
CONSTANTS
  Versions = {v1, v2, v3, v4}
  None = None
  Loop = run
  Callers = {}
  Queries = {q1}
  MaxPublishes = 2
  Unmappable = {v3}
  TooLarge = {v4}
  Unstamped = {}
  RemovalMayFail = TRUE
INVARIANTS ClosedReleases
PROPERTIES EventuallyFresh CloseReturns
