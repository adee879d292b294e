SPECIFICATION PublishSpec
CONSTANTS
  MaxVersions = 2
  None = None
  Publishers = {p1, p2}
  Versions = {v1, v2, v3}
  MaxRuns = 4
SYMMETRY VersionSymmetry
INVARIANTS NeverDangling IndexWellFormed IndexIsRecent
CHECK_DEADLOCK FALSE
