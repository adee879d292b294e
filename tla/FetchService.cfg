SPECIFICATION FetchSpec
CONSTANTS
  MaxVersions = 1
  None = None
  Publishers = {p1}
  Versions = {v1, v2}
  MaxRuns = 2
  Requests = {r1, r2}
  Malformed = Malformed
  TTL = 2
SYMMETRY Symmetric
INVARIANTS NeverBackwards NoLostLock DownloadsNeverLost ProvenanceIsLast
PROPERTIES AnswersFresh
