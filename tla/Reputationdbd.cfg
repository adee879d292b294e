SPECIFICATION FairSpec
CONSTANTS
  H1 = H1
  H2 = H2
  Queries = {q1}
  FreeRequests = {f1, f2}
  Nobody = Nobody
  MaxPublications = 2
  Contents <- MCContents
  Hosts = {H1, H2}
  Batches <- MCBatches
  MaxBatch = 4
  MaxUploads = 2
  TTL = 1
  MaxActive = 2
INVARIANTS AnswersLineUp
PROPERTIES FreeFresh DrainLosesNothing Ends Answered
