SPECIFICATION FairSpec
CONSTANTS
  Stores = {s1}
  Lookups = {q1}
  Versions = {v1, v2, v3, v4}
  NoVersion = NoVersion
  None = None
  Tier = "free"
  MayOmitVersion = TRUE
  Pinned = TRUE
  Unmappable = {v3}
  TooLarge = {v4}
  MaxPublishes = 2
INVARIANTS NoMappingLeak ServedFileKept
PROPERTIES KeepsServing ImplementsSnapshotStore EventuallyFresh
