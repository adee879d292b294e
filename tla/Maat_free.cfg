SPECIFICATION Spec
CONSTANTS
  Stores = {s1}
  Lookups = {q1}
  Versions = {v1, v2}
  NoVersion = NoVersion
  None = None
  Tier = "free"
  MayOmitVersion = FALSE
  Pinned = FALSE
  Unmappable = {}
  TooLarge = {}
  MaxPublishes = 2
INVARIANTS RightBytes
