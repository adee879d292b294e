SPECIFICATION Spec
CONSTANTS
  Stores = {s1, s2}
  Lookups = {q1}
  Versions = {v1, v2}
  NoVersion = NoVersion
  None = None
  Tier = "full"
  MayOmitVersion = FALSE
  Pinned = TRUE
  Unmappable = {}
  TooLarge = {}
  MaxPublishes = 2
INVARIANTS NoUseAfterUnmap RightBytes
