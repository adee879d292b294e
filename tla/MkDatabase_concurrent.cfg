SPECIFICATION Spec
CONSTANTS
  wide = wide
  net = net
  host = host
  solo = solo
  a1 = a1
  a2 = a2
  local = local
  datacenter = datacenter
  abuse = abuse
  vpn = vpn
  tor = tor
  None = None
  Prefix <- MCPrefix
  Addr = {a1, a2, local}
  Reserved = {local}
  Covers <- MCCovers
  Collapse <- MCCollapse
  InsertionMax = 6
  Hosts = {host, solo}
  Global = 2
  Builds = {b1, b2}
  Category = {datacenter, abuse, vpn, tor}
  Selections <- MCSelections
  RepoLists <- MCRepoLists
  HttpCategory = datacenter
  HttpProviders = {1, 2}
  ASCategories <- MCASCategories
  FileCategory = tor
  Upstreams <- MCUpstreams
  CacheMaxAge = 2
  MaxTime = 2
  MaxRunning = 2
SYMMETRY Symmetry
PROPERTIES Complete
CHECK_DEADLOCK FALSE
