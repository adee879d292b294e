SPECIFICATION Spec
CONSTANTS
  S1 = S1
  K1 = K1
  K2 = K2
  D1 = D1
  D2 = D2
  Vpn = Vpn
  Hosted = Hosted
  Anonymous = Anonymous
  Clean = Clean
  Datacenter = Datacenter
  None = None
  Categories = {Datacenter, Vpn}
  Servers = {S1}
  Keys = {K1, K2}
  Dirs = {D1, D2}
  Configs <- MCRotation
  Truth <- MCTruth
  Proxy = Hosted
  Clients <- MCClients
  Requests = {r1}
  StoreIds = {1, 2, 3, 4}
INVARIANTS StoreAsConfigured
