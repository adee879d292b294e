---------------------------- MODULE MCMaatMatcher ----------------------------
EXTENDS MaatMatcher, TLC

CONSTANTS S1, K1, K2, D1, D2, Vpn, Hosted, Anonymous, Clean

Setting(server, categories, key, dir) ==
  [server |-> server, categories |-> categories, apiKey |-> key, dir |-> dir]

Free == Setting(S1, {Datacenter}, None, D1)
Anything == Setting(S1, {}, K1, D1)
Vpns == Setting(S1, {Vpn}, K1, D2)
Rotated == Setting(S1, {Datacenter, Vpn}, K2, D1)
BadServer == Setting(None, {Datacenter}, None, D1)
BadCategory == Setting(S1, {None}, K1, D1)
MissingKey == Setting(S1, {Vpn}, None, D1)

\* Alone, sharing a store, on different stores, and with a matcher that is
\* refused before or after one that is not.
MCConfigs ==
  {<< >>, <<Free>>, <<Anything>>, <<Rotated>>, <<Free, Anything>>, <<Anything, Vpns>>,
   <<Rotated, Rotated>>, <<BadServer>>, <<MissingKey>>, <<Anything, MissingKey>>,
   <<Free, BadCategory>>}

\* A reload that does nothing but rotate the key.
MCRotation == {<< >>, <<Anything>>, <<Rotated>>}

MCTruth ==
  Hosted :> {Datacenter, Vpn} @@ Anonymous :> {Vpn} @@ Clean :> {}

MCClients ==
  {[addr |-> Hosted, form |-> "mapped"], [addr |-> Anonymous, form |-> "plain"],
   [addr |-> Clean, form |-> "zoned"]}
=============================================================================
