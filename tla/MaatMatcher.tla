----------------------------- MODULE MaatMatcher -----------------------------
(***************************************************************************)
(* maat.Matcher, the Caddy request matcher (caddy/maat/datacenterdb.go):   *)
(* its life through configuration reloads, the usage pool through which    *)
(* matchers share stores, and the answer it gives a request.               *)
(*                                                                         *)
(* Caddy loads one configuration at a time.  It provisions and validates   *)
(* the new configuration's matchers one after the other while the running  *)
(* configuration still answers requests, then switches over and cleans up  *)
(* the old matchers.  When a matcher or the start of the servers fails,    *)
(* everything the new configuration had set up is cleaned up instead.      *)
(*                                                                         *)
(* A store is what MaatStore models; here it only has a database loaded or *)
(* has none.  Requests may still hold a matcher that is being cleaned up:  *)
(* Caddy stops waiting for them when its grace period is over.             *)
(***************************************************************************)
EXTENDS Naturals, Sequences, FiniteSets

CONSTANTS
  Categories,        \* knownCategories
  Datacenter,        \* the category of the free database
  Servers,           \* servers with a well-formed URL
  Keys,              \* API keys
  Dirs,              \* storage paths
  None,              \* no API key; no server or one that is not an http(s) URL
  Configs,           \* the configurations: sequences of matcher settings
  Truth,             \* Truth[a]: the categories the lists give address a
  Proxy,             \* the address of a trusted proxy
  Clients,           \* the addresses clients have, as they are written
  Requests,          \* requests being served at a time
  StoreIds           \* bound: dbStores that exist at a time

VARIABLES
  running,           \* the configuration that answers requests
  pending,           \* the one being loaded, or the one being cleaned up
  todo,              \* the matchers of pending still to be cleaned up
  phase,             \* what Caddy is doing with pending
  pool,              \* stores: the usage pool, by storeKey
  store,             \* store[i]: the dbStore with identity i
  req                \* req[r]: the request r, from arrival to answer

vars == <<running, pending, todo, phase, pool, store, req>>

Tiers == {"free", "full"}
Addrs == DOMAIN Truth
Nil == 0

Settings == [server : Servers \cup {None}, categories : SUBSET (Categories \cup {None}),
             apiKey : Keys \cup {None}, dir : Dirs]

ASSUME MatcherAssumption ==
  /\ Datacenter \in Categories
  /\ None \notin Servers \cup Keys \cup Dirs
  /\ \A a \in Addrs : Truth[a] \subseteq Categories
  /\ Proxy \in Addrs
  /\ Clients \subseteq [addr : Addrs, form : {"plain", "mapped", "zoned"}]
  /\ StoreIds \subseteq Nat \ {Nil}
  /\ Configs \subseteq Seq(Settings)

\* A configuration and m.store of each matcher it has provisioned so far.
Empty == [cfg |-> << >>, stores |-> << >>]

-----------------------------------------------------------------------------
(* Matchers and their stores *)

\* Only "datacenter" and nothing else can be served by the free build; no
\* categories means anything in the database.
Bug_Tier(m) == IF m.categories \subseteq {Datacenter} THEN "free" ELSE "full"
Tier(m) == IF m.categories = {Datacenter} THEN "free" ELSE "full"

StoreKey(m) == [server |-> m.server, tier |-> Tier(m)]

\* What Provision refuses before it asks for a store.
Refused(m) ==
  \/ m.server = None
  \/ ~(m.categories \subseteq Categories)
  \/ Tier(m) = "full" /\ m.apiKey = None

Closed == [state |-> "closed", apiKey |-> None, dir |-> None, loaded |-> FALSE]
NoUse == [refs |-> 0, id |-> Nil]

\* Nobody has a pointer to the store i.
Forgotten(i) ==
  /\ store[i].state = "closed"
  /\ \A r \in Requests : req[r].store # i

NewStore(m) == [state |-> "open", apiKey |-> m.apiKey, dir |-> m.dir, loaded |-> FALSE]

\* loadStore: a further reference to the key's store, or the first to a new one.
LoadStore(m) ==
  LET k == StoreKey(m) IN
  IF pool[k].refs > 0
    THEN /\ pool' = [pool EXCEPT ![k].refs = @ + 1]
         /\ pending' = [pending EXCEPT !.stores = Append(@, pool[k].id)]
         /\ UNCHANGED store
    ELSE \E i \in StoreIds :
           /\ Forgotten(i)
           /\ store' = [store EXCEPT ![i] = NewStore(m)]
           /\ pool' = [pool EXCEPT ![k] = [refs |-> 1, id |-> i]]
           /\ pending' = [pending EXCEPT !.stores = Append(@, i)]

\* stores.Delete: the last one out destructs the store.
Release(k) ==
  IF pool[k].refs > 1
    THEN pool' = [pool EXCEPT ![k].refs = @ - 1] /\ UNCHANGED store
    ELSE /\ pool' = [pool EXCEPT ![k] = NoUse]
         /\ store' = [store EXCEPT ![pool[k].id].state = "closing"]

Destructing == \E i \in StoreIds : store[i].state = "closing"

-----------------------------------------------------------------------------
(* Requests *)

\* What Caddy may also know of a client: something unreadable, or nothing.
Garbage == [addr |-> None, form |-> "unreadable"]
Unset == [addr |-> None, form |-> "unset"]

\* client_ip, or the socket's peer when it is not set; without zone, unmapped.
ClientAddr(q) ==
  LET raw == IF q.client = Unset THEN q.peer ELSE q.client
  IN IF raw = Garbage THEN Garbage ELSE [raw EXCEPT !.form = "plain"]

\* The record a tier's database has for an address, {} for none: the free one
\* keeps what is listed as a datacenter, and of that only the category.
Record(tier, addr) ==
  IF addr.form # "plain" THEN {}
  ELSE IF tier = "full" THEN Truth[addr.addr] ELSE Truth[addr.addr] \cap {Datacenter}

\* Found, and in one of the wanted categories; in any when none is named.
Matches(m, record) ==
  record # {} /\ (m.categories = {} \/ m.categories \cap record # {})

\* consulted is history: whether the answer was read in a loaded database.
NoRequest == [matcher |-> << >>, store |-> Nil, client |-> Unset, peer |-> Unset,
              answer |-> "none", consulted |-> FALSE]

Init ==
  /\ running = Empty /\ pending = Empty /\ todo = {}
  /\ phase = "idle"
  /\ pool = [k \in [server : Servers, tier : Tiers] |-> NoUse]
  /\ store = [i \in StoreIds |-> Closed]
  /\ req = [r \in Requests |-> NoRequest]

Arrive(r) ==
  /\ req[r] = NoRequest
  /\ \E i \in DOMAIN running.cfg, c \in Clients \cup {Garbage, Unset},
        p \in Clients \cup {Garbage} :
       /\ c # Unset => p = [addr |-> Proxy, form |-> "plain"]
       /\ req' = [req EXCEPT ![r] =
                    [matcher |-> running.cfg[i], store |-> running.stores[i],
                     client |-> c, peer |-> p, answer |-> "none", consulted |-> FALSE]]
  /\ UNCHANGED <<running, pending, todo, phase, pool, store>>

\* What cannot be told is no match: an address that cannot be read, a store
\* with no database, and a lookup that fails.
MatchWithError(r) ==
  /\ req[r] # NoRequest /\ req[r].answer = "none"
  /\ LET m == req[r].matcher
         addr == ClientAddr(req[r])
     IN \E consulted \in BOOLEAN :
          /\ consulted => addr # Garbage /\ store[req[r].store].loaded
          /\ req' = [req EXCEPT ![r].answer = IF consulted /\ Matches(m, Record(Tier(m), addr))
                                             THEN "match" ELSE "no match",
                                ![r].consulted = consulted,
                                ![r].store = Nil]
  /\ UNCHANGED <<running, pending, todo, phase, pool, store>>

Answered(r) ==
  /\ req[r].answer # "none"
  /\ req' = [req EXCEPT ![r] = NoRequest]
  /\ UNCHANGED <<running, pending, todo, phase, pool, store>>

-----------------------------------------------------------------------------
(* Caddy's configuration loads *)

Reload(cfg) ==
  /\ phase = "idle"
  /\ phase' = "provision"
  /\ pending' = [Empty EXCEPT !.cfg = cfg]
  /\ UNCHANGED <<running, todo, pool, store, req>>

Provisioning == phase = "provision" /\ Len(pending.stores) < Len(pending.cfg)
Current == pending.cfg[Len(pending.stores) + 1]

Provision ==
  /\ Provisioning
  /\ ~Refused(Current)
  /\ LoadStore(Current)
  /\ UNCHANGED <<running, todo, phase, req>>

\* Cleanup of a matcher that Provision refused finds no store and gives back
\* nothing.
Bug_CleanupRefused(m) ==
  IF m.server # None /\ pool[StoreKey(m)].refs > 0
    THEN Release(StoreKey(m))
    ELSE UNCHANGED <<pool, store>>
CleanupRefused(m) == UNCHANGED <<pool, store>>

Bug_ProvisionFails ==
  /\ Provisioning
  /\ ~Refused(Current) => pool[StoreKey(Current)].refs = 0
  /\ pool' = IF Current.server # None /\ pool[StoreKey(Current)].refs > 0
               THEN [pool EXCEPT ![StoreKey(Current)].refs = @ + 1] ELSE pool
  /\ phase' = "undo"
  /\ todo' = DOMAIN pending.stores
  /\ UNCHANGED <<running, pending, store, req>>

\* Provision fails, on the settings or on the directory of a new store; Caddy
\* cleans up this matcher at once and then the ones before it.
ProvisionFails ==
  /\ Provisioning
  /\ ~Refused(Current) => pool[StoreKey(Current)].refs = 0
  /\ CleanupRefused(Current)
  /\ phase' = "undo"
  /\ todo' = DOMAIN pending.stores
  /\ UNCHANGED <<running, pending, req>>

\* A server of the new configuration does not start.
StartFails ==
  /\ phase = "provision" /\ ~Provisioning
  /\ phase' = "undo"
  /\ todo' = DOMAIN pending.stores
  /\ UNCHANGED <<running, pending, pool, store, req>>

\* The new configuration answers requests; the old one is what is left.
SwitchOver ==
  /\ phase = "provision" /\ ~Provisioning
  /\ running' = pending
  /\ pending' = running
  /\ todo' = DOMAIN running.stores
  /\ phase' = "retire"
  /\ UNCHANGED <<pool, store, req>>

\* Cleanup gives a matcher's reference back.
Cleanup(i) ==
  /\ i \in todo /\ ~Destructing
  /\ todo' = todo \ {i}
  /\ Release(StoreKey(pending.cfg[i]))
  /\ UNCHANGED <<running, pending, phase, req>>

\* Destruct has waited for run and closed what was mapped; Cleanup returns.
Destructed(i) ==
  /\ store[i].state = "closing"
  /\ store' = [store EXCEPT ![i] = Closed]
  /\ UNCHANGED <<running, pending, todo, phase, pool, req>>

CleanedUp ==
  /\ phase \in {"undo", "retire"} /\ todo = {} /\ ~Destructing
  /\ phase' = "idle"
  /\ pending' = Empty
  /\ UNCHANGED <<running, todo, pool, store, req>>

\* A store's goroutine loads a database; Destruct waits for it to return.
Loaded(i) ==
  /\ store[i].state # "closed" /\ ~store[i].loaded
  /\ store' = [store EXCEPT ![i].loaded = TRUE]
  /\ UNCHANGED <<running, pending, todo, phase, pool, req>>

\* A build that has no version takes the file's name, and a download gives the
\* loaded database up before it replaces that file.
Unloaded(i) ==
  /\ store[i].state # "closed" /\ store[i].loaded
  /\ store' = [store EXCEPT ![i].loaded = FALSE]
  /\ UNCHANGED <<running, pending, todo, phase, pool, req>>

-----------------------------------------------------------------------------
Next ==
  \/ \E cfg \in Configs : Reload(cfg)
  \/ Provision \/ ProvisionFails \/ StartFails \/ SwitchOver
  \/ \E i \in todo : Cleanup(i)
  \/ CleanedUp
  \/ \E i \in StoreIds : Loaded(i) \/ Unloaded(i) \/ Destructed(i)
  \/ \E r \in Requests : Arrive(r) \/ MatchWithError(r) \/ Answered(r)

Spec == Init /\ [][Next]_vars

-----------------------------------------------------------------------------
(* Properties *)

Instances == [cfg : Configs, stores : Seq(StoreIds)]

\* The configurations, the pool, the stores and the requests have their types.
TypeOK ==
  /\ running \in Instances \cup {Empty} /\ pending \in Instances \cup {Empty}
  /\ Len(running.stores) = Len(running.cfg)
  /\ Len(pending.stores) <= Len(pending.cfg)
  /\ todo \subseteq DOMAIN pending.stores
  /\ phase \in {"idle", "provision", "undo", "retire"}
  /\ pool \in [[server : Servers, tier : Tiers] ->
                 [refs : Nat, id : StoreIds \cup {Nil}]]
  /\ store \in [StoreIds -> [state : {"open", "closing", "closed"}, loaded : BOOLEAN,
                             apiKey : Keys \cup {None}, dir : Dirs \cup {None}]]
  /\ DOMAIN req = Requests
  /\ \A r \in Requests : req[r] = NoRequest \/
       req[r] \in [matcher : Settings, store : StoreIds \cup {Nil}, client : Clients \cup {Garbage, Unset},
                  peer : Clients \cup {Garbage, Unset},
                  answer : {"none", "match", "no match"}, consulted : BOOLEAN]

\* The matchers that hold a reference to k's store.
Users(k) ==
  {<<"running", i>> : i \in {j \in DOMAIN running.stores : StoreKey(running.cfg[j]) = k}}
  \cup {<<"pending", i>> :
          i \in {j \in IF phase = "provision" THEN DOMAIN pending.stores ELSE todo :
                  StoreKey(pending.cfg[j]) = k}}

StoreOf(u) == IF u[1] = "running" THEN running.stores[u[2]] ELSE pending.stores[u[2]]

\* Through every reload, refused matcher and half-loaded configuration the pool
\* counts exactly the matchers that use a store: none is torn down under a
\* matcher ("the last one out does the teardown", store.go:44-46), and none
\* stays behind with its mapping and its goroutine once nobody uses it.
PoolExact ==
  /\ \A k \in DOMAIN pool :
       /\ pool[k].refs = Cardinality(Users(k))
       /\ \A u \in Users(k) :
            StoreOf(u) = pool[k].id /\ store[pool[k].id].state = "open"
  /\ \A i \in StoreIds : store[i].state = "open" => \E k \in DOMAIN pool : pool[k].id = i

\* A matcher that has a store passed Provision's checks; between loads nothing
\* is pending, and nothing is cleaned up before a configuration has won.
PhaseInv ==
  /\ \A c \in {running, pending} : \A i \in DOMAIN c.stores : ~Refused(c.cfg[i])
  /\ phase = "idle" => pending = Empty
  /\ phase \in {"idle", "provision"} => todo = {}

\* A key's store is open while it has references, and no other key's.
PoolInv ==
  /\ \A k \in DOMAIN pool :
       IF pool[k].refs = 0 THEN pool[k] = NoUse
       ELSE pool[k].id \in StoreIds /\ store[pool[k].id].state = "open"
  /\ \A j, k \in DOMAIN pool : pool[j].refs # 0 /\ pool[j].id = pool[k].id => j = k

IInv == TypeOK /\ PhaseInv /\ PoolInv /\ PoolExact

\* The running configuration has the database k: loaded, and not going away.
Serves(k) ==
  \E i \in DOMAIN running.cfg :
    /\ StoreKey(running.cfg[i]) = k
    /\ store[running.stores[i]].state = "open" /\ store[running.stores[i]].loaded

\* Nothing Caddy does takes a loaded database away that goes on being wanted:
\* it stays through reloads whose configuration wants it too, and through every
\* reload that fails.  Only the store's own goroutine unloads it (store.go:289).
ReloadKeepsDatabase ==
  [][\A k \in DOMAIN pool :
       Serves(k) /\ (\E i \in DOMAIN running'.cfg : StoreKey(running'.cfg[i]) = k)
         => Serves(k)']_<<running, pending, todo, phase, pool>>

\* What the request's client deserves, by all lists and every category.
Deserves(q) ==
  LET client == IF q.client = Unset THEN q.peer ELSE q.client
  IN client # Garbage /\ Matches(q.matcher, Truth[client.addr])

\* Only a client that the lists say it of is matched, and one that they do is
\* matched whenever a database could be consulted, whichever database the
\* matcher was given and however the client's address is written: a matcher on
\* the free database misses nothing it was asked for.
MatchesRight ==
  \A r \in Requests :
    /\ req[r].answer = "match" => Deserves(req[r])
    /\ req[r].answer = "no match" /\ Deserves(req[r]) => ~req[r].consulted

\* A matcher's store uses the API key and the directory the matcher is
\* configured with ("APIKey is the Thoth API key authorizing access to the full
\* database", datacenterdb.go:92; "StoragePath is the directory the downloaded
\* database is cached in", datacenterdb.go:97).
StoreAsConfigured ==
  \A i \in DOMAIN running.cfg :
    LET s == store[running.stores[i]] IN
    s.apiKey = running.cfg[i].apiKey /\ s.dir = running.cfg[i].dir
=============================================================================
