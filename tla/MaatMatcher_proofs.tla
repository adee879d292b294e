-------------------------- MODULE MaatMatcher_proofs --------------------------
(***************************************************************************)
(* Proofs about the Caddy matcher: through every sequence of reloads the   *)
(* usage pool counts exactly the matchers that use a store, a loaded       *)
(* database stays loaded, and answers are the ones the lists give.         *)
(***************************************************************************)
EXTENDS MaatMatcher, FiniteSetTheorems, SequenceTheorems, TLAPS

PoolKeys == [server : Servers, tier : Tiers]

\* A matcher that passed Provision's checks has a key in the pool.
LEMMA AcceptedKey ==
  ASSUME NEW m \in Settings, ~Refused(m)
  PROVE  StoreKey(m) \in PoolKeys
BY DEF Settings, Refused, StoreKey, PoolKeys, Tier, Tiers

\* A request is typed, or there is none.
ReqTypeOK(q) ==
  q = NoRequest \/
    q \in [matcher : Settings, store : StoreIds \cup {Nil}, client : Clients \cup {Garbage, Unset},
           peer : Clients \cup {Garbage, Unset},
           answer : {"none", "match", "no match"}, consulted : BOOLEAN]

\* Types of what loading and retiring a configuration moves.
ConfigTypeOK ==
  /\ running \in Instances \cup {Empty} /\ pending \in Instances \cup {Empty}
  /\ Len(running.stores) = Len(running.cfg)
  /\ Len(pending.stores) <= Len(pending.cfg)
  /\ todo \subseteq DOMAIN pending.stores
  /\ phase \in {"idle", "provision", "undo", "retire"}

\* Types of the pool and of the stores.
StoreTypeOK ==
  /\ pool \in [PoolKeys -> [refs : Nat, id : StoreIds \cup {Nil}]]
  /\ store \in [StoreIds -> [state : {"open", "closing", "closed"}, loaded : BOOLEAN,
                             apiKey : Keys \cup {None}, dir : Dirs \cup {None}]]

\* The type invariant, in three parts.
LEMMA TypeParts ==
  TypeOK <=> ConfigTypeOK /\ StoreTypeOK /\ DOMAIN req = Requests /\ \A r \in Requests : ReqTypeOK(req[r])
BY DEF TypeOK, ConfigTypeOK, StoreTypeOK, ReqTypeOK, PoolKeys

\* The shape of the configurations.
LEMMA ConfigFacts ==
  ASSUME TypeOK, NEW c \in {running, pending}
  PROVE  /\ c.cfg \in Seq(Settings) /\ c.stores \in Seq(StoreIds)
         /\ c = [cfg |-> c.cfg, stores |-> c.stores]
         /\ Len(c.cfg) \in Nat /\ Len(c.stores) \in Nat /\ Len(c.stores) <= Len(c.cfg)
         /\ DOMAIN c.cfg = 1 .. Len(c.cfg) /\ DOMAIN c.stores = 1 .. Len(c.stores)
         /\ \A i \in DOMAIN c.cfg : c.cfg[i] \in Settings
         /\ \A i \in DOMAIN c.stores : c.stores[i] \in StoreIds /\ i \in DOMAIN c.cfg
<1>1. c \in Instances \cup {Empty}
  BY DEF TypeOK
<1>2. c.cfg \in Seq(Settings) /\ c.stores \in Seq(StoreIds)
  <2>1. CASE c \in Instances
    <3>1. Configs \subseteq Seq(Settings)
      BY MatcherAssumption DEF MatcherAssumption
    <3> QED BY <2>1, <3>1 DEF Instances
  <2>2. CASE c = Empty
    <3>1. c.cfg = << >> /\ c.stores = << >>
      BY <2>2 DEF Empty
    <3>2. << >> \in Seq(Settings) /\ << >> \in Seq(StoreIds)
      BY EmptySeq
    <3> QED BY <3>1, <3>2
  <2> QED BY <1>1, <2>1, <2>2
<1>3. c = [cfg |-> c.cfg, stores |-> c.stores]
  <2>1. CASE c \in Instances
    BY <2>1 DEF Instances
  <2>2. CASE c = Empty
    BY <2>2 DEF Empty
  <2> QED BY <1>1, <2>1, <2>2
<1>4. /\ Len(c.cfg) \in Nat /\ Len(c.stores) \in Nat
      /\ DOMAIN c.cfg = 1 .. Len(c.cfg) /\ DOMAIN c.stores = 1 .. Len(c.stores)
      /\ \A i \in DOMAIN c.cfg : c.cfg[i] \in Settings
      /\ \A i \in DOMAIN c.stores : c.stores[i] \in StoreIds
  BY <1>2, LenProperties, ElementOfSeq
<1>5. Len(c.stores) <= Len(c.cfg)
  <2>1. Len(running.stores) = Len(running.cfg) /\ Len(pending.stores) <= Len(pending.cfg)
    BY DEF TypeOK
  <2>2. CASE c = running
    BY <1>4, <2>1, <2>2
  <2>3. CASE c = pending
    BY <2>1, <2>3
  <2> QED BY <2>2, <2>3
<1> QED BY <1>2, <1>3, <1>4, <1>5

\* Only finitely many matchers use a store.
LEMMA UsersFinite ==
  ASSUME TypeOK, NEW k
  PROVE  IsFiniteSet(Users(k))
<1> DEFINE R == 1 .. Len(running.stores)
           P == 1 .. Len(pending.stores)
           S == {"running", "pending"} \X (R \cup P)
<1>1. /\ Len(running.stores) \in Nat /\ Len(pending.stores) \in Nat
      /\ DOMAIN running.stores = R /\ DOMAIN pending.stores = P
  BY ConfigFacts
<1>2. IsFiniteSet(R) /\ IsFiniteSet(P)
  BY <1>1, FS_Interval
<1>3. IsFiniteSet({"running", "pending"})
  <2>1. IsFiniteSet({"running"})
    BY FS_Singleton
  <2>2. {"running", "pending"} = {"running"} \cup {"pending"}
    OBVIOUS
  <2> QED BY <2>1, <2>2, FS_AddElement
<1>4. IsFiniteSet(S)
  BY <1>2, <1>3, FS_Union, FS_Product
<1>5. todo \subseteq P
  BY <1>1 DEF TypeOK
<1>6. Users(k) \in SUBSET S
  <2>1. \A u \in Users(k) : \E i \in R \cup P : u = <<"running", i>> \/ u = <<"pending", i>>
    BY <1>1, <1>5 DEF Users
  <2> HIDE DEF R, P
  <2> QED BY <2>1
<1> QED BY <1>4, <1>6, FS_Subset

-----------------------------------------------------------------------------
(* Types. *)

\* A reference given back leaves the pool and the stores typed.
LEMMA ReleaseTypes ==
  ASSUME StoreTypeOK, NEW k \in PoolKeys, Release(k)
  PROVE  StoreTypeOK'
<1>1. CASE pool[k].refs > 1
  BY <1>1 DEF Release, StoreTypeOK
<1>2. CASE ~(pool[k].refs > 1)
  <2>1. /\ pool' = [pool EXCEPT ![k] = [refs |-> 0, id |-> Nil]]
        /\ store' = [store EXCEPT ![pool[k].id] = [store[pool[k].id] EXCEPT !.state = "closing"]]
    BY <1>2 DEF Release, NoUse
  <2>2. pool' \in [PoolKeys -> [refs : Nat, id : StoreIds \cup {Nil}]]
    BY <2>1 DEF StoreTypeOK
  <2>3. store' \in [StoreIds -> [state : {"open", "closing", "closed"}, loaded : BOOLEAN,
                                apiKey : Keys \cup {None}, dir : Dirs \cup {None}]]
    BY <2>1 DEF StoreTypeOK
  <2> QED BY <2>2, <2>3 DEF StoreTypeOK
<1> QED BY <1>1, <1>2

\* loadStore leaves the pool, the stores and the configuration typed.
LEMMA LoadTypes ==
  ASSUME TypeOK, PoolInv, Provisioning, ~Refused(Current), LoadStore(Current),
         UNCHANGED <<running, todo, phase, req>>
  PROVE  ConfigTypeOK' /\ StoreTypeOK'
<1> DEFINE n == Len(pending.stores)
           k == StoreKey(Current)
<1>0. ConfigTypeOK /\ StoreTypeOK
  BY TypeParts
<1>1. /\ n \in Nat /\ n < Len(pending.cfg) /\ Len(pending.cfg) \in Nat
      /\ pending.cfg \in Seq(Settings) /\ pending.stores \in Seq(StoreIds)
      /\ DOMAIN pending.stores = 1 .. n
      /\ Current \in Settings
  BY ConfigFacts DEF Provisioning, Current
<1>2. k \in PoolKeys
  BY <1>1, AcceptedKey
<1>3. pending \in Instances
  <2>1. Len(<< >>) = 0
    BY EmptySeq
  <2>2. pending # Empty
    BY <1>1, <2>1 DEF Empty
  <2> QED BY <1>0, <2>2 DEF ConfigTypeOK
<1>4. PICK i \in StoreIds : pending' = [pending EXCEPT !.stores = Append(@, i)] /\ StoreTypeOK'
  <2>1. CASE pool[k].refs > 0
    <3>1. /\ pool' = [pool EXCEPT ![k].refs = @ + 1] /\ store' = store
          /\ pending' = [pending EXCEPT !.stores = Append(@, pool[k].id)]
      BY <2>1 DEF LoadStore
    <3>2. StoreTypeOK'
      BY <1>0, <1>2, <3>1 DEF StoreTypeOK
    <3>3. pool[k].id \in StoreIds
      BY <1>0, <1>2, <2>1 DEF PoolInv, StoreTypeOK
    <3> QED BY <3>1, <3>2, <3>3
  <2>2. CASE ~(pool[k].refs > 0)
    <3>1. PICK i \in StoreIds :
            /\ store' = [store EXCEPT ![i] = NewStore(Current)]
            /\ pool' = [pool EXCEPT ![k] = [refs |-> 1, id |-> i]]
            /\ pending' = [pending EXCEPT !.stores = Append(@, i)]
      BY <2>2 DEF LoadStore
    <3>2. NewStore(Current) \in [state : {"open", "closing", "closed"}, loaded : BOOLEAN,
                                 apiKey : Keys \cup {None}, dir : Dirs \cup {None}]
      BY <1>1 DEF NewStore, Settings
    <3>3. StoreTypeOK'
      BY <1>0, <1>2, <3>1, <3>2 DEF StoreTypeOK
    <3> QED BY <3>1, <3>3
  <2> QED BY <2>1, <2>2
<1>5. /\ pending'.cfg = pending.cfg /\ pending'.stores = Append(pending.stores, i)
      /\ pending' = [cfg |-> pending'.cfg, stores |-> pending'.stores]
  BY <1>3, <1>4 DEF Instances
<1>6. /\ pending'.stores \in Seq(StoreIds) /\ Len(pending'.stores) = n + 1
      /\ DOMAIN pending'.stores = 1 .. n + 1
  BY <1>1, <1>5, AppendProperties, LenProperties
<1>7. pending' \in Instances
  BY <1>3, <1>5, <1>6 DEF Instances
<1>8. todo' \subseteq DOMAIN pending'.stores /\ Len(pending'.stores) <= Len(pending'.cfg)
  BY <1>0, <1>1, <1>5, <1>6 DEF ConfigTypeOK
<1> QED BY <1>0, <1>4, <1>7, <1>8 DEF ConfigTypeOK

\* A request on its way touches nothing else, and stays typed.
LEMMA RequestStep ==
  ASSUME TypeOK, NEW r \in Requests, Arrive(r) \/ MatchWithError(r) \/ Answered(r)
  PROVE  /\ TypeOK'
         /\ UNCHANGED <<running, pending, todo, phase, pool, store>>
<1>0. ConfigTypeOK /\ StoreTypeOK /\ DOMAIN req = Requests /\ \A q \in Requests : ReqTypeOK(req[q])
  BY TypeParts
<1>1. UNCHANGED <<running, pending, todo, phase, pool, store>>
  BY DEF Arrive, MatchWithError, Answered
<1>2. ConfigTypeOK' /\ StoreTypeOK'
  BY <1>0, <1>1 DEF ConfigTypeOK, StoreTypeOK
<1>3. DOMAIN req' = Requests /\ \A q \in Requests : ReqTypeOK(req'[q])
  <2>1. CASE Arrive(r)
    <3>1. PICK i \in DOMAIN running.cfg, c \in Clients \cup {Garbage, Unset},
               p \in Clients \cup {Garbage} :
            req' = [req EXCEPT ![r] =
                      [matcher |-> running.cfg[i], store |-> running.stores[i],
                       client |-> c, peer |-> p, answer |-> "none", consulted |-> FALSE]]
      BY <2>1 DEF Arrive
    <3>2. running.cfg[i] \in Settings /\ running.stores[i] \in StoreIds
      <4>1. Len(running.stores) = Len(running.cfg)
        BY <1>0 DEF ConfigTypeOK
      <4> QED BY <4>1, ConfigFacts
    <3>3. ReqTypeOK([matcher |-> running.cfg[i], store |-> running.stores[i],
                     client |-> c, peer |-> p, answer |-> "none", consulted |-> FALSE])
      BY <3>2 DEF ReqTypeOK
    <3> QED BY <1>0, <3>1, <3>3
  <2>2. CASE MatchWithError(r)
    <3>1. PICK told \in {"match", "no match"}, consulted \in BOOLEAN :
            req' = [req EXCEPT ![r].answer = told, ![r].consulted = consulted, ![r].store = Nil]
      BY <2>2 DEF MatchWithError
    <3>2. ReqTypeOK(req[r]) /\ req[r] # NoRequest
      BY <1>0, <2>2 DEF MatchWithError
    <3> DEFINE q == [req[r] EXCEPT !.answer = told, !.consulted = consulted, !.store = Nil]
    <3>3. ReqTypeOK(q)
      BY <3>2 DEF ReqTypeOK
    <3>4. req' = [req EXCEPT ![r] = q]
      BY <3>1
    <3> HIDE DEF q
    <3> QED BY <1>0, <3>3, <3>4
  <2>3. CASE Answered(r)
    BY <1>0, <2>3 DEF Answered, ReqTypeOK
  <2> QED BY <2>1, <2>2, <2>3
<1> QED BY <1>1, <1>2, <1>3, TypeParts DEF TypeOK, ConfigTypeOK, StoreTypeOK, ReqTypeOK, PoolKeys

\* Every step leaves every variable with its type.
LEMMA TypeStep ==
  ASSUME TypeOK, PhaseInv, PoolInv, Next
  PROVE  TypeOK'
<1>0. ConfigTypeOK /\ StoreTypeOK /\ DOMAIN req = Requests /\ \A q \in Requests : ReqTypeOK(req[q])
  BY TypeParts
<1>1. SUFFICES ASSUME ~(\E r \in Requests : Arrive(r) \/ MatchWithError(r) \/ Answered(r))
               PROVE  ConfigTypeOK' /\ StoreTypeOK' /\ req' = req
  BY <1>0, RequestStep DEF TypeOK, ConfigTypeOK, StoreTypeOK, ReqTypeOK, PoolKeys
<1>2. ASSUME NEW cfg \in Configs, Reload(cfg)
      PROVE  ConfigTypeOK' /\ StoreTypeOK' /\ req' = req
  <2>1. /\ pending' = [cfg |-> cfg, stores |-> << >>] /\ phase' = "provision"
        /\ UNCHANGED <<running, todo, pool, store, req>>
    BY <1>2 DEF Reload, Empty
  <2>2. todo = {}
    BY <1>2 DEF Reload, PhaseInv
  <2>3. << >> \in Seq(StoreIds) /\ Len(<< >>) = 0
    BY EmptySeq
  <2>4. cfg \in Seq(Settings)
    BY MatcherAssumption DEF MatcherAssumption
  <2>5. Len(cfg) \in Nat
    BY <2>4, LenProperties
  <2> QED BY <1>0, <2>1, <2>2, <2>3, <2>5 DEF ConfigTypeOK, StoreTypeOK, Instances
<1>3. CASE Provision
  BY <1>3, LoadTypes DEF Provision
<1>4. CASE ProvisionFails \/ StartFails
  BY <1>0, <1>4 DEF ProvisionFails, StartFails, CleanupRefused, ConfigTypeOK, StoreTypeOK
<1>5. CASE SwitchOver
  <2>1. /\ running' = pending /\ pending' = running /\ todo' = DOMAIN running.stores
        /\ phase' = "retire" /\ UNCHANGED <<pool, store, req>>
        /\ phase = "provision" /\ ~Provisioning
    BY <1>5 DEF SwitchOver
  <2>2. /\ Len(pending.stores) \in Nat /\ Len(pending.cfg) \in Nat
        /\ Len(running.stores) \in Nat /\ Len(running.cfg) \in Nat
    BY ConfigFacts
  <2>3. Len(pending.stores) = Len(pending.cfg)
    BY <1>0, <2>1, <2>2 DEF ConfigTypeOK, Provisioning
  <2> QED BY <1>0, <2>1, <2>2, <2>3 DEF ConfigTypeOK, StoreTypeOK
<1>6. ASSUME NEW i \in todo, Cleanup(i)
      PROVE  ConfigTypeOK' /\ StoreTypeOK' /\ req' = req
  <2>1. Release(StoreKey(pending.cfg[i])) /\ todo' = todo \ {i}
        /\ UNCHANGED <<running, pending, phase, req>>
    BY <1>6 DEF Cleanup
  <2>2. StoreKey(pending.cfg[i]) \in PoolKeys
    <3>1. i \in DOMAIN pending.stores
      BY <1>0 DEF ConfigTypeOK
    <3>2. pending.cfg[i] \in Settings
      BY <3>1, ConfigFacts
    <3> QED BY <3>1, <3>2, AcceptedKey DEF PhaseInv
  <2>3. StoreTypeOK'
    BY <1>0, <2>1, <2>2, ReleaseTypes
  <2> QED BY <1>0, <2>1, <2>3 DEF ConfigTypeOK
<1>7. CASE CleanedUp
  <2>1. /\ pending' = Empty /\ phase' = "idle" /\ todo' = {}
        /\ UNCHANGED <<running, pool, store, req>>
    BY <1>7 DEF CleanedUp
  <2>2. Len(Empty.stores) <= Len(Empty.cfg)
    BY EmptySeq DEF Empty
  <2> QED BY <1>0, <2>1, <2>2 DEF ConfigTypeOK, StoreTypeOK
<1>8. ASSUME NEW i \in StoreIds, Loaded(i) \/ Unloaded(i) \/ Destructed(i)
      PROVE  ConfigTypeOK' /\ StoreTypeOK' /\ req' = req
  <2>1. UNCHANGED <<running, pending, todo, phase, pool, req>>
    BY <1>8 DEF Loaded, Unloaded, Destructed
  <2>2. StoreTypeOK'
    <3>1. CASE Loaded(i) \/ Unloaded(i)
      <4>1. PICK loaded \in BOOLEAN : store' = [store EXCEPT ![i].loaded = loaded]
        BY <3>1 DEF Loaded, Unloaded
      <4> QED BY <1>0, <2>1, <4>1 DEF StoreTypeOK
    <3>2. CASE Destructed(i)
      BY <1>0, <3>2 DEF Destructed, Closed, StoreTypeOK
    <3> QED BY <1>8, <3>1, <3>2
  <2> QED BY <1>0, <2>1, <2>2 DEF ConfigTypeOK
<1> QED BY <1>1, <1>2, <1>3, <1>4, <1>5, <1>6, <1>7, <1>8 DEF Next, Provision

\* A configuration only gets stores for matchers that pass the checks, and
\* moves through its phases with something to clean up only when it is over.
LEMMA PhaseStep ==
  ASSUME TypeOK, PhaseInv, PoolInv, Next
  PROVE  PhaseInv'
<1>1. CASE \/ \E i \in StoreIds : Loaded(i) \/ Unloaded(i) \/ Destructed(i)
           \/ \E r \in Requests : Arrive(r) \/ MatchWithError(r) \/ Answered(r)
  <2>1. UNCHANGED <<running, pending, todo, phase>>
    BY <1>1 DEF Loaded, Unloaded, Destructed, Arrive, MatchWithError, Answered
  <2> QED BY <2>1 DEF PhaseInv
<1>2. CASE \E cfg \in Configs : Reload(cfg)
  <2>1. PICK cfg \in Configs : Reload(cfg)
    BY <1>2
  <2>2. pending'.stores = << >> /\ running' = running /\ phase' = "provision" /\ todo' = {}
    BY <2>1 DEF Reload, Empty, PhaseInv
  <2>3. DOMAIN << >> = {}
    OBVIOUS
  <2> QED BY <2>2, <2>3 DEF PhaseInv
<1>3. CASE Provision
  <2>1. /\ Provisioning /\ ~Refused(Current) /\ UNCHANGED <<running, todo, phase>>
        /\ phase = "provision"
    BY <1>3 DEF Provision, Provisioning
  <2>2. PICK i : pending' = [pending EXCEPT !.stores = Append(@, i)]
    BY <1>3 DEF Provision, LoadStore
  <2>3. /\ pending = [cfg |-> pending.cfg, stores |-> pending.stores]
        /\ pending.stores \in Seq(StoreIds) /\ Len(pending.stores) \in Nat
        /\ DOMAIN pending.stores = 1 .. Len(pending.stores)
    BY ConfigFacts
  <2>4. pending'.cfg = pending.cfg /\ pending'.stores = Append(pending.stores, i)
    BY <2>2, <2>3
  <2>5. DOMAIN pending'.stores = 1 .. Len(pending.stores) + 1
    BY <2>3, <2>4
  <2>6. \A j \in DOMAIN pending'.stores : ~Refused(pending'.cfg[j])
    BY <2>1, <2>3, <2>4, <2>5 DEF Current, PhaseInv
  <2> QED BY <2>1, <2>6 DEF PhaseInv
<1>4. CASE ProvisionFails \/ StartFails
  BY <1>4 DEF ProvisionFails, StartFails, PhaseInv
<1>5. CASE SwitchOver
  BY <1>5 DEF SwitchOver, PhaseInv
<1>6. CASE \E i \in todo : Cleanup(i)
  <2>1. PICK i \in todo : Cleanup(i)
    BY <1>6
  <2>2. UNCHANGED <<running, pending, phase>> /\ phase \notin {"idle", "provision"}
    BY <2>1 DEF Cleanup, PhaseInv
  <2> QED BY <2>2 DEF PhaseInv
<1>7. CASE CleanedUp
  <2>1. running' = running /\ pending' = Empty /\ phase' = "idle" /\ todo' = {}
    BY <1>7 DEF CleanedUp
  <2>2. DOMAIN Empty.stores = {}
    BY DEF Empty
  <2> QED BY <2>1, <2>2 DEF PhaseInv
<1> QED BY <1>1, <1>2, <1>3, <1>4, <1>5, <1>6, <1>7 DEF Next

-----------------------------------------------------------------------------
(* The pool. *)

\* The places of pending whose matcher holds a reference.
Slots == IF phase = "provision" THEN DOMAIN pending.stores ELSE todo

\* u is the place of a matcher that holds a reference to k's store.
InUse(k, u) ==
  \/ \E i \in DOMAIN running.stores : StoreKey(running.cfg[i]) = k /\ u = <<"running", i>>
  \/ \E i \in Slots : StoreKey(pending.cfg[i]) = k /\ u = <<"pending", i>>

\* What it is to use a store, before a step and after it.
LEMMA UsersAre ==
  ASSUME NEW k, NEW u
  PROVE  /\ u \in Users(k) <=> InUse(k, u)
         /\ u \in Users(k)' <=> InUse(k, u)'
<1>1. u \in Users(k) <=> InUse(k, u)
  BY DEF Users, InUse, Slots
<1>2. u \in Users(k)' <=> InUse(k, u)'
  BY DEF Users, InUse, Slots
<1> QED BY <1>1, <1>2

\* Where nobody comes or goes and no store opens or closes, the pool stays exact.
LEMMA SameUsers ==
  ASSUME TypeOK, PoolInv, PoolExact, pool' = pool,
         \A k : Users(k)' = Users(k),
         \A k : \A u \in Users(k) : StoreOf(u)' = StoreOf(u),
         \A i \in StoreIds : store'[i].state = "open" <=> store[i].state = "open"
  PROVE  PoolInv' /\ PoolExact'
<1>1. DOMAIN pool = PoolKeys
  BY TypeParts DEF StoreTypeOK
<1>2. \A k \in PoolKeys : pool[k].refs # 0 => pool[k].id \in StoreIds
  BY <1>1 DEF PoolInv
<1>3. \A k \in PoolKeys : Users(k) # {} => pool[k].refs # 0
  BY <1>1, FS_EmptySet, UsersFinite DEF PoolExact
<1>4. PoolInv'
  BY <1>1, <1>2 DEF PoolInv
<1>5. \A k \in PoolKeys : \A u \in Users(k) :
        StoreOf(u) = pool[k].id /\ store[pool[k].id].state = "open" /\ pool[k].id \in StoreIds
  BY <1>1, <1>2, <1>3 DEF PoolExact
<1>6. \A k \in PoolKeys : pool[k].refs = Cardinality(Users(k))
  BY <1>1 DEF PoolExact
<1> QED BY <1>1, <1>4, <1>5, <1>6 DEF PoolExact

\* The switch from one configuration to the next hands every reference on.
LEMMA SwitchKeepsPool ==
  ASSUME TypeOK, PhaseInv, PoolInv, PoolExact, SwitchOver
  PROVE  PoolInv' /\ PoolExact'
<1>1. /\ running' = pending /\ pending' = running /\ todo' = DOMAIN running.stores
      /\ phase = "provision" /\ phase' = "retire" /\ pool' = pool /\ store' = store
  BY DEF SwitchOver
<1>2. Slots = DOMAIN pending.stores /\ Slots' = DOMAIN running.stores
  BY <1>1 DEF Slots
<1> DEFINE Swap(u) == IF u[1] = "running" THEN <<"pending", u[2]>> ELSE <<"running", u[2]>>
<1>3. ASSUME NEW k
      PROVE  /\ \A u \in Users(k) : Swap(u) \in Users(k)'
             /\ \A u \in Users(k)' : Swap(u) \in Users(k)
             /\ \A u \in Users(k) \cup Users(k)' : Swap(Swap(u)) = u
             /\ \A u \in Users(k)' : StoreOf(u)' = StoreOf(Swap(u))
  <2>1. ASSUME NEW u \in Users(k)
        PROVE  Swap(u) \in Users(k)' /\ Swap(Swap(u)) = u
    <3>1. CASE \E i \in DOMAIN running.stores :
                 StoreKey(running.cfg[i]) = k /\ u = <<"running", i>>
      BY <1>1, <1>2, <3>1, UsersAre DEF InUse
    <3>2. CASE \E i \in Slots : StoreKey(pending.cfg[i]) = k /\ u = <<"pending", i>>
      BY <1>1, <1>2, <3>2, UsersAre DEF InUse
    <3> QED BY <3>1, <3>2, UsersAre DEF InUse
  <2>2. ASSUME NEW u \in Users(k)'
        PROVE  Swap(u) \in Users(k) /\ Swap(Swap(u)) = u /\ StoreOf(u)' = StoreOf(Swap(u))
    <3>1. CASE \E i \in DOMAIN pending.stores :
                 StoreKey(pending.cfg[i]) = k /\ u = <<"running", i>>
      BY <1>1, <1>2, <3>1, UsersAre DEF InUse, StoreOf
    <3>2. CASE \E i \in DOMAIN running.stores :
                 StoreKey(running.cfg[i]) = k /\ u = <<"pending", i>>
      BY <1>1, <1>2, <3>2, UsersAre DEF InUse, StoreOf
    <3> QED BY <1>1, <1>2, <3>1, <3>2, UsersAre DEF InUse
  <2> QED BY <2>1, <2>2
<1>4. ASSUME NEW k \in DOMAIN pool
      PROVE  /\ pool'[k].refs = Cardinality(Users(k)')
             /\ \A u \in Users(k)' :
                  StoreOf(u)' = pool'[k].id /\ store'[pool'[k].id].state = "open"
  <2> DEFINE f == [u \in Users(k) |-> Swap(u)]
  <2>1. f \in Bijection(Users(k), Users(k)')
    <3>1. f \in [Users(k) -> Users(k)']
      BY <1>3
    <3>2. \A u, v \in Users(k) : f[u] = f[v] => u = v
      <4> SUFFICES ASSUME NEW u \in Users(k), NEW v \in Users(k), f[u] = f[v]
                   PROVE  u = v
        OBVIOUS
      <4>1. f[u] = Swap(u) /\ f[v] = Swap(v) /\ Swap(Swap(u)) = u /\ Swap(Swap(v)) = v
        <5>1. Swap(Swap(u)) = u /\ Swap(Swap(v)) = v
          BY <1>3
        <5> HIDE DEF Swap
        <5> QED BY <5>1
      <4> HIDE DEF f, Swap
      <4> QED BY <4>1
    <3>3. \A v \in Users(k)' : \E u \in Users(k) : f[u] = v
      <4> SUFFICES ASSUME NEW v \in Users(k)'
                   PROVE  \E u \in Users(k) : f[u] = v
        OBVIOUS
      <4>1. Swap(v) \in Users(k) /\ Swap(Swap(v)) = v
        BY <1>3
      <4> HIDE DEF Swap
      <4> QED BY <4>1
    <3> HIDE DEF f
    <3> QED BY <3>1, <3>2, <3>3 DEF Bijection, Injection, Surjection, IsInjective
  <2>2. Cardinality(Users(k)') = Cardinality(Users(k))
    <3> HIDE DEF f
    <3> QED BY <2>1, UsersFinite, FS_Bijection DEF ExistsBijection
  <2>3. pool[k].refs = Cardinality(Users(k))
    BY DEF PoolExact
  <2>4. \A u \in Users(k)' : StoreOf(u)' = pool[k].id /\ store[pool[k].id].state = "open"
    <3> SUFFICES ASSUME NEW u \in Users(k)'
                 PROVE  StoreOf(u)' = pool[k].id /\ store[pool[k].id].state = "open"
      OBVIOUS
    <3>1. Swap(u) \in Users(k) /\ StoreOf(u)' = StoreOf(Swap(u))
      BY <1>3
    <3> HIDE DEF Swap
    <3> QED BY <3>1 DEF PoolExact
  <2> QED BY <1>1, <2>2, <2>3, <2>4
<1>5. PoolInv'
  BY <1>1 DEF PoolInv
<1>6. \A i \in StoreIds : store'[i].state = "open" => \E k \in DOMAIN pool' : pool'[k].id = i
  BY <1>1 DEF PoolExact
<1> QED BY <1>1, <1>4, <1>5, <1>6 DEF PoolExact

\* Provision counts the matcher it gives a store to, and a store that is new
\* was nobody's.
LEMMA ProvisionKeepsPool ==
  ASSUME TypeOK, PhaseInv, PoolInv, PoolExact, Provision
  PROVE  PoolInv' /\ PoolExact'
<1>0. PICK k, n : k = StoreKey(Current) /\ n = Len(pending.stores)
  OBVIOUS
<1> DEFINE new == <<"pending", n + 1>>
<1>1. /\ Provisioning /\ phase = "provision" /\ ~Refused(Current) /\ LoadStore(Current)
      /\ running' = running /\ todo' = todo /\ phase' = phase
  BY DEF Provision, Provisioning
<1>2. /\ n \in Nat /\ n < Len(pending.cfg) /\ DOMAIN pending.stores = 1 .. n
      /\ pending = [cfg |-> pending.cfg, stores |-> pending.stores]
      /\ pending.stores \in Seq(StoreIds)
      /\ Current \in Settings
  BY <1>0, <1>1, ConfigFacts DEF Provisioning, Current
<1>3. k \in PoolKeys /\ DOMAIN pool = PoolKeys /\ StoreTypeOK
  BY <1>0, <1>1, <1>2, AcceptedKey, TypeParts DEF StoreTypeOK
<1>4. PICK i \in StoreIds :
        /\ pending' = [pending EXCEPT !.stores = Append(@, i)]
        /\ \/ pool[k].refs > 0 /\ i = pool[k].id /\ store' = store
              /\ pool' = [pool EXCEPT ![k].refs = @ + 1]
           \/ pool[k].refs = 0 /\ store[i].state = "closed"
              /\ store' = [store EXCEPT ![i] = NewStore(Current)]
              /\ pool' = [pool EXCEPT ![k] = [refs |-> 1, id |-> i]]
  <2>1. pool[k].refs \in Nat
    BY <1>3 DEF StoreTypeOK
  <2>2. CASE pool[k].refs > 0
    <3>1. pool[k].id \in StoreIds
      BY <1>3, <2>1, <2>2 DEF PoolInv
    <3> QED BY <1>0, <1>1, <2>2, <3>1 DEF LoadStore
  <2>3. CASE pool[k].refs = 0
    BY <1>0, <1>1, <2>3 DEF LoadStore, Forgotten
  <2> QED BY <2>1, <2>2, <2>3
<1>5. /\ pending'.cfg = pending.cfg /\ pending'.stores = Append(pending.stores, i)
      /\ DOMAIN pending'.stores = 1 .. n + 1 /\ pending'.stores[n + 1] = i
      /\ \A j \in 1 .. n : pending'.stores[j] = pending.stores[j]
  <2>1. pending'.cfg = pending.cfg /\ pending'.stores = Append(pending.stores, i)
    BY <1>2, <1>4
  <2> QED BY <1>2, <2>1, AppendProperties, LenProperties
<1>6. Slots = 1 .. n /\ Slots' = (1 .. n) \cup {n + 1} /\ n + 1 \notin 1 .. n
  BY <1>1, <1>2, <1>5 DEF Slots
<1>7. StoreKey(pending.cfg[n + 1]) = k
  BY <1>0 DEF Current
<1>8. \A h : \A u : u \in Users(h)' <=> u \in Users(h) \/ (h = k /\ u = new)
  <2> SUFFICES ASSUME NEW h, NEW u
               PROVE  u \in Users(h)' <=> u \in Users(h) \/ (h = k /\ u = new)
    OBVIOUS
  <2>1. (\E j \in Slots' : StoreKey(pending'.cfg[j]) = h /\ u = <<"pending", j>>)
          <=> \/ \E j \in Slots : StoreKey(pending.cfg[j]) = h /\ u = <<"pending", j>>
              \/ h = k /\ u = new
    BY <1>5, <1>6, <1>7
  <2>2. InUse(h, u)' <=> InUse(h, u) \/ (h = k /\ u = new)
    BY <1>1, <2>1 DEF InUse
  <2> QED BY <2>2, UsersAre
<1>9. \A h : Users(h)' = IF h = k THEN Users(h) \cup {new} ELSE Users(h)
  BY <1>8
<1>10. new \notin Users(k)
  BY <1>6, UsersAre DEF InUse
<1>11. /\ \A h : \A u \in Users(h) : StoreOf(u)' = StoreOf(u)
       /\ StoreOf(new)' = i
  <2>1. ASSUME NEW h, NEW u \in Users(h)
        PROVE  StoreOf(u)' = StoreOf(u)
    <3>1. CASE \E j \in DOMAIN running.stores : u = <<"running", j>>
      BY <1>1, <3>1 DEF StoreOf
    <3>2. CASE \E j \in Slots : u = <<"pending", j>>
      <4>1. PICK j \in 1 .. n : u = <<"pending", j>>
        BY <1>6, <3>2
      <4>2. pending'.stores[j] = pending.stores[j]
        BY <1>5
      <4>3. u[1] = "pending" /\ u[2] = j
        BY <4>1
      <4> QED BY <4>2, <4>3 DEF StoreOf
    <3> QED BY <3>1, <3>2, UsersAre DEF InUse
  <2>2. StoreOf(new)' = i
    BY <1>5 DEF StoreOf
  <2> QED BY <2>1, <2>2
<1>12. Cardinality(Users(k)') = Cardinality(Users(k)) + 1
  BY <1>9, <1>10, UsersFinite, FS_AddElement
<1>13. \A h \in PoolKeys : /\ pool[h].refs = Cardinality(Users(h))
                           /\ pool[h].refs \in Nat
                           /\ pool[h].refs # 0 => pool[h].id \in StoreIds
                                                  /\ store[pool[h].id].state = "open"
                           /\ \A u \in Users(h) : pool[h].refs # 0 /\ StoreOf(u) = pool[h].id
  BY <1>3, UsersFinite, FS_EmptySet DEF PoolExact, PoolInv, StoreTypeOK
<1> HIDE DEF new
<1>14. CASE pool[k].refs > 0 /\ i = pool[k].id /\ store' = store
            /\ pool' = [pool EXCEPT ![k].refs = @ + 1]
  <2>1. /\ pool'[k].refs = pool[k].refs + 1 /\ pool'[k].id = i /\ DOMAIN pool' = PoolKeys
        /\ \A h \in PoolKeys : pool'[h].id = pool[h].id /\ (h # k => pool'[h] = pool[h])
    BY <1>3, <1>14 DEF StoreTypeOK
  <2>2. PoolInv'
    BY <1>3, <1>13, <1>14, <2>1 DEF PoolInv
  <2>3. \A h \in PoolKeys : pool'[h].refs = Cardinality(Users(h)')
    BY <1>3, <1>9, <1>12, <1>13, <2>1
  <2>4. \A h \in PoolKeys : \A u \in Users(h)' :
          StoreOf(u)' = pool'[h].id /\ store'[pool'[h].id].state = "open"
    BY <1>3, <1>8, <1>11, <1>13, <1>14, <2>1
  <2>5. \A x \in StoreIds : store'[x].state = "open" => \E h \in DOMAIN pool' : pool'[h].id = x
    BY <1>3, <1>14, <2>1 DEF PoolExact
  <2> QED BY <2>1, <2>2, <2>3, <2>4, <2>5 DEF PoolExact
<1>15. CASE pool[k].refs = 0 /\ store[i].state = "closed"
            /\ store' = [store EXCEPT ![i] = NewStore(Current)]
            /\ pool' = [pool EXCEPT ![k] = [refs |-> 1, id |-> i]]
  <2>1. /\ pool'[k].refs = 1 /\ pool'[k].id = i /\ DOMAIN pool' = PoolKeys
        /\ \A h \in PoolKeys : h # k => pool'[h] = pool[h]
        /\ store'[i].state = "open"
        /\ \A x \in StoreIds : x # i => store'[x] = store[x]
    BY <1>3, <1>15 DEF StoreTypeOK, NewStore
  <2>2. \A h \in PoolKeys : pool[h].refs # 0 => pool[h].id # i
    BY <1>13, <1>15
  <2>3. pool[k].id = Nil /\ \A x \in StoreIds : x # Nil
    BY <1>3, <1>15, MatcherAssumption DEF PoolInv, NoUse, MatcherAssumption
  <2>4. PoolInv'
    <3>1. ASSUME NEW h \in PoolKeys
          PROVE  IF pool'[h].refs = 0 THEN pool'[h] = NoUse
                 ELSE pool'[h].id \in StoreIds /\ store'[pool'[h].id].state = "open"
      <4>1. CASE h = k
        BY <2>1, <4>1
      <4>2. CASE h # k
        BY <1>3, <1>13, <2>1, <2>2, <4>2 DEF PoolInv
      <4> QED BY <4>1, <4>2
    <3>2. ASSUME NEW g \in PoolKeys, NEW h \in PoolKeys,
                 pool'[g].refs # 0, pool'[h].id = pool'[g].id
          PROVE  g = h
      <4>1. CASE g = k
        <5>1. h # k => pool[h].refs = 0
          BY <2>1, <2>2, <3>2, <4>1
        <5>2. h # k => pool[h].id = Nil
          BY <1>3, <5>1 DEF PoolInv, NoUse
        <5> QED BY <2>1, <2>3, <3>2, <4>1, <5>2
      <4>2. CASE g # k
        BY <1>3, <2>1, <2>2, <3>2, <4>2 DEF PoolInv
      <4> QED BY <4>1, <4>2
    <3> QED BY <2>1, <3>1, <3>2 DEF PoolInv
  <2>5. \A h \in PoolKeys : pool'[h].refs = Cardinality(Users(h)')
    BY <1>3, <1>9, <1>12, <1>13, <1>15, <2>1
  <2>6. \A h \in PoolKeys : \A u \in Users(h)' :
          StoreOf(u)' = pool'[h].id /\ store'[pool'[h].id].state = "open"
    BY <1>3, <1>8, <1>11, <1>13, <1>15, <2>1, <2>2
  <2>7. \A x \in StoreIds : store'[x].state = "open" => \E h \in DOMAIN pool' : pool'[h].id = x
    BY <1>3, <2>1, <2>3 DEF PoolExact
  <2> QED BY <2>1, <2>4, <2>5, <2>6, <2>7 DEF PoolExact
<1> QED BY <1>4, <1>14, <1>15

\* Cleanup takes one user away, and the store goes with the last one.
LEMMA CleanupKeepsPool ==
  ASSUME TypeOK, PhaseInv, PoolInv, PoolExact, NEW i \in todo, Cleanup(i)
  PROVE  PoolInv' /\ PoolExact'
<1>0. PICK k : k = StoreKey(pending.cfg[i])
  OBVIOUS
<1> DEFINE gone == <<"pending", i>>
<1>1. /\ Release(k) /\ todo' = todo \ {i}
      /\ running' = running /\ pending' = pending /\ phase' = phase
      /\ phase # "provision"
  BY <1>0 DEF Cleanup, PhaseInv
<1>2. k \in PoolKeys /\ DOMAIN pool = PoolKeys /\ StoreTypeOK
  <2>1. i \in DOMAIN pending.stores
    BY DEF TypeOK
  <2>2. pending.cfg[i] \in Settings /\ ~Refused(pending.cfg[i])
    BY <2>1, ConfigFacts DEF PhaseInv
  <2> QED BY <1>0, <2>2, AcceptedKey, TypeParts DEF StoreTypeOK
<1>3. Slots = todo /\ Slots' = todo \ {i}
  BY <1>1 DEF Slots
<1>4. \A h : \A u : u \in Users(h)' <=> u \in Users(h) /\ ~(h = k /\ u = gone)
  BY <1>0, <1>1, <1>3, UsersAre DEF InUse
<1>5. gone \in Users(k)
  BY <1>0, <1>3, UsersAre DEF InUse
<1>6. \A u : StoreOf(u)' = StoreOf(u)
  BY <1>1 DEF StoreOf
<1> HIDE DEF gone
<1>7. \A h : Users(h)' = IF h = k THEN Users(h) \ {gone} ELSE Users(h)
  BY <1>4
<1>8. IsFiniteSet(Users(k)') /\ Cardinality(Users(k)') = Cardinality(Users(k)) - 1
  BY <1>5, <1>7, UsersFinite, FS_RemoveElement
<1>9. \A h \in PoolKeys : /\ pool[h].refs = Cardinality(Users(h))
                          /\ pool[h].refs \in Nat
                          /\ pool[h].refs # 0 => pool[h].id \in StoreIds
                                                 /\ store[pool[h].id].state = "open"
                          /\ \A u \in Users(h) : pool[h].refs # 0 /\ StoreOf(u) = pool[h].id
  BY <1>2, UsersFinite, FS_EmptySet DEF PoolExact, PoolInv, StoreTypeOK
<1>10. CASE pool[k].refs > 1
  <2>1. pool' = [pool EXCEPT ![k].refs = @ - 1] /\ store' = store
    BY <1>1, <1>10 DEF Release
  <2>2. /\ pool'[k].refs = pool[k].refs - 1 /\ DOMAIN pool' = PoolKeys
        /\ \A h \in PoolKeys : pool'[h].id = pool[h].id /\ (h # k => pool'[h] = pool[h])
    BY <1>2, <2>1 DEF StoreTypeOK
  <2>3. PoolInv'
    BY <1>2, <1>9, <1>10, <2>1, <2>2 DEF PoolInv
  <2>4. \A h \in PoolKeys : pool'[h].refs = Cardinality(Users(h)')
    BY <1>2, <1>7, <1>8, <1>9, <2>2
  <2>5. \A h \in PoolKeys : \A u \in Users(h)' :
          StoreOf(u)' = pool'[h].id /\ store'[pool'[h].id].state = "open"
    BY <1>4, <1>6, <1>9, <2>1, <2>2
  <2>6. \A x \in StoreIds : store'[x].state = "open" => \E h \in DOMAIN pool' : pool'[h].id = x
    BY <1>2, <2>1, <2>2 DEF PoolExact
  <2> QED BY <2>2, <2>3, <2>4, <2>5, <2>6 DEF PoolExact
<1>11. CASE ~(pool[k].refs > 1)
  <2>1. /\ pool' = [pool EXCEPT ![k] = NoUse]
        /\ store' = [store EXCEPT ![pool[k].id].state = "closing"]
    BY <1>1, <1>11 DEF Release
  <2>2. pool[k].refs = 1 /\ Users(k)' = {}
    <3>1. pool[k].refs = 1
      BY <1>2, <1>5, <1>9, <1>11
    <3> QED BY <1>2, <1>8, <1>9, <3>1, FS_EmptySet
  <2>3. pool[k].id \in StoreIds
    BY <1>2, <1>9, <2>2
  <2>4. /\ pool'[k].refs = 0 /\ pool'[k] = NoUse /\ DOMAIN pool' = PoolKeys
        /\ \A h \in PoolKeys : h # k => pool'[h] = pool[h]
        /\ store'[pool[k].id].state = "closing"
        /\ \A x \in StoreIds : x # pool[k].id => store'[x] = store[x]
    BY <1>2, <2>1, <2>3 DEF StoreTypeOK, NoUse
  <2>5. \A h \in PoolKeys : h # k /\ pool[h].refs # 0 => pool[h].id # pool[k].id
    BY <1>2 DEF PoolInv
  <2>6. PoolInv'
    <3>1. ASSUME NEW h \in PoolKeys
          PROVE  IF pool'[h].refs = 0 THEN pool'[h] = NoUse
                 ELSE pool'[h].id \in StoreIds /\ store'[pool'[h].id].state = "open"
      <4>1. CASE h = k
        BY <2>4, <4>1
      <4>2. CASE h # k
        BY <1>2, <1>9, <2>4, <2>5, <4>2 DEF PoolInv
      <4> QED BY <4>1, <4>2
    <3>2. ASSUME NEW g \in PoolKeys, NEW h \in PoolKeys,
                 pool'[g].refs # 0, pool'[h].id = pool'[g].id
          PROVE  g = h
      <4>1. g # k /\ pool[g].refs # 0 /\ pool[g].id \in StoreIds
        BY <1>9, <2>4, <3>2
      <4>2. CASE h # k
        BY <1>2, <2>4, <3>2, <4>1, <4>2 DEF PoolInv
      <4>3. CASE h = k
        <5>1. pool'[g].id = Nil
          BY <2>4, <3>2, <4>3 DEF NoUse
        <5> QED BY <2>4, <4>1, <5>1, MatcherAssumption DEF MatcherAssumption
      <4> QED BY <4>2, <4>3
    <3> QED BY <2>4, <3>1, <3>2 DEF PoolInv
  <2>7. \A h \in PoolKeys : pool'[h].refs = Cardinality(Users(h)')
    BY <1>2, <1>7, <1>9, <2>2, <2>4, FS_EmptySet
  <2>8. \A h \in PoolKeys : \A u \in Users(h)' :
          StoreOf(u)' = pool'[h].id /\ store'[pool'[h].id].state = "open"
    BY <1>4, <1>6, <1>9, <2>2, <2>4, <2>5
  <2>9. \A x \in StoreIds : store'[x].state = "open" => \E h \in DOMAIN pool' : pool'[h].id = x
    BY <1>2, <2>3, <2>4 DEF PoolExact
  <2> QED BY <2>4, <2>6, <2>7, <2>8, <2>9 DEF PoolExact
<1> QED BY <1>10, <1>11

\* Every other step leaves each store with its users.
LEMMA OthersKeepPool ==
  ASSUME TypeOK, PhaseInv, PoolInv, PoolExact,
         \/ \E cfg \in Configs : Reload(cfg)
         \/ ProvisionFails \/ StartFails \/ CleanedUp
         \/ \E i \in StoreIds : Loaded(i) \/ Unloaded(i) \/ Destructed(i)
         \/ UNCHANGED <<running, pending, todo, phase, pool, store>>
  PROVE  PoolInv' /\ PoolExact'
<1>0. StoreTypeOK
  BY TypeParts
<1>1. pool' = pool /\ running' = running
  BY DEF Reload, ProvisionFails, CleanupRefused, StartFails, CleanedUp, Loaded, Unloaded,
         Destructed
<1>2. \A i \in StoreIds : store'[i].state = "open" <=> store[i].state = "open"
  BY <1>0 DEF Reload, ProvisionFails, CleanupRefused, StartFails, CleanedUp, Loaded,
              Unloaded, Destructed, Closed, StoreTypeOK
<1>3. \/ pending' = pending /\ Slots' = Slots
      \/ Slots = {} /\ Slots' = {}
  <2>1. CASE \E cfg \in Configs : Reload(cfg)
    <3>1. pending'.stores = << >> /\ todo = {} /\ phase = "idle" /\ phase' = "provision"
      BY <2>1 DEF Reload, Empty, PhaseInv
    <3> QED BY <3>1 DEF Slots
  <2>2. CASE ProvisionFails \/ StartFails
    BY <2>2 DEF ProvisionFails, StartFails, Provisioning, Slots
  <2>3. CASE CleanedUp
    BY <2>3 DEF CleanedUp, Slots
  <2>4. CASE \/ \E i \in StoreIds : Loaded(i) \/ Unloaded(i) \/ Destructed(i)
             \/ UNCHANGED <<running, pending, todo, phase, pool, store>>
    BY <2>4 DEF Loaded, Unloaded, Destructed, Slots
  <2> QED BY <2>1, <2>2, <2>3, <2>4
<1>4. \A k : \A u : u \in Users(k)' <=> u \in Users(k)
  BY <1>1, <1>3, UsersAre DEF InUse
<1>5. \A k : \A u \in Users(k) : StoreOf(u)' = StoreOf(u)
  <2> SUFFICES ASSUME NEW k, NEW u \in Users(k)
               PROVE  StoreOf(u)' = StoreOf(u)
    OBVIOUS
  <2>1. CASE \E i \in DOMAIN running.stores : u = <<"running", i>>
    BY <1>1, <2>1 DEF StoreOf
  <2>2. CASE Slots # {}
    BY <1>1, <1>3, <2>2 DEF StoreOf
  <2>3. (\E i \in DOMAIN running.stores : u = <<"running", i>>) \/ (\E i \in Slots : TRUE)
    BY UsersAre DEF InUse
  <2>4. (\E i \in Slots : TRUE) => Slots # {}
    OBVIOUS
  <2> QED BY <2>1, <2>2, <2>3, <2>4
<1>6. \A k : Users(k)' = Users(k)
  BY <1>4
<1> QED BY <1>1, <1>2, <1>5, <1>6, SameUsers

-----------------------------------------------------------------------------
(* The theorems. *)

\* Nothing is loaded, and nobody uses a store.
LEMMA MatcherInit == Init => IInv
<1> SUFFICES ASSUME Init PROVE IInv
  OBVIOUS
<1>1. /\ running = Empty /\ pending = Empty /\ todo = {} /\ phase = "idle"
      /\ pool = [k \in PoolKeys |-> NoUse] /\ store = [i \in StoreIds |-> Closed]
      /\ req = [r \in Requests |-> NoRequest]
  BY DEF Init, PoolKeys
<1>2. /\ Empty.stores = << >> /\ Empty.cfg = << >> /\ DOMAIN << >> = {} /\ Len(<< >>) = 0
  BY EmptySeq DEF Empty
<1>3. ConfigTypeOK
  BY <1>1, <1>2 DEF ConfigTypeOK
<1>4. StoreTypeOK
  BY <1>1 DEF StoreTypeOK, NoUse, Closed
<1>5. TypeOK
  BY <1>1, <1>3, <1>4, TypeParts DEF ReqTypeOK
<1>6. PhaseInv /\ PoolInv
  BY <1>1, <1>2 DEF PhaseInv, PoolInv, NoUse
<1>7. \A k \in PoolKeys : Users(k) = {}
  BY <1>1, <1>2 DEF Users
<1>8. PoolExact
  BY <1>1, <1>7, FS_EmptySet DEF PoolExact, NoUse, Closed
<1> QED BY <1>5, <1>6, <1>8 DEF IInv

\* Every step keeps the matchers' invariant.
LEMMA MatcherNext == IInv /\ [Next]_vars => IInv'
<1> SUFFICES ASSUME IInv, [Next]_vars PROVE IInv'
  OBVIOUS
<1>0. TypeOK /\ PhaseInv /\ PoolInv /\ PoolExact
  BY DEF IInv
<1>1. CASE UNCHANGED vars
  <2>1. TypeOK' /\ PhaseInv'
    BY <1>0, <1>1 DEF vars, TypeOK, PhaseInv
  <2>2. PoolInv' /\ PoolExact'
    BY <1>0, <1>1, OthersKeepPool DEF vars
  <2> QED BY <2>1, <2>2 DEF IInv
<1>2. CASE Next
  <2>1. TypeOK' /\ PhaseInv'
    BY <1>0, <1>2, TypeStep, PhaseStep
  <2>2. PoolInv' /\ PoolExact'
    <3>1. CASE \E r \in Requests : Arrive(r) \/ MatchWithError(r) \/ Answered(r)
      BY <1>0, <3>1, RequestStep, OthersKeepPool
    <3>2. CASE Provision \/ SwitchOver \/ \E i \in todo : Cleanup(i)
      BY <1>0, <3>2, ProvisionKeepsPool, SwitchKeepsPool, CleanupKeepsPool
    <3>3. CASE \/ \E cfg \in Configs : Reload(cfg)
               \/ ProvisionFails \/ StartFails \/ CleanedUp
               \/ \E i \in StoreIds : Loaded(i) \/ Unloaded(i) \/ Destructed(i)
      BY <1>0, <3>3, OthersKeepPool
    <3> QED BY <1>2, <3>1, <3>2, <3>3 DEF Next
  <2> QED BY <2>1, <2>2 DEF IInv
<1> QED BY <1>1, <1>2

\* The inductive invariant of the matchers holds in every state.
THEOREM MatcherInvariant == Spec => []IInv
BY MatcherInit, MatcherNext, PTL DEF Spec

\* Through every sequence of reloads, refused matchers and half-loaded
\* configurations, of any configurations and any number of matchers, the pool
\* counts exactly the matchers that use a store: none is torn down under one,
\* and none stays behind (store.go:43-53, 96-126, datacenterdb.go:124-199).
THEOREM PoolStaysExact == Spec => []PoolExact
<1>1. IInv => PoolExact
  BY DEF IInv
<1> QED BY <1>1, MatcherInvariant, PTL

\* Only a client that the lists say it of is matched, and one that they do is
\* matched whenever a database was consulted, the free one too and however the
\* address is written (datacenterdb.go:172-181, 206-267).
THEOREM MatchesAreRight == Spec => []MatchesRight
<1>1. Init => MatchesRight
  <2>1. NoRequest.answer = "none"
    BY DEF NoRequest
  <2>2. Init => \A r \in Requests : req[r].answer = "none"
    <3> HIDE DEF NoRequest
    <3> QED BY <2>1 DEF Init
  <2> QED BY <2>2 DEF MatchesRight
<1>2. IInv /\ MatchesRight /\ [Next]_vars => MatchesRight'
  <2> SUFFICES ASSUME IInv, MatchesRight, [Next]_vars
               PROVE  MatchesRight'
    OBVIOUS
  <2>1. CASE req' = req
    BY <2>1 DEF MatchesRight, Deserves
  <2>2. ASSUME NEW r \in Requests, Arrive(r) \/ MatchWithError(r) \/ Answered(r)
        PROVE  MatchesRight'
    <3>1. /\ DOMAIN req = Requests
          /\ \A q \in Requests : ReqTypeOK(req[q])
      BY TypeParts DEF IInv
    <3>2. /\ \A q \in Requests : q # r => req'[q] = req[q]
          /\ req'[r].answer = "match" => Deserves(req'[r])
          /\ req'[r].answer = "no match" /\ Deserves(req'[r]) => ~req'[r].consulted
      <4>1. CASE Arrive(r)
        BY <3>1, <4>1 DEF Arrive
      <4>2. CASE Answered(r)
        BY <3>1, <4>2 DEF Answered, NoRequest
      <4>3. CASE MatchWithError(r)
        <5> DEFINE m == req[r].matcher
                   addr == ClientAddr(req[r])
                   raw == IF req[r].client = Unset THEN req[r].peer ELSE req[r].client
        <5>1. req[r] # NoRequest /\ ReqTypeOK(req[r])
          BY <3>1, <4>3 DEF MatchWithError
        <5>2. PICK told \in {"match", "no match"}, consulted \in BOOLEAN :
                /\ req' = [req EXCEPT ![r].answer = told, ![r].consulted = consulted, ![r].store = Nil]
                /\ consulted => addr # Garbage
                /\ told = "match" <=> consulted /\ Matches(m, Record(Tier(m), addr))
          BY <4>3 DEF MatchWithError
        <5>3. /\ \A q \in Requests : q # r => req'[q] = req[q]
              /\ req'[r].answer = told /\ req'[r].consulted = consulted /\ req'[r].matcher = m
              /\ req'[r].client = req[r].client /\ req'[r].peer = req[r].peer
          BY <3>1, <5>1, <5>2 DEF ReqTypeOK
        <5>4. addr # Garbage =>
                raw # Garbage /\ addr.form = "plain" /\ addr.addr = raw.addr
          BY <5>1, MatcherAssumption
             DEF ReqTypeOK, ClientAddr, MatcherAssumption, Garbage, Unset
        <5>5. addr # Garbage =>
                (Matches(m, Record(Tier(m), addr)) <=> Matches(m, Truth[raw.addr]))
          BY <5>4 DEF Matches, Record, Tier
        <5>6. Deserves(req'[r]) <=> raw # Garbage /\ Matches(m, Truth[raw.addr])
          BY <5>3 DEF Deserves
        <5> QED BY <5>2, <5>3, <5>4, <5>5, <5>6
      <4> QED BY <2>2, <4>1, <4>2, <4>3
    <3> QED BY <3>2 DEF MatchesRight
  <2>3. req' = req \/ \E r \in Requests : Arrive(r) \/ MatchWithError(r) \/ Answered(r)
    BY DEF Next, Reload, Provision, ProvisionFails, StartFails, SwitchOver, Cleanup,
           CleanedUp, Loaded, Unloaded, Destructed, vars
  <2> QED BY <2>1, <2>2, <2>3
<1> QED BY <1>1, <1>2, MatcherInvariant, PTL DEF Spec

\* The running configuration's matchers have open stores, those of their keys.
RunningStores ==
  \A i \in DOMAIN running.cfg :
    LET h == StoreKey(running.cfg[i]) IN
    /\ running.stores[i] = pool[h].id /\ running.stores[i] \in StoreIds
    /\ store[running.stores[i]].state = "open"

\* That follows from the invariant.
LEMMA RunningStoresOpen == IInv => RunningStores
<1> SUFFICES ASSUME IInv PROVE RunningStores
  OBVIOUS
<1>0. /\ TypeOK /\ PhaseInv /\ PoolInv /\ PoolExact /\ StoreTypeOK /\ ConfigTypeOK
      /\ DOMAIN pool = PoolKeys
  BY TypeParts DEF IInv, StoreTypeOK
<1>1. DOMAIN running.cfg = DOMAIN running.stores
  <2>1. /\ Len(running.stores) = Len(running.cfg)
        /\ DOMAIN running.cfg = 1 .. Len(running.cfg)
        /\ DOMAIN running.stores = 1 .. Len(running.stores)
    BY <1>0, ConfigFacts DEF ConfigTypeOK
  <2> QED BY <2>1
<1>2. \A i \in DOMAIN running.cfg : StoreKey(running.cfg[i]) \in PoolKeys
  <2>1. \A i \in DOMAIN running.cfg : running.cfg[i] \in Settings /\ ~Refused(running.cfg[i])
    BY <1>0, <1>1, ConfigFacts DEF PhaseInv
  <2> QED BY <2>1, AcceptedKey
<1>3. \A i \in DOMAIN running.cfg :
        LET h == StoreKey(running.cfg[i]) IN
        /\ running.stores[i] = pool[h].id /\ running.stores[i] \in StoreIds
        /\ store[running.stores[i]].state = "open"
  <2> SUFFICES ASSUME NEW i \in DOMAIN running.cfg, NEW h, h = StoreKey(running.cfg[i])
               PROVE  /\ running.stores[i] = pool[h].id /\ running.stores[i] \in StoreIds
                      /\ store[running.stores[i]].state = "open"
    OBVIOUS
  <2>1. <<"running", i>> \in Users(h)
    BY <1>1, UsersAre DEF InUse
  <2>2. StoreOf(<<"running", i>>) = running.stores[i]
    BY DEF StoreOf
  <2>3. running.stores[i] \in StoreIds
    BY <1>0, <1>1, ConfigFacts
  <2> QED BY <1>0, <1>2, <2>1, <2>2, <2>3 DEF PoolExact
<1> QED BY <1>3 DEF RunningStores

\* A database that is loaded stays loaded through every reload whose new
\* configuration wants it, and through every reload that fails: the new
\* matchers get the store the old ones hold, and Caddy does not close it; only
\* the store itself may drop it, for a build without a version
\* (store.go:96-126, 289-291, 391-404).
THEOREM ReloadsKeepDatabases == Spec => ReloadKeepsDatabase
<1>0. (IInv => RunningStores)'
  BY RunningStoresOpen, PTL
<1>1. IInv /\ [Next]_vars =>
        [\A k \in DOMAIN pool :
           Serves(k) /\ (\E i \in DOMAIN running'.cfg : StoreKey(running'.cfg[i]) = k)
             => Serves(k)']_<<running, pending, todo, phase, pool>>
  <2> SUFFICES ASSUME IInv, Next, NEW k \in DOMAIN pool, Serves(k),
                      ~(UNCHANGED <<running, pending, todo, phase, pool>>),
                      \E i \in DOMAIN running'.cfg : StoreKey(running'.cfg[i]) = k
               PROVE  Serves(k)'
    BY DEF vars
  <2>0. /\ StoreTypeOK /\ ConfigTypeOK /\ TypeOK /\ PhaseInv /\ PoolInv /\ PoolExact
        /\ DOMAIN pool = PoolKeys
    BY TypeParts DEF IInv, StoreTypeOK
  <2>1. RunningStores /\ RunningStores'
    BY <1>0, MatcherNext, RunningStoresOpen
  <2>4. PICK i \in DOMAIN running.cfg :
          StoreKey(running.cfg[i]) = k /\ store[running.stores[i]].loaded
    BY DEF Serves
  <2>5. PICK x \in StoreIds : x = running.stores[i] /\ x = pool[k].id /\ store[x].loaded
                              /\ store[x].state = "open"
    BY <2>1, <2>4 DEF RunningStores
  <2>6. store'[x].loaded
    <3>1. CASE Provision
      <4>1. store' = store \/ \E y \in StoreIds : /\ store[y].state = "closed"
                                /\ store' = [store EXCEPT ![y] = NewStore(Current)]
        BY <3>1 DEF Provision, LoadStore, Forgotten
      <4> QED BY <2>0, <2>5, <4>1 DEF StoreTypeOK
    <3>2. ASSUME NEW j \in todo, Cleanup(j) PROVE store'[x].loaded
      <4>1. store' = store \/ \E y : store' = [store EXCEPT ![y].state = "closing"]
        BY <3>2 DEF Cleanup, Release
      <4> QED BY <2>0, <2>5, <4>1 DEF StoreTypeOK
    <3>3. ~(\E y \in StoreIds : Loaded(y) \/ Unloaded(y) \/ Destructed(y))
      BY DEF Loaded, Unloaded, Destructed
    <3>5. CASE store' = store
      BY <2>5, <3>5
    <3> QED BY <3>1, <3>2, <3>3, <3>5
            DEF Next, Reload, ProvisionFails, CleanupRefused, StartFails, SwitchOver,
                CleanedUp, Arrive, MatchWithError, Answered
  <2>7. CASE running' = running
    <3>1. i \in DOMAIN running'.cfg /\ running'.stores[i] = x /\ StoreKey(running'.cfg[i]) = k
      BY <2>4, <2>5, <2>7
    <3>2. store'[x].state = "open"
      BY <2>1, <3>1 DEF RunningStores
    <3> QED BY <2>6, <3>1, <3>2 DEF Serves
  <2>8. CASE SwitchOver
    <3>1. running' = pending /\ phase = "provision" /\ ~Provisioning
      BY <2>8 DEF SwitchOver
    <3>2. PICK j \in DOMAIN pending.cfg : StoreKey(pending.cfg[j]) = k
      BY <3>1
    <3>3. DOMAIN pending.cfg = DOMAIN pending.stores
      <4>1. /\ Len(pending.stores) <= Len(pending.cfg)
            /\ Len(pending.cfg) \in Nat /\ Len(pending.stores) \in Nat
            /\ DOMAIN pending.cfg = 1 .. Len(pending.cfg)
            /\ DOMAIN pending.stores = 1 .. Len(pending.stores)
        BY <2>0, ConfigFacts DEF ConfigTypeOK
      <4>2. Len(pending.stores) = Len(pending.cfg)
        BY <3>1, <4>1 DEF Provisioning
      <4> QED BY <4>1, <4>2
    <3>4. <<"pending", j>> \in Users(k)
      BY <3>1, <3>2, <3>3, UsersAre DEF InUse, Slots
    <3>5. StoreOf(<<"pending", j>>) = pending.stores[j]
      BY DEF StoreOf
    <3>6. pending.stores[j] = x
      BY <2>0, <2>5, <3>4, <3>5 DEF PoolExact
    <3>7. store'[x].state = "open"
      BY <2>1, <3>1, <3>2, <3>6 DEF RunningStores
    <3> QED BY <2>6, <3>1, <3>2, <3>6, <3>7 DEF Serves
  <2>9. running' = running \/ SwitchOver
    BY DEF Next, Reload, Provision, ProvisionFails, StartFails, Cleanup, CleanedUp, Loaded,
           Unloaded, Destructed, Arrive, MatchWithError, Answered
  <2> QED BY <2>7, <2>8, <2>9
<1> QED BY <1>1, MatcherInvariant, PTL DEF Spec, ReloadKeepsDatabase
=============================================================================
