------------------------ MODULE FetchService_proofs ------------------------
(***************************************************************************)
(* What the fetch service promises, for any number of publishers, requests *)
(* and versions: the lock is never lost, no request is answered from an    *)
(* index older than the server already had or than indexCacheTTL allows,   *)
(* and what was in the bucket can be downloaded.                           *)
(***************************************************************************)
EXTENDS FetchService, Publish_proofs

\* What FindVersion returns (FindVersion, index.go:94-102): an entry for id,
\* or None when the list has none.
LEMMA FindVersionFacts ==
  ASSUME PublishAssumption, NEW vs \in Stored, NEW id
  PROVE  /\ FindVersion(vs, id) = None <=> id \notin Ids(vs)
         /\ FindVersion(vs, id) # None =>
              /\ FindVersion(vs, id) \in Entries
              /\ FindVersion(vs, id).id = id
              /\ \E i \in DOMAIN vs : FindVersion(vs, id) = vs[i]
<1>0. /\ DOMAIN vs = 1 .. Len(vs) /\ Len(vs) \in Nat
      /\ \A i \in DOMAIN vs : vs[i] \in Entries
  BY LenProperties, ElementOfSeq DEF Stored
<1>1. CASE id \notin Ids(vs)
  BY <1>1 DEF FindVersion
<1>2. CASE id \in Ids(vs)
  <2> DEFINE S == {i \in DOMAIN vs : vs[i].id = id}
             First(i) == vs[i].id = id /\ \A j \in 1 .. (i - 1) : vs[j].id # id
  <2>1. PICK n \in S : \A m \in S : n <= m
    <3>1. S \in SUBSET Nat /\ S # {}
      BY <1>0, <1>2 DEF Ids
    <3> HIDE DEF S
    <3> QED BY <3>1, LeastNatural
  <2>2. \A j \in 1 .. (n - 1) : j \in DOMAIN vs /\ ~(n <= j)
    BY <1>0, <2>1
  <2>3. \E i \in DOMAIN vs : First(i)
    BY <2>1, <2>2
  <2>4. FindVersion(vs, id) = vs[CHOOSE i \in DOMAIN vs : First(i)]
    BY <1>2 DEF FindVersion
  <2>5. \E i \in DOMAIN vs : First(i) /\ FindVersion(vs, id) = vs[i]
    <3> HIDE DEF First
    <3> QED BY <2>3, <2>4
  <2> QED BY <1>0, <1>2, <2>5 DEF PublishAssumption
<1> QED BY <1>1, <1>2

\* What the server sees of a publisher's step: the bucket only ever gains.
LEMMA PublisherMoves ==
  ASSUME PublishAssumption, PublishInv, PublishNext
  PROVE  /\ PublishInv'
         /\ objects \subseteq objects'
         /\ Len(log) \in Nat /\ Len(log') \in Nat /\ Len(log) <= Len(log')
         /\ \A n \in 0 .. Len(log) : SubSeq(log', 1, n) = SubSeq(log, 1, n)
         /\ overlapped => overlapped'
         /\ index # None => index' # None
<1>1. PICK p \in Publishers : PublishStep(p)
  BY DEF PublishNext
<1>2. PublishInv' /\ (index # None => index' # None)
  BY <1>1, PublishInvStep, IndexStays
<1>3. log \in Stored /\ log' \in Stored
  BY <1>2 DEF PublishInv, PublishTypeOK
<1>4. objects \subseteq objects'
  BY <1>1, PublishFrame
<1>5. overlapped => overlapped'
  BY <1>1 DEF PublishStep, Start, PutDatabase, IndexAbsent, IndexPresent, GetIndex,
              SaveIndex, Abort, runVars
<1>6. CASE log' = log
  BY <1>2, <1>3, <1>4, <1>5, <1>6, LenProperties DEF Stored
<1>7. CASE pc[p] = "save" /\ log' = Append(log, entry[p])
  <2>1. entry[p] \in Entries
    BY <1>7 DEF PublishInv, PublishTypeOK, RunInv
  <2>2. /\ Len(log) \in Nat /\ Len(log') = Len(log) + 1
        /\ \A i \in 1 .. Len(log) : log'[i] = log[i]
        /\ \A i \in 1 .. Len(log) : log[i] \in Entries
    BY <1>3, <1>7, <2>1, AppendProperties, LenProperties, ElementOfSeq DEF Stored
  <2>3. ASSUME NEW n \in 0 .. Len(log)
        PROVE  SubSeq(log', 1, n) = SubSeq(log, 1, n)
    <3>1. n \in Int /\ 1 \in Int /\ n - 1 + 1 = n
      BY <2>2
    <3>2. \A i \in 1 .. n : log[i] \in Entries /\ log'[i] = log[i]
      BY <2>2
    <3>3. /\ SubSeq(log, 1, n) \in Seq(Entries)
          /\ Len(SubSeq(log, 1, n)) = IF 1 <= n THEN n - 1 + 1 ELSE 0
          /\ \A i \in 1 .. (n - 1 + 1) : SubSeq(log, 1, n)[i] = log[1 + i - 1]
      BY <3>1, <3>2, SubSeqProperties
    <3>4. /\ SubSeq(log', 1, n) \in Seq(Entries)
          /\ Len(SubSeq(log', 1, n)) = IF 1 <= n THEN n - 1 + 1 ELSE 0
          /\ \A i \in 1 .. (n - 1 + 1) : SubSeq(log', 1, n)[i] = log'[1 + i - 1]
      BY <3>1, <3>2, SubSeqProperties
    <3>5. Len(SubSeq(log', 1, n)) = Len(SubSeq(log, 1, n)) /\ Len(SubSeq(log, 1, n)) = n
      BY <2>2, <3>3, <3>4
    <3>6. \A i \in 1 .. n : SubSeq(log', 1, n)[i] = SubSeq(log, 1, n)[i]
      BY <3>2, <3>3, <3>4
    <3> QED BY <3>3, <3>4, <3>5, <3>6, SeqEqual
  <2> QED BY <1>2, <1>4, <1>5, <2>2, <2>3
<1> QED BY <1>1, <1>6, <1>7, PublishFrame

\* What a read of the index yields was the index just now.
LEMMA ReadNow ==
  ASSUME PublishAssumption, PublishInv
  PROVE  /\ Len(log) \in Nat
         /\ index = None => /\ Len(log) = 0
                            /\ WasIndex([gen |-> 0, versions |-> EmptyIndex])
         /\ index # None => WasIndex([gen |-> Len(log), versions |-> ReadIndex])
<1>1. log \in Stored /\ Len(log) \in Nat
  BY LenProperties DEF PublishInv, PublishTypeOK, Stored
<1>2. CASE index = None
  <2>1. log = << >> /\ Len(log) = 0
    BY <1>2, EmptySeq DEF PublishInv, IndexInv
  <2>2. Ids(EmptyIndex) = {}
    BY DEF Ids, EmptyIndex
  <2> QED BY <1>1, <1>2, <2>1, <2>2 DEF WasIndex
<1>3. CASE index # None
  <2>1. Ids(index) \subseteq objects
    BY <1>3 DEF PublishInv, IndexInv, Sound
  <2>2. SubSeq(log, 1, Len(log)) = log
    BY <1>1, SubSeqFull DEF Stored
  <2>3. ~overlapped => /\ index = Recent(log)
                       /\ log # << >>
    BY <1>3 DEF PublishInv, SerialInv
  <2>4. log # << >> => Len(log) # 0
    BY <1>1, EmptySeq DEF Stored
  <2>5. WasIndex([gen |-> Len(log), versions |-> index])
    <3> DEFINE x == [gen |-> Len(log), versions |-> index]
    <3>1. x.gen = Len(log) /\ x.versions = index
      OBVIOUS
    <3>2. ~overlapped => x.versions = IF x.gen = 0 THEN EmptyIndex
                                     ELSE Recent(SubSeq(log, 1, x.gen))
      <4> HIDE DEF x
      <4> QED BY <2>2, <2>3, <2>4, <3>1
    <3>3. x.gen <= Len(log) /\ Ids(x.versions) \subseteq objects
      <4> HIDE DEF x
      <4> QED BY <1>1, <2>1, <3>1
    <3> HIDE DEF x
    <3>4. WasIndex(x)
      BY <3>2, <3>3 DEF WasIndex
    <3> QED BY <3>4 DEF x
  <2> QED BY <1>1, <1>3, <2>5 DEF ReadIndex
<1> QED BY <1>1, <1>2, <1>3

-----------------------------------------------------------------------------
(* The publishers, the clock and a restart. *)

\* A publisher's step keeps all that the server knows true.
LEMMA PublisherKeeps ==
  ASSUME PublishAssumption, FetchInv, PublisherStep
  PROVE  FetchInv'
<1> USE DEF FetchInv, PublisherStep, cacheVars, requestVars
<1>1. /\ PublishInv'
      /\ objects \subseteq objects'
      /\ Len(log) \in Nat /\ Len(log') \in Nat /\ Len(log) <= Len(log')
      /\ \A n \in 0 .. Len(log) : SubSeq(log', 1, n) = SubSeq(log, 1, n)
      /\ overlapped => overlapped'
      /\ index # None => index' # None
  BY PublisherMoves
<1>2. ASSUME NEW x \in IndexReads, WasIndex(x)
      PROVE  /\ x.gen <= Len(log') /\ Ids(x.versions) \subseteq objects'
             /\ ~overlapped' => x.versions = IF x.gen = 0 THEN EmptyIndex
                                            ELSE Recent(SubSeq(log', 1, x.gen))
  <2>1. x.gen \in Nat
    BY DEF IndexReads
  <2>2. /\ x.gen <= Len(log) /\ Ids(x.versions) \subseteq objects
        /\ ~overlapped => x.versions = IF x.gen = 0 THEN EmptyIndex
                                       ELSE Recent(SubSeq(log, 1, x.gen))
    BY <1>2 DEF WasIndex
  <2>3. x.gen <= Len(log') /\ x.gen \in 0 .. Len(log)
    BY <1>1, <2>1, <2>2
  <2>4. SubSeq(log', 1, x.gen) = SubSeq(log, 1, x.gen)
    BY <1>1, <2>3
  <2> HIDE DEF FetchInv, PublisherStep
  <2> QED BY <1>1, <2>2, <2>3, <2>4
<1>3. FetchTypeOK'
  BY <1>1 DEF FetchTypeOK, PublishInv
<1>4. LockInv'
  BY DEF LockInv, Reading
<1>5. CacheInv'
  <2>1. \A k \in 1 .. TTL : past[k] \in Nat /\ past[k] <= Len(log)
    BY DEF FetchTypeOK, CacheInv
  <2>2. \A k \in 1 .. TTL : past[k] <= Len(log')
    BY <1>1, <2>1
  <2>3. cached # None => cached \in IndexReads /\ WasIndex(cached)
    BY DEF FetchTypeOK, CacheInv
  <2>4. cached # None => WasIndex(cached)'
    BY <1>2, <2>3 DEF WasIndex
  <2> QED BY <2>2, <2>4 DEF CacheInv
<1>6. RequestInv'
  <2>1. \A r \in Requests : got[r] # None => WasIndex(got[r])'
    <3>1. \A r \in Requests : got[r] # None => got[r] \in IndexReads /\ WasIndex(got[r])
      BY DEF FetchTypeOK, RequestInv, Relies
    <3> QED BY <1>2, <3>1 DEF WasIndex
  <2> QED BY <1>1, <2>1 DEF RequestInv, Relies, Informed, CachedGen
<1>7. ReplyInv'
  BY <1>1 DEF ReplyInv, Answered
<1> QED BY <1>1, <1>3, <1>4, <1>5, <1>6, <1>7

\* A tick ages the cached index, and the past with it.
LEMMA TickKeeps ==
  ASSUME PublishAssumption, FetchAssumption, FetchInv, Tick
  PROVE  FetchInv'
<1> USE DEF FetchInv, Tick, requestVars
<1>1. PublishInv'
  BY PublishInvStutter
<1>2. objects' = objects /\ log' = log /\ index' = index /\ overlapped' = overlapped
  BY DEF publishVars, bucketVars, runVars
<1>3. TTL \in Nat /\ TTL # 0 /\ age \in 0 .. TTL /\ Len(log) \in Nat
  BY ReadNow DEF FetchAssumption, FetchTypeOK
<1>4. past \in [1 .. TTL -> Nat] /\ \A k \in 1 .. TTL : past[k] <= Len(log)
  BY DEF FetchTypeOK, CacheInv
<1>5. \A k \in 1 .. TTL :
        /\ k # 1 => k - 1 \in 1 .. TTL
        /\ past'[k] = IF k = 1 THEN Len(log) ELSE past[k - 1]
  BY <1>3
<1>6. \A k \in 1 .. TTL : past'[k] \in Nat /\ past'[k] <= Len(log)
  BY <1>3, <1>4, <1>5
<1>7. past' \in [1 .. TTL -> Nat]
  BY <1>6
<1>8. FetchTypeOK'
  <2>1. age' \in 0 .. TTL
    BY <1>3
  <2> QED BY <1>1, <1>7, <2>1 DEF FetchTypeOK, PublishInv
<1>9. LockInv'
  BY DEF LockInv, Reading
<1>10. CacheInv'
  <2>1. \A k \in 1 .. TTL : k > age' => k # 1 /\ k - 1 > age
    BY <1>3
  <2>2. cached # None => \A k \in 1 .. TTL : k > age' => cached.gen >= past'[k]
    BY <1>5, <2>1 DEF CacheInv
  <2>3. cached # None => WasIndex(cached)'
    BY <1>2 DEF CacheInv, WasIndex
  <2> QED BY <1>2, <1>6, <2>2, <2>3 DEF CacheInv
<1>11. RequestInv'
  BY <1>2 DEF RequestInv, Relies, WasIndex, Informed, CachedGen
<1>12. ReplyInv'
  BY <1>2 DEF ReplyInv, Answered
<1> QED BY <1>1, <1>8, <1>9, <1>10, <1>11, <1>12

\* A restart forgets the cache and every request.
LEMMA RestartKeeps ==
  ASSUME PublishAssumption, FetchAssumption, FetchInv, Restart
  PROVE  FetchInv'
<1> USE DEF FetchInv, Restart
<1>1. PublishInv'
  BY PublishInvStutter
<1>2. objects' = objects /\ log' = log /\ index' = index /\ overlapped' = overlapped
  BY DEF publishVars, bucketVars, runVars
<1>3. \A r \in Requests :
        /\ at'[r] = "idle" /\ req'[r] = NoRequest /\ got'[r] = None
        /\ resp'[r] = None /\ before'[r] = NothingBefore
  OBVIOUS
<1>4. FetchTypeOK'
  <2>1. TTL \in Nat
    BY DEF FetchAssumption
  <2>2. PublishTypeOK'
    BY <1>1 DEF PublishInv
  <2>3. /\ up' \in BOOLEAN /\ mu' \in Requests \cup {None}
        /\ cached' \in IndexReads \cup {None} /\ age' \in 0 .. TTL
        /\ past' \in [1 .. TTL -> Nat]
    <3>1. past \in [1 .. TTL -> Nat]
      BY DEF FetchTypeOK
    <3>2. past' = past /\ mu' = None /\ cached' = None /\ age' = 0
      OBVIOUS
    <3>3. up' \in BOOLEAN
      OBVIOUS
    <3> HIDE DEF FetchInv, Restart
    <3> QED BY <2>1, <3>1, <3>2, <3>3
  <2>4. /\ at' \in [Requests -> {"idle"}]
        /\ req' \in [Requests -> {NoRequest}]
        /\ got' \in [Requests -> {None}]
        /\ resp' \in [Requests -> {None}]
        /\ before' \in [Requests -> {NothingBefore}]
    OBVIOUS
  <2>5. /\ NoRequest \in [kind : {"New", "List", "Info", "Fetch", None},
                         id : Versions \cup {Malformed, None}]
        /\ NothingBefore \in [objects : SUBSET Versions, gen : Nat]
    BY DEF NoRequest, NothingBefore
  <2> HIDE DEF FetchInv, Restart
  <2> QED BY <2>2, <2>3, <2>4, <2>5 DEF FetchTypeOK
<1>5. LockInv'
  BY <1>3 DEF LockInv, Reading, FetchAssumption
<1>6. CacheInv'
  BY <1>2 DEF CacheInv
<1>7. RequestInv'
  BY <1>3 DEF RequestInv, Relies, Informed, CachedGen, NothingBefore
<1>8. ReplyInv'
  BY <1>3 DEF ReplyInv, Answered
<1> QED BY <1>1, <1>4, <1>5, <1>6, <1>7, <1>8

-----------------------------------------------------------------------------
(* A step of a request. *)

\* What the parts of an answer are.
LEMMA AnswerParts ==
  /\ \A code \in {"ok", "NotFound", "Unavailable", "InvalidArgument"} :
       /\ Failure(code) \in Answers /\ Failure(code).code = code
       /\ Failure(code).version = None /\ Failure(code).url = None
  /\ \A vs \in Stored :
       /\ Listing(vs) \in Answers /\ Listing(vs).code = "ok"
       /\ Listing(vs).version = None /\ Listing(vs).url = None
  /\ \A v \in Provenance :
       /\ Metadata(v) \in Answers /\ Metadata(v).code = "ok"
       /\ Metadata(v).version = v /\ Metadata(v).url = None
  /\ \A v \in Provenance :
       /\ Download(v) \in Answers /\ Download(v).code = "ok"
       /\ Download(v).version = v /\ Download(v).url = v.id
<1>1. << >> \in Stored
  BY DEF Stored
<1>2. ASSUME NEW code \in {"ok", "NotFound", "Unavailable", "InvalidArgument"}
      PROVE  /\ Failure(code) \in Answers /\ Failure(code).code = code
             /\ Failure(code).version = None /\ Failure(code).url = None
  BY <1>1 DEF Failure, Answers
<1>3. ASSUME NEW vs \in Stored
      PROVE  /\ Listing(vs) \in Answers /\ Listing(vs).code = "ok"
             /\ Listing(vs).version = None /\ Listing(vs).url = None
  BY DEF Listing, Failure, Answers
<1>4. ASSUME NEW v \in Provenance
      PROVE  /\ Metadata(v) \in Answers /\ Metadata(v).code = "ok"
             /\ Metadata(v).version = v /\ Metadata(v).url = None
  BY <1>1 DEF Metadata, Failure, Answers
<1>5. ASSUME NEW v \in Provenance
      PROVE  /\ Download(v) \in Answers /\ Download(v).code = "ok"
             /\ Download(v).version = v /\ Download(v).url = v.id
  BY <1>1 DEF Download, Failure, Answers, Provenance
<1> QED BY <1>2, <1>3, <1>4, <1>5

\* The requests that a step of r leaves alone.
Apart(r) ==
  \A s \in Requests \ {r} :
    /\ at'[s] = at[s] /\ req'[s] = req[s] /\ got'[s] = got[s]
    /\ resp'[s] = resp[s] /\ before'[s] = before[s]

\* Only the request that stores what it read can disturb another one, and it
\* holds the lock.
LEMMA ApartKeeps ==
  ASSUME FetchAssumption, FetchInv, UNCHANGED <<publishVars, past>>,
         NEW r \in Requests, Apart(r),
         cached' = cached \/ (at[r] = "store" /\ cached' = got[r])
  PROVE  /\ CachedGen \in Nat /\ CachedGen' \in Nat /\ CachedGen <= CachedGen'
         /\ \A s \in Requests \ {r} : Relies(s)' /\ Answered(s)'
<1> USE DEF FetchInv
<1>1. /\ objects' = objects /\ log' = log /\ index' = index
      /\ overlapped' = overlapped /\ past' = past
  BY DEF publishVars, bucketVars, runVars
<1>2. CachedGen \in Nat
  BY DEF CachedGen, FetchTypeOK, IndexReads
<1>3. CASE cached' = cached
  <2>1. CachedGen' = CachedGen
    BY <1>3 DEF CachedGen
  <2>2. ASSUME NEW s \in Requests \ {r}
        PROVE  Relies(s)' /\ Answered(s)'
    <3>1. Relies(s) /\ Answered(s)
      BY DEF RequestInv, ReplyInv
    <3>2. /\ at'[s] = at[s] /\ req'[s] = req[s] /\ got'[s] = got[s]
          /\ resp'[s] = resp[s] /\ before'[s] = before[s]
      BY DEF Apart
    <3> QED BY <1>1, <2>1, <3>1, <3>2 DEF Relies, Answered, WasIndex, Informed
  <2> QED BY <1>2, <2>1, <2>2
<1>4. CASE at[r] = "store" /\ cached' = got[r]
  <2>1. got[r] # None /\ got[r] \in IndexReads /\ got[r].gen >= CachedGen
    BY <1>4 DEF FetchTypeOK, RequestInv, Relies, Informed
  <2>2. CachedGen' = got[r].gen /\ got[r].gen \in Nat
    BY <1>4, <2>1 DEF CachedGen, IndexReads
  <2>3. CachedGen <= CachedGen' /\ CachedGen' \in Nat
    BY <1>2, <2>1, <2>2
  <2>4. \A s \in Requests \ {r} : at[s] # "store"
    BY <1>4 DEF LockInv, Reading
  <2>5. ASSUME NEW s \in Requests \ {r}
        PROVE  Relies(s)' /\ Answered(s)'
    <3>1. Relies(s) /\ Answered(s)
      BY DEF RequestInv, ReplyInv
    <3>2. /\ at'[s] = at[s] /\ req'[s] = req[s] /\ got'[s] = got[s]
          /\ resp'[s] = resp[s] /\ before'[s] = before[s]
      BY DEF Apart
    <3>3. before'[s].gen <= CachedGen'
      <4>1. before[s].gen \in Nat /\ before[s].gen <= CachedGen
        BY <3>1 DEF Relies, FetchTypeOK
      <4> QED BY <1>2, <2>3, <3>2, <4>1
    <3>4. at'[s] # "store"
      BY <2>4, <3>2
    <3> QED BY <1>1, <3>1, <3>2, <3>3, <3>4 DEF Relies, Answered, WasIndex, Informed
  <2> QED BY <1>2, <2>3, <2>5
<1> QED BY <1>3, <1>4

\* What a request that has the index finds there.
LEMMA LookedUp ==
  ASSUME PublishAssumption, FetchAssumption, FetchInv,
         NEW r \in Requests, Informed(r)
  PROVE  LET v == FindVersion(got[r].versions, req[r].id) IN
         /\ got[r] \in IndexReads /\ got[r].versions \in Stored
         /\ WasIndex(got[r])
         /\ v # None => /\ v \in Entries /\ v \in Provenance
                        /\ v.id = req[r].id /\ v.id \in objects
<1> USE DEF FetchInv
<1>1. got[r] # None /\ got[r] \in IndexReads /\ WasIndex(got[r])
  BY DEF FetchTypeOK, RequestInv, Relies
<1>2. got[r].versions \in Stored
  BY <1>1 DEF IndexReads
<1> DEFINE vs == got[r].versions
           v == FindVersion(vs, req[r].id)
<1>3. /\ v = None <=> req[r].id \notin Ids(vs)
      /\ v # None => v \in Entries /\ v.id = req[r].id
  BY <1>2, FindVersionFacts
<1>4. Ids(vs) \subseteq objects
  BY <1>1 DEF WasIndex
<1>5. \A e \in Entries : e \in Provenance
  BY DEF Entries, Provenance
<1> HIDE DEF v
<1> QED BY <1>1, <1>2, <1>3, <1>4, <1>5 DEF v

\* What a step of request r changes.
LEMMA ServeFrame ==
  ASSUME PublishAssumption, FetchAssumption, FetchInv, NEW r \in Requests, Serve(r)
  PROVE  /\ FetchTypeOK'
         /\ UNCHANGED <<publishVars, past>>
         /\ Apart(r)
         /\ cached' = cached \/ (at[r] = "store" /\ cached' = got[r])
<1> USE DEF FetchInv, GoTo
<1>1. UNCHANGED <<publishVars, past>>
  BY DEF Serve, Lock, ListIndex, LoadIndex, LoadFails, Store, ResolveList, ResolveInfo,
         ResolveFetch, CheckObject, Presign, CallFails, Return
<1>2. PublishTypeOK' /\ past' = past
  BY <1>1, PublishInvStutter DEF PublishInv
<1> DEFINE Labels == {"idle", "lock", "exists", "get", "store", "resolve",
                      "check", "presign", "replied"}
           Asked == [kind : {"New", "List", "Info", "Fetch", None},
                     id : Versions \cup {Malformed, None}]
           Seen == [objects : SUBSET Versions, gen : Nat]
<1>3. /\ at \in [Requests -> Labels] /\ req \in [Requests -> Asked]
      /\ got \in [Requests -> IndexReads \cup {None}]
      /\ resp \in [Requests -> Answers \cup {None}]
      /\ before \in [Requests -> Seen]
      /\ up \in BOOLEAN /\ mu \in Requests \cup {None}
      /\ cached \in IndexReads \cup {None} /\ age \in 0 .. TTL
      /\ past \in [1 .. TTL -> Nat]
  BY DEF FetchTypeOK
<1> HIDE DEF Asked, Seen, FetchInv
<1>4. \E a \in Labels : at' = [at EXCEPT ![r] = a]
  BY <1>3 DEF Serve, Lock, ListIndex, LoadIndex, LoadFails, Store, ResolveList, ResolveInfo,
         ResolveFetch, CheckObject, Presign, CallFails, Return, Reply
<1>5. \E q \in Asked : req' = [req EXCEPT ![r] = q]
  <2>1. NoRequest \in Asked
    BY DEF NoRequest, Asked
  <2>2. req = [req EXCEPT ![r] = req[r]] /\ req[r] \in Asked
    BY <1>3
  <2>3. req' = req \/ req' = [req EXCEPT ![r] = NoRequest]
    BY DEF Serve, Lock, ListIndex, LoadIndex, LoadFails, Store, ResolveList, ResolveInfo,
         ResolveFetch, CheckObject, Presign, CallFails, Return
  <2> QED BY <2>1, <2>2, <2>3
<1>6. \E b \in Seen : before' = [before EXCEPT ![r] = b]
  <2>1. NothingBefore \in Seen
    BY DEF NothingBefore, Seen
  <2>2. before = [before EXCEPT ![r] = before[r]] /\ before[r] \in Seen
    BY <1>3
  <2>3. before' = before \/ before' = [before EXCEPT ![r] = NothingBefore]
    BY DEF Serve, Lock, ListIndex, LoadIndex, LoadFails, Store, ResolveList, ResolveInfo,
         ResolveFetch, CheckObject, Presign, CallFails, Return
  <2> QED BY <2>1, <2>2, <2>3
<1>7. \E g \in IndexReads \cup {None} : got' = [got EXCEPT ![r] = g]
  <2>1. [gen |-> 0, versions |-> EmptyIndex] \in IndexReads
    BY DEF IndexReads, EmptyIndex, Stored
  <2>2. at[r] = "get" => [gen |-> Len(log), versions |-> ReadIndex] \in IndexReads
    <3>1. at[r] = "get" => index # None
      BY DEF FetchInv, RequestInv, Relies
    <3>2. index # None => index \in Stored
      BY DEF FetchInv, FetchTypeOK, PublishTypeOK
    <3>3. Len(log) \in Nat
      BY ReadNow DEF FetchInv
    <3> QED BY <3>1, <3>2, <3>3 DEF ReadIndex, IndexReads
  <2>3. got = [got EXCEPT ![r] = got[r]] /\ got[r] \in IndexReads \cup {None}
    BY <1>3
  <2>4. CASE Lock(r)
    BY <1>3, <2>3, <2>4 DEF Lock
  <2>5. CASE ListIndex(r)
    BY <2>1, <2>3, <2>5 DEF ListIndex
  <2>6. CASE LoadIndex(r)
    BY <2>2, <2>6 DEF LoadIndex
  <2>7. CASE Return(r)
    BY <2>7 DEF Return
  <2>8. CASE got' = got
    BY <2>3, <2>8
  <2> QED BY <2>4, <2>5, <2>6, <2>7, <2>8 DEF Serve, LoadFails, Store, ResolveList,
             ResolveInfo, ResolveFetch, CheckObject, Presign, CallFails
<1>8. \E w \in Answers \cup {None} : resp' = [resp EXCEPT ![r] = w]
  <2>1. resp = [resp EXCEPT ![r] = resp[r]] /\ resp[r] \in Answers \cup {None}
    BY <1>3
  <2>2. CASE LoadFails(r) \/ CheckObject(r) \/ CallFails(r)
    BY <2>1, <2>2, AnswerParts DEF LoadFails, CheckObject, CallFails, Reply
  <2>3. CASE ResolveList(r)
    BY <2>3, AnswerParts, LookedUp DEF ResolveList, Reply, Informed
  <2>4. CASE ResolveInfo(r)
    BY <2>4, AnswerParts, LookedUp DEF ResolveInfo, Reply, Informed
  <2>5. CASE Presign(r)
    <3>1. Bare(req[r].id) \in Provenance
      <4>1. req[r].id \in Versions
        BY <1>3, <2>5 DEF Presign, FetchInv, RequestInv, Relies, Asked
      <4> QED BY <4>1 DEF Bare, Provenance
    <3> QED BY <2>5, <3>1, AnswerParts, LookedUp DEF Presign, Reply, Informed
  <2>6. CASE Return(r)
    BY <2>6 DEF Return
  <2>7. CASE resp' = resp
    BY <2>1, <2>7
  <2> QED BY <2>2, <2>3, <2>4, <2>5, <2>6, <2>7 DEF Serve, Lock, ListIndex, LoadIndex,
             Store, ResolveFetch
<1>9. /\ mu' \in Requests \cup {None} /\ cached' \in IndexReads \cup {None}
      /\ age' \in 0 .. TTL
  <2>1. 0 \in 0 .. TTL
    BY DEF FetchAssumption
  <2>2. got[r] \in IndexReads \cup {None}
    BY <1>3
  <2> QED BY <1>3, <2>1, <2>2 DEF Serve, Lock, ListIndex, LoadIndex, LoadFails, Store,
             ResolveList, ResolveInfo, ResolveFetch, CheckObject, Presign, CallFails,
             Return, cacheVars, MuAfterError
<1>10. up' \in BOOLEAN
  BY <1>3 DEF Serve, Lock, ListIndex, LoadIndex, LoadFails, Store, ResolveList, ResolveInfo,
         ResolveFetch, CheckObject, Presign, CallFails, Return
<1>11. /\ at' \in [Requests -> Labels] /\ req' \in [Requests -> Asked]
       /\ got' \in [Requests -> IndexReads \cup {None}]
       /\ resp' \in [Requests -> Answers \cup {None}]
       /\ before' \in [Requests -> Seen]
  BY <1>3, <1>4, <1>5, <1>6, <1>7, <1>8
<1>12. FetchTypeOK'
  BY <1>2, <1>3, <1>9, <1>10, <1>11 DEF FetchTypeOK, Asked, Seen
<1>13. Apart(r)
  BY <1>3, <1>4, <1>5, <1>6, <1>7, <1>8 DEF Apart
<1>14. cached' = cached \/ (at[r] = "store" /\ cached' = got[r])
  BY DEF Serve, Lock, ListIndex, LoadIndex, LoadFails, Store, ResolveList, ResolveInfo,
         ResolveFetch, CheckObject, Presign, CallFails, Return, cacheVars
<1> QED BY <1>1, <1>12, <1>13, <1>14

\* The lock: whoever reads the bucket holds it, and lets go on every way out.
LEMMA ServeLock ==
  ASSUME PublishAssumption, FetchAssumption, FetchInv, NEW r \in Requests, Serve(r)
  PROVE  LockInv'
<1>1. /\ at \in [Requests -> {"idle", "lock", "exists", "get", "store", "resolve",
                             "check", "presign", "replied"}]
      /\ None \notin Requests
      /\ \A s \in Requests : at[s] \in {"exists", "get", "store"} <=> mu = s
  BY DEF FetchInv, FetchTypeOK, LockInv, Reading, FetchAssumption
<1>2. \A s \in Requests \ {r} : at'[s] = at[s]
  BY ServeFrame DEF Apart
<1>3. CASE Lock(r)
  BY <1>1, <1>3 DEF Lock, GoTo, MuFree, LockInv, Reading
<1>4. CASE ListIndex(r) \/ LoadIndex(r)
  BY <1>1, <1>4 DEF ListIndex, LoadIndex, GoTo, cacheVars, LockInv, Reading
<1>5. CASE LoadFails(r)
  BY <1>1, <1>5 DEF LoadFails, Reply, GoTo, MuAfterError, LockInv, Reading
<1>6. CASE Store(r)
  BY <1>1, <1>6 DEF Store, GoTo, LockInv, Reading
<1>7. CASE \/ ResolveList(r) \/ ResolveInfo(r) \/ ResolveFetch(r) \/ CheckObject(r)
           \/ Presign(r) \/ CallFails(r) \/ Return(r)
  BY <1>1, <1>7 DEF ResolveList, ResolveInfo, ResolveFetch, CheckObject, Presign, CallFails,
         Return, Reply, GoTo, cacheVars, LockInv, Reading
<1> QED BY <1>3, <1>4, <1>5, <1>6, <1>7 DEF Serve

\* The cache: what is stored was read under the lock, and is as fresh as the
\* ticks since then.
LEMMA ServeCache ==
  ASSUME PublishAssumption, FetchAssumption, FetchInv, NEW r \in Requests, Serve(r)
  PROVE  CacheInv'
<1>1. past' = past /\ log' = log /\ objects' = objects /\ overlapped' = overlapped
  BY ServeFrame DEF publishVars, bucketVars, runVars
<1>2. CacheInv
  BY DEF FetchInv
<1>3. CASE cached' = cached /\ age' = age
  BY <1>1, <1>2, <1>3 DEF CacheInv, WasIndex
<1>4. CASE Store(r)
  <2>1. at[r] = "store" /\ cached' = got[r]
    BY <1>4 DEF Store
  <2>2. WasIndex(got[r]) /\ \A k \in 1 .. TTL : got[r].gen >= past[k]
    BY <2>1 DEF FetchInv, RequestInv, Relies, Informed
  <2> QED BY <1>1, <1>2, <2>1, <2>2 DEF CacheInv, WasIndex
<1> QED BY <1>3, <1>4 DEF Serve, Lock, ListIndex, LoadIndex, LoadFails, ResolveList,
         ResolveInfo, ResolveFetch, CheckObject, Presign, CallFails, Return, cacheVars

\* What request r itself relies on, through its own steps.
LEMMA ServeRelies ==
  ASSUME PublishAssumption, FetchAssumption, FetchInv, NEW r \in Requests, Serve(r)
  PROVE  Relies(r)'
<1>1. /\ past' = past /\ log' = log /\ objects' = objects /\ overlapped' = overlapped
      /\ index' = index
  BY ServeFrame DEF publishVars, bucketVars, runVars
<1>2. /\ FetchTypeOK /\ FetchTypeOK' /\ CacheInv /\ Relies(r)
  BY ServeFrame DEF FetchInv, RequestInv
<1>3. CachedGen \in Nat /\ CachedGen' \in Nat /\ CachedGen <= CachedGen'
  BY ServeFrame, ApartKeeps
<1>4. /\ before[r].gen \in Nat /\ Len(log) \in Nat
      /\ \A k \in 1 .. TTL : past[k] <= Len(log)
      /\ cached # None => /\ cached.gen = CachedGen /\ WasIndex(cached)
      /\ CachedGen <= Len(log)
  BY <1>2, ReadNow DEF FetchTypeOK, CacheInv, FetchInv, CachedGen, WasIndex
<1>5. CASE Lock(r)
  <2>1. /\ at[r] = "lock" /\ cached' = cached /\ req' = req /\ before' = before
        /\ \/ /\ got'[r] = cached /\ cached # None /\ at'[r] = "resolve"
           \/ got' = got /\ at'[r] = "exists"
    BY <1>2, <1>5 DEF Lock, Fresh, GoTo, FetchTypeOK
  <2> QED BY <1>1, <1>2, <1>3, <1>4, <2>1 DEF Relies, Informed, WasIndex, CachedGen
<1>6. CASE ListIndex(r)
  <2>1. /\ at[r] = "exists" /\ cached' = cached /\ req' = req /\ before' = before
    BY <1>6 DEF ListIndex, cacheVars
  <2>2. CASE index = None
    <3>1. /\ Len(log) = 0 /\ got'[r] = [gen |-> 0, versions |-> EmptyIndex]
          /\ at'[r] = "store" /\ WasIndex([gen |-> 0, versions |-> EmptyIndex])
      BY <1>2, <1>6, <2>2, ReadNow DEF ListIndex, IndexMissing, GoTo, FetchTypeOK, FetchInv
    <3>2. got'[r] # None /\ got'[r].gen = 0 /\ WasIndex(got'[r])
      <4>1. [gen |-> 0, versions |-> EmptyIndex] \in IndexReads
        BY DEF IndexReads, EmptyIndex, Stored
      <4>2. \A x \in IndexReads : x # None
        BY DEF FetchAssumption
      <4> QED BY <3>1, <4>1, <4>2
    <3>3. 0 >= before[r].gen /\ 0 >= CachedGen /\ \A k \in 1 .. TTL : 0 >= past[k]
      BY <1>2, <1>3, <1>4, <3>1 DEF FetchTypeOK, Relies
    <3> QED BY <1>1, <1>2, <1>3, <2>1, <3>1, <3>2, <3>3
            DEF Relies, Informed, WasIndex, CachedGen
  <2>3. CASE index # None
    <3>1. got' = got /\ at'[r] = "get"
      BY <1>2, <1>6, <2>3 DEF ListIndex, IndexMissing, GoTo, FetchTypeOK
    <3> QED BY <1>1, <1>2, <1>3, <2>1, <2>3, <3>1 DEF Relies, Informed, CachedGen
  <2> QED BY <2>2, <2>3
<1>7. CASE LoadIndex(r)
  <2>1. /\ at[r] = "get" /\ cached' = cached /\ req' = req /\ before' = before
    BY <1>7 DEF LoadIndex, cacheVars
  <2>2. /\ at'[r] = "store"
        /\ got'[r] = [gen |-> Len(log), versions |-> ReadIndex]
        /\ WasIndex([gen |-> Len(log), versions |-> ReadIndex])
    BY <1>2, <1>7, ReadNow DEF LoadIndex, GoTo, FetchTypeOK, FetchInv, Relies
  <2>3. got'[r] # None /\ got'[r].gen = Len(log) /\ WasIndex(got'[r])
    <3>1. index \in Stored
      BY <1>2, <1>7 DEF LoadIndex, Relies, FetchTypeOK, PublishTypeOK
    <3>2. [gen |-> Len(log), versions |-> ReadIndex] \in IndexReads
      BY <1>4, <3>1 DEF IndexReads, ReadIndex
    <3>3. \A x \in IndexReads : x # None
      BY DEF FetchAssumption
    <3> QED BY <2>2, <3>2, <3>3
  <2>4. /\ Len(log) >= before[r].gen /\ Len(log) >= CachedGen
        /\ \A k \in 1 .. TTL : Len(log) >= past[k]
    BY <1>2, <1>3, <1>4 DEF Relies, FetchTypeOK
  <2> QED BY <1>1, <1>2, <1>3, <2>1, <2>2, <2>3, <2>4
          DEF Relies, Informed, WasIndex, CachedGen
<1>8. CASE LoadFails(r)
  <2>1. /\ at[r] \in {"exists", "get"} /\ at'[r] = "replied"
        /\ cached' = cached /\ req' = req /\ before' = before /\ got' = got
    BY <1>2, <1>8 DEF LoadFails, Reply, GoTo, FetchTypeOK
  <2> QED BY <1>1, <1>2, <1>3, <2>1 DEF Relies, Informed, CachedGen
<1>9. CASE Store(r)
  <2>1. /\ at[r] = "store" /\ at'[r] = "resolve"
        /\ cached' = got[r] /\ req' = req /\ before' = before /\ got' = got
    BY <1>2, <1>9 DEF Store, GoTo, FetchTypeOK
  <2> QED BY <1>1, <1>2, <1>3, <1>4, <2>1 DEF Relies, Informed, WasIndex
<1>10. CASE ResolveList(r) \/ ResolveInfo(r) \/ CallFails(r) \/ Presign(r)
  <2>1. /\ at[r] \in {"resolve", "check", "presign"} /\ at'[r] = "replied"
        /\ cached' = cached /\ req' = req /\ before' = before /\ got' = got
    BY <1>2, <1>10 DEF ResolveList, ResolveInfo, CallFails, Presign, Reply, GoTo,
                       FetchTypeOK, cacheVars
  <2> QED BY <1>1, <1>2, <1>3, <2>1 DEF Relies, Informed, CachedGen, WasIndex
<1>11. CASE ResolveFetch(r) \/ CheckObject(r)
  <2>1. /\ at[r] \in {"resolve", "check"} /\ req[r].kind = "Fetch"
        /\ \/ at'[r] = "check"
           \/ at'[r] = "replied"
           \/ at'[r] = "presign" /\
                \/ FindVersion(got[r].versions, req[r].id) # None
                \/ req[r].id \in objects
        /\ cached' = cached /\ req' = req /\ before' = before /\ got' = got
    BY <1>2, <1>11 DEF ResolveFetch, CheckObject, AskBucket, Relies, Reply, GoTo,
                       FetchTypeOK, cacheVars
  <2> QED BY <1>1, <1>2, <1>3, <2>1 DEF Relies, Informed, CachedGen, WasIndex
<1>12. CASE Return(r)
  <2>1. /\ at'[r] = "idle" /\ got'[r] = None /\ before'[r] = NothingBefore
    BY <1>2, <1>12 DEF Return, GoTo, FetchTypeOK
  <2> QED BY <1>3, <2>1 DEF Relies, Informed, NothingBefore
<1> QED BY <1>5, <1>6, <1>7, <1>8, <1>9, <1>10, <1>11, <1>12 DEF Serve

\* What request r answers.
LEMMA ServeAnswered ==
  ASSUME PublishAssumption, FetchAssumption, FetchInv, NEW r \in Requests, Serve(r)
  PROVE  Answered(r)'
<1>1. objects' = objects
  BY ServeFrame DEF publishVars, bucketVars
<1>2. /\ FetchTypeOK /\ Relies(r) /\ Answered(r)
      /\ objects \subseteq Versions
  BY DEF FetchInv, FetchTypeOK, PublishTypeOK, RequestInv, ReplyInv
<1>3. CASE resp'[r] = None
  BY <1>3 DEF Answered
<1>4. CASE at[r] # "replied" /\ resp' = resp
  BY <1>2, <1>3, <1>4 DEF Answered
<1>5. CASE LoadFails(r) \/ CallFails(r)
  <2>1. at'[r] = "replied" /\ resp'[r] = Failure("Unavailable")
    BY <1>2, <1>5 DEF LoadFails, CallFails, Reply, GoTo, FetchTypeOK
  <2> QED BY <2>1, AnswerParts DEF Answered
<1>6. CASE ResolveList(r)
  <2>1. at'[r] = "replied" /\ resp'[r] = Listing(got[r].versions)
    BY <1>2, <1>6 DEF ResolveList, Reply, GoTo, FetchTypeOK
  <2>2. got[r].versions \in Stored
    BY <1>6, LookedUp DEF ResolveList, Informed
  <2> QED BY <2>1, <2>2, AnswerParts DEF Answered
<1> DEFINE v == FindVersion(got[r].versions, req[r].id)
<1>7. CASE ResolveInfo(r)
  <2>1. /\ at'[r] = "replied" /\ req' = req /\ got' = got /\ before' = before
        /\ req[r].kind = "Info"
        /\ resp'[r] = IF v = None THEN Failure("NotFound") ELSE Metadata(v)
    BY <1>2, <1>7 DEF ResolveInfo, Reply, GoTo, FetchTypeOK
  <2>2. got[r] # None /\ (v # None => v \in Provenance)
    BY <1>2, <1>7, LookedUp DEF ResolveInfo, Informed, Relies
  <2> HIDE DEF v
  <2>3. resp'[r].url = None /\ (resp'[r].version # None => resp'[r].version = v)
    BY <2>1, <2>2, AnswerParts
  <2> QED BY <2>1, <2>2, <2>3 DEF Answered, v
<1>8. CASE CheckObject(r) /\ resp' # resp
  <2>1. /\ at'[r] = "replied" /\ req' = req /\ got' = got /\ before' = before
        /\ resp'[r] = Failure("NotFound") /\ req[r].id \notin objects
    BY <1>2, <1>8 DEF CheckObject, AskBucket, Reply, GoTo, FetchTypeOK
  <2>2. req[r].id \notin before[r].objects
    BY <1>2, <2>1 DEF Relies
  <2> QED BY <2>1, <2>2, AnswerParts DEF Answered
<1>9. CASE Presign(r)
  <2> DEFINE w == IF v = None THEN Bare(req[r].id) ELSE v
  <2>1. /\ at'[r] = "replied" /\ req' = req /\ got' = got /\ before' = before
        /\ at[r] = "presign" /\ resp'[r] = Download(w)
    BY <1>2, <1>9 DEF Presign, Reply, GoTo, FetchTypeOK
  <2>2. /\ got[r] # None
        /\ v # None => v \in Provenance /\ v.id \in objects
        /\ v = None => req[r].id \in objects
    BY <1>2, <2>1, LookedUp DEF Informed, Relies
  <2>3. /\ v = None => /\ Bare(req[r].id) \in Provenance
                       /\ Bare(req[r].id).id \in objects /\ Bare(req[r].id).run = None
    BY <1>2, <2>2 DEF Bare, Provenance
  <2> HIDE DEF v
  <2>4. w \in Provenance /\ w.id \in objects /\ (w = v \/ w.run = None)
    BY <2>2, <2>3
  <2> HIDE DEF w
  <2>5. resp'[r].url \in objects /\ resp'[r].version = w /\ resp'[r].code = "ok"
    BY <2>1, <2>4, AnswerParts
  <2> QED BY <1>1, <2>1, <2>2, <2>4, <2>5 DEF Answered, v
<1>10. CASE Return(r)
  BY <1>2, <1>10 DEF Return, FetchTypeOK, Answered
<1>11. \/ at[r] # "replied" /\ resp' = resp
       \/ LoadFails(r) \/ CallFails(r) \/ ResolveList(r) \/ ResolveInfo(r)
       \/ CheckObject(r) /\ resp' # resp
       \/ Presign(r) \/ Return(r)
  BY DEF Serve, Lock, ListIndex, LoadIndex, Store, ResolveFetch, CheckObject
<1> QED BY <1>3, <1>4, <1>5, <1>6, <1>7, <1>8, <1>9, <1>10, <1>11

\* A step of a request that has arrived keeps the invariant.
LEMMA ServeKeeps ==
  ASSUME PublishAssumption, FetchAssumption, FetchInv, NEW r \in Requests, Serve(r)
  PROVE  FetchInv'
<1>1. PublishInv'
  BY ServeFrame, PublishInvStutter DEF FetchInv
<1>2. \A s \in Requests : Relies(s)' /\ Answered(s)'
  <2>1. \A s \in Requests \ {r} : Relies(s)' /\ Answered(s)'
    BY ServeFrame, ApartKeeps
  <2> QED BY <2>1, ServeRelies, ServeAnswered
<1>3. RequestInv' /\ ReplyInv'
  BY <1>2 DEF RequestInv, ReplyInv
<1> QED BY <1>1, <1>3, ServeFrame, ServeLock, ServeCache DEF FetchInv

\* A request that arrives notes what there is, and relies on nothing yet.
LEMMA ArriveKeeps ==
  ASSUME PublishAssumption, FetchAssumption, FetchInv, NEW r \in Requests,
         NEW kind \in {"New", "List", "Info", "Fetch"},
         NEW id \in Versions \cup {Malformed, None}, Arrive(r, kind, id)
  PROVE  FetchInv'
<1>1. /\ UNCHANGED <<publishVars, past>> /\ up' = up /\ cached' = cached /\ mu' = mu
      /\ age' = age /\ got' = got
  BY DEF Arrive, cacheVars
<1>2. /\ objects' = objects /\ log' = log /\ overlapped' = overlapped /\ index' = index
  BY <1>1 DEF publishVars, bucketVars, runVars
<1>3. PublishInv'
  BY <1>1, PublishInvStutter DEF FetchInv
<1>4. /\ FetchTypeOK /\ Relies(r) /\ Answered(r) /\ LockInv /\ CacheInv
      /\ objects \subseteq Versions /\ CachedGen \in Nat
  BY DEF FetchInv, FetchTypeOK, PublishTypeOK, RequestInv, ReplyInv, CachedGen, IndexReads
<1>5. at[r] = "idle" /\ got[r] = None /\ resp[r] = None
  <2>1. at[r] = "idle"
    BY DEF Arrive, Idle
  <2> QED BY <1>4, <2>1 DEF Relies, Answered, Informed
<1> DEFINE now == [objects |-> objects, gen |-> CachedGen]
           asked == [kind |-> kind, id |-> id]
           w == IF ValidVersionID(id) THEN None ELSE Failure("InvalidArgument")
           label == IF ValidVersionID(id) THEN "lock" ELSE "replied"
<1>6. /\ now \in [objects : SUBSET Versions, gen : Nat]
      /\ asked \in [kind : {"New", "List", "Info", "Fetch", None},
                    id : Versions \cup {Malformed, None}]
      /\ w \in Answers \cup {None}
  BY <1>4, AnswerParts
<1>7. /\ before' = [before EXCEPT ![r] = now]
      /\ req' = [req EXCEPT ![r] = asked]
      /\ at' = [at EXCEPT ![r] = label]
  BY DEF Arrive, Reply, GoTo
<1>8. resp' = [resp EXCEPT ![r] = w]
  <2>1. CASE ValidVersionID(id)
    BY <1>4, <1>5, <2>1 DEF Arrive, FetchTypeOK
  <2>2. CASE ~ValidVersionID(id)
    BY <2>2 DEF Arrive, Reply
  <2> QED BY <2>1, <2>2
<1>9. /\ before'[r] = now /\ req'[r] = asked /\ at'[r] = label /\ resp'[r] = w
      /\ now.objects = objects /\ now.gen = CachedGen /\ asked.id = id /\ asked.kind = kind
      /\ label \in {"lock", "replied"} /\ (label = "lock" => id # Malformed)
      /\ label = "lock" => w = None
      /\ w # None => w.code = "InvalidArgument" /\ w.url = None /\ w.version = None
  BY <1>4, <1>7, <1>8, AnswerParts DEF FetchTypeOK, ValidVersionID
<1>10. kind \in {"Info", "Fetch"} => id # None
  BY DEF Arrive
<1> HIDE DEF now, asked, w, label
<1>11. Apart(r)
  BY <1>1, <1>4, <1>7, <1>8 DEF Apart, FetchTypeOK
<1>12. FetchTypeOK'
  <2>1. /\ before' \in [Requests -> [objects : SUBSET Versions, gen : Nat]]
        /\ req' \in [Requests -> [kind : {"New", "List", "Info", "Fetch", None},
                                  id : Versions \cup {Malformed, None}]]
        /\ resp' \in [Requests -> Answers \cup {None}]
    BY <1>4, <1>6, <1>7, <1>8 DEF FetchTypeOK
  <2>2. at' \in [Requests -> {"idle", "lock", "exists", "get", "store", "resolve",
                              "check", "presign", "replied"}]
    BY <1>4, <1>7, <1>9 DEF FetchTypeOK
  <2>3. PublishTypeOK' /\ past' = past
    BY <1>1, <1>3 DEF PublishInv
  <2> QED BY <1>1, <1>4, <2>1, <2>2, <2>3 DEF FetchTypeOK
<1>13. LockInv'
  BY <1>1, <1>4, <1>5, <1>9, <1>11 DEF LockInv, Reading, Apart
<1>14. CacheInv'
  BY <1>1, <1>2, <1>4 DEF CacheInv, WasIndex
<1>15. CachedGen' = CachedGen
  BY <1>1 DEF CachedGen
<1>16. Relies(r)'
  BY <1>1, <1>2, <1>4, <1>5, <1>9, <1>10, <1>15 DEF Relies, Informed
<1>17. Answered(r)'
  BY <1>9 DEF Answered
<1>18. \A s \in Requests \ {r} : Relies(s)' /\ Answered(s)'
  BY <1>1, <1>11, ApartKeeps
<1>19. RequestInv' /\ ReplyInv'
  BY <1>16, <1>17, <1>18 DEF RequestInv, ReplyInv
<1> QED BY <1>3, <1>12, <1>13, <1>14, <1>19 DEF FetchInv

-----------------------------------------------------------------------------
(* The theorems. *)

\* Every step of the service next to its publishers keeps the invariant.
LEMMA FetchInvStep ==
  ASSUME PublishAssumption, FetchAssumption, FetchInv, FetchNext
  PROVE  FetchInv'
BY PublisherKeeps, TickKeeps, RestartKeeps, ServeKeeps, ArriveKeeps
   DEF FetchNext, ServiceNext

\* A step that changes nothing keeps the invariant.
LEMMA FetchInvStutter ==
  ASSUME FetchInv, UNCHANGED vars
  PROVE  FetchInv'
<1>1. UNCHANGED <<publishVars, up, cacheVars, past, requestVars>>
  BY DEF vars
<1>2. PublishInv'
  BY <1>1, PublishInvStutter DEF FetchInv
<1>3. /\ objects' = objects /\ log' = log /\ overlapped' = overlapped /\ index' = index
  BY <1>1 DEF publishVars, bucketVars, runVars
<1>4. FetchTypeOK'
  BY <1>1, <1>2 DEF FetchInv, FetchTypeOK, PublishInv, cacheVars, requestVars
<1>5. LockInv' /\ CacheInv'
  BY <1>1, <1>3 DEF FetchInv, LockInv, Reading, CacheInv, WasIndex, cacheVars, requestVars
<1>6. RequestInv' /\ ReplyInv'
  BY <1>1, <1>3 DEF FetchInv, RequestInv, ReplyInv, Relies, Answered, WasIndex, Informed,
                    CachedGen, cacheVars, requestVars
<1> QED BY <1>2, <1>4, <1>5, <1>6 DEF FetchInv

\* The invariant holds of an empty bucket and a server that has read nothing.
LEMMA FetchInvInit ==
  ASSUME PublishAssumption, FetchAssumption, FetchInit
  PROVE  FetchInv
<1>1. PublishInv
  BY PublishInvInit DEF FetchInit
<1>2. TTL \in Nat /\ None \notin Requests /\ Len(log) \in Nat
  BY <1>1, ReadNow DEF FetchAssumption
<1>3. /\ up = FALSE /\ mu = None /\ cached = None /\ age = 0
      /\ past = [k \in 1 .. TTL |-> 0]
      /\ at = [r \in Requests |-> "idle"]
      /\ req = [r \in Requests |-> NoRequest]
      /\ got = [r \in Requests |-> None]
      /\ resp = [r \in Requests |-> None]
      /\ before = [r \in Requests |-> NothingBefore]
  BY DEF FetchInit
<1>4. FetchTypeOK
  <2>1. up \in BOOLEAN
    BY <1>3
  <2>2. /\ NoRequest \in [kind : {"New", "List", "Info", "Fetch", None},
                         id : Versions \cup {Malformed, None}]
        /\ NothingBefore \in [objects : SUBSET Versions, gen : Nat]
    BY DEF NoRequest, NothingBefore
  <2>3. age \in 0 .. TTL /\ past \in [1 .. TTL -> Nat]
    BY <1>2, <1>3
  <2>4. PublishTypeOK
    BY <1>1 DEF PublishInv
  <2>5. /\ mu \in Requests \cup {None} /\ cached \in IndexReads \cup {None}
        /\ at \in [Requests -> {"idle", "lock", "exists", "get", "store", "resolve",
                                "check", "presign", "replied"}]
        /\ got \in [Requests -> IndexReads \cup {None}]
        /\ resp \in [Requests -> Answers \cup {None}]
    BY <1>3
  <2>6. /\ req \in [Requests -> [kind : {"New", "List", "Info", "Fetch", None},
                                 id : Versions \cup {Malformed, None}]]
        /\ before \in [Requests -> [objects : SUBSET Versions, gen : Nat]]
    BY <1>3, <2>2
  <2> QED BY <2>1, <2>3, <2>4, <2>5, <2>6 DEF FetchTypeOK
<1>5. LockInv /\ CacheInv
  BY <1>2, <1>3 DEF LockInv, Reading, CacheInv
<1>6. RequestInv /\ ReplyInv
  BY <1>3 DEF RequestInv, ReplyInv, Relies, Answered, Informed, CachedGen, NothingBefore
<1> QED BY <1>1, <1>4, <1>5, <1>6 DEF FetchInv

\* The inductive invariant of the service over a bucket that publishers write:
\* every index the server holds was the bucket's at a known time, and each
\* request relies only on what cannot be taken back.
THEOREM FetchInvariant == FetchSpec => []FetchInv
<1>1. FetchInit => FetchInv
  BY PublishAssumption, FetchAssumption, FetchInvInit
<1>2. FetchInv /\ [FetchNext]_vars => FetchInv'
  BY PublishAssumption, FetchAssumption, FetchInvStep, FetchInvStutter
<1> QED BY <1>1, <1>2, PTL DEF FetchSpec

\* Every reachable state of the server and its requests is well typed.
THEOREM FetchTypeCorrect == FetchSpec => []FetchTypeOK
<1>1. FetchInv => FetchTypeOK
  BY DEF FetchInv
<1> QED BY <1>1, FetchInvariant, PTL

\* The index lists no missing database next to a running server either.
THEOREM ServedIndexNeverDangles == FetchSpec => []NeverDangling
<1>1. FetchInv => NeverDangling
  BY DEF FetchInv, PublishInv, IndexInv, Sound, NeverDangling, Listed
<1> QED BY <1>1, FetchInvariant, PTL

\* The lock is never left behind.
THEOREM LockNeverLost == FetchSpec => []NoLostLock
<1>1. FetchInv => NoLostLock
  BY DEF FetchInv, FetchTypeOK, LockInv, Reading, NoLostLock
<1> QED BY <1>1, FetchInvariant, PTL

\* No request is answered from an older index than the server had before it.
THEOREM RequestsNeverGoBack == FetchSpec => []NeverBackwards
<1>1. FetchInv => NeverBackwards
  BY DEF FetchInv, RequestInv, Relies, NeverBackwards
<1> QED BY <1>1, FetchInvariant, PTL

\* What was in the bucket can be downloaded, and every URL names an object.
THEOREM DownloadsStay == FetchSpec => []DownloadsNeverLost
<1>1. FetchInv => DownloadsNeverLost
  BY DEF FetchInv, ReplyInv, Answered, DownloadsNeverLost
<1> QED BY <1>1, FetchInvariant, PTL

\* Provenance comes from the last publication in the index that was read.
THEOREM ProvenanceNeverStale == FetchSpec => []ProvenanceIsLast
<1>1. ASSUME PublishAssumption, FetchInv, NEW r \in Requests,
             ~overlapped, resp[r] # None, resp[r].version # None,
             resp[r].version.run # None
      PROVE  LET published == {i \in 1 .. got[r].gen : log[i].id = req[r].id}
             IN  \E i \in published : /\ \A j \in published : j <= i
                                      /\ resp[r].version = log[i]
  <2> DEFINE n == got[r].gen
             h == SubSeq(log, 1, n)
             vs == got[r].versions
             v == FindVersion(vs, req[r].id)
  <2>1. /\ got[r] # None /\ resp[r].version = v
        /\ WasIndex(got[r]) /\ n \in Nat /\ vs \in Stored
    BY <1>1 DEF FetchInv, ReplyInv, Answered, RequestInv, Relies, FetchTypeOK, IndexReads
  <2>2. /\ v \in Entries /\ v.id = req[r].id
        /\ \E i \in DOMAIN vs : v = vs[i]
    BY <1>1, <2>1, FindVersionFacts
  <2>3. n <= Len(log) /\ vs = IF n = 0 THEN EmptyIndex ELSE Recent(h)
    BY <1>1, <2>1 DEF WasIndex
  <2>4. vs # << >> /\ DOMAIN vs = 1 .. Len(vs)
    BY <2>1, <2>2, LenProperties DEF Stored
  <2>5. n # 0 /\ vs = Recent(h)
    BY <2>3, <2>4 DEF EmptyIndex
  <2>6. /\ h \in Stored /\ Len(h) = n /\ \A i \in 1 .. n : h[i] = log[i]
    <3>1. log \in Stored /\ Len(log) \in Nat
      BY <1>1, LenProperties DEF FetchInv, FetchTypeOK, PublishTypeOK, Stored
    <3>2. \A i \in 1 .. n : log[i] \in Entries
      BY <2>1, <2>3, <3>1, ElementOfSeq DEF Stored
    <3>3. /\ h \in Seq(Entries)
          /\ Len(h) = IF 1 <= n THEN n - 1 + 1 ELSE 0
          /\ \A i \in 1 .. (n - 1 + 1) : h[i] = log[1 + i - 1]
      BY <2>1, <3>2, SubSeqProperties
    <3> HIDE DEF h
    <3> QED BY <2>1, <2>5, <3>3 DEF Stored
  <2> HIDE DEF n, h, vs, v
  <2>7. PICK f : Lists(Recent(h), f, h)
    BY <1>1, <2>6, RecentLists DEF Stored, PublishAssumption
  <2>8. PICK i \in 1 .. n : i \in LastPublications(h) /\ v = h[i]
    <3>1. PICK k \in 1 .. Len(vs) : v = vs[k]
      BY <2>2, <2>4
    <3>2. f[k] \in LastPublications(h) /\ v = h[f[k]]
      BY <2>5, <2>7, <3>1 DEF Lists
    <3>3. f[k] \in 1 .. n
      BY <2>6, <3>2, LenProperties DEF LastPublications, Stored
    <3> QED BY <3>2, <3>3
  <2>9. log[i].id = req[r].id /\ resp[r].version = log[i]
    BY <2>1, <2>2, <2>6, <2>8
  <2>10. \A j \in 1 .. n : log[j].id = req[r].id => j <= i
    <3> SUFFICES ASSUME NEW j \in 1 .. n, log[j].id = req[r].id, ~(j <= i)
                 PROVE  FALSE
      OBVIOUS
    <3>1. j \in (i + 1) .. Len(h)
      BY <2>1, <2>6
    <3>2. h[j].id # h[i].id
      BY <2>8, <3>1 DEF LastPublications
    <3> QED BY <2>6, <2>8, <2>9, <3>2
  <2> QED BY <2>9, <2>10 DEF n
<1>2. FetchInv => ProvenanceIsLast
  BY <1>1, PublishAssumption DEF ProvenanceIsLast
<1> QED BY <1>2, FetchInvariant, PTL

\* An index that a request is answered from is no older than indexCacheTTL.
THEOREM AnswersStayFresh == FetchSpec => AnswersFresh
<1> DEFINE A == \A r \in Requests : at[r] # "resolve" /\ at'[r] = "resolve"
                                      => got'[r].gen >= past[TTL]
<1>1. ASSUME FetchInv, FetchNext
      PROVE  A
  <2> SUFFICES ASSUME NEW r \in Requests, at[r] # "resolve", at'[r] = "resolve"
               PROVE  got'[r].gen >= past[TTL]
    OBVIOUS
  <2>1. FetchTypeOK /\ Relies(r) /\ CacheInv /\ TTL \in 1 .. TTL
    BY <1>1, FetchAssumption DEF FetchInv, RequestInv, FetchAssumption
  <2>2. Lock(r) \/ Store(r)
    <3>1. ~PublisherStep /\ ~Restart /\ ~Tick
      BY <2>1 DEF PublisherStep, Restart, Tick, requestVars, FetchTypeOK
    <3>2. PICK s \in Requests :
            \/ \E kind \in {"New", "List", "Info", "Fetch"},
                  id \in Versions \cup {Malformed, None} : Arrive(s, kind, id)
            \/ Serve(s)
      BY <1>1, <3>1 DEF FetchNext, ServiceNext
    <3>3. CASE \E kind \in {"New", "List", "Info", "Fetch"},
                  id \in Versions \cup {Malformed, None} : Arrive(s, kind, id)
      BY <2>1, <3>3 DEF Arrive, Reply, GoTo, FetchTypeOK
    <3>4. CASE Serve(s)
      <4>1. s = r
        BY <1>1, <3>4, PublishAssumption, FetchAssumption, ServeFrame DEF Apart
      <4> QED BY <2>1, <3>4, <4>1 DEF Serve, ListIndex, LoadIndex, LoadFails, ResolveList,
                 ResolveInfo, ResolveFetch, CheckObject, Presign, CallFails, Return, Reply,
                 GoTo, FetchTypeOK
    <3> QED BY <3>2, <3>3, <3>4
  <2>3. CASE Lock(r)
    <3>1. cached # None /\ age < TTL /\ got'[r] = cached
      BY <2>1, <2>3 DEF Lock, Fresh, GoTo, FetchTypeOK
    <3>2. TTL > age
      BY <2>1, <3>1 DEF FetchTypeOK
    <3> QED BY <2>1, <3>1, <3>2 DEF CacheInv
  <2>4. CASE Store(r)
    BY <2>1, <2>4 DEF Store, Relies
  <2> QED BY <2>2, <2>3, <2>4
<1>2. FetchInv /\ [FetchNext]_vars => [A]_vars
  BY <1>1
<1> QED BY <1>2, FetchInvariant, PTL DEF FetchSpec, AnswersFresh
=============================================================================
