---------------------------- MODULE FetchService ----------------------------
(***************************************************************************)
(* FetchService (reputationdbd svc/fetch/v1): List, Info and Fetch over    *)
(* the bucket that Publish writes, with the version index cached in memory *)
(* for indexCacheTTL.                                                      *)
(*                                                                         *)
(* A request is a goroutine.  Its steps are the lock, each bucket access,  *)
(* and the reply; the publisher and the clock move in between.  The clock  *)
(* matters only as the cached index's age, in ticks.                       *)
(***************************************************************************)
EXTENDS Publish

CONSTANTS
  Requests,          \* goroutines serving a request
  Malformed,         \* a version_id that no database can have
  TTL                \* indexCacheTTL, in ticks of the clock

\* What a read of the index yields: its versions, and how many publications
\* had been made.
IndexReads == [gen : Nat, versions : Stored]
Provenance == [id : Versions, run : 1 .. MaxRuns \cup {None}]
Answers == [code : {"ok", "NotFound", "Unavailable", "InvalidArgument"},
            versions : Stored,
            version : Provenance \cup {None},
            url : Versions \cup {None}]

ASSUME FetchAssumption ==
  /\ TTL \in Nat \ {0}
  /\ Malformed \notin Versions
  /\ None \notin Requests \cup IndexReads \cup Answers

VARIABLES
  up,                \* New has succeeded and the server takes requests
  mu,                \* who holds Server.mu
  cached,            \* [gen, versions] of the cached index, or None
  age,               \* ticks since cachedAt, no more than TTL
  past,              \* history: Len(log) at each of the last TTL ticks
  at,                \* at[r]: what request r does next
  req,               \* req[r]: [kind, id] of the request
  got,               \* got[r]: what index() has returned or read for r
  resp,              \* resp[r]: the reply
  before             \* history: [objects, gen] when r arrived

cacheVars == <<mu, cached, age>>
requestVars == <<at, req, got, resp, before>>
vars == <<publishVars, up, cacheVars, past, requestVars>>

NoRequest == [kind |-> None, id |-> None]
NothingBefore == [objects |-> {}, gen |-> 0]

\* Where a goroutine that is not in the middle of a request is.
Idle(r) == at[r] = "idle"
GoTo(r, label) == at' = [at EXCEPT ![r] = label]

Reply(r, answer) ==
  /\ resp' = [resp EXCEPT ![r] = answer]
  /\ GoTo(r, "replied")

Failure(code) == [code |-> code, versions |-> << >>, version |-> None,
                  url |-> None]
Listing(versions) == [Failure("ok") EXCEPT !.versions = versions]
Metadata(v) == [Failure("ok") EXCEPT !.version = v]
Download(v) == [Failure("ok") EXCEPT !.version = v, !.url = v.id]

\* The provenance of a version that has aged out of the index is gone.
Bare(id) == [id |-> id, run |-> None]

-----------------------------------------------------------------------------
ValidVersionID(id) == id # Malformed

Bug_MuFree == TRUE
MuFree == mu = None

CachedGen == IF cached = None THEN 0 ELSE cached.gen

\* The cached index may be served without asking the bucket.
Bug_Fresh == cached # None /\ age <= TTL
Fresh == cached # None /\ age < TTL

\* Every return from index(), on an error too, releases the lock.
Bug_MuAfterError(r) == r
MuAfterError(r) == None

\* Fetch asks the bucket for a version the index does not have.
AskBucket(id) == id \in objects

FetchInit ==
  /\ PublishInit
  /\ up = FALSE
  /\ mu = None
  /\ cached = None
  /\ age = 0
  /\ past = [k \in 1 .. TTL |-> 0]
  /\ at = [r \in Requests |-> "idle"]
  /\ req = [r \in Requests |-> NoRequest]
  /\ got = [r \in Requests |-> None]
  /\ resp = [r \in Requests |-> None]
  /\ before = [r \in Requests |-> NothingBefore]

\* A request arrives; while the server is not up the only one is New's own
\* read of the index.
Arrive(r, kind, id) ==
  /\ Idle(r)
  /\ IF up THEN kind # "New"
           ELSE kind = "New" /\ \A s \in Requests : Idle(s)
  /\ kind \in {"Info", "Fetch"} <=> id # None
  /\ req' = [req EXCEPT ![r] = [kind |-> kind, id |-> id]]
  /\ before' = [before EXCEPT ![r] = [objects |-> objects, gen |-> CachedGen]]
  /\ IF ValidVersionID(id) THEN GoTo(r, "lock") /\ UNCHANGED resp
                           ELSE Reply(r, Failure("InvalidArgument"))
  /\ UNCHANGED <<publishVars, up, cacheVars, past, got>>

\* index: take the lock; the cached copy is enough while it is fresh.
Lock(r) ==
  /\ at[r] = "lock"
  /\ MuFree
  /\ IF Fresh
     THEN /\ got' = [got EXCEPT ![r] = cached]
          /\ GoTo(r, "resolve")
          /\ UNCHANGED mu
     ELSE /\ mu' = r
          /\ GoTo(r, "exists")
          /\ UNCHANGED got
  /\ UNCHANGED <<publishVars, up, cached, age, past, req, resp, before>>

\* LoadIndex, its Exists.
ListIndex(r) ==
  /\ at[r] = "exists"
  /\ IF IndexMissing
     THEN /\ got' = [got EXCEPT ![r] = [gen |-> 0, versions |-> EmptyIndex]]
          /\ GoTo(r, "store")
     ELSE /\ GoTo(r, "get")
          /\ UNCHANGED got
  /\ UNCHANGED <<publishVars, up, cacheVars, past, req, resp, before>>

\* LoadIndex, its Get.
LoadIndex(r) ==
  /\ at[r] = "get"
  /\ got' = [got EXCEPT ![r] = [gen |-> Len(log), versions |-> ReadIndex]]
  /\ GoTo(r, "store")
  /\ UNCHANGED <<publishVars, up, cacheVars, past, req, resp, before>>

\* The read fails: no stale copy is served.  New gives up.
LoadFails(r) ==
  /\ at[r] \in {"exists", "get"}
  /\ mu' = MuAfterError(r)
  /\ Reply(r, Failure("Unavailable"))
  /\ UNCHANGED <<publishVars, up, cached, age, past, req, got, before>>

\* The read's reply is cached and the lock released.
Store(r) ==
  /\ at[r] = "store"
  /\ cached' = got[r]
  /\ age' = 0
  /\ mu' = None
  /\ GoTo(r, "resolve")
  /\ UNCHANGED <<publishVars, up, past, req, got, resp, before>>

\* New and List need nothing but the index.
ResolveList(r) ==
  /\ at[r] = "resolve"
  /\ req[r].kind \in {"New", "List"}
  /\ up' = TRUE
  /\ Reply(r, Listing(got[r].versions))
  /\ UNCHANGED <<publishVars, cacheVars, past, req, got, before>>

\* Info answers from the index alone.
ResolveInfo(r) ==
  LET v == FindVersion(got[r].versions, req[r].id) IN
  /\ at[r] = "resolve"
  /\ req[r].kind = "Info"
  /\ Reply(r, IF v = None THEN Failure("NotFound") ELSE Metadata(v))
  /\ UNCHANGED <<publishVars, up, cacheVars, past, req, got, before>>

\* Fetch goes to the bucket for what the index does not list.
ResolveFetch(r) ==
  LET v == FindVersion(got[r].versions, req[r].id) IN
  /\ at[r] = "resolve"
  /\ req[r].kind = "Fetch"
  /\ GoTo(r, IF v = None THEN "check" ELSE "presign")
  /\ UNCHANGED <<publishVars, up, cacheVars, past, req, got, resp, before>>

CheckObject(r) ==
  /\ at[r] = "check"
  /\ IF AskBucket(req[r].id)
     THEN GoTo(r, "presign") /\ UNCHANGED resp
     ELSE Reply(r, Failure("NotFound"))
  /\ UNCHANGED <<publishVars, up, cacheVars, past, req, got, before>>

Presign(r) ==
  LET v == FindVersion(got[r].versions, req[r].id) IN
  /\ at[r] = "presign"
  /\ Reply(r, Download(IF v = None THEN Bare(req[r].id) ELSE v))
  /\ UNCHANGED <<publishVars, up, cacheVars, past, req, got, before>>

CallFails(r) ==
  /\ at[r] \in {"check", "presign"}
  /\ Reply(r, Failure("Unavailable"))
  /\ UNCHANGED <<publishVars, up, cacheVars, past, req, got, before>>

Return(r) ==
  /\ at[r] = "replied"
  /\ GoTo(r, "idle")
  /\ req' = [req EXCEPT ![r] = NoRequest]
  /\ got' = [got EXCEPT ![r] = None]
  /\ resp' = [resp EXCEPT ![r] = None]
  /\ before' = [before EXCEPT ![r] = NothingBefore]
  /\ UNCHANGED <<publishVars, up, cacheVars, past>>

\* The process dies and is started again.
Restart ==
  /\ up
  /\ up' = FALSE
  /\ mu' = None
  /\ cached' = None
  /\ age' = 0
  /\ at' = [r \in Requests |-> "idle"]
  /\ req' = [r \in Requests |-> NoRequest]
  /\ got' = [r \in Requests |-> None]
  /\ resp' = [r \in Requests |-> None]
  /\ before' = [r \in Requests |-> NothingBefore]
  /\ UNCHANGED <<publishVars, past>>

\* A bucket read's reply is stored before the next tick: a read takes far less
\* than indexCacheTTL.
Tick ==
  /\ \A r \in Requests : at[r] # "store"
  /\ age' = IF age < TTL THEN age + 1 ELSE age
  /\ past' = [k \in 1 .. TTL |-> IF k = 1 THEN Len(log) ELSE past[k - 1]]
  /\ UNCHANGED <<publishVars, up, mu, cached, requestVars>>

\* What request r's goroutine does once it has arrived.
Serve(r) ==
  \/ Lock(r)
  \/ ListIndex(r)
  \/ LoadIndex(r)
  \/ LoadFails(r)
  \/ Store(r)
  \/ ResolveList(r)
  \/ ResolveInfo(r)
  \/ ResolveFetch(r)
  \/ CheckObject(r)
  \/ Presign(r)
  \/ CallFails(r)
  \/ Return(r)

ServiceNext ==
  \/ \E r \in Requests :
       \/ \E kind \in {"New", "List", "Info", "Fetch"},
             id \in Versions \cup {Malformed, None} : Arrive(r, kind, id)
       \/ Serve(r)
  \/ Restart
  \/ Tick

\* The publisher is another process: it shares the bucket only.
PublisherStep ==
  PublishNext /\ UNCHANGED <<up, cacheVars, past, requestVars>>

FetchNext == PublisherStep \/ ServiceNext

FetchSpec == FetchInit /\ [][FetchNext]_vars

-----------------------------------------------------------------------------
(* The inductive invariant *)

\* Types of the server's fields and of the requests.
FetchTypeOK ==
  /\ PublishTypeOK
  /\ up \in BOOLEAN
  /\ mu \in Requests \cup {None}
  /\ cached \in IndexReads \cup {None}
  /\ age \in 0 .. TTL
  /\ past \in [1 .. TTL -> Nat]
  /\ at \in [Requests -> {"idle", "lock", "exists", "get", "store", "resolve",
                          "check", "presign", "replied"}]
  /\ req \in [Requests -> [kind : {"New", "List", "Info", "Fetch", None},
                           id : Versions \cup {Malformed, None}]]
  /\ got \in [Requests -> IndexReads \cup {None}]
  /\ resp \in [Requests -> Answers \cup {None}]
  /\ before \in [Requests -> [objects : SUBSET Versions, gen : Nat]]

\* Inside index() with the lock, and past the point where it has an answer.
Reading(r) == at[r] \in {"exists", "get", "store"}
Informed(r) == at[r] \in {"store", "resolve", "check", "presign"}

\* x was the index when gen publications had been made.
WasIndex(x) ==
  /\ x.gen <= Len(log)
  /\ Ids(x.versions) \subseteq objects
  /\ ~overlapped => x.versions = IF x.gen = 0 THEN EmptyIndex
                                 ELSE Recent(SubSeq(log, 1, x.gen))

LockInv == \A r \in Requests : Reading(r) <=> mu = r

\* The cached index is no older than its age says.
CacheInv ==
  /\ \A k \in 1 .. TTL : past[k] <= Len(log)
  /\ cached # None => /\ WasIndex(cached)
                      /\ \A k \in 1 .. TTL : k > age => cached.gen >= past[k]

\* What request r relies on between its steps.
Relies(r) ==
  /\ before[r].gen <= CachedGen
  /\ before[r].objects \subseteq objects
  /\ got[r] # None => /\ Informed(r) \/ at[r] = "replied"
                      /\ WasIndex(got[r])
                      /\ got[r].gen >= before[r].gen
  /\ Informed(r) => got[r] # None
  /\ at[r] = "get" => index # None
  /\ at[r] = "store" => /\ got[r].gen >= CachedGen
                        /\ \A k \in 1 .. TTL : got[r].gen >= past[k]
  /\ at[r] \notin {"idle", "replied"} =>
       /\ req[r].id # Malformed
       /\ req[r].kind \in {"Info", "Fetch"} => req[r].id # None
  /\ at[r] \in {"check", "presign"} => req[r].kind = "Fetch"
  /\ at[r] = "presign" /\ FindVersion(got[r].versions, req[r].id) = None
       => req[r].id \in objects

\* Where the parts of r's answer come from.
Answered(r) ==
  resp[r] # None =>
    /\ at[r] = "replied"
    /\ resp[r].url # None => resp[r].url \in objects
    /\ resp[r].code = "NotFound" /\ req[r].kind = "Fetch"
         => req[r].id \notin before[r].objects
    /\ resp[r].version # None /\ resp[r].version.run # None
         => /\ got[r] # None
            /\ resp[r].version = FindVersion(got[r].versions, req[r].id)

RequestInv == \A r \in Requests : Relies(r)
ReplyInv == \A r \in Requests : Answered(r)

FetchInv ==
  /\ PublishInv
  /\ FetchTypeOK
  /\ LockInv
  /\ CacheInv
  /\ RequestInv
  /\ ReplyInv

-----------------------------------------------------------------------------
\* An index that a request is answered from was the bucket's within the last
\* indexCacheTTL: never an older copy, not even when the bucket cannot be read
\* (Server.index, fetch.go:80-108).
AnswersFresh ==
  [][\A r \in Requests : at[r] # "resolve" /\ at'[r] = "resolve"
                           => got'[r].gen >= past[TTL]]_vars

\* A request never sees an older index than the server had when it arrived:
\* the lock is held across the read, so an overtaken read cannot replace what
\* a later one cached (fetch.go:83-87).
NeverBackwards ==
  \A r \in Requests : got[r] # None => got[r].gen >= before[r].gen

\* A version that was in the bucket when the request arrived can be downloaded,
\* whether the index still lists it or not (Fetch, fetch.go:183-189), and a URL,
\* which PresignGet hands out unchecked, names an object that exists
\* (store.go:139-144).
DownloadsNeverLost ==
  \A r \in Requests :
    resp[r] # None =>
      /\ req[r].kind = "Fetch" /\ req[r].id \in before[r].objects
           => resp[r].code # "NotFound"
      /\ resp[r].url # None => resp[r].url \in objects

\* Provenance in an answer is that of the version's last publication in the
\* index it was read from.
ProvenanceIsLast ==
  \A r \in Requests :
    ~overlapped /\ resp[r] # None /\ resp[r].version # None
      /\ resp[r].version.run # None
      => LET published == {i \in 1 .. got[r].gen : log[i].id = req[r].id}
         IN  \E i \in published : /\ \A j \in published : j <= i
                                  /\ resp[r].version = log[i]

\* The lock is held only by a request that is reading the bucket: every way
\* out of index(), errors included, releases it, so nobody waits for ever.
NoLostLock == mu # None => at[mu] \in {"exists", "get", "store"}
=============================================================================
