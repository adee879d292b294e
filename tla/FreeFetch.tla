------------------------------ MODULE FreeFetch ------------------------------
(***************************************************************************)
(* The free FetchService (reputationdbd svc/freefetch/v1): it describes    *)
(* the asset of the rolling GitHub release, and remembers it for           *)
(* assetCacheTTL under a mutex that it holds across both API calls.        *)
(*                                                                         *)
(* The build replaces the asset with gh release upload --clobber, which    *)
(* deletes the old one before it uploads the new one.  Assets are numbered *)
(* in the order of their uploads.                                          *)
(***************************************************************************)
EXTENDS Naturals

CONSTANTS
  FreeRequests,      \* goroutines that serve a Fetch of the free tier
  MaxUploads,        \* bound: uploads of the asset
  TTL,               \* assetCacheTTL, in ticks of the clock
  Nobody             \* no lock holder

ASSUME FreeAssumption ==
  MaxUploads \in Nat \ {0} /\ TTL \in Nat \ {0} /\ Nobody \notin FreeRequests

VARIABLES
  uploads,           \* assets uploaded so far
  present,           \* the newest of them is there
  past,              \* history: uploads at each of the last TTL ticks
  mu,                \* who holds Server.mu
  cached, age,       \* the cached asset, 0 for none, and ticks since cachedAt
  at,                \* at[f]: what request f does next
  got                \* got[f]: the asset f has read or answers with, 0 for none

githubVars == <<uploads, present, past>>
assetVars == <<mu, cached, age>>
freeVars == <<githubVars, assetVars, at, got>>

\* The release has had its asset for long.
FreeInit ==
  /\ uploads = 1 /\ present = TRUE
  /\ past = [k \in 1 .. TTL |-> 1]
  /\ mu = Nobody /\ cached = 0 /\ age = 0
  /\ at = [f \in FreeRequests |-> "idle"]
  /\ got = [f \in FreeRequests |-> 0]

-----------------------------------------------------------------------------
(* The build and the clock *)

DeleteAsset ==
  /\ present
  /\ present' = FALSE
  /\ UNCHANGED <<uploads, past, assetVars, at, got>>

Upload ==
  /\ ~present
  /\ uploads < MaxUploads
  /\ uploads' = uploads + 1
  /\ present' = TRUE
  /\ UNCHANGED <<past, assetVars, at, got>>

\* A reply of GitHub's is stored before the next tick: a call takes far less
\* than assetCacheTTL.
Tick ==
  /\ \A f \in FreeRequests : at[f] # "store"
  /\ age' = IF age < TTL THEN age + 1 ELSE age
  /\ past' = [k \in 1 .. TTL |-> IF k = 1 THEN uploads ELSE past[k - 1]]
  /\ UNCHANGED <<uploads, present, mu, cached, at, got>>

-----------------------------------------------------------------------------
(* Fetch *)

GoTo(f, label) == at' = [at EXCEPT ![f] = label]

\* The cached asset may be described without asking GitHub.
Bug_Fresh == cached # 0
Fresh == cached # 0 /\ age < TTL

\* Every return from asset(), on an error too, releases the lock.
Bug_MuAfterError(f) == f
MuAfterError(f) == Nobody

AskFree(f) ==
  /\ at[f] = "idle"
  /\ GoTo(f, "lock")
  /\ UNCHANGED <<githubVars, assetVars, got>>

Lock(f) ==
  /\ at[f] = "lock" /\ mu = Nobody
  /\ IF Fresh
       THEN /\ got' = [got EXCEPT ![f] = cached]
            /\ GoTo(f, "replied")
            /\ UNCHANGED mu
       ELSE mu' = f /\ GoTo(f, "assets") /\ UNCHANGED got
  /\ UNCHANGED <<githubVars, cached, age>>

\* ListReleases finds the rolling release, which is always there;
\* ListReleaseAssets finds the asset.  The client sets no timeout and the lock
\* is held across both calls: nothing makes GitHub reply, and while it does not
\* every later request waits in Lock, whatever becomes of its client.
ListAssets(f) ==
  /\ at[f] = "assets" /\ present
  /\ got' = [got EXCEPT ![f] = uploads]
  /\ GoTo(f, "store")
  /\ UNCHANGED <<githubVars, assetVars>>

StoreAsset(f) ==
  /\ at[f] = "store"
  /\ cached' = got[f] /\ age' = 0
  /\ mu' = Nobody
  /\ GoTo(f, "replied")
  /\ UNCHANGED <<githubVars, got>>

\* A call fails, the client that asked has gone away, or the asset is between
\* its delete and its upload: an error, never the stale asset.
AssetFails(f) ==
  /\ at[f] = "assets"
  /\ mu' = MuAfterError(f)
  /\ GoTo(f, "replied")
  /\ UNCHANGED <<githubVars, cached, age, got>>

AnswerFree(f) ==
  /\ at[f] = "replied"
  /\ GoTo(f, "idle")
  /\ got' = [got EXCEPT ![f] = 0]
  /\ UNCHANGED <<githubVars, assetVars>>

FreeStep(f) ==
  \/ Lock(f) \/ ListAssets(f) \/ StoreAsset(f)
  \/ AssetFails(f) \/ AnswerFree(f)

\* The process is gone.
FreeLost ==
  /\ mu' = Nobody /\ cached' = 0 /\ age' = 0
  /\ at' = [f \in FreeRequests |-> "idle"]
  /\ got' = [f \in FreeRequests |-> 0]
  /\ UNCHANGED githubVars

-----------------------------------------------------------------------------
(* The inductive invariant *)

\* Types of the asset, the cache and the requests.
FreeTypeOK ==
  /\ uploads \in 1 .. MaxUploads /\ present \in BOOLEAN
  /\ past \in [1 .. TTL -> Nat]
  /\ mu \in FreeRequests \cup {Nobody} /\ cached \in Nat /\ age \in 0 .. TTL
  /\ at \in [FreeRequests -> {"idle", "lock", "assets", "store", "replied"}]
  /\ got \in [FreeRequests -> Nat]

\* Who asks GitHub holds the lock, and what is or will be cached is no older
\* than its age says.
FreeInv ==
  /\ FreeTypeOK
  /\ \A f \in FreeRequests : at[f] \in {"assets", "store"} <=> mu = f
  /\ \A k \in 1 .. TTL : /\ past[k] <= uploads
                         /\ cached # 0 /\ k > age => cached >= past[k]
  /\ \A f \in FreeRequests :
       /\ at[f] \in {"idle", "lock", "assets"} => got[f] = 0
       /\ at[f] = "store" => \A k \in 1 .. TTL : got[f] >= past[k]

-----------------------------------------------------------------------------
(* Properties *)

\* An answer describes an asset that was the release's within assetCacheTTL,
\* never an older one, not even when GitHub cannot be read (freefetch.go:61-73).
FreeFresh ==
  [][\A f \in FreeRequests :
       at'[f] = "replied" /\ at[f] # "replied" /\ got'[f] # 0
         => got'[f] >= past[TTL]]_freeVars
=============================================================================
