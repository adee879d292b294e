# A TLA+ model of reputationdb

reputationdb turns lists of datacenter, abuse, VPN and Tor networks into one
memory-mapped database of IP addresses, publishes builds of it to a bucket and a
rolling GitHub release, and answers "what is known of this address" from two
places: the server `reputationdbd` and a Caddy matcher, `maat`. This directory
holds the TLA+ modules that model the parts where concurrency, failure and order
matter, the TLC configurations that check them, and machine-checked proofs about
the core. Paths below are relative to the repository; all sources are under
`src/`.

Run things from this directory:

    tlc -workers 2 -config DbCache_safety.cfg MCDbCache
    tlapm DbCache_proofs.tla

`PROJECT.json` is the index: components, runs, the mutation of the model each
property is known to catch, the source lines each definition translates, the
hazards and the theorems.

## 1. The system

    data/, git repositories, HTTP lists, RIPE
            |
      cmd/mkdatabase  --->  reputation.mmdb  --->  release asset (free tier)
        (source cache)             |
                         cmd/publish-database
                                   |
                   bucket: objects + versions.pb.gz (the index)
                    |                         |
          dbcache.Cache                 fetch/v1 FetchService     freefetch/v1
       (the newest build, mapped)        List, Info, Fetch        (release asset)
                    |                         |                       |
       reputationdb/v1 Query             presigned URL            rolling URL
                                              \______  ______________/
                                                     \/
                                          caddy/maat dbStore (mapped)
                                                     |
                                               maat.Matcher

### Inventory

| Component | State it keeps | Operations | What is hard | What makes it correct |
|---|---|---|---|---|
| `dbcache.Cache` (cache.go) | `db`, `path`, `version`, `createdAt` under `mu`; `refreshMu`; the cache directory; the `ready` channel | `New`, `run`, `Refresh`, `download`, `load`, `release`, `sweep`, `Query`, `Ready`, `Close` | a swap unmaps memory that readers use; concurrent `Refresh`; crashes leave torn and surplus files; `Close` during a refresh | no read of an unmapped database; one build per batch; never an older build after a newer one; one file on disk; nothing left mapped |
| `bucketSource` (source.go) | none | `Current`, `Open` | the index may be absent or unreadable | names the newest published build |
| `internal/dbstore` | bucket objects and one mutable object, the index | `PutDatabase`, `Exists`, `PresignGet`, `LoadIndex`, `SaveIndex`, `InsertVersion` | the index is rewritten with no compare-and-swap; the SDK retries | the index lists only what is stored, each version once, newest first |
| `publish-database` | none of its own | `run`: upload, load, insert, save | overlapping, failing and cancelled jobs | the index is the most recent publications |
| `fetch/v1` `FetchService` | the cached index and its time, under a mutex | `New`, `List`, `Info`, `Fetch` | stale cache, overlapping reads, an error path that keeps the lock, versions that aged out | answers are recent, never go backwards; every stored database can be downloaded |
| `freefetch/v1` | the cached release asset and its time, under a mutex held across two GitHub calls | `New`, `Fetch` | its digest is cached, its URL is rolling; the asset is deleted before it is replaced; error paths under the mutex | never an asset gone for longer than `assetCacheTTL`; what is described is what is downloaded (it is not: finding `maat_free`) |
| `maat.dbStore` (store.go) | `db`, `path`, `version` under `mu`; the storage directory | `run`, `refresh`, `download`, `load`, `unload`, `release`, `lookup`, `Destruct` | lookups against swaps, unloads and teardown; several stores in one directory; servers that report no version | as for the cache, and the bytes served are those of the version |
| `maat` sources | none | `Build` for either tier | two calls that may straddle a publication | version and URL belong together |
| `maat.Matcher` | its settings and a reference in Caddy's `UsagePool` | `Provision`, `Validate`, `MatchWithError`, `Cleanup` | partial `Provision`, two configurations at once during a reload, requests that outlive their matcher | a store lives exactly as long as a matcher uses it; answers are those of the lists, whichever tier serves them |
| `mkdatabase` collection | the source cache directory, shared by builds | clone or reuse, fetch or reuse, fold, merge, write | builds of different categories share the cache; a build may die while it fills it | a build that succeeds holds exactly what the selected lists say |
| parsers (sources.go) | none | one for each list format | comments, headers, other fields and services, ports | every network a list names, and no other |
| records and merging (record.go, sources.go) | a prefix table in memory | `Add`, `sort`, `DataType`, `fold`, `collapseV6`, `mergeContained` | order of folding, merging, inserting | equal findings give equal records (not long ones: section 4); narrower networks keep what wider ones say |
| writer, build info | none | insertion, serialisation | reserved networks are refused | as above |
| `reputationdb/v1` `Query` | none (uses `Cache`) | `New`, `Query` | batch limits, one address in two spellings, no database yet | one record per address, in order, of one build; never "not listed" without a database |
| `reputationdbd` (main.go, svc.go) | an errgroup, two HTTP servers | `main`, `run`, `Route` | start-up that fails half way, one server failing, a shutdown with requests in flight | it ends when it has to, and a clean exit has answered what it accepted |
| reader (`reader.go`) | one mapping | `Open`, `Lookup`, `Networks`, `Close` | use after `Close` | owned by cache and store |
| `ripeasn`, `useragent`, `nginxscan`, `dump-prefixes`, `repute-ip-list`, generated RPC code, lists/images/workflows/scripts, fakes | none shared | | | see section 7 |

Components meet at six places, and those are where the modules meet. The
**bucket** is written by `publish-database` and read by the server: `Publish` is
extended by `FetchService`, and what the cache sees of it, the sequence of newest
entries, is `log` in `DbCache`. A **database file** is mapped by one process and
renamed or removed by the same or a later one: `disk` and `mapped` in `DbCache`
and `MaatStore`. The **fetch API** is what the matcher's store sees of the
servers: `advert` in `MaatStore`, a position of the release history that may lag
(`FreeFetch` shows by how much for the free tier). A **store** is what a matcher sees of
`MaatStore`: loaded or not, open or torn down. The **cache** is what a query sees of
`DbCache`: `SnapshotStore`, which the proofs show it to be, instantiated by
`QueryService`.
The **source cache** is what builds share: `files`, `marker`, `httpFile`,
`asFile` in `MkDatabase`.

## 2. The modules

| Module | Models | Extends / instantiates |
|---|---|---|
| `SnapshotStore` | abstract: what a store of one publication at a time promises those who look things up in it | |
| `DbCache` | `dbcache.Cache` and `bucketSource` | refines `SnapshotStore` |
| `DbCache_proofs` | the theorems about `DbCache` | `DbCache`, `TLAPS` |
| `VersionIndex` | the index as a value: `InsertVersion`, lookup | |
| `Publish` | `publish-database` runs over the bucket | `VersionIndex` |
| `Publish_proofs` | the theorems about `Publish`, with what `InsertVersion` does | `Publish`, `SetInduction`, `TLAPS` |
| `FetchService` | `fetch/v1` over the bucket `Publish` writes | `Publish` |
| `FetchService_proofs` | the theorems about `FetchService` | `FetchService`, `Publish_proofs`, `TLAPS` |
| `MaatStore` | one or several `dbStore`s of one tier over a shared directory, with the tier's source | refines `SnapshotStore` |
| `MaatStore_proofs` | the theorems about `MaatStore` | `MaatStore`, `TLAPS` |
| `MaatMatcher` | `maat.Matcher` through Caddy's configuration reloads, with the usage pool | |
| `MaatMatcher_proofs` | the theorems about `MaatMatcher` | `MaatMatcher`, `TLAPS` |
| `QueryService` | `reputationdb/v1` `Query` | instantiates `SnapshotStore` |
| `FreeFetch` | `freefetch/v1` against the rolling release | |
| `Reputationdbd` | the daemon's life: start, serve, stop | `QueryService`, `FreeFetch` |
| `Reputationdbd_proofs` | the theorems about the daemon and the two services it serves | `Reputationdbd`, `SetInduction`, `TLAPS` |
| `Records` | the record and what is done to the whole table: pure operators | |
| `Parsers` | what the parsers keep of a list in each format: pure operators | `Records` |
| `MkDatabase` | builds over the shared source cache | `Parsers` |
| `MkDatabase_proofs` | the theorems about `Records`, `Parsers` and `MkDatabase` | `MkDatabase`, `SetInduction`, `TLAPS` |
| `SetInduction` | induction over a set of naturals and loops of so many rounds, as facts the provers can cite | `TLAPS` |
| `MC*` | the instances TLC checks | the module named |

Common conventions. A goroutine is a `pc` whose value names what it does next,
and a step runs from one system call, bucket access or lock operation to the
next, so everything another goroutine, process or crash could see is a state. A
version stands for its object key and its file name too, since both are functions
of it. `healthy` says whether calls that leave the process may fail: while it is
FALSE any of them may, one at a time or all; it exists so that "once failures
stop" can be said. History variables (`highWater`, `since`, `log` in `Publish`,
`overlapped`, `past`, `before`, `begun`) feed properties and appear in no guard of the
code's own steps, except `log` where it *is* the world's state (`DbCache`,
`MaatStore`). An operator `Bug_X` is `X` with a plausible mistake: nothing uses it;
`PROJECT.json` pairs it with the property that fails when it takes `X`'s place.

### DbCache (cmd/reputationdbd/internal/dbcache)

The fields are those of `Cache`. `refreshMu` is its holder. `mu` is the set
`readers` together with `WriterWaiting`: Go's `RWMutex` admits no reader once a
writer waits. `disk[v]` is the file at `databasePath(v)`: absent, complete or torn
(nothing is fsynced, so a power loss may tear it).

`Refresh` is `Acquire, Current, Check, (LoadCached | NoCached, OpenObject, Copy,
Rename, OpenFresh), Swap, Release, Sweep, Return`, with a failing step wherever
the code returns an error: `CurrentFails`, `DownloadFails`, `OpenFreshFails` +
`Discard`. The version is read under the read lock in `Check` and used afterwards
without it, as in the code; what keeps that sound is `refreshMu`. `run` is
`LoopTick` and `LoopExit` around `Refresh`; `Callers` are other goroutines that
call the exported `Refresh`. `Query` is `QueryBegin`, any number of `Lookup`s,
`QueryEnd`. `Close` is `CloseCancel, CloseWaited, CloseRelease`: it waits for the
run loop and takes `mu`, not `refreshMu`. `Crash` loses the process and may tear
files; the next process starts in the same directory.

### VersionIndex, Publish, FetchService

`Publish` has one action per bucket access of `publish-database`'s `run`: put the
object, ask whether the index exists, get it, save it. A step of a put may leave
the run where it was, which is the SDK repeating a request whose reply was lost.
`Abort` is a failed call or a cancelled job. `FetchService` adds the server: a
request locks, serves the cached index while it is younger than `indexCacheTTL`,
else reads it with the lock held, caches it, unlocks, and resolves. The clock
matters only as the age of that copy.

### MaatStore (caddy/maat)

`cur[s]` is the three fields the code writes together; a mapping is a record of
path, version, contents and publication, so that "the right bytes" can be asked.
The servers' side is two variables: `log`, the contents of the builds, and
`advert`, the position the servers describe. A refresh of the free tier resolves the
build in one call (`Current`), one of the full tier in two (`Current` is its `List`,
`Resolve` its `Fetch`), and the listed version may be gone by then. `Pinned` says that
the URL names the described version's own object: true of the full tier's presigned URL,
while reputationdbd's free tier names whatever the release asset is at the time of the
download.
`Unload` precedes `Rename` when the download lands on the path being served,
which happens to servers that report no version. `Destruct` is `Cancel` and
`Teardown`. Several stores share `disk`, as matchers for different servers do,
since they are keyed by server and tier and default to the same directory.

### MaatMatcher (caddy/maat/datacenterdb.go)

Caddy loads one configuration at a time, and the old one goes on answering while it
does: `running` and `pending` are the two, each a sequence of matcher settings with
the stores its matchers have been given so far. `Reload, Provision` (once per
matcher), then `SwitchOver` and one `Cleanup` per old matcher; or `ProvisionFails` /
`StartFails` and a `Cleanup` of what had been set up. Those of Caddy's steps are
external; `Provision`'s refusals, `loadStore`, `Cleanup` and `MatchWithError` are the
code's. `pool[k]` is the usage pool's count and value, `store[i]` a `dbStore` of which
only the state, the key and directory it was created with, and "has a database" are
kept; its goroutine loads one (`Loaded`) and, when a build without a version lands on the
path being served, unloads it first (`Unloaded`). `MatchWithError` answers "no match" for
an address without a record and for a store without a database alike, as the code does;
`consulted` is history and says which of the two a request met. `Destruct` runs outside the pool's lock, between `Cleanup` and `Destructed`, so a
request may look into a store that is closing. An address has a form (plain,
v4-in-v6, with a zone), and `Truth` says what all lists say of it; the free database
holds what `--category datacenter` keeps of that.

### QueryService, FreeFetch, Reputationdbd (cmd/reputationdbd)

`QueryService` runs one handler per query: `AskQuery` checks the request, `Begin` and
`Finish` are the batch, of which the records follow by `Records`: `parseAddrs` is a
recursive function over the list, and the hits are a function on addresses, as in the
code. `FreeFetch` has `asset` step by step with its mutex: the two GitHub calls are one
step, what they returned is stored in another, since the asset may be replaced in
between; `past` remembers what was uploaded `TTL` ticks ago. `Reputationdbd` composes
the two with `run`: a listener, `Route`, the metrics listener, one goroutine in
`Serve` and one in front of `Shutdown` per server, and `g.Wait`. `Die` takes every
handler with it, and the next process starts with an empty cache. `fetch/v1` is left to
its own module: it shares nothing with the other two but the mux.

### Records, Parsers, MkDatabase (record.go, cmd/mkdatabase)

A network is its set of addresses; networks nest or are disjoint, as prefixes do.
A membership is `<<list, provider, category>>`. There is one source of each kind,
a repository with two lists, an HTTP list whose body is grouped by provider, an AS
with two categories and a local file, in place of the source tables of sources.go. `upstream`
says what each publishes at each instant. `Clone, RemoveFile, Removed, WriteList,
WriteMarker, CachingFails` are `repoFS` and `cacheRepo` step by step, and `Merge`
and `Output` are one step each, because a build's table is its own. The orders in
which Go walks a map or the library leaves open are quantified over. The loops of `fold`,
`mergeContained` and the groups are recursive functions of the round; a sort puts an element
at the place that the number of those before it says (`Sorted`).

`record.go` sorts with `sort.Slice`, which is stable for up to twelve elements, since it sorts
those by insertion, and promises nothing about more. `SortsBefore` ignores the category, so the two
memberships of an autonomous system are equal to it: `DataType` keeps them in order or has
`exchanged` them, and `Output` lets the sort exchange those of any record longer than
`InsertionMax`.

`Parsers` has one operator for each parser of sources.go. A text is a set of lines cut into
tokens, a JSON document its entries; a token spells a network, an address or nothing.
`Document` writes a list in a format, with comments, headers and entries that are not to be read, and
`CollectList` reads a list in any format that can name its networks, `FoldHttp` a body grouped by
region.

## 3. What is checked

Nine runs must pass; three exhibit a disagreement between the code and a text
of the repository (section 4). States are distinct states.

| Run | Module | States | Question |
|---|---|---|---|
| `dbcache_safety` | MCDbCache | 756 k | Run loop and a second `Refresh` against a query, `Close`, failures, crashes, three publications: is any batch answered from unmapped memory or from two builds; do files, mappings and `Ready` stay in order; is it a `SnapshotStore`? |
| `dbcache_live` | MCDbCache | 45 k | With builds too large or not loadable and removals refused: once failures stop, does the newest loadable build end up served? Does `Close` return and release? |
| `publish` | MCPublish | 122 k | Four runs of two publishers, overlapping or not, each call failing, repeated or cut off: what can the index be? |
| `fetch` | MCFetchService | 2.67 M | Two requests, a publisher, the clock, failing reads, restarts: how old may an answer be; is the lock lost; can a version be lost? |
| `maat_store` | MCMaatStore | 82 k | One store over its whole life, replies with and without a version, a build that will not open and one too large: does it keep serving, and settle; is it a `SnapshotStore`? |
| `maat_two` | MCMaatStore | 599 k | Two full-tier stores in one directory: can one hurt the other's lookups or contents? |
| `maat_matcher` | MCMaatMatcher | 1.69 M | Every sequence of eleven configurations, accepted, refused half way or failing to start, while a request is served and stores load and unload: is the pool's count right; can a reload lose a database; is an answer wrong? |
| `daemon` | MCReputationdbd | 271 k | The daemon's whole life with two requests at a time: do answers line up and come from one database; how old may the free asset be; does the process end when it must, and what does it lose? |
| `mkdatabase` | MCMkDatabase | 1.04 M | Three builds of various categories, one after another, over a cache that fills, ages and is torn, from lists in any format: is a build that succeeds right; do equal findings give equal records? |

Properties, in words (their comments in the modules quote the code):

- **DbCache.** `NoUseAfterUnmap`, `OneSnapshot`: while a batch holds the read lock
  its database is mapped and is the same one throughout. `NoMappingLeak`,
  `ClosedReleases`: nothing stays mapped without a reason, nothing at all after
  `Close`. `RenameTargetUnmapped`: a download is never moved over a mapped file.
  `ServedFileKept`, `OnlyServedFile`: after any crashes the directory holds exactly
  the served file. `ReadyMeansLoaded`; `FreshAtReturn`: a `Refresh` that returned nil
  saw a build that was newest since it was called. `EventuallyFresh`, `CloseReturns`
  are the liveness properties. `ImplementsSnapshotStore` is the refinement;
  `IInv` is the inductive invariant of section 6, run first as an invariant.
- **Publish.** `NeverDangling`: the index never lists a missing database,
  whatever overlaps. `IndexWellFormed`: no duplicates, no more than `MaxVersions`,
  nothing invented. `IndexIsRecent`: without overlap it is exactly the most recent
  publications, last one first.
- **FetchService.** `AnswersFresh` and `NeverBackwards`: an answer is of an index read
  within `indexCacheTTL`, and no older than one already cached when its request came.
  `NoLostLock`. `DownloadsNeverLost`: a database in the bucket is found whether the index lists it
  or not, and a URL names an object. `ProvenanceIsLast`: which of a version's publications
  an answer speaks of.
- **MaatStore.** `NoUseAfterUnmap`, `RightBytes`, `NoMappingLeak`,
  `KeepsServing`, `ServedFileKept`, `ImplementsSnapshotStore`, `EventuallyFresh`.
- **MaatMatcher.** `PoolExact`: at every step of every reload the pool counts exactly
  the matchers that use a store, each of them has the store the pool has, and it is open; no
  open store is outside the pool. `ReloadKeepsDatabase`: no step of Caddy's takes a loaded
  database away that goes on being wanted, through every reload that fails and every one
  whose configuration wants it; only the store's own goroutine unloads it.
  `MatchesRight`: who is matched deserves it by all lists, and who deserves it is matched
  whenever a database was consulted, be it the free one or the full one, and however the
  address is written.
- **QueryService, FreeFetch, Reputationdbd.** `AnswersLineUp`: a reference definition of
  the reply (walk the request; each address not met before gets the next record)
  against the code's two maps and two loops, and one publication per reply. `FreeFresh`. `DrainLosesNothing`: an
  exit with success has answered every request accepted. `Ends`: an interrupt or the
  failure of either server ends the process. `Answered`: every query is answered or the
  process ends, and so is every request for the free asset as long as calls to GitHub return
  (`GitHubReplies`), whatever they return and whatever fails under the mutex.
- **MkDatabase.** `Complete`: a build that succeeds has for every address exactly
  the memberships of the selected lists that cover it, none staler than
  `cacheMaxAge` when it began; the reference definition, `Expected`, never mentions
  tables, merging or insertion. `CacheComplete`: a fresh marker means every list, of one clone.
  `ShortRecordsCanonical`: builds that found the same of an address write the same record
  for it, if it is short enough for a stable sort. `Complete` also says that a filtered build's
  masks and sources name nothing but the categories asked for.

### Bounds, and why they are enough

- `dbcache_safety`: two refreshers (one holds `refreshMu`, one waits with an older
  view), one query (readers never interact; it is what a writer waits for), two versions and
  three publications, so that a build can be replaced *and republished* (A, B, A),
  the case in which version and publication differ. Publication 2 has no
  `created_at` in the index, so that the stamp falls back to the mmdb.
- `dbcache_live`: the run loop only (a second refresher adds nothing to progress
  that `refreshMu` does not already order), four versions of which one will not
  open and one is too large, two publications.
- `publish`: two publishers suffice for a lost update; four runs over three
  versions with `MaxVersions = 2` reach trimming, republication and
  republication of a trimmed version.
- `fetch`: `MaxVersions = 1`, so that a version ages out at once; two requests, so that
  one overtakes the other; `TTL = 2` ticks, so that a copy can be fresh, about to expire
  and expired.
- `maat_store`/`maat_two`: two publications, before and after a change. `maat_two` is
  of the full tier, whose contents are what the version promises; `maat_free` is the free
  tier as reputationdbd has it, which is the finding. `maat_store` is the one-call tier with
  an optional version against a server that replaces no build between describing and
  sending it (`Pinned`): with `maat_free`'s wrong bytes on disk no store could settle.
- `maat_matcher`: one server and its two tiers, so two keys of the pool; configurations of no, one and
  two matchers that share a store, do not, or are refused before or after another;
  four stores, so that an old one may still be closing or in a request's hands. One
  request, which is what a reload can meet.
- `daemon`: a batch of four spellings of two addresses, in which each comes twice and the
  second spelling differs, and three that are refused; two publications that disagree on both; an
  asset and its successor; `TTL = 1` tick; one query and two requests for the free asset, at
  most two of the three at once: enough for a lock to be contended and for each kind to be in flight
  during a shutdown. Ticks do not fall between a reply of GitHub's and its storing.
- `mkdatabase`: two networks inside another, one of them a single address that lists write as such,
  and an IPv6 host that collapses onto the other; three addresses (one reserved), sources that change once, a
  `cacheMaxAge` of two ticks and instants 0 to 2, so that an entry can be new, one tick
  old and exactly expired; selections of one category, another one, and all. The sort's twelve
  elements are scaled to `InsertionMax = 6`: a record there has up to seven memberships, so
  there are records on both sides. A tick is hours long, and does not fall between a clone and the end of its caching.

Deadlock is checked except in `publish` and `mkdatabase`, where every run of the
program ends and so does the model. Symmetry is used for interchangeable
versions, requests or builds in runs with no liveness property.

## 4. Findings

Each is a run whose one property TLC violates; the property says what a text of the
repository says.

| Run | What the code does |
|---|---|
| `maat_free` | The free service describes a cached digest next to a rolling URL: newer bytes are stored and served under an older version, and the next start takes the file for the older build. |
| `maat_rotation` | Stores are shared by server and tier, and the new configuration is provisioned before the old one is cleaned up: a reload that changes `api_key` or `storage_path` gets the running store, with the old key and directory. |
| `mkdatabase_concurrent` | Two builds at once on a cold cache: one empties the cached repository while the other reads it, and a file that is gone is a glob with no match, so a database silently lacks lists. One build at a time is safe (`mkdatabase`). |

Five observations have no run of their own. A record of more than twelve memberships does
not depend on what was found alone: `sort.Slice` (record.go:62-73) may exchange an autonomous
system's two memberships, whose order in such a record depends on the order the others came in, and
`parseGrouped` returns a map. So record.go:60-61 ("repeated builds of the same input produce
byte-identical output") promises more than the code does; dropping the disjunct
about `InsertionMax` from `ShortRecordsCanonical` makes TLC show it. Categories and masks are
the same in both. A call to GitHub that never returns blocks the free service: there is no
timeout (freefetch.go:43, :81, :98), `s.mu` is held across both calls (:74-75), and `Lock` does not
look at the context, so every later request waits until the first one's client gives up or the
process ends; without its premise `Answered` is violated in this way. A process that dies between
`CreateTemp` and `Rename` leaves a `reputationdb-*.mmdb.tmp` that `sweep`'s pattern does
not match. `Close` does not take `refreshMu`, so a `Refresh` that some other
goroutine has in flight would map a database after `Close` has returned; `main`
refreshes from the run loop only, and `CloseUnmaps` is proved for that case. When two `maat`
stores of different servers serve the same build from one directory, the first to move on
removes the file the other one still maps: its lookups are safe (`maat_two`), but
its next start downloads again.

## 5. Fairness

Only the program's own goroutines are fair, and nobody is obliged to publish, query,
call `Refresh` or `Close`, or to break or repair anything.

- `DbCache`: weak fairness of each goroutine's steps and of the timer; a batch
  ends; strong fairness of `Acquire`, which Go's mutex gives: a waiter starved
  for a millisecond is handed the lock.
- `MaatStore`: weak fairness of `Run`, `Teardown`, lookups' ends and of the server's
  cache expiring; strong fairness of `Exit`, since `select` picks between a fired
  timer and a done context at random and so picks the context eventually.

- `Reputationdbd`: weak fairness of `run`, of each server's way from a done context to
  the end of `Shutdown` (its ten-second timer fires), and of query handlers; strong
  fairness of the free service's own steps (taking the mutex, storing what GitHub returned,
  answering), for its mutex. There is none of GitHub's returning, `ListAssets` and `AssetFails`:
  nothing in the code bounds how long a call takes, and `Answered` has it as a premise. No one has
  to ask, upload, interrupt, fail or restart.

`MaatMatcher` has no liveness property: what happens and when is Caddy's doing.

`EventuallyFresh` has "failures stop and nobody cancels" as its premise, stated on
the behaviour and not as fairness; in `MaatStore` its conclusion allows a store to be empty
again and again while a server without versions makes it download the same path
over and over, and says that it is never stale for good.

## 6. What is proved

Every safety property and every action property of the passing runs is a theorem of
the module's specification for all values of the constants. Each rests on the named assumptions of the modules (types of the
constants, `None` outside the values it stands beside) and on nothing else, except where a
hypothesis is written into the theorem. The pattern is the same throughout: an
inductive invariant beside the component's own actions, checked by TLC first; a
lemma per conjunct or per actor, with one step per action; the property from the
invariant.

### The server's cache

`DbCache_proofs` proves, for every set of versions, queries and callers and every
number of publications, under `ConstantsAssumption` only (types of the constants, `None`
not a version, the loop not a caller):

| Theorem | Statement |
|---|---|
| `InductiveInvariant` | `Spec => []IInv` |
| `TypeCorrect` | `Spec => []TypeOK` |
| `QueriesReadMapped` | `NoUseAfterUnmap` |
| `BatchesAreSnapshots` | `OneSnapshot` |
| `FieldsDescribeOneBuild` | `FieldsAgree`: a batch is stamped with its own build's time |
| `MappingsAccounted` | `NoMappingLeak` |
| `RenamesAreSafe` | `RenameTargetUnmapped` |
| `ServedFileStays` | `ServedFileKept` |
| `DirectorySafety` | `OnlyServedFile` |
| `ReadyStaysLoaded` | `ReadyMeansLoaded` |
| `ReturnsAreFresh` | `FreshAtReturn` |
| `CloseUnmaps` | `ClosedReleases`, when no goroutine but the run loop refreshes |
| `Refinement` | `Spec => ImplementsSnapshotStore` |

The argument. None of the safety properties is inductive: whether a swap is safe depends on
what a refresher learned several steps, and one dropped lock, earlier. `IInv` says what it may
still rely on:

- `MutexInv`: whoever is inside `Refresh` is the holder of `refreshMu`. So at most one
  refresher has knowledge to protect, and the only other writer of the fields is
  `Close`.
- `HolderInv`: what the holder knows at each label. Its build is a publication no older
  than the call and than anything served; from `stat` to `swap` its target is not the
  served version (hence the rename hits no mapped file); at `swap` its file is complete and
  mapped; at `release` and `sweep` its target is what is served, unless `Close` has
  come in between.
- `FieldsAgree`, `HistoryInv`: the four fields describe one publication, and
  publications are ordered by `log`.
- `MappingInv`, `ReaderInv`: who justifies each mapping, and what a reader can have read.
- `ServedFileKept`, `ReadyMeansLoaded`, `DirectoryInv`: the directory and the promise of
  `Ready`.

Each conjunct has a lemma (`TypeStep`, `MutexStep`, `HolderStep`, ...), one step per
action; `InductiveInvariant` puts them together. `Refinement` maps `Swap` to
`Install`, `CloseRelease` to `Retire`, a query's begin and end to a batch's, and everything else
to a stutter; it needs `IInv` for "never older than `highWater`" and "no batch is
running when the write lock is taken".

### The bucket and its index

`Publish_proofs`, under `PublishAssumption`, for any versions, publishers and number of
runs, overlapping, cancelled and failing:

| Theorem | Statement |
|---|---|
| `InsertPlaced` | what `InsertVersion` returns: the new entry, then the others in their order, cut to `MaxVersions` |
| `RecentLists` | the reference definition `Recent(history)` lists the last publication of each version, newest first |
| `RecentInsert` | inserting the next publication into `Recent` of a history is `Recent` of the longer history |
| `PublishInvariant` | `PublishSpec => []PublishInv` |
| `PublishTypeCorrect` | `PublishTypeOK` |
| `IndexNeverDangles` | `NeverDangling` |
| `IndexAlwaysWellFormed` | `IndexWellFormed` |
| `IndexStaysRecent` | `IndexIsRecent` |

Overlapping runs may lose each other's entries, so what survives them is what holds of
*every* list that was ever the index: `Sound` (bounded, one entry per version, only
published entries, only stored objects), of the index (`IndexInv`) and of what any
run has read, however long ago (`RunInv`). As long as no two runs overlapped `SerialInv`
says more: the index is `Recent(log)`, and a run past its read still holds it.
`RecentInsert` is the step that matters there; it is an induction over data,
carried by `NatSetInduction` on the set of lengths for which the claim holds.

`FetchService_proofs`, under `PublishAssumption` and `FetchAssumption`, for any requests
and cache lifetime, over the bucket that the same publishers write meanwhile:

| Theorem | Statement |
|---|---|
| `FetchInvariant` | `FetchSpec => []FetchInv` |
| `FetchTypeCorrect` | `FetchTypeOK` |
| `ServedIndexNeverDangles` | `NeverDangling`, with the service running |
| `RequestsNeverGoBack` | `NeverBackwards` |
| `LockNeverLost` | `NoLostLock` |
| `DownloadsStay` | `DownloadsNeverLost` |
| `ProvenanceNeverStale` | `ProvenanceIsLast` |
| `AnswersStayFresh` | `AnswersFresh` |

`FetchInv` adds to `PublishInv` who holds the mutex (`LockInv`), that the cached index
once was the index and is no older than its age says (`CacheInv`), and what a request
relies on at each step (`Relies`) and answers from (`Answered`). `WasIndex` is the
link: an index read at publication `gen` has only stored objects now too, since
objects are never removed, and without overlap it is `Recent` of the first `gen`
publications. Steps of publishers and steps of requests have a frame lemma each.

### The matcher's databases

`MaatStore_proofs`, under `MaatAssumption`, for any number of stores, lookups and versions:

| Theorem | Statement |
|---|---|
| `InductiveInvariant`, `TypeCorrect` | `[]IInv`, `[]TypeOK` |
| `LookupsReadMapped` | `NoUseAfterUnmap` |
| `MappingsAccounted` | `NoMappingLeak` |
| `VersionsHoldTheirBytes` | `RightBytes`, if downloads are of the version that was advertised (`Pinned`) |
| `FullTierBytes` | `RightBytes` for the full tier, whose URLs are per version |
| `FileSurvives` | `ServedFileKept`, for a store with its directory to itself (`Alone`) |
| `NeverUnloaded` | `KeepsServing` |
| `Refinement` | `ImplementsSnapshotStore`, for one store among any number (`Stores # {}`) |

The two hypotheses are not conveniences: without `Pinned` the run `maat_free` violates
`RightBytes` (finding), and two stores in one directory do remove each other's files
(the run `maat_two` checks only what survives that). A refresh holds no lock, so
`JobInv` says what it relies on at each step because nobody else changes its store's
fields; `PlaceInv` and `LookupInv` tie what is served to its path and its readers;
`ContentsInv` follows the bytes from the advertised version through the temporary
file and the rename to the mapping; `KeptInv` keeps the served file in place.

`MaatMatcher_proofs`, under `MatcherAssumption`, for any configurations, matchers per
configuration, keys and directories:

| Theorem | Statement |
|---|---|
| `MatcherInvariant` | `Spec => []IInv` |
| `PoolStaysExact` | `PoolExact` |
| `MatchesAreRight` | `MatchesRight` |
| `ReloadsKeepDatabases` | `ReloadKeepsDatabase` |

`PoolExact` counts the matchers that use a store. It is preserved by each `LoadOrNew`
and each `Delete` because of `PoolInv` (a key has one store, no store two keys) and
`PhaseInv` (what is pending, and who passed the checks, in each phase of a load). When a
load wins, the matchers to clean up and the running ones change places; the count is
carried over by a bijection between the two. `MatchesAreRight` does not depend on which stores have
a database; `ReloadsKeepDatabases` rests on the running configuration's stores being open
(`RunningStoresOpen`).

### The daemon

`Reputationdbd_proofs`, for any batches of requests, addresses, publications and
interrupts:

| Theorem | Statement |
|---|---|
| `ParseAddrsParses` | what `parseAddrs` leaves of a request: first occurrences, in order, or nothing if one is malformed |
| `RecordsLineUp` | one record per distinct address, in the order asked |
| `DaemonInvariant` | `Spec => []IInv` |
| `AnswersAlwaysLineUp` | `AnswersLineUp` |
| `CleanExitAnswersAll` | `DrainLosesNothing` |
| `FreeStaysFresh` | `FreeFresh` |

`IInv` is the conjunction of the two services' own invariants (`QueryInv`, `FreeInv`) and
the daemon's (`DrainInv`: the API server is done without an error only when no request
is left). The loop of `parseAddrs` is a recursive function; its lemma goes by
`NatSetInduction` over the number of addresses read.

### The database builder

`MkDatabase_proofs`, under `MkDatabaseAssumption` and `PrefixAssumption` (networks nest or
are disjoint), for any networks, lists, providers, categories, builds, publications and cache
lifetime, wherever a build fails or dies:

| Theorem | Statement | Builds at once |
|---|---|---|
| `MkDatabaseInvariant` | `Spec => []IInv` | one (`MaxRunning = 1`) |
| `CacheStaysComplete` | `CacheComplete` | one |
| `CompleteBuilds` | `Complete` | one |
| `EqualFindingsEqualRecords` | `ShortRecordsCanonical` | any number |

That builds run one after another is what a workflow run gives; with `MaxRunning = 2` TLC
violates `Complete` (`mkdatabase_concurrent`). The argument for the first three has two
halves.

The operators first. `ParsersRead` says that every parser reads from a document of its format just the
networks the document lists, and `ParsersGroup` the same of a body in regions. `AddAllFacts`, `FoldFacts` and `FoldGroupsFacts` say which memberships a
record has after a fold, whatever the order of the groups; `MergeFacts` that visiting the
networks in *any* order leaves each record with what it and all broader networks had before
(the invariant of the loop, `Merged`, is that a record already visited has all of it and no
record has anything else); `InsertFacts` that an address ends with the record of its narrowest
network, because wider ones come first; `DataTypeFacts` that sorting loses nothing
(`SortedLists`). They go by `NatSetInduction` over the rounds of the loop.

Then the builds. `CacheInv` and `Writing` say why the cache can be trusted: it is only taken
away once its marker is stale, and a new marker is only written after every list. `TableInv` is what a
build relies on at each step: there are instants, recent when it began, such that its table has
exactly what the sources it has `Folded` said at those instants (`Holds`), and once merged
what broader networks say too (`Inherits`). Each source's action extends `Folded` by that source
and leaves the others' part alone (`Gives`, `GivesHolds`); `OutputComplete` takes the merged table to
`Expected`, which mentions neither tables nor merging.

`ShortRecordsCanonical` needs nothing of the cache: whatever builds read, and however they race, those that
found the same say it in the same order. `SortsBefore` alone does not give that, since it leaves
the memberships of the autonomous system, one per category, in the order they were added. What
decides is an invariant of records, `Neat`: a record holds nothing twice, the system's
memberships stand in it in the order of `ASCategories`, and it has all of those the build selects
or none. Adding, folding and merging keep it, in whatever order groups and networks are walked
(`AddAllNeat`, `FoldGroupsNeat`, `MergeNeat`). "All or none" is what makes it hold: half of
them, added to the other half, could stand in the wrong order for good. A neat record, sorted,
stably ascends strictly in one total order of memberships, and a set has one ascending sequence
(`WrittenInOrder`, `OneAscent`). A record that is short in the database was short when it was sorted
(`WrittenLength`), so nothing in it was exchanged (`OneRecord`).

### Only model-checked

- Liveness (`EventuallyFresh` of both stores, `CloseReturns`, `Ends`, `Answered`) and anything with
  `ENABLED`: outside the prover's reach.
- The three violated properties (section 4) are false.

## 7. What is left out

- **Not modelled.** `useragent`; the offline tools `nginxscan`, `dump-prefixes` and
  `repute-ip-list`, sequential and without state; generated code; test fakes; the
  Caddyfile syntax of the matcher.
- **Abstracted.** Encodings (protobuf, gzip, base64, mmdb): an object that fails to
  decode is a failed read or an unmappable file. Of the lists, the syntax of JSON, URLs and
  addresses; a JSON document that does not decode is read as an empty list, so a build succeeds
  without it. The check for git-lfs pointers is one of the ways a build fails (`Abort`).
  Durations of timers. Logging.
- **Simplified.** The daemon always has a metrics server and an API server (`--metrics-bind ""`
  and `--bind ""` turn them off);
  connections in a listener's backlog and keep-alive connections are left out. The rolling release
  is always there and on the first page of `ListReleases`. Between an asset's delete and
  its upload the release has none. A process that gets SIGTERM is killed: `main`
  listens for interrupts only. Power loss tears database files, not files of the source cache. A
  failing `mkdatabase` may leave a partial output file, and exits non-zero; the model
  has no output then. A torn database file is one that was cut short: it lacks the metadata at
  its end, and `Open` refuses it. One that is damaged in the middle only would open, which is left
  out. An error reply of RIPE's API with a JSON body counts as an AS with no prefixes,
  as the code has it, and `Complete` allows it. That `store.All` yields
  wider networks before narrower ones is taken from the prefix table's library. The cache's
  key has no commit in it, so builds of different revisions share it; the model has one
  revision.

## 8. Plan

Done, in this order: `SnapshotStore`, `DbCache` and its proofs, since what serves
every query comes first; `VersionIndex`, `Publish`, `FetchService`; `MaatStore`;
`Records`, `MkDatabase`; `MaatMatcher`; `QueryService`, `FreeFetch`, `Reputationdbd`.

Done with proofs: `DbCache_proofs`; `Publish_proofs` and `FetchService_proofs` on `SetInduction`;
`MaatStore_proofs`; `MaatMatcher_proofs`; `Reputationdbd_proofs`; `MkDatabase_proofs`. With
them every safety and action property of the passing runs is a theorem.

Next: what builds that run at once may still rely on. `Complete` is lost, but the part of it
that a filtered build's records name only the categories asked for does not mention the cache,
and should hold for any `MaxRunning`. And an instance with a record of thirteen memberships and
`InsertionMax = 12`, in which the order that sort.Slice leaves open shows at the code's own numbers.
