------------------------------ MODULE MaatStore ------------------------------
(***************************************************************************)
(* dbStore of the Caddy matcher (caddy/maat/store.go): a database on disk, *)
(* memory-mapped for lookups, and the goroutine that keeps it fresh from   *)
(* reputationdbd's fetch API.                                              *)
(*                                                                         *)
(* Several stores may share one directory and tier: stores are keyed by    *)
(* server, and every matcher's default storage path is the same directory. *)
(*                                                                         *)
(* The servers publish a log of builds and describe one position of it,    *)
(* advert, which may lag: both fetch services cache what they describe.    *)
(* The full tier is asked twice, List and then Fetch of its first version, *)
(* and its URL names that version's own object (Pinned); the free tier is  *)
(* asked once and its URL is the rolling release asset, whatever it holds. *)
(*                                                                         *)
(* Versions are also the contents they are the digest of.  The fields db,  *)
(* path and version are always written together under mu: cur.             *)
(*                                                                         *)
(* Left out: the temporary file (as in DbCache, which models it), the      *)
(* timers' durations, and fetchTimeout, which is one way for a call to     *)
(* fail.                                                                   *)
(***************************************************************************)
EXTENDS Naturals, Sequences, FiniteSets

CONSTANTS
  Stores,            \* dbStores of one tier that use the directory
  Lookups,           \* goroutines in lookup
  Versions,          \* what a build's version and its contents can be
  NoVersion,         \* the empty version of a server that reports none
  None,              \* nothing mapped, no lookup
  Tier,              \* the tier of the stores: "free" or "full"
  MayOmitVersion,    \* a server's reply may come without a version
  Pinned,            \* a download URL always yields the described version
  Unmappable,        \* contents that reputationdb.Open refuses
  TooLarge,          \* contents over maxDatabaseSize
  MaxPublishes       \* bound: how often the build behind the servers changes

VARIABLES
  (* the world *)
  log,               \* contents of the builds, in publication order
  advert,            \* the position of log that the servers describe
  healthy,           \* FALSE: any call outside the process may fail
  disk,              \* disk[p]: the contents at path p, "absent" or "torn"
  (* the stores *)
  cur,               \* cur[s]: what s maps and where it came from, or None
  mapped,            \* mapped[s]: all mappings s has not closed
  highWater,         \* history: the newest publication s has served
  canceled,          \* canceled[s]: Destruct has canceled s.ctx
  (* the stores' goroutines *)
  pc,                \* what s's run does next
  job,               \* job[s]: the locals of s's refresh
  (* lookups *)
  reading            \* reading[q]: [store, db] that lookup q reads, or None

world == <<log, advert, healthy>>
fields == <<cur, mapped, highWater>>
locals == <<pc, job>>
vars == <<world, disk, fields, canceled, locals, reading>>

\* One path per version: databasePath hashes the version into the file name.
Paths == Versions \cup {NoVersion}
Mappings == [path : Paths, version : Paths, bytes : Versions,
             gen : 1 .. MaxPublishes]

ASSUME MaatAssumption ==
  /\ NoVersion \notin Versions
  /\ None \notin Paths \cup Mappings \cup [store : Stores, db : Mappings]
  /\ {"absent", "torn"} \cap Versions = {}
  /\ Tier \in {"free", "full"}
  /\ MayOmitVersion \in BOOLEAN /\ Pinned \in BOOLEAN
  /\ Tier = "full" => Pinned /\ ~MayOmitVersion
  /\ Unmappable \cup TooLarge \subseteq Versions
  /\ MaxPublishes \in Nat

NoJob == [version |-> None, gen |-> 0, bytes |-> None, old |-> None, new |-> None]

GoTo(s, label) == pc' = [pc EXCEPT ![s] = label]
Set(s, label, locals1) ==
  GoTo(s, label) /\ job' = [job EXCEPT ![s] = locals1]

-----------------------------------------------------------------------------
Bug_DatabasePath(v) == NoVersion
DatabasePath(v) == v
TargetPath(s) == DatabasePath(job[s].version)

\* The version a server may give for its current build.
BuildVersions ==
  {log[advert]} \cup (IF MayOmitVersion THEN {NoVersion} ELSE {})

\* What a download for the build at position g yields.
Downloaded(g) == log[IF Pinned THEN g ELSE Len(log)]

\* reputationdb.Open succeeds on the file at path p: one that was cut short
\* lacks the metadata at its end.  (Damage in the middle only is left out.)
Opens(p) == disk[p] \in Versions \ Unmappable

\* The store's own version equals the build's; "" never does.
Bug_AlreadyCurrent(s) == cur[s] # None /\ cur[s].version = job[s].version
AlreadyCurrent(s) ==
  /\ job[s].version # NoVersion
  /\ cur[s] # None
  /\ cur[s].version = job[s].version

Bug_OnServedPath(s) == cur[s] # None
OnServedPath(s) == cur[s] # None /\ cur[s].path = TargetPath(s)

\* mu.Lock waits for every lookup in the store.
Bug_WriteLockFree(s) == TRUE
WriteLockFree(s) ==
  \A q \in Lookups : reading[q] # None => reading[q].store # s

CallMayFail(s) == ~healthy \/ canceled[s]

\* What release leaves mapped.
AfterClose(s) == mapped[s] \ {job[s].old}

\* The file release removes: the retired one, unless it is the one to keep.
Bug_Retired(s, keep) == {keep} \ {job[s].old.path}
Retired(s, keep) == {job[s].old.path} \ {keep}

Removed(paths) ==
  [p \in Paths |-> IF p \in paths THEN "absent" ELSE disk[p]]

Init ==
  /\ log = << >> /\ advert = 0 /\ healthy = TRUE
  /\ disk = [p \in Paths |-> "absent"]
  /\ cur = [s \in Stores |-> None]
  /\ mapped = [s \in Stores |-> {}]
  /\ highWater = [s \in Stores |-> 0]
  /\ canceled = [s \in Stores |-> FALSE]
  /\ pc = [s \in Stores |-> "off"]
  /\ job = [s \in Stores |-> NoJob]
  /\ reading = [q \in Lookups |-> None]

-----------------------------------------------------------------------------
(* The world *)

Publish(v) ==
  /\ Len(log) < MaxPublishes
  /\ log' = Append(log, v)
  /\ UNCHANGED <<advert, healthy, disk, fields, canceled, locals, reading>>

\* A server's cached index or asset expires and is read again.
Advertise ==
  /\ advert < Len(log)
  /\ advert' = Len(log)
  /\ UNCHANGED <<log, healthy, disk, fields, canceled, locals, reading>>

SetHealth ==
  /\ healthy' = ~healthy
  /\ UNCHANGED <<log, advert, disk, fields, canceled, locals, reading>>

\* Caddy dies.  Nothing is fsynced: after a power loss files may be torn.
Crash(torn) ==
  /\ ~healthy
  /\ torn \subseteq {p \in Paths : disk[p] # "absent"}
  /\ disk' = [p \in Paths |-> IF p \in torn THEN "torn" ELSE disk[p]]
  /\ cur' = [s \in Stores |-> None]
  /\ mapped' = [s \in Stores |-> {}]
  /\ canceled' = [s \in Stores |-> FALSE]
  /\ pc' = [s \in Stores |-> "off"]
  /\ job' = [s \in Stores |-> NoJob]
  /\ reading' = [q \in Lookups |-> None]
  /\ UNCHANGED <<world, highWater>>

-----------------------------------------------------------------------------
(* Life of a store *)

\* loadStore: the first matcher to want it.
Create(s) ==
  /\ pc[s] = "off"
  /\ GoTo(s, "current")
  /\ UNCHANGED <<world, disk, fields, canceled, job, reading>>

\* Destruct: cancel, wait for run, and close what it left mapped.
Cancel(s) ==
  /\ pc[s] # "off" /\ ~canceled[s]
  /\ canceled' = [canceled EXCEPT ![s] = TRUE]
  /\ UNCHANGED <<world, disk, fields, locals, reading>>

Bug_RunDone(s) == canceled[s]
RunDone(s) == pc[s] = "stopped"

Teardown(s) ==
  /\ canceled[s] /\ RunDone(s)
  /\ WriteLockFree(s)
  /\ cur' = [cur EXCEPT ![s] = None]
  /\ mapped' = [mapped EXCEPT ![s] = @ \ {cur[s]}]
  /\ canceled' = [canceled EXCEPT ![s] = FALSE]
  /\ Set(s, "off", NoJob)
  /\ UNCHANGED <<world, disk, highWater, reading>>

\* run's select: the timer has fired, or the context is done.
Timer(s) ==
  /\ pc[s] = "wait"
  /\ GoTo(s, "current")
  /\ UNCHANGED <<world, disk, fields, canceled, job, reading>>

Exit(s) ==
  /\ pc[s] = "wait" /\ canceled[s]
  /\ GoTo(s, "stopped")
  /\ UNCHANGED <<world, disk, fields, canceled, job, reading>>

-----------------------------------------------------------------------------
(* refresh *)

\* freeSource.current, or the List of fullSource.current: a listing without
\* versions, or with an empty one in front, is an error.
Current(s) ==
  /\ pc[s] = "current"
  /\ advert > 0
  /\ \E v \in BuildVersions :
       Set(s, IF Tier = "full" THEN "resolve" ELSE "check",
           [NoJob EXCEPT !.version = v, !.gen = advert])
  /\ UNCHANGED <<world, disk, fields, canceled, reading>>

\* The Fetch of the listed version; a reply that names none means that one.
Resolve(s) ==
  /\ pc[s] = "resolve"
  /\ GoTo(s, "check")
  /\ UNCHANGED <<world, disk, fields, canceled, job, reading>>

\* A version that has been succeeded since it was listed may be gone.
CurrentFails(s) ==
  /\ \/ pc[s] = "current" /\ (CallMayFail(s) \/ advert = 0)
     \/ pc[s] = "resolve" /\ (CallMayFail(s) \/ job[s].gen < Len(log))
  /\ Set(s, "wait", NoJob)
  /\ UNCHANGED <<world, disk, fields, canceled, reading>>

Check(s) ==
  /\ pc[s] = "check"
  /\ IF AlreadyCurrent(s) THEN Set(s, "wait", NoJob)
     ELSE /\ GoTo(s, IF job[s].version # NoVersion THEN "stat" ELSE "fetch")
          /\ UNCHANGED job
  /\ UNCHANGED <<world, disk, fields, canceled, reading>>

\* Open maps the file at the build's path.
Mapping(s) == [path |-> TargetPath(s), version |-> job[s].version,
               bytes |-> disk[TargetPath(s)], gen |-> job[s].gen]
MapFile(s) ==
  /\ Opens(TargetPath(s))
  /\ mapped' = [mapped EXCEPT ![s] = @ \cup {Mapping(s)}]
  /\ Set(s, "swap", [job[s] EXCEPT !.new = Mapping(s)])
  /\ UNCHANGED <<world, disk, cur, highWater, canceled, reading>>

LoadCached(s) == pc[s] = "stat" /\ MapFile(s)

Bug_NoCached(s) ==
  /\ pc[s] = "stat"
  /\ disk[TargetPath(s)] = "absent"
  /\ GoTo(s, "fetch")
  /\ UNCHANGED <<world, disk, fields, canceled, job, reading>>

\* There is no file, Stat fails, or the file won't open: download.
NoCached(s) ==
  /\ pc[s] = "stat"
  /\ ~Opens(TargetPath(s)) \/ ~healthy
  /\ GoTo(s, "fetch")
  /\ UNCHANGED <<world, disk, fields, canceled, job, reading>>

\* download, up to the complete temporary file.
Fetch(s) ==
  /\ pc[s] = "fetch"
  /\ Downloaded(job[s].gen) \notin TooLarge
  /\ Set(s, "place", [job[s] EXCEPT !.bytes = Downloaded(job[s].gen)])
  /\ UNCHANGED <<world, disk, fields, canceled, reading>>

\* The mapping is given up first when the download lands on its file.
Place(s) ==
  /\ pc[s] = "place"
  /\ GoTo(s, IF OnServedPath(s) THEN "unload" ELSE "rename")
  /\ UNCHANGED <<world, disk, fields, canceled, job, reading>>

Unload(s) ==
  /\ pc[s] = "unload"
  /\ WriteLockFree(s)
  /\ cur' = [cur EXCEPT ![s] = None]
  /\ Set(s, "unloaded", [job[s] EXCEPT !.old = cur[s]])
  /\ UNCHANGED <<world, disk, mapped, highWater, canceled, reading>>

\* release: close the retired mapping, remove its file unless it is kept.
Close(s, keep, next, locals1) ==
  /\ mapped' = [mapped EXCEPT ![s] = AfterClose(s)]
  /\ disk' = IF job[s].old = None THEN disk ELSE Removed(Retired(s, keep))
  /\ Set(s, next, locals1)
  /\ UNCHANGED <<world, cur, highWater, canceled, reading>>

ReleaseUnloaded(s) ==
  pc[s] = "unloaded" /\ Close(s, None, "rename", [job[s] EXCEPT !.old = None])

Rename(s) ==
  /\ pc[s] = "rename"
  /\ disk' = [disk EXCEPT ![TargetPath(s)] = job[s].bytes]
  /\ GoTo(s, "open")
  /\ UNCHANGED <<world, fields, canceled, job, reading>>

Open(s) == pc[s] = "open" /\ MapFile(s)

OpenFails(s) ==
  /\ pc[s] = "open"
  /\ ~Opens(TargetPath(s)) \/ ~healthy
  /\ Set(s, "wait", NoJob)
  /\ UNCHANGED <<world, disk, fields, canceled, reading>>

\* The request, the temporary file, the copy or the rename fails.
DownloadFails(s) ==
  /\ \/ pc[s] = "fetch" /\ CallMayFail(s)
     \/ pc[s] = "fetch" /\ Downloaded(job[s].gen) \in TooLarge
     \/ pc[s] = "rename" /\ ~healthy
  /\ Set(s, "wait", NoJob)
  /\ UNCHANGED <<world, disk, fields, canceled, reading>>

Swap(s) ==
  /\ pc[s] = "swap"
  /\ WriteLockFree(s)
  /\ cur' = [cur EXCEPT ![s] = job[s].new]
  /\ highWater' = [highWater EXCEPT ![s] = job[s].gen]
  /\ Set(s, "release", [job[s] EXCEPT !.old = cur[s]])
  /\ UNCHANGED <<world, disk, mapped, canceled, reading>>

Release(s) == pc[s] = "release" /\ Close(s, cur[s].path, "wait", NoJob)

-----------------------------------------------------------------------------
(* lookup *)

\* RLock, which yields to a waiting writer; with nothing mapped it returns.
LookupBegin(q, s) ==
  /\ reading[q] = None
  /\ pc[s] \notin {"off", "unload", "swap"} /\ ~(canceled[s] /\ RunDone(s))
  /\ cur[s] # None
  /\ reading' = [reading EXCEPT ![q] = [store |-> s, db |-> cur[s]]]
  /\ UNCHANGED <<world, disk, fields, canceled, locals>>

LookupEnd(q) ==
  /\ reading[q] # None
  /\ reading' = [reading EXCEPT ![q] = None]
  /\ UNCHANGED <<world, disk, fields, canceled, locals>>

-----------------------------------------------------------------------------
Refresh(s) ==
  \/ Current(s) \/ Resolve(s) \/ CurrentFails(s)
  \/ Check(s)
  \/ LoadCached(s) \/ NoCached(s)
  \/ Fetch(s) \/ DownloadFails(s)
  \/ Place(s) \/ Unload(s) \/ ReleaseUnloaded(s)
  \/ Rename(s)
  \/ Open(s) \/ OpenFails(s)
  \/ Swap(s) \/ Release(s)

Run(s) == Timer(s) \/ Exit(s) \/ Refresh(s)

Next ==
  \/ \E v \in Versions : Publish(v)
  \/ Advertise
  \/ SetHealth
  \/ \E torn \in SUBSET Paths : Crash(torn)
  \/ \E s \in Stores : Create(s) \/ Cancel(s) \/ Teardown(s) \/ Run(s)
  \/ \E q \in Lookups : LookupEnd(q) \/ \E s \in Stores : LookupBegin(q, s)

Spec == Init /\ [][Next]_vars

\* The goroutine runs, lookups return, and mu.Lock is served.  The timer and a
\* canceled context are picked between, so a canceled loop may tick but exits.
FairSpec ==
  /\ Spec
  /\ \A s \in Stores :
       WF_vars(Run(s)) /\ SF_vars(Exit(s)) /\ WF_vars(Teardown(s))
  /\ \A q \in Lookups : WF_vars(LookupEnd(q))
  /\ WF_vars(Advertise)

-----------------------------------------------------------------------------
(* Properties *)

PcLabels == {"off", "wait", "current", "resolve", "check", "stat", "fetch", "place",
             "unload", "unloaded", "rename", "open", "swap", "release", "stopped"}

MaybeMapping == Mappings \cup {None}

\* Types of the disk, the stores' fields and the refreshes' locals.
TypeOK ==
  /\ log \in Seq(Versions) /\ Len(log) <= MaxPublishes
  /\ advert \in 0 .. Len(log)
  /\ disk \in [Paths -> Versions \cup {"absent", "torn"}]
  /\ cur \in [Stores -> MaybeMapping]
  /\ mapped \in [Stores -> SUBSET Mappings]
  /\ highWater \in [Stores -> 0 .. MaxPublishes]
  /\ canceled \in [Stores -> BOOLEAN]
  /\ pc \in [Stores -> PcLabels]
  /\ job \in [Stores -> [version : Paths \cup {None}, gen : 0 .. MaxPublishes,
                         bytes : Versions \cup {None},
                         old : MaybeMapping, new : MaybeMapping]]
  /\ reading \in [Lookups -> [store : Stores, db : Mappings] \cup {None}]

-----------------------------------------------------------------------------
(* The inductive invariant *)

\* A refresh has been told of a build, and is not done with it.
Refreshing(s) == pc[s] \notin {"off", "wait", "current", "stopped"}

\* What a refresh of s relies on at each of its steps, although it holds no
\* lock: nobody else changes the store's fields.
JobInv(s) ==
  /\ highWater[s] <= advert
  /\ ~Refreshing(s) => job[s] = NoJob
  /\ Refreshing(s) => /\ job[s].gen \in 1 .. advert /\ job[s].gen >= highWater[s]
                      /\ job[s].version \in {log[job[s].gen], NoVersion}
  /\ pc[s] = "stat" => job[s].version # NoVersion
  /\ pc[s] \in {"stat", "fetch", "place"} /\ OnServedPath(s) => job[s].version = NoVersion
  /\ pc[s] = "unload" => OnServedPath(s) /\ job[s].version = NoVersion
  /\ pc[s] = "unloaded" => cur[s] = None /\ job[s].old # None
  /\ pc[s] \in {"rename", "open", "swap"} => ~OnServedPath(s)
  /\ pc[s] \in {"place", "unload", "unloaded", "rename"} => job[s].bytes \in Versions
  /\ pc[s] = "swap" => /\ job[s].new # None /\ job[s].new.gen = job[s].gen
                       /\ job[s].new.path = TargetPath(s)
                       /\ job[s].new.version = job[s].version
  /\ pc[s] = "release" => /\ job[s].new = cur[s] /\ cur[s] # None
                          /\ job[s].old # cur[s]
  /\ pc[s] \notin {"unloaded", "release"} => job[s].old = None
  /\ pc[s] \notin {"swap", "release"} => job[s].new = None

\* A mapping's file is where its version belongs.
PlaceInv == \A s \in Stores : cur[s] # None => cur[s].path = DatabasePath(cur[s].version)

\* A lookup reads what its store serves.
LookupInv ==
  \A q \in Lookups :
    reading[q] # None => cur[reading[q].store] # None /\ reading[q].db = cur[reading[q].store]

\* Contents are in place under their own version: on disk, mapped, about to be.
RightUnder(v, bytes) == v # NoVersion => bytes = v
ContentsInv ==
  Pinned =>
    /\ \A v \in Versions : disk[v] \in {"absent", "torn", v}
    /\ \A s \in Stores :
         /\ cur[s] # None => RightUnder(cur[s].version, cur[s].bytes)
         /\ pc[s] = "swap" => RightUnder(job[s].version, job[s].new.bytes)
         /\ pc[s] \in {"place", "unload", "unloaded", "rename"}
              => RightUnder(job[s].version, job[s].bytes)

\* A store that has its directory to itself finds there what it serves and
\* what it is about to serve.
Alone == \A s, t \in Stores : s = t
KeptInv ==
  Alone => \A s \in Stores : /\ cur[s] # None => disk[cur[s].path] # "absent"
                             /\ pc[s] = "swap" => disk[TargetPath(s)] # "absent"

-----------------------------------------------------------------------------
\* A lookup reads a mapping that is still open: a refresh, an unload and
\* Destruct close one only after every lookup in it has returned (lookup,
\* store.go:128-143; the "past this point" comment, store.go:318-320).
NoUseAfterUnmap ==
  \A q \in Lookups :
    reading[q] # None => reading[q].db \in mapped[reading[q].store]

\* A store holds the mapping it serves, the one a swap is about to install and
\* the one being released, and no other; a store that is gone holds none
\* (release, store.go:350; Destruct, store.go:391).
NoMappingLeak ==
  \A s \in Stores :
    mapped[s] = {cur[s], job[s].old, job[s].new} \ {None}

IInv ==
  /\ TypeOK
  /\ \A s \in Stores : JobInv(s)
  /\ PlaceInv /\ NoMappingLeak /\ LookupInv /\ ContentsInv /\ KeptInv

\* What is served under a version is what that version is the digest of,
\* whatever stores share the directory and whatever files earlier processes
\* left: "an unchanged version means unchanged data" (source.go:31-33), "a
\* matching filename means matching data" (store.go:210-212).
RightBytes ==
  \A s \in Stores :
    cur[s] # None /\ cur[s].version # NoVersion => cur[s].bytes = cur[s].version

\* A running store that serves a build with a version never goes back to
\* serving nothing: no failed, torn or unusable download costs it the database
\* it has ("continuing with the one already loaded", store.go:159-160).
KeepsServing ==
  [][\A s \in Stores :
       cur[s] # None /\ cur[s].version # NoVersion /\ cur'[s] = None
         => canceled[s] \/ pc'[s] = "off"]_vars

Resting(s) == pc[s] \in {"wait", "stopped"}

\* The database a store serves is on disk for the next start: "it survives a
\* Caddy restart without being downloaded again" (store.go:58-61, 388-390).
ServedFileKept ==
  \A s \in Stores : Resting(s) /\ cur[s] # None => disk[cur[s].path] # "absent"

\* Seen from its lookups a store is a SnapshotStore: one publication at a time,
\* replaced only between lookups and only by a newer one, restarts included.
AStore == CHOOSE s \in Stores : TRUE
ServedGen == IF cur[AStore] = None THEN 0 ELSE cur[AStore].gen
StoreBatch ==
  [q \in Lookups |-> IF reading[q] = None \/ reading[q].store # AStore THEN 0
                     ELSE reading[q].db.gen]

Snapshot == INSTANCE SnapshotStore
  WITH Queries <- Lookups, Publications <- 1 .. MaxPublishes,
       serving <- ServedGen, highWater <- highWater[AStore], batch <- StoreBatch

ImplementsSnapshotStore == Snapshot!Spec

Loadable == Versions \ (Unmappable \cup TooLarge)

Fresh(s) == log # << >> /\ log[Len(log)] \in Loadable
              => cur[s] # None /\ cur[s].bytes = log[Len(log)]

\* A running store whose calls eventually stop failing settles on the newest
\* build, whatever an earlier process left in the directory; builds without a
\* version interrupt it while they are downloaded again, but it never goes back
\* to older data.
EventuallyFresh ==
  \A s \in Stores :
    <>[](healthy /\ ~canceled[s] /\ pc[s] # "off")
      => []<>Fresh(s) /\ <>[](cur[s] = None \/ Fresh(s))
=============================================================================
