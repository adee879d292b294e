------------------------------- MODULE DbCache -------------------------------
(***************************************************************************)
(* dbcache.Cache (cmd/reputationdbd/internal/dbcache): one copy of the     *)
(* newest published database on local disk, memory-mapped for lookups, and *)
(* the goroutine that swaps a newer build in.                              *)
(*                                                                         *)
(* Actors: the run loop and any other callers of the exported Refresh      *)
(* ("refreshers"), callers of Query, one caller of Close, the publisher    *)
(* that appends to the bucket's index, and the machine, which may lose     *)
(* power.  A refresher's pc names the next thing it does; everything       *)
(* between two system calls or lock operations is one step.                *)
(*                                                                         *)
(* An operator named Bug_X is X with a plausible mistake in it.  Nothing   *)
(* uses it: putting it in X's place shows that a property can fail.        *)
(*                                                                         *)
(* A build is identified by its version, which is also its object key and, *)
(* hashed, its file name, so a version stands for all three.  A            *)
(* publication is a position in log, the order in which the index's newest *)
(* entry changed.                                                          *)
(***************************************************************************)
EXTENDS Naturals, Sequences, FiniteSets

CONSTANTS
  Versions,          \* content-addressed version IDs
  None,              \* no version, no lock holder
  Loop,              \* the goroutine Cache.run
  Callers,           \* other goroutines that call Refresh
  Queries,           \* goroutines that call Query
  MaxPublishes,      \* bound: how often the index's newest entry may change
  Unmappable,        \* versions whose bytes are not a database Open accepts
  TooLarge,          \* versions over maxDatabaseSize when decompressed
  Unstamped,         \* publications whose index entry carries no created_at
  RemovalMayFail     \* whether os.Remove of a database file may be refused

Refreshers == Callers \cup {Loop}
Publications == 1 .. MaxPublishes

ASSUME ConstantsAssumption ==
  /\ None \notin Versions
  /\ None \notin Refreshers
  /\ Loop \notin Callers
  /\ MaxPublishes \in Nat
  /\ Unmappable \subseteq Versions
  /\ TooLarge \subseteq Versions
  /\ Unstamped \subseteq Publications
  /\ RemovalMayFail \in BOOLEAN

VARIABLES
  (* the world *)
  log,               \* versions, in the order the index published them
  healthy,           \* FALSE: any call outside the process may fail
  disk,              \* disk[v]: the file at databasePath(v)
  highWater,         \* history: the newest publication ever served
  (* the fields of Cache *)
  db, path, version, \* the mapping, its file and its version, or None
  createdAt,         \* when the mapped build was published, and who said so
  refreshMu,         \* who holds refreshMu
  readers,           \* the queries that hold mu for reading
  canceled,          \* c.ctx is done
  ready,             \* the ready channel is closed
  (* the goroutines *)
  mapped,            \* the versions this process has a mapping of
  pc,                \* pc[r]: what refresher r does next
  build,             \* build[r]: the publication Current returned to r
  old,               \* old[r]: the mapping r's load retired
  since,             \* history: how many publications there were at r's call
  answers,           \* answers[q]: the versions q's batch has read from
  closer             \* where the caller of Close is

worldVars == <<log, healthy>>
fileVars == <<disk>>
fieldVars == <<db, path, version, createdAt, mapped, highWater>>
localVars == <<build, old, since>>
queryVars == <<readers, answers>>
lifeVars == <<canceled, closer, ready>>
vars == <<worldVars, fileVars, fieldVars, refreshMu, pc, localVars, queryVars,
          lifeVars>>

-----------------------------------------------------------------------------
Newest == Len(log)

\* The publication whose records queries are answered from, 0 when none is.
Serving == IF db = None THEN 0 ELSE createdAt.gen

\* mu.Lock has been called and waits for the readers; it blocks new RLocks.
WriterWaiting == closer = "lock" \/ \E r \in Refreshers : pc[r] = "swap"

\* reputationdb.Open succeeds on the file at databasePath(v).  A torn file is one
\* cut short: without the metadata at its end maxminddb.Open refuses it.  (It
\* would open one that is damaged in the middle only, which is left out.)
Opens(v) == disk[v] = "complete" /\ v \notin Unmappable

\* The version of the build r is working on.
Target(r) == log[build[r]]

\* A call r makes outside the process, with r's context, may fail.
CallMayFail(r) == ~healthy \/ (r = Loop /\ canceled)

\* createdAt: the index's time, or the build epoch baked into the mmdb.
CreatedAt(g) == [from |-> IF g \in Unstamped THEN "mmdb" ELSE "index",
                 gen |-> g]

\* mu.Lock returns only once no query holds the read lock.
Bug_WriteLockFree == TRUE
WriteLockFree == readers = {}

\* refreshMu serializes Refresh.
Bug_RefreshMuFree == TRUE
RefreshMuFree == refreshMu = None

\* The entry the index read returns: the first, which is the newest.
Bug_NewestEntry == IF Newest > 1 THEN Newest - 1 ELSE Newest
NewestEntry == Newest

\* The newest build is the one that is mapped.
Bug_AlreadyCurrent(r) == FALSE
AlreadyCurrent(r) == Target(r) = version

\* What is left mapped when release has closed the retired database.
Bug_StillMapped(r) == mapped
Bug_ReleasePolarity(r) == mapped \cup {old[r]}
StillMapped(r) == mapped \ {old[r]}

\* What sweep removes: every database file other than the one just loaded.
Bug_Stale(r) == {}
Stale(r) == Versions \ {Target(r)}

\* run has returned and closed done.
Bug_LoopDone == TRUE
LoopDone == pc[Loop] = "stopped"

\* r is inside Refresh and owns refreshMu.
InRefresh(r) == pc[r] \notin {"idle", "lock", "stopped"}

GoTo(r, label) == pc' = [pc EXCEPT ![r] = label]

-----------------------------------------------------------------------------
(* New: an empty directory, nothing mapped, run about to call Refresh.      *)

Init ==
  /\ log = <<>>
  /\ healthy = TRUE
  /\ disk = [v \in Versions |-> "absent"]
  /\ highWater = 0
  /\ db = None /\ path = None /\ version = None
  /\ createdAt = [from |-> "none", gen |-> 0]
  /\ refreshMu = None
  /\ readers = {}
  /\ canceled = FALSE
  /\ ready = FALSE
  /\ mapped = {}
  /\ pc = [r \in Refreshers |-> IF r = Loop THEN "lock" ELSE "idle"]
  /\ build = [r \in Refreshers |-> 0]
  /\ old = [r \in Refreshers |-> None]
  /\ since = [r \in Refreshers |-> 0]
  /\ answers = [q \in Queries |-> {}]
  /\ closer = "idle"

-----------------------------------------------------------------------------
(* The world *)

\* publish-database puts v at the head of the index; v may be a republication.
Publish(v) ==
  /\ Len(log) < MaxPublishes
  /\ log' = Append(log, v)
  /\ UNCHANGED <<healthy, fileVars, fieldVars, refreshMu, pc, localVars,
                 queryVars, lifeVars>>

SetHealth ==
  /\ healthy' = ~healthy
  /\ UNCHANGED <<log, fileVars, fieldVars, refreshMu, pc, localVars, queryVars,
                 lifeVars>>

\* The machine goes down and reputationdbd starts again on the same directory.
\* Nothing is fsynced, so any database file may come back torn.  A staging file
\* comes back too; nothing ever looks at it again, so it is left out.
Crash(torn) ==
  /\ ~healthy
  /\ torn \subseteq {v \in Versions : disk[v] = "complete"}
  /\ disk' = [v \in Versions |-> IF v \in torn THEN "torn" ELSE disk[v]]
  /\ db' = None /\ path' = None /\ version' = None
  /\ createdAt' = [from |-> "none", gen |-> 0]
  /\ refreshMu' = None
  /\ readers' = {}
  /\ canceled' = FALSE
  /\ ready' = FALSE
  /\ mapped' = {}
  /\ pc' = [r \in Refreshers |-> IF r = Loop THEN "lock" ELSE "idle"]
  /\ build' = [r \in Refreshers |-> 0]
  /\ old' = [r \in Refreshers |-> None]
  /\ since' = [r \in Refreshers |-> 0]
  /\ answers' = [q \in Queries |-> {}]
  /\ closer' = "idle"
  /\ UNCHANGED <<worldVars, highWater>>

-----------------------------------------------------------------------------
(* run and the callers of Refresh *)

Bug_LoopTick ==
  /\ pc[Loop] = "idle"
  /\ GoTo(Loop, "lock")
  /\ since' = [since EXCEPT ![Loop] = Newest]
  /\ UNCHANGED <<worldVars, fileVars, fieldVars, refreshMu, build, old,
                 queryVars, lifeVars>>

\* The run loop's timer fires, after refreshInterval or retryInterval.
LoopTick ==
  /\ pc[Loop] = "idle"
  /\ ~canceled
  /\ GoTo(Loop, "lock")
  /\ since' = [since EXCEPT ![Loop] = Newest]
  /\ UNCHANGED <<worldVars, fileVars, fieldVars, refreshMu, build, old,
                 queryVars, lifeVars>>

LoopExit ==
  /\ pc[Loop] = "idle"
  /\ canceled
  /\ GoTo(Loop, "stopped")
  /\ UNCHANGED <<worldVars, fileVars, fieldVars, refreshMu, localVars,
                 queryVars, lifeVars>>

Call(r) ==
  /\ r \in Callers
  /\ pc[r] = "idle"
  /\ GoTo(r, "lock")
  /\ since' = [since EXCEPT ![r] = Newest]
  /\ UNCHANGED <<worldVars, fileVars, fieldVars, refreshMu, build, old,
                 queryVars, lifeVars>>

-----------------------------------------------------------------------------
(* Refresh, one refresher at a time *)

Acquire(r) ==
  /\ pc[r] = "lock"
  /\ RefreshMuFree
  /\ refreshMu' = r
  /\ GoTo(r, "current")
  /\ UNCHANGED <<worldVars, fileVars, fieldVars, localVars, queryVars, lifeVars>>

\* Refresh returns and its deferred Unlock runs.
Return(r) ==
  /\ pc[r] \in {"ok", "failed"}
  /\ refreshMu' = None
  /\ GoTo(r, "idle")
  /\ build' = [build EXCEPT ![r] = 0]
  /\ old' = [old EXCEPT ![r] = None]
  /\ since' = [since EXCEPT ![r] = 0]
  /\ UNCHANGED <<worldVars, fileVars, fieldVars, queryVars, lifeVars>>

\* src.Current: the head of the index.
Current(r) ==
  /\ pc[r] = "current"
  /\ Newest > 0
  /\ build' = [build EXCEPT ![r] = NewestEntry]
  /\ GoTo(r, "check")
  /\ UNCHANGED <<worldVars, fileVars, fieldVars, refreshMu, old, since,
                 queryVars, lifeVars>>

Bug_CurrentFails(r) ==
  /\ pc[r] = "current"
  /\ CallMayFail(r) \/ Newest = 0
  /\ GoTo(r, "failed")
  /\ db' = None /\ path' = None /\ version' = None
  /\ UNCHANGED <<worldVars, fileVars, createdAt, mapped, highWater, refreshMu,
                 localVars, queryVars, lifeVars>>

\* The index can't be read, or nothing has been published yet.
CurrentFails(r) ==
  /\ pc[r] = "current"
  /\ CallMayFail(r) \/ Newest = 0
  /\ GoTo(r, "failed")
  /\ UNCHANGED <<worldVars, fileVars, fieldVars, refreshMu, localVars,
                 queryVars, lifeVars>>

\* Read c.version under RLock: the build is already mapped, or it is not.
Check(r) ==
  /\ pc[r] = "check"
  /\ ~WriterWaiting
  /\ GoTo(r, IF AlreadyCurrent(r) THEN "ok" ELSE "stat")
  /\ UNCHANGED <<worldVars, fileVars, fieldVars, refreshMu, localVars,
                 queryVars, lifeVars>>

\* Stat finds a file from a previous run and it opens: load it.
LoadCached(r) ==
  /\ pc[r] = "stat"
  /\ Opens(Target(r))
  /\ mapped' = mapped \cup {Target(r)}
  /\ GoTo(r, "swap")
  /\ UNCHANGED <<worldVars, fileVars, db, path, version, createdAt, highWater,
                 refreshMu, localVars, queryVars, lifeVars>>

Bug_NoCached(r) ==
  /\ pc[r] = "stat"
  /\ disk[Target(r)] = "absent"
  /\ GoTo(r, "open")
  /\ UNCHANGED <<worldVars, fileVars, fieldVars, refreshMu, localVars,
                 queryVars, lifeVars>>

\* There is no file, Stat fails, or the file won't open: download.
NoCached(r) ==
  /\ pc[r] = "stat"
  /\ ~Opens(Target(r)) \/ ~healthy
  /\ GoTo(r, "open")
  /\ UNCHANGED <<worldVars, fileVars, fieldVars, refreshMu, localVars,
                 queryVars, lifeVars>>

-----------------------------------------------------------------------------
(* download *)

\* src.Open the object and create the staging file.
OpenObject(r) ==
  /\ pc[r] = "open"
  /\ GoTo(r, "copy")
  /\ UNCHANGED <<worldVars, fileVars, fieldVars, refreshMu, localVars,
                 queryVars, lifeVars>>

\* Decompress into the staging file, up to the size cap, and close it.
Copy(r) ==
  /\ pc[r] = "copy"
  /\ Target(r) \notin TooLarge
  /\ GoTo(r, "rename")
  /\ UNCHANGED <<worldVars, fileVars, fieldVars, refreshMu, localVars,
                 queryVars, lifeVars>>

Rename(r) ==
  /\ pc[r] = "rename"
  /\ disk' = [disk EXCEPT ![Target(r)] = "complete"]
  /\ GoTo(r, "load")
  /\ UNCHANGED <<worldVars, fieldVars, refreshMu, localVars, queryVars,
                 lifeVars>>

\* Any step of download fails; the deferred Remove deletes the staging file.
DownloadFails(r) ==
  /\ \/ pc[r] \in {"open", "copy"} /\ CallMayFail(r)
     \/ pc[r] = "rename" /\ ~healthy
     \/ pc[r] = "copy" /\ Target(r) \in TooLarge
  /\ GoTo(r, "failed")
  /\ UNCHANGED <<worldVars, fileVars, fieldVars, refreshMu, localVars,
                 queryVars, lifeVars>>

-----------------------------------------------------------------------------
(* load *)

\* Open what was just downloaded.
OpenFresh(r) ==
  /\ pc[r] = "load"
  /\ Opens(Target(r))
  /\ mapped' = mapped \cup {Target(r)}
  /\ GoTo(r, "swap")
  /\ UNCHANGED <<worldVars, fileVars, db, path, version, createdAt, highWater,
                 refreshMu, localVars, queryVars, lifeVars>>

OpenFreshFails(r) ==
  /\ pc[r] = "load"
  /\ ~Opens(Target(r)) \/ ~healthy
  /\ GoTo(r, "discard")
  /\ UNCHANGED <<worldVars, fileVars, fieldVars, refreshMu, localVars,
                 queryVars, lifeVars>>

\* The bytes are unusable: remove them.
Discard(r) ==
  /\ pc[r] = "discard"
  /\ \/ disk' = [disk EXCEPT ![Target(r)] = "absent"]
     \/ RemovalMayFail /\ UNCHANGED disk
  /\ GoTo(r, "failed")
  /\ UNCHANGED <<worldVars, fieldVars, refreshMu, localVars, queryVars,
                 lifeVars>>

\* mu.Lock waits for the readers, the four fields change, mu.Unlock.
Swap(r) ==
  /\ pc[r] = "swap"
  /\ WriteLockFree
  /\ old' = [old EXCEPT ![r] = db]
  /\ db' = Target(r)
  /\ path' = Target(r)
  /\ version' = Target(r)
  /\ createdAt' = CreatedAt(build[r])
  /\ highWater' = IF build[r] > highWater THEN build[r] ELSE highWater
  /\ GoTo(r, "release")
  /\ UNCHANGED <<worldVars, fileVars, mapped, refreshMu, build, since,
                 queryVars, lifeVars>>

\* Unmap the retired database and delete its file, unless it is the new one's.
Release(r) ==
  /\ pc[r] = "release"
  /\ mapped' = StillMapped(r)
  /\ \/ /\ old[r] \notin {None, Target(r)}
        /\ disk' = [disk EXCEPT ![old[r]] = "absent"]
     \/ /\ old[r] \in {None, Target(r)} \/ RemovalMayFail
        /\ UNCHANGED disk
  /\ GoTo(r, "sweep")
  /\ UNCHANGED <<worldVars, db, path, version, createdAt, highWater,
                 refreshMu, localVars, queryVars, lifeVars>>

\* Delete every other database file; staging files don't match the glob.
\* Then close the ready channel, once.
Sweep(r) ==
  /\ pc[r] = "sweep"
  /\ \E refused \in SUBSET Versions :
       /\ refused # {} => RemovalMayFail
       /\ disk' = [v \in Versions |->
                     IF v \in Stale(r) \ refused THEN "absent" ELSE disk[v]]
  /\ ready' = TRUE
  /\ GoTo(r, "ok")
  /\ UNCHANGED <<worldVars, fieldVars, refreshMu, localVars, queryVars,
                 canceled, closer>>

-----------------------------------------------------------------------------
(* Query: RLock for the whole batch *)

QueryBegin(q) ==
  /\ q \notin readers
  /\ ~WriterWaiting
  /\ db # None
  /\ readers' = readers \cup {q}
  /\ UNCHANGED <<worldVars, fileVars, fieldVars, refreshMu, pc, localVars,
                 answers, lifeVars>>

\* One c.db.Lookup of the batch.
Lookup(q) ==
  /\ q \in readers
  /\ answers' = [answers EXCEPT ![q] = @ \cup {db}]
  /\ UNCHANGED <<worldVars, fileVars, fieldVars, refreshMu, pc, localVars,
                 readers, lifeVars>>

\* The batch is done, or a lookup failed; the deferred RUnlock runs.
QueryEnd(q) ==
  /\ q \in readers
  /\ readers' = readers \ {q}
  /\ answers' = [answers EXCEPT ![q] = {}]
  /\ UNCHANGED <<worldVars, fileVars, fieldVars, refreshMu, pc, localVars,
                 lifeVars>>

-----------------------------------------------------------------------------
(* Close, and the cancellation of the context New was given *)

CancelParent ==
  /\ ~canceled
  /\ canceled' = TRUE
  /\ UNCHANGED <<worldVars, fileVars, fieldVars, refreshMu, pc, localVars,
                 queryVars, closer, ready>>

CloseCancel ==
  /\ closer = "idle"
  /\ canceled' = TRUE
  /\ closer' = "wait"
  /\ UNCHANGED <<worldVars, fileVars, fieldVars, refreshMu, pc, localVars,
                 queryVars, ready>>

CloseWaited ==
  /\ closer = "wait"
  /\ LoopDone
  /\ closer' = "lock"
  /\ UNCHANGED <<worldVars, fileVars, fieldVars, refreshMu, pc, localVars,
                 queryVars, canceled, ready>>

\* Under mu: forget the database and unmap it.  The file stays on disk.
CloseRelease ==
  /\ closer = "lock"
  /\ WriteLockFree
  /\ mapped' = mapped \ {db}
  /\ db' = None /\ path' = None /\ version' = None
  /\ closer' = "closed"
  /\ UNCHANGED <<worldVars, fileVars, createdAt, highWater, refreshMu, pc,
                 localVars, queryVars, canceled, ready>>

-----------------------------------------------------------------------------
Step(r) ==
  \/ Current(r) \/ CurrentFails(r) \/ Check(r) \/ LoadCached(r) \/ NoCached(r)
  \/ OpenObject(r) \/ Copy(r) \/ Rename(r) \/ DownloadFails(r)
  \/ OpenFresh(r) \/ OpenFreshFails(r) \/ Discard(r) \/ Swap(r) \/ Release(r)
  \/ Sweep(r) \/ Return(r)

Query(q) == QueryBegin(q) \/ Lookup(q) \/ QueryEnd(q)

Close == CloseCancel \/ CloseWaited \/ CloseRelease

Next ==
  \/ \E v \in Versions : Publish(v)
  \/ SetHealth
  \/ \E torn \in SUBSET Versions : Crash(torn)
  \/ LoopTick
  \/ LoopExit
  \/ \E r \in Refreshers : Call(r) \/ Acquire(r) \/ Step(r)
  \/ \E q \in Queries : Query(q)
  \/ CancelParent
  \/ Close

Spec == Init /\ [][Next]_vars

(***************************************************************************)
(* Fairness.  Goroutines that can run do run; the run loop's timer fires;  *)
(* sync.Mutex hands itself over to a waiter that has starved for a         *)
(* millisecond, which is strong fairness of Acquire; a batch of lookups is *)
(* finite.  Nobody is obliged to publish, to query, to call Refresh or     *)
(* Close, or to break or repair anything.                                  *)
(***************************************************************************)
Fairness ==
  /\ WF_vars(LoopTick)
  /\ WF_vars(LoopExit)
  /\ \A r \in Refreshers : WF_vars(Step(r)) /\ SF_vars(Acquire(r))
  /\ \A q \in Queries : WF_vars(QueryEnd(q))
  /\ WF_vars(CloseWaited)
  /\ WF_vars(CloseRelease)

FairSpec == Spec /\ Fairness

-----------------------------------------------------------------------------
(* Properties *)

Labels == {"idle", "lock", "current", "check", "stat", "open", "copy",
           "rename", "load", "discard", "swap", "release", "sweep", "ok",
           "failed", "stopped"}

MaybeVersion == Versions \cup {None}

\* Every variable has its type.
TypeOK ==
  /\ log \in Seq(Versions) /\ Len(log) <= MaxPublishes
  /\ healthy \in BOOLEAN
  /\ disk \in [Versions -> {"absent", "complete", "torn"}]
  /\ highWater \in Nat
  /\ db \in MaybeVersion /\ path \in MaybeVersion /\ version \in MaybeVersion
  /\ createdAt \in [from : {"none", "index", "mmdb"}, gen : Nat]
  /\ refreshMu \in Refreshers \cup {None}
  /\ readers \subseteq Queries
  /\ canceled \in BOOLEAN
  /\ ready \in BOOLEAN
  /\ mapped \subseteq Versions
  /\ pc \in [Refreshers -> Labels]
  /\ build \in [Refreshers -> Nat]
  /\ old \in [Refreshers -> MaybeVersion]
  /\ since \in [Refreshers -> Nat]
  /\ answers \in [Queries -> SUBSET MaybeVersion]
  /\ closer \in {"idle", "wait", "lock", "closed"}

\* While a query holds the read lock the database it reads is mapped: a
\* refresh closes the old mapping, and Close the last one, only once no query
\* can reach it.
NoUseAfterUnmap == readers # {} => db \in mapped

\* Every record of one batch comes from the same build, the one the creation
\* time returned with them belongs to.
OneSnapshot == \A q \in readers : answers[q] \subseteq {db}

\* The mapping, its file, its version and its creation time always describe
\* the same publication, so no response is stamped with another build's time.
FieldsAgree ==
  /\ path = db
  /\ version = db
  /\ db # None => /\ createdAt.gen \in 1 .. Newest
                  /\ log[createdAt.gen] = db
                  /\ createdAt = CreatedAt(createdAt.gen)

\* No mapping is leaked: besides the served database, only a database about to
\* be swapped in or one just swapped out is mapped.
NoMappingLeak ==
  mapped \subseteq {db} \cup {Target(r) : r \in {x \in Refreshers : pc[x] = "swap"}}
                       \cup {old[r] : r \in {x \in Refreshers : pc[x] = "release"}}

\* "The destination is never the file currently mapped": a download is never
\* moved over a file this process has mapped.
RenameTargetUnmapped ==
  \A r \in Refreshers : pc[r] \in {"copy", "rename"} => Target(r) \notin mapped

\* The file behind the served database stays on disk: no release, sweep or
\* discard of any refresher removes it, so a restart can skip the download.
ServedFileKept == db # None => disk[db] = "complete"

NoRefresh == \A r \in Refreshers : ~InRefresh(r)

\* Between refreshes of a process that has loaded a database, the directory
\* holds that database's file and no other (unless a removal was refused).
OnlyServedFile ==
  ~RemovalMayFail /\ NoRefresh /\ db # None
    => \A v \in Versions : disk[v] # "absent" => v = db

\* Once Ready is closed a database is loaded, through any number of failed or
\* successful refreshes, until Close.
ReadyMeansLoaded == ready /\ closer # "closed" => db # None

\* A Refresh that returned nil left a build that was the newest at some moment
\* since the call: a caller that publishes and then calls Refresh is not told
\* "current" about an older build.
FreshAtReturn ==
  \A r \in Refreshers :
    pc[r] = "ok" /\ closer # "closed" =>
      \E g \in since[r] .. Newest : g > 0 /\ log[g] = version

\* Once Close has returned and no Refresh is running, nothing is mapped.
ClosedReleases == closer = "closed" /\ NoRefresh => mapped = {}

\* Served publications only move forward and batches are answered from one of
\* them: the cache implements SnapshotStore.
StoreBatch == [q \in Queries |-> IF q \in readers THEN Serving ELSE 0]

Store == INSTANCE SnapshotStore WITH serving <- Serving, batch <- StoreBatch

ImplementsSnapshotStore == Store!Spec

Loadable == Versions \ (Unmappable \cup TooLarge)

\* If the world stays healthy and nobody cancels, then from some time on the
\* newest build is the one served, whatever failed, was torn or was left half
\* done before: provided this program can load it.
EventuallyFresh ==
  <>[](healthy /\ ~canceled)
    => <>[](Newest > 0 /\ log[Newest] \in Loadable => version = log[Newest])

\* Close returns (or the process dies), even when a Refresh is in progress.
CloseReturns == closer = "wait" ~> closer \in {"closed", "idle"}

-----------------------------------------------------------------------------
(***************************************************************************)
(* The inductive invariant behind the safety properties.  It says what the *)
(* one refresher that holds refreshMu knows at each label, and what that   *)
(* leaves true of the fields, the mappings and the directory.              *)
(***************************************************************************)

\* r has read c.version and found that its build is another one.
Replacing(r) == pc[r] \in {"stat", "open", "copy", "rename", "load", "discard",
                           "swap"}

\* refreshMu is held by exactly the refresher that is inside Refresh.
MutexInv == \A r \in Refreshers : InRefresh(r) <=> refreshMu = r

\* What the holder of refreshMu knows.  Close is the only other writer, and it
\* only ever forgets the database.
HolderInv(r) ==
  /\ InRefresh(r) /\ pc[r] \notin {"current", "failed"}
       => build[r] \in 1 .. Newest /\ build[r] >= since[r]
  /\ Replacing(r) \/ pc[r] = "check" => build[r] >= highWater
  /\ Replacing(r) => Target(r) # version
  /\ pc[r] = "swap" => disk[Target(r)] = "complete" /\ Target(r) \in mapped
  /\ pc[r] \in {"release", "sweep"}
       => db = Target(r) \/ (db = None /\ closer = "closed")
  /\ pc[r] = "release" => old[r] # Target(r)
  /\ pc[r] = "ok" => version = Target(r) \/ closer = "closed"

\* Publications are numbered by log, and what is served is one of them.
HistoryInv ==
  /\ \A r \in Refreshers : since[r] <= Newest
  /\ highWater <= Newest
  /\ db # None => createdAt.gen <= highWater

\* What is mapped, and why.
MappingInv ==
  /\ db # None => db \in mapped
  /\ \A v \in mapped : \/ v = db
                       \/ \E r \in Refreshers : pc[r] = "swap" /\ v = Target(r)
                       \/ \E r \in Refreshers : pc[r] = "release" /\ v = old[r]

\* Readers read the served database only, and nobody else has answers.
ReaderInv ==
  /\ readers # {} => db # None
  /\ \A q \in Queries : answers[q] # {} => q \in readers /\ answers[q] = {db}

\* Without refused removals, the files in the directory are the served one and
\* the one being brought in; after the swap the sweep still has to come.
DirectoryInv ==
  ~RemovalMayFail /\ db # None =>
    \/ \E r \in Refreshers : pc[r] \in {"release", "sweep"}
    \/ \A v \in Versions : disk[v] # "absent" =>
         \/ v = db
         \/ \E r \in Refreshers : /\ pc[r] \in {"load", "discard", "swap"}
                                 /\ v = Target(r)

\* Together they are inductive.
IInv ==
  /\ TypeOK
  /\ MutexInv
  /\ \A r \in Refreshers : HolderInv(r)
  /\ FieldsAgree
  /\ HistoryInv
  /\ MappingInv
  /\ ReaderInv
  /\ ServedFileKept
  /\ ReadyMeansLoaded
  /\ DirectoryInv

=============================================================================
