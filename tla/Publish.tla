------------------------------- MODULE Publish -------------------------------
(***************************************************************************)
(* cmd/publish-database: runs that upload a database and then rewrite the  *)
(* bucket's version index, a read-modify-write with no compare-and-swap.   *)
(*                                                                         *)
(* The bucket keeps the database objects (a set of version IDs, since an   *)
(* object's key and bytes follow from its ID) and one mutable object, the  *)
(* index.  Each access to it is a step, so runs interleave with each other *)
(* and with the index's readers, and a run may stop between two of them: a *)
(* call fails, or the workflow cancels the job.                            *)
(*                                                                         *)
(* An operator named Bug_X is X with a plausible mistake in it.  Nothing   *)
(* uses it: putting it in X's place shows that a property can fail.        *)
(***************************************************************************)
EXTENDS VersionIndex, SequencesExt

CONSTANTS
  Publishers,        \* the jobs that can be running publish-database
  Versions,          \* version IDs of the databases they are given
  MaxRuns            \* bound: how many runs are started

VARIABLES
  objects,           \* database objects in the bucket
  index,             \* the decoded index object, None before the first one
  started,           \* runs started so far
  pc,                \* pc[p]: the call run p makes next
  entry,             \* entry[p]: what p will insert
  idx,               \* idx[p]: the index p loaded
  log,               \* history: the entries that were saved, in order
  overlapped         \* history: a run was started while another was going on

bucketVars == <<objects, index, log>>
runVars == <<started, overlapped>>
publishVars == <<bucketVars, runVars, pc, entry, idx>>

Entries == [id : Versions, run : 1 .. MaxRuns]
Stored == Seq(Entries)

ASSUME PublishAssumption ==
  /\ IndexAssumption
  /\ MaxRuns \in Nat
  /\ None \notin Versions \cup Entries \cup Stored

Steps == {"idle", "put", "exists", "get", "save"}

-----------------------------------------------------------------------------
\* The last publication of each version in history.
LastPublications(history) ==
  {i \in DOMAIN history : \A j \in (i + 1) .. Len(history) :
                            history[j].id # history[i].id}

\* The numbers of S, largest first.
Descending(S) ==
  CHOOSE order \in [1 .. Cardinality(S) -> S] :
    \A j, k \in 1 .. Cardinality(S) : j < k => order[j] > order[k]

\* The publications of history, as the index should list them: of each version
\* its last publication, newest first, no more than MaxVersions of them.
Recent(history) ==
  LET last == LastPublications(history)
      size == Cardinality(last)
      n == IF size < MaxVersions THEN size ELSE MaxVersions
      order == Descending(last)
  IN  [k \in 1 .. n |-> history[order[k]]]

\* Exists lists the key: only a listing that succeeds and lacks it is "missing".
Bug_IndexMissing == TRUE
IndexMissing == index = None

\* What LoadIndex returns for an absent index.
EmptyIndex == << >>

\* What a GET of the index returns.  The object is stored with Cache-Control:
\* no-cache, so it is never an earlier generation.
Bug_ReadIndex == Recent(Front(log))
ReadIndex == index

\* What a run does after reading its input: upload, and only then the index.
Bug_FirstCall == "exists"
FirstCall == "put"

\* Evicted objects stay in the bucket.
Bug_ObjectsAfterSave(kept) == objects \cap Ids(kept)
ObjectsAfterSave(kept) == objects

\* No run is going on.  The workflow's concurrency group starts a run only
\* then; a run started by hand may not wait.
Alone == \A p \in Publishers : pc[p] = "idle"

-----------------------------------------------------------------------------
PublishInit ==
  /\ objects = {}
  /\ index = None
  /\ log = << >>
  /\ started = 0
  /\ overlapped = FALSE
  /\ pc = [p \in Publishers |-> "idle"]
  /\ entry = [p \in Publishers |-> None]
  /\ idx = [p \in Publishers |-> << >>]

\* run: the database is read and hashed and its commit looked up; failing here
\* touches nothing.
Start(p, v) ==
  /\ pc[p] = "idle"
  /\ started < MaxRuns
  /\ started' = started + 1
  /\ overlapped' = (overlapped \/ ~Alone)
  /\ entry' = [entry EXCEPT ![p] = [id |-> v, run |-> started + 1]]
  /\ pc' = [pc EXCEPT ![p] = FirstCall]
  /\ UNCHANGED <<bucketVars, idx>>

\* The upload is applied.  Its reply may be lost, and the SDK then repeats it.
PutDatabase(p) ==
  /\ pc[p] = "put"
  /\ objects' = objects \cup {entry[p].id}
  /\ \E next \in {"exists", "put"} : pc' = [pc EXCEPT ![p] = next]
  /\ UNCHANGED <<index, log, runVars, entry, idx>>

\* LoadIndex, its Exists: an absent index is an empty one.
IndexAbsent(p) ==
  /\ pc[p] = "exists"
  /\ IndexMissing
  /\ idx' = [idx EXCEPT ![p] = EmptyIndex]
  /\ pc' = [pc EXCEPT ![p] = "save"]
  /\ UNCHANGED <<bucketVars, runVars, entry>>

IndexPresent(p) ==
  /\ pc[p] = "exists"
  /\ index # None
  /\ pc' = [pc EXCEPT ![p] = "get"]
  /\ UNCHANGED <<bucketVars, runVars, entry, idx>>

\* LoadIndex, its Get.
GetIndex(p) ==
  /\ pc[p] = "get"
  /\ idx' = [idx EXCEPT ![p] = ReadIndex]
  /\ pc' = [pc EXCEPT ![p] = "save"]
  /\ UNCHANGED <<bucketVars, runVars, entry>>

\* InsertVersion and SaveIndex.  A lost reply makes the SDK repeat the PUT.
SaveIndex(p) ==
  LET kept == InsertVersion(idx[p], entry[p]) IN
  /\ pc[p] = "save"
  /\ index' = kept
  /\ objects' = ObjectsAfterSave(kept)
  /\ log' = IF Contains(log, entry[p]) THEN log ELSE Append(log, entry[p])
  /\ \E next \in {"idle", "save"} : pc' = [pc EXCEPT ![p] = next]
  /\ UNCHANGED <<runVars, entry, idx>>

\* A call fails before it takes effect, or the job is cancelled.
Abort(p) ==
  /\ pc[p] # "idle"
  /\ pc' = [pc EXCEPT ![p] = "idle"]
  /\ UNCHANGED <<bucketVars, runVars, entry, idx>>

PublishStep(p) ==
  \/ \E v \in Versions : Start(p, v)
  \/ PutDatabase(p)
  \/ IndexAbsent(p)
  \/ IndexPresent(p)
  \/ GetIndex(p)
  \/ SaveIndex(p)
  \/ Abort(p)

PublishNext == \E p \in Publishers : PublishStep(p)

PublishSpec == PublishInit /\ [][PublishNext]_publishVars

-----------------------------------------------------------------------------
(* The inductive invariant *)

\* Types of the bucket and of the runs.
PublishTypeOK ==
  /\ objects \subseteq Versions
  /\ index = None \/ index \in Stored
  /\ started \in 0 .. MaxRuns
  /\ overlapped \in BOOLEAN
  /\ pc \in [Publishers -> Steps]
  /\ entry \in [Publishers -> Entries \cup {None}]
  /\ idx \in [Publishers -> Stored]
  /\ log \in Stored

\* What holds of every list of versions that has been the index.
Sound(versions) ==
  /\ Len(versions) <= MaxVersions
  /\ \A i, j \in DOMAIN versions : versions[i].id = versions[j].id => i = j
  /\ ToSet(versions) \subseteq ToSet(log)
  /\ Ids(versions) \subseteq objects

IndexInv == IF index = None THEN log = << >>
            ELSE index # << >> /\ Sound(index)

\* What a run relies on, whatever others do meanwhile: what it read was the
\* index once, and what it will insert has been stored.
RunInv ==
  \A p \in Publishers :
    /\ Sound(idx[p])
    /\ pc[p] # "idle" => entry[p] # None /\ entry[p].run <= started
    /\ pc[p] \in {"exists", "get", "save"} => entry[p].id \in objects
    /\ pc[p] = "get" => index # None

\* What a run relies on besides as long as runs have not overlapped: the index
\* it writes back is still the one it read, or the one it has written.
SerialInv ==
  ~overlapped =>
    /\ index = IF log = << >> THEN None ELSE Recent(log)
    /\ \A p, q \in Publishers : pc[p] # "idle" /\ pc[q] # "idle" => p = q
    /\ \A p \in Publishers :
         /\ pc[p] \in {"put", "exists", "get"} => entry[p] \notin ToSet(log)
         /\ pc[p] = "save" =>
              IF entry[p] \in ToSet(log)
              THEN index = InsertVersion(idx[p], entry[p])
              ELSE idx[p] = IF index = None THEN EmptyIndex ELSE index

RunsNumbered == \A i \in DOMAIN log : log[i].run <= started

PublishInv ==
  /\ PublishTypeOK
  /\ IndexInv
  /\ RunInv
  /\ SerialInv
  /\ RunsNumbered

-----------------------------------------------------------------------------
(* What the index promises its readers. *)

Listed == IF index = None THEN {} ELSE Ids(index)

\* A database the index lists is in the bucket, whatever runs overlap, fail or
\* are cancelled: "a failed upload can never leave the index advertising a
\* missing database" (publish-database main.go:92-95).
NeverDangling == Listed \subseteq objects

\* The index names a version once and holds no more than MaxVersions, and
\* every entry is one that a run saved (InsertVersion, index.go:58-82).
IndexWellFormed ==
  index # None =>
    /\ Len(index) \in 1 .. MaxVersions
    /\ Cardinality(Ids(index)) = Len(index)
    /\ ToSet(index) \subseteq ToSet(log)

\* As long as no two runs have overlapped, which is what the workflow's
\* concurrency group is for, the index is exactly the most recent publications:
\* no failure, retry or cancelled run drops, duplicates or reorders an entry
\* (LoadIndex's refusal to take a failed read for an empty index).
IndexIsRecent ==
  ~overlapped => index = IF log = << >> THEN None ELSE Recent(log)
=============================================================================
