---------------------------- MODULE VersionIndex ----------------------------
(***************************************************************************)
(* The version index of internal/dbstore: the decoded contents of          *)
(* versions.pb.gz, a list of entries, newest first.  An entry is           *)
(* [id, run]: the content-addressed version ID, and the publish run that   *)
(* wrote it, which stands for created_at, the commit hash and its message. *)
(***************************************************************************)
EXTENDS Naturals, Sequences, FiniteSets

CONSTANTS
  MaxVersions,       \* how many entries the index retains
  None               \* an absent object, entry, cached index or lock holder

IndexAssumption == MaxVersions \in Nat \ {0}

Ids(versions) == {versions[i].id : i \in DOMAIN versions}

\* The entries of versions that a publication of id keeps, in their order.
Others(versions, id) ==
  LET kept[n \in 0 .. Len(versions)] ==
        IF n = 0 THEN << >>
        ELSE IF versions[n].id = id THEN kept[n - 1]
        ELSE Append(kept[n - 1], versions[n])
  IN  kept[Len(versions)]

Bug_Trim(kept) ==
  IF Len(kept) > MaxVersions + 1 THEN SubSeq(kept, 1, MaxVersions) ELSE kept
Trim(kept) ==
  IF Len(kept) > MaxVersions THEN SubSeq(kept, 1, MaxVersions) ELSE kept

InsertVersion(versions, v) == Trim(<<v>> \o Others(versions, v.id))

\* The index entry for id, or None.
FindVersion(versions, id) ==
  IF id \in Ids(versions)
  THEN versions[CHOOSE i \in DOMAIN versions :
                  /\ versions[i].id = id
                  /\ \A j \in 1 .. (i - 1) : versions[j].id # id]
  ELSE None
=============================================================================
