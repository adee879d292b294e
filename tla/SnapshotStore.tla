---------------------------- MODULE SnapshotStore ----------------------------
(***************************************************************************)
(* What dbcache.Cache promises its callers, with no disk, no locks and no  *)
(* network: a store that serves one publication of the database at a time. *)
(* Publications are numbered in the order the bucket's index took them, so *)
(* a larger number is a newer publication and 0 is "nothing is loaded".    *)
(*                                                                         *)
(*   - A batch of lookups is answered from the publication that was being  *)
(*     served when the batch began; nothing is installed or retired while  *)
(*     a batch is running.                                                 *)
(*   - A publication older than one already served is never installed, not *)
(*     even after a restart.                                               *)
(***************************************************************************)
EXTENDS Naturals

CONSTANTS Queries,        \* callers of Cache.Query
          Publications    \* the numbers a publication may have

VARIABLES serving,        \* the publication being served, or 0
          highWater,      \* the newest publication ever served
          batch           \* batch[q]: what q's running batch is answered from

vars == <<serving, highWater, batch>>

Quiet == \A q \in Queries : batch[q] = 0

Init ==
  /\ serving = 0
  /\ highWater = 0
  /\ batch = [q \in Queries |-> 0]

BeginBatch(q) ==
  /\ serving # 0
  /\ batch[q] = 0
  /\ batch' = [batch EXCEPT ![q] = serving]
  /\ UNCHANGED <<serving, highWater>>

EndBatch(q) ==
  /\ batch[q] # 0
  /\ batch' = [batch EXCEPT ![q] = 0]
  /\ UNCHANGED <<serving, highWater>>

Install(g) ==
  /\ Quiet
  /\ g >= highWater
  /\ serving' = g
  /\ highWater' = g
  /\ UNCHANGED batch

Retire ==
  /\ Quiet
  /\ serving' = 0
  /\ UNCHANGED <<highWater, batch>>

\* The process dies: its batches and its mapping go with it.
Crash ==
  /\ serving' = 0
  /\ batch' = [q \in Queries |-> 0]
  /\ UNCHANGED highWater

Next ==
  \/ \E q \in Queries : BeginBatch(q) \/ EndBatch(q)
  \/ \E g \in Publications : Install(g)
  \/ Retire
  \/ Crash

Spec == Init /\ [][Next]_vars

=============================================================================
