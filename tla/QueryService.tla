---------------------------- MODULE QueryService ----------------------------
(***************************************************************************)
(* ReputationService.Query (reputationdbd svc/reputationdb/v1): a batch of *)
(* addresses, as the client spells them, answered in one pass over the     *)
(* cache.                                                                  *)
(*                                                                         *)
(* Of the cache only what SnapshotStore promises is used; DbCache_proofs   *)
(* shows that the cache keeps that promise.  Nothing here retires a        *)
(* database: the daemon never closes the cache while it runs.              *)
(*                                                                         *)
(* An address is written [host, form]: plain, as a v4-in-v6 address of the *)
(* same host ("mapped"), or as something that is no address ("junk").      *)
(***************************************************************************)
EXTENDS Naturals, Sequences, FiniteSets, SequencesExt

CONSTANTS
  Queries,           \* goroutines that serve a Query
  MaxPublications,   \* bound: publications of the database
  Contents,          \* Contents[g][a]: the record publication g has for a
  Hosts,             \* hosts that clients ask about
  Batches,           \* the address lists that clients send
  MaxBatch           \* maxBatchSize

Spellings == [host : Hosts, form : {"plain", "mapped", "junk"}]

ASSUME QueryAssumption ==
  /\ MaxPublications \in Nat /\ MaxBatch \in Nat \ {0}
  /\ Batches \subseteq Seq(Spellings)

VARIABLES
  serving, highWater, batch,   \* the cache, as a SnapshotStore
  ask,                         \* ask[q]: the addresses q asks about
  stage,                       \* what q's handler does next
  reply                        \* reply[q]: code and database of q's answer

cacheVars == <<serving, highWater, batch>>
queryVars == <<cacheVars, ask, stage, reply>>

Cache == INSTANCE SnapshotStore WITH Publications <- 1 .. MaxPublications

NoReply == [code |-> "none", createdAt |-> 0]

-----------------------------------------------------------------------------
IsAddress(s) == s.form # "junk"
Unmap(s) == [s EXCEPT !.form = "plain"]

\* One address of the request: the first spelling of it counts.
Bug_Parse(acc, s) ==
  [addrs |-> IF Unmap(s) \in DOMAIN acc.inputs THEN acc.addrs
             ELSE Append(acc.addrs, Unmap(s)),
   inputs |-> [a \in DOMAIN acc.inputs \cup {Unmap(s)} |->
                 IF a = Unmap(s) THEN s ELSE acc.inputs[a]]]
Parse(acc, s) ==
  IF Unmap(s) \in DOMAIN acc.inputs THEN acc
  ELSE [addrs |-> Append(acc.addrs, Unmap(s)),
        inputs |-> [a \in DOMAIN acc.inputs \cup {Unmap(s)} |->
                      IF a = Unmap(s) THEN s ELSE acc.inputs[a]]]

ParseAddrs(raw) ==
  LET parsed[n \in 0 .. Len(raw)] ==
        IF n = 0 THEN [addrs |-> << >>, inputs |-> << >>]
        ELSE Parse(parsed[n - 1], raw[n])
  IN parsed[Len(raw)]

\* The addresses that have a record in publication g, with the record.
Matches(g, addrs) ==
  LET listed == {a \in Range(addrs) : Contents[g][a.host] # {}}
  IN [a \in listed |-> Contents[g][a.host]]

\* The records of an answer: one per address, in the order asked, under the
\* client's spelling.
Records(g, raw) ==
  LET parsed == ParseAddrs(raw)
      hits == Matches(g, parsed.addrs)
  IN [i \in DOMAIN parsed.addrs |->
        LET a == parsed.addrs[i] IN
        [ipAddress |-> parsed.inputs[a],
         categories |-> IF a \in DOMAIN hits THEN hits[a] ELSE {}]]

-----------------------------------------------------------------------------
QueryInit ==
  /\ Cache!Init
  /\ ask = [q \in Queries |-> << >>]
  /\ stage = [q \in Queries |-> "idle"]
  /\ reply = [q \in Queries |-> NoReply]

Respond(q, answer) ==
  /\ stage' = [stage EXCEPT ![q] = "replied"]
  /\ reply' = [reply EXCEPT ![q] = answer]

\* An error; what was asked no longer matters.
Refuse(q, code) ==
  /\ Respond(q, [NoReply EXCEPT !.code = code])
  /\ ask' = [ask EXCEPT ![q] = << >>]

\* The handler is entered; a list it can tell to be wrong is refused.
AskQuery(q, raw) ==
  /\ stage[q] = "idle"
  /\ IF Len(raw) \in 1 .. MaxBatch /\ \A i \in DOMAIN raw : IsAddress(raw[i])
       THEN /\ ask' = [ask EXCEPT ![q] = raw]
            /\ stage' = [stage EXCEPT ![q] = "cache"]
            /\ UNCHANGED reply
       ELSE Refuse(q, "InvalidArgument")
  /\ UNCHANGED cacheVars

\* "None of these are listed" is not said out of a database that isn't there.
NotLoaded(q) ==
  /\ stage[q] = "cache"
  /\ serving = 0
  /\ Refuse(q, "Unavailable")
  /\ UNCHANGED cacheVars

\* The cache takes its read lock for the batch.
Begin(q) ==
  /\ stage[q] = "cache"
  /\ Cache!BeginBatch(q)
  /\ stage' = [stage EXCEPT ![q] = "batch"]
  /\ UNCHANGED <<ask, reply>>

Finish(q) ==
  /\ stage[q] = "batch"
  /\ Cache!EndBatch(q)
  /\ Respond(q, [code |-> "ok", createdAt |-> batch[q]])
  /\ UNCHANGED ask

\* A lookup fails.
LookupFails(q) ==
  /\ stage[q] = "batch"
  /\ Refuse(q, "Internal")
  /\ Cache!EndBatch(q)

\* The reply is written.
Answer(q) ==
  /\ stage[q] = "replied"
  /\ ask' = [ask EXCEPT ![q] = << >>]
  /\ stage' = [stage EXCEPT ![q] = "idle"]
  /\ reply' = [reply EXCEPT ![q] = NoReply]
  /\ UNCHANGED cacheVars

\* The cache's goroutine swaps in a publication.
Install ==
  /\ \E g \in 1 .. MaxPublications : Cache!Install(g)
  /\ UNCHANGED <<ask, stage, reply>>

QueryStep(q) == NotLoaded(q) \/ Begin(q) \/ Finish(q) \/ LookupFails(q) \/ Answer(q)

\* The process is gone, and with it the mapping and every handler.
QueryLost ==
  /\ Cache!Crash
  /\ ask' = [q \in Queries |-> << >>]
  /\ stage' = [q \in Queries |-> "idle"]
  /\ reply' = [q \in Queries |-> NoReply]

-----------------------------------------------------------------------------
(* The inductive invariant *)

\* Types of the cache, and of what the handlers know.
QueryTypeOK ==
  /\ serving \in 0 .. MaxPublications /\ highWater \in 0 .. MaxPublications
  /\ batch \in [Queries -> 0 .. MaxPublications]
  /\ ask \in [Queries -> Batches \cup {<< >>}]
  /\ stage \in [Queries -> {"idle", "cache", "batch", "replied"}]
  /\ reply \in [Queries -> [code : {"none", "ok", "InvalidArgument", "Unavailable", "Internal"},
                            createdAt : 0 .. MaxPublications]]

\* An answer is stamped with a publication, and nothing is out unanswered.
QueryInv ==
  /\ QueryTypeOK
  /\ \A q \in Queries : /\ reply[q].code = "ok" => reply[q].createdAt # 0
                        /\ stage[q] # "replied" => reply[q] = NoReply

-----------------------------------------------------------------------------
(* Properties *)

SameAddress(s, t) == Unmap(s) = Unmap(t)

\* What the records of an answer have to be, without a loop: walking the
\* request, each address it has not had before gets the next record.
Lines(raw, records) ==
  LET First(i) == \A j \in 1 .. i - 1 : ~SameAddress(raw[j], raw[i])
      Before(i) == {j \in 1 .. i : First(j)}
  IN /\ Len(records) = Cardinality(Before(Len(raw)))
     /\ \A i \in DOMAIN raw :
          First(i) => records[Cardinality(Before(i))].ipAddress = raw[i]

\* Every answer lines up with its request: one record per address in the order
\* asked, spelled as first asked, even when an address comes twice or in two
\* forms; all of them are what one publication says, the one the answer is
\* stamped with, and no database at all is never reported as "not listed"
\* (reputationdb.go:132-146, 167-172; parseAddrs, 33-61).
AnswersLineUp ==
  \A q \in Queries :
    reply[q].code = "ok" =>
      /\ reply[q].createdAt \in 1 .. MaxPublications
      /\ LET g == reply[q].createdAt
             records == Records(g, ask[q])
         IN /\ Lines(ask[q], records)
            /\ \A i \in DOMAIN records :
                 records[i].categories = Contents[g][records[i].ipAddress.host]
=============================================================================
