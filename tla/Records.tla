------------------------------- MODULE Records -------------------------------
(***************************************************************************)
(* The record of one network (record.go) and what mkdatabase does to a     *)
(* whole table of them (fold, mergeContained and the build loop).          *)
(*                                                                         *)
(* A network is an element of Prefix and stands for the addresses it       *)
(* covers.  A membership is <<list, provider, category>>: list and         *)
(* provider are numbers, since all that matters of the names is their      *)
(* order.  A table maps every network to its memberships in the order they *)
(* were added; one with none is not in the table.                          *)
(***************************************************************************)
EXTENDS Integers, SequencesExt

CONSTANTS
  Prefix,            \* networks
  Addr,              \* addresses
  Reserved,          \* addresses the database writer refuses
  Covers,            \* Covers[p]: the addresses of network p
  Collapse,          \* Collapse[p]: the /64 around a longer IPv6 network
  InsertionMax       \* up to this many elements sort.Slice sorts by insertion

Stored == {Collapse[p] : p \in Prefix}

ASSUME PrefixAssumption ==
  /\ IsFiniteSet(Prefix)
  /\ Covers \in [Prefix -> (SUBSET Addr) \ {{}}]
  /\ Collapse \in [Prefix -> Prefix]
  /\ Reserved \subseteq Addr
  /\ InsertionMax \in Nat
  /\ \A p \in Prefix : Covers[p] \subseteq Covers[Collapse[p]]
  /\ \A p, q \in Stored :
       \/ p = q
       \/ Covers[p] # Covers[q] /\ (Covers[p] \subseteq Covers[q] \/ Covers[q] \subseteq Covers[p])
       \/ Covers[p] \cap Covers[q] = {}

-----------------------------------------------------------------------------
\* Record.Add skips a membership the record already has.
Add(sources, m) == IF m \in Range(sources) THEN sources ELSE Append(sources, m)

\* What the record has once memberships ms were added, one after the other.
AddAll(sources, ms) ==
  LET added[n \in 0 .. Len(ms)] ==
        IF n = 0 THEN sources ELSE Add(added[n - 1], ms[n])
  IN  added[Len(ms)]

\* The elements of S in the order of the pairs in before: an element's place
\* is how many come before it.
Sorted(S, before) ==
  LET place(x) == Cardinality({y \in S : <<y, x>> \in before}) + 1
  IN  [k \in 1 .. Cardinality(S) |-> CHOOSE x \in S : place(x) = k]

\* Record.sort compares repository and list, then provider.
Bug_SortsBefore(m, n) == m[1] < n[1]
SortsBefore(m, n) == m[1] < n[1] \/ (m[1] = n[1] /\ m[2] < n[2])

\* sort.Slice is not stable: up to InsertionMax elements it sorts by insertion,
\* which keeps equal ones in order, and of more it may have exchanged them.  At
\* most two are equal here, an autonomous system's two categories.
StaysBefore(sources, i, j, exchanged) ==
  \/ SortsBefore(sources[i], sources[j])
  \/ ~SortsBefore(sources[j], sources[i]) /\ IF exchanged THEN j < i ELSE i < j

\* Record.DataType: the union of the categories, and the sorted sources.
DataType(sources, exchanged) ==
  LET at == DOMAIN sources
      order == Sorted(at, {e \in at \X at : StaysBefore(sources, e[1], e[2], exchanged)})
  IN  [categories |-> {m[3] : m \in Range(sources)},
       sources |-> [k \in DOMAIN order |-> sources[order[k]]]]

-----------------------------------------------------------------------------
EmptyTable == [p \in Stored |-> << >>]
Networks(table) == {p \in Stored : table[p] # << >>}

\* The networks that a list's networks are stored as.
Collapsed(prefixes) == {Collapse[q] : q \in prefixes}

\* fold: each network a list names, collapsed, gets the list's memberships (an
\* autonomous system has one for each category).
Bug_Fold(table, prefixes, ms) ==
  [p \in Stored |-> IF p \in prefixes THEN AddAll(table[p], ms) ELSE table[p]]
Fold(table, prefixes, ms) ==
  [p \in Stored |-> IF p \in Collapsed(prefixes) THEN AddAll(table[p], ms) ELSE table[p]]

\* The broader networks of the table that contain p, most specific first.
Supernets(table, p) ==
  LET broader == {q \in Networks(table) : Covers[p] \subseteq Covers[q] /\ q # p}
  IN  Sorted(broader, {e \in broader \X broader : e[1] # e[2] /\ Covers[e[1]] \subseteq Covers[e[2]]})

\* mergeContained: p takes the memberships of every network that contains it ...
Inherit(table, p) ==
  LET supers == Supernets(table, p)
      rec[n \in 0 .. Len(supers)] ==
        IF n = 0 THEN table[p] ELSE AddAll(rec[n - 1], table[supers[n]])
  IN  [table EXCEPT ![p] = rec[Len(supers)]]

\* ... and the networks are visited in the given order.
MergeContained(table, order) ==
  LET merged[n \in 0 .. Len(order)] ==
        IF n = 0 THEN table ELSE Inherit(merged[n - 1], order[n])
  IN  merged[Len(order)]

\* The networks whose records are too long for a stable sort.
LongRecords(table) == {p \in Networks(table) : Len(table[p]) > InsertionMax}

\* The build loop: a network inserted later takes its addresses over from
\* what was inserted before, and the reserved ones are skipped.  Sorting has
\* exchanged equal memberships of some networks.
Insert(table, order, exchanged) ==
  [a \in Addr |->
     LET covering == {i \in DOMAIN order : a \in Covers[order[i]] \ Reserved}
     IN  IF covering = {} THEN DataType(<< >>, FALSE)
         ELSE LET p == order[Max(covering)] IN DataType(table[p], p \in exchanged)]

\* The orders in which the table is walked: the library leaves the order open
\* for mergeContained, which does not depend on it.  The build loop does: it
\* relies on a network coming before the ones it contains.
Orders(table) == SetToSeqs(Networks(table))
InsertOrders(table) ==
  {o \in Orders(table) :
     \A i, j \in DOMAIN o : i < j => ~(Covers[o[i]] \subseteq Covers[o[j]])}
=============================================================================
