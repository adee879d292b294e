-------------------------- MODULE MkDatabase_proofs --------------------------
(***************************************************************************)
(* Proofs about mkdatabase.  When one build runs at a time: a repository   *)
(* whose marker is fresh is complete, and a build that succeeds says of    *)
(* every address exactly what the lists say that it was asked for, however *)
(* builds of other categories, failures and crashes left the cache.        *)
(* However many run at once: equal findings give equal records, unless     *)
(* they are too long for sort.Slice to keep equal memberships in order.    *)
(***************************************************************************)
EXTENDS MkDatabase, SetInduction, FiniteSetTheorems, SequenceTheorems, TLAPS

-----------------------------------------------------------------------------
(* Tables of networks: adding memberships, and sorting *)

\* Sorted lists a finite set, each element once, in the order of a relation
\* that is a strict total order on it.
LEMMA SortedLists ==
  ASSUME NEW S, IsFiniteSet(S), NEW R,
         \A x \in S : <<x, x>> \notin R,
         \A x, y, z \in S : <<x, y>> \in R /\ <<y, z>> \in R => <<x, z>> \in R,
         \A x, y \in S : x # y => <<x, y>> \in R \/ <<y, x>> \in R
  PROVE  LET o == Sorted(S, R)
             n == Cardinality(S)
         IN  /\ n \in Nat /\ o \in [1 .. n -> S]
             /\ \A x \in S : \E k \in 1 .. n : o[k] = x
             /\ \A j, k \in 1 .. n : j < k => <<o[j], o[k]>> \in R
<1> DEFINE n == Cardinality(S)
           below(x) == {y \in S : <<y, x>> \in R}
           place(x) == Cardinality(below(x)) + 1
           o == Sorted(S, R)
<1>1. n \in Nat
  BY FS_CardinalityType
<1>2. ASSUME NEW x \in S
      PROVE  IsFiniteSet(below(x)) /\ Cardinality(below(x)) \in Nat /\ place(x) \in 1 .. n
  <2>1. IsFiniteSet(S \ {x}) /\ Cardinality(S \ {x}) = n - 1
    BY FS_RemoveElement
  <2>2. below(x) \in SUBSET (S \ {x})
    OBVIOUS
  <2> HIDE DEF below, n
  <2>3. IsFiniteSet(below(x)) /\ Cardinality(below(x)) <= n - 1
    <3>1. /\ IsFiniteSet(below(x))
          /\ Cardinality(below(x)) <= Cardinality(S \ {x})
      BY <2>1, <2>2, FS_Subset
    <3> QED BY <2>1, <3>1
  <2>4. Cardinality(below(x)) \in Nat
    BY <2>3, FS_CardinalityType
  <2> QED BY <1>1, <2>3, <2>4
<1>3. ASSUME NEW x \in S, NEW y \in S, <<x, y>> \in R
      PROVE  place(x) < place(y)
  <2>1. below(x) \subseteq below(y) /\ x \in below(y) /\ x \notin below(x)
    BY <1>3
  <2>2. IsFiniteSet(below(y)) /\ Cardinality(below(y)) \in Nat /\ Cardinality(below(x)) \in Nat
    BY <1>2
  <2>3. below(x) # below(y) /\ below(x) \in SUBSET below(y)
    BY <2>1
  <2> HIDE DEF below
  <2>4. /\ Cardinality(below(x)) <= Cardinality(below(y))
        /\ Cardinality(below(x)) # Cardinality(below(y))
    BY <2>2, <2>3, FS_Subset
  <2> QED BY <2>2, <2>4
<1> DEFINE f == [x \in S |-> place(x)]
<1>4. f \in Injection(S, 1 .. n)
  <2>1. f \in [S -> 1 .. n]
    BY <1>2
  <2>2. ASSUME NEW x \in S, NEW y \in S, x # y
        PROVE  place(x) # place(y)
    <3>1. place(x) < place(y) \/ place(y) < place(x)
      <4>1. <<x, y>> \in R \/ <<y, x>> \in R
        BY <2>2
      <4> HIDE DEF place
      <4> QED BY <1>3, <4>1
    <3>2. place(x) \in 1 .. n /\ place(y) \in 1 .. n
      BY <1>2
    <3> HIDE DEF place
    <3> QED BY <1>1, <3>1, <3>2
  <2> HIDE DEF place, n
  <2> QED BY <2>1, <2>2 DEF Injection, IsInjective
<1>5. f \in Surjection(S, 1 .. n)
  <2>1. IsFiniteSet(1 .. n) /\ Cardinality(1 .. n) = n
    BY <1>1, FS_Interval
  <2> HIDE DEF f
  <2> QED BY <1>4, <2>1, FS_Injection
<1>6. \A k \in 1 .. n : \E x \in S : place(x) = k
  BY <1>5 DEF Surjection
<1>7. o = [k \in 1 .. n |-> CHOOSE x \in S : place(x) = k]
  BY DEF Sorted
<1> HIDE DEF below, o
<1>8. \A k \in 1 .. n : o[k] \in S /\ place(o[k]) = k
  BY <1>6, <1>7
<1>9. o \in [1 .. n -> S]
  BY <1>7, <1>8
<1>10. ASSUME NEW x \in S
       PROVE  \E k \in 1 .. n : o[k] = x
  <2>1. place(x) \in 1 .. n
    BY <1>2
  <2>2. o[place(x)] \in S /\ place(o[place(x)]) = place(x)
    BY <1>8, <2>1
  <2>3. \A y \in S : y # x => place(y) # place(x)
    BY <1>4 DEF Injection, IsInjective
  <2> HIDE DEF place
  <2> QED BY <2>1, <2>2, <2>3
<1>11. ASSUME NEW j \in 1 .. n, NEW k \in 1 .. n, j < k
       PROVE  <<o[j], o[k]>> \in R
  <2>1. o[j] \in S /\ o[k] \in S /\ place(o[j]) = j /\ place(o[k]) = k
    BY <1>8
  <2>2. o[j] # o[k]
    BY <1>11, <2>1
  <2>3. CASE <<o[k], o[j]>> \in R
    <3>1. k < j
      BY <1>3, <2>1, <2>3
    <3> QED BY <1>1, <1>11, <3>1
  <2> QED BY <2>1, <2>2, <2>3
<1> HIDE DEF place, n
<1> QED BY <1>1, <1>9, <1>10, <1>11 DEF o, n

\* Adding a list of memberships, round by round.
LEMMA AddAllUnfold ==
  ASSUME NEW E, NEW s \in Seq(E), NEW ms \in Seq(E)
  PROVE  \E g : /\ g[0] = s
                /\ \A n \in 1 .. Len(ms) : g[n] = Add(g[n - 1], ms[n])
                /\ AddAll(s, ms) = g[Len(ms)]
<1> DEFINE N == Len(ms)
           Q == Seq(E)
           F == [n \in 1 .. N |-> [t \in Q |-> Add(t, ms[n])]]
           Step(g, n) == IF n = 0 THEN s ELSE Add(g[n - 1], ms[n])
           Rec(g) == g = [n \in 0 .. N |-> Step(g, n)]
<1>1. N \in Nat
  BY LenProperties
<1>2. ASSUME NEW n \in 1 .. N, NEW t \in Q
      PROVE  F[n][t] = Add(t, ms[n]) /\ Add(t, ms[n]) \in Q
  <2>1. ms[n] \in E
    BY ElementOfSeq
  <2> QED BY <2>1, AppendProperties DEF Add
<1>3. PICK h : Rounds(h, Q, s, N, F)
  <2>1. s \in Q /\ \A n \in 1 .. N : \A t \in Q : F[n][t] \in Q
    BY <1>2
  <2> HIDE DEF Q, F, N
  <2> QED BY <1>1, <2>1, RoundsExist
<1> HIDE DEF Q, F, N
<1>4. ASSUME NEW n \in 1 .. N
      PROVE  h[n] = Add(h[n - 1], ms[n])
  <2>1. n - 1 \in 0 .. N /\ h \in [0 .. N -> Q] /\ h[n] = F[n][h[n - 1]]
    BY <1>1, <1>3 DEF Rounds
  <2> QED BY <1>2, <2>1
<1>5. Rec(h)
  <2>1. \A n \in 0 .. N : h[n] = Step(h, n)
    BY <1>1, <1>3, <1>4 DEF Rounds
  <2> HIDE DEF Step
  <2> QED BY <1>3, <2>1 DEF Rounds
<1> DEFINE g == CHOOSE g : Rec(g)
<1>6. Rec(g)
  <2> HIDE DEF Rec
  <2> QED BY <1>5
<1>7. AddAll(s, ms) = g[N]
  BY DEF AddAll, N
<1> HIDE DEF g
<1>8. \A n \in 0 .. N : g[n] = Step(g, n)
  <2> HIDE DEF Step
  <2> QED BY <1>6
<1>9. g[0] = s /\ \A n \in 1 .. N : g[n] = Add(g[n - 1], ms[n])
  BY <1>1, <1>8
<1> QED BY <1>7, <1>9 DEF N

\* A record that takes a membership has those it had and the new one.
LEMMA AddFacts ==
  ASSUME NEW E, NEW t \in Seq(E), NEW m \in E
  PROVE  Add(t, m) \in Seq(E) /\ Range(Add(t, m)) = Range(t) \cup {m}
<1>1. CASE m \in Range(t)
  BY <1>1 DEF Add
<1>2. CASE m \notin Range(t)
  <2>1. Add(t, m) = Append(t, m)
    BY <1>2 DEF Add
  <2>2. /\ Append(t, m) \in Seq(E) /\ Len(Append(t, m)) = Len(t) + 1 /\ Len(t) \in Nat
        /\ DOMAIN Append(t, m) = 1 .. (Len(t) + 1) /\ DOMAIN t = 1 .. Len(t)
        /\ Append(t, m)[Len(t) + 1] = m
        /\ \A k \in 1 .. Len(t) : Append(t, m)[k] = t[k]
    BY AppendProperties, LenProperties
  <2>3. 1 .. (Len(t) + 1) = (1 .. Len(t)) \cup {Len(t) + 1}
    BY <2>2
  <2> QED BY <2>1, <2>2, <2>3 DEF Range
<1> QED BY <1>1, <1>2

\* A record that takes more memberships has those it had and the new ones.
LEMMA AddAllFacts ==
  ASSUME NEW E, NEW s \in Seq(E), NEW ms \in Seq(E)
  PROVE  AddAll(s, ms) \in Seq(E) /\ Range(AddAll(s, ms)) = Range(s) \cup Range(ms)
<1>1. PICK g : /\ g[0] = s
               /\ \A n \in 1 .. Len(ms) : g[n] = Add(g[n - 1], ms[n])
               /\ AddAll(s, ms) = g[Len(ms)]
  BY AddAllUnfold
<1>2. /\ Len(ms) \in Nat /\ DOMAIN ms = 1 .. Len(ms)
      /\ \A n \in 1 .. Len(ms) : ms[n] \in E
  BY LenProperties, ElementOfSeq
<1> DEFINE First(n) == {ms[k] : k \in 1 .. n}
           Good(n) == g[n] \in Seq(E) /\ Range(g[n]) = Range(s) \cup First(n)
           Goods == {n \in Nat : n <= Len(ms) => Good(n)}
<1>3. 0 \in Goods
  BY <1>1 DEF Good, First
<1>4. ASSUME NEW n \in Nat, n \in Goods, n + 1 <= Len(ms)
      PROVE  Good(n + 1)
  <2>1. n + 1 \in 1 .. Len(ms) /\ (n + 1) - 1 = n /\ n <= Len(ms)
    BY <1>2, <1>4
  <2>2. g[n + 1] = Add(g[n], ms[n + 1]) /\ Good(n) /\ ms[n + 1] \in E
    BY <1>1, <1>2, <1>4, <2>1
  <2>3. First(n + 1) = First(n) \cup {ms[n + 1]}
    <3>1. 1 .. (n + 1) = (1 .. n) \cup {n + 1}
      OBVIOUS
    <3> QED BY <3>1
  <2>4. Add(g[n], ms[n + 1]) \in Seq(E) /\ Range(Add(g[n], ms[n + 1])) = Range(g[n]) \cup {ms[n + 1]}
    <3> DEFINE t == g[n]
               m == ms[n + 1]
    <3>1. t \in Seq(E) /\ m \in E
      BY <2>2
    <3> HIDE DEF t, m
    <3>2. Add(t, m) \in Seq(E) /\ Range(Add(t, m)) = Range(t) \cup {m}
      BY <3>1, AddFacts
    <3> QED BY <3>2 DEF t, m
  <2> HIDE DEF First
  <2> QED BY <2>2, <2>3, <2>4
<1>5. \A n \in Nat : n \in Goods => n + 1 \in Goods
  <2> HIDE DEF Good
  <2> QED BY <1>4
<1>6. Len(ms) \in Goods
  <2> HIDE DEF Goods
  <2> QED BY <1>2, <1>3, <1>5, NatSetInduction
<1>7. First(Len(ms)) = Range(ms)
  BY <1>2 DEF Range
<1> HIDE DEF First
<1> QED BY <1>1, <1>2, <1>6, <1>7

\* Tables of records of elements of E.
Tables(E) == [Stored -> Seq(E)]

\* What a list adds to a record is what it has for the record's network.
LEMMA FoldFacts ==
  ASSUME NEW E, NEW t \in Tables(E), NEW prefixes, NEW ms \in Seq(E)
  PROVE  /\ Fold(t, prefixes, ms) \in Tables(E)
         /\ \A p \in Stored : Range(Fold(t, prefixes, ms)[p])
              = Range(t[p]) \cup (IF p \in Collapsed(prefixes) THEN Range(ms) ELSE {})
<1> DEFINE new == Fold(t, prefixes, ms)
<1>1. ASSUME NEW p \in Stored
      PROVE  /\ new[p] = IF p \in Collapsed(prefixes) THEN AddAll(t[p], ms) ELSE t[p]
             /\ t[p] \in Seq(E)
  BY DEF Fold, Tables
<1>2. new = [p \in Stored |-> new[p]]
  BY DEF Fold
<1> HIDE DEF new
<1>3. ASSUME NEW p \in Stored
      PROVE  /\ new[p] \in Seq(E)
             /\ Range(new[p])
                  = Range(t[p]) \cup (IF p \in Collapsed(prefixes) THEN Range(ms) ELSE {})
  <2> DEFINE s == t[p]
  <2>1. s \in Seq(E) /\ new[p] = IF p \in Collapsed(prefixes) THEN AddAll(s, ms) ELSE s
    BY <1>1
  <2> HIDE DEF s
  <2>2. AddAll(s, ms) \in Seq(E) /\ Range(AddAll(s, ms)) = Range(s) \cup Range(ms)
    BY <2>1, AddAllFacts
  <2>3. CASE p \in Collapsed(prefixes)
    BY <2>1, <2>2, <2>3 DEF s
  <2>4. CASE p \notin Collapsed(prefixes)
    BY <2>1, <2>4 DEF s
  <2> QED BY <2>3, <2>4
<1>4. new \in [Stored -> Seq(E)]
  BY <1>2, <1>3
<1> QED BY <1>3, <1>4 DEF Tables, new

\* SetToSeqs lists a finite set, each element once.
LEMMA ListingFacts ==
  ASSUME NEW S, IsFiniteSet(S), NEW o \in SetToSeqs(S)
  PROVE  /\ o \in Seq(S) /\ o \in [1 .. Len(o) -> S] /\ Len(o) \in Nat
         /\ \A x \in S : \E k \in 1 .. Len(o) : o[k] = x
         /\ \A i, j \in 1 .. Len(o) : o[i] = o[j] => i = j
<1> DEFINE n == Cardinality(S)
<1>1. n \in Nat /\ IsFiniteSet(1 .. n) /\ Cardinality(1 .. n) = n
  BY FS_CardinalityType, FS_Interval
<1>2. o \in [1 .. n -> S] /\ \A i, j \in 1 .. n : i # j => o[i] # o[j]
  BY DEF SetToSeqs
<1> HIDE DEF n
<1>3. o \in Injection(1 .. n, S)
  BY <1>2 DEF Injection, IsInjective
<1>4. o \in Surjection(1 .. n, S)
  BY <1>1, <1>3, FS_Injection DEF n
<1>5. o \in Seq(S) /\ Len(o) = n
  BY <1>1, <1>2, SeqDef, LenProperties
<1> QED BY <1>1, <1>2, <1>4, <1>5 DEF Surjection

\* The networks are finite in number, and so are those that are stored.
LEMMA StoredFinite == IsFiniteSet(Stored) /\ Stored \subseteq Prefix
<1>1. IsFiniteSet(Prefix) /\ Collapse \in [Prefix -> Prefix]
  BY PrefixAssumption DEF PrefixAssumption
<1>2. Stored \in SUBSET Prefix
  BY <1>1 DEF Stored
<1> QED BY <1>1, <1>2, FS_Subset

\* The broader networks of a table, each once.
LEMMA SupernetsFacts ==
  ASSUME NEW t, NEW p \in Stored
  PROVE  LET supers == Supernets(t, p)
         IN  /\ supers \in Seq(Stored)
             /\ Range(supers) = {q \in Networks(t) : Covers[p] \subseteq Covers[q] /\ q # p}
<1> DEFINE broader == {q \in Networks(t) : Covers[p] \subseteq Covers[q] /\ q # p}
           R == {e \in broader \X broader : e[1] # e[2] /\ Covers[e[1]] \subseteq Covers[e[2]]}
           n == Cardinality(broader)
           supers == Sorted(broader, R)
<1>1. broader \in SUBSET Stored /\ IsFiniteSet(broader)
  <2>1. broader \in SUBSET Stored
    BY DEF Networks
  <2> HIDE DEF broader
  <2> QED BY <2>1, StoredFinite, FS_Subset
<1>2. \A x, y \in broader : <<x, y>> \in R <=> x # y /\ Covers[x] \subseteq Covers[y]
  <2> HIDE DEF broader
  <2> QED OBVIOUS
<1>3. \A x, y \in broader : x # y => /\ Covers[x] # Covers[y]
                                     /\ Covers[x] \subseteq Covers[y] \/ Covers[y] \subseteq Covers[x]
  <2> SUFFICES ASSUME NEW x \in broader, NEW y \in broader, x # y
               PROVE  /\ Covers[x] # Covers[y]
                      /\ Covers[x] \subseteq Covers[y] \/ Covers[y] \subseteq Covers[x]
    OBVIOUS
  <2>1. x \in Stored /\ y \in Stored /\ Covers[p] \subseteq Covers[x] /\ Covers[p] \subseteq Covers[y]
    BY <1>1
  <2>2. Covers[p] # {}
    BY StoredFinite, PrefixAssumption DEF PrefixAssumption
  <2>3. Covers[x] \cap Covers[y] # {}
    BY <2>1, <2>2
  <2> QED BY <2>1, <2>3, PrefixAssumption DEF PrefixAssumption
<1> HIDE DEF broader, R
<1>4. /\ \A x \in broader : <<x, x>> \notin R
      /\ \A x, y, z \in broader : <<x, y>> \in R /\ <<y, z>> \in R => <<x, z>> \in R
      /\ \A x, y \in broader : x # y => <<x, y>> \in R \/ <<y, x>> \in R
  <2>1. \A x, y, z \in broader : <<x, y>> \in R /\ <<y, z>> \in R => <<x, z>> \in R
    <3> SUFFICES ASSUME NEW x \in broader, NEW y \in broader, NEW z \in broader,
                        <<x, y>> \in R, <<y, z>> \in R
                 PROVE  <<x, z>> \in R
      OBVIOUS
    <3>1. Covers[x] \subseteq Covers[y] /\ Covers[y] \subseteq Covers[z] /\ x # y
      BY <1>2
    <3>2. Covers[x] # Covers[y]
      BY <1>3, <3>1
    <3>3. x # z
      BY <3>1, <3>2
    <3> QED BY <1>2, <3>1, <3>3
  <2> QED BY <1>2, <1>3, <2>1
<1>5. /\ n \in Nat /\ supers \in [1 .. n -> broader]
      /\ \A x \in broader : \E k \in 1 .. n : supers[k] = x
  BY <1>1, <1>4, SortedLists
<1>6. Supernets(t, p) = supers
  BY DEF Supernets, broader, R
<1> HIDE DEF supers, n
<1>7. supers \in [1 .. n -> Stored]
  BY <1>1, <1>5
<1>8. supers \in Seq(Stored)
  BY <1>5, <1>7, SeqDef
<1>9. Range(supers) = broader
  BY <1>5 DEF Range
<1> QED BY <1>6, <1>8, <1>9 DEF broader

\* Taking the memberships of one network after the other, round by round.
LEMMA InheritUnfold ==
  ASSUME NEW E, NEW t \in Tables(E), NEW p \in Stored, NEW supers \in Seq(Stored),
         supers = Supernets(t, p)
  PROVE  \E g : /\ g[0] = t[p]
                /\ \A n \in 1 .. Len(supers) : g[n] = AddAll(g[n - 1], t[supers[n]])
                /\ Inherit(t, p) = [t EXCEPT ![p] = g[Len(supers)]]
<1> DEFINE N == Len(supers)
           Q == Seq(E)
           F == [n \in 1 .. N |-> [s \in Q |-> AddAll(s, t[supers[n]])]]
           Step(g, n) == IF n = 0 THEN t[p] ELSE AddAll(g[n - 1], t[supers[n]])
           Rec(g) == g = [n \in 0 .. N |-> Step(g, n)]
<1>1. N \in Nat /\ t[p] \in Q
  BY LenProperties DEF Tables
<1>2. ASSUME NEW n \in 1 .. N, NEW s \in Q
      PROVE  F[n][s] = AddAll(s, t[supers[n]]) /\ AddAll(s, t[supers[n]]) \in Q
  <2> DEFINE ms == t[supers[n]]
  <2>1. supers[n] \in Stored
    BY ElementOfSeq
  <2>2. ms \in Seq(E)
    BY <2>1 DEF Tables
  <2>3. F[n][s] = AddAll(s, ms)
    OBVIOUS
  <2> HIDE DEF ms, F
  <2>4. AddAll(s, ms) \in Seq(E)
    BY <2>2, AddAllFacts
  <2> QED BY <2>3, <2>4 DEF ms
<1>3. PICK h : Rounds(h, Q, t[p], N, F)
  <2> DEFINE s == t[p]
  <2>1. s \in Q /\ \A n \in 1 .. N : \A x \in Q : F[n][x] \in Q
    BY <1>1, <1>2
  <2> HIDE DEF Q, F, N, s
  <2>2. \E h : Rounds(h, Q, s, N, F)
    BY <1>1, <2>1, RoundsExist
  <2> QED BY <2>2 DEF s
<1> HIDE DEF Q, F, N
<1>4. ASSUME NEW n \in 1 .. N
      PROVE  h[n] = AddAll(h[n - 1], t[supers[n]])
  <2>1. n - 1 \in 0 .. N /\ h \in [0 .. N -> Q] /\ h[n] = F[n][h[n - 1]]
    BY <1>1, <1>3 DEF Rounds
  <2> QED BY <1>2, <2>1
<1>5. Rec(h)
  <2>1. \A n \in 0 .. N : h[n] = Step(h, n)
    BY <1>1, <1>3, <1>4 DEF Rounds
  <2> HIDE DEF Step
  <2> QED BY <1>3, <2>1 DEF Rounds
<1> DEFINE g == CHOOSE g : Rec(g)
<1>6. Rec(g)
  <2> HIDE DEF Rec
  <2> QED BY <1>5
<1>7. Inherit(t, p) = [t EXCEPT ![p] = g[N]]
  BY DEF Inherit, N
<1> HIDE DEF g
<1>8. \A n \in 0 .. N : g[n] = Step(g, n)
  <2> HIDE DEF Step
  <2> QED BY <1>6
<1>9. g[0] = t[p] /\ \A n \in 1 .. N : g[n] = AddAll(g[n - 1], t[supers[n]])
  BY <1>1, <1>8
<1> QED BY <1>7, <1>9 DEF N

\* What broader networks of the table say, the network itself included.
Says(t, p) == UNION {Range(t[q]) : q \in {r \in Stored : Covers[p] \subseteq Covers[r]}}

\* A network that inherits has what it and every broader network had.
LEMMA InheritFacts ==
  ASSUME NEW E, NEW t \in Tables(E), NEW p \in Stored
  PROVE  /\ Inherit(t, p) \in Tables(E)
         /\ \A q \in Stored : Range(Inherit(t, p)[q])
              = IF q = p THEN Says(t, p) ELSE Range(t[q])
<1> DEFINE supers == Supernets(t, p)
<1>1. /\ supers \in Seq(Stored)
      /\ Range(supers) = {q \in Networks(t) : Covers[p] \subseteq Covers[q] /\ q # p}
  BY SupernetsFacts
<1>2. /\ Len(supers) \in Nat /\ DOMAIN supers = 1 .. Len(supers)
      /\ \A n \in 1 .. Len(supers) : supers[n] \in Stored
  BY <1>1, LenProperties, ElementOfSeq
<1>3. PICK g : /\ g[0] = t[p]
               /\ \A n \in 1 .. Len(supers) : g[n] = AddAll(g[n - 1], t[supers[n]])
               /\ Inherit(t, p) = [t EXCEPT ![p] = g[Len(supers)]]
  <2> DEFINE S == supers
  <2>1. S \in Seq(Stored) /\ S = Supernets(t, p)
    BY <1>1
  <2> HIDE DEF S
  <2>2. \E g : /\ g[0] = t[p]
               /\ \A n \in 1 .. Len(S) : g[n] = AddAll(g[n - 1], t[S[n]])
               /\ Inherit(t, p) = [t EXCEPT ![p] = g[Len(S)]]
    BY <2>1, InheritUnfold
  <2> QED BY <2>2 DEF S
<1> HIDE DEF supers
<1> DEFINE First(n) == UNION {Range(t[supers[k]]) : k \in 1 .. n}
           Good(n) == g[n] \in Seq(E) /\ Range(g[n]) = Range(t[p]) \cup First(n)
           Goods == {n \in Nat : n <= Len(supers) => Good(n)}
<1>4. 0 \in Goods
  <2>1. First(0) = {}
    OBVIOUS
  <2> HIDE DEF First
  <2> QED BY <1>3, <2>1 DEF Tables
<1>5. ASSUME NEW n \in Nat, n \in Goods, n + 1 <= Len(supers)
      PROVE  Good(n + 1)
  <2> DEFINE s == g[n]
             ms == t[supers[n + 1]]
  <2>1. n + 1 \in 1 .. Len(supers) /\ (n + 1) - 1 = n /\ n <= Len(supers)
    BY <1>2, <1>5
  <2>2. First(n + 1) = First(n) \cup Range(ms)
    <3>1. 1 .. (n + 1) = (1 .. n) \cup {n + 1}
      OBVIOUS
    <3> QED BY <3>1
  <2> HIDE DEF First
  <2>3. g[n + 1] = AddAll(s, ms) /\ s \in Seq(E) /\ Range(s) = Range(t[p]) \cup First(n)
    BY <1>3, <1>5, <2>1
  <2>4. ms \in Seq(E)
    BY <1>2, <2>1 DEF Tables
  <2> HIDE DEF s, ms
  <2>5. AddAll(s, ms) \in Seq(E) /\ Range(AddAll(s, ms)) = Range(s) \cup Range(ms)
    BY <2>3, <2>4, AddAllFacts
  <2> QED BY <2>2, <2>3, <2>5
<1>6. \A n \in Nat : n \in Goods => n + 1 \in Goods
  <2> HIDE DEF Good
  <2> QED BY <1>5
<1>7. Len(supers) \in Goods
  <2> HIDE DEF Goods
  <2> QED BY <1>2, <1>4, <1>6, NatSetInduction
<1>8. Range(t[p]) \cup First(Len(supers)) = Says(t, p)
  <2>1. First(Len(supers)) = UNION {Range(t[q]) : q \in Range(supers)}
    <3>1. \A m : m \in First(Len(supers)) <=> \E k \in 1 .. Len(supers) : m \in Range(t[supers[k]])
      OBVIOUS
    <3>2. \A q : q \in Range(supers) <=> \E k \in 1 .. Len(supers) : q = supers[k]
      BY <1>2 DEF Range
    <3> HIDE DEF First
    <3>3. \A m : m \in First(Len(supers)) <=> m \in UNION {Range(t[q]) : q \in Range(supers)}
      BY <3>1, <3>2
    <3> QED BY <3>3
  <2>2. \A q \in Stored : q \notin Networks(t) => Range(t[q]) = {}
    BY DEF Networks, Range
  <2> HIDE DEF First
  <2>3. \A m : m \in Range(t[p]) \cup First(Len(supers)) <=> m \in Says(t, p)
    <3>1. ASSUME NEW m, m \in Says(t, p)
          PROVE  m \in Range(t[p]) \cup First(Len(supers))
      <4>1. PICK q \in Stored : Covers[p] \subseteq Covers[q] /\ m \in Range(t[q])
        BY <3>1 DEF Says
      <4>2. CASE q = p
        BY <4>1, <4>2
      <4>3. CASE q # p
        <5>1. q \in Range(supers)
          BY <1>1, <2>2, <4>1, <4>3 DEF supers
        <5> QED BY <2>1, <4>1, <5>1
      <4> QED BY <4>2, <4>3
    <3>2. Range(t[p]) \subseteq Says(t, p)
      BY DEF Says
    <3>3. First(Len(supers)) \subseteq Says(t, p)
      <4>1. \A q \in Range(supers) : q \in Stored /\ Covers[p] \subseteq Covers[q]
        BY <1>1 DEF supers, Networks
      <4> QED BY <2>1, <4>1 DEF Says
    <3> QED BY <3>1, <3>2, <3>3
  <2> QED BY <2>3
<1> HIDE DEF First
<1>9. g[Len(supers)] \in Seq(E) /\ Range(g[Len(supers)]) = Says(t, p)
  <2>1. Good(Len(supers))
    <3> HIDE DEF Good
    <3> QED BY <1>2, <1>7
  <2> QED BY <1>8, <2>1
<1>10. \A q \in Stored : Inherit(t, p)[q] = IF q = p THEN g[Len(supers)] ELSE t[q]
  BY <1>3 DEF Tables
<1>11. Inherit(t, p) \in Tables(E)
  BY <1>3, <1>9 DEF Tables
<1> QED BY <1>9, <1>10, <1>11

\* Merging the networks in some order, round by round.
LEMMA MergeUnfold ==
  ASSUME NEW E, NEW t \in Tables(E), NEW order \in Seq(Stored)
  PROVE  \E g : /\ g[0] = t
                /\ \A n \in 1 .. Len(order) : g[n] = Inherit(g[n - 1], order[n])
                /\ MergeContained(t, order) = g[Len(order)]
<1> DEFINE N == Len(order)
           Q == Tables(E)
           F == [n \in 1 .. N |-> [s \in Q |-> Inherit(s, order[n])]]
           Step(g, n) == IF n = 0 THEN t ELSE Inherit(g[n - 1], order[n])
           Rec(g) == g = [n \in 0 .. N |-> Step(g, n)]
<1>1. N \in Nat
  BY LenProperties
<1>2. ASSUME NEW n \in 1 .. N, NEW s \in Q
      PROVE  F[n][s] = Inherit(s, order[n]) /\ Inherit(s, order[n]) \in Q
  <2> DEFINE p == order[n]
  <2>1. p \in Stored
    BY ElementOfSeq
  <2>2. F[n][s] = Inherit(s, p)
    OBVIOUS
  <2> HIDE DEF p, F
  <2>3. Inherit(s, p) \in Tables(E)
    BY <2>1, InheritFacts
  <2> QED BY <2>2, <2>3 DEF p
<1>3. PICK h : Rounds(h, Q, t, N, F)
  <2>1. t \in Q /\ \A n \in 1 .. N : \A x \in Q : F[n][x] \in Q
    BY <1>1, <1>2
  <2> HIDE DEF Q, F, N
  <2> QED BY <1>1, <2>1, RoundsExist
<1> HIDE DEF Q, F, N
<1>4. ASSUME NEW n \in 1 .. N
      PROVE  h[n] = Inherit(h[n - 1], order[n])
  <2>1. n - 1 \in 0 .. N /\ h \in [0 .. N -> Q] /\ h[n] = F[n][h[n - 1]]
    BY <1>1, <1>3 DEF Rounds
  <2> QED BY <1>2, <2>1
<1>5. Rec(h)
  <2>1. \A n \in 0 .. N : h[n] = Step(h, n)
    BY <1>1, <1>3, <1>4 DEF Rounds
  <2> HIDE DEF Step
  <2> QED BY <1>3, <2>1 DEF Rounds
<1> DEFINE g == CHOOSE g : Rec(g)
<1>6. Rec(g)
  <2> HIDE DEF Rec
  <2> QED BY <1>5
<1>7. MergeContained(t, order) = g[N]
  BY DEF MergeContained, N
<1> HIDE DEF g
<1>8. \A n \in 0 .. N : g[n] = Step(g, n)
  <2> HIDE DEF Step
  <2> QED BY <1>6
<1>9. g[0] = t /\ \A n \in 1 .. N : g[n] = Inherit(g[n - 1], order[n])
  BY <1>1, <1>8
<1> QED BY <1>7, <1>9 DEF N

\* What merging has done to the table t after it has visited the networks seen.
Merged(t, s, seen) ==
  /\ \A p \in Stored : /\ Range(t[p]) \subseteq Range(s[p])
                       /\ Range(s[p]) \subseteq Says(t, p)
  /\ \A p \in Stored \ Networks(t) : Range(s[p]) = {}
  /\ \A p \in seen : Range(s[p]) = Says(t, p)

\* Visiting one more network.
LEMMA MergedStep ==
  ASSUME NEW E, NEW t \in Tables(E), NEW s \in Tables(E), NEW seen \in SUBSET Stored,
         NEW p \in Networks(t), Merged(t, s, seen)
  PROVE  Inherit(s, p) \in Tables(E) /\ Merged(t, Inherit(s, p), seen \cup {p})
<1> DEFINE new == Inherit(s, p)
<1>1. p \in Stored
  BY DEF Networks
<1>2. /\ new \in Tables(E)
      /\ \A q \in Stored : Range(new[q]) = IF q = p THEN Says(s, p) ELSE Range(s[q])
  BY <1>1, InheritFacts
<1> HIDE DEF new
<1>3. Says(s, p) = Says(t, p)
  <2>1. \A m : m \in Says(s, p) => m \in Says(t, p)
    <3> SUFFICES ASSUME NEW q \in Stored, Covers[p] \subseteq Covers[q], NEW m \in Range(s[q])
                 PROVE  m \in Says(t, p)
      BY DEF Says
    <3>1. m \in Says(t, q)
      BY DEF Merged
    <3>2. PICK r \in Stored : Covers[q] \subseteq Covers[r] /\ m \in Range(t[r])
      BY <3>1 DEF Says
    <3> QED BY <3>2 DEF Says
  <2>2. \A m : m \in Says(t, p) => m \in Says(s, p)
    <3> SUFFICES ASSUME NEW q \in Stored, Covers[p] \subseteq Covers[q], NEW m \in Range(t[q])
                 PROVE  m \in Says(s, p)
      BY DEF Says
    <3>1. m \in Range(s[q])
      BY DEF Merged
    <3> QED BY <3>1 DEF Says
  <2> QED BY <2>1, <2>2
<1>4. Range(t[p]) \subseteq Says(t, p)
  BY <1>1 DEF Says
<1> QED BY <1>1, <1>2, <1>3, <1>4 DEF Merged, new

\* mergeContained gives every network of the table all that it and the
\* broader networks said, in whatever order the networks are visited.
LEMMA MergeFacts ==
  ASSUME NEW E, NEW t \in Tables(E), NEW order \in Orders(t)
  PROVE  /\ MergeContained(t, order) \in Tables(E)
         /\ Networks(MergeContained(t, order)) = Networks(t)
         /\ \A p \in Networks(t) : Range(MergeContained(t, order)[p]) = Says(t, p)
<1>1. Networks(t) \in SUBSET Stored /\ IsFiniteSet(Networks(t))
  <2>1. Networks(t) \in SUBSET Stored
    BY DEF Networks
  <2> QED BY <2>1, StoredFinite, FS_Subset
<1>2. /\ order \in Seq(Networks(t)) /\ order \in [1 .. Len(order) -> Networks(t)]
      /\ Len(order) \in Nat
      /\ \A p \in Networks(t) : \E k \in 1 .. Len(order) : order[k] = p
  BY <1>1, ListingFacts DEF Orders
<1>3. order \in Seq(Stored)
  <2>1. order \in [1 .. Len(order) -> Stored]
    BY <1>1, <1>2
  <2> QED BY <1>2, <2>1, SeqDef
<1>4. PICK g : /\ g[0] = t
               /\ \A n \in 1 .. Len(order) : g[n] = Inherit(g[n - 1], order[n])
               /\ MergeContained(t, order) = g[Len(order)]
  BY <1>3, MergeUnfold
<1> DEFINE Seen(n) == {order[k] : k \in 1 .. n}
           Good(n) == g[n] \in Tables(E) /\ Merged(t, g[n], Seen(n))
           Goods == {n \in Nat : n <= Len(order) => Good(n)}
<1>5. 0 \in Goods
  <2>1. Seen(0) = {}
    OBVIOUS
  <2>2. \A p \in Stored : Range(t[p]) \subseteq Says(t, p)
    BY DEF Says
  <2>3. \A p \in Stored \ Networks(t) : Range(t[p]) = {}
    BY DEF Networks, Range
  <2> HIDE DEF Seen
  <2> QED BY <1>4, <2>1, <2>2, <2>3 DEF Merged
<1>6. ASSUME NEW n \in Nat, n \in Goods, n + 1 <= Len(order)
      PROVE  Good(n + 1)
  <2> DEFINE s == g[n]
             p == order[n + 1]
             seen == Seen(n)
  <2>1. n + 1 \in 1 .. Len(order) /\ (n + 1) - 1 = n /\ n <= Len(order)
    BY <1>2, <1>6
  <2>2. Seen(n + 1) = seen \cup {p}
    <3>1. 1 .. (n + 1) = (1 .. n) \cup {n + 1}
      OBVIOUS
    <3> QED BY <3>1
  <2>3. seen \in SUBSET Stored
    BY <1>1, <1>2, <2>1
  <2> HIDE DEF Seen
  <2>4. g[n + 1] = Inherit(s, p) /\ s \in Tables(E) /\ Merged(t, s, seen) /\ p \in Networks(t)
    BY <1>2, <1>4, <1>6, <2>1
  <2> HIDE DEF s, p, seen
  <2>5. Inherit(s, p) \in Tables(E) /\ Merged(t, Inherit(s, p), seen \cup {p})
    BY <2>3, <2>4, MergedStep
  <2> QED BY <2>2, <2>4, <2>5
<1>7. \A n \in Nat : n \in Goods => n + 1 \in Goods
  <2> HIDE DEF Good
  <2> QED BY <1>6
<1>8. Len(order) \in Goods
  <2> HIDE DEF Goods
  <2> QED BY <1>2, <1>5, <1>7, NatSetInduction
<1>9. Good(Len(order))
  <2> HIDE DEF Good
  <2> QED BY <1>2, <1>8
<1> DEFINE new == g[Len(order)]
<1>10. new \in Tables(E) /\ Merged(t, new, Seen(Len(order)))
  BY <1>9
<1>11. Seen(Len(order)) = Networks(t)
  BY <1>2
<1> HIDE DEF Seen, new
<1>12. \A p \in Networks(t) : Range(new[p]) = Says(t, p)
  BY <1>10, <1>11 DEF Merged
<1>13. Networks(new) = Networks(t)
  <2> SUFFICES ASSUME NEW p \in Stored
               PROVE  new[p] # << >> <=> t[p] # << >>
    BY DEF Networks
  <2>1. \A s \in Seq(E) : s # << >> <=> Range(s) # {}
    <3> SUFFICES ASSUME NEW s \in Seq(E), s # << >> PROVE Range(s) # {}
      BY DEF Range
    <3>1. Len(s) \in Nat /\ Len(s) # 0 /\ DOMAIN s = 1 .. Len(s)
      BY EmptySeq, LenProperties
    <3>2. s[1] \in Range(s)
      BY <3>1 DEF Range
    <3> QED BY <3>2
  <2>2. new[p] \in Seq(E) /\ t[p] \in Seq(E)
    BY <1>10 DEF Tables
  <2>3. CASE p \in Networks(t)
    <3>1. Range(t[p]) \subseteq Range(new[p]) /\ Range(t[p]) # {}
      BY <1>10, <2>1, <2>2, <2>3 DEF Merged, Networks
    <3> QED BY <2>1, <2>2, <2>3, <3>1 DEF Networks
  <2>4. CASE p \notin Networks(t)
    BY <1>10, <2>1, <2>2, <2>4 DEF Merged, Networks
  <2> QED BY <2>3, <2>4
<1> QED BY <1>4, <1>10, <1>12, <1>13 DEF new

-----------------------------------------------------------------------------
(* What goes into the tree *)

\* The largest of a bounded set of numbers.
LEMMA MaxFacts ==
  ASSUME NEW N \in Nat, NEW S \in SUBSET (1 .. N), S # {}
  PROVE  Max(S) \in S /\ \A i \in S : i <= Max(S)
<1> DEFINE T == {n \in Nat : \A i \in S : i <= n}
<1>1. T \in SUBSET Nat /\ N \in T
  OBVIOUS
<1>2. PICK n \in T : \A m \in T : n <= m
  <2> HIDE DEF T
  <2> QED BY <1>1, LeastNatural
<1>3. n \in S
  <2> SUFFICES ASSUME n \notin S PROVE FALSE
    OBVIOUS
  <2>1. \A i \in S : i \in Nat /\ i <= n /\ i # n /\ i > 0
    BY <1>2
  <2>2. n > 0
    <3>1. PICK i \in S : TRUE
      OBVIOUS
    <3>2. n \in Nat /\ i > 0 /\ i <= n
      BY <1>2, <2>1, <3>1
    <3> QED BY <3>2, <2>1
  <2>3. n - 1 \in T
    BY <1>2, <2>1, <2>2
  <2> QED BY <1>2, <2>3
<1>4. \E x \in S : \A y \in S : x >= y
  BY <1>2, <1>3
<1>5. Max(S) \in S /\ \A y \in S : Max(S) >= y
  BY <1>4 DEF Max
<1> QED BY <1>5

\* Elements that can be sorted.
Sortable(E) == \A m \in E : m[1] \in Int /\ m[2] \in Int

\* DataType writes the memberships of a record, each where the sort puts it.
LEMMA DataTypeFacts ==
  ASSUME NEW E, Sortable(E), NEW s \in Seq(E), NEW exchanged \in BOOLEAN
  PROVE  LET d == DataType(s, exchanged) IN
         /\ d.categories = {m[3] : m \in Range(s)}
         /\ Range(d.sources) = Range(s)
         /\ \E o \in [1 .. Len(s) -> 1 .. Len(s)] :
              /\ d.sources = [k \in 1 .. Len(s) |-> s[o[k]]]
              /\ \A j, k \in 1 .. Len(s) : j < k => StaysBefore(s, o[j], o[k], exchanged)
<1> DEFINE n == Len(s)
           D == 1 .. n
           R == {e \in D \X D : StaysBefore(s, e[1], e[2], exchanged)}
           o == Sorted(D, R)
<1>1. n \in Nat /\ DOMAIN s = D /\ IsFiniteSet(D) /\ Cardinality(D) = n
  <2>1. n \in Nat /\ DOMAIN s = D
    BY LenProperties
  <2> HIDE DEF n
  <2>2. IsFiniteSet(1 .. n) /\ Cardinality(1 .. n) = n
    BY <2>1, FS_Interval
  <2> QED BY <2>1, <2>2
<1>2. \A i \in D : s[i][1] \in Int /\ s[i][2] \in Int
  BY ElementOfSeq DEF Sortable
<1>3. \A i, j \in D : <<i, j>> \in R <=> StaysBefore(s, i, j, exchanged)
  OBVIOUS
<1>4. /\ \A i \in D : ~StaysBefore(s, i, i, exchanged)
      /\ \A i, j, k \in D : StaysBefore(s, i, j, exchanged) /\ StaysBefore(s, j, k, exchanged) => StaysBefore(s, i, k, exchanged)
      /\ \A i, j \in D : i # j => StaysBefore(s, i, j, exchanged) \/ StaysBefore(s, j, i, exchanged)
  <2>1. ASSUME NEW i \in D PROVE ~StaysBefore(s, i, i, exchanged)
    BY <1>1, <1>2 DEF StaysBefore, SortsBefore
  <2>2. ASSUME NEW i \in D, NEW j \in D, i # j
        PROVE  StaysBefore(s, i, j, exchanged) \/ StaysBefore(s, j, i, exchanged)
    BY <1>1, <1>2, <2>2 DEF StaysBefore, SortsBefore
  <2>3. ASSUME NEW i \in D, NEW j \in D, NEW k \in D, StaysBefore(s, i, j, exchanged), StaysBefore(s, j, k, exchanged)
        PROVE  StaysBefore(s, i, k, exchanged)
    <3> DEFINE i1 == s[i][1]
               i2 == s[i][2]
               j1 == s[j][1]
               j2 == s[j][2]
               k1 == s[k][1]
               k2 == s[k][2]
    <3>1. /\ i1 \in Int /\ j1 \in Int /\ k1 \in Int
          /\ i2 \in Int /\ j2 \in Int /\ k2 \in Int
      BY <1>2
    <3>2. i \in Int /\ j \in Int /\ k \in Int
      BY <1>1
    <3> HIDE DEF D
    <3>3. /\ \/ i1 < j1 \/ (i1 = j1 /\ i2 < j2)
             \/ ~(j1 < i1 \/ (j1 = i1 /\ j2 < i2)) /\ (IF exchanged THEN j < i ELSE i < j)
          /\ \/ j1 < k1 \/ (j1 = k1 /\ j2 < k2)
             \/ ~(k1 < j1 \/ (k1 = j1 /\ k2 < j2)) /\ (IF exchanged THEN k < j ELSE j < k)
      BY <2>3 DEF StaysBefore, SortsBefore
    <3> HIDE DEF i1, i2, j1, j2, k1, k2
    <3>4. \/ i1 < k1 \/ (i1 = k1 /\ i2 < k2)
          \/ ~(k1 < i1 \/ (k1 = i1 /\ k2 < i2)) /\ (IF exchanged THEN k < i ELSE i < k)
      BY <3>1, <3>2, <3>3
    <3> QED BY <3>4 DEF StaysBefore, SortsBefore, i1, i2, k1, k2
  <2> QED BY <2>1, <2>2, <2>3
<1> HIDE DEF R
<1>5. /\ o \in [1 .. n -> D]
      /\ \A x \in D : \E k \in 1 .. n : o[k] = x
      /\ \A j, k \in 1 .. n : j < k => <<o[j], o[k]>> \in R
  <2>1. /\ \A x \in D : <<x, x>> \notin R
        /\ \A x, y, z \in D : <<x, y>> \in R /\ <<y, z>> \in R => <<x, z>> \in R
        /\ \A x, y \in D : x # y => <<x, y>> \in R \/ <<y, x>> \in R
    BY <1>3, <1>4
  <2>0. IsFiniteSet(D)
    BY <1>1
  <2> HIDE DEF D
  <2>2. /\ o \in [1 .. Cardinality(D) -> D]
        /\ \A x \in D : \E k \in 1 .. Cardinality(D) : o[k] = x
        /\ \A j, k \in 1 .. Cardinality(D) : j < k => <<o[j], o[k]>> \in R
    BY <2>0, <2>1, SortedLists
  <2> QED BY <1>1, <2>2
<1>6. DataType(s, exchanged) = [categories |-> {m[3] : m \in Range(s)},
                     sources |-> [k \in DOMAIN o |-> s[o[k]]]]
  BY <1>1 DEF DataType, R
<1> HIDE DEF o
<1>7. DOMAIN o = D
  BY <1>5
<1>8. \A j, k \in 1 .. n : j < k => StaysBefore(s, o[j], o[k], exchanged)
  BY <1>3, <1>5
<1>9. Range([k \in D |-> s[o[k]]]) = Range(s)
  <2>1. \A m : m \in Range(s) => m \in Range([k \in D |-> s[o[k]]])
    BY <1>1, <1>5 DEF Range
  <2>2. \A m : m \in Range([k \in D |-> s[o[k]]]) => m \in Range(s)
    BY <1>1, <1>5 DEF Range
  <2> QED BY <2>1, <2>2
<1> HIDE DEF D, n
<1>10. /\ DataType(s, exchanged).categories = {m[3] : m \in Range(s)}
       /\ DataType(s, exchanged).sources = [k \in D |-> s[o[k]]]
  BY <1>6, <1>7
<1> QED BY <1>5, <1>8, <1>9, <1>10 DEF D, n

\* r is the record that is written for p.
WrittenFor(r, t, p, exchanged) ==
  \E x \in BOOLEAN : (x => p \in exchanged) /\ r = DataType(t[p], x)

\* The build loop leaves every address with the record of the narrowest
\* network of the table that covers it, and reserved ones with none.
LEMMA InsertFacts ==
  ASSUME NEW t, NEW order \in InsertOrders(t), NEW exchanged, NEW a \in Addr
  PROVE  \/ /\ a \in Reserved \/ \A q \in Networks(t) : a \notin Covers[q]
            /\ Insert(t, order, exchanged)[a] = DataType(<< >>, FALSE)
         \/ \E p \in Networks(t) :
              /\ a \notin Reserved /\ a \in Covers[p]
              /\ \A q \in Networks(t) : a \in Covers[q] => Covers[p] \subseteq Covers[q]
              /\ WrittenFor(Insert(t, order, exchanged)[a], t, p, exchanged)
<1>1. Networks(t) \in SUBSET Stored /\ IsFiniteSet(Networks(t))
  <2>1. Networks(t) \in SUBSET Stored
    BY DEF Networks
  <2> QED BY <2>1, StoredFinite, FS_Subset
<1>2. /\ order \in [1 .. Len(order) -> Networks(t)] /\ Len(order) \in Nat
      /\ \A p \in Networks(t) : \E k \in 1 .. Len(order) : order[k] = p
  BY <1>1, ListingFacts DEF InsertOrders, Orders
<1>3. \A i, j \in 1 .. Len(order) : i < j => ~(Covers[order[i]] \subseteq Covers[order[j]])
  BY <1>2 DEF InsertOrders
<1> DEFINE covering == {i \in DOMAIN order : a \in Covers[order[i]] \ Reserved}
<1>4. Insert(t, order, exchanged)[a]
        = IF covering = {} THEN DataType(<< >>, FALSE)
          ELSE LET p == order[Max(covering)] IN DataType(t[p], p \in exchanged)
  BY DEF Insert
<1>5. CASE covering = {}
  <2>1. a \in Reserved \/ \A q \in Networks(t) : a \notin Covers[q]
    BY <1>2, <1>5
  <2> QED BY <1>4, <1>5, <2>1
<1>6. CASE covering # {}
  <2> DEFINE k == Max(covering)
             p == order[k]
             x == p \in exchanged
  <2>1. covering \in SUBSET (1 .. Len(order))
    BY <1>2
  <2>2. k \in covering /\ \A i \in covering : i <= k
    <3> HIDE DEF covering
    <3> QED BY <1>2, <1>6, <2>1, MaxFacts
  <2>6. Insert(t, order, exchanged)[a] = DataType(t[p], p \in exchanged)
    BY <1>4, <1>6
  <2>7. x \in BOOLEAN /\ (x => p \in exchanged)
    OBVIOUS
  <2>8. Insert(t, order, exchanged)[a] = DataType(t[p], x)
    BY <2>6
  <2> HIDE DEF k, x
  <2>3. WrittenFor(Insert(t, order, exchanged)[a], t, p, exchanged)
    BY <2>7, <2>8 DEF WrittenFor
  <2>4. p \in Networks(t) /\ a \in Covers[p] /\ a \notin Reserved /\ k \in 1 .. Len(order)
    BY <1>2, <2>2
  <2>5. ASSUME NEW q \in Networks(t), a \in Covers[q]
        PROVE  Covers[p] \subseteq Covers[q]
    <3>1. PICK i \in 1 .. Len(order) : order[i] = q
      BY <1>2
    <3>2. i \in covering /\ i <= k
      BY <1>2, <2>2, <2>4, <2>5, <3>1
    <3>3. CASE i = k
      BY <3>1, <3>3
    <3>4. CASE i # k
      <4>1. i < k
        BY <1>2, <2>4, <3>2, <3>4
      <4>2. ~(Covers[q] \subseteq Covers[p])
        BY <1>3, <2>4, <3>1, <4>1
      <4>3. p \in Stored /\ q \in Stored /\ Covers[p] \cap Covers[q] # {}
        BY <1>1, <2>4, <2>5
      <4> QED BY <4>2, <4>3, PrefixAssumption DEF PrefixAssumption
    <3> QED BY <3>3, <3>4
  <2> HIDE DEF p
  <2> QED BY <2>3, <2>4, <2>5
<1> QED BY <1>5, <1>6

\* What all networks say that are as broad as p, when found says it of each ...
Wider(found, p) == UNION {found[q] : q \in {r \in Stored : Covers[p] \subseteq Covers[r]}}

\* ... and what all networks say that cover an address.
SaidOf(found, a) ==
  IF a \in Reserved THEN {} ELSE UNION {found[q] : q \in {r \in Stored : a \in Covers[r]}}

\* What the tree says of an address once the merged table is in it.
LEMMA OutputFacts ==
  ASSUME NEW E, Sortable(E), NEW t \in Tables(E), NEW found,
         \A p \in Stored : found[p] # {} => p \in Networks(t),
         \A p \in Networks(t) : Range(t[p]) = Wider(found, p),
         NEW order \in InsertOrders(t), NEW exchanged, NEW a \in Addr
  PROVE  /\ Range(Insert(t, order, exchanged)[a].sources) = SaidOf(found, a)
         /\ Insert(t, order, exchanged)[a].categories = {m[3] : m \in SaidOf(found, a)}
<1> DEFINE said == SaidOf(found, a)
           record == Insert(t, order, exchanged)[a]
<1>1. CASE /\ a \in Reserved \/ \A q \in Networks(t) : a \notin Covers[q]
           /\ record = DataType(<< >>, FALSE)
  <2>1. << >> \in Seq(E) /\ Range(<< >>) = {}
    BY EmptySeq DEF Range
  <2> HIDE DEF record
  <2>2. Range(record.sources) = {} /\ record.categories = {m[3] : m \in {}}
    BY <1>1, <2>1, DataTypeFacts
  <2>3. said = {}
    BY <1>1 DEF SaidOf
  <2> QED BY <2>2, <2>3 DEF record
<1>2. CASE \E p \in Networks(t) :
             /\ a \notin Reserved /\ a \in Covers[p]
             /\ \A q \in Networks(t) : a \in Covers[q] => Covers[p] \subseteq Covers[q]
             /\ WrittenFor(record, t, p, exchanged)
  <2>1. PICK p \in Networks(t) :
             /\ a \notin Reserved /\ a \in Covers[p]
             /\ \A q \in Networks(t) : a \in Covers[q] => Covers[p] \subseteq Covers[q]
             /\ WrittenFor(record, t, p, exchanged)
    BY <1>2
  <2> HIDE DEF record
  <2> DEFINE s == t[p]
  <2>5. PICK x \in BOOLEAN : record = DataType(s, x)
    BY <2>1 DEF WrittenFor
  <2>2. s \in Seq(E) /\ record = DataType(s, x) /\ p \in Stored
    BY <2>1, <2>5 DEF Tables, Networks
  <2>3. Range(s) = said
    <3>1. \A q \in Stored : found[q] # {} => (Covers[p] \subseteq Covers[q] <=> a \in Covers[q])
      BY <2>1
    <3>2. Range(s) = UNION {found[q] : q \in {r \in Stored : Covers[p] \subseteq Covers[r]}}
      BY <2>1 DEF Wider
    <3>3. said = UNION {found[q] : q \in {r \in Stored : a \in Covers[r]}}
      BY <2>1 DEF SaidOf
    <3> HIDE DEF said, s
    <3>4. \A m : m \in Range(s) <=> m \in said
      BY <3>1, <3>2, <3>3
    <3> QED BY <3>4
  <2> HIDE DEF s, said
  <2>4. Range(record.sources) = Range(s) /\ record.categories = {m[3] : m \in Range(s)}
    BY <2>2, DataTypeFacts
  <2> QED BY <2>3, <2>4 DEF record, said
<1>3. \/ /\ a \in Reserved \/ \A q \in Networks(t) : a \notin Covers[q]
         /\ record = DataType(<< >>, FALSE)
      \/ \E p \in Networks(t) :
           /\ a \notin Reserved /\ a \in Covers[p]
           /\ \A q \in Networks(t) : a \in Covers[q] => Covers[p] \subseteq Covers[q]
           /\ WrittenFor(record, t, p, exchanged)
  BY InsertFacts
<1> QED BY <1>1, <1>2, <1>3

-----------------------------------------------------------------------------
(* What the parsers read of what the sources publish *)

\* A token that spells a network gives just that network, and a word none.
LEMMA Tokens ==
  ASSUME NEW S
  PROVE  /\ \A t \in Spelled(S) : ParsePrefixField(t) \subseteq S
         /\ \A t \in Spelled(S) : t # Hash /\ t # Junk /\ t # Word("ExitAddress")
         /\ \A p \in S : \E t \in Spelled(S) : p \in ParsePrefixField(t)
<1>1. ASSUME NEW p PROVE ParsePrefixField(CIDR(p)) = {p} /\ ParsePrefixField(Bare(p)) = {p}
  BY DEF ParsePrefixField, ParsePrefix, ParseAddr, CIDR, Bare
<1>2. ASSUME NEW p, NEW w PROVE CIDR(p) # Word(w) /\ Bare(p) # Word(w)
  BY DEF CIDR, Bare, Word
<1>3. ASSUME NEW t \in Spelled(S) PROVE \E p \in S : t = CIDR(p) \/ t = Bare(p)
  BY <1>3 DEF Spelled, CIDRs
<1>4. ASSUME NEW t \in Spelled(S)
      PROVE  ParsePrefixField(t) \subseteq S /\ t # Hash /\ t # Junk /\ t # Word("ExitAddress")
  BY <1>1, <1>2, <1>3, <1>4 DEF Hash, Junk
<1>5. ASSUME NEW p \in S PROVE CIDR(p) \in Spelled(S) \/ Bare(p) \in Spelled(S)
  BY DEF Spelled, CIDRs
<1> QED BY <1>1, <1>4, <1>5

\* A word that is no address gives none, and words differ.
LEMMA Words ==
  /\ ParsePrefixField(Junk) = {} /\ ParsePrefixField(Hash) = {}
  /\ ParsePrefixField(Word("ExitAddress")) = {}
  /\ Junk # Hash /\ Junk # Word("ExitAddress") /\ Hash # Word("ExitAddress")
  BY DEF ParsePrefixField, ParsePrefix, ParseAddr, Word, Hash, Junk

\* What is found at one place of all lines.
LEMMA Fields ==
  ASSUME NEW lines, NEW n, NEW S,
         \A l \in lines : n \in DOMAIN l => ParsePrefixField(l[n]) \subseteq S,
         \A p \in S : \E l \in lines : n \in DOMAIN l /\ p \in ParsePrefixField(l[n])
  PROVE  Field(lines, n) = S
<1>1. \A x : x \in Field(lines, n) <=> \E l \in lines : n \in DOMAIN l /\ x \in ParsePrefixField(l[n])
  BY DEF Field
<1>2. \A x : x \in Field(lines, n) <=> x \in S
  BY <1>1
<1> QED BY <1>2

\* parseIPLines takes whole lines, up to a comment.
LEMMA ReadIPLines ==
  ASSUME NEW S, S \subseteq Prefix
  PROVE  Read("parseIPLines", S) = S
<1> DEFINE lines == Text("parseIPLines", S)
           kept == {l \in lines : Len(l) > 1 => l[2] = Hash}
<1>1. Read("parseIPLines", S) = Field(kept, 1)
  BY DEF Read, Parse, Document, LineFormats, ParseIPLines
<1>2. lines = {<< >>, <<Junk>>} \cup {<<Hash, t>> : t \in Spelled(Prefix)}
                \cup {<<t, Junk>> : t \in Spelled(Prefix)}
                \cup UNION {{<<t>>, <<t, Hash, Junk>>} : t \in Spelled(S)}
  BY DEF Text, Blank, Line
<1>3. ASSUME NEW l \in kept, 1 \in DOMAIN l PROVE ParsePrefixField(l[1]) \subseteq S
  BY <1>2, <1>3, Tokens, Words
<1>4. ASSUME NEW p \in S PROVE \E l \in kept : 1 \in DOMAIN l /\ p \in ParsePrefixField(l[1])
  <2>1. PICK t \in Spelled(S) : p \in ParsePrefixField(t)
    BY Tokens
  <2>2. <<t>> \in kept
    BY <1>2
  <2> QED BY <2>1, <2>2
<1> HIDE DEF kept
<1>5. Field(kept, 1) = S
  BY <1>3, <1>4, Fields
<1> QED BY <1>1, <1>5

\* Three parsers take the first field of a line.
LEMMA ReadFirstField ==
  ASSUME NEW format \in {"parseCSVFirstField", "parseColonHost", "parseRBLDNSD"},
         NEW S, S \subseteq Prefix
  PROVE  Read(format, S) = S
<1> DEFINE kept == Uncommented(Text(format, S))
<1>1. Read(format, S) = Field(kept, 1)
  BY DEF Read, Parse, Document, LineFormats, ParseCSVFirstField, ParseColonHost, ParseRBLDNSD
<1>2. Text(format, S) = {<< >>, <<Junk>>} \cup {<<Hash, t>> : t \in Spelled(Prefix)}
                          \cup {<<Junk, t>> : t \in Spelled(Prefix)}
                          \cup UNION {Line(format, t) : t \in Spelled(S)}
  BY DEF Text, Blank
<1>3. \A t : <<t, Junk>> \in Line(format, t) /\ \A l \in Line(format, t) : l[1] = t
  BY DEF Line
<1>4. ASSUME NEW l \in kept, 1 \in DOMAIN l PROVE ParsePrefixField(l[1]) \subseteq S
  <2>1. l[1] # Hash
    BY <1>4 DEF Uncommented
  <2>2. CASE \E t \in Spelled(S) : l \in Line(format, t)
    BY <2>2, <1>3, Tokens
  <2>3. CASE l[1] = Junk
    BY <2>3, Words
  <2>4. l # << >>
    BY <1>4
  <2>5. l \in Text(format, S)
    BY DEF Uncommented
  <2>6. \/ l[1] = Junk \/ l[1] = Hash
        \/ \E t \in Spelled(S) : l \in Line(format, t)
    <3> DEFINE listed == UNION {Line(format, t) : t \in Spelled(S)}
    <3>1. l \in listed => \E t \in Spelled(S) : l \in Line(format, t)
      OBVIOUS
    <3> HIDE DEF listed
    <3> QED BY <1>2, <2>4, <2>5, <3>1 DEF listed
  <2> QED BY <2>1, <2>2, <2>3, <2>6
<1>5. ASSUME NEW p \in S PROVE \E l \in kept : 1 \in DOMAIN l /\ p \in ParsePrefixField(l[1])
  <2>1. PICK t \in Spelled(S) : p \in ParsePrefixField(t)
    BY Tokens
  <2>2. <<t, Junk>> \in kept
    BY <1>2, <1>3, Tokens DEF Uncommented
  <2> QED BY <2>1, <2>2
<1> HIDE DEF kept
<1>6. Field(kept, 1) = S
  BY <1>4, <1>5, Fields
<1> QED BY <1>1, <1>6

\* parseCSVSecondField takes the second.
LEMMA ReadCSVSecond ==
  ASSUME NEW S, S \subseteq Prefix
  PROVE  Read("parseCSVSecondField", S) = S
<1> DEFINE lines == Text("parseCSVSecondField", S)
           kept == Uncommented(lines)
<1>1. Read("parseCSVSecondField", S) = Field(kept, 2)
  BY DEF Read, Parse, Document, LineFormats, ParseCSVSecondField
<1>2. lines = {<< >>, <<Junk>>} \cup {<<Hash, t>> : t \in Spelled(Prefix)}
                \cup {<<t, Junk>> : t \in Spelled(Prefix)}
                \cup UNION {{<<Junk, t, Junk>>} : t \in Spelled(S)}
  BY DEF Text, Blank, Line
<1>3. ASSUME NEW l \in kept, 2 \in DOMAIN l PROVE ParsePrefixField(l[2]) \subseteq S
  BY <1>2, <1>3, Tokens, Words DEF Uncommented
<1>4. ASSUME NEW p \in S PROVE \E l \in kept : 2 \in DOMAIN l /\ p \in ParsePrefixField(l[2])
  <2>1. PICK t \in Spelled(S) : p \in ParsePrefixField(t)
    BY Tokens
  <2>2. <<Junk, t, Junk>> \in kept
    BY <1>2, Tokens, Words DEF Uncommented
  <2> QED BY <2>1, <2>2
<1> HIDE DEF kept
<1>5. Field(kept, 2) = S
  BY <1>3, <1>4, Fields
<1> QED BY <1>1, <1>5

\* parseTorExitAddresses takes what follows its key word.
LEMMA ReadTor ==
  ASSUME NEW S, S \subseteq Prefix
  PROVE  Read("parseTorExitAddresses", S) = S
<1> DEFINE lines == Text("parseTorExitAddresses", S)
           kept == {l \in lines : l # << >> /\ l[1] = Word("ExitAddress")}
<1>1. Read("parseTorExitAddresses", S) = Field(kept, 2)
  BY DEF Read, Parse, Document, LineFormats, ParseTorExitAddresses
<1>2. lines = {<< >>, <<Junk>>} \cup {<<Hash, t>> : t \in Spelled(Prefix)}
                \cup {<<Junk, t>> : t \in Spelled(Prefix)}
                \cup UNION {{<<Word("ExitAddress"), t, Junk>>} : t \in Spelled(S)}
  BY DEF Text, Blank, Line
<1>3. ASSUME NEW l \in kept, 2 \in DOMAIN l PROVE ParsePrefixField(l[2]) \subseteq S
  BY <1>2, <1>3, Tokens, Words
<1>4. ASSUME NEW p \in S PROVE \E l \in kept : 2 \in DOMAIN l /\ p \in ParsePrefixField(l[2])
  <2>1. PICK t \in Spelled(S) : p \in ParsePrefixField(t)
    BY Tokens
  <2>2. <<Word("ExitAddress"), t, Junk>> \in kept
    BY <1>2, Tokens, Words
  <2> QED BY <2>1, <2>2
<1> HIDE DEF kept
<1>5. Field(kept, 2) = S
  BY <1>3, <1>4, Fields
<1> QED BY <1>1, <1>5

\* parseProxyURLs takes the host of a URL that is an address.
LEMMA ReadProxyURLs ==
  ASSUME NEW S, S \subseteq Hosts
  PROVE  Read("parseProxyURLs", S) = S
<1> DEFINE lines == Text("parseProxyURLs", S)
           kept == {k \in Uncommented(lines) : Len(k) > 1}
<1>1. Read("parseProxyURLs", S) = UNION {ParseAddr(l[2]) : l \in kept}
  BY DEF Read, Parse, Document, LineFormats, ParseProxyURLs
<1>2. lines = {<< >>, <<Junk>>} \cup {<<Hash, t>> : t \in Spelled(Prefix)}
                \cup {<<t, Junk>> : t \in Spelled(Prefix)}
                \cup UNION {{<<Junk, t, Junk>>, <<Junk, t, Junk, Hash, Junk>>} : t \in Spelled(S)}
  BY DEF Text, Blank, Line
<1>3. \A t : ParseAddr(t) \subseteq ParsePrefixField(t)
  BY DEF ParsePrefixField
<1>4. ASSUME NEW l \in kept PROVE ParseAddr(l[2]) \subseteq S
  BY <1>2, <1>3, Tokens, Words DEF Uncommented
<1>5. ASSUME NEW p \in S PROVE \E l \in kept : p \in ParseAddr(l[2])
  <2>1. Bare(p) \in Spelled(S) /\ p \in ParseAddr(Bare(p))
    BY DEF Spelled, ParseAddr, Bare
  <2>2. <<Junk, Bare(p), Junk>> \in kept
    BY <1>2, <2>1, Words DEF Uncommented
  <2> QED BY <2>1, <2>2
<1> HIDE DEF kept
<1>6. \A x : x \in UNION {ParseAddr(l[2]) : l \in kept} <=> x \in S
  BY <1>4, <1>5
<1>7. UNION {ParseAddr(l[2]) : l \in kept} = S
  BY <1>6
<1> QED BY <1>1, <1>7

\* What is found in the entries that carry given tokens.
LEMMA Entries ==
  ASSUME NEW entries, NEW tokens,
         \A e \in entries : e[1] \in tokens, \A t \in tokens : \E e \in entries : e[1] = t
  PROVE  UNION {ParsePrefixField(e[1]) : e \in entries} = UNION {ParsePrefixField(t) : t \in tokens}
<1>1. \A x : x \in UNION {ParsePrefixField(e[1]) : e \in entries}
            <=> x \in UNION {ParsePrefixField(t) : t \in tokens}
  OBVIOUS
<1> QED BY <1>1

\* Networks that are spelled among words are those that are found.
LEMMA SpelledNetworks ==
  ASSUME NEW S
  PROVE  UNION {ParsePrefixField(t) : t \in Spelled(S) \cup {Junk}} = S
<1>1. \A x : x \in UNION {ParsePrefixField(t) : t \in Spelled(S) \cup {Junk}} <=> x \in S
  BY Tokens, Words
<1> QED BY <1>1

\* parseGoogleStyleJSON takes the prefixes of both families.
LEMMA ReadGoogleStyle ==
  ASSUME NEW S, S \subseteq Prefix
  PROVE  Read("parseGoogleStyleJSON", S) = S
<1> DEFINE four == CIDRs(S \ IPv6(S))
           six == CIDRs(IPv6(S))
           entries == {[ipv4Prefix |-> c, ipv6Prefix |-> Word("")] : c \in four \cup {Word("")}}
                        \cup {[ipv4Prefix |-> Word(""), ipv6Prefix |-> c] : c \in six}
           raw(e) == IF e.ipv4Prefix = Word("") THEN e.ipv6Prefix ELSE e.ipv4Prefix
<1>1. Read("parseGoogleStyleJSON", S) = UNION {ParsePrefix(raw(e)) : e \in entries}
  BY DEF Read, Parse, Document, LineFormats, JSON, ParseGoogleStyleJSON
<1>2. \A p : ParsePrefix(CIDR(p)) = {p} /\ CIDR(p) # Word("")
  BY DEF ParsePrefix, CIDR, Word
<1>3. ParsePrefix(Word("")) = {}
  BY DEF ParsePrefix, Word
<1>4. \A c \in four \cup six : \E p \in S : c = CIDR(p)
  BY DEF CIDRs, IPv6
<1>5. ASSUME NEW e \in entries PROVE ParsePrefix(raw(e)) \subseteq S
  <2>1. PICK c \in four \cup six \cup {Word("")} :
          \/ e = [ipv4Prefix |-> c, ipv6Prefix |-> Word("")]
          \/ e = [ipv4Prefix |-> Word(""), ipv6Prefix |-> c]
    OBVIOUS
  <2>2. raw(e) = c
    <3> DEFINE w == Word("")
    <3> HIDE DEF entries, four, six, w
    <3>1. CASE e = [ipv4Prefix |-> c, ipv6Prefix |-> w]
      <4>1. e.ipv4Prefix = c /\ e.ipv6Prefix = w
        BY <3>1
      <4> QED BY <4>1 DEF w
    <3>2. CASE e = [ipv4Prefix |-> w, ipv6Prefix |-> c]
      <4>1. e.ipv4Prefix = w /\ e.ipv6Prefix = c
        BY <3>2
      <4> QED BY <4>1 DEF w
    <3> QED BY <2>1, <3>1, <3>2 DEF w
  <2>3. c = Word("") \/ \E p \in S : c = CIDR(p)
    BY <1>4
  <2> HIDE DEF raw
  <2> QED BY <2>2, <2>3, <1>2, <1>3
<1>6. ASSUME NEW p \in S PROVE \E e \in entries : p \in ParsePrefix(raw(e))
  <2>1. CASE p \in IPv6(S)
    <3> DEFINE e == [ipv4Prefix |-> Word(""), ipv6Prefix |-> CIDR(p)]
    <3>1. e \in entries
      BY <2>1 DEF CIDRs
    <3>2. raw(e) = CIDR(p)
      OBVIOUS
    <3> QED BY <3>1, <3>2, <1>2
  <2>2. CASE p \notin IPv6(S)
    <3> DEFINE e == [ipv4Prefix |-> CIDR(p), ipv6Prefix |-> Word("")]
    <3>1. e \in entries
      BY <2>2 DEF CIDRs
    <3>2. raw(e) = CIDR(p)
      BY <1>2
    <3> QED BY <3>1, <3>2, <1>2
  <2> QED BY <2>1, <2>2
<1> HIDE DEF entries, raw
<1>7. \A x : x \in UNION {ParsePrefix(raw(e)) : e \in entries} <=> x \in S
  BY <1>5, <1>6
<1>8. UNION {ParsePrefix(raw(e)) : e \in entries} = S
  BY <1>7
<1> QED BY <1>1, <1>8

\* So does parseAWSJSON, from a list for each.
LEMMA ReadAWS ==
  ASSUME NEW S, S \subseteq Prefix
  PROVE  Read("parseAWSJSON", S) = S
<1> DEFINE tokens == CIDRs(S \ IPv6(S)) \cup {Junk} \cup CIDRs(IPv6(S))
<1>1. Read("parseAWSJSON", S) = UNION {ParsePrefix(c) : c \in tokens}
  BY DEF Read, Parse, Document, LineFormats, JSON, ParseAWSJSON
<1>2. tokens = CIDRs(S) \cup {Junk}
  BY DEF CIDRs, IPv6
<1>3. (\A p : ParsePrefix(CIDR(p)) = {p}) /\ ParsePrefix(Junk) = {}
  BY DEF ParsePrefix, CIDR, Word, Junk
<1>4. \A x : x \in UNION {ParsePrefix(c) : c \in CIDRs(S) \cup {Junk}} <=> x \in S
  BY <1>3 DEF CIDRs
<1>5. UNION {ParsePrefix(c) : c \in CIDRs(S) \cup {Junk}} = S
  BY <1>4
<1> QED BY <1>1, <1>2, <1>5

\* The other JSON parsers take addresses and prefixes alike.
LEMMA ReadTokens ==
  ASSUME NEW S, S \subseteq Prefix,
         NEW format \in {"parseOracleJSON", "parseAzureJSON", "parseGitHubActions",
                         "parseGitHubMetaKey", "parseIPAddressJSON"}
  PROVE  Read(format, S) = S
<1> DEFINE tokens == Spelled(S) \cup {Junk}
           found == UNION {ParsePrefixField(t) : t \in tokens}
<1>1. CASE format \in {"parseOracleJSON", "parseAzureJSON"}
  <2>1. Read(format, S) = UNION {ParsePrefixField(c) : c \in UNION ({{t} : t \in tokens} \cup {{}})}
    BY <1>1 DEF Read, Parse, Document, LineFormats, JSON, ParseNestedJSON
  <2>2. UNION ({{t} : t \in tokens} \cup {{}}) = tokens
    OBVIOUS
  <2> QED BY <2>1, <2>2, SpelledNetworks
<1>2. CASE format = "parseGitHubActions"
  <2> DEFINE entries == {<<t, "actions">> : t \in tokens} \cup {<<t, "web">> : t \in Spelled(Prefix)}
             kept == {e \in entries : e[2] = "actions"}
  <2>1. Read(format, S) = UNION {ParsePrefixField(e[1]) : e \in kept}
    BY <1>2 DEF Read, Parse, Document, LineFormats, JSON, ParseGitHubActions, ParseIPAddressJSON
  <2>2. \A e \in kept : e[1] \in tokens
    OBVIOUS
  <2>3. ASSUME NEW t \in tokens PROVE \E e \in kept : e[1] = t
    <3>1. <<t, "actions">> \in kept
      OBVIOUS
    <3> QED BY <3>1
  <2> HIDE DEF kept, tokens
  <2>4. UNION {ParsePrefixField(e[1]) : e \in kept} = found
    BY <2>2, <2>3, Entries
  <2> QED BY <2>1, <2>4, SpelledNetworks DEF tokens
<1>3. CASE format = "parseGitHubMetaKey"
  <2>1. Read(format, S) = found
    BY <1>3 DEF Read, Parse, Document, LineFormats, JSON, ParseGitHubMeta
  <2> QED BY <2>1, SpelledNetworks
<1>4. CASE format = "parseIPAddressJSON"
  <2> DEFINE entries == {<<t, "IPv4">> : t \in tokens}
  <2>1. Read(format, S) = UNION {ParsePrefixField(e[1]) : e \in entries}
    BY <1>4 DEF Read, Parse, Document, LineFormats, JSON, ParseIPAddressJSON
  <2>2. \A e \in entries : e[1] \in tokens
    OBVIOUS
  <2>3. ASSUME NEW t \in tokens PROVE \E e \in entries : e[1] = t
    <3>1. <<t, "IPv4">> \in entries
      OBVIOUS
    <3> QED BY <3>1
  <2> HIDE DEF entries, tokens
  <2>4. UNION {ParsePrefixField(e[1]) : e \in entries} = found
    BY <2>2, <2>3, Entries
  <2> QED BY <2>1, <2>4, SpelledNetworks DEF tokens
<1> QED BY <1>1, <1>2, <1>3, <1>4

\* Every parser reads from a document of its format just the networks that it
\* lists (sources.go:1236-1654).
LEMMA ParsersRead ==
  ASSUME NEW format \in Formats, NEW S, S \subseteq Writable(format), ParsersAssumption
  PROVE  Read(format, S) = S
<1>1. S \subseteq Prefix
  BY DEF Writable, Formats, LineFormats, JSONFormats, ParsersAssumption, IPv6
<1>2. CASE format = "parseProxyURLs"
  BY <1>2, ReadProxyURLs DEF Writable
<1>3. CASE format = "parseIPLines"
  BY <1>1, <1>3, ReadIPLines
<1>4. CASE format \in {"parseCSVFirstField", "parseColonHost", "parseRBLDNSD"}
  BY <1>1, <1>4, ReadFirstField
<1>5. CASE format = "parseCSVSecondField"
  BY <1>1, <1>5, ReadCSVSecond
<1>6. CASE format = "parseTorExitAddresses"
  BY <1>1, <1>6, ReadTor
<1>7. CASE format = "parseGoogleStyleJSON"
  BY <1>1, <1>7, ReadGoogleStyle
<1>8. CASE format = "parseAWSJSON"
  BY <1>1, <1>8, ReadAWS
<1>9. CASE format \in {"parseOracleJSON", "parseAzureJSON", "parseGitHubActions",
                       "parseGitHubMetaKey", "parseIPAddressJSON"}
  BY <1>1, <1>9, ReadTokens
<1> QED
  BY <1>2, <1>3, <1>4, <1>5, <1>6, <1>7, <1>8, <1>9 DEF Formats, LineFormats, JSONFormats

\* regionGroupedParser finds for every region the networks it lists.
LEMMA ParsersGroup ==
  ASSUME NEW groups, NEW v \in DOMAIN groups
  PROVE  RegionGroup(RegionsDocument(groups), v) = groups[v]
<1> DEFINE region(w) == IF w = Global THEN << >> ELSE <<w>>
           tokens(w) == Spelled(groups[w]) \cup {Junk}
           doc == UNION {{<<t, region(w)>> : t \in tokens(w)} : w \in DOMAIN groups}
           kept == {e \in doc : Region(e) = v}
           found == UNION {ParsePrefixField(t) : t \in tokens(v)}
<1>1. RegionGroup(RegionsDocument(groups), v) = UNION {ParsePrefixField(e[1]) : e \in kept}
  BY DEF RegionGroup, RegionsDocument, ParseIPAddressJSON
<1>2. ASSUME NEW t, NEW w PROVE Region(<<t, region(w)>>) = w
  BY DEF Region
<1>3. ASSUME NEW e \in kept PROVE e[1] \in tokens(v)
  BY <1>2
<1>4. ASSUME NEW t \in tokens(v) PROVE <<t, region(v)>> \in kept
  BY <1>2
<1>5. \A t \in tokens(v) : \E e \in kept : e[1] = t
  BY <1>4
<1> DEFINE T == tokens(v)
<1> HIDE DEF kept, tokens
<1>6. UNION {ParsePrefixField(e[1]) : e \in kept} = found
  <2>1. \A e \in kept : e[1] \in T
    BY <1>3
  <2>2. \A t \in T : \E e \in kept : e[1] = t
    BY <1>5
  <2> HIDE DEF T
  <2>3. UNION {ParsePrefixField(e[1]) : e \in kept} = UNION {ParsePrefixField(t) : t \in T}
    BY <2>1, <2>2, Entries
  <2> QED BY <2>3 DEF T
<1> QED BY <1>1, <1>6, SpelledNetworks DEF tokens

-----------------------------------------------------------------------------
(* The sources, and what each says of a network *)

\* The sources are numbered, and so are lists and providers.
LEMMA Numbers ==
  /\ Len(RepoLists) \in Nat /\ Lists = 1 .. Len(RepoLists)
  /\ HttpList \in Nat /\ AS \in Nat /\ File \in Nat
  /\ HttpList \notin Lists /\ AS \notin Lists /\ File \notin Lists
  /\ HttpList # AS /\ HttpList # File /\ AS # File
  /\ MaxTime \in Nat /\ CacheMaxAge \in Nat \ {0} /\ None \notin Time
  /\ \A l \in Lists : RepoLists[l] \in Category
  /\ Range(ASCategories) \subseteq Category
<1>1. RepoLists \in Seq(Category) /\ ASCategories \in Seq(Category)
  BY MkDatabaseAssumption DEF MkDatabaseAssumption
<1>2. Len(RepoLists) \in Nat /\ Lists = 1 .. Len(RepoLists)
  BY <1>1, LenProperties DEF Lists
<1>3. \A l \in Lists : RepoLists[l] \in Category
  BY <1>1, <1>2, ElementOfSeq
<1>4. Range(ASCategories) \subseteq Category
  BY <1>1, LenProperties, ElementOfSeq DEF Range
<1>5. MaxTime \in Nat /\ CacheMaxAge \in Nat \ {0} /\ None \notin Time
  BY MkDatabaseAssumption DEF MkDatabaseAssumption
<1> QED BY <1>2, <1>3, <1>4, <1>5 DEF HttpList, AS, File

\* A membership of a source is one there may be, and memberships can be sorted.
LEMMA MembershipFacts ==
  /\ Sortable(Membership)
  /\ \A l \in Lists : <<l, 1, RepoLists[l]>> \in Membership
  /\ \A v \in HttpProviders : <<HttpList, v, HttpCategory>> \in Membership
  /\ \A c \in Category : <<AS, 1, c>> \in Membership
  /\ <<File, 1, FileCategory>> \in Membership
<1>1. HttpProviders \subseteq Nat /\ FileCategory \in Category
  BY MkDatabaseAssumption DEF MkDatabaseAssumption
<1>2. Sortable(Membership)
  <2> SUFFICES ASSUME NEW m \in Membership
               PROVE  m[1] \in Int /\ m[2] \in Int
    BY DEF Sortable
  <2>1. ASSUME NEW S, NEW T, NEW U, S \subseteq Int, T \subseteq Int, m \in S \X T \X U
        PROVE  m[1] \in Int /\ m[2] \in Int
    BY <2>1
  <2>2. Lists \subseteq Int /\ {HttpList} \subseteq Int /\ {AS, File} \subseteq Int
        /\ {1} \subseteq Int /\ HttpProviders \subseteq Int
    BY <1>1, Numbers
  <2>3. CASE m \in Lists \X {1} \X Category
    BY <2>1, <2>2, <2>3
  <2>4. CASE m \in {HttpList} \X HttpProviders \X {HttpCategory}
    BY <2>1, <2>2, <2>4
  <2>5. CASE m \in {AS, File} \X {1} \X Category
    BY <2>1, <2>2, <2>5
  <2> QED BY <2>3, <2>4, <2>5 DEF Membership
<1> QED BY <1>1, <1>2, Numbers DEF Membership

\* What the sources publish is well typed.
LEMMA PublishedFacts ==
  ASSUME NEW u \in Upstreams, NEW t \in Time, NEW key \in Keys
  PROVE  u[t][key] \in SUBSET Prefix
BY MkDatabaseAssumption DEF MkDatabaseAssumption

\* What one source says of a network, when u is what is published.
PartOf(u, selection, k, p, r, h, announced) ==
  IF k \in Lists
  THEN IF p \in Collapsed(u[r][<<k, 1>>]) /\ RepoLists[k] \in selection
       THEN {<<k, 1, RepoLists[k]>>} ELSE {}
  ELSE IF k = HttpList
  THEN IF HttpCategory \in selection
       THEN {<<HttpList, v, HttpCategory>> :
               v \in {w \in HttpProviders : p \in Collapsed(u[h][<<HttpList, w>>])}}
       ELSE {}
  ELSE IF k = AS
  THEN IF p \in Collapsed(announced)
       THEN {<<AS, 1, c>> : c \in Range(ASCategories) \cap selection} ELSE {}
  ELSE IF p \in Collapsed(u[0][<<File, 1>>]) /\ FileCategory \in selection
       THEN {<<File, 1, FileCategory>>} ELSE {}

\* What several sources say of it.
FoundIn(u, selection, folded, p, r, h, announced) ==
  UNION {PartOf(u, selection, k, p, r, h, announced) : k \in folded}

\* The numbers of all sources.
AllSources == Lists \cup {HttpList, AS, File}

\* What the invariant says a build has found, source by source.
LEMMA FoundParts ==
  ASSUME NEW b, NEW p, NEW r, NEW h, NEW announced
  PROVE  /\ Folded(b) \subseteq AllSources =>
              Found(b, p, r, h, announced)
                = FoundIn(upstream, cats[b], Folded(b), p, r, h, announced)
         /\ Folded(b)' \subseteq AllSources =>
              Found(b, p, r, h, announced)'
                = FoundIn(upstream', cats'[b], Folded(b)', p, r, h, announced)
<1> DEFINE on(networks) == p \in Collapsed(networks)
           Elements(u, sel, L) ==
             {m \in {<<l, 1, RepoLists[l]>> : l \in {k \in Lists : on(u[r][<<k, 1>>])}}
                \cup {<<HttpList, v, HttpCategory>> : v \in {w \in HttpProviders : on(u[h][<<HttpList, w>>])}}
                \cup (IF on(announced) THEN {<<AS, 1, c>> : c \in Range(ASCategories)} ELSE {})
                \cup (IF on(u[0][<<File, 1>>]) THEN {<<File, 1, FileCategory>>} ELSE {})
              : m[1] \in L /\ m[3] \in sel}
<1>1. ASSUME NEW u, NEW sel, NEW L \in SUBSET AllSources
      PROVE  Elements(u, sel, L) = FoundIn(u, sel, L, p, r, h, announced)
  <2>1. ASSUME NEW m, m \in Elements(u, sel, L)
        PROVE  m \in FoundIn(u, sel, L, p, r, h, announced)
    <3>1. m[1] \in L /\ m[3] \in sel
      BY <2>1
    <3>2. m \in PartOf(u, sel, m[1], p, r, h, announced)
      <4>1. CASE \E l \in Lists : m = <<l, 1, RepoLists[l]>> /\ on(u[r][<<l, 1>>])
        BY <3>1, <4>1 DEF PartOf
      <4>2. CASE \E v \in HttpProviders : m = <<HttpList, v, HttpCategory>> /\ on(u[h][<<HttpList, v>>])
        BY <3>1, <4>2, Numbers DEF PartOf
      <4>3. CASE on(announced) /\ \E c \in Range(ASCategories) : m = <<AS, 1, c>>
        BY <3>1, <4>3, Numbers DEF PartOf
      <4>4. CASE on(u[0][<<File, 1>>]) /\ m = <<File, 1, FileCategory>>
        BY <3>1, <4>4, Numbers DEF PartOf
      <4> QED BY <2>1, <4>1, <4>2, <4>3, <4>4
    <3> QED BY <3>1, <3>2 DEF FoundIn
  <2>2. ASSUME NEW m, NEW k \in L, m \in PartOf(u, sel, k, p, r, h, announced)
        PROVE  m \in Elements(u, sel, L)
    <3>1. CASE k \in Lists
      BY <2>2, <3>1 DEF PartOf
    <3>2. CASE k = HttpList
      <4>1. PICK v \in HttpProviders : /\ m = <<HttpList, v, HttpCategory>> /\ on(u[h][<<HttpList, v>>])
                                       /\ HttpCategory \in sel
        BY <2>2, <3>2, Numbers DEF PartOf
      <4>2. m[1] = HttpList /\ m[3] = HttpCategory
        BY <4>1
      <4> QED BY <3>2, <4>1, <4>2
    <3>3. CASE k = AS
      BY <2>2, <3>3, Numbers DEF PartOf
    <3>4. CASE k = File
      BY <2>2, <3>4, Numbers DEF PartOf
    <3> QED BY <3>1, <3>2, <3>3, <3>4 DEF AllSources
  <2> HIDE DEF Elements
  <2>3. \A m : m \in Elements(u, sel, L) <=> m \in FoundIn(u, sel, L, p, r, h, announced)
    BY <2>1, <2>2 DEF FoundIn
  <2> QED BY <2>3
<1>2. Found(b, p, r, h, announced) = Elements(upstream, cats[b], Folded(b))
  BY DEF Found, Memberships, Published
<1>3. Found(b, p, r, h, announced)' = Elements(upstream', cats'[b], Folded(b)')
  BY DEF Found, Memberships, Published
<1> HIDE DEF Elements
<1> QED BY <1>1, <1>2, <1>3

\* A list of one element.
LEMMA Single ==
  ASSUME NEW E, NEW m \in E
  PROVE  <<m>> \in Seq(E) /\ Range(<<m>>) = {m}
<1>1. <<m>> \in [1 .. 1 -> E]
  OBVIOUS
<1>2. <<m>> \in Seq(E)
  BY <1>1, SeqDef
<1>3. DOMAIN <<m>> = {1} /\ <<m>>[1] = m
  OBVIOUS
<1> HIDE DEF Range
<1>4. Range(<<m>>) = {m}
  BY <1>3 DEF Range
<1> QED BY <1>2, <1>4

\* The groups parsed from the body are those the list is published in.
LEMMA GroupFacts ==
  \A at : \A v \in HttpProviders : Group(v, at) = Published(<<HttpList, v>>, at)
<1> SUFFICES ASSUME NEW at, NEW v \in HttpProviders
             PROVE  Group(v, at) = Published(<<HttpList, v>>, at)
  OBVIOUS
<1> DEFINE groups == [w \in HttpProviders |-> Published(<<HttpList, w>>, at)]
<1>1. Group(v, at) = RegionGroup(RegionsDocument(groups), v)
  BY DEF Group, Body
<1>2. v \in DOMAIN groups /\ groups[v] = Published(<<HttpList, v>>, at)
  OBVIOUS
<1> HIDE DEF groups
<1> QED BY <1>1, <1>2, ParsersGroup

\* Folding the groups of the HTTP list, round by round.
LEMMA FoldGroupsUnfold ==
  ASSUME NEW t \in Tables(Membership), NEW at, NEW order \in Seq(HttpProviders)
  PROVE  \E g : /\ g[0] = t
                /\ \A n \in 1 .. Len(order) :
                     g[n] = Fold(g[n - 1], Published(<<HttpList, order[n]>>, at),
                                 <<<<HttpList, order[n], HttpCategory>>>>)
                /\ FoldGroups(t, at, order) = g[Len(order)]
<1> DEFINE N == Len(order)
           Q == Tables(Membership)
           One(s, n) == Fold(s, Group(order[n], at),
                             <<<<HttpList, order[n], HttpCategory>>>>)
           F == [n \in 1 .. N |-> [s \in Q |-> One(s, n)]]
           Step(g, n) == IF n = 0 THEN t ELSE One(g[n - 1], n)
           Rec(g) == g = [n \in 0 .. N |-> Step(g, n)]
<1>1. N \in Nat
  BY LenProperties
<1>2. ASSUME NEW n \in 1 .. N, NEW s \in Q
      PROVE  F[n][s] = One(s, n) /\ One(s, n) \in Q
  <2> DEFINE v == order[n]
             prefixes == Group(v, at)
             ms == <<<<HttpList, v, HttpCategory>>>>
  <2>1. v \in HttpProviders
    BY ElementOfSeq
  <2>2. F[n][s] = Fold(s, prefixes, ms) /\ One(s, n) = Fold(s, prefixes, ms)
    OBVIOUS
  <2> HIDE DEF v, F, One, prefixes
  <2>3. ms \in Seq(Membership)
    BY <2>1, MembershipFacts, Single
  <2> HIDE DEF ms
  <2>4. Fold(s, prefixes, ms) \in Q
    BY <2>3, FoldFacts
  <2> QED BY <2>2, <2>4
<1> HIDE DEF One
<1>3. PICK h : Rounds(h, Q, t, N, F)
  <2>1. t \in Q /\ \A n \in 1 .. N : \A x \in Q : F[n][x] \in Q
    BY <1>1, <1>2
  <2> HIDE DEF Q, F, N
  <2> QED BY <1>1, <2>1, RoundsExist
<1> HIDE DEF Q, F, N
<1>4. ASSUME NEW n \in 1 .. N
      PROVE  h[n] = One(h[n - 1], n)
  <2>1. n - 1 \in 0 .. N /\ h \in [0 .. N -> Q] /\ h[n] = F[n][h[n - 1]]
    BY <1>1, <1>3 DEF Rounds
  <2> QED BY <1>2, <2>1
<1>5. Rec(h)
  <2>1. \A n \in 0 .. N : h[n] = Step(h, n)
    BY <1>1, <1>3, <1>4 DEF Rounds
  <2> HIDE DEF Step
  <2> QED BY <1>3, <2>1 DEF Rounds
<1> DEFINE g == CHOOSE g : Rec(g)
<1>6. Rec(g)
  <2> HIDE DEF Rec
  <2> QED BY <1>5
<1>7. FoldGroups(t, at, order) = g[N]
  BY DEF FoldGroups, N, One
<1> HIDE DEF g
<1>8. \A n \in 0 .. N : g[n] = Step(g, n)
  <2> HIDE DEF Step
  <2> QED BY <1>6
<1>9. g[0] = t /\ \A n \in 1 .. N : g[n] = One(g[n - 1], n)
  BY <1>1, <1>8
<1>10. \A n \in 1 .. N : order[n] \in HttpProviders
  BY ElementOfSeq DEF N
<1> QED BY <1>7, <1>9, <1>10, GroupFacts DEF N, One

\* What the groups of the HTTP list said of network p at an instant.
Grouped(p, at) ==
  {<<HttpList, v, HttpCategory>> :
     v \in {w \in HttpProviders : p \in Collapsed(Published(<<HttpList, w>>, at))}}

\* All groups are folded, whatever the order.
LEMMA FoldGroupsFacts ==
  ASSUME NEW t \in Tables(Membership), NEW at, NEW order \in SetToSeqs(HttpProviders)
  PROVE  LET new == FoldGroups(t, at, order)
         IN  /\ new \in Tables(Membership)
             /\ \A p \in Stored : Range(new[p]) = Range(t[p]) \cup Grouped(p, at)
<1>1. IsFiniteSet(HttpProviders)
  BY MkDatabaseAssumption DEF MkDatabaseAssumption
<1>2. /\ order \in Seq(HttpProviders) /\ order \in [1 .. Len(order) -> HttpProviders]
      /\ Len(order) \in Nat
      /\ \A v \in HttpProviders : \E k \in 1 .. Len(order) : order[k] = v
  BY <1>1, ListingFacts
<1>3. PICK g : /\ g[0] = t
               /\ \A n \in 1 .. Len(order) :
                    g[n] = Fold(g[n - 1], Published(<<HttpList, order[n]>>, at),
                                <<<<HttpList, order[n], HttpCategory>>>>)
               /\ FoldGroups(t, at, order) = g[Len(order)]
  BY <1>2, FoldGroupsUnfold
<1> DEFINE Here(v, p) == p \in Collapsed(Published(<<HttpList, v>>, at))
           Some(n, p) == {<<HttpList, order[k], HttpCategory>> : k \in {j \in 1 .. n : Here(order[j], p)}}
           Good(n) == /\ g[n] \in Tables(Membership)
                      /\ \A p \in Stored : Range(g[n][p]) = Range(t[p]) \cup Some(n, p)
           Goods == {n \in Nat : n <= Len(order) => Good(n)}
<1> HIDE DEF Here
<1>4. 0 \in Goods
  <2>1. \A p : Some(0, p) = {}
    OBVIOUS
  <2> HIDE DEF Some
  <2> QED BY <1>3, <2>1
<1>5. ASSUME NEW n \in Nat, n \in Goods, n + 1 <= Len(order)
      PROVE  Good(n + 1)
  <2> DEFINE s == g[n]
             v == order[n + 1]
             prefixes == Published(<<HttpList, v>>, at)
             m == <<HttpList, v, HttpCategory>>
             ms == <<m>>
  <2>1. n + 1 \in 1 .. Len(order) /\ (n + 1) - 1 = n /\ n <= Len(order)
    BY <1>2, <1>5
  <2>2. v \in HttpProviders
    BY <1>2, <2>1
  <2>3. g[n + 1] = Fold(s, prefixes, ms)
    BY <1>3, <2>1
  <2>4. \A p : Some(n + 1, p) = Some(n, p) \cup (IF Here(v, p) THEN {m} ELSE {})
    <3>1. 1 .. (n + 1) = (1 .. n) \cup {n + 1}
      OBVIOUS
    <3> TAKE p
    <3>2. \A x : x \in Some(n + 1, p) <=> x \in Some(n, p) \/ (Here(v, p) /\ x = m)
      BY <3>1
    <3> HIDE DEF Some, v, m
    <3> QED BY <3>2
  <2>5. s \in Tables(Membership) /\ \A p \in Stored : Range(s[p]) = Range(t[p]) \cup Some(n, p)
    BY <1>5, <2>1
  <2> HIDE DEF Some, s, v, prefixes
  <2>6. m \in Membership
    BY <2>2, MembershipFacts
  <2>7. \A p : Here(v, p) <=> p \in Collapsed(prefixes)
    BY DEF Here, prefixes
  <2> HIDE DEF m
  <2>8. ms \in Seq(Membership) /\ Range(ms) = {m}
    BY <2>6, Single
  <2> HIDE DEF ms
  <2>9. /\ Fold(s, prefixes, ms) \in Tables(Membership)
        /\ \A p \in Stored : Range(Fold(s, prefixes, ms)[p])
             = Range(s[p]) \cup (IF p \in Collapsed(prefixes) THEN Range(ms) ELSE {})
    BY <2>5, <2>8, FoldFacts
  <2>10. ASSUME NEW p \in Stored
         PROVE  Range(g[n + 1][p]) = Range(t[p]) \cup Some(n + 1, p)
    BY <2>3, <2>4, <2>5, <2>7, <2>8, <2>9
  <2> QED BY <2>3, <2>9, <2>10
<1>6. \A n \in Nat : n \in Goods => n + 1 \in Goods
  <2> HIDE DEF Good
  <2> QED BY <1>5
<1>7. Len(order) \in Goods
  <2> HIDE DEF Goods
  <2> QED BY <1>2, <1>4, <1>6, NatSetInduction
<1>8. Good(Len(order))
  <2> HIDE DEF Good
  <2> QED BY <1>2, <1>7
<1>9. ASSUME NEW p \in Stored
      PROVE  Some(Len(order), p) = Grouped(p, at)
  <2>1. \A x : x \in Some(Len(order), p) <=> x \in Grouped(p, at)
    BY <1>2 DEF Grouped, Here
  <2> HIDE DEF Some
  <2> QED BY <2>1
<1> HIDE DEF Some
<1> QED BY <1>3, <1>8, <1>9

\* Numbers in increasing order.
LEMMA SortedNumbers ==
  ASSUME NEW S \in SUBSET Nat, IsFiniteSet(S)
  PROVE  LET o == Sorted(S, {e \in S \X S : e[1] < e[2]})
             n == Cardinality(S)
         IN  /\ n \in Nat /\ o \in [1 .. n -> S]
             /\ \A x \in S : \E k \in 1 .. n : o[k] = x
             /\ \A j, k \in 1 .. n : j < k => o[j] < o[k]
<1> DEFINE R == {e \in S \X S : e[1] < e[2]}
<1>1. \A x, y \in S : <<x, y>> \in R <=> x < y
  OBVIOUS
<1> HIDE DEF R
<1>2. /\ \A x \in S : <<x, x>> \notin R
      /\ \A x, y, z \in S : <<x, y>> \in R /\ <<y, z>> \in R => <<x, z>> \in R
      /\ \A x, y \in S : x # y => <<x, y>> \in R \/ <<y, x>> \in R
  BY <1>1
<1> DEFINE o == Sorted(S, R)
           n == Cardinality(S)
<1>3. /\ n \in Nat /\ o \in [1 .. n -> S]
      /\ \A x \in S : \E k \in 1 .. n : o[k] = x
      /\ \A j, k \in 1 .. n : j < k => <<o[j], o[k]>> \in R
  BY <1>2, SortedLists
<1> HIDE DEF o, n
<1>4. \A j, k \in 1 .. n : j < k => o[j] < o[k]
  BY <1>1, <1>3
<1> QED BY <1>3, <1>4 DEF o, n, R

\* The categories a build selects of those of the AS.
LEMMA IntersectFacts ==
  ASSUME NEW b
  PROVE  /\ DOMAIN Intersect(b) = 1 .. Len(Intersect(b)) /\ Len(Intersect(b)) \in Nat
         /\ Range(Intersect(b)) = Range(ASCategories) \cap cats[b]
<1> DEFINE at == {i \in DOMAIN ASCategories : Has(b, ASCategories[i])}
           R == {e \in at \X at : e[1] < e[2]}
           n == Cardinality(at)
           kept == Sorted(at, R)
<1>1. Len(ASCategories) \in Nat /\ DOMAIN ASCategories = 1 .. Len(ASCategories)
  BY MkDatabaseAssumption, LenProperties DEF MkDatabaseAssumption
<1>2. IsFiniteSet(at) /\ at \in SUBSET Nat
  <2>1. IsFiniteSet(1 .. Len(ASCategories))
    BY <1>1, FS_Interval
  <2>2. at \in SUBSET (1 .. Len(ASCategories))
    BY <1>1
  <2> HIDE DEF at
  <2>3. IsFiniteSet(at)
    BY <2>1, <2>2, FS_Subset
  <2> QED BY <1>1, <2>2, <2>3
<1>4. Intersect(b) = [k \in DOMAIN kept |-> ASCategories[kept[k]]]
  BY DEF Intersect
<1>5. \A c : (\E i \in at : ASCategories[i] = c) <=> c \in Range(ASCategories) \cap cats[b]
  BY DEF Range, Has
<1> HIDE DEF at
<1>6. /\ n \in Nat /\ kept \in [1 .. n -> at]
      /\ \A x \in at : \E k \in 1 .. n : kept[k] = x
  BY <1>2, SortedNumbers
<1> HIDE DEF R
<1> HIDE DEF kept, n
<1>7. DOMAIN Intersect(b) = 1 .. n
  BY <1>4, <1>6
<1>8. Intersect(b) \in Seq(Range(Intersect(b)))
  <2>1. Intersect(b) \in [1 .. n -> Range(Intersect(b))]
    BY <1>4, <1>7 DEF Range
  <2> QED BY <1>6, <2>1, SeqDef
<1>9. \A c : c \in Range(Intersect(b)) <=> \E i \in at : ASCategories[i] = c
  BY <1>4, <1>6, <1>7 DEF Range
<1>10. Range(Intersect(b)) = Range(ASCategories) \cap cats[b]
  BY <1>5, <1>9
<1> QED BY <1>8, <1>10, LenProperties

\* A table that holds, for each network, what the sources of L say of it.
HoldsIn(u, selection, L, t, r, h, announced) ==
  \A p \in Stored : Range(t[p]) = FoundIn(u, selection, L, p, r, h, announced)

\* What the invariant says a table holds, source by source.
LEMMA HoldsParts ==
  ASSUME NEW b, NEW r, NEW h, NEW announced
  PROVE  /\ Folded(b) \subseteq AllSources =>
              (Holds(b, r, h, announced)
                <=> HoldsIn(upstream, cats[b], Folded(b), table[b], r, h, announced))
         /\ Folded(b)' \subseteq AllSources =>
              (Holds(b, r, h, announced)'
                <=> HoldsIn(upstream', cats'[b], Folded(b)', table'[b], r, h, announced))
<1>1. Folded(b) \subseteq AllSources =>
        \A p \in Stored : Found(b, p, r, h, announced)
                            = FoundIn(upstream, cats[b], Folded(b), p, r, h, announced)
  BY FoundParts
<1>2. Folded(b)' \subseteq AllSources =>
        \A p \in Stored : Found(b, p, r, h, announced)'
                            = FoundIn(upstream', cats'[b], Folded(b)', p, r, h, announced)
  BY FoundParts
<1>3. Holds(b, r, h, announced)
        <=> \A p \in Stored : Range(table[b][p]) = Found(b, p, r, h, announced)
  BY DEF Holds
<1>4. Holds(b, r, h, announced)'
        <=> \A p \in Stored : Range(table'[b][p]) = Found(b, p, r, h, announced)'
  BY DEF Holds, Range
<1> QED BY <1>1, <1>2, <1>3, <1>4 DEF HoldsIn

\* What the repository says does not depend on the HTTP list or the AS, and
\* what the HTTP list says does not depend on the AS.
LEMMA Independence ==
  ASSUME NEW u, NEW selection, NEW t, NEW r, NEW h, NEW s, NEW h2, NEW s2
  PROVE  /\ \A L \in SUBSET Lists : HoldsIn(u, selection, L, t, r, h, s)
                                     => HoldsIn(u, selection, L, t, r, h2, s2)
         /\ HoldsIn(u, selection, Lists \cup {HttpList}, t, r, h, s)
              => HoldsIn(u, selection, Lists \cup {HttpList}, t, r, h, s2)
<1>1. \A k \in Lists : \A p : PartOf(u, selection, k, p, r, h, s) = PartOf(u, selection, k, p, r, h2, s2)
  BY DEF PartOf
<1>2. \A p : PartOf(u, selection, HttpList, p, r, h, s) = PartOf(u, selection, HttpList, p, r, h, s2)
  BY Numbers DEF PartOf
<1>3. \A k \in Lists : \A p : PartOf(u, selection, k, p, r, h, s) = PartOf(u, selection, k, p, r, h, s2)
  BY DEF PartOf
<1>4. \A L \in SUBSET Lists : \A p : FoundIn(u, selection, L, p, r, h, s)
                                       = FoundIn(u, selection, L, p, r, h2, s2)
  <2> SUFFICES ASSUME NEW L \in SUBSET Lists, NEW p
               PROVE  FoundIn(u, selection, L, p, r, h, s) = FoundIn(u, selection, L, p, r, h2, s2)
    OBVIOUS
  <2>1. \A m : m \in FoundIn(u, selection, L, p, r, h, s) <=> m \in FoundIn(u, selection, L, p, r, h2, s2)
    BY <1>1 DEF FoundIn
  <2> QED BY <2>1
<1>5. \A p : FoundIn(u, selection, Lists \cup {HttpList}, p, r, h, s)
               = FoundIn(u, selection, Lists \cup {HttpList}, p, r, h, s2)
  <2> SUFFICES ASSUME NEW p
               PROVE  FoundIn(u, selection, Lists \cup {HttpList}, p, r, h, s)
                        = FoundIn(u, selection, Lists \cup {HttpList}, p, r, h, s2)
    OBVIOUS
  <2>1. \A m : m \in FoundIn(u, selection, Lists \cup {HttpList}, p, r, h, s)
                 <=> m \in FoundIn(u, selection, Lists \cup {HttpList}, p, r, h, s2)
    BY <1>2, <1>3 DEF FoundIn
  <2> QED BY <2>1
<1> QED BY <1>4, <1>5 DEF HoldsIn

\* A table new that has all that t has, and what source k says.
Gives(u, selection, k, t, new, r, h, announced) ==
  /\ new \in Tables(Membership)
  /\ \A p \in Stored : Range(new[p]) = Range(t[p]) \cup PartOf(u, selection, k, p, r, h, announced)

\* Folding in one more source.
LEMMA GivesHolds ==
  ASSUME NEW u, NEW selection, NEW k, NEW t, NEW new, NEW r, NEW h, NEW s, NEW L,
         HoldsIn(u, selection, L, t, r, h, s), Gives(u, selection, k, t, new, r, h, s)
  PROVE  HoldsIn(u, selection, L \cup {k}, new, r, h, s)
<1> SUFFICES ASSUME NEW p \in Stored
             PROVE  Range(new[p]) = FoundIn(u, selection, L \cup {k}, p, r, h, s)
  BY DEF HoldsIn
<1>1. Range(new[p]) = FoundIn(u, selection, L, p, r, h, s) \cup PartOf(u, selection, k, p, r, h, s)
  BY DEF HoldsIn, Gives
<1>2. FoundIn(u, selection, L \cup {k}, p, r, h, s)
        = FoundIn(u, selection, L, p, r, h, s) \cup PartOf(u, selection, k, p, r, h, s)
  BY DEF FoundIn
<1> QED BY <1>1, <1>2

\* CollectList folds what its copy of the list says.
LEMMA ListGives ==
  ASSUME NEW b, NEW l \in Lists, NEW t \in Tables(Membership),
         NEW r \in Time, Copy(b, l) = r, NEW h, NEW s
  PROVE  Gives(upstream, cats[b], l, t,
               IF l \in SelectLists(b) THEN Fold(t, Listed(b, l), <<<<l, 1, RepoLists[l]>>>>) ELSE t,
               r, h, s)
<1> DEFINE m == <<l, 1, RepoLists[l]>>
           ms == <<m>>
           prefixes == Listed(b, l)
<1>1. ms \in Seq(Membership) /\ Range(ms) = {m}
  <2>1. m \in Membership
    BY MembershipFacts
  <2> HIDE DEF m
  <2> QED BY <2>1, Single
<1>2. prefixes = upstream[r][<<l, 1>>]
  BY Numbers DEF Listed, Published
<1>3. l \in SelectLists(b) <=> RepoLists[l] \in cats[b]
  BY DEF SelectLists, Has
<1> HIDE DEF ms, prefixes
<1>4. /\ Fold(t, prefixes, ms) \in Tables(Membership)
      /\ \A p \in Stored : Range(Fold(t, prefixes, ms)[p])
           = Range(t[p]) \cup (IF p \in Collapsed(prefixes) THEN Range(ms) ELSE {})
  BY <1>1, FoldFacts
<1>5. \A p : PartOf(upstream, cats[b], l, p, r, h, s)
               = IF p \in Collapsed(prefixes) /\ RepoLists[l] \in cats[b] THEN {m} ELSE {}
  BY <1>2 DEF PartOf
<1>6. Gives(upstream, cats[b], l, t, IF l \in SelectLists(b) THEN Fold(t, prefixes, ms) ELSE t, r, h, s)
  <2>1. CASE l \in SelectLists(b)
    BY <1>1, <1>3, <1>4, <1>5, <2>1 DEF Gives
  <2>2. CASE l \notin SelectLists(b)
    BY <1>3, <1>5, <2>2 DEF Gives
  <2> QED BY <2>1, <2>2
<1> QED BY <1>6 DEF ms, prefixes

\* FoldHttp folds what the list said when its body was fetched.
LEMMA HttpGives ==
  ASSUME NEW b, Has(b, HttpCategory), NEW t \in Tables(Membership), NEW at,
         NEW order \in SetToSeqs(HttpProviders), NEW r, NEW s
  PROVE  Gives(upstream, cats[b], HttpList, t, FoldGroups(t, at, order), r, at, s)
<1>1. /\ FoldGroups(t, at, order) \in Tables(Membership)
      /\ \A p \in Stored : Range(FoldGroups(t, at, order)[p]) = Range(t[p]) \cup Grouped(p, at)
  BY FoldGroupsFacts
<1>2. \A p : PartOf(upstream, cats[b], HttpList, p, r, at, s) = Grouped(p, at)
  BY Numbers DEF PartOf, Has, Published, Grouped
<1> QED BY <1>1, <1>2 DEF Gives

\* FoldAS folds the prefixes for the categories the build selects.
LEMMA ASGives ==
  ASSUME NEW b, NEW t \in Tables(Membership), NEW prefixes, NEW r, NEW h
  PROVE  LET ms == [k \in DOMAIN Intersect(b) |-> <<AS, 1, Intersect(b)[k]>>]
         IN  Gives(upstream, cats[b], AS, t, Fold(t, prefixes, ms), r, h, prefixes)
<1> DEFINE ms == [k \in DOMAIN Intersect(b) |-> <<AS, 1, Intersect(b)[k]>>]
<1>1. /\ DOMAIN Intersect(b) = 1 .. Len(Intersect(b)) /\ Len(Intersect(b)) \in Nat
      /\ Range(Intersect(b)) = Range(ASCategories) \cap cats[b]
  BY IntersectFacts
<1>2. \A k \in DOMAIN Intersect(b) : Intersect(b)[k] \in Category
  BY <1>1, Numbers DEF Range
<1>3. ms \in Seq(Membership)
  <2>1. ms \in [1 .. Len(Intersect(b)) -> Membership]
    BY <1>1, <1>2, MembershipFacts
  <2> QED BY <1>1, <2>1, SeqDef
<1>4. Range(ms) = {<<AS, 1, c>> : c \in Range(ASCategories) \cap cats[b]}
  <2>1. \A m : m \in Range(ms) <=> \E c \in Range(Intersect(b)) : m = <<AS, 1, c>>
    BY DEF Range
  <2> HIDE DEF ms
  <2>2. \A m : m \in Range(ms) <=> m \in {<<AS, 1, c>> : c \in Range(ASCategories) \cap cats[b]}
    BY <1>1, <2>1
  <2> QED BY <2>2
<1> HIDE DEF ms
<1>5. /\ Fold(t, prefixes, ms) \in Tables(Membership)
      /\ \A p \in Stored : Range(Fold(t, prefixes, ms)[p])
           = Range(t[p]) \cup (IF p \in Collapsed(prefixes) THEN Range(ms) ELSE {})
  BY <1>3, FoldFacts
<1>6. \A p : PartOf(upstream, cats[b], AS, p, r, h, prefixes)
               = IF p \in Collapsed(prefixes) THEN Range(ms) ELSE {}
  BY <1>4, Numbers DEF PartOf
<1>7. Gives(upstream, cats[b], AS, t, Fold(t, prefixes, ms), r, h, prefixes)
  BY <1>5, <1>6 DEF Gives
<1> QED BY <1>7 DEF ms

\* CollectFile folds the local list.
LEMMA FileGives ==
  ASSUME NEW b, NEW t \in Tables(Membership), NEW r, NEW h, NEW s
  PROVE  Gives(upstream, cats[b], File, t,
               IF Has(b, FileCategory)
               THEN Fold(t, Published(<<File, 1>>, 0), <<<<File, 1, FileCategory>>>>) ELSE t,
               r, h, s)
<1> DEFINE m == <<File, 1, FileCategory>>
           ms == <<m>>
           prefixes == Published(<<File, 1>>, 0)
<1>1. ms \in Seq(Membership) /\ Range(ms) = {m}
  <2>1. m \in Membership
    BY MembershipFacts
  <2> HIDE DEF m
  <2> QED BY <2>1, Single
<1>2. prefixes = upstream[0][<<File, 1>>]
  BY DEF Published
<1> HIDE DEF ms, prefixes
<1>3. /\ Fold(t, prefixes, ms) \in Tables(Membership)
      /\ \A p \in Stored : Range(Fold(t, prefixes, ms)[p])
           = Range(t[p]) \cup (IF p \in Collapsed(prefixes) THEN Range(ms) ELSE {})
  BY <1>1, FoldFacts
<1>4. \A p : PartOf(upstream, cats[b], File, p, r, h, s)
               = IF p \in Collapsed(prefixes) /\ FileCategory \in cats[b] THEN {m} ELSE {}
  BY <1>2, Numbers DEF PartOf
<1>5. Gives(upstream, cats[b], File, t, IF Has(b, FileCategory) THEN Fold(t, prefixes, ms) ELSE t, r, h, s)
  <2>1. CASE Has(b, FileCategory)
    BY <1>1, <1>3, <1>4, <2>1 DEF Gives, Has
  <2>2. CASE ~Has(b, FileCategory)
    BY <1>4, <2>2 DEF Gives, Has
  <2> QED BY <2>1, <2>2
<1> QED BY <1>5 DEF ms, prefixes

\* A list or an AS of which nothing is selected says nothing.
LEMMA SkippedGives ==
  ASSUME NEW b, NEW t \in Tables(Membership), NEW r, NEW h, NEW s
  PROVE  /\ ~Has(b, HttpCategory) => Gives(upstream, cats[b], HttpList, t, t, r, h, s)
         /\ Intersect(b) = << >> => Gives(upstream, cats[b], AS, t, t, r, h, s)
<1>1. ~Has(b, HttpCategory) => \A p : PartOf(upstream, cats[b], HttpList, p, r, h, s) = {}
  BY Numbers DEF PartOf, Has
<1>2. Intersect(b) = << >> => Range(ASCategories) \cap cats[b] = {}
  BY IntersectFacts DEF Range
<1>3. Intersect(b) = << >> => \A p : PartOf(upstream, cats[b], AS, p, r, h, s) = {}
  BY <1>2, Numbers DEF PartOf
<1> QED BY <1>1, <1>3 DEF Gives

-----------------------------------------------------------------------------
(* The merged table, and the output *)

\* A merged table: each network has what the broader ones say too.
InheritsIn(u, selection, t, r, h, announced) ==
  /\ \A p \in Stored : FoundIn(u, selection, AllSources, p, r, h, announced) # {} => p \in Networks(t)
  /\ \A p \in Networks(t) : \A m :
       m \in Range(t[p]) <=>
         \E q \in Stored : /\ Covers[p] \subseteq Covers[q]
                           /\ m \in FoundIn(u, selection, AllSources, q, r, h, announced)

\* What the invariant says of a merged table, source by source.
LEMMA InheritsParts ==
  ASSUME NEW b, NEW r, NEW h, NEW s
  PROVE  /\ pc[b] = "output" =>
              (Inherits(b, r, h, s) <=> InheritsIn(upstream, cats[b], table[b], r, h, s))
         /\ pc'[b] = "output" =>
              (Inherits(b, r, h, s)' <=> InheritsIn(upstream', cats'[b], table'[b], r, h, s))
<1>1. /\ pc[b] = "output" => Folded(b) = AllSources
      /\ pc'[b] = "output" => Folded(b)' = AllSources
  BY DEF Folded, AllSources
<1>2. /\ pc[b] = "output" =>
           \A p : Found(b, p, r, h, s) = FoundIn(upstream, cats[b], AllSources, p, r, h, s)
      /\ pc'[b] = "output" =>
           \A p : Found(b, p, r, h, s)' = FoundIn(upstream', cats'[b], AllSources, p, r, h, s)
  <2>1. \A p : /\ Folded(b) \subseteq AllSources =>
                    Found(b, p, r, h, s) = FoundIn(upstream, cats[b], Folded(b), p, r, h, s)
               /\ Folded(b)' \subseteq AllSources =>
                    Found(b, p, r, h, s)' = FoundIn(upstream', cats'[b], Folded(b)', p, r, h, s)
    BY FoundParts
  <2> QED BY <1>1, <2>1
<1>3. ASSUME pc[b] = "output"
      PROVE  Inherits(b, r, h, s) <=> InheritsIn(upstream, cats[b], table[b], r, h, s)
  <2>1. ASSUME NEW p
        PROVE  Range(table[b][p])
                   = UNION {Found(b, q, r, h, s) : q \in {k \in Stored : Covers[p] \subseteq Covers[k]}}
               <=> \A m : m \in Range(table[b][p]) <=>
                     \E q \in Stored : /\ Covers[p] \subseteq Covers[q]
                                       /\ m \in FoundIn(upstream, cats[b], AllSources, q, r, h, s)
    <3> DEFINE U == UNION {Found(b, q, r, h, s) : q \in {k \in Stored : Covers[p] \subseteq Covers[k]}}
    <3>1. \A m : m \in U <=> \E q \in Stored : Covers[p] \subseteq Covers[q] /\ m \in Found(b, q, r, h, s)
      OBVIOUS
    <3> HIDE DEF U
    <3>2. \A m : m \in U <=> \E q \in Stored : /\ Covers[p] \subseteq Covers[q]
                                               /\ m \in FoundIn(upstream, cats[b], AllSources, q, r, h, s)
      BY <1>2, <1>3, <3>1
    <3>3. Range(table[b][p]) = U <=> \A m : m \in Range(table[b][p]) <=> m \in U
      OBVIOUS
    <3>4. Range(table[b][p]) = U
            <=> \A m : m \in Range(table[b][p]) <=>
                  \E q \in Stored : /\ Covers[p] \subseteq Covers[q]
                                    /\ m \in FoundIn(upstream, cats[b], AllSources, q, r, h, s)
      BY <3>2, <3>3
    <3> QED BY <3>4 DEF U
  <2> QED BY <1>2, <1>3, <2>1 DEF Inherits, InheritsIn
<1>4. ASSUME pc'[b] = "output"
      PROVE  Inherits(b, r, h, s)' <=> InheritsIn(upstream', cats'[b], table'[b], r, h, s)
  <2>1. ASSUME NEW p
        PROVE  Range(table'[b][p])
                   = UNION {Found(b, q, r, h, s)' : q \in {k \in Stored : Covers[p] \subseteq Covers[k]}}
               <=> \A m : m \in Range(table'[b][p]) <=>
                     \E q \in Stored : /\ Covers[p] \subseteq Covers[q]
                                       /\ m \in FoundIn(upstream', cats'[b], AllSources, q, r, h, s)
    <3> DEFINE U == UNION {Found(b, q, r, h, s)' : q \in {k \in Stored : Covers[p] \subseteq Covers[k]}}
    <3>1. \A m : m \in U <=> \E q \in Stored : Covers[p] \subseteq Covers[q] /\ m \in Found(b, q, r, h, s)'
      OBVIOUS
    <3> HIDE DEF U
    <3>2. \A m : m \in U <=> \E q \in Stored : /\ Covers[p] \subseteq Covers[q]
                                               /\ m \in FoundIn(upstream', cats'[b], AllSources, q, r, h, s)
      BY <1>2, <1>4, <3>1
    <3>3. Range(table'[b][p]) = U <=> \A m : m \in Range(table'[b][p]) <=> m \in U
      OBVIOUS
    <3>4. Range(table'[b][p]) = U
            <=> \A m : m \in Range(table'[b][p]) <=>
                  \E q \in Stored : /\ Covers[p] \subseteq Covers[q]
                                    /\ m \in FoundIn(upstream', cats'[b], AllSources, q, r, h, s)
      BY <3>2, <3>3
    <3> QED BY <3>4 DEF U
  <2> QED BY <1>2, <1>4, <2>1 DEF Inherits, InheritsIn, Networks, Range
<1> QED BY <1>3, <1>4

\* Merging a table that holds what all sources say.
LEMMA MergeInherits ==
  ASSUME NEW u, NEW selection, NEW t \in Tables(Membership), NEW r, NEW h, NEW s,
         HoldsIn(u, selection, AllSources, t, r, h, s), NEW order \in Orders(t)
  PROVE  /\ MergeContained(t, order) \in Tables(Membership)
         /\ InheritsIn(u, selection, MergeContained(t, order), r, h, s)
<1> DEFINE new == MergeContained(t, order)
           found(p) == FoundIn(u, selection, AllSources, p, r, h, s)
<1>1. /\ new \in Tables(Membership)
      /\ Networks(new) = Networks(t)
      /\ \A p \in Networks(t) : Range(new[p]) = Says(t, p)
  BY MergeFacts
<1> HIDE DEF new
<1>2. \A p \in Stored : Range(t[p]) = found(p)
  BY DEF HoldsIn
<1> HIDE DEF found
<1>3. \A p : \A m : m \in Says(t, p) <=> \E q \in Stored : Covers[p] \subseteq Covers[q] /\ m \in found(q)
  BY <1>2 DEF Says
<1>4. \A p \in Stored : found(p) # {} => p \in Networks(t)
  <2>1. \A p \in Stored : t[p] = << >> => Range(t[p]) = {}
    BY DEF Range
  <2> QED BY <1>2, <2>1 DEF Networks
<1> QED BY <1>1, <1>3, <1>4 DEF InheritsIn, new, found

\* What a build should say of an address is what the sources say of the
\* networks that cover it.
LEMMA ExpectedParts ==
  ASSUME upstream \in Upstreams, NEW selection, NEW a \in Addr, NEW r \in Time, NEW h \in Time,
         NEW s \in SUBSET Prefix
  PROVE  \A m : m \in Expected(selection, a, r, h, s) <=>
           /\ a \notin Reserved
           /\ \E q \in Stored : a \in Covers[q] /\ m \in FoundIn(upstream, selection, AllSources, q, r, h, s)
<1> DEFINE on(networks) == a \notin Reserved /\ \E p \in networks : a \in Covers[Collapse[p]]
           R(k) == upstream[r][<<k, 1>>]
           H(v) == upstream[h][<<HttpList, v>>]
           X == upstream[0][<<File, 1>>]
           S == Range(ASCategories)
<1>1. ASSUME NEW networks \in SUBSET Prefix
      PROVE  on(networks) <=> /\ a \notin Reserved
                              /\ \E q \in Stored : a \in Covers[q] /\ q \in Collapsed(networks)
  BY DEF Collapsed, Stored
<1>2. 0 \in Time /\ \A k \in Lists : <<k, 1>> \in Keys
  BY Numbers DEF Keys, Time
<1>3. /\ \A v \in HttpProviders : <<HttpList, v>> \in Keys
      /\ <<File, 1>> \in Keys
  BY DEF Keys
<1>4. /\ \A k \in Lists : R(k) \in SUBSET Prefix
      /\ \A v \in HttpProviders : H(v) \in SUBSET Prefix
      /\ X \in SUBSET Prefix
  BY <1>2, <1>3, PublishedFacts
<1>5. ASSUME NEW m
      PROVE  m \in Expected(selection, a, r, h, s) <=>
               /\ m[3] \in selection
               /\ \/ \E k \in Lists : m = <<k, 1, RepoLists[k]>> /\ on(R(k))
                  \/ \E v \in HttpProviders : m = <<HttpList, v, HttpCategory>> /\ on(H(v))
                  \/ on(s) /\ \E c \in S : m = <<AS, 1, c>>
                  \/ on(X) /\ m = <<File, 1, FileCategory>>
  BY DEF Expected, Memberships, Published
<1>6. ASSUME NEW m, NEW q
      PROVE  m \in FoundIn(upstream, selection, AllSources, q, r, h, s) <=>
               /\ m[3] \in selection
               /\ \/ \E k \in Lists : m = <<k, 1, RepoLists[k]>> /\ q \in Collapsed(R(k))
                  \/ \E v \in HttpProviders : m = <<HttpList, v, HttpCategory>> /\ q \in Collapsed(H(v))
                  \/ q \in Collapsed(s) /\ \E c \in S : m = <<AS, 1, c>>
                  \/ q \in Collapsed(X) /\ m = <<File, 1, FileCategory>>
  <2> DEFINE P(k) == m \in PartOf(upstream, selection, k, q, r, h, s)
  <2>1. m \in FoundIn(upstream, selection, AllSources, q, r, h, s)
          <=> (\E k \in Lists : P(k)) \/ P(HttpList) \/ P(AS) \/ P(File)
    BY DEF FoundIn, AllSources
  <2>2. ASSUME NEW k \in Lists
        PROVE  P(k) <=> m = <<k, 1, RepoLists[k]>> /\ q \in Collapsed(R(k)) /\ RepoLists[k] \in selection
    BY DEF PartOf
  <2>3. P(HttpList) <=> /\ HttpCategory \in selection
                        /\ \E v \in HttpProviders : m = <<HttpList, v, HttpCategory>> /\ q \in Collapsed(H(v))
    BY Numbers DEF PartOf
  <2>4. P(AS) <=> q \in Collapsed(s) /\ \E c \in S : m = <<AS, 1, c>> /\ c \in selection
    BY Numbers DEF PartOf
  <2>5. P(File) <=> q \in Collapsed(X) /\ m = <<File, 1, FileCategory>> /\ FileCategory \in selection
    BY Numbers DEF PartOf
  <2> HIDE DEF P, R, H, X, S
  <2> QED BY <2>1, <2>2, <2>3, <2>4, <2>5
<1> HIDE DEF on, R, H, X, S
<1> SUFFICES ASSUME NEW m
             PROVE  m \in Expected(selection, a, r, h, s) <=>
                      /\ a \notin Reserved
                      /\ \E q \in Stored : /\ a \in Covers[q]
                                           /\ m \in FoundIn(upstream, selection, AllSources, q, r, h, s)
  OBVIOUS
<1>7. \A k \in Lists : on(R(k)) <=> /\ a \notin Reserved
                                    /\ \E q \in Stored : a \in Covers[q] /\ q \in Collapsed(R(k))
  BY <1>1, <1>4
<1>8. \A v \in HttpProviders : on(H(v)) <=> /\ a \notin Reserved
                                            /\ \E q \in Stored : a \in Covers[q] /\ q \in Collapsed(H(v))
  BY <1>1, <1>4
<1>9. /\ on(s) <=> a \notin Reserved /\ \E q \in Stored : a \in Covers[q] /\ q \in Collapsed(s)
      /\ on(X) <=> a \notin Reserved /\ \E q \in Stored : a \in Covers[q] /\ q \in Collapsed(X)
  BY <1>1, <1>4
<1>10. CASE a \in Reserved
  BY <1>5, <1>7, <1>8, <1>9, <1>10
<1>11. CASE a \notin Reserved
  <2>1. m \in Expected(selection, a, r, h, s) <=>
          \E q \in Stored : a \in Covers[q] /\ m[3] \in selection /\
             (\/ \E k \in Lists : m = <<k, 1, RepoLists[k]>> /\ q \in Collapsed(R(k))
              \/ \E v \in HttpProviders : m = <<HttpList, v, HttpCategory>> /\ q \in Collapsed(H(v))
              \/ q \in Collapsed(s) /\ \E c \in S : m = <<AS, 1, c>>
              \/ q \in Collapsed(X) /\ m = <<File, 1, FileCategory>>)
    BY <1>5, <1>7, <1>8, <1>9, <1>11
  <2> QED BY <1>6, <1>11, <2>1
<1> QED BY <1>10, <1>11

\* A database record of just these memberships.
RecordOf(record, memberships) ==
  /\ Range(record.sources) = memberships
  /\ record.categories = {m[3] : m \in memberships}

\* The tree says of every address what the build should say.
LEMMA OutputComplete ==
  ASSUME upstream \in Upstreams, NEW selection, NEW t \in Tables(Membership),
         NEW r \in Time, NEW h \in Time, NEW s \in SUBSET Prefix,
         InheritsIn(upstream, selection, t, r, h, s),
         NEW order \in InsertOrders(t), NEW exchanged, NEW a \in Addr
  PROVE  RecordOf(Insert(t, order, exchanged)[a], Expected(selection, a, r, h, s))
<1> DEFINE found == [p \in Stored |-> FoundIn(upstream, selection, AllSources, p, r, h, s)]
           said == SaidOf(found, a)
           expected == Expected(selection, a, r, h, s)
<1>1. \A p \in Stored : found[p] # {} => p \in Networks(t)
  BY DEF InheritsIn
<1>2. \A p \in Networks(t) : Range(t[p]) = Wider(found, p)
  <2> TAKE p \in Networks(t)
  <2> DEFINE U == Wider(found, p)
  <2>1. \A m : m \in U <=>
          \E q \in Stored : /\ Covers[p] \subseteq Covers[q]
                            /\ m \in FoundIn(upstream, selection, AllSources, q, r, h, s)
    BY DEF Wider, Networks
  <2> HIDE DEF U
  <2>2. Range(t[p]) = U
    BY <2>1 DEF InheritsIn
  <2> QED BY <2>2 DEF U
<1>3. said = expected
  <2>1. \A m : m \in said <=>
           /\ a \notin Reserved
           /\ \E q \in Stored : a \in Covers[q] /\ m \in FoundIn(upstream, selection, AllSources, q, r, h, s)
    BY DEF SaidOf
  <2> HIDE DEF said, expected
  <2>2. \A m : m \in said <=> m \in expected
    BY <2>1, ExpectedParts DEF expected
  <2> QED BY <2>2
<1> HIDE DEF found
<1>4. Sortable(Membership)
  BY MembershipFacts
<1>5. /\ Range(Insert(t, order, exchanged)[a].sources) = said
      /\ Insert(t, order, exchanged)[a].categories = {m[3] : m \in said}
  BY <1>1, <1>2, <1>4, OutputFacts
<1> HIDE DEF said, expected
<1>6. RecordOf(Insert(t, order, exchanged)[a], said)
  BY <1>5 DEF RecordOf
<1> QED BY <1>3, <1>6 DEF expected

-----------------------------------------------------------------------------
(* A build's step, and the others *)

Steps == {"idle", "repo", "remove", "write", "collect", "http", "as", "file",
          "merge", "output", "done", "failed"}

\* What an action leaves of a build.
Becomes(b, step, selection, start, clone, n, cache, t) ==
  /\ step \in Steps /\ selection \in Selections \cup {{}} /\ start \in Time /\ clone \in Time
  /\ n \in 1 .. Len(RepoLists) + 1 /\ cache \in BOOLEAN /\ t \in Tables(Membership)
  /\ pc' = [pc EXCEPT ![b] = step]
  /\ cats' = [cats EXCEPT ![b] = selection]
  /\ begun' = [begun EXCEPT ![b] = start]
  /\ cloned' = [cloned EXCEPT ![b] = clone]
  /\ next' = [next EXCEPT ![b] = n]
  /\ fromCache' = [fromCache EXCEPT ![b] = cache]
  /\ table' = [table EXCEPT ![b] = t]

\* What it is to a build when another one acts.
Same(c) ==
  /\ pc'[c] = pc[c] /\ cats'[c] = cats[c] /\ begun'[c] = begun[c] /\ cloned'[c] = cloned[c]
  /\ next'[c] = next[c] /\ fromCache'[c] = fromCache[c] /\ table'[c] = table[c]

\* Types of the clock and the cache.
CacheTypeOK ==
  /\ now \in Time /\ upstream \in Upstreams
  /\ files \in [Lists -> Time \cup {None}] /\ marker \in Time \cup {None}
  /\ httpFile \in [at : Time, decodes : BOOLEAN] \cup {None}
  /\ asFile \in [at : Time, prefixes : SUBSET Prefix] \cup {None}

\* The build that acts, the others, and the types.
LEMMA Becoming ==
  ASSUME TypeOK, CacheTypeOK', NEW b \in Builds,
         NEW step, NEW selection, NEW start, NEW clone, NEW n, NEW cache, NEW t,
         Becomes(b, step, selection, start, clone, n, cache, t)
  PROVE  /\ TypeOK'
         /\ \A c \in Builds : c # b => Same(c)
         /\ pc'[b] = step /\ cats'[b] = selection /\ begun'[b] = start /\ cloned'[b] = clone
         /\ next'[b] = n /\ fromCache'[b] = cache /\ table'[b] = t
<1>1. /\ pc' \in [Builds -> Steps] /\ pc'[b] = step
      /\ \A c \in Builds : c # b => pc'[c] = pc[c]
  BY DEF TypeOK, Becomes, Steps
<1>2. /\ cats' \in [Builds -> Selections \cup {{}}] /\ cats'[b] = selection
      /\ \A c \in Builds : c # b => cats'[c] = cats[c]
  BY DEF TypeOK, Becomes
<1>3. /\ begun' \in [Builds -> Time] /\ begun'[b] = start
      /\ \A c \in Builds : c # b => begun'[c] = begun[c]
  BY DEF TypeOK, Becomes
<1>4. /\ cloned' \in [Builds -> Time] /\ cloned'[b] = clone
      /\ \A c \in Builds : c # b => cloned'[c] = cloned[c]
  BY DEF TypeOK, Becomes
<1>5. /\ next' \in [Builds -> 1 .. Len(RepoLists) + 1] /\ next'[b] = n
      /\ \A c \in Builds : c # b => next'[c] = next[c]
  BY DEF TypeOK, Becomes
<1>6. /\ fromCache' \in [Builds -> BOOLEAN] /\ fromCache'[b] = cache
      /\ \A c \in Builds : c # b => fromCache'[c] = fromCache[c]
  BY DEF TypeOK, Becomes
<1>7. /\ table' \in [Builds -> Tables(Membership)] /\ table'[b] = t
      /\ \A c \in Builds : c # b => table'[c] = table[c]
  BY DEF TypeOK, Becomes, Tables
<1>8. TypeOK'
  BY <1>1, <1>2, <1>3, <1>4, <1>5, <1>6, <1>7 DEF TypeOK, CacheTypeOK, Tables, Steps
<1>9. \A c \in Builds : c # b => Same(c)
  BY <1>1, <1>2, <1>3, <1>4, <1>5, <1>6, <1>7 DEF Same
<1> QED BY <1>1, <1>2, <1>3, <1>4, <1>5, <1>6, <1>7, <1>8, <1>9

\* What was recent when a build began stays so.
LEMMA RecentGrows ==
  ASSUME now \in Time, now' \in Time, now <= now', upstream' = upstream, NEW c,
         begun'[c] = begun[c]
  PROVE  /\ \A t : t \in Recent(c) => t \in Recent(c)'
         /\ \A s : s \in Announced(c) => s \in Announced(c)'
<1>1. \A t : t \in Recent(c) => t \in Recent(c)'
  BY Numbers DEF Recent, Time
<1>2. \A s : s \in Announced(c) => s \in Announced(c)'
  BY <1>1 DEF Announced, Published
<1> QED BY <1>1, <1>2

\* What a build that does not act has in memory stays right.
LEMMA TableFrame ==
  ASSUME now \in Time, now' \in Time, now <= now', upstream' = upstream,
         NEW c \in Builds, begun[c] \in Time, next[c] \in 1 .. Len(RepoLists) + 1,
         TableInv(c), Same(c),
         pc[c] = "collect" => files' = files
  PROVE  TableInv(c)'
<1>1. /\ \A t : t \in Recent(c) => t \in Recent(c)'
      /\ \A s : s \in Announced(c) => s \in Announced(c)'
  BY RecentGrows DEF Same
<1>2. Folded(c)' = Folded(c)
  BY DEF Folded, Same
<1>3. pc[c] = "collect" => Folded(c) \subseteq Lists
  BY Numbers DEF Folded
<1>4. Folded(c) \subseteq AllSources
  BY <1>3, Numbers DEF Folded, AllSources
<1>5. \A r, h, s : Holds(c, r, h, s)' <=> Holds(c, r, h, s)
  BY <1>2, <1>4, HoldsParts DEF Same
<1>6. pc[c] = "output" => \A r, h, s : Inherits(c, r, h, s)' <=> Inherits(c, r, h, s)
  BY InheritsParts DEF Same
<1>7. pc[c] = "collect" => \A l \in Lists : Copy(c, l)' = Copy(c, l)
  BY DEF Copy, Same
<1>8. /\ Running(c)' <=> Running(c)
      /\ pc'[c] = pc[c] /\ table'[c] = table[c] /\ begun'[c] = begun[c]
  BY DEF Running, Same
<1>9. Running(c)' => begun'[c] <= now'
  <2>1. Running(c) => begun[c] <= now
    BY DEF TableInv
  <2> QED BY <1>8, <2>1, Numbers DEF Time
<1>10. pc'[c] \in {"idle", "repo", "remove", "write", "done", "failed"} => table'[c] = EmptyTable
  BY <1>8 DEF TableInv
<1>11. pc'[c] = "collect" => \E r \in Recent(c)' : /\ \A l \in Lists : Copy(c, l)' = r
                                                   /\ Holds(c, r, r, {})'
  <2> SUFFICES ASSUME pc[c] = "collect"
               PROVE  \E r \in Recent(c)' : (\A l \in Lists : Copy(c, l)' = r) /\ Holds(c, r, r, {})'
    BY <1>8
  <2>1. PICK r \in Recent(c) : (\A l \in Lists : Copy(c, l) = r) /\ Holds(c, r, r, {})
    BY DEF TableInv
  <2>2. \A l \in Lists : Copy(c, l)' = r
    BY <1>7, <2>1
  <2> QED BY <1>1, <1>5, <2>1, <2>2
<1>12. pc'[c] \in {"http", "as", "file", "merge"} =>
         \E r \in Recent(c)', h \in Recent(c)', s \in Announced(c)' : Holds(c, r, h, s)'
  BY <1>1, <1>5, <1>8 DEF TableInv
<1>13. pc'[c] = "output" =>
         \E r \in Recent(c)', h \in Recent(c)', s \in Announced(c)' : Inherits(c, r, h, s)'
  BY <1>1, <1>6, <1>8 DEF TableInv
<1> QED BY <1>9, <1>10, <1>11, <1>12, <1>13 DEF TableInv

\* A build that runs acts: the others do not run, so only what it does itself
\* matters.
LEMMA BuildKeeps ==
  ASSUME IInv, NEW b \in Builds, Running(b), now' = now, upstream' = upstream, TypeOK',
         \A c \in Builds : c # b => Same(c),
         CacheInv', Writing(b)', TableInv(b)'
  PROVE  IInv'
<1>1. TypeOK /\ OneBuild /\ now \in Time /\ \A c \in Builds : TableInv(c)
  BY DEF IInv, TypeOK
<1>2. \A c \in Builds : c # b => ~Running(c)
  BY <1>1 DEF OneBuild
<1>3. OneBuild'
  BY <1>2 DEF OneBuild, Running, Same
<1>4. ASSUME NEW c \in Builds, c # b
      PROVE  Writing(c)' /\ TableInv(c)'
  <2>1. pc[c] \notin {"remove", "write", "collect"} /\ Same(c)
    BY <1>2, <1>4 DEF Running
  <2>2. Writing(c)'
    BY <2>1 DEF Writing, Same
  <2>3. begun[c] \in Time /\ next[c] \in 1 .. Len(RepoLists) + 1
    BY <1>1 DEF TypeOK
  <2>4. now' \in Time /\ now <= now' /\ TableInv(c)
    BY <1>1, Numbers DEF Time
  <2>5. TableInv(c)'
    BY <1>1, <2>1, <2>3, <2>4, TableFrame
  <2> QED BY <2>2, <2>5
<1> QED BY <1>3, <1>4 DEF IInv

\* A build that has nothing in memory.
LEMMA ToNothing ==
  ASSUME NEW b \in Builds, begun'[b] <= now', table'[b] = EmptyTable,
         pc'[b] \in {"idle", "repo", "remove", "write", "done", "failed"}
  PROVE  TableInv(b)'
BY DEF TableInv

\* A build that collects the repository.
LEMMA ToCollect ==
  ASSUME NEW b \in Builds, begun'[b] <= now', pc'[b] = "collect",
         next'[b] \in 1 .. Len(RepoLists) + 1,
         NEW r, r \in Recent(b)', \A l \in Lists : Copy(b, l)' = r,
         HoldsIn(upstream', cats'[b], 1 .. (next'[b] - 1), table'[b], r, r, {})
  PROVE  TableInv(b)'
<1>1. Folded(b)' = 1 .. (next'[b] - 1)
  BY DEF Folded
<1>2. Folded(b)' \subseteq AllSources
  BY <1>1, Numbers DEF AllSources
<1>3. Holds(b, r, r, {})'
  BY <1>1, <1>2, HoldsParts
<1> QED BY <1>3 DEF TableInv

\* A build that is past the repository.
LEMMA ToSources ==
  ASSUME NEW b \in Builds, begun'[b] <= now', pc'[b] \in {"http", "as", "file", "merge"},
         NEW r, r \in Recent(b)', NEW h, h \in Recent(b)', NEW s, s \in Announced(b)',
         HoldsIn(upstream', cats'[b], Folded(b)', table'[b], r, h, s)
  PROVE  TableInv(b)'
<1>1. Folded(b)' \subseteq AllSources
  BY DEF Folded, AllSources
<1>2. Holds(b, r, h, s)'
  BY <1>1, HoldsParts
<1> QED BY <1>2 DEF TableInv

\* A build that has merged its table.
LEMMA ToOutput ==
  ASSUME NEW b \in Builds, begun'[b] <= now', pc'[b] = "output",
         NEW r, r \in Recent(b)', NEW h, h \in Recent(b)', NEW s, s \in Announced(b)',
         InheritsIn(upstream', cats'[b], table'[b], r, h, s)
  PROVE  TableInv(b)'
<1>1. Inherits(b, r, h, s)'
  BY InheritsParts
<1> QED BY <1>1 DEF TableInv

\* A build that has collected no source yet has an empty table.
LEMMA EmptyHolds ==
  ASSUME NEW u, NEW selection, NEW r, NEW h, NEW s
  PROVE  /\ EmptyTable \in Tables(Membership)
         /\ HoldsIn(u, selection, {}, EmptyTable, r, h, s)
         /\ (\A l \in Lists : RepoLists[l] \notin selection)
              => HoldsIn(u, selection, Lists, EmptyTable, r, h, s)
<1>1. EmptyTable \in Tables(Membership)
  BY EmptySeq DEF EmptyTable, Tables
<1>2. \A p \in Stored : Range(EmptyTable[p]) = {}
  BY DEF EmptyTable, Range
<1>3. \A p : FoundIn(u, selection, {}, p, r, h, s) = {}
  BY DEF FoundIn
<1>4. (\A l \in Lists : RepoLists[l] \notin selection)
        => \A p : FoundIn(u, selection, Lists, p, r, h, s) = {}
  BY DEF FoundIn, PartOf
<1> QED BY <1>1, <1>2, <1>3, <1>4 DEF HoldsIn

\* A step that leaves the cache alone.
LEMMA CacheFrame ==
  ASSUME TypeOK, CacheInv, UNCHANGED <<now, upstream, cacheVars>>
  PROVE  CacheInv' /\ CacheTypeOK'
<1>1. /\ now' = now /\ upstream' = upstream /\ files' = files /\ marker' = marker
      /\ httpFile' = httpFile /\ asFile' = asFile
  BY DEF cacheVars
<1>2. CacheTypeOK'
  BY <1>1 DEF TypeOK, CacheTypeOK
<1>3. CacheInv'
  BY <1>1 DEF CacheInv, Fresh, Published
<1> QED BY <1>2, <1>3

\* What the invariant says of a build.
LEMMA BuildFacts ==
  ASSUME IInv, NEW b \in Builds
  PROVE  /\ TypeOK /\ CacheInv /\ Writing(b) /\ TableInv(b)
         /\ now \in Time /\ upstream \in Upstreams /\ pc[b] \in Steps
         /\ cats[b] \in Selections \cup {{}} /\ begun[b] \in Time /\ cloned[b] \in Time
         /\ next[b] \in 1 .. Len(RepoLists) + 1 /\ fromCache[b] \in BOOLEAN
         /\ table[b] \in Tables(Membership)
         /\ Running(b) => begun[b] <= now
<1>1. TypeOK /\ CacheInv /\ Writing(b) /\ TableInv(b)
  BY DEF IInv
<1> QED BY <1>1 DEF TypeOK, Tables, Steps, TableInv

\* What is fresh, or just read, is recent to a build that runs.
LEMMA FreshIsRecent ==
  ASSUME NEW b, now \in Time, begun[b] \in Time, begun[b] <= now
  PROVE  /\ now \in Recent(b)
         /\ \A t \in Time : t <= now /\ Fresh(t) => t \in Recent(b)
<1>1. /\ now \in Int /\ begun[b] \in Int /\ CacheMaxAge \in Int /\ CacheMaxAge > 0
      /\ \A t \in Time : t \in Int
  BY Numbers DEF Time
<1> QED BY <1>1 DEF Recent, Fresh

\* While a build does not start, what is recent to it does not change.
LEMMA RecentSame ==
  ASSUME NEW b, now' = now, upstream' = upstream, begun'[b] = begun[b]
  PROVE  /\ \A t : t \in Recent(b)' <=> t \in Recent(b)
         /\ \A s : s \in Announced(b)' <=> s \in Announced(b)
<1>1. \A t : t \in Recent(b)' <=> t \in Recent(b)
  BY DEF Recent
<1> QED BY <1>1 DEF Announced, Published

-----------------------------------------------------------------------------
(* The repository's cache *)

\* A build turns to the repository, cached or cloned: it starts to collect
\* what was published at an instant recent to it.
LEMMA CollectStarts ==
  ASSUME IInv, NEW b \in Builds, pc[b] \in {"repo", "remove", "write"},
         CacheInv', CacheTypeOK', now' = now, upstream' = upstream,
         NEW step \in {"collect"}, NEW n \in {1}, NEW cache \in BOOLEAN,
         Becomes(b, step, cats[b], begun[b], cloned[b], n, cache, table[b]),
         NEW r, r \in Recent(b), \A l \in Lists : (IF cache THEN files'[l] ELSE cloned[b]) = r
  PROVE  IInv'
<1>1. /\ TypeOK /\ TableInv(b)
      /\ now \in Time /\ upstream \in Upstreams /\ pc[b] \in Steps
      /\ cats[b] \in Selections \cup {{}} /\ begun[b] \in Time /\ cloned[b] \in Time
      /\ table[b] \in Tables(Membership)
      /\ Running(b) => begun[b] <= now
  BY BuildFacts
<1>2. Running(b) /\ table[b] = EmptyTable /\ begun[b] <= now
  BY <1>1 DEF Running, TableInv
<1>3. step \in Steps /\ n \in 1 .. Len(RepoLists) + 1
  BY Numbers DEF Steps
<1>4. fromCache'[b] = cache
  BY <1>1 DEF Becomes, TypeOK
<1>5. /\ TypeOK'
      /\ \A c \in Builds : c # b => Same(c)
      /\ pc'[b] = step /\ cats'[b] = cats[b] /\ begun'[b] = begun[b] /\ cloned'[b] = cloned[b]
      /\ next'[b] = n /\ table'[b] = table[b]
  BY <1>1, <1>3, Becoming
<1>6. r \in Recent(b)'
  BY <1>5, RecentSame
<1>7. \A l \in Lists : Copy(b, l)' = r
  BY <1>4, <1>5 DEF Copy
<1>8. 1 .. (next'[b] - 1) = {}
  BY <1>5
<1>9. HoldsIn(upstream', cats'[b], 1 .. (next'[b] - 1), table'[b], r, r, {})
  BY <1>2, <1>5, <1>8, EmptyHolds
<1>10. begun'[b] <= now' /\ next'[b] \in 1 .. Len(RepoLists) + 1
  BY <1>2, <1>3, <1>5
<1>11. TableInv(b)'
  BY <1>5, <1>6, <1>7, <1>9, <1>10, ToCollect
<1>12. Writing(b)'
  BY <1>5 DEF Writing
<1> QED BY <1>2, <1>5, <1>11, <1>12, BuildKeeps

\* The three ways to start it.
LEMMA CollectStartsKeeps ==
  ASSUME IInv, NEW b \in Builds, UseCachedRepo(b) \/ WriteMarker(b) \/ CachingFails(b)
  PROVE  IInv'
<1>1. /\ TypeOK /\ CacheInv /\ Writing(b)
      /\ now \in Time /\ begun[b] \in Time /\ cloned[b] \in Time
      /\ next[b] \in 1 .. Len(RepoLists) + 1
      /\ Running(b) => begun[b] <= now
  BY BuildFacts
<1> DEFINE Turns(cache) ==
             Becomes(b, "collect", cats[b], begun[b], cloned[b], 1, cache, table[b])
<1>0. ASSUME NEW cache, cache \in BOOLEAN, ReadFrom(b, cache), UNCHANGED <<cats, begun, cloned, table>>
      PROVE  Turns(cache)
  <2>1. "collect" \in Steps /\ 1 \in 1 .. Len(RepoLists) + 1
    BY Numbers DEF Steps
  <2>2. cats[b] \in Selections \cup {{}} /\ table[b] \in Tables(Membership)
    BY BuildFacts
  <2> QED BY <1>0, <1>1, <2>1, <2>2 DEF ReadFrom, Goto, Becomes, TypeOK
<1> HIDE DEF Turns
<1>2. pc[b] \in {"repo", "remove", "write"} => begun[b] <= now
  BY <1>1 DEF Running
<1>3. pc[b] \in {"repo", "remove", "write"} =>
        /\ now \in Recent(b)
        /\ \A t \in Time : t <= now /\ Fresh(t) => t \in Recent(b)
  BY <1>1, <1>2, FreshIsRecent
<1>4. CASE UseCachedRepo(b)
  <2>1. /\ pc[b] = "repo" /\ marker # None /\ Fresh(marker) /\ ReadFrom(b, TRUE)
        /\ UNCHANGED <<now, upstream, cacheVars>>
        /\ cats' = cats /\ begun' = begun /\ cloned' = cloned /\ table' = table
    BY <1>4 DEF UseCachedRepo
  <2>2. CacheInv' /\ CacheTypeOK'
    BY <1>1, <2>1, CacheFrame
  <2>3. marker \in Time /\ marker <= now /\ \A l \in Lists : files[l] = marker
    BY <1>1, <2>1 DEF CacheInv, TypeOK
  <2>4. marker \in Recent(b)
    BY <1>3, <2>1, <2>3
  <2>5. now' = now /\ upstream' = upstream /\ files' = files
    BY <2>1 DEF cacheVars
  <2>6. \A l \in Lists : (IF TRUE THEN files'[l] ELSE cloned[b]) = marker
    BY <2>3, <2>5
  <2> DEFINE r == marker
  <2>7. r \in Recent(b) /\ \A l \in Lists : (IF TRUE THEN files'[l] ELSE cloned[b]) = r
    BY <2>4, <2>6
  <2>8. Turns(TRUE)
    BY <1>0, <2>1
  <2> HIDE DEF r
  <2> QED BY <2>1, <2>2, <2>5, <2>7, <2>8, CollectStarts DEF Turns
<1>5. CASE WriteMarker(b)
  <2>1. /\ pc[b] = "write" /\ next[b] \notin Lists /\ marker' = now /\ ReadFrom(b, TRUE)
        /\ now' = now /\ upstream' = upstream /\ files' = files /\ httpFile' = httpFile
        /\ asFile' = asFile
        /\ cats' = cats /\ begun' = begun /\ cloned' = cloned /\ table' = table
    BY <1>5 DEF WriteMarker
  <2>2. \A l \in Lists : l < next[b]
    BY <1>1, <2>1, Numbers
  <2>3. cloned[b] = now /\ \A l \in Lists : files[l] = now
    BY <1>1, <2>1, <2>2 DEF Writing
  <2>4. CacheTypeOK'
    BY <1>1, <2>1 DEF TypeOK, CacheTypeOK
  <2>5. now <= now
    BY <1>1 DEF Time
  <2>6. CacheInv'
    BY <1>1, <2>1, <2>3, <2>5 DEF CacheInv, Fresh, Published
  <2> DEFINE r == now
  <2>7. r \in Recent(b) /\ \A l \in Lists : (IF TRUE THEN files'[l] ELSE cloned[b]) = r
    BY <1>3, <2>1, <2>3
  <2>8. Turns(TRUE)
    BY <1>0, <2>1
  <2> HIDE DEF r
  <2> QED BY <2>1, <2>4, <2>6, <2>7, <2>8, CollectStarts DEF Turns
<1>6. CASE CachingFails(b)
  <2>1. /\ pc[b] \in {"remove", "write"} /\ ReadFrom(b, FALSE)
        /\ UNCHANGED <<now, upstream, cacheVars>>
        /\ cats' = cats /\ begun' = begun /\ cloned' = cloned /\ table' = table
    BY <1>6 DEF CachingFails
  <2>2. CacheInv' /\ CacheTypeOK'
    BY <1>1, <2>1, CacheFrame
  <2>3. cloned[b] = now
    BY <1>1, <2>1 DEF Writing
  <2> DEFINE r == now
  <2>4. r \in Recent(b) /\ \A l \in Lists : (IF FALSE THEN files'[l] ELSE cloned[b]) = r
    BY <1>3, <2>1, <2>3
  <2>5. Turns(FALSE)
    BY <1>0, <2>1
  <2> HIDE DEF r
  <2> QED BY <2>1, <2>2, <2>4, <2>5, CollectStarts DEF Turns
<1> QED BY <1>4, <1>5, <1>6

\* The steps that replace the cached repository.
LEMMA CachingKeeps ==
  ASSUME IInv, NEW b \in Builds, Clone(b) \/ RemoveFile(b) \/ Removed(b) \/ WriteList(b)
  PROVE  IInv'
<1>1. /\ TypeOK /\ CacheInv /\ Writing(b) /\ TableInv(b)
      /\ now \in Time /\ upstream \in Upstreams /\ pc[b] \in Steps
      /\ cats[b] \in Selections \cup {{}} /\ begun[b] \in Time /\ cloned[b] \in Time
      /\ next[b] \in 1 .. Len(RepoLists) + 1 /\ fromCache[b] \in BOOLEAN
      /\ table[b] \in Tables(Membership)
      /\ Running(b) => begun[b] <= now
  BY BuildFacts
<1>2. pc[b] \in {"repo", "remove", "write"} /\ now' = now /\ upstream' = upstream
  BY DEF Clone, RemoveFile, Removed, WriteList
<1>3. Running(b) /\ table[b] = EmptyTable /\ begun[b] <= now
  BY <1>1, <1>2 DEF Running, TableInv
<1>4. ASSUME NEW step \in {"remove", "write"}, NEW clone \in Time, NEW n \in 1 .. Len(RepoLists) + 1,
             Becomes(b, step, cats[b], begun[b], clone, n, fromCache[b], table[b]),
             CacheTypeOK', CacheInv', clone = now,
             step = "remove" /\ marker' # None => ~Fresh(marker'),
             step = "write" => marker' = None /\ \A l \in Lists : l < n => files'[l] = clone
      PROVE  IInv'
  <2>1. step \in Steps
    BY DEF Steps
  <2>2. /\ TypeOK'
        /\ \A c \in Builds : c # b => Same(c)
        /\ pc'[b] = step /\ begun'[b] = begun[b] /\ cloned'[b] = clone
        /\ next'[b] = n /\ table'[b] = table[b]
    BY <1>1, <1>4, <2>1, Becoming
  <2>3. TableInv(b)'
    BY <1>2, <1>3, <2>2, ToNothing
  <2>4. Writing(b)'
    BY <1>2, <1>4, <2>2 DEF Writing, Fresh
  <2> QED BY <1>2, <1>3, <1>4, <2>2, <2>3, <2>4, BuildKeeps
<1>5. CASE Clone(b)
  <2>1. /\ Goto(b, "remove") /\ cloned' = [cloned EXCEPT ![b] = now]
        /\ marker # None => ~Fresh(marker)
        /\ UNCHANGED <<now, upstream, cacheVars, cats, begun, next, fromCache, table>>
    BY <1>5 DEF Clone
  <2>2. Becomes(b, "remove", cats[b], begun[b], now, next[b], fromCache[b], table[b])
    BY <1>1, <2>1 DEF Steps, Goto, Becomes, TypeOK
  <2>3. CacheInv' /\ CacheTypeOK' /\ marker' = marker
    BY <1>1, <2>1, CacheFrame DEF cacheVars
  <2> QED BY <1>1, <1>4, <2>1, <2>2, <2>3
<1>6. CASE RemoveFile(b)
  <2>1. /\ pc[b] = "remove" /\ httpFile' = httpFile /\ asFile' = asFile
        /\ \/ marker' = marker /\ \E l \in Lists : files' = [files EXCEPT ![l] = None]
           \/ marker' = None /\ files' = files
        /\ UNCHANGED <<pc, cats, begun, cloned, next, fromCache, table>>
    BY <1>6 DEF RemoveFile, buildVars, repoVars
  <2>2. Becomes(b, "remove", cats[b], begun[b], cloned[b], next[b], fromCache[b], table[b])
    BY <1>1, <2>1 DEF Steps, Becomes, TypeOK
  <2>3. files' \in [Lists -> Time \cup {None}] /\ marker' \in Time \cup {None}
    BY <1>1, <2>1 DEF TypeOK
  <2>4. CacheTypeOK'
    BY <1>1, <1>2, <2>1, <2>3 DEF TypeOK, CacheTypeOK
  <2>5. marker' # None => marker' = marker /\ ~Fresh(marker)
    BY <1>1, <2>1 DEF Writing
  <2>6. CacheInv'
    BY <1>1, <1>2, <2>1, <2>5 DEF CacheInv, Fresh, Published
  <2>7. cloned[b] = now
    BY <1>1, <2>1 DEF Writing
  <2> QED BY <1>1, <1>4, <2>2, <2>4, <2>5, <2>6, <2>7
<1>7. CASE Removed(b)
  <2>1. /\ pc[b] = "remove" /\ marker = None /\ Goto(b, "write") /\ next' = [next EXCEPT ![b] = 1]
        /\ UNCHANGED <<now, upstream, cacheVars, cats, begun, cloned, fromCache, table>>
    BY <1>7 DEF Removed
  <2>2. Becomes(b, "write", cats[b], begun[b], cloned[b], 1, fromCache[b], table[b])
    BY <1>1, <2>1, Numbers DEF Steps, Goto, Becomes, TypeOK
  <2>3. CacheInv' /\ CacheTypeOK' /\ marker' = None
    BY <1>1, <2>1, CacheFrame DEF cacheVars
  <2>4. cloned[b] = now
    BY <1>1, <2>1 DEF Writing
  <2>5. 1 \in 1 .. Len(RepoLists) + 1 /\ \A l \in Lists : ~(l < 1)
    BY Numbers
  <2> QED BY <1>1, <1>4, <2>2, <2>3, <2>4, <2>5
<1>8. CASE WriteList(b)
  <2>1. /\ pc[b] = "write" /\ next[b] \in Lists /\ files' = [files EXCEPT ![next[b]] = cloned[b]]
        /\ next' = [next EXCEPT ![b] = next[b] + 1]
        /\ UNCHANGED <<marker, httpFile, asFile, pc, cats, begun, cloned, fromCache, table>>
    BY <1>8 DEF WriteList, Cached
  <2>2. next[b] + 1 \in 1 .. Len(RepoLists) + 1
    BY <2>1, Numbers
  <2>3. Becomes(b, "write", cats[b], begun[b], cloned[b], next[b] + 1, fromCache[b], table[b])
    BY <1>1, <2>1, <2>2 DEF Steps, Becomes, TypeOK
  <2>4. files' \in [Lists -> Time \cup {None}]
    BY <1>1, <2>1 DEF TypeOK
  <2>5. CacheTypeOK'
    BY <1>1, <1>2, <2>1, <2>4 DEF TypeOK, CacheTypeOK
  <2>6. /\ cloned[b] = now /\ marker = None /\ \A l \in Lists : l < next[b] => files[l] = cloned[b]
    BY <1>1, <2>1 DEF Writing
  <2>7. CacheInv'
    BY <1>1, <1>2, <2>1, <2>6 DEF CacheInv, Fresh, Published
  <2>8. \A l \in Lists : l < next[b] + 1 => l < next[b] \/ l = next[b]
    BY <1>1, Numbers
  <2>9. \A l \in Lists : l < next[b] + 1 => files'[l] = cloned[b]
    BY <1>1, <2>1, <2>6, <2>8 DEF TypeOK
  <2> QED BY <1>1, <1>4, <2>1, <2>2, <2>3, <2>5, <2>6, <2>7, <2>9
<1> QED BY <1>5, <1>6, <1>7, <1>8

\* The sources folded in when a build has come past the repository.
At(step) == IF step = "http" THEN Lists
            ELSE IF step = "as" THEN Lists \cup {HttpList}
            ELSE IF step = "file" THEN Lists \cup {HttpList, AS}
            ELSE Lists \cup {HttpList, AS, File}

\* A build goes on to the next source.
LEMMA MovesOn ==
  ASSUME IInv, NEW b \in Builds, Running(b),
         CacheInv', CacheTypeOK', now' = now, upstream' = upstream,
         NEW step \in {"http", "as", "file", "merge"}, NEW clone \in Time,
         NEW n \in 1 .. Len(RepoLists) + 1, NEW cache \in BOOLEAN, NEW new \in Tables(Membership),
         Becomes(b, step, cats[b], begun[b], clone, n, cache, new),
         NEW r, r \in Recent(b), NEW h, h \in Recent(b), NEW s, s \in Announced(b),
         HoldsIn(upstream, cats[b], At(step), new, r, h, s)
  PROVE  IInv'
<1>1. /\ TypeOK /\ cats[b] \in Selections \cup {{}} /\ begun[b] \in Time
      /\ Running(b) => begun[b] <= now
  BY BuildFacts
<1>2. step \in Steps
  BY DEF Steps
<1>3. /\ TypeOK'
      /\ \A c \in Builds : c # b => Same(c)
      /\ pc'[b] = step /\ cats'[b] = cats[b] /\ begun'[b] = begun[b] /\ table'[b] = new
  BY <1>1, <1>2, Becoming
<1>4. /\ \A t : t \in Recent(b)' <=> t \in Recent(b)
      /\ \A t : t \in Announced(b)' <=> t \in Announced(b)
  BY <1>3, RecentSame
<1>5. Folded(b)' = At(step)
  BY <1>3 DEF Folded, At
<1>6. TableInv(b)'
  <2>1. HoldsIn(upstream', cats'[b], Folded(b)', table'[b], r, h, s)
    BY <1>3, <1>5
  <2>2. r \in Recent(b)' /\ h \in Recent(b)' /\ s \in Announced(b)'
    BY <1>4
  <2>3. begun'[b] <= now'
    BY <1>1, <1>3
  <2>4. pc'[b] \in {"http", "as", "file", "merge"}
    BY <1>3
  <2> QED BY <2>1, <2>2, <2>3, <2>4, ToSources
<1>7. Writing(b)'
  BY <1>3 DEF Writing
<1> QED BY <1>3, <1>6, <1>7, BuildKeeps

\* A build that ends drops its table.
LEMMA EndKeeps ==
  ASSUME IInv, NEW b \in Builds, Running(b),
         CacheInv', CacheTypeOK', now' = now, upstream' = upstream,
         NEW step \in {"done", "failed"}, NEW selection \in Selections \cup {{}},
         pc' = [pc EXCEPT ![b] = step], cats' = [cats EXCEPT ![b] = selection], Leave(b)
  PROVE  IInv'
<1>1. TypeOK /\ now \in Time
  BY BuildFacts
<1>2. step \in Steps /\ 0 \in Time /\ 1 \in 1 .. Len(RepoLists) + 1 /\ 0 <= now
  BY <1>1, Numbers DEF Steps, Time
<1> DEFINE n == 1
           start == 0
           cache == FALSE
           new == EmptyTable
<1>4. new \in Tables(Membership)
  BY EmptyHolds
<1>3. /\ Becomes(b, step, selection, start, start, n, cache, new)
      /\ n \in 1 .. Len(RepoLists) + 1 /\ cache \in BOOLEAN /\ start \in Time
  BY <1>2, <1>4 DEF Becomes, Leave
<1> HIDE DEF n, start, cache, new
<1>5. /\ TypeOK'
      /\ \A c \in Builds : c # b => Same(c)
      /\ pc'[b] = step /\ begun'[b] = start /\ table'[b] = new
  BY <1>1, <1>2, <1>3, <1>4, Becoming
<1>6. TableInv(b)'
  BY <1>2, <1>5, ToNothing DEF start, new
<1>7. Writing(b)'
  BY <1>5 DEF Writing
<1> QED BY <1>5, <1>6, <1>7, BuildKeeps

\* Whatever its format is, a selected list is folded as the parser read it.
LEMMA CollectListFolds ==
  ASSUME NEW b \in Builds, CollectList(b), table = [c \in Builds |-> table[c]]
  PROVE  table' = [table EXCEPT ![b] =
           IF next[b] \in SelectLists(b)
           THEN Fold(table[b], Listed(b, next[b]), <<<<next[b], 1, RepoLists[next[b]]>>>>)
           ELSE table[b]]
<1> DEFINE l == next[b]
           S == Listed(b, l)
           ms == <<<<l, 1, RepoLists[l]>>>>
<1>1. CASE l \in SelectLists(b)
  <2>1. PICK format \in Formats :
          /\ S \subseteq Writable(format)
          /\ table' = [table EXCEPT ![b] = Fold(table[b], Read(format, S), ms)]
    BY <1>1 DEF CollectList
  <2>2. ParsersAssumption
    BY MkDatabaseAssumption DEF MkDatabaseAssumption
  <2> HIDE DEF S, ms
  <2>3. Read(format, S) = S
    BY <2>1, <2>2, ParsersRead
  <2> QED BY <1>1, <2>1, <2>3 DEF S, ms
<1>2. CASE l \notin SelectLists(b)
  BY <1>2 DEF CollectList
<1> QED BY <1>1, <1>2

\* collect folds one list after the other, and then the HTTP list comes.
LEMMA CollectKeeps ==
  ASSUME IInv, NEW b \in Builds, CollectList(b) \/ Collected(b)
  PROVE  IInv'
<1>1. /\ TypeOK /\ CacheInv /\ TableInv(b)
      /\ now \in Time /\ upstream \in Upstreams
      /\ cats[b] \in Selections \cup {{}} /\ begun[b] \in Time /\ cloned[b] \in Time
      /\ next[b] \in 1 .. Len(RepoLists) + 1 /\ fromCache[b] \in BOOLEAN
      /\ table[b] \in Tables(Membership)
      /\ Running(b) => begun[b] <= now
  BY BuildFacts
<1>2. /\ pc[b] = "collect" /\ UNCHANGED <<now, upstream, cacheVars>>
      /\ now' = now /\ upstream' = upstream /\ files' = files
  BY DEF CollectList, Collected, cacheVars
<1>3. Running(b) /\ begun[b] <= now
  BY <1>1, <1>2 DEF Running
<1>4. CacheInv' /\ CacheTypeOK'
  BY <1>1, <1>2, CacheFrame
<1>5. PICK r \in Recent(b) : (\A l \in Lists : Copy(b, l) = r) /\ Holds(b, r, r, {})
  BY <1>1, <1>2 DEF TableInv
<1>6. r \in Time /\ {} \in Announced(b)
  BY DEF Recent, Announced
<1>7. Folded(b) = 1 .. (next[b] - 1) /\ Folded(b) \subseteq Lists
  BY <1>1, <1>2, Numbers DEF Folded
<1>8. HoldsIn(upstream, cats[b], 1 .. (next[b] - 1), table[b], r, r, {})
  BY <1>5, <1>7, HoldsParts DEF AllSources
<1>9. CASE CollectList(b)
  <2> DEFINE l == next[b]
             new == IF l \in SelectLists(b)
                    THEN Fold(table[b], Listed(b, l), <<<<l, 1, RepoLists[l]>>>>) ELSE table[b]
             step == "collect"
             n == l + 1
  <2>16. table' = [table EXCEPT ![b] = new]
    BY <1>1, <1>9, CollectListFolds DEF TypeOK
  <2>1. /\ l \in Lists /\ table' = [table EXCEPT ![b] = new] /\ next' = [next EXCEPT ![b] = n]
        /\ UNCHANGED <<pc, cats, begun, cloned, fromCache>>
    BY <1>9, <2>16 DEF CollectList
  <2>2. Gives(upstream, cats[b], l, table[b], new, r, r, {})
    <3> DEFINE t == table[b]
    <3>1. l \in Lists /\ t \in Tables(Membership) /\ Copy(b, l) = r
      BY <1>1, <1>5, <2>1
    <3> HIDE DEF t, l
    <3>2. Gives(upstream, cats[b], l, t,
               IF l \in SelectLists(b) THEN Fold(t, Listed(b, l), <<<<l, 1, RepoLists[l]>>>>) ELSE t,
               r, r, {})
      BY <1>6, <3>1, ListGives
    <3> QED BY <3>2 DEF t
  <2>14. step \in Steps /\ new \in Tables(Membership)
    BY <2>2 DEF Gives, Steps
  <2> HIDE DEF new
  <2>15. n \in 1 .. Len(RepoLists) + 1
    BY <2>1, Numbers
  <2>3. Becomes(b, step, cats[b], begun[b], cloned[b], n, fromCache[b], new)
    BY <1>1, <1>2, <2>1, <2>14, <2>15 DEF Becomes, TypeOK
  <2>4. n \in 1 .. Len(RepoLists) + 1 /\ (1 .. (l - 1)) \cup {l} = 1 .. (n - 1)
    BY <2>1, Numbers
  <2>5. HoldsIn(upstream, cats[b], 1 .. (n - 1), new, r, r, {})
    <3> DEFINE t == table[b]
               L == 1 .. (l - 1)
    <3>1. HoldsIn(upstream, cats[b], L, t, r, r, {}) /\ Gives(upstream, cats[b], l, t, new, r, r, {})
      BY <1>8, <2>2
    <3> HIDE DEF t, L, l
    <3>2. HoldsIn(upstream, cats[b], L \cup {l}, new, r, r, {})
      BY <3>1, GivesHolds
    <3> QED BY <2>4, <3>2 DEF L, l
  <2> HIDE DEF l, n, step
  <2>7. /\ TypeOK'
        /\ \A c \in Builds : c # b => Same(c)
        /\ pc'[b] = step /\ cats'[b] = cats[b] /\ begun'[b] = begun[b] /\ cloned'[b] = cloned[b]
        /\ next'[b] = n /\ table'[b] = new
    BY <1>1, <1>4, <2>3, Becoming
  <2>8. \A k \in Lists : Copy(b, k)' = r
    BY <1>2, <1>5, <2>1 DEF Copy
  <2>9. r \in Recent(b)'
    BY <1>2, <2>7, RecentSame
  <2>10. begun'[b] <= now' /\ pc'[b] = "collect" /\ next'[b] \in 1 .. Len(RepoLists) + 1
    BY <1>2, <1>3, <2>4, <2>7 DEF step
  <2>11. HoldsIn(upstream', cats'[b], 1 .. (next'[b] - 1), table'[b], r, r, {})
    BY <1>2, <2>5, <2>7
  <2>12. TableInv(b)'
    BY <2>8, <2>9, <2>10, <2>11, ToCollect
  <2>13. Writing(b)'
    BY <2>10 DEF Writing
  <2> QED BY <1>2, <1>3, <1>4, <2>7, <2>12, <2>13, BuildKeeps
<1>10. CASE Collected(b)
  <2> DEFINE step == "http"
             n == 1
             clone == 0
             cache == FALSE
             new == table[b]
             s == {}
             h == r
  <2>1. /\ next[b] \notin Lists /\ Goto(b, "http") /\ next' = [next EXCEPT ![b] = 1]
        /\ cloned' = [cloned EXCEPT ![b] = 0] /\ fromCache' = [fromCache EXCEPT ![b] = FALSE]
        /\ UNCHANGED <<cats, begun, table>>
    BY <1>10 DEF Collected
  <2>2. Becomes(b, step, cats[b], begun[b], clone, n, cache, new)
    BY <1>1, <2>1, Numbers DEF Becomes, TypeOK, Goto, Steps, Time
  <2>3. 1 .. (next[b] - 1) = Lists
    BY <1>1, <2>1, Numbers
  <2>4. HoldsIn(upstream, cats[b], At(step), new, r, h, s)
    BY <1>8, <2>3 DEF At
  <2>5. /\ step \in {"http", "as", "file", "merge"} /\ clone \in Time
        /\ n \in 1 .. Len(RepoLists) + 1 /\ cache \in BOOLEAN /\ new \in Tables(Membership)
        /\ h \in Recent(b) /\ s \in Announced(b)
    BY <1>1, <1>6, Numbers DEF Time
  <2> HIDE DEF step, n, clone, cache, new, s, h
  <2> QED BY <1>2, <1>3, <1>4, <2>2, <2>4, <2>5, MovesOn
<1> QED BY <1>9, <1>10

-----------------------------------------------------------------------------
(* The sources that follow *)

\* The build's table before a source is folded in, source by source.
LEMMA HoldsBefore ==
  ASSUME IInv, NEW b \in Builds, NEW step \in {"http", "as", "file", "merge"}, pc[b] = step
  PROVE  \E r \in Recent(b), h \in Recent(b), s \in Announced(b) :
           HoldsIn(upstream, cats[b], At(step), table[b], r, h, s)
<1>1. TableInv(b)
  BY BuildFacts
<1>2. PICK r \in Recent(b), h \in Recent(b), s \in Announced(b) : Holds(b, r, h, s)
  BY <1>1 DEF TableInv
<1>3. Folded(b) = At(step) /\ Folded(b) \subseteq AllSources
  BY DEF Folded, At, AllSources
<1>4. HoldsIn(upstream, cats[b], At(step), table[b], r, h, s)
  BY <1>2, <1>3, HoldsParts
<1> QED BY <1>2, <1>4

\* A source that a build folds in, or skips, gives what it said when it was
\* read, and the next one follows.
LEMMA SourceKeeps ==
  ASSUME IInv, NEW b \in Builds, CacheInv', CacheTypeOK', now' = now, upstream' = upstream,
         NEW k, NEW step \in {"as", "file", "merge"},
         \/ pc[b] = "http" /\ k = HttpList /\ step = "as"
         \/ pc[b] = "as" /\ k = AS /\ step = "file"
         \/ pc[b] = "file" /\ k = File /\ step = "merge",
         NEW h, h \in Recent(b), NEW s, s \in Announced(b), NEW new,
         \A r \in Recent(b), g \in Recent(b), a \in Announced(b) :
            Gives(upstream, cats[b], k, table[b], new, r,
                  IF k = HttpList THEN h ELSE g, IF k = AS THEN s ELSE a),
         Goto(b, step), table' = [table EXCEPT ![b] = new],
         UNCHANGED <<cats, begun, repoVars>>
  PROVE  IInv'
<1>1. /\ TypeOK /\ cats[b] \in Selections \cup {{}} /\ begun[b] \in Time /\ cloned[b] \in Time
      /\ next[b] \in 1 .. Len(RepoLists) + 1 /\ fromCache[b] \in BOOLEAN
  BY BuildFacts
<1>2. pc[b] \in {"http", "as", "file"} /\ Running(b)
  BY DEF Running
<1>3. PICK r \in Recent(b), g \in Recent(b), a \in Announced(b) :
        HoldsIn(upstream, cats[b], At(pc[b]), table[b], r, g, a)
  <2> DEFINE here == pc[b]
  <2>1. here \in {"http", "as", "file", "merge"} /\ pc[b] = here
    BY <1>2
  <2> HIDE DEF here
  <2>2. \E r \in Recent(b), g \in Recent(b), a \in Announced(b) :
          HoldsIn(upstream, cats[b], At(here), table[b], r, g, a)
    BY <2>1, HoldsBefore
  <2> QED BY <2>2 DEF here
<1> DEFINE h2 == IF k = HttpList THEN h ELSE g
           s2 == IF k = AS THEN s ELSE a
<1>4. h2 \in Recent(b) /\ s2 \in Announced(b)
  BY <1>3
<1>5. Gives(upstream, cats[b], k, table[b], new, r, h2, s2)
  BY <1>3
<1>6. HoldsIn(upstream, cats[b], At(pc[b]), table[b], r, h2, s2)
  <2>1. CASE k = HttpList
    <3>1. At(pc[b]) = Lists
      BY <2>1, Numbers DEF At
    <3>2. HoldsIn(upstream, cats[b], Lists, table[b], r, g, a)
      BY <1>3, <3>1
    <3> HIDE DEF h2, s2
    <3>3. HoldsIn(upstream, cats[b], Lists, table[b], r, h2, s2)
      BY <3>2, Independence
    <3> QED BY <3>1, <3>3
  <2>2. CASE k = AS
    <3>1. At(pc[b]) = Lists \cup {HttpList} /\ h2 = g
      BY <2>2, Numbers DEF At
    <3>2. HoldsIn(upstream, cats[b], Lists \cup {HttpList}, table[b], r, h2, a)
      BY <1>3, <3>1
    <3> HIDE DEF h2, s2
    <3>3. HoldsIn(upstream, cats[b], Lists \cup {HttpList}, table[b], r, h2, s2)
      BY <3>2, Independence
    <3> QED BY <3>1, <3>3
  <2>3. CASE k = File
    <3>1. h2 = g /\ s2 = a
      BY <2>3, Numbers
    <3> QED BY <1>3, <3>1
  <2> QED BY <2>1, <2>2, <2>3
<1>7. At(step) = At(pc[b]) \cup {k}
  BY Numbers DEF At
<1> HIDE DEF h2, s2
<1>8. HoldsIn(upstream, cats[b], At(step), new, r, h2, s2)
  <2> DEFINE L == At(pc[b])
             t == table[b]
  <2>1. HoldsIn(upstream, cats[b], L, t, r, h2, s2) /\ Gives(upstream, cats[b], k, t, new, r, h2, s2)
    BY <1>5, <1>6
  <2>2. At(step) = L \cup {k}
    BY <1>7
  <2> HIDE DEF L, t
  <2>3. HoldsIn(upstream, cats[b], L \cup {k}, new, r, h2, s2)
    BY <2>1, GivesHolds
  <2> QED BY <2>2, <2>3
<1>9. step \in {"http", "as", "file", "merge"} /\ step \in Steps /\ new \in Tables(Membership)
  BY <1>5 DEF Gives, Steps
<1>10. Becomes(b, step, cats[b], begun[b], cloned[b], next[b], fromCache[b], new)
  BY <1>1, <1>9 DEF Becomes, TypeOK, Goto, repoVars
<1> QED BY <1>1, <1>2, <1>3, <1>4, <1>8, <1>9, <1>10, MovesOn

\* A build reads the HTTP list, or skips it.
LEMMA HttpKeeps ==
  ASSUME IInv, NEW b \in Builds, HttpSkipped(b) \/ HttpCached(b) \/ Download(b)
  PROVE  IInv'
<1>1. /\ TypeOK /\ CacheInv /\ now \in Time /\ upstream \in Upstreams /\ begun[b] \in Time
      /\ table[b] \in Tables(Membership) /\ cats[b] \in Selections \cup {{}}
      /\ Running(b) => begun[b] <= now
  BY BuildFacts
<1>2. pc[b] = "http" /\ now' = now /\ upstream' = upstream
  BY DEF HttpSkipped, HttpCached, Download
<1>3. Running(b) /\ begun[b] <= now
  BY <1>1, <1>2 DEF Running
<1>4. /\ now \in Recent(b)
      /\ \A t \in Time : t <= now /\ Fresh(t) => t \in Recent(b)
  BY <1>1, <1>3, FreshIsRecent
<1>5. {} \in Announced(b)
  BY DEF Announced
\* The build goes on with what the list said at h.
<1>6. ASSUME CacheInv', CacheTypeOK', NEW h, h \in Recent(b), NEW new,
             \A r, a : Gives(upstream, cats[b], HttpList, table[b], new, r, h, a),
             Goto(b, "as"), table' = [table EXCEPT ![b] = new],
             UNCHANGED <<cats, begun, repoVars>>
      PROVE  IInv'
  <2> DEFINE k == HttpList
             step == "as"
             s == {}
  <2>1. k = HttpList /\ k # AS /\ step = "as" /\ step \in {"as", "file", "merge"} /\ s \in Announced(b)
    BY <1>5, Numbers
  <2> HIDE DEF k, step, s
  <2>2. \A r \in Recent(b), g \in Recent(b), a \in Announced(b) :
          Gives(upstream, cats[b], k, table[b], new, r,
                IF k = HttpList THEN h ELSE g, IF k = AS THEN s ELSE a)
    BY <1>6, <2>1
  <2>3. Goto(b, step)
    BY <1>6, <2>1
  <2> QED BY <1>2, <1>6, <2>1, <2>2, <2>3, SourceKeeps
\* Or it fails.
<1>7. ASSUME CacheInv', CacheTypeOK', Fail(b)
      PROVE  IInv'
  <2> DEFINE step == "failed"
             selection == {}
  <2>1. /\ step \in {"done", "failed"} /\ selection \in Selections \cup {{}}
        /\ pc' = [pc EXCEPT ![b] = step] /\ cats' = [cats EXCEPT ![b] = selection] /\ Leave(b)
    BY <1>7 DEF Fail
  <2> HIDE DEF step, selection
  <2> QED BY <1>2, <1>3, <1>7, <2>1, EndKeeps
<1>8. ASSUME Has(b, HttpCategory), NEW at, FoldHttp(b, at)
      PROVE  \E new : /\ \A r, a : Gives(upstream, cats[b], HttpList, table[b], new, r, at, a)
                      /\ table' = [table EXCEPT ![b] = new]
  <2>1. PICK order \in SetToSeqs(HttpProviders) :
               table' = [table EXCEPT ![b] = FoldGroups(table[b], at, order)]
    BY <1>8 DEF FoldHttp
  <2> DEFINE t == table[b]
             new == FoldGroups(t, at, order)
  <2>2. t \in Tables(Membership)
    BY <1>1
  <2> HIDE DEF t
  <2>3. \A r, a : Gives(upstream, cats[b], HttpList, t, new, r, at, a)
    BY <1>8, <2>2, HttpGives
  <2>4. table' = [table EXCEPT ![b] = new]
    BY <2>1 DEF t
  <2> HIDE DEF new
  <2> QED BY <2>3, <2>4 DEF t
<1>9. CASE HttpSkipped(b)
  <2>1. /\ ~Has(b, HttpCategory) /\ Goto(b, "as")
        /\ UNCHANGED <<now, upstream, cacheVars>> /\ UNCHANGED <<cats, begun, repoVars>>
        /\ table' = table
    BY <1>9 DEF HttpSkipped
  <2>2. CacheInv' /\ CacheTypeOK'
    BY <1>1, <2>1, CacheFrame
  <2> DEFINE t == table[b]
             h == now
  <2>3. t \in Tables(Membership) /\ h \in Recent(b)
    BY <1>1, <1>4
  <2>4. table' = [table EXCEPT ![b] = t]
    BY <1>1, <2>1 DEF TypeOK
  <2> HIDE DEF t, h
  <2>5. \A r, a : Gives(upstream, cats[b], HttpList, t, t, r, h, a)
    BY <2>1, <2>3, SkippedGives
  <2> QED BY <1>6, <2>1, <2>2, <2>3, <2>4, <2>5 DEF t
<1>10. CASE HttpCached(b)
  <2>1. /\ Has(b, HttpCategory) /\ HttpFresh /\ UNCHANGED <<now, upstream, cacheVars>>
        /\ \/ Goto(b, "as") /\ FoldHttp(b, httpFile.at) /\ UNCHANGED <<cats, begun, repoVars>>
           \/ Fail(b)
    BY <1>10 DEF HttpCached
  <2>2. CacheInv' /\ CacheTypeOK'
    BY <1>1, <2>1, CacheFrame
  <2>3. CASE Fail(b)
    BY <1>7, <2>2, <2>3
  <2>4. CASE Goto(b, "as") /\ FoldHttp(b, httpFile.at) /\ UNCHANGED <<cats, begun, repoVars>>
    <3> DEFINE at == httpFile.at
    <3>1. at \in Time /\ at <= now /\ Fresh(at)
      BY <1>1, <2>1 DEF HttpFresh, CacheInv, TypeOK
    <3>2. at \in Recent(b) /\ FoldHttp(b, at)
      BY <1>4, <2>4, <3>1
    <3> HIDE DEF at
    <3>3. PICK new : /\ \A r, a : Gives(upstream, cats[b], HttpList, table[b], new, r, at, a)
                     /\ table' = [table EXCEPT ![b] = new]
      BY <1>8, <2>1, <3>2
    <3> QED BY <1>6, <2>2, <2>4, <3>2, <3>3
  <2> QED BY <2>1, <2>3, <2>4
<1>11. CASE Download(b)
  <2>1. PICK decodes \in BOOLEAN :
          /\ httpFile' \in {httpFile, [at |-> now, decodes |-> decodes]}
          /\ \/ Goto(b, "as") /\ FoldHttp(b, now) /\ UNCHANGED <<cats, begun, repoVars>>
             \/ Fail(b)
    BY <1>11 DEF Download
  <2>2. Has(b, HttpCategory) /\ files' = files /\ marker' = marker /\ asFile' = asFile
    BY <1>11 DEF Download
  <2>3. httpFile' = httpFile \/ (httpFile'.at = now /\ httpFile' \in [at : Time, decodes : BOOLEAN])
    BY <1>1, <2>1
  <2>4. CacheTypeOK'
    BY <1>1, <1>2, <2>2, <2>3 DEF TypeOK, CacheTypeOK
  <2>5. now <= now
    BY <1>1 DEF Time
  <2>6. CacheInv'
    BY <1>1, <1>2, <2>2, <2>3, <2>5 DEF CacheInv, Fresh, Published
  <2>7. CASE Fail(b)
    BY <1>7, <2>4, <2>6, <2>7
  <2>8. CASE Goto(b, "as") /\ FoldHttp(b, now) /\ UNCHANGED <<cats, begun, repoVars>>
    <3> DEFINE at == now
    <3>1. at \in Recent(b) /\ FoldHttp(b, at)
      BY <1>4, <2>8
    <3> HIDE DEF at
    <3>2. PICK new : /\ \A r, a : Gives(upstream, cats[b], HttpList, table[b], new, r, at, a)
                     /\ table' = [table EXCEPT ![b] = new]
      BY <1>8, <2>2, <3>1
    <3> QED BY <1>6, <2>4, <2>6, <2>8, <3>1, <3>2
  <2> QED BY <2>1, <2>7, <2>8
<1> QED BY <1>9, <1>10, <1>11

\* A build reads the prefixes of the AS, or skips it.
LEMMA ASKeeps ==
  ASSUME IInv, NEW b \in Builds, ASSkipped(b) \/ ASCached(b) \/ FetchAS(b)
  PROVE  IInv'
<1>1. /\ TypeOK /\ CacheInv /\ now \in Time /\ upstream \in Upstreams /\ begun[b] \in Time
      /\ table[b] \in Tables(Membership)
      /\ Running(b) => begun[b] <= now
  BY BuildFacts
<1>2. /\ pc[b] = "as" /\ now' = now /\ upstream' = upstream /\ Goto(b, "file")
      /\ UNCHANGED <<cats, begun, repoVars>>
  BY DEF ASSkipped, ASCached, FetchAS
<1>3. Running(b) /\ begun[b] <= now
  BY <1>1, <1>2 DEF Running
<1>4. /\ now \in Recent(b)
      /\ \A t \in Time : t <= now /\ Fresh(t) => t \in Recent(b)
  BY <1>1, <1>3, FreshIsRecent
<1>5. {} \in Announced(b) /\ \A t \in Recent(b) : Published(<<AS, 1>>, t) \in Announced(b)
  BY DEF Announced
<1>6. ASSUME CacheInv', CacheTypeOK', NEW s, s \in Announced(b), NEW new,
             \A r, g : Gives(upstream, cats[b], AS, table[b], new, r, g, s),
             table' = [table EXCEPT ![b] = new]
      PROVE  IInv'
  <2> DEFINE k == AS
             step == "file"
             h == now
  <2>1. k = AS /\ k # HttpList /\ step = "file" /\ step \in {"as", "file", "merge"} /\ h \in Recent(b)
    BY <1>4, Numbers
  <2> HIDE DEF k, step, h
  <2>2. \A r \in Recent(b), g \in Recent(b), a \in Announced(b) :
          Gives(upstream, cats[b], k, table[b], new, r,
                IF k = HttpList THEN h ELSE g, IF k = AS THEN s ELSE a)
    BY <1>6, <2>1
  <2>3. Goto(b, step)
    BY <1>2, <2>1
  <2> QED BY <1>2, <1>6, <2>1, <2>2, <2>3, SourceKeeps
<1>7. ASSUME NEW s, FoldAS(b, s)
      PROVE  \E new : /\ \A r, g : Gives(upstream, cats[b], AS, table[b], new, r, g, s)
                      /\ table' = [table EXCEPT ![b] = new]
  <2> DEFINE t == table[b]
             ms == [k \in DOMAIN Intersect(b) |-> <<AS, 1, Intersect(b)[k]>>]
             new == Fold(t, s, ms)
  <2>1. t \in Tables(Membership)
    BY <1>1
  <2>2. table' = [table EXCEPT ![b] = new]
    BY <1>7 DEF FoldAS
  <2> HIDE DEF t
  <2>3. \A r, g : Gives(upstream, cats[b], AS, t, new, r, g, s)
    <3> TAKE r, g
    <3> QED BY <2>1, ASGives
  <2> HIDE DEF new
  <2> QED BY <2>2, <2>3 DEF t
<1>8. CASE ASSkipped(b)
  <2>1. /\ Intersect(b) = << >> /\ UNCHANGED <<now, upstream, cacheVars>> /\ table' = table
    BY <1>8 DEF ASSkipped
  <2>2. CacheInv' /\ CacheTypeOK'
    BY <1>1, <2>1, CacheFrame
  <2> DEFINE t == table[b]
             s == {}
  <2>3. t \in Tables(Membership) /\ s \in Announced(b)
    BY <1>1, <1>5
  <2>4. table' = [table EXCEPT ![b] = t]
    BY <1>1, <2>1 DEF TypeOK
  <2> HIDE DEF t, s
  <2>5. \A r, g : Gives(upstream, cats[b], AS, t, t, r, g, s)
    BY <2>1, <2>3, SkippedGives
  <2> QED BY <1>6, <2>2, <2>3, <2>4, <2>5 DEF t
<1>9. CASE ASCached(b)
  <2>1. ASFresh /\ FoldAS(b, asFile.prefixes) /\ UNCHANGED <<now, upstream, cacheVars>>
    BY <1>9 DEF ASCached
  <2>2. CacheInv' /\ CacheTypeOK'
    BY <1>1, <2>1, CacheFrame
  <2> DEFINE s == asFile.prefixes
  <2>3. /\ asFile.at \in Time /\ asFile.at <= now /\ Fresh(asFile.at)
        /\ s \in {Published(<<AS, 1>>, asFile.at), {}}
    BY <1>1, <2>1 DEF ASFresh, CacheInv, TypeOK
  <2>4. s \in Announced(b) /\ FoldAS(b, s)
    BY <1>4, <1>5, <2>1, <2>3
  <2> HIDE DEF s
  <2>5. PICK new : /\ \A r, g : Gives(upstream, cats[b], AS, table[b], new, r, g, s)
                   /\ table' = [table EXCEPT ![b] = new]
    BY <1>7, <2>4
  <2> QED BY <1>6, <2>2, <2>4, <2>5
<1>10. CASE FetchAS(b)
  <2>1. PICK s \in {Published(<<AS, 1>>, now), {}} :
          /\ asFile' \in {asFile, [at |-> now, prefixes |-> s]}
          /\ FoldAS(b, s)
    BY <1>10 DEF FetchAS
  <2>2. files' = files /\ marker' = marker /\ httpFile' = httpFile
    BY <1>10 DEF FetchAS
  <2>3. s \in Announced(b) /\ s \in SUBSET Prefix
    <3>1. <<AS, 1>> \in Keys
      BY DEF Keys
    <3>2. upstream[now][<<AS, 1>>] \in SUBSET Prefix
      BY <1>1, <3>1, PublishedFacts
    <3> QED BY <1>4, <1>5, <3>2 DEF Published
  <2>4. \/ asFile' = asFile
        \/ /\ asFile' \in [at : Time, prefixes : SUBSET Prefix]
           /\ asFile'.at = now /\ asFile'.prefixes = s
    BY <1>1, <2>1, <2>3
  <2>5. CacheTypeOK'
    BY <1>1, <1>2, <2>2, <2>4 DEF TypeOK, CacheTypeOK
  <2>6. now <= now
    BY <1>1 DEF Time
  <2>7. CacheInv'
    BY <1>1, <1>2, <2>1, <2>2, <2>4, <2>6 DEF CacheInv, Fresh, Published
  <2>8. PICK new : /\ \A r, g : Gives(upstream, cats[b], AS, table[b], new, r, g, s)
                   /\ table' = [table EXCEPT ![b] = new]
    BY <1>7, <2>1
  <2> QED BY <1>6, <2>3, <2>5, <2>7, <2>8
<1> QED BY <1>8, <1>9, <1>10

-----------------------------------------------------------------------------
(* The end of a build, and of the argument *)

\* A build reads the local list.
LEMMA FileKeeps ==
  ASSUME IInv, NEW b \in Builds, CollectFile(b)
  PROVE  IInv'
<1>1. /\ TypeOK /\ CacheInv /\ now \in Time /\ begun[b] \in Time
      /\ table[b] \in Tables(Membership)
      /\ Running(b) => begun[b] <= now
  BY BuildFacts
<1> DEFINE t == table[b]
           new == IF Has(b, FileCategory)
                  THEN Fold(t, Published(<<File, 1>>, 0), <<<<File, 1, FileCategory>>>>) ELSE t
           k == File
           step == "merge"
           h == now
           s == {}
<1>2. /\ pc[b] = "file" /\ UNCHANGED <<now, upstream, cacheVars>>
      /\ now' = now /\ upstream' = upstream /\ Goto(b, step)
      /\ UNCHANGED <<cats, begun, repoVars>>
  BY DEF CollectFile
<1>3. table' = [table EXCEPT ![b] = new]
  <2> DEFINE S == Published(<<File, 1>>, 0)
  <2>1. S \subseteq Prefix
    <3> DEFINE key == <<File, 1>>
    <3>1. key \in Keys /\ 0 \in Time
      BY MkDatabaseAssumption DEF Keys, Time, MkDatabaseAssumption
    <3> HIDE DEF key
    <3>2. upstream[0][key] \in SUBSET Prefix
      BY <1>1, <3>1, PublishedFacts DEF TypeOK
    <3> QED BY <3>2 DEF Published, key
  <2>2. ParsersAssumption
    BY MkDatabaseAssumption DEF MkDatabaseAssumption
  <2>3. table' = [table EXCEPT ![b] =
                   IF Has(b, FileCategory)
                   THEN Fold(table[b], Read("parseIPLines", S), <<<<File, 1, FileCategory>>>>)
                   ELSE table[b]]
    BY DEF CollectFile
  <2> HIDE DEF S
  <2>4. Read("parseIPLines", S) = S
    BY <2>1, <2>2, ReadIPLines
  <2> QED BY <2>3, <2>4 DEF S
<1>4. CacheInv' /\ CacheTypeOK'
  BY <1>1, <1>2, CacheFrame
<1>5. h \in Recent(b)
  BY <1>1, <1>2, FreshIsRecent DEF Running
<1>6. /\ s \in Announced(b) /\ k = File /\ k # HttpList /\ k # AS
      /\ step = "merge" /\ step \in {"as", "file", "merge"} /\ t \in Tables(Membership)
  BY <1>1, Numbers DEF Announced
<1> HIDE DEF t, k, step, h, s
<1>7. \A r, g, a : Gives(upstream, cats[b], File, t, new, r, g, a)
  <2> TAKE r, g, a
  <2> QED BY <1>6, FileGives
<1> HIDE DEF new
<1>8. \A r \in Recent(b), g \in Recent(b), a \in Announced(b) :
        Gives(upstream, cats[b], k, table[b], new, r,
              IF k = HttpList THEN h ELSE g, IF k = AS THEN s ELSE a)
  BY <1>6, <1>7 DEF t
<1> QED BY <1>2, <1>3, <1>4, <1>5, <1>6, <1>8, SourceKeeps

\* mergeContained gives each network what broader ones say.
LEMMA MergeKeeps ==
  ASSUME IInv, NEW b \in Builds, Merge(b)
  PROVE  IInv'
<1>1. /\ TypeOK /\ CacheInv /\ now \in Time /\ begun[b] \in Time
      /\ cats[b] \in Selections \cup {{}} /\ cloned[b] \in Time
      /\ next[b] \in 1 .. Len(RepoLists) + 1 /\ fromCache[b] \in BOOLEAN
      /\ table[b] \in Tables(Membership)
      /\ Running(b) => begun[b] <= now
  BY BuildFacts
<1>2. /\ pc[b] = "merge" /\ UNCHANGED <<now, upstream, cacheVars>>
      /\ now' = now /\ upstream' = upstream /\ Goto(b, "output")
      /\ UNCHANGED <<cats, begun, repoVars>>
  BY DEF Merge
<1>3. Running(b) /\ begun[b] <= now
  BY <1>1, <1>2 DEF Running
<1>4. PICK order \in Orders(table[b]) :
        table' = [table EXCEPT ![b] = MergeContained(table[b], order)]
  BY DEF Merge
<1>5. CacheInv' /\ CacheTypeOK'
  BY <1>1, <1>2, CacheFrame
<1>6. PICK r \in Recent(b), h \in Recent(b), s \in Announced(b) :
        HoldsIn(upstream, cats[b], At("merge"), table[b], r, h, s)
  <2> DEFINE step == "merge"
  <2>1. step \in {"http", "as", "file", "merge"} /\ pc[b] = step
    BY <1>2
  <2> HIDE DEF step
  <2>2. \E r \in Recent(b), h \in Recent(b), s \in Announced(b) :
          HoldsIn(upstream, cats[b], At(step), table[b], r, h, s)
    BY <2>1, HoldsBefore
  <2> QED BY <2>2 DEF step
<1>7. At("merge") = AllSources
  BY DEF At, AllSources
<1> DEFINE t == table[b]
           new == MergeContained(t, order)
<1>8. /\ HoldsIn(upstream, cats[b], AllSources, t, r, h, s)
      /\ t \in Tables(Membership) /\ order \in Orders(t)
      /\ table' = [table EXCEPT ![b] = new]
  BY <1>1, <1>4, <1>6, <1>7
<1> HIDE DEF t
<1>9. new \in Tables(Membership) /\ InheritsIn(upstream, cats[b], new, r, h, s)
  BY <1>8, MergeInherits
<1> HIDE DEF new
<1>10. Becomes(b, "output", cats[b], begun[b], cloned[b], next[b], fromCache[b], new)
  BY <1>1, <1>2, <1>8, <1>9 DEF Becomes, TypeOK, Goto, repoVars, Steps
<1>11. /\ TypeOK'
       /\ \A c \in Builds : c # b => Same(c)
       /\ pc'[b] = "output" /\ cats'[b] = cats[b] /\ begun'[b] = begun[b] /\ table'[b] = new
  BY <1>1, <1>5, <1>10, Becoming
<1>12. r \in Recent(b)' /\ h \in Recent(b)' /\ s \in Announced(b)'
  BY <1>2, <1>6, <1>11, RecentSame
<1>13. InheritsIn(upstream', cats'[b], table'[b], r, h, s) /\ begun'[b] <= now'
  BY <1>2, <1>3, <1>9, <1>11
<1>14. TableInv(b)'
  BY <1>11, <1>12, <1>13, ToOutput
<1>15. Writing(b)'
  BY <1>11 DEF Writing
<1> QED BY <1>2, <1>3, <1>5, <1>11, <1>14, <1>15, BuildKeeps

\* A build ends, with a database or without.
LEMMA EndsKeep ==
  ASSUME IInv, NEW b \in Builds, Output(b) \/ Abort(b)
  PROVE  IInv'
<1>1. TypeOK /\ CacheInv /\ cats[b] \in Selections \cup {{}}
  BY BuildFacts
<1>2. UNCHANGED <<now, upstream, cacheVars>> /\ now' = now /\ upstream' = upstream
  BY DEF Output, Abort
<1>3. CacheInv' /\ CacheTypeOK'
  BY <1>1, <1>2, CacheFrame
<1>4. CASE Output(b)
  <2> DEFINE step == "done"
             selection == cats[b]
  <2>1. /\ step \in {"done", "failed"} /\ selection \in Selections \cup {{}}
        /\ pc' = [pc EXCEPT ![b] = step] /\ cats' = [cats EXCEPT ![b] = selection] /\ Leave(b)
    BY <1>1, <1>4 DEF Output, Goto, TypeOK
  <2>2. Running(b)
    BY <1>4 DEF Output, Running
  <2> HIDE DEF step, selection
  <2> QED BY <1>2, <1>3, <2>1, <2>2, EndKeeps
<1>5. CASE Abort(b)
  <2> DEFINE step == "failed"
             selection == {}
  <2>1. /\ step \in {"done", "failed"} /\ selection \in Selections \cup {{}}
        /\ pc' = [pc EXCEPT ![b] = step] /\ cats' = [cats EXCEPT ![b] = selection] /\ Leave(b)
    BY <1>5 DEF Abort, Fail
  <2>2. Running(b)
    BY <1>5 DEF Abort
  <2> HIDE DEF step, selection
  <2> QED BY <1>2, <1>3, <2>1, <2>2, EndKeeps
<1> QED BY <1>4, <1>5

\* A build starts when no other one runs.
LEMMA StartKeeps ==
  ASSUME MaxRunning = 1, IInv, NEW b \in Builds, Start(b)
  PROVE  IInv'
<1>1. /\ TypeOK /\ CacheInv /\ TableInv(b) /\ OneBuild
      /\ now \in Time /\ upstream \in Upstreams /\ cloned[b] \in Time
      /\ next[b] \in 1 .. Len(RepoLists) + 1 /\ fromCache[b] \in BOOLEAN
      /\ table[b] \in Tables(Membership)
  BY BuildFacts DEF IInv
<1>2. PICK selection \in Selections :
        /\ cats' = [cats EXCEPT ![b] = selection]
        /\ pc' = [pc EXCEPT ![b] =
                    IF \E l \in Lists : RepoLists[l] \in selection THEN "repo" ELSE "http"]
  BY DEF Start
<1>3. /\ pc[b] = "idle" /\ UNCHANGED <<now, upstream, cacheVars>> /\ now' = now /\ upstream' = upstream
      /\ begun' = [begun EXCEPT ![b] = now] /\ UNCHANGED <<cloned, next, fromCache, table>>
      /\ files' = files
      /\ Cardinality({c \in Builds : Running(c)}) < 1
  BY DEF Start, cacheVars, repoVars
<1>4. \A c \in Builds : ~Running(c)
  <2> SUFFICES ASSUME NEW c \in Builds, Running(c) PROVE FALSE
    OBVIOUS
  <2>1. {d \in Builds : Running(d)} = {c}
    BY <1>1 DEF OneBuild
  <2>2. Cardinality({c}) = 1
    BY FS_Singleton
  <2> QED BY <1>3, <2>1, <2>2
<1>5. CacheInv' /\ CacheTypeOK'
  BY <1>1, <1>3, CacheFrame
<1> DEFINE step == IF \E l \in Lists : RepoLists[l] \in selection THEN "repo" ELSE "http"
<1>6. /\ step \in {"repo", "http"} /\ step \in Steps
      /\ step = "http" => \A l \in Lists : RepoLists[l] \notin selection
      /\ pc' = [pc EXCEPT ![b] = step]
  BY <1>2 DEF Steps
<1> HIDE DEF step
<1>7. Becomes(b, step, selection, now, cloned[b], next[b], fromCache[b], table[b])
  BY <1>1, <1>2, <1>3, <1>6 DEF Becomes, TypeOK
<1>8. /\ TypeOK'
      /\ \A c \in Builds : c # b => Same(c)
      /\ pc'[b] = step /\ cats'[b] = selection /\ begun'[b] = now /\ table'[b] = table[b]
  BY <1>1, <1>5, <1>7, Becoming
<1>9. table[b] = EmptyTable /\ now <= now
  BY <1>1, <1>3 DEF TableInv, Time
<1>10. OneBuild'
  BY <1>4, <1>8 DEF OneBuild, Running, Same
<1>11. TableInv(b)'
  <2>1. begun'[b] <= now' /\ table'[b] = EmptyTable
    BY <1>3, <1>8, <1>9
  <2>2. CASE step = "repo"
    BY <1>8, <2>1, <2>2, ToNothing
  <2>3. CASE step = "http"
    <3> DEFINE r == now
               s == {}
    <3>1. r \in Recent(b)'
      <4>1. r \in Time /\ r <= now'
        BY <1>1, <1>3, <1>9
      <4>2. begun'[b] - CacheMaxAge < r
        BY <1>1, <1>8, Numbers DEF Time
      <4> QED BY <4>1, <4>2 DEF Recent
    <3>2. s \in Announced(b)'
      BY DEF Announced
    <3>3. Folded(b)' = Lists /\ pc'[b] \in {"http", "as", "file", "merge"}
      BY <1>8, <2>3 DEF Folded
    <3>4. HoldsIn(upstream', cats'[b], Folded(b)', table'[b], r, r, s)
      BY <1>6, <1>8, <2>1, <2>3, <3>3, EmptyHolds
    <3> HIDE DEF r, s
    <3> QED BY <2>1, <3>1, <3>2, <3>3, <3>4, ToSources
  <2> QED BY <1>6, <2>2, <2>3
<1>12. Writing(b)'
  BY <1>6, <1>8 DEF Writing
<1>13. ASSUME NEW c \in Builds, c # b
       PROVE  Writing(c)' /\ TableInv(c)'
  <2>1. pc[c] \notin {"remove", "write"} /\ Same(c)
    BY <1>4, <1>8, <1>13 DEF Running
  <2>2. Writing(c)'
    BY <2>1 DEF Writing, Same
  <2>3. begun[c] \in Time /\ next[c] \in 1 .. Len(RepoLists) + 1 /\ TableInv(c)
    BY BuildFacts
  <2>4. now' \in Time /\ now <= now'
    BY <1>1, <1>3, <1>9
  <2>5. TableInv(c)'
    BY <1>1, <1>3, <2>1, <2>3, <2>4, TableFrame
  <2> QED BY <2>2, <2>5
<1> QED BY <1>5, <1>8, <1>10, <1>11, <1>12, <1>13 DEF IInv

\* Time passes while nobody writes the repository.
LEMMA TickKeeps ==
  ASSUME IInv, Tick
  PROVE  IInv'
<1>1. TypeOK /\ CacheInv /\ OneBuild /\ now \in Time
  BY DEF IInv, TypeOK
<1>2. /\ now < MaxTime /\ now' = now + 1 /\ upstream' = upstream
      /\ files' = files /\ marker' = marker /\ httpFile' = httpFile /\ asFile' = asFile
      /\ \A b \in Builds : pc[b] \notin {"remove", "write"}
      /\ UNCHANGED <<pc, cats, begun, cloned, next, fromCache, table>>
  BY DEF Tick, cacheVars, buildVars, repoVars
<1>3. now' \in Time /\ now <= now' /\ \A t \in Time : t <= now => t <= now'
  BY <1>1, <1>2, Numbers DEF Time
<1>4. TypeOK'
  BY <1>1, <1>2, <1>3 DEF TypeOK
<1>5. \A t \in Time : Fresh(t)' => Fresh(t)
  BY <1>1, <1>2, Numbers DEF Fresh, Time
<1>6. CacheInv'
  <2>1. /\ marker # None => marker \in Time
        /\ httpFile # None => httpFile.at \in Time
        /\ asFile # None => asFile.at \in Time
    BY <1>1 DEF TypeOK
  <2>2. marker' # None => marker' <= now'
    BY <1>1, <1>2, <1>3, <2>1 DEF CacheInv
  <2>3. marker' # None /\ Fresh(marker)' => \A l \in Lists : files'[l] = marker'
    BY <1>1, <1>2, <1>5, <2>1 DEF CacheInv
  <2>4. httpFile' # None => httpFile'.at <= now'
    BY <1>1, <1>2, <1>3, <2>1 DEF CacheInv
  <2>5. asFile' # None => /\ asFile'.at <= now'
                          /\ asFile'.prefixes \in {upstream'[asFile'.at][<<AS, 1>>], {}}
    BY <1>1, <1>2, <1>3, <2>1 DEF CacheInv, Published
  <2> QED BY <2>2, <2>3, <2>4, <2>5 DEF CacheInv, Published
<1>7. OneBuild'
  BY <1>1, <1>2 DEF OneBuild, Running
<1>8. ASSUME NEW c \in Builds
      PROVE  Writing(c)' /\ TableInv(c)'
  <2>1. Writing(c)'
    BY <1>2 DEF Writing
  <2>2. begun[c] \in Time /\ next[c] \in 1 .. Len(RepoLists) + 1 /\ TableInv(c) /\ Same(c)
    BY <1>2, BuildFacts DEF Same
  <2>3. TableInv(c)'
    BY <1>1, <1>2, <1>3, <2>2, TableFrame
  <2> QED BY <2>1, <2>3
<1> QED BY <1>4, <1>6, <1>7, <1>8 DEF IInv

\* Nothing is cached, and nobody builds.
LEMMA MkDatabaseInit == Init => IInv
<1> SUFFICES ASSUME Init PROVE IInv
  OBVIOUS
<1>1. 0 \in Time /\ 1 \in 1 .. Len(RepoLists) + 1 /\ EmptyTable \in [Stored -> Seq(Membership)]
  BY Numbers, EmptyHolds DEF Time, Tables
<1>2. TypeOK
  BY <1>1 DEF Init, TypeOK
<1>3. \A b \in Builds : pc[b] = "idle" /\ table[b] = EmptyTable
  BY DEF Init
<1>4. CacheInv /\ OneBuild
  BY <1>3 DEF Init, CacheInv, OneBuild, Running
<1>5. \A b \in Builds : Writing(b) /\ TableInv(b)
  BY <1>3 DEF Writing, TableInv, Running
<1> QED BY <1>2, <1>4, <1>5 DEF IInv

\* Every step of builds that run one after another keeps the invariant.
LEMMA MkDatabaseNext ==
  ASSUME MaxRunning = 1
  PROVE  IInv /\ [Next]_vars => IInv'
<1> SUFFICES ASSUME IInv, [Next]_vars PROVE IInv'
  OBVIOUS
<1>1. CASE UNCHANGED vars
  <2>1. TypeOK /\ CacheInv /\ OneBuild /\ now \in Time
    BY DEF IInv, TypeOK
  <2>2. /\ UNCHANGED <<now, upstream, cacheVars>> /\ now' = now /\ upstream' = upstream /\ files' = files
        /\ marker' = marker /\ UNCHANGED <<pc, cats, begun, cloned, next, fromCache, table>>
    BY <1>1 DEF vars, cacheVars, buildVars, repoVars
  <2>3. CacheInv' /\ CacheTypeOK'
    BY <2>1, <2>2, CacheFrame
  <2>4. TypeOK'
    BY <2>1, <2>2, <2>3 DEF TypeOK, CacheTypeOK
  <2>5. OneBuild'
    BY <2>1, <2>2 DEF OneBuild, Running
  <2>6. now <= now' /\ now' \in Time
    BY <2>1, <2>2 DEF Time
  <2>7. ASSUME NEW c \in Builds
        PROVE  Writing(c)' /\ TableInv(c)'
    <3>1. /\ begun[c] \in Time /\ next[c] \in 1 .. Len(RepoLists) + 1 /\ TableInv(c) /\ Writing(c)
          /\ Same(c)
      BY <2>2, BuildFacts DEF Same
    <3>2. Writing(c)'
      BY <2>2, <3>1 DEF Writing, Fresh
    <3>3. TableInv(c)'
      BY <2>1, <2>2, <2>6, <3>1, TableFrame
    <3> QED BY <3>2, <3>3
  <2> QED BY <2>3, <2>4, <2>5, <2>7 DEF IInv
<1>2. CASE Tick
  BY <1>2, TickKeeps
<1>3. ASSUME NEW b \in Builds, Start(b)
      PROVE  IInv'
  BY <1>3, StartKeeps
<1>4. ASSUME NEW b \in Builds, Repository(b)
      PROVE  IInv'
  BY <1>4, CollectStartsKeeps, CachingKeeps, CollectKeeps DEF Repository
<1>5. ASSUME NEW b \in Builds, Sources(b)
      PROVE  IInv'
  BY <1>5, HttpKeeps, ASKeeps, FileKeeps DEF Sources
<1>6. ASSUME NEW b \in Builds, Merge(b) \/ Output(b) \/ Abort(b)
      PROVE  IInv'
  BY <1>6, MergeKeeps, EndsKeep
<1> QED BY <1>1, <1>2, <1>3, <1>4, <1>5, <1>6 DEF Next

\* When builds run one after another, the cache holds what it claims and every
\* build's table just what the sources it has read say (sources.go).
THEOREM MkDatabaseInvariant ==
  ASSUME MaxRunning = 1
  PROVE  Spec => []IInv
<1>1. Init => IInv
  BY MkDatabaseInit
<1>2. IInv /\ [Next]_vars => IInv'
  BY MkDatabaseNext
<1> QED BY <1>1, <1>2, PTL DEF Spec

\* When builds run one after another, a repository whose marker is fresh has
\* every list, all of one clone, however many lists, builds and categories
\* there are and wherever a build failed or died (sources.go, cacheRepo and
\* cachedRepoFresh).  Two builds at once break this: MaxRunning = 1 is what a
\* workflow run gives, one build after the other.
THEOREM CacheStaysComplete ==
  ASSUME MaxRunning = 1
  PROVE  Spec => []CacheComplete
<1>1. IInv => CacheComplete
  BY DEF IInv, CacheInv, CacheComplete, TypeOK
<1> QED BY <1>1, MkDatabaseInvariant, PTL

\* Every build has a place for what it writes.
Places == out = [b \in Builds |-> out[b]]

\* Only the end of a build puts something there.
LEMMA PlacesKept ==
  /\ Init => Places
  /\ Places /\ [Next]_vars => Places'
<1>1. Init => Places
  BY DEF Init, Places
<1>2. ASSUME Places, [Next]_vars
      PROVE  Places'
  <2>1. ASSUME NEW b \in Builds, Output(b)
        PROVE  Places'
    <3>1. PICK order, exchanged : out' = [out EXCEPT ![b] = Insert(table[b], order, exchanged)]
      BY <2>1 DEF Output
    <3> QED BY <1>2, <3>1 DEF Places
  <2>2. ASSUME out' = out
        PROVE  Places'
    BY <1>2, <2>2 DEF Places
  <2>3. UNCHANGED vars \/ Tick => out' = out
    BY DEF Tick, vars, buildVars
  <2>4. ASSUME NEW b \in Builds,
               Start(b) \/ Repository(b) \/ Sources(b) \/ Merge(b) \/ Abort(b)
        PROVE  out' = out
    BY <2>4 DEF Start, Repository, UseCachedRepo, Clone, RemoveFile, Removed,
         WriteList, WriteMarker, CachingFails, CollectList, Collected, Sources, HttpSkipped,
         HttpCached, Download, ASSkipped, ASCached, FetchAS, CollectFile, Merge, Abort, buildVars
  <2> QED BY <1>2, <2>1, <2>2, <2>3, <2>4 DEF Next
<1> QED BY <1>1, <1>2

\* What a build that ends with a database wrote.
LEMMA OutputSays ==
  ASSUME IInv, Places, [Next]_vars, NEW b \in Builds, pc[b] = "output", pc'[b] = "done"
  PROVE  \E r \in Recent(b), h \in Recent(b), s \in Announced(b) :
           \A a \in Addr :
             LET expected == Expected(cats[b], a, r, h, s) IN
             /\ Range(out'[b][a].sources) = expected
             /\ out'[b][a].categories = {m[3] : m \in expected}
<1>1. TypeOK /\ TableInv(b) /\ upstream \in Upstreams /\ table[b] \in Tables(Membership)
  BY BuildFacts
<1>2. Output(b)
  <2>1. pc' # pc
    OBVIOUS
  <2>2. ASSUME NEW c \in Builds, c # b,
               Start(c) \/ Repository(c) \/ Sources(c) \/ Merge(c) \/ Output(c) \/ Abort(c)
        PROVE  FALSE
    <3>1. pc'[b] = pc[b]
      BY <1>1, <2>2 DEF TypeOK, Start, Repository, UseCachedRepo, Clone, RemoveFile, Removed,
           WriteList, WriteMarker, CachingFails, CollectList, Collected, ReadFrom, Sources,
           HttpSkipped, HttpCached, Download, ASSkipped, ASCached, FetchAS, CollectFile, Merge,
           Output, Abort, Fail, Goto, buildVars
    <3> QED BY <3>1
  <2>3. ~Tick /\ ~(UNCHANGED vars)
    BY <2>1 DEF Tick, buildVars, vars
  <2>4. ~Start(b) /\ ~Repository(b) /\ ~Sources(b) /\ ~Merge(b)
    BY DEF Start, Repository, UseCachedRepo, Clone, RemoveFile, Removed, WriteList, WriteMarker,
         CachingFails, CollectList, Collected, Sources, HttpSkipped, HttpCached, Download,
         ASSkipped, ASCached, FetchAS, CollectFile, Merge
  <2>5. ~Abort(b)
    BY <1>1 DEF Abort, Fail, TypeOK
  <2> QED BY <2>2, <2>3, <2>4, <2>5 DEF Next
<1>3. PICK order \in InsertOrders(table[b]), exchanged \in SUBSET LongRecords(table[b]) :
        out' = [out EXCEPT ![b] = Insert(table[b], order, exchanged)]
  BY <1>2 DEF Output
<1>4. PICK r \in Recent(b), h \in Recent(b), s \in Announced(b) : Inherits(b, r, h, s)
  BY <1>1 DEF TableInv
<1> DEFINE t == table[b]
           selection == cats[b]
<1>5. t \in Tables(Membership) /\ order \in InsertOrders(t)
      /\ InheritsIn(upstream, selection, t, r, h, s)
  BY <1>1, <1>3, <1>4, InheritsParts
<1>6. r \in Time /\ h \in Time /\ s \in SUBSET Prefix
  <2>1. r \in Time /\ h \in Time
    BY DEF Recent
  <2>2. \A u \in Time : Published(<<AS, 1>>, u) \in SUBSET Prefix
    <3> DEFINE key == <<AS, 1>>
    <3>1. key \in Keys
      BY DEF Keys
    <3> HIDE DEF key
    <3>2. \A u \in Time : upstream[u][key] \in SUBSET Prefix
      BY <1>1, <3>1, PublishedFacts
    <3> QED BY <3>2 DEF Published, key
  <2>3. s = {} \/ \E u \in Time : s = Published(<<AS, 1>>, u)
    BY DEF Announced, Recent
  <2> QED BY <2>1, <2>2, <2>3
<1>7. out'[b] = Insert(t, order, exchanged)
  BY <1>3 DEF Places
<1> HIDE DEF t, selection
<1>8. ASSUME NEW a \in Addr
      PROVE  RecordOf(Insert(t, order, exchanged)[a], Expected(selection, a, r, h, s))
  BY <1>1, <1>5, <1>6, OutputComplete
<1>9. \A a \in Addr :
        LET expected == Expected(selection, a, r, h, s) IN
        /\ Range(out'[b][a].sources) = expected
        /\ out'[b][a].categories = {m[3] : m \in expected}
  BY <1>7, <1>8 DEF RecordOf
<1> QED BY <1>9 DEF selection

\* When builds run one after another, a build that succeeds has, for every
\* address, exactly the memberships of the selected lists that cover it, read
\* no earlier than cacheMaxAge before the build began: whatever networks,
\* lists, categories and sources there are, whatever order tables are walked
\* in, and whatever earlier builds, of other categories or cut short, left in
\* the cache.
THEOREM CompleteBuilds ==
  ASSUME MaxRunning = 1
  PROVE  Spec => Complete
<1> DEFINE A == \A b \in Builds : pc[b] = "output" /\ pc'[b] = "done" =>
                  \E r \in Recent(b), h \in Recent(b), s \in Announced(b) :
                    \A a \in Addr :
                      LET expected == Expected(cats[b], a, r, h, s) IN
                      /\ Range(out'[b][a].sources) = expected
                      /\ out'[b][a].categories = {m[3] : m \in expected}
<1>1. IInv /\ Places /\ [Next]_vars => [A]_vars
  BY OutputSays
<1>2. Init => IInv /\ Places
  BY MkDatabaseInit, PlacesKept
<1>3. IInv /\ Places /\ [Next]_vars => (IInv /\ Places)'
  BY MkDatabaseNext, PlacesKept
<1> QED BY <1>1, <1>2, <1>3, PTL DEF Spec, Complete

-----------------------------------------------------------------------------
(* Equal findings, equal records: the order of what a record holds *)

\* The memberships the sources give: but for the autonomous system, a list
\* gives a provider one category.
Given ==
  {<<l, 1, RepoLists[l]>> : l \in Lists} \cup {<<HttpList, v, HttpCategory>> : v \in HttpProviders}
    \cup {<<AS, 1, c>> : c \in Range(ASCategories)} \cup {<<File, 1, FileCategory>>}

\* Where the autonomous system's categories name one first.
Place(c) ==
  CHOOSE i \in DOMAIN ASCategories :
    ASCategories[i] = c /\ \A j \in DOMAIN ASCategories : ASCategories[j] = c => i <= j

\* The order memberships are written in.
Precedes(m, n) ==
  SortsBefore(m, n) \/ (m[1] = AS /\ n[1] = AS /\ Place(m[3]) < Place(n[3]))

\* A record as builds make it: nothing twice, and the memberships the sort
\* does not separate in the order of the categories.
InOrder(s) ==
  /\ s \in Seq(Given)
  /\ \A i, j \in 1 .. Len(s) : i < j =>
       /\ s[i] # s[j]
       /\ s[i][1] = AS /\ s[j][1] = AS => Place(s[i][3]) < Place(s[j][3])

\* Every category of the system has a first place.
LEMMA PlaceFacts ==
  ASSUME NEW c \in Range(ASCategories)
  PROVE  /\ Place(c) \in DOMAIN ASCategories /\ Place(c) \in Int /\ ASCategories[Place(c)] = c
         /\ \A j \in DOMAIN ASCategories : ASCategories[j] = c => Place(c) <= j
<1> DEFINE S == {i \in DOMAIN ASCategories : ASCategories[i] = c}
<1>1. DOMAIN ASCategories \subseteq Nat
  BY MkDatabaseAssumption, LenProperties DEF MkDatabaseAssumption
<1>2. S \in SUBSET Nat /\ S # {}
  BY <1>1 DEF Range
<1>3. \E i \in S : \A j \in S : i <= j
  <2> HIDE DEF S
  <2> QED BY <1>2, LeastNatural
<1>4. \E i \in DOMAIN ASCategories :
        ASCategories[i] = c /\ \A j \in DOMAIN ASCategories : ASCategories[j] = c => i <= j
  BY <1>3
<1> QED BY <1>1, <1>4 DEF Place

\* A given membership that is not the system's is known by its list and provider.
LEMMA GivenFacts ==
  /\ Sortable(Given) /\ Given \subseteq Membership
  /\ \A m \in Given : m[1] = AS => m[3] \in Range(ASCategories) /\ m = <<AS, 1, m[3]>>
  /\ \A m, n \in Given : m[1] = n[1] /\ m[2] = n[2] /\ m[1] # AS => m = n
<1>1. Given \subseteq Membership
  BY MembershipFacts, Numbers DEF Given
<1>2. Sortable(Given)
  BY <1>1, MembershipFacts DEF Sortable
<1>3. \A m \in Given : m[1] = AS => m[3] \in Range(ASCategories) /\ m = <<AS, 1, m[3]>>
  BY Numbers DEF Given
<1>4. ASSUME NEW m \in Given, NEW n \in Given, m[1] = n[1], m[2] = n[2], m[1] # AS
      PROVE  m = n
  <2>1. CASE \E l \in Lists : m = <<l, 1, RepoLists[l]>>
    BY <1>4, <2>1, Numbers DEF Given
  <2>2. CASE \E v \in HttpProviders : m = <<HttpList, v, HttpCategory>>
    BY <1>4, <2>2, Numbers DEF Given
  <2>3. CASE m = <<File, 1, FileCategory>>
    BY <1>4, <2>3, Numbers DEF Given
  <2> QED BY <1>4, <2>1, <2>2, <2>3 DEF Given
<1> QED BY <1>1, <1>2, <1>3, <1>4

\* That order is strict.
LEMMA PrecedesFacts ==
  /\ \A m \in Given : ~Precedes(m, m)
  /\ \A l, m, n \in Given : Precedes(l, m) /\ Precedes(m, n) => Precedes(l, n)
<1>1. \A m \in Given : m[1] \in Int /\ m[2] \in Int
  BY GivenFacts DEF Sortable
<1>2. \A m \in Given : m[1] = AS => m[2] = 1 /\ Place(m[3]) \in Int
  <2> TAKE m \in Given
  <2>1. HAVE m[1] = AS
  <2>2. m[3] \in Range(ASCategories) /\ m = <<AS, 1, m[3]>>
    BY <2>1, GivenFacts
  <2> QED BY <2>2, PlaceFacts
<1>3. AS \in Int
  BY Numbers
<1>4. \A m \in Given : ~Precedes(m, m)
  BY <1>1, <1>2 DEF Precedes, SortsBefore
<1>5. ASSUME NEW l \in Given, NEW m \in Given, NEW n \in Given, Precedes(l, m), Precedes(m, n)
      PROVE  Precedes(l, n)
  <2> DEFINE l1 == l[1]
             l2 == l[2]
             lp == Place(l[3])
             m1 == m[1]
             m2 == m[2]
             mp == Place(m[3])
             n1 == n[1]
             n2 == n[2]
             np == Place(n[3])
  <2>1. /\ l1 \in Int /\ l2 \in Int /\ m1 \in Int /\ m2 \in Int /\ n1 \in Int /\ n2 \in Int
        /\ l1 = AS => l2 = 1 /\ lp \in Int
        /\ m1 = AS => m2 = 1 /\ mp \in Int
        /\ n1 = AS => n2 = 1 /\ np \in Int
    BY <1>1, <1>2
  <2>2. /\ (l1 < m1 \/ (l1 = m1 /\ l2 < m2)) \/ (l1 = AS /\ m1 = AS /\ lp < mp)
        /\ (m1 < n1 \/ (m1 = n1 /\ m2 < n2)) \/ (m1 = AS /\ n1 = AS /\ mp < np)
    BY <1>5 DEF Precedes, SortsBefore
  <2> HIDE DEF l1, l2, lp, m1, m2, mp, n1, n2, np
  <2>3. (l1 < n1 \/ (l1 = n1 /\ l2 < n2)) \/ (l1 = AS /\ n1 = AS /\ lp < np)
    BY <1>3, <2>1, <2>2
  <2> QED BY <2>3 DEF Precedes, SortsBefore, l1, l2, lp, n1, n2, np
<1> QED BY <1>4, <1>5

\* R orders E strictly.
Strict(E, R) ==
  /\ \A x \in E : <<x, x>> \notin R
  /\ \A x, y, z \in E : <<x, y>> \in R /\ <<y, z>> \in R => <<x, z>> \in R

\* The n elements of d come in that order.
Ascends(d, n, E, R) ==
  /\ n \in Nat /\ d \in [1 .. n -> E]
  /\ \A i, j \in 1 .. n : i < j => <<d[i], d[j]>> \in R

\* If two sequences that ascend have the same elements, the first is no longer
\* than the second and agrees with it.
LEMMA AscentWithin ==
  ASSUME NEW E, NEW R, Strict(E, R), NEW n, NEW d, Ascends(d, n, E, R),
         NEW m, NEW e, Ascends(e, m, E, R), Range(d) = Range(e)
  PROVE  \A k \in 1 .. n : k <= m /\ d[k] = e[k]
<1> DEFINE S == {k \in 1 .. n : ~(k <= m /\ d[k] = e[k])}
<1> SUFFICES ASSUME S # {}
             PROVE  FALSE
  OBVIOUS
<1>0. /\ n \in Nat /\ d \in [1 .. n -> E] /\ m \in Nat /\ e \in [1 .. m -> E]
      /\ \A i, j \in 1 .. n : i < j => <<d[i], d[j]>> \in R
      /\ \A i, j \in 1 .. m : i < j => <<e[i], e[j]>> \in R
      /\ \A x \in E : <<x, x>> \notin R
      /\ \A x, y, z \in E : <<x, y>> \in R /\ <<y, z>> \in R => <<x, z>> \in R
  BY DEF Ascends, Strict
<1>1. PICK k \in S : \A j \in S : k <= j
  <2>1. S \in SUBSET Nat
    BY <1>0
  <2> HIDE DEF S
  <2> QED BY <2>1, LeastNatural
<1>2. \A j \in 1 .. n : j < k => j <= m /\ d[j] = e[j]
  BY <1>0, <1>1
<1>3. k \in 1 .. n /\ ~(k <= m /\ d[k] = e[k])
  BY <1>1
<1> HIDE DEF S
<1>4. \A x : /\ x \in Range(d) <=> \E i \in 1 .. n : x = d[i]
             /\ x \in Range(e) <=> \E i \in 1 .. m : x = e[i]
  BY <1>0 DEF Range
<1>5. PICK i \in 1 .. m : d[k] = e[i]
  BY <1>3, <1>4
<1>6. ~(i < k)
  <2> SUFFICES ASSUME i < k
               PROVE  FALSE
    OBVIOUS
  <2>1. i \in 1 .. n /\ d[i] = e[i]
    BY <1>0, <1>2, <1>3
  <2>2. <<d[i], d[k]>> \in R /\ d[k] \in E
    BY <1>0, <1>3, <2>1
  <2> QED BY <1>0, <1>5, <2>1, <2>2
<1>7. k < i /\ k \in 1 .. m
  BY <1>0, <1>3, <1>5, <1>6
<1>8. <<e[k], d[k]>> \in R
  BY <1>0, <1>5, <1>7
<1>9. PICK j \in 1 .. n : e[k] = d[j]
  BY <1>4, <1>7
<1>10. CASE j < k
  <2>1. j \in 1 .. m /\ e[j] = e[k]
    BY <1>0, <1>2, <1>7, <1>9, <1>10
  <2>2. <<e[j], e[k]>> \in R /\ e[k] \in E
    BY <1>0, <1>7, <1>10, <2>1
  <2> QED BY <1>0, <2>1, <2>2
<1>11. CASE j = k
  <2>1. e[k] = d[k] /\ d[k] \in E
    BY <1>0, <1>3, <1>9, <1>11
  <2> QED BY <1>0, <1>8, <2>1
<1>12. CASE k < j
  <2>1. <<d[k], e[k]>> \in R /\ d[k] \in E /\ e[k] \in E
    BY <1>0, <1>3, <1>7, <1>9, <1>12
  <2> QED BY <1>0, <1>8, <2>1
<1> QED BY <1>0, <1>3, <1>9, <1>10, <1>11, <1>12

\* A set has one ascending sequence.
LEMMA OneAscent ==
  ASSUME NEW E, NEW R, Strict(E, R), NEW n, NEW d, Ascends(d, n, E, R),
         NEW m, NEW e, Ascends(e, m, E, R), Range(d) = Range(e)
  PROVE  d = e /\ n = m
<1>1. \A k \in 1 .. n : k <= m /\ d[k] = e[k]
  BY AscentWithin
<1>2. \A k \in 1 .. m : k <= n /\ e[k] = d[k]
  BY AscentWithin
<1>0. n \in Nat /\ d \in [1 .. n -> E] /\ m \in Nat /\ e \in [1 .. m -> E]
  BY DEF Ascends
<1>3. n = m
  <2>1. n # 0 => n \in 1 .. n
    BY <1>0
  <2>2. m # 0 => m \in 1 .. m
    BY <1>0
  <2> QED BY <1>0, <1>1, <1>2, <2>1, <2>2
<1> QED BY <1>0, <1>1, <1>3

\* When nothing is exchanged, DataType writes a record in the one order of its
\* memberships.
LEMMA WrittenInOrder ==
  ASSUME NEW s, InOrder(s)
  PROVE  /\ Range(DataType(s, FALSE).sources) = Range(s)
         /\ DataType(s, FALSE).sources \in [1 .. Len(s) -> Given]
         /\ \A j, k \in 1 .. Len(s) : j < k =>
              Precedes(DataType(s, FALSE).sources[j], DataType(s, FALSE).sources[k])
<1> DEFINE n == Len(s)
           d == DataType(s, FALSE)
<1>1. s \in Seq(Given) /\ n \in Nat /\ \A i \in 1 .. n : s[i] \in Given
  BY LenProperties, ElementOfSeq DEF InOrder
<1>2. /\ Range(d.sources) = Range(s)
      /\ \E o \in [1 .. n -> 1 .. n] :
           /\ d.sources = [k \in 1 .. n |-> s[o[k]]]
           /\ \A j, k \in 1 .. n : j < k => StaysBefore(s, o[j], o[k], FALSE)
  BY <1>1, GivenFacts, DataTypeFacts
<1>3. PICK o \in [1 .. n -> 1 .. n] :
           /\ d.sources = [k \in 1 .. n |-> s[o[k]]]
           /\ \A j, k \in 1 .. n : j < k => StaysBefore(s, o[j], o[k], FALSE)
  BY <1>2
<1>4. d.sources \in [1 .. n -> Given]
  BY <1>1, <1>3
<1>5. ASSUME NEW i \in 1 .. n, NEW j \in 1 .. n, StaysBefore(s, i, j, FALSE)
      PROVE  Precedes(s[i], s[j])
  <2> SUFFICES ASSUME ~SortsBefore(s[i], s[j])
               PROVE  Precedes(s[i], s[j])
    BY DEF Precedes
  <2>1. ~SortsBefore(s[j], s[i]) /\ i < j
    BY <1>5 DEF StaysBefore
  <2>2. s[i][1] \in Int /\ s[i][2] \in Int /\ s[j][1] \in Int /\ s[j][2] \in Int
    BY <1>1, GivenFacts DEF Sortable
  <2>3. s[i][1] = s[j][1] /\ s[i][2] = s[j][2]
    BY <2>1, <2>2 DEF SortsBefore
  <2>4. s[i] # s[j] /\ (s[i][1] = AS /\ s[j][1] = AS => Place(s[i][3]) < Place(s[j][3]))
    BY <2>1 DEF InOrder
  <2>5. s[i][1] = AS
    BY <1>1, <2>3, <2>4, GivenFacts
  <2> QED BY <2>3, <2>4, <2>5 DEF Precedes
<1>6. ASSUME NEW j \in 1 .. n, NEW k \in 1 .. n, j < k
      PROVE  Precedes(d.sources[j], d.sources[k])
  <2>1. /\ o[j] \in 1 .. n /\ o[k] \in 1 .. n /\ StaysBefore(s, o[j], o[k], FALSE)
        /\ d.sources[j] = s[o[j]] /\ d.sources[k] = s[o[k]]
    BY <1>3, <1>6
  <2>2. Precedes(s[o[j]], s[o[k]])
    BY <1>5, <2>1
  <2> QED BY <2>1, <2>2
<1> QED BY <1>2, <1>4, <1>6

\* So such records with the same memberships are written the same.
LEMMA WrittenOnce ==
  ASSUME NEW s, InOrder(s), NEW t, InOrder(t), Range(s) = Range(t)
  PROVE  DataType(s, FALSE) = DataType(t, FALSE) /\ Len(s) = Len(t)
<1> DEFINE R == {e \in Given \X Given : Precedes(e[1], e[2])}
           d == DataType(s, FALSE).sources
           e == DataType(t, FALSE).sources
           n == Len(s)
           m == Len(t)
<1>1. \A x, y \in Given : <<x, y>> \in R <=> Precedes(x, y)
  OBVIOUS
<1>2. Strict(Given, R)
  <2> HIDE DEF R
  <2> QED BY <1>1, PrecedesFacts DEF Strict
<1>3. n \in Nat /\ m \in Nat
  BY LenProperties DEF InOrder
<1> HIDE DEF R
<1>4. /\ Ascends(d, n, Given, R) /\ Range(d) = Range(s)
      /\ Ascends(e, m, Given, R) /\ Range(e) = Range(t)
  BY <1>1, <1>3, WrittenInOrder DEF Ascends
<1>6. DataType(s, FALSE) = [categories |-> {x[3] : x \in Range(s)}, sources |-> d]
      /\ DataType(t, FALSE) = [categories |-> {x[3] : x \in Range(t)}, sources |-> e]
  BY DEF DataType
<1>9. {x[3] : x \in Range(s)} = {x[3] : x \in Range(t)}
  OBVIOUS
<1>10. Range(d) = Range(e)
  BY <1>4
<1> HIDE DEF d, e, n, m
<1>8. d = e /\ n = m
  BY <1>2, <1>4, <1>10, OneAscent
<1> QED BY <1>6, <1>8, <1>9 DEF n, m

-----------------------------------------------------------------------------
(* Equal findings, equal records: adding to a record *)

\* The memberships of S that the autonomous system gives.
OfAS(S) == {m \in S : m[1] = AS}

\* Sequences that can be added to a record of a build whose system gives A:
\* all of A or nothing, and what comes again has come at its place.
Additions(A) ==
  {ms \in Seq(Given) :
     /\ OfAS(Range(ms)) = {} \/ OfAS(Range(ms)) = A
     /\ \A i, j \in 1 .. Len(ms) : i < j /\ ms[i][1] = AS /\ ms[j][1] = AS =>
          \/ Place(ms[i][3]) < Place(ms[j][3])
          \/ \E k \in 1 .. i : ms[k] = ms[j]}

\* Records of such a build.
Neat(A) == {s \in Seq(Given) : InOrder(s) /\ (OfAS(Range(s)) = {} \/ OfAS(Range(s)) = A)}

\* A record can be added to a record.
LEMMA NeatAdditions ==
  ASSUME NEW A, NEW s \in Neat(A)
  PROVE  s \in Additions(A) /\ s \in Seq(Given) /\ InOrder(s)
BY DEF Neat, Additions, InOrder

\* The empty record, and a single membership that is not the system's.
LEMMA NeatSmall ==
  ASSUME NEW A
  PROVE  /\ << >> \in Neat(A) /\ InOrder(<< >>)
         /\ \A m \in Given : m[1] # AS => <<m>> \in Additions(A)
<1>1. << >> \in Seq(Given) /\ Len(<< >>) = 0 /\ Range(<< >>) = {}
  BY EmptySeq DEF Range
<1> DEFINE e == << >>
<1>2. e \in Neat(A) /\ InOrder(e)
  <2> HIDE DEF e
  <2>1. e \in Seq(Given) /\ Len(e) = 0 /\ Range(e) = {}
    BY <1>1 DEF e
  <2>2. InOrder(e)
    BY <2>1 DEF InOrder
  <2> QED BY <2>1, <2>2 DEF Neat, OfAS
<1>3. ASSUME NEW m \in Given, m[1] # AS
      PROVE  <<m>> \in Additions(A)
  <2> DEFINE ms == <<m>>
  <2>1. ms \in Seq(Given) /\ Range(ms) = {m} /\ Len(ms) = 1
    <3>1. ms \in Seq(Given) /\ Len(ms) = 1
      OBVIOUS
    <3> QED BY <3>1, Single
  <2> HIDE DEF ms
  <2>2. OfAS(Range(ms)) = {}
    BY <1>3, <2>1 DEF OfAS
  <2>3. \A i, j \in 1 .. Len(ms) : ~(i < j)
    BY <2>1
  <2> QED BY <2>1, <2>2, <2>3 DEF Additions, ms
<1> QED BY <1>2, <1>3

\* A record stays in order when it takes a membership whose place is last.
LEMMA AddInOrder ==
  ASSUME NEW s, InOrder(s), NEW m \in Given,
         m[1] = AS /\ m \notin Range(s) =>
           \A x \in Range(s) : x[1] = AS => Place(x[3]) < Place(m[3])
  PROVE  InOrder(Add(s, m))
<1>1. CASE m \in Range(s)
  BY <1>1 DEF Add
<1>2. CASE m \notin Range(s)
  <2> DEFINE new == Append(s, m)
             n == Len(s)
  <2>1. s \in Seq(Given) /\ Add(s, m) = new
    BY <1>2 DEF Add, InOrder
  <2>2. /\ new \in Seq(Given) /\ n \in Nat /\ Len(new) = n + 1 /\ new[n + 1] = m
        /\ \A k \in 1 .. n : new[k] = s[k] /\ s[k] \in Range(s)
    BY <2>1, AppendProperties, LenProperties DEF Range
  <2>3. ASSUME NEW i \in 1 .. (n + 1), NEW j \in 1 .. (n + 1), i < j
        PROVE  /\ new[i] # new[j]
               /\ new[i][1] = AS /\ new[j][1] = AS => Place(new[i][3]) < Place(new[j][3])
    <3>1. i \in 1 .. n /\ (j = n + 1 \/ j \in 1 .. n)
      BY <2>2, <2>3
    <3> HIDE DEF new, n
    <3>2. CASE j = n + 1
      BY <1>2, <2>2, <3>1, <3>2
    <3>3. CASE j \in 1 .. n
      BY <2>2, <2>3, <3>1, <3>3 DEF InOrder, n
    <3> QED BY <3>1, <3>2, <3>3
  <2> HIDE DEF new, n
  <2> QED BY <2>1, <2>2, <2>3 DEF InOrder
<1> QED BY <1>1, <1>2

\* Adding a sequence that can be added gives a record again.
LEMMA AddAllNeat ==
  ASSUME NEW A, NEW s \in Neat(A), NEW ms \in Additions(A)
  PROVE  AddAll(s, ms) \in Neat(A)
<1>1. /\ s \in Seq(Given) /\ ms \in Seq(Given) /\ InOrder(s)
      /\ OfAS(Range(s)) = {} \/ OfAS(Range(s)) = A
      /\ OfAS(Range(ms)) = {} \/ OfAS(Range(ms)) = A
  BY DEF Neat, Additions
<1>2. PICK g : /\ g[0] = s
               /\ \A n \in 1 .. Len(ms) : g[n] = Add(g[n - 1], ms[n])
               /\ AddAll(s, ms) = g[Len(ms)]
  BY <1>1, AddAllUnfold
<1>3. /\ Len(ms) \in Nat /\ DOMAIN ms = 1 .. Len(ms)
      /\ \A n \in 1 .. Len(ms) : ms[n] \in Given /\ ms[n] \in Range(ms)
  BY <1>1, LenProperties, ElementOfSeq DEF Range
<1> DEFINE First(n) == {ms[k] : k \in 1 .. n}
           Good(n) == InOrder(g[n]) /\ Range(g[n]) = Range(s) \cup First(n)
           Goods == {n \in Nat : n <= Len(ms) => Good(n)}
<1>4. 0 \in Goods
  BY <1>1, <1>2 DEF Good, First
<1>5. ASSUME NEW n \in Nat, n \in Goods, n + 1 <= Len(ms)
      PROVE  Good(n + 1)
  <2> DEFINE t == g[n]
             m == ms[n + 1]
  <2>1. n + 1 \in 1 .. Len(ms) /\ (n + 1) - 1 = n /\ n <= Len(ms)
    BY <1>3, <1>5
  <2>2. g[n + 1] = Add(t, m) /\ Good(n) /\ m \in Given /\ m \in Range(ms)
    BY <1>2, <1>3, <1>5, <2>1
  <2>3. First(n + 1) = First(n) \cup {m}
    <3>1. 1 .. (n + 1) = (1 .. n) \cup {n + 1}
      OBVIOUS
    <3> QED BY <3>1
  <2>4. InOrder(t) /\ t \in Seq(Given) /\ Range(t) = Range(s) \cup First(n)
    BY <2>2 DEF InOrder
  <2>5. ASSUME m[1] = AS, m \notin Range(t), NEW x \in Range(t), x[1] = AS
        PROVE  Place(x[3]) < Place(m[3])
    <3>1. x \notin Range(s)
      <4> SUFFICES ASSUME x \in Range(s)
                   PROVE  FALSE
        OBVIOUS
      <4>1. x \in OfAS(Range(s)) /\ m \in OfAS(Range(ms)) /\ m \notin OfAS(Range(s))
        BY <2>2, <2>4, <2>5 DEF OfAS
      <4> QED BY <1>1, <4>1
    <3>2. PICK i \in 1 .. n : x = ms[i]
      BY <2>4, <2>5, <3>1
    <3>3. i \in 1 .. Len(ms) /\ i < n + 1
      BY <1>3, <2>1
    <3>4. \/ Place(x[3]) < Place(m[3])
          \/ \E k \in 1 .. i : ms[k] = m
      BY <2>1, <2>5, <3>2, <3>3 DEF Additions
    <3>5. ASSUME NEW k \in 1 .. i, ms[k] = m
          PROVE  FALSE
      <4>1. k \in 1 .. n
        OBVIOUS
      <4>2. m \in First(n)
        BY <3>5, <4>1
      <4> QED BY <2>4, <2>5, <4>2
    <3> QED BY <3>4, <3>5
  <2> HIDE DEF First, t, m
  <2>6. InOrder(Add(t, m))
    BY <2>2, <2>4, <2>5, AddInOrder
  <2>7. Range(Add(t, m)) = Range(t) \cup {m}
    BY <2>2, <2>4, AddFacts
  <2> QED BY <2>2, <2>3, <2>4, <2>6, <2>7
<1>6. \A n \in Nat : n \in Goods => n + 1 \in Goods
  <2> HIDE DEF Good
  <2> QED BY <1>5
<1>7. Len(ms) \in Goods
  <2> HIDE DEF Goods
  <2> QED BY <1>3, <1>4, <1>6, NatSetInduction
<1>8. First(Len(ms)) = Range(ms)
  BY <1>3 DEF Range
<1>9. InOrder(AddAll(s, ms)) /\ Range(AddAll(s, ms)) = Range(s) \cup Range(ms)
  <2> HIDE DEF First
  <2> QED BY <1>2, <1>3, <1>7, <1>8
<1> DEFINE new == AddAll(s, ms)
<1> HIDE DEF First, Goods, new
<1>10. OfAS(Range(new)) = OfAS(Range(s)) \cup OfAS(Range(ms))
  BY <1>9 DEF OfAS, new
<1>11. OfAS(Range(new)) = {} \/ OfAS(Range(new)) = A
  BY <1>1, <1>10
<1> QED BY <1>9, <1>11 DEF Neat, InOrder, new

-----------------------------------------------------------------------------
(* Equal findings, equal records: the tables of a build *)

\* Tables of such records.
NeatTables(A) == [Stored -> Neat(A)]

\* What the system gives a build of these categories.
Selected(selection) == {<<AS, 1, c>> : c \in Range(ASCategories) \cap selection}

\* A neat table is a table.
LEMMA NeatTableFacts ==
  ASSUME NEW A
  PROVE  /\ \A t \in NeatTables(A) : t \in Tables(Given) /\ t \in Tables(Membership)
         /\ EmptyTable \in NeatTables(A)
<1>1. \A s \in Neat(A) : s \in Seq(Given) /\ s \in Seq(Membership)
  <2> SUFFICES ASSUME NEW s \in Neat(A)
               PROVE  s \in Seq(Given) /\ s \in Seq(Membership)
    OBVIOUS
  <2>1. s \in Seq(Given) /\ Len(s) \in Nat /\ DOMAIN s = 1 .. Len(s)
    BY LenProperties DEF Neat
  <2>2. \A i \in 1 .. Len(s) : s[i] \in Given
    BY <2>1, ElementOfSeq
  <2>3. s \in [1 .. Len(s) -> Membership]
    BY <2>1, <2>2, GivenFacts
  <2> QED BY <2>1, <2>3, SeqDef
<1>2. EmptyTable \in NeatTables(A)
  BY NeatSmall DEF EmptyTable, NeatTables
<1> QED BY <1>1, <1>2 DEF NeatTables, Tables

\* A fold keeps a table neat.
LEMMA FoldNeat ==
  ASSUME NEW A, NEW t \in NeatTables(A), NEW prefixes, NEW ms \in Additions(A)
  PROVE  Fold(t, prefixes, ms) \in NeatTables(A)
<1>1. \A p \in Stored : t[p] \in Neat(A)
  BY DEF NeatTables
<1>2. ASSUME NEW p \in Stored
      PROVE  AddAll(t[p], ms) \in Neat(A)
  <2> DEFINE s == t[p]
  <2>1. s \in Neat(A)
    BY <1>1
  <2> HIDE DEF s
  <2>2. AddAll(s, ms) \in Neat(A)
    BY <2>1, AddAllNeat
  <2> QED BY <2>2 DEF s
<1> QED BY <1>1, <1>2 DEF Fold, NeatTables

\* So do the groups of the HTTP list, in any order.
LEMMA FoldGroupsNeat ==
  ASSUME NEW A, NEW t \in NeatTables(A), NEW at, NEW order \in SetToSeqs(HttpProviders)
  PROVE  FoldGroups(t, at, order) \in NeatTables(A)
<1>1. IsFiniteSet(HttpProviders)
  BY MkDatabaseAssumption DEF MkDatabaseAssumption
<1>2. /\ order \in Seq(HttpProviders) /\ order \in [1 .. Len(order) -> HttpProviders]
      /\ Len(order) \in Nat
  BY <1>1, ListingFacts
<1>3. t \in Tables(Membership)
  BY NeatTableFacts
<1>4. PICK g : /\ g[0] = t
               /\ \A n \in 1 .. Len(order) :
                    g[n] = Fold(g[n - 1], Published(<<HttpList, order[n]>>, at),
                                <<<<HttpList, order[n], HttpCategory>>>>)
               /\ FoldGroups(t, at, order) = g[Len(order)]
  <2>1. order \in Seq(HttpProviders)
    BY <1>2
  <2> QED BY <1>3, <2>1, FoldGroupsUnfold
<1> DEFINE Goods == {n \in Nat : n <= Len(order) => g[n] \in NeatTables(A)}
<1>5. 0 \in Goods
  BY <1>4
<1>6. ASSUME NEW n \in Nat, n \in Goods, n + 1 <= Len(order)
      PROVE  g[n + 1] \in NeatTables(A)
  <2> DEFINE s == g[n]
             v == order[n + 1]
             prefixes == Published(<<HttpList, v>>, at)
             m == <<HttpList, v, HttpCategory>>
             ms == <<m>>
  <2>1. n + 1 \in 1 .. Len(order) /\ (n + 1) - 1 = n /\ n <= Len(order)
    BY <1>2, <1>6
  <2>2. g[n + 1] = Fold(s, prefixes, ms) /\ s \in NeatTables(A) /\ v \in HttpProviders
    BY <1>2, <1>4, <1>6, <2>1
  <2>3. m \in Given /\ m[1] # AS
    BY <2>2, Numbers DEF Given
  <2> HIDE DEF m
  <2>4. ms \in Additions(A)
    BY <2>3, NeatSmall
  <2> HIDE DEF s, prefixes, ms
  <2> QED BY <2>2, <2>4, FoldNeat
<1>7. \A n \in Nat : n \in Goods => n + 1 \in Goods
  BY <1>6
<1>8. Len(order) \in Goods
  <2> HIDE DEF Goods
  <2> QED BY <1>2, <1>5, <1>7, NatSetInduction
<1> QED BY <1>2, <1>4, <1>8

\* Inheriting keeps a table neat ...
LEMMA InheritNeat ==
  ASSUME NEW A, NEW t \in NeatTables(A), NEW p \in Stored
  PROVE  Inherit(t, p) \in NeatTables(A)
<1> DEFINE supers == Supernets(t, p)
<1>1. supers \in Seq(Stored) /\ t \in Tables(Given)
  BY SupernetsFacts, NeatTableFacts
<1>2. supers = Supernets(t, p)
  OBVIOUS
<1> HIDE DEF supers
<1>3. Len(supers) \in Nat /\ \A n \in 1 .. Len(supers) : supers[n] \in Stored
  BY <1>1, LenProperties, ElementOfSeq
<1>4. PICK g : /\ g[0] = t[p]
               /\ \A n \in 1 .. Len(supers) : g[n] = AddAll(g[n - 1], t[supers[n]])
               /\ Inherit(t, p) = [t EXCEPT ![p] = g[Len(supers)]]
  BY <1>1, <1>2, InheritUnfold
<1> DEFINE Goods == {n \in Nat : n <= Len(supers) => g[n] \in Neat(A)}
<1>5. 0 \in Goods
  BY <1>4 DEF NeatTables
<1>6. ASSUME NEW n \in Nat, n \in Goods, n + 1 <= Len(supers)
      PROVE  g[n + 1] \in Neat(A)
  <2> DEFINE s == g[n]
             ms == t[supers[n + 1]]
  <2>1. n + 1 \in 1 .. Len(supers) /\ (n + 1) - 1 = n /\ n <= Len(supers)
    BY <1>3, <1>6
  <2>2. g[n + 1] = AddAll(s, ms) /\ s \in Neat(A) /\ ms \in Neat(A)
    BY <1>3, <1>4, <1>6, <2>1 DEF NeatTables
  <2> HIDE DEF s, ms
  <2>3. ms \in Additions(A)
    BY <2>2, NeatAdditions
  <2>4. AddAll(s, ms) \in Neat(A)
    BY <2>2, <2>3, AddAllNeat
  <2> QED BY <2>2, <2>4
<1>7. \A n \in Nat : n \in Goods => n + 1 \in Goods
  BY <1>6
<1>8. Len(supers) \in Goods
  <2> HIDE DEF Goods
  <2> QED BY <1>3, <1>5, <1>7, NatSetInduction
<1>9. g[Len(supers)] \in Neat(A)
  BY <1>3, <1>8
<1> QED BY <1>4, <1>9 DEF NeatTables

\* ... and so merging does, in any order.
LEMMA MergeNeat ==
  ASSUME NEW A, NEW t \in NeatTables(A), NEW order \in Orders(t)
  PROVE  MergeContained(t, order) \in NeatTables(A)
<1>1. Networks(t) \in SUBSET Stored /\ IsFiniteSet(Networks(t))
  <2>1. Networks(t) \in SUBSET Stored
    BY DEF Networks
  <2> QED BY <2>1, StoredFinite, FS_Subset
<1>2. Len(order) \in Nat /\ order \in [1 .. Len(order) -> Networks(t)]
  BY <1>1, ListingFacts DEF Orders
<1>3. order \in Seq(Stored)
  <2>1. order \in [1 .. Len(order) -> Stored]
    BY <1>1, <1>2
  <2> QED BY <1>2, <2>1, SeqDef
<1>4. t \in Tables(Given)
  BY NeatTableFacts
<1>5. PICK g : /\ g[0] = t
               /\ \A n \in 1 .. Len(order) : g[n] = Inherit(g[n - 1], order[n])
               /\ MergeContained(t, order) = g[Len(order)]
  BY <1>3, <1>4, MergeUnfold
<1> DEFINE Goods == {n \in Nat : n <= Len(order) => g[n] \in NeatTables(A)}
<1>6. 0 \in Goods
  BY <1>5
<1>7. ASSUME NEW n \in Nat, n \in Goods, n + 1 <= Len(order)
      PROVE  g[n + 1] \in NeatTables(A)
  <2> DEFINE s == g[n]
             p == order[n + 1]
  <2>1. n + 1 \in 1 .. Len(order) /\ (n + 1) - 1 = n /\ n <= Len(order)
    BY <1>2, <1>7
  <2>2. g[n + 1] = Inherit(s, p) /\ s \in NeatTables(A) /\ p \in Stored
    BY <1>1, <1>2, <1>5, <1>7, <2>1
  <2> HIDE DEF s, p
  <2> QED BY <2>2, InheritNeat
<1>8. \A n \in Nat : n \in Goods => n + 1 \in Goods
  BY <1>7
<1>9. Len(order) \in Goods
  <2> HIDE DEF Goods
  <2> QED BY <1>2, <1>6, <1>8, NatSetInduction
<1> QED BY <1>2, <1>5, <1>9

\* What FoldAS adds can be added.
LEMMA ASAdditions ==
  ASSUME NEW b
  PROVE  [k \in DOMAIN Intersect(b) |-> <<AS, 1, Intersect(b)[k]>>] \in Additions(Selected(cats[b]))
<1> DEFINE at == {i \in DOMAIN ASCategories : Has(b, ASCategories[i])}
           R == {e \in at \X at : e[1] < e[2]}
           n == Cardinality(at)
           kept == Sorted(at, R)
           ms == [k \in DOMAIN Intersect(b) |-> <<AS, 1, Intersect(b)[k]>>]
<1>1. Len(ASCategories) \in Nat /\ DOMAIN ASCategories = 1 .. Len(ASCategories)
  BY MkDatabaseAssumption, LenProperties DEF MkDatabaseAssumption
<1>2. IsFiniteSet(at) /\ at \in SUBSET Nat
  <2>1. IsFiniteSet(1 .. Len(ASCategories))
    BY <1>1, FS_Interval
  <2>2. at \in SUBSET (1 .. Len(ASCategories))
    BY <1>1
  <2> HIDE DEF at
  <2>3. IsFiniteSet(at)
    BY <2>1, <2>2, FS_Subset
  <2> QED BY <1>1, <2>2, <2>3
<1>3. Intersect(b) = [k \in DOMAIN kept |-> ASCategories[kept[k]]]
  BY DEF Intersect
<1>4. /\ \A i \in at : i \in DOMAIN ASCategories /\ ASCategories[i] \in cats[b]
      /\ \A i \in DOMAIN ASCategories : ASCategories[i] \in cats[b] => i \in at
  BY DEF Has
<1> HIDE DEF at
<1>5. /\ n \in Nat /\ kept \in [1 .. n -> at]
      /\ \A x \in at : \E k \in 1 .. n : kept[k] = x
      /\ \A j, k \in 1 .. n : j < k => kept[j] < kept[k]
  BY <1>2, SortedNumbers
<1> HIDE DEF R, kept, n
<1>6. /\ DOMAIN Intersect(b) = 1 .. n
      /\ \A k \in 1 .. n : Intersect(b)[k] = ASCategories[kept[k]]
  BY <1>3, <1>5
<1>7. \A k \in 1 .. n : /\ kept[k] \in at /\ kept[k] \in Nat
                        /\ ASCategories[kept[k]] \in Range(ASCategories) \cap cats[b]
  BY <1>2, <1>4, <1>5 DEF Range
<1>8. /\ DOMAIN ms = 1 .. n
      /\ \A k \in 1 .. n : ms[k] = <<AS, 1, ASCategories[kept[k]]>>
  BY <1>6
<1>9. ms = [k \in 1 .. n |-> ms[k]]
  BY <1>6
<1> HIDE DEF ms
<1>10. ms \in Seq(Given) /\ Len(ms) = n
  <2>1. \A k \in 1 .. n : ms[k] \in Given
    BY <1>7, <1>8 DEF Given
  <2>2. ms \in [1 .. n -> Given]
    BY <1>9, <2>1
  <2> QED BY <1>5, <2>2, SeqDef, LenProperties
<1>11. OfAS(Range(ms)) = Selected(cats[b])
  <2>1. \A m : m \in OfAS(Range(ms)) <=> \E k \in 1 .. n : m = <<AS, 1, ASCategories[kept[k]]>>
    <3>1. \A m : m \in Range(ms) <=> \E k \in 1 .. n : m = ms[k]
      BY <1>8 DEF Range
    <3> QED BY <1>8, <3>1 DEF OfAS
  <2>2. \A m : m \in Selected(cats[b]) <=> \E c \in Range(ASCategories) \cap cats[b] : m = <<AS, 1, c>>
    BY DEF Selected
  <2>3. \A c \in Range(ASCategories) \cap cats[b] : \E k \in 1 .. n : ASCategories[kept[k]] = c
    <3> TAKE c \in Range(ASCategories) \cap cats[b]
    <3>1. PICK i \in DOMAIN ASCategories : ASCategories[i] = c
      BY DEF Range
    <3>2. i \in at
      BY <1>4, <3>1
    <3> QED BY <1>5, <3>1, <3>2
  <2>4. \A m : m \in OfAS(Range(ms)) <=> m \in Selected(cats[b])
    BY <1>7, <2>1, <2>2, <2>3
  <2> QED BY <2>4
<1>12. ASSUME NEW i \in 1 .. n, NEW j \in 1 .. n, i < j
       PROVE  \/ Place(ms[i][3]) < Place(ms[j][3])
              \/ \E k \in 1 .. i : ms[k] = ms[j]
  <2> DEFINE c == ASCategories[kept[i]]
             d == ASCategories[kept[j]]
  <2>1. /\ c \in Range(ASCategories) /\ d \in Range(ASCategories) /\ d \in cats[b]
        /\ kept[i] \in DOMAIN ASCategories /\ kept[i] \in Nat /\ ASCategories[kept[i]] = c
    BY <1>4, <1>7
  <2>2. ms[i] = <<AS, 1, c>> /\ ms[j] = <<AS, 1, d>>
    BY <1>8
  <2> HIDE DEF c, d
  <2>3. Place(c) \in Int /\ Place(c) <= kept[i]
    BY <2>1, PlaceFacts
  <2>4. Place(d) \in Int /\ Place(d) \in DOMAIN ASCategories /\ ASCategories[Place(d)] = d
    BY <2>1, PlaceFacts
  <2>5. SUFFICES ASSUME Place(d) <= Place(c)
                 PROVE  \E k \in 1 .. i : ms[k] = ms[j]
    BY <2>2, <2>3, <2>4
  <2>6. Place(d) \in at
    BY <1>4, <2>1, <2>4
  <2>7. PICK k \in 1 .. n : kept[k] = Place(d)
    BY <1>5, <2>6
  <2>8. ~(i < k)
    <3> SUFFICES ASSUME i < k
                 PROVE  FALSE
      OBVIOUS
    <3>1. kept[i] < Place(d)
      BY <1>5, <2>7
    <3> QED BY <2>1, <2>3, <2>4, <2>5, <3>1
  <2>9. k \in 1 .. i
    BY <1>5, <2>8
  <2>10. ms[k] = ms[j]
    BY <1>8, <2>2, <2>4, <2>7
  <2> QED BY <2>9, <2>10
<1>13. ms \in Additions(Selected(cats[b]))
  BY <1>10, <1>11, <1>12 DEF Additions
<1> QED BY <1>13 DEF ms

\* The tree holds, at every address, what a record in order is written as: its
\* equal memberships are exchanged only if it is long.
Unsorted == {r \in Seq(Given) : InOrder(r)}
Written ==
  {DataType(v[1], v[2]) : v \in {u \in Unsorted \X BOOLEAN : u[2] => Len(u[1]) > InsertionMax}}

\* What it is to be written.
LEMMA WrittenFacts ==
  /\ \A s, x : InOrder(s) /\ x \in BOOLEAN /\ (x => Len(s) > InsertionMax) => DataType(s, x) \in Written
  /\ \A d \in Written : \E s, x : InOrder(s) /\ x \in BOOLEAN /\ (x => Len(s) > InsertionMax)
                                /\ d = DataType(s, x)
<1>1. ASSUME NEW s, NEW x, InOrder(s), x \in BOOLEAN, x => Len(s) > InsertionMax
      PROVE  DataType(s, x) \in Written
  <2> DEFINE u == <<s, x>>
  <2>1. u \in Unsorted \X BOOLEAN /\ (u[2] => Len(u[1]) > InsertionMax) /\ DataType(s, x) = DataType(u[1], u[2])
    BY <1>1 DEF Unsorted, InOrder
  <2> HIDE DEF u
  <2> QED BY <2>1 DEF Written
<1>2. ASSUME NEW d \in Written
      PROVE  \E s, x : InOrder(s) /\ x \in BOOLEAN /\ (x => Len(s) > InsertionMax)
                       /\ d = DataType(s, x)
  <2>1. PICK u \in Unsorted \X BOOLEAN : (u[2] => Len(u[1]) > InsertionMax) /\ d = DataType(u[1], u[2])
    BY DEF Written
  <2>2. InOrder(u[1]) /\ u[2] \in BOOLEAN
    BY DEF Unsorted
  <2> QED BY <2>1, <2>2
<1> QED BY <1>1, <1>2

\* What is inserted is so written.
LEMMA InsertNeat ==
  ASSUME NEW A, NEW t \in NeatTables(A), NEW order \in InsertOrders(t),
         NEW exchanged \in SUBSET LongRecords(t)
  PROVE  Insert(t, order, exchanged) \in [Addr -> Written]
<1>2. ASSUME NEW a \in Addr
      PROVE  Insert(t, order, exchanged)[a] \in Written
  <2>1. CASE Insert(t, order, exchanged)[a] = DataType(<< >>, FALSE)
    <3> DEFINE e == << >>
               x == FALSE
    <3>1. InOrder(e) /\ x \in BOOLEAN /\ ~x
      BY NeatSmall
    <3> HIDE DEF e, x
    <3>2. DataType(e, x) \in Written
      BY <3>1, WrittenFacts
    <3> QED BY <2>1, <3>2 DEF e, x
  <2>2. CASE \E p \in Networks(t) : WrittenFor(Insert(t, order, exchanged)[a], t, p, exchanged)
    <3>4. PICK p \in Networks(t) : WrittenFor(Insert(t, order, exchanged)[a], t, p, exchanged)
      BY <2>2
    <3>1. PICK x \in BOOLEAN :
               (x => p \in exchanged) /\ Insert(t, order, exchanged)[a] = DataType(t[p], x)
      BY <3>4 DEF WrittenFor
    <3> DEFINE s == t[p]
    <3>2. InOrder(s) /\ (x => Len(s) > InsertionMax)
      BY <3>1, NeatAdditions DEF NeatTables, Networks, LongRecords
    <3> HIDE DEF s
    <3>3. DataType(s, x) \in Written
      BY <3>2, WrittenFacts
    <3> QED BY <3>1, <3>3 DEF s
  <2> QED BY <2>1, <2>2, InsertFacts
<1>3. Insert(t, order, exchanged) = [a \in Addr |-> Insert(t, order, exchanged)[a]]
  BY DEF Insert
<1> DEFINE tree == Insert(t, order, exchanged)
<1>4. tree = [a \in Addr |-> tree[a]] /\ \A a \in Addr : tree[a] \in Written
  BY <1>2, <1>3
<1> HIDE DEF tree
<1>5. tree \in [Addr -> Written]
  BY <1>4
<1> QED BY <1>5 DEF tree

\* Sorting changes neither how long a record is nor what is in it.
LEMMA WrittenLength ==
  ASSUME NEW s, InOrder(s), NEW x \in BOOLEAN
  PROVE  Range(DataType(s, x).sources) = Range(s) /\ Len(DataType(s, x).sources) = Len(s)
<1> DEFINE n == Len(s)
           d == DataType(s, x).sources
<1>1. s \in Seq(Given) /\ n \in Nat
  BY LenProperties DEF InOrder
<1>2. /\ Range(d) = Range(s)
      /\ \E o \in [1 .. n -> 1 .. n] :
           /\ d = [k \in 1 .. n |-> s[o[k]]]
           /\ \A j, k \in 1 .. n : j < k => StaysBefore(s, o[j], o[k], x)
  BY <1>1, GivenFacts, DataTypeFacts
<1>3. PICK o : d = [k \in 1 .. n |-> s[o[k]]]
  BY <1>2
<1> DEFINE g == [k \in 1 .. n |-> s[o[k]]]
<1>4. Len(g) = n
  <2>1. DOMAIN g = 1 .. n
    OBVIOUS
  <2> DEFINE V == {s[o[k]] : k \in 1 .. n}
  <2>2. g \in [1 .. n -> V]
    OBVIOUS
  <2> HIDE DEF g, n, V
  <2>3. g \in Seq(V)
    BY <1>1, <2>2, SeqDef
  <2>4. Len(g) \in Nat /\ 1 .. Len(g) = 1 .. n
    BY <2>1, <2>3, LenProperties
  <2> QED BY <1>1, <2>4
<1> HIDE DEF n, d, g
<1> QED BY <1>2, <1>3, <1>4 DEF n, d, g

\* Short records with the same memberships are the same, whichever sort wrote them.
LEMMA OneRecord ==
  ASSUME NEW d \in Written, NEW e \in Written,
         Range(d.sources) = Range(e.sources), ~(Len(d.sources) > InsertionMax)
  PROVE  d = e
<1>1. PICK s, x : InOrder(s) /\ x \in BOOLEAN /\ (x => Len(s) > InsertionMax) /\ d = DataType(s, x)
  BY WrittenFacts
<1>2. PICK t, y : InOrder(t) /\ y \in BOOLEAN /\ (y => Len(t) > InsertionMax) /\ e = DataType(t, y)
  BY WrittenFacts
<1>3. Range(d.sources) = Range(s) /\ Len(d.sources) = Len(s)
  BY <1>1, WrittenLength
<1>4. Range(e.sources) = Range(t) /\ Len(e.sources) = Len(t)
  BY <1>2, WrittenLength
<1>5. Range(s) = Range(t)
  BY <1>3, <1>4
<1>6. Len(s) = Len(t) /\ DataType(s, FALSE) = DataType(t, FALSE)
  BY <1>1, <1>2, <1>5, WrittenOnce
<1>7. x = FALSE /\ y = FALSE
  BY <1>1, <1>2, <1>3, <1>6
<1> QED BY <1>1, <1>2, <1>6, <1>7

-----------------------------------------------------------------------------
(* Equal findings, equal records: every build *)

\* Every build's table is neat, and so is what builds have written: however
\* many run at once, and whatever they read.
CanonicalInv ==
  /\ pc = [b \in Builds |-> pc[b]] /\ cats = [b \in Builds |-> cats[b]]
  /\ table = [b \in Builds |-> table[b]]
  /\ \A b \in Builds : /\ table[b] \in NeatTables(Selected(cats[b]))
                       /\ pc[b] = "idle" => table[b] = EmptyTable
  /\ out \in [Builds -> [Addr -> Written] \cup {None}]

\* A build that goes on with a neat table.
LEMMA NeatStep ==
  ASSUME CanonicalInv, NEW b \in Builds, NEW step, step # "idle", NEW selection,
         NEW t \in NeatTables(Selected(selection)),
         pc' = [pc EXCEPT ![b] = step], cats' = [cats EXCEPT ![b] = selection],
         table' = [table EXCEPT ![b] = t], out' \in [Builds -> [Addr -> Written] \cup {None}]
  PROVE  CanonicalInv'
<1>1. /\ pc' = [c \in Builds |-> pc'[c]] /\ cats' = [c \in Builds |-> cats'[c]]
      /\ table' = [c \in Builds |-> table'[c]]
  BY DEF CanonicalInv
<1>2. pc'[b] = step /\ cats'[b] = selection /\ table'[b] = t
  BY DEF CanonicalInv
<1>3. \A c \in Builds : c # b => pc'[c] = pc[c] /\ cats'[c] = cats[c] /\ table'[c] = table[c]
  BY DEF CanonicalInv
<1>4. ASSUME NEW c \in Builds
      PROVE  /\ table'[c] \in NeatTables(Selected(cats'[c]))
             /\ pc'[c] = "idle" => table'[c] = EmptyTable
  <2>1. CASE c = b
    BY <1>2, <2>1
  <2>2. CASE c # b
    BY <1>3, <2>2 DEF CanonicalInv
  <2> QED BY <2>1, <2>2
<1> QED BY <1>1, <1>4 DEF CanonicalInv

\* A build that goes on with another table, and the same categories.
LEMMA NeatMove ==
  ASSUME CanonicalInv, NEW b \in Builds, NEW step, step # "idle",
         NEW t \in NeatTables(Selected(cats[b])),
         pc' = [pc EXCEPT ![b] = step], cats' = cats, table' = [table EXCEPT ![b] = t], out' = out
  PROVE  CanonicalInv'
<1> DEFINE selection == cats[b]
<1>1. cats' = [cats EXCEPT ![b] = selection] /\ t \in NeatTables(Selected(selection))
  BY DEF CanonicalInv
<1>2. out' \in [Builds -> [Addr -> Written] \cup {None}]
  BY DEF CanonicalInv
<1> HIDE DEF selection
<1> QED BY <1>1, <1>2, NeatStep

\* A step that leaves every build's table alone.
LEMMA NeatStays ==
  ASSUME CanonicalInv, NEW b \in Builds, NEW step, step # "idle",
         pc' = pc \/ pc' = [pc EXCEPT ![b] = step],
         UNCHANGED <<cats, table, out>>
  PROVE  CanonicalInv'
<1>1. CASE pc' = pc
  BY <1>1 DEF CanonicalInv
<1>2. CASE pc' = [pc EXCEPT ![b] = step]
  <2>1. /\ pc' = [c \in Builds |-> pc'[c]]
        /\ \A c \in Builds : pc'[c] = "idle" => pc[c] = "idle"
    BY <1>2 DEF CanonicalInv
  <2> QED BY <2>1 DEF CanonicalInv
<1> QED BY <1>1, <1>2

\* A build that ends without a database.
LEMMA NeatFail ==
  ASSUME CanonicalInv, NEW b \in Builds, Fail(b), out' = out
  PROVE  CanonicalInv'
<1> DEFINE step == "failed"
           selection == {}
           t == EmptyTable
<1>1. /\ step # "idle" /\ t \in NeatTables(Selected(selection))
      /\ pc' = [pc EXCEPT ![b] = step] /\ cats' = [cats EXCEPT ![b] = selection]
      /\ table' = [table EXCEPT ![b] = t]
  BY NeatTableFacts DEF Fail, Leave
<1>2. out' \in [Builds -> [Addr -> Written] \cup {None}]
  BY DEF CanonicalInv
<1> HIDE DEF step, selection, t
<1> QED BY <1>1, <1>2, NeatStep

\* Starting, and the steps in the repository.
LEMMA NeatRepository ==
  ASSUME CanonicalInv, NEW b \in Builds, Start(b) \/ Repository(b)
  PROVE  CanonicalInv'
<1>1. CASE Start(b)
  <2>1. PICK selection \in Selections :
          /\ cats' = [cats EXCEPT ![b] = selection]
          /\ pc' = [pc EXCEPT ![b] =
                      IF \E l \in Lists : RepoLists[l] \in selection THEN "repo" ELSE "http"]
    BY <1>1 DEF Start
  <2> DEFINE step == IF \E l \in Lists : RepoLists[l] \in selection THEN "repo" ELSE "http"
             t == EmptyTable
  <2>2. table[b] = EmptyTable /\ table' = table /\ out' = out
    BY <1>1 DEF Start, CanonicalInv
  <2>3. table' = [table EXCEPT ![b] = t]
    BY <2>2 DEF CanonicalInv
  <2>4. step # "idle" /\ pc' = [pc EXCEPT ![b] = step] /\ t \in NeatTables(Selected(selection))
    BY <2>1, NeatTableFacts
  <2>5. out' \in [Builds -> [Addr -> Written] \cup {None}]
    BY <2>2 DEF CanonicalInv
  <2> HIDE DEF step, t
  <2> QED BY <2>1, <2>3, <2>4, <2>5, NeatStep
<1>2. CASE CollectList(b)
  <2> DEFINE l == next[b]
             m == <<l, 1, RepoLists[l]>>
             ms == <<m>>
             t == table[b]
             A == Selected(cats[b])
             step == "collect"
  <2>1. /\ pc[b] = step /\ step # "idle" /\ pc' = pc /\ cats' = cats /\ out' = out /\ l \in Lists
    BY <1>2 DEF CollectList
  <2>2. m \in Given /\ m[1] # AS
    BY <2>1, Numbers DEF Given
  <2>3. t \in NeatTables(A) /\ pc' = [pc EXCEPT ![b] = step]
    BY <2>1 DEF CanonicalInv
  <2> HIDE DEF step
  <2>4. CASE table' = table
    <3>1. table' = [table EXCEPT ![b] = t]
      BY <2>4 DEF CanonicalInv
    <3> HIDE DEF t
    <3> QED BY <2>1, <2>3, <3>1, NeatMove DEF A
  <2>5. ASSUME NEW prefixes, table' = [table EXCEPT ![b] = Fold(table[b], prefixes, ms)]
        PROVE  CanonicalInv'
    <3> DEFINE new == Fold(t, prefixes, ms)
    <3>1. new \in NeatTables(A)
      <4> HIDE DEF m, t, A
      <4>1. ms \in Additions(A)
        BY <2>2, NeatSmall
      <4> HIDE DEF ms
      <4> QED BY <2>3, <4>1, FoldNeat
    <3>2. table' = [table EXCEPT ![b] = new]
      BY <2>5
    <3> HIDE DEF new
    <3> QED BY <2>1, <2>3, <3>1, <3>2, NeatMove DEF A
  <2>6. table' = table \/ \E prefixes : table' = [table EXCEPT ![b] = Fold(table[b], prefixes, ms)]
    BY <1>2 DEF CollectList
  <2> QED BY <2>4, <2>5, <2>6
<1>3. CASE UseCachedRepo(b) \/ WriteMarker(b) \/ CachingFails(b)
  <2> DEFINE step == "collect"
  <2>1. step # "idle" /\ pc' = [pc EXCEPT ![b] = step] /\ UNCHANGED <<cats, table, out>>
    BY <1>3 DEF UseCachedRepo, WriteMarker, CachingFails, ReadFrom, Goto
  <2> HIDE DEF step
  <2> QED BY <2>1, NeatStays
<1>4. CASE Clone(b)
  <2> DEFINE step == "remove"
  <2>1. step # "idle" /\ pc' = [pc EXCEPT ![b] = step] /\ UNCHANGED <<cats, table, out>>
    BY <1>4 DEF Clone, Goto
  <2> HIDE DEF step
  <2> QED BY <2>1, NeatStays
<1>5. CASE Removed(b)
  <2> DEFINE step == "write"
  <2>1. step # "idle" /\ pc' = [pc EXCEPT ![b] = step] /\ UNCHANGED <<cats, table, out>>
    BY <1>5 DEF Removed, Goto
  <2> HIDE DEF step
  <2> QED BY <2>1, NeatStays
<1>6. CASE Collected(b)
  <2> DEFINE step == "http"
  <2>1. step # "idle" /\ pc' = [pc EXCEPT ![b] = step] /\ UNCHANGED <<cats, table, out>>
    BY <1>6 DEF Collected, Goto
  <2> HIDE DEF step
  <2> QED BY <2>1, NeatStays
<1>7. CASE RemoveFile(b) \/ WriteList(b)
  <2>1. pc' = pc /\ UNCHANGED <<cats, table, out>>
    BY <1>7 DEF RemoveFile, WriteList, buildVars
  <2> QED BY <2>1 DEF CanonicalInv
<1> QED BY <1>1, <1>2, <1>3, <1>4, <1>5, <1>6, <1>7 DEF Repository

\* The other sources.
LEMMA NeatSources ==
  ASSUME CanonicalInv, NEW b \in Builds, Sources(b)
  PROVE  CanonicalInv'
<1> DEFINE t == table[b]
           A == Selected(cats[b])
<1>1. t \in NeatTables(A)
  BY DEF CanonicalInv
<1> HIDE DEF t
<1>2. ASSUME NEW at, FoldHttp(b, at), Goto(b, "as"), cats' = cats, out' = out
      PROVE  CanonicalInv'
  <2>1. PICK order \in SetToSeqs(HttpProviders) :
          table' = [table EXCEPT ![b] = FoldGroups(table[b], at, order)]
    BY <1>2 DEF FoldHttp
  <2> DEFINE new == FoldGroups(t, at, order)
             step == "as"
  <2>2. step # "idle" /\ pc' = [pc EXCEPT ![b] = step] /\ table' = [table EXCEPT ![b] = new]
    BY <1>2, <2>1 DEF Goto, t
  <2>3. new \in NeatTables(A)
    <3> HIDE DEF A
    <3> QED BY <1>1, FoldGroupsNeat
  <2> HIDE DEF new, step
  <2> QED BY <1>2, <2>2, <2>3, NeatMove
<1>3. CASE HttpCached(b)
  <2>1. CASE Fail(b)
    BY <1>3, <2>1, NeatFail DEF HttpCached
  <2>2. CASE Goto(b, "as") /\ FoldHttp(b, httpFile.at) /\ UNCHANGED <<cats, begun, repoVars>>
    BY <1>2, <1>3, <2>2 DEF HttpCached
  <2> QED BY <1>3, <2>1, <2>2 DEF HttpCached
<1>4. CASE Download(b)
  <2>1. CASE Fail(b)
    BY <1>4, <2>1, NeatFail DEF Download
  <2>2. CASE Goto(b, "as") /\ FoldHttp(b, now) /\ UNCHANGED <<cats, begun, repoVars>>
    BY <1>2, <1>4, <2>2 DEF Download
  <2> QED BY <1>4, <2>1, <2>2 DEF Download
<1>5. ASSUME NEW prefixes, FoldAS(b, prefixes), Goto(b, "file"), cats' = cats, out' = out
      PROVE  CanonicalInv'
  <2> DEFINE ms == [k \in DOMAIN Intersect(b) |-> <<AS, 1, Intersect(b)[k]>>]
             new == Fold(t, prefixes, ms)
             step == "file"
  <2>1. step # "idle" /\ pc' = [pc EXCEPT ![b] = step] /\ table' = [table EXCEPT ![b] = new]
    BY <1>5 DEF Goto, FoldAS, t
  <2>2. ms \in Additions(A)
    BY ASAdditions
  <2>3. new \in NeatTables(A)
    <3> HIDE DEF A, ms
    <3> QED BY <1>1, <2>2, FoldNeat
  <2> HIDE DEF new, step
  <2> QED BY <1>5, <2>1, <2>3, NeatMove
<1>6. CASE ASCached(b)
  BY <1>5, <1>6 DEF ASCached
<1>7. CASE FetchAS(b)
  <2>1. PICK prefixes : FoldAS(b, prefixes)
    BY <1>7 DEF FetchAS
  <2> QED BY <1>5, <1>7, <2>1 DEF FetchAS
<1>8. CASE CollectFile(b)
  <2> DEFINE m == <<File, 1, FileCategory>>
             ms == <<m>>
             prefixes == Read("parseIPLines", Published(<<File, 1>>, 0))
             new == IF Has(b, FileCategory) THEN Fold(t, prefixes, ms) ELSE t
             step == "merge"
  <2>1. /\ step # "idle" /\ pc' = [pc EXCEPT ![b] = step] /\ cats' = cats /\ out' = out
        /\ table' = [table EXCEPT ![b] = new]
    BY <1>8 DEF CollectFile, Goto, t
  <2>2. m \in Given /\ m[1] # AS
    BY Numbers DEF Given
  <2>3. new \in NeatTables(A)
    <3> HIDE DEF m, A
    <3>1. ms \in Additions(A)
      BY <2>2, NeatSmall
    <3> HIDE DEF ms, prefixes
    <3>2. Fold(t, prefixes, ms) \in NeatTables(A)
      BY <1>1, <3>1, FoldNeat
    <3> QED BY <1>1, <3>2
  <2> HIDE DEF new, step
  <2> QED BY <2>1, <2>3, NeatMove
<1>9. CASE HttpSkipped(b)
  <2> DEFINE step == "as"
  <2>1. step # "idle" /\ pc' = [pc EXCEPT ![b] = step] /\ UNCHANGED <<cats, table, out>>
    BY <1>9 DEF HttpSkipped, Goto
  <2> HIDE DEF step
  <2> QED BY <2>1, NeatStays
<1>10. CASE ASSkipped(b)
  <2> DEFINE step == "file"
  <2>1. step # "idle" /\ pc' = [pc EXCEPT ![b] = step] /\ UNCHANGED <<cats, table, out>>
    BY <1>10 DEF ASSkipped, Goto
  <2> HIDE DEF step
  <2> QED BY <2>1, NeatStays
<1> QED BY <1>3, <1>4, <1>6, <1>7, <1>8, <1>9, <1>10 DEF Sources

\* Merging, writing and stopping.
LEMMA NeatEnds ==
  ASSUME CanonicalInv, NEW b \in Builds, Merge(b) \/ Output(b) \/ Abort(b)
  PROVE  CanonicalInv'
<1> DEFINE t == table[b]
           selection == cats[b]
           A == Selected(selection)
<1>1. t \in NeatTables(A)
  BY DEF CanonicalInv
<1>2. CASE Merge(b)
  <2>1. PICK order \in Orders(table[b]) :
          table' = [table EXCEPT ![b] = MergeContained(table[b], order)]
    BY <1>2 DEF Merge
  <2> DEFINE new == MergeContained(t, order)
             step == "output"
  <2>2. /\ step # "idle" /\ pc' = [pc EXCEPT ![b] = step] /\ cats' = cats /\ out' = out
        /\ table' = [table EXCEPT ![b] = new] /\ order \in Orders(t)
    BY <1>2, <2>1 DEF Merge, Goto
  <2>3. new \in NeatTables(A)
    <3> HIDE DEF t, A
    <3> QED BY <1>1, <2>2, MergeNeat
  <2> HIDE DEF new, step
  <2> QED BY <2>2, <2>3, NeatMove
<1>3. CASE Output(b)
  <2>1. PICK order \in InsertOrders(table[b]), exchanged \in SUBSET LongRecords(table[b]) :
          out' = [out EXCEPT ![b] = Insert(table[b], order, exchanged)]
    BY <1>3 DEF Output
  <2> DEFINE tree == Insert(t, order, exchanged)
             step == "done"
             new == EmptyTable
  <2>2. /\ out' = [out EXCEPT ![b] = tree] /\ order \in InsertOrders(t)
        /\ exchanged \in SUBSET LongRecords(t)
    BY <2>1
  <2>3. tree \in [Addr -> Written]
    <3> HIDE DEF t, A
    <3> QED BY <1>1, <2>2, InsertNeat
  <2>4. /\ step # "idle" /\ pc' = [pc EXCEPT ![b] = step] /\ table' = [table EXCEPT ![b] = new]
        /\ cats' = [cats EXCEPT ![b] = selection] /\ new \in NeatTables(A)
    BY <1>3, NeatTableFacts DEF Output, Goto, Leave, CanonicalInv
  <2> HIDE DEF tree, step, new, selection
  <2>5. out' \in [Builds -> [Addr -> Written] \cup {None}]
    BY <2>2, <2>3 DEF CanonicalInv
  <2> QED BY <2>4, <2>5, NeatStep
<1>4. CASE Abort(b)
  BY <1>4, NeatFail DEF Abort
<1> QED BY <1>2, <1>3, <1>4

\* Nothing is collected or written at first.
LEMMA NeatInit == Init => CanonicalInv
<1> SUFFICES ASSUME Init PROVE CanonicalInv
  OBVIOUS
<1>1. \A b \in Builds : table[b] = EmptyTable
  BY DEF Init
<1>2. \A b \in Builds : table[b] \in NeatTables(Selected(cats[b]))
  BY <1>1, NeatTableFacts
<1> QED BY <1>1, <1>2 DEF Init, CanonicalInv

\* Every step keeps it so.
LEMMA NeatNext == CanonicalInv /\ [Next]_vars => CanonicalInv'
<1> SUFFICES ASSUME CanonicalInv, [Next]_vars PROVE CanonicalInv'
  OBVIOUS
<1>1. CASE UNCHANGED vars \/ Tick
  <2>1. UNCHANGED <<pc, cats, table, out>>
    BY <1>1 DEF vars, Tick, buildVars
  <2> QED BY <2>1 DEF CanonicalInv
<1>2. ASSUME NEW b \in Builds,
             Start(b) \/ Repository(b) \/ Sources(b) \/ Merge(b) \/ Output(b) \/ Abort(b)
      PROVE  CanonicalInv'
  BY <1>2, NeatRepository, NeatSources, NeatEnds
<1> QED BY <1>1, <1>2 DEF Next

\* Builds that found the same of an address write the same record for it, if it
\* has no more memberships than sort.Slice sorts by insertion: any number of
\* builds, at once or one after another, of any categories, whatever order
\* tables and groups were walked in and lists were read in, and whatever the
\* sort does to longer records (record.go, sort; sources.go, fold, foldAS and
\* mergeContained).
THEOREM EqualFindingsEqualRecords == Spec => []ShortRecordsCanonical
<1>1. CanonicalInv => ShortRecordsCanonical
  <2> SUFFICES ASSUME CanonicalInv, NEW b \in Builds, NEW c \in Builds,
                      out[b] # None, out[c] # None, NEW a \in Addr,
                      ~(Len(out[b][a].sources) > InsertionMax),
                      Range(out[b][a].sources) = Range(out[c][a].sources)
               PROVE  out[b][a] = out[c][a]
    BY DEF ShortRecordsCanonical
  <2>1. out[b][a] \in Written /\ out[c][a] \in Written
    BY DEF CanonicalInv
  <2> QED BY <2>1, OneRecord
<1> QED BY <1>1, NeatInit, NeatNext, PTL DEF Spec
=============================================================================
