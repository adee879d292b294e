--------------------------- MODULE Publish_proofs ---------------------------
(***************************************************************************)
(* What publish-database leaves in the bucket, for any number of runs: the *)
(* index never lists a missing database, lists each version once, and is   *)
(* exactly the most recent publications until two runs overlap.  First     *)
(* what InsertVersion and the reference definition Recent compute.         *)
(***************************************************************************)
EXTENDS Publish, SetInduction, SequenceTheorems, FiniteSetTheorems

\* The recursion in Others, unfolded: the loop of InsertVersion (index.go:68-74).
LEMMA OthersUnfold ==
  ASSUME NEW E, NEW s \in Seq(E), NEW id
  PROVE  \E g : /\ g[0] = << >>
                /\ \A n \in 1 .. Len(s) :
                     g[n] = IF s[n].id = id THEN g[n - 1]
                            ELSE Append(g[n - 1], s[n])
                /\ Others(s, id) = g[Len(s)]
<1> DEFINE Add(kept, n) == IF s[n].id = id THEN kept ELSE Append(kept, s[n])
           Step(g, n) == IF n = 0 THEN << >>
                         ELSE IF s[n].id = id THEN g[n - 1]
                         ELSE Append(g[n - 1], s[n])
           Unfolds(g, n) == g = [m \in 0 .. n |-> Step(g, m)]
           Defined == {n \in Nat : \E g : Unfolds(g, n)}
<1>1. 0 \in Defined
  <2>1. Unfolds([m \in 0 .. 0 |-> << >>], 0)
    OBVIOUS
  <2> QED BY <2>1
<1>2. ASSUME NEW n \in Nat, n \in Defined
      PROVE  n + 1 \in Defined
  <2>1. PICK g : Unfolds(g, n)
    BY <1>2
  <2> DEFINE h == [m \in 0 .. (n + 1) |-> IF m = n + 1 THEN Step(g, n + 1) ELSE g[m]]
  <2>2. \A m \in 0 .. n : g[m] = Step(g, m)
    <3> HIDE DEF Step
    <3> QED BY <2>1
  <2>3. \A m \in 0 .. n : h[m] = g[m]
    <3> HIDE DEF Step
    <3> QED OBVIOUS
  <2>4. h[n + 1] = Step(g, n + 1)
    <3> HIDE DEF Step
    <3> QED OBVIOUS
  <2>5. \A m \in 0 .. (n + 1) : h[m] = Step(h, m)
    <3> SUFFICES ASSUME NEW m \in 0 .. (n + 1)
                 PROVE  h[m] = Step(h, m)
      OBVIOUS
    <3> HIDE DEF h
    <3>1. m # 0 => h[m - 1] = g[m - 1]
      BY <2>3
    <3>2. Step(h, m) = Step(g, m)
      BY <3>1
    <3> HIDE DEF Step
    <3> QED BY <2>2, <2>3, <2>4, <3>2
  <2>6. h = [m \in 0 .. (n + 1) |-> h[m]]
    <3> HIDE DEF Step
    <3> QED OBVIOUS
  <2>7. Unfolds(h, n + 1)
    <3> HIDE DEF Step, h
    <3> QED BY <2>5, <2>6
  <2> HIDE DEF Unfolds, h
  <2> QED BY <2>7
<1>3. \E g : Unfolds(g, Len(s))
  <2>1. \A n \in Nat : n \in Defined => n + 1 \in Defined
    BY <1>2
  <2>2. Len(s) \in Defined
    <3> HIDE DEF Defined
    <3> QED BY <1>1, <2>1, NatSetInduction
  <2> HIDE DEF Unfolds
  <2> QED BY <2>2
<1>4. PICK g : Unfolds(g, Len(s)) /\ Others(s, id) = g[Len(s)]
  <2>1. Others(s, id) = (CHOOSE g : Unfolds(g, Len(s)))[Len(s)]
    BY DEF Others
  <2> HIDE DEF Unfolds
  <2> QED BY <1>3, <2>1
<1>5. \A n \in 0 .. Len(s) : g[n] = Step(g, n)
  <2> HIDE DEF Step
  <2> QED BY <1>4
<1>6. /\ g[0] = << >>
      /\ \A n \in 1 .. Len(s) : g[n] = IF s[n].id = id THEN g[n - 1]
                                      ELSE Append(g[n - 1], s[n])
  BY <1>5
<1>7. Others(s, id) = g[Len(s)]
  BY <1>4
<1> HIDE DEF Unfolds
<1> QED BY <1>6, <1>7

\* f places the sequence o in the first n entries of s, in order, skipping
\* exactly those named id.
Places(f, o, s, n, id) ==
  /\ f \in [1 .. Len(o) -> 1 .. n]
  /\ \A k \in 1 .. Len(o) : o[k] = s[f[k]] /\ s[f[k]].id # id
  /\ \A j, k \in 1 .. Len(o) : j < k => f[j] < f[k]
  /\ \A i \in 1 .. n : s[i].id # id => \E k \in 1 .. Len(o) : f[k] = i
  /\ Len(o) <= n
  /\ (\A i \in 1 .. n : s[i].id # id) => Len(o) = n
  /\ (\A i, j \in 1 .. n : s[i].id = id /\ s[j].id = id => i = j)
       => Len(o) >= n - 1

\* What Others leaves out, and where it puts the rest.
LEMMA OthersPlaced ==
  ASSUME NEW E, NEW s \in Seq(E), NEW id
  PROVE  /\ Others(s, id) \in Seq(E)
         /\ \E f : Places(f, Others(s, id), s, Len(s), id)
<1>1. PICK g : /\ g[0] = << >>
               /\ \A n \in 1 .. Len(s) :
                     g[n] = IF s[n].id = id THEN g[n - 1]
                            ELSE Append(g[n - 1], s[n])
               /\ Others(s, id) = g[Len(s)]
  BY OthersUnfold
<1> DEFINE Good(n) == g[n] \in Seq(E) /\ \E f : Places(f, g[n], s, n, id)
           Goods == {n \in Nat : n <= Len(s) => Good(n)}
<1>2. 0 \in Goods
  <2>1. Places(<< >>, << >>, s, 0, id)
    BY DEF Places
  <2>2. Good(0)
    BY <1>1, <2>1
  <2> HIDE DEF Good
  <2> QED BY <2>2
<1>3. ASSUME NEW n \in Nat, n \in Goods, n + 1 <= Len(s)
      PROVE  Good(n + 1)
  <2>1. PICK f : g[n] \in Seq(E) /\ Places(f, g[n], s, n, id)
    BY <1>3
  <2>0. g[n + 1] = IF s[n + 1].id = id THEN g[n] ELSE Append(g[n], s[n + 1])
    <3>1. n + 1 \in 1 .. Len(s) /\ (n + 1) - 1 = n
      BY <1>3
    <3> HIDE DEF Good
    <3> QED BY <1>1, <3>1
  <2>2. CASE s[n + 1].id = id
    <3>1. g[n + 1] = g[n]
      BY <2>0, <2>2
    <3>2. Places(f, g[n], s, n + 1, id)
      BY <2>1, <2>2 DEF Places
    <3> QED BY <2>1, <3>1, <3>2
  <2>3. CASE s[n + 1].id # id
    <3> DEFINE o == Append(g[n], s[n + 1])
               h == [k \in 1 .. Len(o) |-> IF k = Len(o) THEN n + 1 ELSE f[k]]
    <3>1. g[n + 1] = o
      BY <2>0, <2>3
    <3>2. /\ o \in Seq(E)
          /\ Len(o) = Len(g[n]) + 1
          /\ \A k \in 1 .. Len(g[n]) : o[k] = g[n][k]
          /\ o[Len(o)] = s[n + 1]
      BY <1>3, <2>1, ElementOfSeq, AppendProperties
    <3>3. /\ \A k \in 1 .. Len(g[n]) : h[k] = f[k]
          /\ h[Len(o)] = n + 1
          /\ h \in [1 .. Len(o) -> 1 .. (n + 1)]
      BY <2>1, <3>2 DEF Places
    <3>4. Places(h, o, s, n + 1, id)
      <4> HIDE DEF o, h
      <4>1. \A k \in 1 .. Len(o) : k = Len(o) \/ k \in 1 .. Len(g[n])
        BY <2>1, <3>2
      <4>2. \A k \in 1 .. Len(o) : o[k] = s[h[k]] /\ s[h[k]].id # id
        BY <2>1, <2>3, <3>2, <3>3, <4>1 DEF Places
      <4>3. \A j, k \in 1 .. Len(o) : j < k => h[j] < h[k]
        <5> SUFFICES ASSUME NEW j \in 1 .. Len(o), NEW k \in 1 .. Len(o), j < k
                     PROVE  h[j] < h[k]
          OBVIOUS
        <5>1. j \in 1 .. Len(g[n]) /\ h[j] = f[j] /\ f[j] \in 1 .. n
          <6>1. j # Len(o)
            BY <2>1, <3>2
          <6> QED BY <2>1, <3>3, <4>1, <6>1 DEF Places
        <5>2. CASE k = Len(o)
          BY <3>3, <5>1, <5>2
        <5>3. CASE k \in 1 .. Len(g[n])
          BY <2>1, <3>3, <5>1, <5>3 DEF Places
        <5> QED BY <4>1, <5>2, <5>3
      <4>4. \A i \in 1 .. (n + 1) : s[i].id # id => \E k \in 1 .. Len(o) : h[k] = i
        <5> SUFFICES ASSUME NEW i \in 1 .. (n + 1), s[i].id # id
                     PROVE  \E k \in 1 .. Len(o) : h[k] = i
          OBVIOUS
        <5>1. Len(o) \in 1 .. Len(o)
          BY <2>1, <3>2
        <5>2. CASE i = n + 1
          BY <5>1, <5>2, <3>3
        <5>3. CASE i \in 1 .. n
          <6>1. PICK k \in 1 .. Len(g[n]) : f[k] = i
            BY <2>1, <5>3 DEF Places
          <6>2. k \in 1 .. Len(o)
            BY <2>1, <3>2
          <6> QED BY <3>3, <6>1, <6>2
        <5> QED BY <5>2, <5>3
      <4>5. Len(o) <= n + 1
        BY <2>1, <3>2 DEF Places
      <4>6. (\A i \in 1 .. (n + 1) : s[i].id # id) => Len(o) = n + 1
        BY <2>1, <3>2 DEF Places
      <4>7. (\A i, j \in 1 .. (n + 1) : s[i].id = id /\ s[j].id = id => i = j)
              => Len(o) >= (n + 1) - 1
        <5> DEFINE Once(m) == \A i, j \in 1 .. m :
                                s[i].id = id /\ s[j].id = id => i = j
        <5>1. Once(n + 1) => Once(n)
          BY <1>3
        <5>2. Once(n) => Len(g[n]) >= n - 1
          BY <2>1 DEF Places
        <5>3. Len(g[n]) \in Nat /\ Len(o) = Len(g[n]) + 1
          BY <2>1, <3>2
        <5> HIDE DEF Once
        <5>4. Once(n + 1) => Len(o) >= (n + 1) - 1
          BY <5>1, <5>2, <5>3
        <5> QED BY <5>4 DEF Once
      <4> QED BY <3>3, <4>2, <4>3, <4>4, <4>5, <4>6, <4>7 DEF Places
    <3> HIDE DEF o, h
    <3> QED BY <3>1, <3>2, <3>4
  <2> QED BY <2>2, <2>3
<1>4. Len(s) \in Goods
  <2>1. \A n \in Nat : n \in Goods => n + 1 \in Goods
    <3> HIDE DEF Good
    <3> QED BY <1>3
  <2> HIDE DEF Goods
  <2> QED BY <1>2, <2>1, NatSetInduction
<1> QED BY <1>1, <1>4


\* InsertVersion puts the new entry first, the others behind it in their order,
\* and cuts what MaxVersions leaves no room for (index.go:66-81).
LEMMA InsertPlaced ==
  ASSUME IndexAssumption, NEW E, NEW s \in Seq(E), NEW v \in E
  PROVE  LET kept == InsertVersion(s, v) IN
         /\ kept \in Seq(E)
         /\ Len(kept) \in 1 .. MaxVersions
         /\ kept[1] = v
         /\ \E o, f :
              /\ o \in Seq(E)
              /\ Places(f, o, s, Len(s), v.id)
              /\ Len(kept) = IF Len(o) + 1 > MaxVersions THEN MaxVersions
                                                         ELSE Len(o) + 1
              /\ \A k \in 2 .. Len(kept) : kept[k] = o[k - 1]
<1> DEFINE o == Others(s, v.id)
           all == <<v>> \o o
<1>1. o \in Seq(E) /\ \E f : Places(f, o, s, Len(s), v.id)
  BY OthersPlaced
<1> HIDE DEF o
<1>2. /\ all \in Seq(E)
      /\ Len(all) = Len(o) + 1
      /\ Len(o) \in Nat
      /\ all[1] = v
      /\ \A k \in 2 .. Len(all) : all[k] = o[k - 1]
  <2>1. <<v>> \in Seq(E) /\ Len(<<v>>) = 1 /\ <<v>>[1] = v
    OBVIOUS
  <2> QED BY <1>1, <2>1, ConcatProperties
<1> HIDE DEF all
<1>3. MaxVersions \in Nat \ {0}
  BY DEF IndexAssumption
<1>4. InsertVersion(s, v) = IF Len(all) > MaxVersions
                            THEN SubSeq(all, 1, MaxVersions) ELSE all
  BY DEF InsertVersion, Trim, all, o
<1>5. CASE Len(all) > MaxVersions
  <2> DEFINE kept == SubSeq(all, 1, MaxVersions)
  <2>1. /\ kept \in Seq(E)
        /\ Len(kept) = MaxVersions
        /\ \A i \in 1 .. MaxVersions : kept[i] = all[i]
    <3>1. \A i \in 1 .. MaxVersions : all[i] \in E
      BY <1>2, <1>3, <1>5, ElementOfSeq
    <3> QED BY <1>3, <3>1, SubSeqProperties
  <2>2. InsertVersion(s, v) = kept
    BY <1>4, <1>5
  <2> HIDE DEF kept
  <2> QED BY <1>1, <1>2, <1>3, <1>5, <2>1, <2>2
<1>6. CASE ~(Len(all) > MaxVersions)
  <2>1. InsertVersion(s, v) = all
    BY <1>4, <1>6
  <2> QED BY <1>1, <1>2, <1>3, <1>6, <2>1
<1> QED BY <1>5, <1>6

-----------------------------------------------------------------------------
(* The reference definition: the most recent publications. *)

\* A bounded set of naturals can be listed, largest first.
LEMMA DescendingExists ==
  ASSUME NEW S \in SUBSET Nat, IsFiniteSet(S)
  PROVE  /\ Descending(S) \in [1 .. Cardinality(S) -> S]
         /\ \A j, k \in 1 .. Cardinality(S) :
              j < k => Descending(S)[j] > Descending(S)[k]
         /\ \A i \in S : \E k \in 1 .. Cardinality(S) : Descending(S)[k] = i
<1> DEFINE Falls(f, n) == \A j, k \in 1 .. n : j < k => f[j] > f[k]
           Listable(T, n) == /\ \E f \in [1 .. n -> T] : Falls(f, n)
           Sizes == {n \in Nat : \A T \in SUBSET Nat :
                       IsFiniteSet(T) /\ Cardinality(T) = n => Listable(T, n)}
<1>1. 0 \in Sizes
  <2> SUFFICES ASSUME NEW T \in SUBSET Nat
               PROVE  Listable(T, 0)
    OBVIOUS
  <2>1. << >> \in [1 .. 0 -> T] /\ Falls(<< >>, 0)
    OBVIOUS
  <2> QED BY <2>1
<1>2. ASSUME NEW n \in Nat, n \in Sizes
      PROVE  n + 1 \in Sizes
  <2> SUFFICES ASSUME NEW T \in SUBSET Nat, IsFiniteSet(T), Cardinality(T) = n + 1
               PROVE  Listable(T, n + 1)
    OBVIOUS
  <2>1. PICK least \in T : \A m \in T : least <= m
    <3>1. T # {}
      BY FS_EmptySet
    <3> QED BY <3>1, LeastNatural
  <2> DEFINE U == T \ {least}
  <2>2. IsFiniteSet(U) /\ Cardinality(U) = n
    <3>1. /\ IsFiniteSet(T \ {least})
          /\ Cardinality(T \ {least}) = IF least \in T THEN Cardinality(T) - 1
                                        ELSE Cardinality(T)
      BY FS_RemoveElement
    <3> QED BY <2>1, <3>1
  <2>3. PICK f \in [1 .. n -> U] : Falls(f, n)
    BY <1>2, <2>2
  <2> DEFINE g == [k \in 1 .. (n + 1) |-> IF k = n + 1 THEN least ELSE f[k]]
  <2>4. g \in [1 .. (n + 1) -> T]
    OBVIOUS
  <2>5. Falls(g, n + 1)
    <3> SUFFICES ASSUME NEW j \in 1 .. (n + 1), NEW k \in 1 .. (n + 1), j < k
                 PROVE  g[j] > g[k]
      OBVIOUS
    <3>1. j \in 1 .. n /\ g[j] = f[j] /\ f[j] \in U /\ f[j] \in Nat
      <4>1. j \in 1 .. n /\ j # n + 1
        OBVIOUS
      <4>2. f[j] \in U
        BY <2>3, <4>1
      <4> QED BY <4>1, <4>2
    <3>2. CASE k = n + 1
      <4>1. g[k] = least /\ least \in Nat
        BY <2>1, <3>2
      <4>2. least <= f[j] /\ f[j] # least
        BY <2>1, <3>1
      <4> HIDE DEF g
      <4> QED BY <3>1, <4>1, <4>2
    <3>3. CASE k \in 1 .. n
      <4>1. g[k] = f[k]
        BY <3>3
      <4> HIDE DEF g
      <4> QED BY <2>3, <3>1, <3>3, <4>1
    <3> QED BY <3>2, <3>3
  <2> QED BY <2>4, <2>5
<1>3. Cardinality(S) \in Nat /\ Listable(S, Cardinality(S))
  <2>1. Cardinality(S) \in Nat
    BY FS_CardinalityType
  <2>2. \A n \in Nat : n \in Sizes => n + 1 \in Sizes
    BY <1>2
  <2>3. Cardinality(S) \in Sizes
    <3> HIDE DEF Sizes
    <3> QED BY <1>1, <2>1, <2>2, NatSetInduction
  <2> HIDE DEF Listable
  <2> QED BY <2>1, <2>3
<1> DEFINE n == Cardinality(S)
           d == Descending(S)
<1>4. d \in [1 .. n -> S] /\ Falls(d, n)
  BY <1>3 DEF Descending
<1>5. d \in Surjection(1 .. n, S)
  <2>1. d \in Injection(1 .. n, S)
    <3> SUFFICES ASSUME NEW a \in 1 .. n, NEW b \in 1 .. n, d[a] = d[b]
                 PROVE  a = b
      BY <1>4 DEF Injection, IsInjective
    <3> HIDE DEF d
    <3>1. d[a] \in Nat
      BY <1>4
    <3>2. ~(a < b) /\ ~(b < a)
      BY <1>4, <3>1
    <3> QED BY <1>3, <3>2
  <2>2. IsFiniteSet(1 .. n) /\ Cardinality(1 .. n) = n
    BY <1>3, FS_Interval
  <2> HIDE DEF d
  <2> QED BY <2>1, <2>2, FS_Injection
<1> QED BY <1>4, <1>5 DEF Surjection

\* r lists the publications of h at f[1] > f[2] > ...: last publications of
\* their versions, and the most recent of those.
Lists(r, f, h) ==
  /\ f \in [1 .. Len(r) -> LastPublications(h)]
  /\ \A k \in 1 .. Len(r) : r[k] = h[f[k]]
  /\ \A j, k \in 1 .. Len(r) : j < k => f[j] > f[k]
  /\ Len(r) <= MaxVersions
  /\ \A i \in LastPublications(h) :
       \/ \E k \in 1 .. Len(r) : f[k] = i
       \/ Len(r) = MaxVersions /\ \A k \in 1 .. Len(r) : i < f[k]

\* Recent lists the most recent publications.
LEMMA RecentLists ==
  ASSUME IndexAssumption, NEW E, NEW h \in Seq(E)
  PROVE  Recent(h) \in Seq(E) /\ \E f : Lists(Recent(h), f, h)
<1> DEFINE last == LastPublications(h)
           size == Cardinality(last)
           n == IF size < MaxVersions THEN size ELSE MaxVersions
           d == Descending(last)
           f == [k \in 1 .. n |-> d[k]]
<1>1. /\ last \in SUBSET (1 .. Len(h)) /\ Len(h) \in Nat
      /\ IsFiniteSet(last) /\ last \in SUBSET Nat
  <2>1. Len(h) \in Nat /\ DOMAIN h = 1 .. Len(h)
    BY LenProperties
  <2>2. last \in SUBSET (1 .. Len(h))
    BY <2>1 DEF LastPublications
  <2>3. IsFiniteSet(1 .. Len(h))
    BY <2>1, FS_Interval
  <2> HIDE DEF last
  <2>4. IsFiniteSet(last)
    BY <2>2, <2>3, FS_Subset
  <2> QED BY <2>1, <2>2, <2>4
<1> HIDE DEF last
<1>2. /\ size \in Nat
      /\ d \in [1 .. size -> last]
      /\ \A j, k \in 1 .. size : j < k => d[j] > d[k]
      /\ \A i \in last : \E k \in 1 .. size : d[k] = i
  BY <1>1, FS_CardinalityType, DescendingExists
<1>3. Recent(h) = [k \in 1 .. n |-> h[d[k]]]
  BY DEF Recent, last
<1> HIDE DEF size, d
<1>4. n \in Nat /\ n <= size /\ n <= MaxVersions
  BY <1>2 DEF IndexAssumption
<1>5. n = size \/ n = MaxVersions
  OBVIOUS
<1> HIDE DEF n
<1>6. Recent(h) \in Seq(E) /\ Len(Recent(h)) = n
  <2>1. \A k \in 1 .. n : d[k] \in 1 .. Len(h) /\ h[d[k]] \in E
    <3> SUFFICES ASSUME NEW k \in 1 .. n
                 PROVE  d[k] \in 1 .. Len(h) /\ h[d[k]] \in E
      OBVIOUS
    <3>1. d[k] \in last
      BY <1>2, <1>4
    <3> QED BY <1>1, <3>1, ElementOfSeq
  <2>2. Recent(h) \in [1 .. n -> E]
    BY <1>3, <2>1
  <2> QED BY <1>4, <2>2
<1>7. Lists(Recent(h), f, h)
  <2>1. f \in [1 .. n -> last] /\ \A k \in 1 .. n : f[k] = d[k]
    BY <1>2, <1>4
  <2>2. \A k \in 1 .. n : Recent(h)[k] = h[f[k]]
    BY <1>3, <2>1
  <2>3. \A j, k \in 1 .. n : j < k => f[j] > f[k]
    BY <1>2, <1>4, <2>1
  <2>4. ASSUME NEW i \in last
        PROVE  \/ \E k \in 1 .. n : f[k] = i
               \/ n = MaxVersions /\ \A k \in 1 .. n : i < f[k]
    <3>1. PICK k \in 1 .. size : d[k] = i
      BY <1>2
    <3>2. CASE k <= n
      BY <1>4, <2>1, <3>1, <3>2
    <3>3. CASE n < k
      BY <1>2, <1>4, <1>5, <2>1, <3>1, <3>3
    <3> QED BY <1>4, <3>2, <3>3
  <2> HIDE DEF f
  <2> QED BY <1>4, <1>6, <2>1, <2>2, <2>3, <2>4 DEF Lists, last
<1> QED BY <1>6, <1>7

\* Two lists of the most recent publications that agree so far: neither is
\* ahead in the next place.
LEMMA NoneAhead ==
  ASSUME NEW h, LastPublications(h) \subseteq Nat,
         NEW r, NEW q, Len(r) \in Nat, Len(q) \in Nat,
         NEW f, NEW g, Lists(r, f, h), Lists(q, g, h),
         NEW k \in 1 .. Len(r), k <= Len(q),
         \A j \in 1 .. (k - 1) : f[j] = g[j]
  PROVE  f[k] <= g[k]
<1> SUFFICES ASSUME f[k] > g[k]
             PROVE  FALSE
  BY DEF Lists
<1>1. f[k] \in LastPublications(h)
  BY DEF Lists
<1>2. PICK j \in 1 .. Len(q) : g[j] = f[k]
  BY <1>1 DEF Lists
<1>3. j < k
  BY <1>2 DEF Lists
<1>4. f[j] = f[k] /\ f[j] > f[k]
  BY <1>2, <1>3 DEF Lists
<1> QED BY <1>1, <1>4

\* There is only one list of the most recent publications.
LEMMA ListUnique ==
  ASSUME NEW h, LastPublications(h) \subseteq Nat, MaxVersions \in Nat,
         NEW E, NEW r \in Seq(E), NEW q \in Seq(E),
         NEW f, NEW g, Lists(r, f, h), Lists(q, g, h)
  PROVE  r = q
<1>1. \A k \in 1 .. Len(r) : k <= Len(q) => f[k] = g[k]
  <2> DEFINE Differ == {k \in 1 .. Len(r) : k <= Len(q) /\ f[k] # g[k]}
  <2> SUFFICES ASSUME Differ # {}
               PROVE  FALSE
    OBVIOUS
  <2>1. PICK k \in Differ : \A j \in Differ : k <= j
    <3>1. Differ \in SUBSET Nat
      OBVIOUS
    <3> HIDE DEF Differ
    <3> QED BY <3>1, LeastNatural
  <2>2. /\ k \in 1 .. Len(r) /\ k \in 1 .. Len(q)
        /\ \A j \in 1 .. (k - 1) : f[j] = g[j]
    BY <2>1
  <2>3. f[k] <= g[k]
    BY <2>2, NoneAhead
  <2>4. g[k] <= f[k]
    BY <2>2, NoneAhead
  <2>5. f[k] \in Nat /\ g[k] \in Nat
    BY <2>2 DEF Lists
  <2> QED BY <2>1, <2>3, <2>4, <2>5
<1>2. ~(Len(r) < Len(q))
  <2> SUFFICES ASSUME Len(r) < Len(q)
               PROVE  FALSE
    OBVIOUS
  <2> DEFINE k == Len(r) + 1
  <2>1. k \in 1 .. Len(q) /\ g[k] \in LastPublications(h)
    BY DEF Lists
  <2>2. ~\E j \in 1 .. Len(r) : f[j] = g[k]
    BY <1>1, <2>1 DEF Lists
  <2>3. Len(r) = MaxVersions
    BY <2>1, <2>2 DEF Lists
  <2> QED BY <2>3 DEF Lists
<1>3. ~(Len(q) < Len(r))
  <2> SUFFICES ASSUME Len(q) < Len(r)
               PROVE  FALSE
    OBVIOUS
  <2> DEFINE k == Len(q) + 1
  <2>1. k \in 1 .. Len(r) /\ f[k] \in LastPublications(h)
    BY DEF Lists
  <2>2. ~\E j \in 1 .. Len(q) : g[j] = f[k]
    BY <1>1, <2>1 DEF Lists
  <2>3. Len(q) = MaxVersions
    BY <2>1, <2>2 DEF Lists
  <2> QED BY <2>3 DEF Lists
<1>4. Len(r) = Len(q)
  BY <1>2, <1>3
<1>5. \A k \in 1 .. Len(r) : r[k] = q[k]
  BY <1>1, <1>4 DEF Lists
<1> QED BY <1>4, <1>5, SeqEqual

\* After one more publication the list of the most recent ones is what
\* InsertVersion makes of the one before: the new entry moves to the front,
\* an older one of its version goes, and the rest keep their places.
LEMMA InsertKeepsRecent ==
  ASSUME IndexAssumption, NEW E, NEW h \in Seq(E), NEW v \in E,
         NEW r \in Seq(E), NEW f, Lists(r, f, h)
  PROVE  \E g : Lists(InsertVersion(r, v), g, Append(h, v))
<1> DEFINE kept == InsertVersion(r, v)
           n == Len(h) + 1
           longer == Append(h, v)
<1>1. PICK o, p :
        /\ o \in Seq(E)
        /\ Places(p, o, r, Len(r), v.id)
        /\ Len(kept) = IF Len(o) + 1 > MaxVersions THEN MaxVersions ELSE Len(o) + 1
        /\ \A k \in 2 .. Len(kept) : kept[k] = o[k - 1]
  BY InsertPlaced
<1>2. /\ kept \in Seq(E)
      /\ Len(kept) \in 1 .. MaxVersions
      /\ kept[1] = v
  BY InsertPlaced
<1> HIDE DEF kept
<1>3. /\ Len(h) \in Nat /\ Len(r) \in Nat /\ Len(o) \in Nat /\ MaxVersions \in Nat \ {0}
      /\ DOMAIN h = 1 .. Len(h)
      /\ longer \in Seq(E) /\ Len(longer) = n /\ DOMAIN longer = 1 .. n
      /\ longer[n] = v
      /\ \A i \in 1 .. Len(h) : longer[i] = h[i]
  BY AppendProperties, LenProperties DEF IndexAssumption
<1> HIDE DEF longer
<1>4. \A i \in LastPublications(longer) :
        i = n \/ (i \in LastPublications(h) /\ h[i].id # v.id)
  BY <1>3 DEF LastPublications
<1>5. n \in LastPublications(longer)
  BY <1>3 DEF LastPublications
<1>6. ASSUME NEW i \in LastPublications(h), h[i].id # v.id
      PROVE  i \in LastPublications(longer)
  <2>1. i \in 1 .. n /\ longer[i] = h[i]
    BY <1>3 DEF LastPublications
  <2>2. ASSUME NEW j \in (i + 1) .. Len(longer)
        PROVE  longer[j].id # longer[i].id
    <3>1. CASE j = n
      BY <1>3, <1>6, <2>1, <3>1
    <3>2. CASE j # n
      <4>1. j \in (i + 1) .. Len(h) /\ longer[j] = h[j]
        BY <1>3, <2>1, <3>2
      <4> QED BY <2>1, <4>1 DEF LastPublications
    <3> QED BY <3>1, <3>2
  <2> QED BY <1>3, <2>1, <2>2 DEF LastPublications
<1> DEFINE g == [k \in 1 .. Len(kept) |-> IF k = 1 THEN n ELSE f[p[k - 1]]]
<1>7. ASSUME NEW k \in 2 .. Len(kept)
      PROVE  /\ k - 1 \in 1 .. Len(o) /\ p[k - 1] \in 1 .. Len(r)
             /\ g[k] = f[p[k - 1]]
             /\ g[k] \in LastPublications(h)
             /\ g[k] \in 1 .. Len(h)
             /\ kept[k] = h[g[k]]
             /\ h[g[k]].id # v.id
  <2>1. k - 1 \in 1 .. Len(o)
    BY <1>1, <1>2, <1>3
  <2>2. /\ p[k - 1] \in 1 .. Len(r)
        /\ o[k - 1] = r[p[k - 1]]
        /\ r[p[k - 1]].id # v.id
    BY <1>1, <2>1 DEF Places
  <2>3. /\ f[p[k - 1]] \in LastPublications(h)
        /\ r[p[k - 1]] = h[f[p[k - 1]]]
    BY <2>2 DEF Lists
  <2>4. g[k] = f[p[k - 1]]
    BY <1>2
  <2>5. g[k] \in 1 .. Len(h)
    BY <1>3, <2>3, <2>4 DEF LastPublications
  <2> HIDE DEF g
  <2> QED BY <1>1, <2>1, <2>2, <2>3, <2>4, <2>5
<1>8. g[1] = n
  BY <1>2
<1>9. \A k \in 1 .. Len(kept) : g[k] \in LastPublications(longer)
  <2> HIDE DEF g
  <2>1. \A k \in 1 .. Len(kept) : k = 1 \/ k \in 2 .. Len(kept)
    BY <1>2
  <2> QED BY <1>5, <1>6, <1>7, <1>8, <2>1
<1>10. g \in [1 .. Len(kept) -> LastPublications(longer)]
  BY <1>9
<1> HIDE DEF g, n
<1>11. \A k \in 1 .. Len(kept) : kept[k] = longer[g[k]]
  <2> SUFFICES ASSUME NEW k \in 1 .. Len(kept)
               PROVE  kept[k] = longer[g[k]]
    OBVIOUS
  <2>1. CASE k = 1
    BY <1>2, <1>3, <1>8, <2>1
  <2>2. CASE k \in 2 .. Len(kept)
    BY <1>3, <1>7, <2>2
  <2> QED BY <1>2, <2>1, <2>2
<1>12. \A j, k \in 1 .. Len(kept) : j < k => g[j] > g[k]
  <2> SUFFICES ASSUME NEW j \in 1 .. Len(kept), NEW k \in 1 .. Len(kept), j < k
               PROVE  g[j] > g[k]
    OBVIOUS
  <2>1. k \in 2 .. Len(kept)
    BY <1>2
  <2>2. CASE j = 1
    BY <1>3, <1>7, <1>8, <2>1, <2>2 DEF n
  <2>3. CASE j \in 2 .. Len(kept)
    <3>1. p[j - 1] < p[k - 1]
      <4>1. j - 1 \in 1 .. Len(o) /\ k - 1 \in 1 .. Len(o) /\ j - 1 < k - 1
        <5>1. j - 1 \in 1 .. Len(o) /\ k - 1 \in 1 .. Len(o)
          BY <1>7, <2>1, <2>3
        <5>2. j \in Nat /\ k \in Nat
          BY <2>1, <2>3
        <5> QED BY <5>1, <5>2
      <4> QED BY <1>1, <4>1 DEF Places
    <3>2. f[p[j - 1]] > f[p[k - 1]]
      BY <1>7, <2>1, <2>3, <3>1 DEF Lists
    <3> QED BY <1>7, <2>1, <2>3, <3>2
  <2> QED BY <1>2, <2>2, <2>3
<1>13. ASSUME NEW i \in LastPublications(longer)
       PROVE  \/ \E k \in 1 .. Len(kept) : g[k] = i
              \/ Len(kept) = MaxVersions /\ \A k \in 1 .. Len(kept) : i < g[k]
  <2>1. CASE i = n
    <3>1. 1 \in 1 .. Len(kept)
      BY <1>2
    <3> QED BY <1>8, <2>1, <3>1
  <2>2. CASE i \in LastPublications(h) /\ h[i].id # v.id /\ \E m \in 1 .. Len(r) : f[m] = i
    <3>1. PICK m \in 1 .. Len(r) : f[m] = i
      BY <2>2
    <3>2. r[m].id # v.id
      BY <2>2, <3>1 DEF Lists
    <3>3. PICK k \in 1 .. Len(o) : p[k] = m
      BY <1>1, <3>2 DEF Places
    <3>4. CASE k + 1 <= Len(kept)
      <4>1. k + 1 \in 2 .. Len(kept) /\ (k + 1) - 1 = k /\ k + 1 \in 1 .. Len(kept)
        BY <1>3, <3>4
      <4>2. g[k + 1] = i
        BY <1>7, <3>1, <3>3, <4>1
      <4> QED BY <4>1, <4>2
    <3>5. CASE ~(k + 1 <= Len(kept))
      <4>1. Len(kept) = MaxVersions /\ Len(kept) \in Nat
        BY <1>1, <1>2, <1>3, <3>5
      <4>2. ASSUME NEW j \in 1 .. Len(kept)
            PROVE  i < g[j]
        <5>1. CASE j = 1
          BY <1>3, <1>8, <2>2, <5>1 DEF n, LastPublications
        <5>2. CASE j \in 2 .. Len(kept)
          <6>1. j - 1 < k
            BY <1>3, <3>5, <4>1, <5>2
          <6>2. p[j - 1] < p[k]
            BY <1>1, <1>7, <5>2, <6>1 DEF Places
          <6>3. f[p[j - 1]] > f[m]
            BY <1>7, <3>3, <5>2, <6>2 DEF Lists
          <6>4. g[j] = f[p[j - 1]] /\ g[j] \in Nat /\ i \in Nat
            BY <1>3, <1>7, <2>2, <5>2 DEF LastPublications
          <6> QED BY <3>1, <6>3, <6>4
        <5> QED BY <4>1, <5>1, <5>2
      <4> QED BY <4>1, <4>2
    <3> QED BY <3>4, <3>5
  <2>3. CASE i \in LastPublications(h) /\ h[i].id # v.id /\ ~\E m \in 1 .. Len(r) : f[m] = i
    <3>1. Len(r) = MaxVersions /\ \A m \in 1 .. Len(r) : i < f[m]
      BY <2>3 DEF Lists
    <3>2. \A a, b \in 1 .. Len(r) : r[a].id = v.id /\ r[b].id = v.id => a = b
      <4> SUFFICES ASSUME NEW a \in 1 .. Len(r), NEW b \in 1 .. Len(r), a < b,
                          r[a].id = r[b].id
                   PROVE  FALSE
        BY <1>3
      <4>1. /\ f[b] < f[a]
            /\ f[a] \in LastPublications(h) /\ f[b] \in LastPublications(h)
            /\ h[f[a]].id = h[f[b]].id
        BY DEF Lists
      <4>2. /\ f[a] \in 1 .. Len(h) /\ f[b] \in 1 .. Len(h)
            /\ \A later \in (f[b] + 1) .. Len(h) : h[later].id # h[f[b]].id
        BY <1>3, <4>1 DEF LastPublications
      <4>3. f[a] \in (f[b] + 1) .. Len(h)
        BY <1>3, <4>1, <4>2
      <4> QED BY <4>1, <4>2, <4>3
    <3>3. Len(o) >= Len(r) - 1
      BY <1>1, <3>2 DEF Places
    <3>4. Len(kept) = MaxVersions
      BY <1>1, <1>3, <3>1, <3>3
    <3>5. ASSUME NEW k \in 1 .. Len(kept)
          PROVE  i < g[k]
      <4>1. CASE k = 1
        BY <1>3, <1>8, <2>3, <4>1 DEF n, LastPublications
      <4>2. CASE k \in 2 .. Len(kept)
        BY <1>7, <3>1, <4>2
      <4> QED BY <1>2, <4>1, <4>2
    <3> QED BY <3>4, <3>5
  <2> QED BY <1>4, <2>1, <2>2, <2>3
<1>14. Len(kept) <= MaxVersions
  BY <1>2
<1> QED BY <1>10, <1>11, <1>12, <1>13, <1>14 DEF Lists, longer, kept

\* Recent is the one list of the most recent publications.
LEMMA RecentInsert ==
  ASSUME IndexAssumption, NEW E, NEW h \in Seq(E), NEW v \in E
  PROVE  Recent(Append(h, v)) = InsertVersion(Recent(h), v)
<1>1. PICK f : Lists(Recent(h), f, h)
  BY RecentLists
<1>2. Recent(h) \in Seq(E) /\ Append(h, v) \in Seq(E)
  BY RecentLists, AppendProperties
<1>3. PICK g : Lists(InsertVersion(Recent(h), v), g, Append(h, v))
  BY <1>1, <1>2, InsertKeepsRecent
<1>4. PICK k : Lists(Recent(Append(h, v)), k, Append(h, v))
  BY <1>2, RecentLists
<1>5. /\ Recent(Append(h, v)) \in Seq(E)
      /\ InsertVersion(Recent(h), v) \in Seq(E)
  BY <1>2, RecentLists, InsertPlaced
<1>6. LastPublications(Append(h, v)) \subseteq Nat
  BY <1>2, LenProperties DEF LastPublications
<1> QED BY <1>3, <1>4, <1>5, <1>6, ListUnique DEF IndexAssumption

\* Nothing has been published: nothing is recent.
LEMMA RecentEmpty ==
  ASSUME IndexAssumption
  PROVE  Recent(<< >>) = << >>
<1>1. LastPublications(<< >>) = {}
  BY DEF LastPublications
<1>2. << >> \in Seq({})
  OBVIOUS
<1>3. PICK f : Recent(<< >>) \in Seq({}) /\ Lists(Recent(<< >>), f, << >>)
  BY <1>2, RecentLists
<1>4. 1 \notin 1 .. Len(Recent(<< >>))
  BY <1>1, <1>3 DEF Lists
<1> QED BY <1>3, <1>4, EmptySeq

-----------------------------------------------------------------------------
(* The runs. *)

\* What InsertVersion writes is sound if what it was given is, and the new
\* entry's database is stored.
LEMMA InsertSound ==
  ASSUME PublishAssumption, NEW x \in Stored, Sound(x),
         NEW e \in Entries, e.id \in objects
  PROVE  LET kept == InsertVersion(x, e) IN
         /\ kept \in Stored
         /\ Len(kept) \in 1 .. MaxVersions
         /\ \A i, j \in DOMAIN kept : kept[i].id = kept[j].id => i = j
         /\ ToSet(kept) \subseteq ToSet(log) \cup {e}
         /\ Ids(kept) \subseteq objects
<1> DEFINE kept == InsertVersion(x, e)
<1>0. IndexAssumption
  BY DEF PublishAssumption
<1>1. PICK o, f :
        /\ o \in Stored
        /\ Places(f, o, x, Len(x), e.id)
        /\ Len(kept) = IF Len(o) + 1 > MaxVersions THEN MaxVersions ELSE Len(o) + 1
        /\ \A k \in 2 .. Len(kept) : kept[k] = o[k - 1]
  BY <1>0, InsertPlaced DEF Stored
<1>2. kept \in Stored /\ Len(kept) \in 1 .. MaxVersions /\ kept[1] = e
  BY <1>0, InsertPlaced DEF Stored
<1> HIDE DEF kept
<1>3. /\ DOMAIN kept = 1 .. Len(kept) /\ Len(kept) \in Nat
      /\ DOMAIN x = 1 .. Len(x) /\ Len(x) \in Nat /\ Len(o) \in Nat
      /\ MaxVersions \in Nat
  BY <1>0, <1>1, <1>2, LenProperties DEF Stored, IndexAssumption
<1>4. ASSUME NEW k \in 2 .. Len(kept)
      PROVE  /\ k - 1 \in 1 .. Len(o) /\ f[k - 1] \in 1 .. Len(x)
             /\ kept[k] = x[f[k - 1]] /\ kept[k].id # e.id
  <2>1. k - 1 \in 1 .. Len(o)
    BY <1>1, <1>3
  <2>2. kept[k] = o[k - 1]
    BY <1>1
  <2>3. /\ f[k - 1] \in 1 .. Len(x)
        /\ o[k - 1] = x[f[k - 1]] /\ x[f[k - 1]].id # e.id
    BY <1>1, <2>1 DEF Places
  <2> QED BY <2>1, <2>2, <2>3
<1>5. ASSUME NEW i \in DOMAIN kept, NEW j \in DOMAIN kept, i < j
      PROVE  kept[i].id # kept[j].id
  <2>1. j \in 2 .. Len(kept)
    BY <1>3, <1>5
  <2>2. CASE i = 1
    BY <1>2, <1>4, <2>1, <2>2
  <2>3. CASE i \in 2 .. Len(kept)
    <3>1. i - 1 \in 1 .. Len(o) /\ j - 1 \in 1 .. Len(o) /\ i - 1 < j - 1
      <4>1. i - 1 \in 1 .. Len(o) /\ j - 1 \in 1 .. Len(o)
        BY <1>4, <2>1, <2>3
      <4> QED BY <1>5, <2>1, <2>3, <4>1
    <3>2. f[i - 1] < f[j - 1]
      BY <1>1, <3>1 DEF Places
    <3>3. /\ f[i - 1] \in 1 .. Len(x) /\ f[j - 1] \in 1 .. Len(x)
          /\ kept[i] = x[f[i - 1]] /\ kept[j] = x[f[j - 1]]
      BY <1>4, <2>1, <2>3
    <3> QED BY <1>3, <3>2, <3>3 DEF Sound
  <2> QED BY <1>3, <2>2, <2>3
<1>6. \A i, j \in DOMAIN kept : kept[i].id = kept[j].id => i = j
  BY <1>3, <1>5
<1>7. \A k \in DOMAIN kept : kept[k] = e \/ kept[k] \in ToSet(x)
  <2> SUFFICES ASSUME NEW k \in DOMAIN kept
               PROVE  kept[k] = e \/ kept[k] \in ToSet(x)
    OBVIOUS
  <2>1. k = 1 \/ k \in 2 .. Len(kept)
    BY <1>3
  <2> QED BY <1>2, <1>3, <1>4, <2>1 DEF ToSet
<1>8. ToSet(kept) \subseteq ToSet(log) \cup {e}
  BY <1>7 DEF ToSet, Sound
<1>9. Ids(kept) \subseteq objects
  <2>1. \A y \in ToSet(x) : y.id \in objects
    BY DEF ToSet, Sound, Ids
  <2> QED BY <1>7, <2>1 DEF Ids
<1> QED BY <1>2, <1>6, <1>8, <1>9 DEF kept

\* What a step of run p changes: objects and the log grow, other runs stay.
LEMMA PublishFrame ==
  ASSUME PublishAssumption, PublishInv, NEW p \in Publishers, PublishStep(p)
  PROVE  /\ PublishTypeOK'
         /\ objects \subseteq objects'
         /\ log' = log \/ (pc[p] = "save" /\ entry[p] \notin ToSet(log)
                            /\ log' = Append(log, entry[p]))
         /\ ToSet(log) \subseteq ToSet(log')
         /\ \A q \in Publishers \ {p} :
              pc'[q] = pc[q] /\ entry'[q] = entry[q] /\ idx'[q] = idx[q]
<1> USE DEF PublishInv, PublishTypeOK
<1>1. CASE \E v \in Versions : Start(p, v)
  <2>1. PICK v \in Versions : Start(p, v)
    BY <1>1
  <2>2. started' \in 1 .. MaxRuns
    BY <2>1 DEF Start, PublishAssumption
  <2>3. [id |-> v, run |-> started + 1] \in Entries
    BY <2>1, <2>2 DEF Start, Entries
  <2> QED BY <2>1, <2>2, <2>3 DEF Start, bucketVars, Steps, FirstCall
<1>2. CASE PutDatabase(p)
  <2>1. entry[p] \in Entries
    BY <1>2 DEF PutDatabase, RunInv
  <2> QED BY <1>2, <2>1 DEF PutDatabase, runVars, Steps, Entries
<1>3. CASE IndexAbsent(p)
  <2>1. EmptyIndex \in Stored
    BY DEF EmptyIndex, Stored
  <2> QED BY <1>3, <2>1 DEF IndexAbsent, bucketVars, runVars, Steps
<1>4. CASE IndexPresent(p)
  BY <1>4 DEF IndexPresent, bucketVars, runVars, Steps
<1>5. CASE GetIndex(p)
  <2>1. ReadIndex \in Stored
    BY <1>5 DEF GetIndex, ReadIndex, RunInv
  <2> QED BY <1>5, <2>1 DEF GetIndex, bucketVars, runVars, Steps
<1>6. CASE SaveIndex(p)
  <2>1. entry[p] \in Entries /\ entry[p].id \in objects /\ Sound(idx[p])
    BY <1>6 DEF SaveIndex, RunInv
  <2>2. index' \in Stored
    BY <1>6, <2>1, InsertSound DEF SaveIndex
  <2>3. DOMAIN log = 1 .. Len(log)
    BY LenProperties DEF Stored
  <2>4. Contains(log, entry[p]) <=> entry[p] \in ToSet(log)
    BY <2>3 DEF Contains, ToSet
  <2>5. /\ Append(log, entry[p]) \in Stored
        /\ ToSet(log) \subseteq ToSet(Append(log, entry[p]))
    <3>1. Append(log, entry[p]) \in Seq(Entries)
      BY <2>1 DEF Stored
    <3>2. \A i \in 1 .. Len(log) : /\ i \in DOMAIN Append(log, entry[p])
                                   /\ Append(log, entry[p])[i] = log[i]
      BY <2>1 DEF Stored
    <3> QED BY <2>3, <3>1, <3>2 DEF Stored, ToSet
  <2>6. pc[p] = "save" /\ objects' = objects
    BY <1>6 DEF SaveIndex, ObjectsAfterSave
  <2>7. /\ log' \in Stored /\ ToSet(log) \subseteq ToSet(log')
        /\ log' = log \/ (entry[p] \notin ToSet(log) /\ log' = Append(log, entry[p]))
    BY <1>6, <2>4, <2>5 DEF SaveIndex
  <2> QED BY <1>6, <2>2, <2>6, <2>7 DEF SaveIndex, runVars, Steps
<1>7. CASE Abort(p)
  BY <1>7 DEF Abort, bucketVars, runVars, Steps
<1> QED BY <1>1, <1>2, <1>3, <1>4, <1>5, <1>6, <1>7 DEF PublishStep

\* The index stays sound.
LEMMA IndexStep ==
  ASSUME PublishAssumption, PublishInv, NEW p \in Publishers, PublishStep(p)
  PROVE  IndexInv'
<1> USE DEF PublishInv, PublishTypeOK
<1>1. CASE index' = index /\ log' = log
  <2>1. objects \subseteq objects'
    BY PublishFrame
  <2> QED BY <1>1, <2>1 DEF IndexInv, Sound
<1>2. CASE SaveIndex(p)
  <2> DEFINE kept == InsertVersion(idx[p], entry[p])
  <2>1. entry[p] \in Entries /\ entry[p].id \in objects /\ Sound(idx[p])
    BY <1>2 DEF SaveIndex, RunInv
  <2>2. /\ kept \in Stored
        /\ Len(kept) \in 1 .. MaxVersions
        /\ \A i, j \in DOMAIN kept : kept[i].id = kept[j].id => i = j
        /\ ToSet(kept) \subseteq ToSet(log) \cup {entry[p]}
        /\ Ids(kept) \subseteq objects
    BY <2>1, InsertSound
  <2> HIDE DEF kept
  <2>3. index' = kept /\ objects' = objects
    BY <1>2 DEF SaveIndex, ObjectsAfterSave, kept
  <2>4. ToSet(log) \cup {entry[p]} \subseteq ToSet(log')
    <3>1. DOMAIN log = 1 .. Len(log)
      BY LenProperties DEF Stored
    <3>2. CASE Contains(log, entry[p])
      BY <1>2, <3>1, <3>2 DEF SaveIndex, Contains, ToSet
    <3>3. CASE ~Contains(log, entry[p])
      <4>1. log' = Append(log, entry[p])
        BY <1>2, <3>3 DEF SaveIndex
      <4>2. entry[p] \in ToSet(log')
        <5>1. log'[Len(log) + 1] = entry[p] /\ Len(log) + 1 \in DOMAIN log'
          BY <2>1, <4>1, AppendProperties, LenProperties DEF Stored
        <5> QED BY <5>1 DEF ToSet
      <4> QED BY <4>2, PublishFrame
    <3> QED BY <3>2, <3>3
  <2>5. /\ Len(index') <= MaxVersions
        /\ ToSet(index') \subseteq ToSet(log')
        /\ Ids(index') \subseteq objects'
    BY <2>2, <2>3, <2>4 DEF PublishAssumption, IndexAssumption
  <2>6. index' # << >> /\ index' # None
    BY <2>2, <2>3 DEF PublishAssumption
  <2> QED BY <2>2, <2>3, <2>5, <2>6 DEF IndexInv, Sound
<1>3. SaveIndex(p) \/ (index' = index /\ log' = log)
  BY DEF PublishStep, Start, PutDatabase, IndexAbsent, IndexPresent, GetIndex, Abort,
         bucketVars
<1> QED BY <1>1, <1>2, <1>3

\* There is an index from the first one on.
LEMMA IndexStays ==
  ASSUME PublishAssumption, PublishInv, NEW p \in Publishers, PublishStep(p)
  PROVE  index # None => index' # None
<1>1. CASE SaveIndex(p)
  <2>1. entry[p] \in Entries /\ idx[p] \in Stored
    BY <1>1 DEF SaveIndex, PublishInv, PublishTypeOK, RunInv
  <2>2. InsertVersion(idx[p], entry[p]) \in Stored
    BY <2>1, InsertPlaced DEF Stored, PublishAssumption
  <2> QED BY <1>1, <2>2 DEF SaveIndex, PublishAssumption
<1>2. CASE ~SaveIndex(p)
  BY <1>2 DEF PublishStep, Start, PutDatabase, IndexAbsent, IndexPresent, GetIndex, Abort,
         bucketVars
<1> QED BY <1>1, <1>2

\* What runs rely on stays true: nothing is ever removed from the bucket.
LEMMA RunStep ==
  ASSUME PublishAssumption, PublishInv, NEW p \in Publishers, PublishStep(p)
  PROVE  RunInv'
<1> USE DEF PublishInv, PublishTypeOK, RunInv
<1>1. /\ objects \subseteq objects' /\ ToSet(log) \subseteq ToSet(log')
      /\ \A q \in Publishers \ {p} :
           pc'[q] = pc[q] /\ entry'[q] = entry[q] /\ idx'[q] = idx[q]
  BY PublishFrame
<1>2. index # None => index' # None
  BY IndexStays
<1>3. started <= started'
  BY DEF PublishStep, Start, PutDatabase, IndexAbsent, IndexPresent, GetIndex, SaveIndex,
         Abort, runVars
<1>4. ASSUME NEW q \in Publishers \ {p}
      PROVE  /\ Sound(idx[q])'
             /\ pc'[q] # "idle" => entry'[q] # None /\ entry'[q].run <= started'
             /\ pc'[q] \in {"exists", "get", "save"} => entry'[q].id \in objects'
             /\ pc'[q] = "get" => index' # None
  <2>1. idx'[q] = idx[q] /\ Sound(idx[q])
    BY <1>1
  <2>2. Sound(idx[q])'
    BY <1>1, <2>1 DEF Sound
  <2>3. pc'[q] = pc[q] /\ entry'[q] = entry[q]
    BY <1>1
  <2>4. pc[q] # "idle" => entry[q].run \in Nat
    BY DEF Entries
  <2>5. pc[q] # "idle" => entry[q].run <= started'
    BY <1>3, <2>4, PublishFrame
  <2> QED BY <1>1, <1>2, <2>2, <2>3, <2>5
<1>5. Sound(idx[p])'
  <2>1. CASE idx' = idx
    BY <1>1, <2>1 DEF Sound
  <2>2. CASE IndexAbsent(p)
    <3>1. idx'[p] = << >>
      BY <2>2 DEF IndexAbsent, EmptyIndex
    <3> QED BY <3>1 DEF Sound, Ids, ToSet, PublishAssumption, IndexAssumption
  <2>3. CASE GetIndex(p)
    <3>1. idx'[p] = index /\ Sound(index)
      BY <2>3 DEF GetIndex, ReadIndex, IndexInv
    <3> QED BY <1>1, <3>1 DEF Sound
  <2> QED BY <2>1, <2>2, <2>3 DEF PublishStep, Start, PutDatabase, IndexPresent, SaveIndex,
         Abort
<1>6. /\ pc'[p] # "idle" => entry'[p] # None /\ entry'[p].run <= started'
      /\ pc'[p] \in {"exists", "get", "save"} => entry'[p].id \in objects'
      /\ pc'[p] = "get" => index' # None
  <2>1. CASE \E v \in Versions : Start(p, v)
    <3>1. PICK v \in Versions : Start(p, v)
      BY <2>1
    <3>2. /\ pc'[p] = "put" /\ entry'[p] = [id |-> v, run |-> started + 1]
          /\ started' = started + 1
      BY <3>1 DEF Start, FirstCall
    <3>3. entry'[p] \in Entries
      BY <3>2, PublishFrame DEF Entries
    <3> QED BY <3>2, <3>3 DEF PublishAssumption, Entries
  <2>2. CASE PutDatabase(p)
    BY <2>2 DEF PutDatabase, runVars
  <2>3. CASE IndexAbsent(p) \/ IndexPresent(p) \/ GetIndex(p)
    BY <2>3 DEF IndexAbsent, IndexPresent, GetIndex, bucketVars, runVars
  <2>4. CASE SaveIndex(p)
    BY <2>4 DEF SaveIndex, runVars, ObjectsAfterSave
  <2>5. CASE Abort(p)
    BY <2>5 DEF Abort
  <2> QED BY <2>1, <2>2, <2>3, <2>4, <2>5 DEF PublishStep
<1> QED BY <1>4, <1>5, <1>6

\* A run that nobody overlaps writes back what it read, so the index stays the
\* most recent publications, through failures and repeated requests.
LEMMA SerialStep ==
  ASSUME PublishAssumption, PublishInv, NEW p \in Publishers, PublishStep(p)
  PROVE  SerialInv'
<1> USE DEF PublishInv, PublishTypeOK
<1> DEFINE Current == IF index = None THEN EmptyIndex ELSE index
           Right(q) ==
             /\ pc[q] \in {"put", "exists", "get"} => entry[q] \notin ToSet(log)
             /\ pc[q] = "save" => IF entry[q] \in ToSet(log)
                                 THEN index = InsertVersion(idx[q], entry[q])
                                 ELSE idx[q] = Current
<1> SUFFICES ASSUME ~overlapped'
             PROVE  /\ index' = IF log' = << >> THEN None ELSE Recent(log')
                    /\ \A q \in Publishers \ {p} : pc'[q] = "idle"
                    /\ Right(p)'
  BY DEF SerialInv
<1>1. ~overlapped
  BY DEF PublishStep, Start, PutDatabase, IndexAbsent, IndexPresent, GetIndex, SaveIndex,
         Abort, runVars
<1>2. \A q \in Publishers \ {p} : pc'[q] = "idle"
  <2>1. CASE \E v \in Versions : Start(p, v)
    BY <2>1, PublishFrame DEF Start, Alone
  <2>2. CASE ~\E v \in Versions : Start(p, v)
    <3>1. pc[p] # "idle"
      BY <2>2 DEF PublishStep, PutDatabase, IndexAbsent, IndexPresent, GetIndex, SaveIndex,
                  Abort
    <3> QED BY <1>1, <3>1, PublishFrame DEF SerialInv
  <2> QED BY <2>1, <2>2
<1>3. /\ index = IF log = << >> THEN None ELSE Recent(log)
      /\ Right(p)
  BY <1>1 DEF SerialInv
<1>4. CASE \E v \in Versions : Start(p, v)
  <2>1. PICK v \in Versions : Start(p, v)
    BY <1>4
  <2>2. pc'[p] = "put" /\ entry'[p].run = started + 1 /\ log' = log /\ index' = index
    BY <2>1 DEF Start, FirstCall, bucketVars
  <2>3. \A e \in ToSet(log) : e.run <= started
    BY DEF ToSet, RunsNumbered
  <2>4. entry'[p] \notin ToSet(log)
    BY <2>2, <2>3
  <2> QED BY <1>2, <1>3, <2>2, <2>4
<1>5. CASE PutDatabase(p)
  <2>1. /\ pc[p] = "put" /\ pc'[p] \in {"exists", "put"}
        /\ entry' = entry /\ log' = log /\ index' = index
    BY <1>5 DEF PutDatabase
  <2> QED BY <1>2, <1>3, <2>1
<1>6. CASE IndexAbsent(p)
  <2>1. /\ pc[p] = "exists" /\ pc'[p] = "save" /\ index = None /\ idx'[p] = EmptyIndex
        /\ entry' = entry /\ log' = log /\ index' = index
    BY <1>6 DEF IndexAbsent, IndexMissing, bucketVars
  <2> QED BY <1>2, <1>3, <2>1
<1>7. CASE IndexPresent(p)
  <2>1. /\ pc[p] = "exists" /\ pc'[p] = "get"
        /\ entry' = entry /\ log' = log /\ index' = index
    BY <1>7 DEF IndexPresent, bucketVars
  <2> QED BY <1>2, <1>3, <2>1
<1>8. CASE GetIndex(p)
  <2>1. /\ pc[p] = "get" /\ pc'[p] = "save" /\ index # None /\ idx'[p] = index
        /\ entry' = entry /\ log' = log /\ index' = index
    BY <1>8 DEF GetIndex, ReadIndex, RunInv, bucketVars
  <2> QED BY <1>2, <1>3, <2>1
<1>9. CASE SaveIndex(p)
  <2>1. /\ pc[p] = "save" /\ pc'[p] \in {"idle", "save"}
        /\ entry' = entry /\ idx' = idx
        /\ index' = InsertVersion(idx[p], entry[p])
    BY <1>9 DEF SaveIndex
  <2>2. entry[p] \in Entries
    BY <2>1 DEF RunInv
  <2>3. CASE entry[p] \in ToSet(log)
    <3>1. log' = log
      BY <2>3, PublishFrame
    <3>2. index' = index
      BY <1>3, <2>1, <2>3
    <3> QED BY <1>2, <1>3, <2>1, <2>3, <3>1, <3>2
  <2>4. CASE entry[p] \notin ToSet(log)
    <3>1. log' = Append(log, entry[p])
      <4>1. DOMAIN log = 1 .. Len(log)
        BY LenProperties DEF Stored
      <4> QED BY <1>9, <2>4, <4>1 DEF SaveIndex, Contains, ToSet
    <3>2. idx[p] = Recent(log)
      BY <1>3, <2>1, <2>4, RecentEmpty, RecentLists DEF EmptyIndex, PublishAssumption, Stored
    <3>3. index' = Recent(log')
      BY <2>1, <2>2, <3>1, <3>2, RecentInsert DEF PublishAssumption, Stored
    <3>4. log' # << >> /\ entry[p] \in ToSet(log')
      <4>1. /\ log' # << >> /\ log'[Len(log) + 1] = entry[p]
            /\ Len(log) + 1 \in DOMAIN log'
        BY <2>2, <3>1, AppendProperties, LenProperties DEF Stored
      <4> QED BY <4>1 DEF ToSet
    <3> QED BY <1>2, <2>1, <3>3, <3>4
  <2> QED BY <2>3, <2>4
<1>10. CASE Abort(p)
  <2>1. pc'[p] = "idle" /\ log' = log /\ index' = index
    BY <1>10 DEF Abort, bucketVars
  <2> QED BY <1>2, <1>3, <2>1
<1> QED BY <1>4, <1>5, <1>6, <1>7, <1>8, <1>9, <1>10 DEF PublishStep

\* Entries are numbered by the runs that were started, so no two runs write the
\* same one.
LEMMA NumbersStep ==
  ASSUME PublishAssumption, PublishInv, NEW p \in Publishers, PublishStep(p)
  PROVE  RunsNumbered'
<1> USE DEF PublishInv, PublishTypeOK
<1>1. started <= started' /\ started \in Nat /\ started' \in Nat
  <2>1. started' \in 0 .. MaxRuns
    BY PublishFrame
  <2> QED BY <2>1 DEF PublishStep, Start, PutDatabase, IndexAbsent, IndexPresent, GetIndex,
                  SaveIndex, Abort, runVars, PublishAssumption
<1>2. \A i \in DOMAIN log : log[i].run \in Nat /\ log[i].run <= started
  <2>1. \A i \in DOMAIN log : log[i] \in Entries
    BY LenProperties, ElementOfSeq DEF Stored
  <2> QED BY <2>1 DEF Entries, RunsNumbered
<1>3. CASE log' = log
  BY <1>1, <1>2, <1>3 DEF RunsNumbered
<1>4. CASE pc[p] = "save" /\ log' = Append(log, entry[p])
  <2>1. entry[p] \in Entries /\ entry[p].run <= started
    BY <1>4 DEF RunInv
  <2>2. \A i \in DOMAIN log' : log'[i] = entry[p] \/ (i \in DOMAIN log /\ log'[i] = log[i])
    BY <1>4, <2>1, AppendProperties, LenProperties DEF Stored
  <2>3. entry[p].run \in Nat
    BY <2>1 DEF Entries
  <2> QED BY <1>1, <1>2, <2>1, <2>2, <2>3 DEF RunsNumbered
<1> QED BY <1>3, <1>4, PublishFrame

\* A step of a run keeps the invariant, alone or next to the server.
LEMMA PublishInvStep ==
  ASSUME PublishAssumption, PublishInv, PublishNext
  PROVE  PublishInv'
<1>1. PICK p \in Publishers : PublishStep(p)
  BY DEF PublishNext
<1> QED BY <1>1, PublishFrame, IndexStep, RunStep, SerialStep, NumbersStep DEF PublishInv

\* An empty bucket and no run.
LEMMA PublishInvInit ==
  ASSUME PublishAssumption, PublishInit
  PROVE  PublishInv
<1>1. << >> \in Stored /\ MaxRuns \in Nat
  BY DEF Stored, PublishAssumption
<1>2. PublishTypeOK
  <2>1. objects = {} /\ index = None /\ log = << >> /\ started = 0
    BY DEF PublishInit
  <2>2. /\ pc \in [Publishers -> Steps]
        /\ entry \in [Publishers -> Entries \cup {None}]
        /\ idx \in [Publishers -> Stored]
    BY <1>1 DEF PublishInit, Steps
  <2>3. overlapped \in BOOLEAN
    BY DEF PublishInit
  <2> QED BY <1>1, <2>1, <2>2, <2>3 DEF PublishTypeOK
<1>3. Sound(<< >>)
  BY DEF Sound, ToSet, Ids, PublishAssumption, IndexAssumption
<1>4. RunInv
  BY <1>3 DEF RunInv, PublishInit
<1> QED BY <1>2, <1>4 DEF PublishInv, IndexInv, SerialInv, RunsNumbered, PublishInit

\* A step that changes nothing keeps the invariant.
LEMMA PublishInvStutter ==
  ASSUME PublishInv, UNCHANGED publishVars
  PROVE  PublishInv'
BY DEF PublishInv, PublishTypeOK, IndexInv, RunInv, SerialInv, RunsNumbered, Sound,
       publishVars, bucketVars, runVars

\* The inductive invariant of publish-database, for any number of runs: whatever
\* is or was read as the index is sound, and a run that has nobody next to it
\* writes the next list of most recent publications.
THEOREM PublishInvariant == PublishSpec => []PublishInv
<1>1. PublishInit => PublishInv
  BY PublishAssumption, PublishInvInit
<1>2. PublishInv /\ [PublishNext]_publishVars => PublishInv'
  BY PublishAssumption, PublishInvStep, PublishInvStutter
<1> QED BY <1>1, <1>2, PTL DEF PublishSpec

\* The index never lists a database that is not in the bucket.
THEOREM IndexNeverDangles == PublishSpec => []NeverDangling
<1>1. PublishInv => NeverDangling
  BY DEF PublishInv, IndexInv, Sound, NeverDangling, Listed
<1> QED BY <1>1, PublishInvariant, PTL

\* The index lists each version once, at most MaxVersions of them, all published.
THEOREM IndexAlwaysWellFormed == PublishSpec => []IndexWellFormed
<1>1. ASSUME PublishInv, index # None
      PROVE  /\ Len(index) \in 1 .. MaxVersions
             /\ Cardinality(Ids(index)) = Len(index)
             /\ ToSet(index) \subseteq ToSet(log)
  <2>1. /\ index \in Stored /\ index # << >> /\ Sound(index)
        /\ Len(index) \in Nat /\ DOMAIN index = 1 .. Len(index)
    BY <1>1, LenProperties DEF PublishInv, PublishTypeOK, IndexInv, Stored
  <2>2. Len(index) \in 1 .. MaxVersions
    BY <2>1, PublishAssumption, EmptySeq DEF Sound, PublishAssumption, IndexAssumption, Stored
  <2> DEFINE f == [i \in 1 .. Len(index) |-> index[i].id]
  <2>3. f \in Bijection(1 .. Len(index), Ids(index))
    BY <2>1 DEF Sound, Ids, Bijection, Injection, Surjection, IsInjective
  <2>4. ExistsBijection(1 .. Len(index), Ids(index))
    BY <2>3 DEF ExistsBijection
  <2>5. IsFiniteSet(1 .. Len(index)) /\ Cardinality(1 .. Len(index)) = Len(index)
    BY <2>1, FS_Interval
  <2>6. Cardinality(Ids(index)) = Len(index)
    BY <2>4, <2>5, FS_Bijection
  <2> QED BY <2>1, <2>2, <2>6 DEF Sound
<1>2. PublishInv => IndexWellFormed
  BY <1>1 DEF IndexWellFormed
<1> QED BY <1>2, PublishInvariant, PTL

\* Until two runs overlap, the index is exactly the most recent publications.
THEOREM IndexStaysRecent == PublishSpec => []IndexIsRecent
<1>1. PublishInv => IndexIsRecent
  BY DEF PublishInv, SerialInv, IndexIsRecent
<1> QED BY <1>1, PublishInvariant, PTL

\* Every reachable state of the bucket and its publishers is well typed.
THEOREM PublishTypeCorrect == PublishSpec => []PublishTypeOK
<1>1. PublishInv => PublishTypeOK
  BY DEF PublishInv
<1> QED BY <1>1, PublishInvariant, PTL
=============================================================================
