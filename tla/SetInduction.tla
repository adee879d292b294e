---------------------------- MODULE SetInduction ----------------------------
(***************************************************************************)
(* Induction over the naturals in the form the provers can apply: the      *)
(* property is a set of numbers, not an operator; and loops of a bounded   *)
(* number of rounds.  The proofs about sequences in the other modules rest *)
(* on it.                                                                  *)
(***************************************************************************)
EXTENDS Integers, TLAPS, WellFoundedInduction

\* Every nonempty set of naturals has a least element.
LEMMA LeastNatural ==
  ASSUME NEW S \in SUBSET Nat, S # {}
  PROVE  \E n \in S : \A m \in S : n <= m
<1>1. PICK n \in S : \A m \in S : <<m, n>> \notin OpToRel(<, Nat)
  <2>1. IsWellFoundedOn(OpToRel(<, Nat), Nat)
    BY NatLessThanWellFounded
  <2> HIDE DEF OpToRel
  <2> QED BY <2>1, WFMin
<1>2. \A m \in S : ~(m < n)
  BY <1>1 DEF OpToRel
<1> QED BY <1>2

\* A set that holds 0 and the successor of each natural it holds, holds them all.
LEMMA NatSetInduction ==
  ASSUME NEW S, 0 \in S, \A n \in Nat : n \in S => n + 1 \in S
  PROVE  Nat \subseteq S
<1> SUFFICES ASSUME Nat \ S # {}
             PROVE  FALSE
  OBVIOUS
<1>1. PICK n \in Nat \ S : \A m \in Nat \ S : n <= m
  BY LeastNatural
<1>2. n # 0 /\ n - 1 \in Nat /\ n - 1 \notin Nat \ S
  BY <1>1
<1> QED BY <1>1, <1>2

\* h[n] is what a loop has after n of its N rounds: b at first, and then what
\* F[n] makes of what the round before left.
Rounds(h, S, b, N, F) ==
  /\ h \in [0 .. N -> S]
  /\ h[0] = b
  /\ \A n \in 1 .. N : h[n] = F[n][h[n - 1]]

\* There is such an h.
LEMMA RoundsExist ==
  ASSUME NEW S, NEW b \in S, NEW N \in Nat, NEW F,
         \A n \in 1 .. N : \A x \in S : F[n][x] \in S
  PROVE  \E h : Rounds(h, S, b, N, F)
<1> DEFINE Upto(n) == \E h \in [0 .. n -> S] :
                         /\ h[0] = b
                         /\ \A k \in 1 .. n : h[k] = F[k][h[k - 1]]
           Goods == {n \in Nat : n <= N => Upto(n)}
<1>1. 0 \in Goods
  <2> DEFINE h == [k \in 0 .. 0 |-> b]
  <2>1. h \in [0 .. 0 -> S] /\ h[0] = b /\ \A k \in 1 .. 0 : h[k] = F[k][h[k - 1]]
    OBVIOUS
  <2>2. Upto(0)
    <3> HIDE DEF h
    <3> QED BY <2>1
  <2> HIDE DEF Upto
  <2> QED BY <2>2
<1>2. ASSUME NEW n \in Nat, n \in Goods, n + 1 <= N
      PROVE  Upto(n + 1)
  <2>1. PICK h \in [0 .. n -> S] : h[0] = b /\ \A k \in 1 .. n : h[k] = F[k][h[k - 1]]
    BY <1>2
  <2> DEFINE last == F[n + 1][h[n]]
             g == [k \in 0 .. (n + 1) |-> IF k = n + 1 THEN last ELSE h[k]]
  <2>2. last \in S
    <3>1. n + 1 \in 1 .. N /\ h[n] \in S
      BY <1>2
    <3> QED BY <3>1
  <2>3. g \in [0 .. (n + 1) -> S] /\ g[0] = b
    BY <2>1, <2>2
  <2>4. ASSUME NEW k \in 1 .. (n + 1)
        PROVE  g[k] = F[k][g[k - 1]]
    <3>1. CASE k = n + 1
      <4>1. k - 1 = n /\ g[k - 1] = h[n] /\ g[k] = last
        BY <3>1
      <4> QED BY <3>1, <4>1
    <3>2. CASE k # n + 1
      <4>1. k \in 1 .. n /\ k - 1 \in 0 .. n /\ k - 1 # n + 1
        BY <3>2
      <4>2. g[k] = h[k] /\ g[k - 1] = h[k - 1]
        BY <3>2, <4>1
      <4> QED BY <2>1, <4>1, <4>2
    <3> QED BY <3>1, <3>2
  <2> QED BY <2>3, <2>4
<1>3. \A n \in Nat : n \in Goods => n + 1 \in Goods
  <2> HIDE DEF Upto
  <2> QED BY <1>2
<1>4. N \in Goods
  <2> HIDE DEF Goods
  <2> QED BY <1>1, <1>3, NatSetInduction
<1> QED BY <1>4 DEF Rounds
=============================================================================
