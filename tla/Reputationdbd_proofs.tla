------------------------ MODULE Reputationdbd_proofs ------------------------
(***************************************************************************)
(* Proofs about the daemon: a clean exit has answered everything, the free *)
(* service describes no stale asset, and an answer of the query service    *)
(* lines up with its request, for every list of addresses.                 *)
(***************************************************************************)
EXTENDS Reputationdbd, SetInduction, SequenceTheorems, FiniteSetTheorems

\* The first spelling of its address, and the positions up to i that are one.
First(raw, i) == \A j \in 1 .. (i - 1) : ~SameAddress(raw[j], raw[i])
Before(raw, i) == {j \in 1 .. i : First(raw, j)}

\* What parseAddrs knows after n addresses: those it has not had before, in the
\* order they came, and how each was spelled first.
Parsed(raw, n, acc) ==
  /\ acc.addrs \in Seq(Spellings)
  /\ Len(acc.addrs) = Cardinality(Before(raw, n))
  /\ DOMAIN acc.inputs = {Unmap(raw[j]) : j \in 1 .. n}
  /\ \A j \in Before(raw, n) :
       /\ Cardinality(Before(raw, j)) \in 1 .. Len(acc.addrs)
       /\ acc.addrs[Cardinality(Before(raw, j))] = Unmap(raw[j])
       /\ acc.inputs[Unmap(raw[j])] = raw[j]
  /\ \A i \in 1 .. Len(acc.addrs) : \E j \in Before(raw, n) : acc.addrs[i] = Unmap(raw[j])

\* An address and the form it is compared in name the same host.
LEMMA UnmapFacts ==
  ASSUME NEW s \in Spellings
  PROVE  Unmap(s) \in Spellings /\ Unmap(s).host = s.host
BY DEF Unmap, Spellings

\* Going one address further finds a new one or an old one again.
LEMMA BeforeNext ==
  ASSUME NEW raw, NEW n \in Nat
  PROVE  /\ Before(raw, n) \subseteq 1 .. n
         /\ IsFiniteSet(Before(raw, n)) /\ Cardinality(Before(raw, n)) \in Nat
         /\ First(raw, n + 1) =>
              /\ Before(raw, n + 1) = Before(raw, n) \cup {n + 1}
              /\ Cardinality(Before(raw, n + 1)) = Cardinality(Before(raw, n)) + 1
         /\ ~First(raw, n + 1) => Before(raw, n + 1) = Before(raw, n)
<1>1. Before(raw, n) \subseteq 1 .. n
  BY DEF Before
<1>2. IsFiniteSet(Before(raw, n)) /\ Cardinality(Before(raw, n)) \in Nat
  <2>1. IsFiniteSet(1 .. n)
    BY FS_Interval
  <2> QED BY <1>1, <2>1, FS_Subset, FS_CardinalityType
<1>3. 1 .. (n + 1) = (1 .. n) \cup {n + 1} /\ n + 1 \notin 1 .. n
  OBVIOUS
<1>4. CASE First(raw, n + 1)
  <2>1. Before(raw, n + 1) = Before(raw, n) \cup {n + 1}
    BY <1>3, <1>4 DEF Before
  <2>2. n + 1 \notin Before(raw, n)
    BY <1>1, <1>3
  <2> QED BY <1>1, <1>2, <1>4, <2>1, <2>2, FS_AddElement
<1>5. CASE ~First(raw, n + 1)
  <2>1. Before(raw, n + 1) = Before(raw, n)
    <3>1. \A j \in 1 .. (n + 1) : First(raw, j) => j \in 1 .. n
      BY <1>3, <1>5
    <3> QED BY <1>3, <3>1 DEF Before
  <2> QED BY <1>1, <1>2, <1>5, <2>1
<1> QED BY <1>4, <1>5

\* One round of the loop of parseAddrs.
LEMMA ParseStep ==
  ASSUME NEW raw \in Seq(Spellings), NEW n \in Nat, n + 1 <= Len(raw),
         NEW acc, Parsed(raw, n, acc)
  PROVE  Parsed(raw, n + 1, Parse(acc, raw[n + 1]))
<1> DEFINE s == raw[n + 1]
           a == Unmap(s)
<1>1. /\ s \in Spellings /\ a \in Spellings /\ Len(raw) \in Nat
      /\ \A j \in 1 .. (n + 1) : raw[j] \in Spellings
  <2>1. Len(raw) \in Nat /\ \A j \in 1 .. Len(raw) : raw[j] \in Spellings
    BY LenProperties, ElementOfSeq
  <2>2. n + 1 \in 1 .. Len(raw) /\ 1 .. (n + 1) \subseteq 1 .. Len(raw)
    BY <2>1
  <2> QED BY <2>1, <2>2, UnmapFacts
<1>2. /\ 1 .. (n + 1) = (1 .. n) \cup {n + 1}
      /\ (n + 1) - 1 = n
  OBVIOUS
<1>3. First(raw, n + 1) <=> a \notin DOMAIN acc.inputs
  BY <1>2 DEF First, Parsed, SameAddress
<1>4. {Unmap(raw[j]) : j \in 1 .. (n + 1)} = {Unmap(raw[j]) : j \in 1 .. n} \cup {a}
  BY <1>2
<1> DEFINE new == Parse(acc, s)
           size == Cardinality(Before(raw, n))
<1>5. CASE a \in DOMAIN acc.inputs
  <2>1. new = acc /\ Before(raw, n + 1) = Before(raw, n)
    BY <1>3, <1>5, BeforeNext DEF Parse
  <2>2. {Unmap(raw[j]) : j \in 1 .. (n + 1)} = {Unmap(raw[j]) : j \in 1 .. n}
    BY <1>4, <1>5 DEF Parsed
  <2> HIDE DEF new
  <2>3. Parsed(raw, n + 1, acc)
    BY <2>1, <2>2 DEF Parsed
  <2> QED BY <2>1, <2>3 DEF new
<1>6. CASE a \notin DOMAIN acc.inputs
  <2>1. /\ Before(raw, n + 1) = Before(raw, n) \cup {n + 1}
        /\ Cardinality(Before(raw, n + 1)) = size + 1 /\ size \in Nat
        /\ Before(raw, n) \subseteq 1 .. n
    BY <1>3, <1>6, BeforeNext
  <2>2. /\ new.addrs = Append(acc.addrs, a)
        /\ DOMAIN new.inputs = DOMAIN acc.inputs \cup {a}
        /\ \A x \in DOMAIN acc.inputs : x # a => new.inputs[x] = acc.inputs[x]
        /\ new.inputs[a] = s
    BY <1>6 DEF Parse
  <2> HIDE DEF new, s, a, size
  <2>3. /\ new.addrs \in Seq(Spellings) /\ Len(new.addrs) = size + 1
        /\ new.addrs[size + 1] = a
        /\ \A i \in 1 .. size : new.addrs[i] = acc.addrs[i]
        /\ Len(acc.addrs) = size
    BY <1>1, <2>1, <2>2, AppendProperties DEF Parsed, size
  <2>4. DOMAIN new.inputs = {Unmap(raw[j]) : j \in 1 .. (n + 1)}
    BY <1>4, <2>2 DEF Parsed
  <2>5. ASSUME NEW j \in Before(raw, n + 1)
        PROVE  /\ Cardinality(Before(raw, j)) \in 1 .. Len(new.addrs)
               /\ new.addrs[Cardinality(Before(raw, j))] = Unmap(raw[j])
               /\ new.inputs[Unmap(raw[j])] = raw[j]
    <3>1. CASE j = n + 1
      BY <2>1, <2>2, <2>3, <3>1 DEF s, a
    <3>2. CASE j \in Before(raw, n)
      <4>1. /\ Cardinality(Before(raw, j)) \in 1 .. size
            /\ acc.addrs[Cardinality(Before(raw, j))] = Unmap(raw[j])
            /\ acc.inputs[Unmap(raw[j])] = raw[j]
        BY <2>3, <3>2 DEF Parsed
      <4>2. Unmap(raw[j]) \in DOMAIN acc.inputs
        BY <2>1, <3>2 DEF Parsed
      <4>3. 1 .. size \subseteq 1 .. Len(new.addrs)
        BY <2>1, <2>3
      <4> QED BY <1>6, <2>2, <2>3, <4>1, <4>2, <4>3
    <3> QED BY <2>1, <3>1, <3>2
  <2>6. ASSUME NEW i \in 1 .. Len(new.addrs)
        PROVE  \E j \in Before(raw, n + 1) : new.addrs[i] = Unmap(raw[j])
    <3>1. CASE i = size + 1
      BY <2>1, <2>3, <3>1 DEF s, a
    <3>2. CASE i \in 1 .. size
      BY <2>1, <2>3, <3>2 DEF Parsed
    <3> QED BY <2>1, <2>3, <3>1, <3>2
  <2>7. Parsed(raw, n + 1, new)
    BY <2>1, <2>3, <2>4, <2>5, <2>6 DEF Parsed, size
  <2> QED BY <2>7 DEF new, s
<1> QED BY <1>5, <1>6

\* The loop of parseAddrs, unfolded (reputationdb.go:38-57).
LEMMA ParseUnfold ==
  ASSUME NEW raw \in Seq(Spellings)
  PROVE  \E g : /\ g[0] = [addrs |-> << >>, inputs |-> << >>]
                /\ \A n \in 1 .. Len(raw) : g[n] = Parse(g[n - 1], raw[n])
                /\ ParseAddrs(raw) = g[Len(raw)]
<1> DEFINE Step(g, n) == IF n = 0 THEN [addrs |-> << >>, inputs |-> << >>]
                         ELSE Parse(g[n - 1], raw[n])
           Unfolds(g, n) == g = [m \in 0 .. n |-> Step(g, m)]
           Defined == {n \in Nat : \E g : Unfolds(g, n)}
<1>1. 0 \in Defined
  <2>1. Unfolds([m \in 0 .. 0 |-> [addrs |-> << >>, inputs |-> << >>]], 0)
    OBVIOUS
  <2> QED BY <2>1
<1>2. ASSUME NEW n \in Nat, n \in Defined
      PROVE  n + 1 \in Defined
  <2>1. PICK g : Unfolds(g, n)
    BY <1>2
  <2> DEFINE h == [m \in 0 .. (n + 1) |-> IF m = n + 1 THEN Step(g, n + 1) ELSE g[m]]
  <2>2. \A m \in 0 .. n : g[m] = Step(g, m)
    <3> HIDE DEF Step
    <3> QED BY <2>1
  <2>3. \A m \in 0 .. n : h[m] = g[m]
    <3> HIDE DEF Step
    <3> QED OBVIOUS
  <2>4. h[n + 1] = Step(g, n + 1)
    <3> HIDE DEF Step
    <3> QED OBVIOUS
  <2>5. \A m \in 0 .. (n + 1) : h[m] = Step(h, m)
    <3> SUFFICES ASSUME NEW m \in 0 .. (n + 1)
                 PROVE  h[m] = Step(h, m)
      OBVIOUS
    <3> HIDE DEF h
    <3>1. m # 0 => h[m - 1] = g[m - 1]
      BY <2>3
    <3>2. Step(h, m) = Step(g, m)
      BY <3>1
    <3> HIDE DEF Step
    <3> QED BY <2>2, <2>3, <2>4, <3>2
  <2>6. h = [m \in 0 .. (n + 1) |-> h[m]]
    <3> HIDE DEF Step
    <3> QED OBVIOUS
  <2>7. Unfolds(h, n + 1)
    <3> HIDE DEF Step, h
    <3> QED BY <2>5, <2>6
  <2> HIDE DEF Unfolds, h
  <2> QED BY <2>7
<1>3. Len(raw) \in Nat
  BY LenProperties
<1>4. \E g : Unfolds(g, Len(raw))
  <2>1. \A n \in Nat : n \in Defined => n + 1 \in Defined
    BY <1>2
  <2>2. Len(raw) \in Defined
    <3> HIDE DEF Defined
    <3> QED BY <1>1, <1>3, <2>1, NatSetInduction
  <2> HIDE DEF Unfolds
  <2> QED BY <2>2
<1>5. PICK g : Unfolds(g, Len(raw)) /\ ParseAddrs(raw) = g[Len(raw)]
  <2>1. ParseAddrs(raw) = (CHOOSE g : Unfolds(g, Len(raw)))[Len(raw)]
    BY DEF ParseAddrs
  <2> HIDE DEF Unfolds
  <2> QED BY <1>4, <2>1
<1>6. \A n \in 0 .. Len(raw) : g[n] = Step(g, n)
  <2> HIDE DEF Step
  <2> QED BY <1>5
<1>7. g[0] = [addrs |-> << >>, inputs |-> << >>]
  BY <1>3, <1>6
<1>8. \A n \in 1 .. Len(raw) : g[n] = Parse(g[n - 1], raw[n])
  BY <1>3, <1>6
<1> QED BY <1>5, <1>7, <1>8

\* What parseAddrs makes of any list of addresses.
LEMMA ParseAddrsParses ==
  ASSUME NEW raw \in Seq(Spellings)
  PROVE  Parsed(raw, Len(raw), ParseAddrs(raw))
<1>1. PICK g : /\ g[0] = [addrs |-> << >>, inputs |-> << >>]
               /\ \A n \in 1 .. Len(raw) : g[n] = Parse(g[n - 1], raw[n])
               /\ ParseAddrs(raw) = g[Len(raw)]
  BY ParseUnfold
<1>2. Len(raw) \in Nat
  BY LenProperties
<1> DEFINE S == {n \in Nat : n <= Len(raw) => Parsed(raw, n, g[n])}
<1>3. 0 \in S
  <2>1. g[0].addrs = << >> /\ g[0].inputs = << >>
    BY <1>1
  <2>2. Before(raw, 0) = {} /\ Cardinality(Before(raw, 0)) = 0
    BY FS_EmptySet DEF Before
  <2>3. /\ << >> \in Seq(Spellings) /\ Len(<< >>) = 0 /\ 1 .. 0 = {}
        /\ DOMAIN << >> = {}
    BY EmptySeq
  <2>4. {Unmap(raw[j]) : j \in 1 .. 0} = {}
    BY <2>3
  <2>5. Parsed(raw, 0, g[0])
    BY <2>1, <2>2, <2>3, <2>4 DEF Parsed
  <2> QED BY <2>5
<1>4. \A n \in Nat : n \in S => n + 1 \in S
  <2> SUFFICES ASSUME NEW n \in Nat, n \in S, n + 1 <= Len(raw)
               PROVE  Parsed(raw, n + 1, g[n + 1])
    OBVIOUS
  <2>1. Parsed(raw, n, g[n])
    BY <1>2
  <2>2. n + 1 \in 1 .. Len(raw) /\ (n + 1) - 1 = n
    BY <1>2
  <2>3. g[n + 1] = Parse(g[n], raw[n + 1])
    BY <1>1, <2>2
  <2> QED BY <2>1, <2>3, ParseStep
<1>5. Len(raw) \in S
  <2> HIDE DEF S
  <2> QED BY <1>2, <1>3, <1>4, NatSetInduction
<1> QED BY <1>1, <1>2, <1>5

\* The records of an answer line up with any list that was asked about, and
\* say what the publication does.
LEMMA RecordsLineUp ==
  ASSUME NEW raw \in Seq(Spellings), NEW g
  PROVE  LET records == Records(g, raw)
         IN  /\ Lines(raw, records)
             /\ \A i \in DOMAIN records :
                  records[i].categories = Contents[g][records[i].ipAddress.host]
<1> DEFINE acc == ParseAddrs(raw)
           records == Records(g, raw)
<1>1. Parsed(raw, Len(raw), acc)
  BY ParseAddrsParses
<1>2. /\ Len(raw) \in Nat /\ DOMAIN raw = 1 .. Len(raw)
      /\ \A j \in DOMAIN raw : raw[j] \in Spellings
      /\ Len(acc.addrs) \in Nat /\ DOMAIN acc.addrs = 1 .. Len(acc.addrs)
  BY <1>1, LenProperties, ElementOfSeq DEF Parsed
<1>3. /\ DOMAIN records = DOMAIN acc.addrs
      /\ \A i \in DOMAIN acc.addrs :
           /\ records[i].ipAddress = acc.inputs[acc.addrs[i]]
           /\ records[i].categories =
                IF acc.addrs[i] \in DOMAIN Matches(g, acc.addrs)
                THEN Matches(g, acc.addrs)[acc.addrs[i]] ELSE {}
  BY DEF Records
<1>4. records = [i \in 1 .. Len(acc.addrs) |-> records[i]]
  BY <1>2 DEF Records
<1>5. Len(records) = Len(acc.addrs)
  BY <1>2, <1>4
<1> HIDE DEF acc, records
<1>6. \A i \in DOMAIN records :
        records[i].categories = Contents[g][records[i].ipAddress.host]
  <2> SUFFICES ASSUME NEW i \in DOMAIN records
               PROVE  records[i].categories = Contents[g][records[i].ipAddress.host]
    OBVIOUS
  <2> DEFINE a == acc.addrs[i]
  <2>1. PICK j \in Before(raw, Len(raw)) : a = Unmap(raw[j])
    BY <1>1, <1>2, <1>3 DEF Parsed
  <2>2. records[i].ipAddress = raw[j] /\ raw[j] \in Spellings
    BY <1>1, <1>2, <1>3, <2>1 DEF Parsed, Before
  <2>3. a.host = records[i].ipAddress.host
    BY <2>1, <2>2, UnmapFacts
  <2>4. a \in Range(acc.addrs)
    BY <1>3 DEF Range
  <2>5. /\ a \in DOMAIN Matches(g, acc.addrs) <=> Contents[g][a.host] # {}
        /\ a \in DOMAIN Matches(g, acc.addrs) =>
             Matches(g, acc.addrs)[a] = Contents[g][a.host]
    BY <2>4 DEF Matches
  <2> QED BY <1>3, <2>3, <2>5
<1>7. Lines(raw, records)
  <2>1. /\ Len(records) = Cardinality(Before(raw, Len(raw)))
        /\ \A i \in DOMAIN raw :
             First(raw, i) =>
               records[Cardinality(Before(raw, i))].ipAddress = raw[i]
    <3>1. ASSUME NEW i \in DOMAIN raw, First(raw, i)
          PROVE  records[Cardinality(Before(raw, i))].ipAddress = raw[i]
      <4>1. i \in Before(raw, Len(raw))
        BY <1>2, <3>1 DEF Before
      <4> QED BY <1>1, <1>2, <1>3, <4>1 DEF Parsed
    <3> QED BY <1>1, <1>5, <3>1 DEF Parsed
  <2> QED BY <2>1 DEF Lines, First, Before
<1> QED BY <1>6, <1>7 DEF records

-----------------------------------------------------------------------------
(* The query service. *)

\* The query service keeps its invariant when nothing of it moves.
LEMMA QueryKept ==
  ASSUME QueryInv, UNCHANGED queryVars
  PROVE  QueryInv'
BY DEF QueryInv, QueryTypeOK, queryVars, cacheVars

\* So it does when the process dies.
LEMMA QueryReset ==
  ASSUME QueryInv, QueryLost
  PROVE  QueryInv'
<1>1. /\ serving' = 0 /\ highWater' = highWater
      /\ batch' = [q \in Queries |-> 0]
      /\ ask' = [q \in Queries |-> << >>]
      /\ stage' = [q \in Queries |-> "idle"]
      /\ reply' = [q \in Queries |-> NoReply]
  BY DEF QueryLost, Cache!Crash
<1>2. MaxPublications \in Nat
  BY QueryAssumption DEF QueryAssumption
<1>3. /\ NoReply \in [code : {"none", "ok", "InvalidArgument", "Unavailable", "Internal"},
                      createdAt : 0 .. MaxPublications]
      /\ NoReply.code = "none"
  BY <1>2 DEF NoReply
<1>4. QueryTypeOK'
  BY <1>1, <1>2, <1>3 DEF QueryInv, QueryTypeOK
<1> QED BY <1>1, <1>3, <1>4 DEF QueryInv

\* What an answer of a handler does to the invariant.
LEMMA QueryAnswers ==
  ASSUME QueryInv, NEW q \in Queries, NEW w,
         w \in [code : {"none", "ok", "InvalidArgument", "Unavailable", "Internal"},
                createdAt : 0 .. MaxPublications],
         w.code = "ok" => w.createdAt # 0,
         stage' = [stage EXCEPT ![q] = "replied"],
         reply' = [reply EXCEPT ![q] = w],
         ask' = ask \/ ask' = [ask EXCEPT ![q] = << >>],
         batch' \in [Queries -> 0 .. MaxPublications],
         UNCHANGED <<serving, highWater>>
  PROVE  QueryInv'
<1>1. QueryTypeOK'
  BY DEF QueryInv, QueryTypeOK
<1>2. \A p \in Queries : /\ reply'[p].code = "ok" => reply'[p].createdAt # 0
                         /\ stage'[p] # "replied" => reply'[p] = NoReply
  BY DEF QueryInv, QueryTypeOK
<1> QED BY <1>1, <1>2 DEF QueryInv

\* What a refused request is answered with.
LEMMA Refusals ==
  ASSUME NEW code \in {"InvalidArgument", "Unavailable", "Internal"}
  PROVE  /\ [NoReply EXCEPT !.code = code] \in
              [code : {"none", "ok", "InvalidArgument", "Unavailable", "Internal"},
               createdAt : 0 .. MaxPublications]
         /\ [NoReply EXCEPT !.code = code].code # "ok"
<1>1. MaxPublications \in Nat
  BY QueryAssumption DEF QueryAssumption
<1> QED BY <1>1 DEF NoReply

\* The handler is entered, and refuses the list or goes to the cache.
LEMMA QueryAsked ==
  ASSUME QueryInv, NEW q \in Queries, NEW raw \in Batches, AskQuery(q, raw)
  PROVE  QueryInv'
<1>1. CASE Len(raw) \in 1 .. MaxBatch /\ \A i \in DOMAIN raw : IsAddress(raw[i])
  <2>1. /\ ask' = [ask EXCEPT ![q] = raw] /\ stage' = [stage EXCEPT ![q] = "cache"]
        /\ reply' = reply /\ serving' = serving /\ highWater' = highWater /\ batch' = batch
        /\ stage[q] = "idle"
    BY <1>1 DEF AskQuery, cacheVars
  <2>2. QueryTypeOK'
    BY <2>1 DEF QueryInv, QueryTypeOK
  <2> QED BY <2>1, <2>2 DEF QueryInv, QueryTypeOK
<1>2. CASE ~(Len(raw) \in 1 .. MaxBatch /\ \A i \in DOMAIN raw : IsAddress(raw[i]))
  <2>1. /\ ask' = [ask EXCEPT ![q] = << >>] /\ stage' = [stage EXCEPT ![q] = "replied"]
        /\ reply' = [reply EXCEPT ![q] = [NoReply EXCEPT !.code = "InvalidArgument"]]
        /\ serving' = serving /\ highWater' = highWater /\ batch' = batch
    BY <1>2 DEF AskQuery, Refuse, Respond, cacheVars
  <2>2. batch' \in [Queries -> 0 .. MaxPublications]
    BY <2>1 DEF QueryInv, QueryTypeOK
  <2> QED BY <2>1, <2>2, Refusals, QueryAnswers
<1> QED BY <1>1, <1>2

\* Every step of the handler keeps the query service's invariant.
LEMMA QueryServed ==
  ASSUME QueryInv, NEW q \in Queries, QueryStep(q)
  PROVE  QueryInv'
<1>0. MaxPublications \in Nat /\ QueryTypeOK
  BY QueryAssumption DEF QueryAssumption, QueryInv
<1>1. CASE NotLoaded(q)
  <2>1. /\ ask' = [ask EXCEPT ![q] = << >>] /\ stage' = [stage EXCEPT ![q] = "replied"]
        /\ reply' = [reply EXCEPT ![q] = [NoReply EXCEPT !.code = "Unavailable"]]
        /\ serving' = serving /\ highWater' = highWater /\ batch' = batch
    BY <1>1 DEF NotLoaded, Refuse, Respond, cacheVars
  <2>2. batch' \in [Queries -> 0 .. MaxPublications]
    BY <1>0, <2>1 DEF QueryTypeOK
  <2> QED BY <2>1, <2>2, Refusals, QueryAnswers
<1>2. CASE Begin(q)
  <2>1. /\ batch' = [batch EXCEPT ![q] = serving] /\ stage' = [stage EXCEPT ![q] = "batch"]
        /\ ask' = ask /\ reply' = reply /\ serving' = serving /\ highWater' = highWater
        /\ stage[q] = "cache"
    BY <1>2 DEF Begin, Cache!BeginBatch
  <2>2. QueryTypeOK'
    BY <1>0, <2>1 DEF QueryTypeOK
  <2> QED BY <2>1, <2>2 DEF QueryInv, QueryTypeOK
<1>3. CASE Finish(q)
  <2> DEFINE w == [code |-> "ok", createdAt |-> batch[q]]
  <2>1. /\ batch[q] # 0 /\ batch' = [batch EXCEPT ![q] = 0]
        /\ stage' = [stage EXCEPT ![q] = "replied"] /\ reply' = [reply EXCEPT ![q] = w]
        /\ ask' = ask /\ serving' = serving /\ highWater' = highWater
    BY <1>3 DEF Finish, Respond, Cache!EndBatch
  <2>2. /\ batch' \in [Queries -> 0 .. MaxPublications]
        /\ w \in [code : {"none", "ok", "InvalidArgument", "Unavailable", "Internal"},
                  createdAt : 0 .. MaxPublications]
        /\ w.createdAt # 0
    BY <1>0, <2>1 DEF QueryTypeOK
  <2> HIDE DEF w
  <2> QED BY <2>1, <2>2, QueryAnswers
<1>4. CASE LookupFails(q)
  <2>1. /\ ask' = [ask EXCEPT ![q] = << >>] /\ stage' = [stage EXCEPT ![q] = "replied"]
        /\ reply' = [reply EXCEPT ![q] = [NoReply EXCEPT !.code = "Internal"]]
        /\ batch' = [batch EXCEPT ![q] = 0]
        /\ serving' = serving /\ highWater' = highWater
    BY <1>4 DEF LookupFails, Refuse, Respond, Cache!EndBatch
  <2>2. batch' \in [Queries -> 0 .. MaxPublications]
    BY <1>0, <2>1 DEF QueryTypeOK
  <2> QED BY <2>1, <2>2, Refusals, QueryAnswers
<1>5. CASE Answer(q)
  <2>1. /\ ask' = [ask EXCEPT ![q] = << >>] /\ stage' = [stage EXCEPT ![q] = "idle"]
        /\ reply' = [reply EXCEPT ![q] = NoReply]
        /\ serving' = serving /\ highWater' = highWater /\ batch' = batch
    BY <1>5 DEF Answer, cacheVars
  <2>2. /\ NoReply \in [code : {"none", "ok", "InvalidArgument", "Unavailable", "Internal"},
                        createdAt : 0 .. MaxPublications]
        /\ NoReply.code = "none"
    BY <1>0 DEF NoReply
  <2>3. QueryTypeOK'
    BY <1>0, <2>1, <2>2 DEF QueryTypeOK
  <2> QED BY <1>0, <2>1, <2>2, <2>3 DEF QueryInv, QueryTypeOK
<1> QED BY <1>1, <1>2, <1>3, <1>4, <1>5 DEF QueryStep

\* A publication swapped in disturbs no batch and no reply.
LEMMA QueryInstalled ==
  ASSUME QueryInv, Install
  PROVE  QueryInv'
<1>1. PICK g \in 1 .. MaxPublications : Cache!Install(g) /\ UNCHANGED <<ask, stage, reply>>
  BY DEF Install
<1>2. serving' \in 0 .. MaxPublications /\ highWater' \in 0 .. MaxPublications /\ batch' = batch
  BY <1>1 DEF Cache!Install
<1> QED BY <1>1, <1>2 DEF QueryInv, QueryTypeOK

-----------------------------------------------------------------------------
(* The free service. *)

\* The free service keeps its invariant when nothing of it moves.
LEMMA FreeKept ==
  ASSUME FreeInv, UNCHANGED freeVars
  PROVE  FreeInv'
BY DEF FreeInv, FreeTypeOK, freeVars, githubVars, assetVars

\* So it does when the process dies with the lock held.
LEMMA FreeReset ==
  ASSUME FreeInv, FreeLost
  PROVE  FreeInv'
<1>1. /\ mu' = Nobody /\ cached' = 0 /\ age' = 0
      /\ at' = [f \in FreeRequests |-> "idle"]
      /\ got' = [f \in FreeRequests |-> 0]
      /\ uploads' = uploads /\ present' = present /\ past' = past
  BY DEF FreeLost, githubVars
<1>2. TTL \in Nat /\ Nobody \notin FreeRequests
  BY FreeAssumption DEF FreeAssumption
<1> QED BY <1>1, <1>2 DEF FreeInv, FreeTypeOK

\* Deleting and uploading the asset, and the clock.
LEMMA OutsideKeeps ==
  ASSUME FreeInv, DeleteAsset \/ Upload \/ Tick
  PROVE  FreeInv'
<1>1. /\ TTL \in Nat /\ TTL # 0 /\ FreeTypeOK
      /\ \A k \in 1 .. TTL : past[k] \in Nat
  BY FreeAssumption DEF FreeAssumption, FreeInv, FreeTypeOK
<1>2. CASE DeleteAsset
  BY <1>2 DEF DeleteAsset, FreeInv, FreeTypeOK, assetVars
<1>3. CASE Upload
  <2>1. /\ uploads' = uploads + 1 /\ uploads < MaxUploads /\ MaxUploads \in Nat
        /\ past' = past /\ mu' = mu /\ cached' = cached /\ age' = age /\ at' = at
        /\ got' = got
    BY <1>3, FreeAssumption DEF Upload, FreeAssumption, assetVars
  <2>2. present' \in BOOLEAN
    BY <1>3 DEF Upload
  <2>3. uploads' \in 1 .. MaxUploads /\ \A k \in 1 .. TTL : past[k] <= uploads'
    BY <1>1, <2>1 DEF FreeInv, FreeTypeOK
  <2> QED BY <1>1, <2>1, <2>2, <2>3 DEF FreeInv, FreeTypeOK
<1>4. CASE Tick
  <2>1. /\ uploads' = uploads /\ mu' = mu /\ cached' = cached /\ at' = at /\ got' = got
        /\ age' = (IF age < TTL THEN age + 1 ELSE age)
        /\ past' = [k \in 1 .. TTL |-> IF k = 1 THEN uploads ELSE past[k - 1]]
        /\ \A f \in FreeRequests : at[f] # "store"
    BY <1>4 DEF Tick
  <2>2. present' \in BOOLEAN
    BY <1>1, <1>4 DEF Tick, FreeTypeOK
  <2>3. \A k \in 1 .. TTL :
          /\ k # 1 => k - 1 \in 1 .. TTL
          /\ past'[k] = IF k = 1 THEN uploads ELSE past[k - 1]
    BY <1>1, <2>1
  <2>4. \A k \in 1 .. TTL : past'[k] \in Nat /\ past'[k] <= uploads
    BY <1>1, <2>3 DEF FreeInv, FreeTypeOK
  <2>5. past' \in [1 .. TTL -> Nat] /\ age' \in 0 .. TTL
    BY <1>1, <2>1, <2>4 DEF FreeTypeOK
  <2>6. \A k \in 1 .. TTL : k > age' => k # 1 /\ k - 1 > age
    BY <1>1, <2>1 DEF FreeTypeOK
  <2>7. \A k \in 1 .. TTL : cached # 0 /\ k > age' => cached >= past'[k]
    BY <2>3, <2>6 DEF FreeInv
  <2> QED BY <1>1, <2>1, <2>2, <2>4, <2>5, <2>7 DEF FreeInv, FreeTypeOK
<1> QED BY <1>2, <1>3, <1>4

\* A request of the free service comes in.
LEMMA FreeAsked ==
  ASSUME FreeInv, NEW f \in FreeRequests, AskFree(f)
  PROVE  FreeInv'
BY DEF AskFree, GoTo, githubVars, assetVars, FreeInv, FreeTypeOK

\* Every step of a request of the free service keeps its invariant: the lock is
\* released on every way out, and what is cached is what GitHub has just said.
LEMMA FreeServed ==
  ASSUME FreeInv, NEW f \in FreeRequests, FreeStep(f)
  PROVE  FreeInv'
<1>1. /\ TTL \in Nat /\ Nobody \notin FreeRequests /\ FreeTypeOK
      /\ 0 \in 0 .. TTL
  BY FreeAssumption DEF FreeAssumption, FreeInv
<1>2. CASE Lock(f)
  BY <1>1, <1>2 DEF Lock, Fresh, GoTo, githubVars, FreeInv, FreeTypeOK
<1>3. CASE ListAssets(f)
  BY <1>1, <1>3 DEF ListAssets, GoTo, githubVars, assetVars, FreeInv, FreeTypeOK
<1>4. CASE StoreAsset(f)
  BY <1>1, <1>4 DEF StoreAsset, GoTo, githubVars, FreeInv, FreeTypeOK
<1>5. CASE AssetFails(f)
  BY <1>1, <1>5 DEF AssetFails, MuAfterError, GoTo, githubVars, FreeInv, FreeTypeOK
<1>6. CASE AnswerFree(f)
  BY <1>1, <1>6 DEF AnswerFree, GoTo, githubVars, assetVars, FreeInv, FreeTypeOK
<1> QED BY <1>2, <1>3, <1>4, <1>5, <1>6 DEF FreeStep

-----------------------------------------------------------------------------
(* The process and its servers. *)

\* The process dies: nothing is left of it, and how it ended is on record.
LEMMA DeathKeeps ==
  ASSUME IInv, NEW how \in {"ok", "error", "killed"}, Die(how)
  PROVE  IInv'
<1>1. QueryInv' /\ FreeInv'
  BY QueryReset, FreeReset DEF IInv, Die
<1>2. /\ main' = "gone" /\ exit' = how /\ srv' = [s \in Servers |-> "off"]
      /\ stop' = FALSE /\ failed' = FALSE
  BY DEF Die
<1>3. DaemonTypeOK' /\ DrainInv'
  BY <1>2 DEF DaemonTypeOK, DrainInv, Servers
<1> QED BY <1>1, <1>3 DEF IInv

\* The daemon's own variables, when requests and the asset stand still.
LEMMA ServersKeep ==
  ASSUME IInv, UNCHANGED <<queryVars, freeVars>>,
         \/ Listen \/ Route \/ Metrics \/ Restart \/ Interrupt
         \/ \E s \in Servers : ServeFails(s) \/ Stopping(s)
  PROVE  IInv'
<1>1. QueryInv' /\ FreeInv'
  BY QueryKept, FreeKept DEF IInv
<1>2. \A r \in Requests : Active(r)' <=> Active(r)
  BY DEF Active, queryVars, freeVars
<1>3. DaemonTypeOK /\ DrainInv /\ "api" \in Servers /\ "metrics" \in Servers
  BY DEF IInv, Servers
<1>4. CASE Listen \/ Route \/ Metrics
  <2>1. DaemonTypeOK'
    <3>1. stop' = stop /\ failed' = failed /\ exit' = exit
      BY <1>4 DEF Listen, Route, Metrics
    <3>2. /\ main' \in {"listen", "route", "metrics", "wait", "gone"}
          /\ srv' \in [Servers -> {"off", "listening", "serving", "broken", "closing", "done"}]
      BY <1>3, <1>4 DEF Listen, Route, Metrics, DaemonTypeOK
    <3> QED BY <1>3, <3>1, <3>2 DEF DaemonTypeOK
  <2>2. main # "gone" /\ main' # "gone" /\ exit' = exit
    BY <1>4 DEF Listen, Route, Metrics
  <2>3. srv'.api = "done" => srv.api = "done"
    BY <1>3, <1>4 DEF Listen, Route, Metrics, DaemonTypeOK
  <2>4. failed' = failed
    BY <1>4 DEF Listen, Route, Metrics
  <2> QED BY <1>1, <1>2, <1>3, <2>1, <2>2, <2>3, <2>4 DEF DrainInv, IInv
<1>5. CASE Restart \/ Interrupt
  <2>1. srv' = srv /\ failed' = failed /\ main' # "gone" /\ exit' = "none"
    BY <1>3, <1>5 DEF Restart, Interrupt, DrainInv
  <2>2. DaemonTypeOK'
    <3>1. stop' \in BOOLEAN
      BY <1>3, <1>5 DEF Restart, Interrupt, DaemonTypeOK
    <3>2. main' \in {"listen", "route", "metrics", "wait", "gone"}
      BY <1>3, <1>5 DEF Restart, Interrupt, DaemonTypeOK
    <3> QED BY <1>3, <2>1, <3>1, <3>2 DEF DaemonTypeOK
  <2> QED BY <1>1, <1>2, <1>3, <2>1, <2>2 DEF DrainInv, IInv
<1>6. ASSUME NEW s \in Servers, ServeFails(s) \/ Stopping(s)
      PROVE  DaemonTypeOK' /\ DrainInv'
  <2>1. CASE ServeFails(s)
    BY <1>2, <1>3, <2>1 DEF ServeFails, DaemonTypeOK, DrainInv
  <2>2. CASE Shutdown(s)
    BY <1>2, <1>3, <2>2 DEF Shutdown, DaemonTypeOK, DrainInv
  <2>3. CASE Drained(s)
    BY <1>2, <1>3, <2>3 DEF Drained, DaemonTypeOK, DrainInv
  <2>4. CASE DrainTimesOut(s)
    BY <1>2, <1>3, <2>4 DEF DrainTimesOut, DaemonTypeOK, DrainInv
  <2> QED BY <1>6, <2>1, <2>2, <2>3, <2>4 DEF Stopping
<1> QED BY <1>1, <1>4, <1>5, <1>6 DEF IInv

\* Requests come in while the API server is serving, and none becomes active in
\* any other step.
LEMMA RequestsKeep ==
  ASSUME IInv,
         \/ \E r \in Requests : Accept(r)
         \/ \E q \in Queries : HandleQuery(q)
         \/ \E f \in FreeRequests : HandleFree(f)
         \/ Refresh \/ Outside
  PROVE  IInv'
<1>0. QueryInv /\ FreeInv /\ DaemonTypeOK /\ DrainInv
  BY DEF IInv
<1>1. UNCHANGED daemonVars
  BY DEF Accept, HandleQuery, HandleFree, Refresh, Outside, daemonVars
<1>2. DaemonTypeOK'
  BY <1>0, <1>1 DEF DaemonTypeOK, daemonVars
<1>3. CASE \E r \in Requests : Accept(r)
  <2>1. PICK r \in Requests : Accept(r)
    BY <1>3
  <2>2. srv.api = "serving"
    BY <2>1 DEF Accept
  <2>3. DrainInv'
    BY <1>0, <1>1, <2>2 DEF DrainInv, daemonVars
  <2>4. CASE r \in Queries /\ (\E raw \in Batches : AskQuery(r, raw)) /\ UNCHANGED freeVars
    BY <1>0, <1>2, <2>3, <2>4, QueryAsked, FreeKept DEF IInv
  <2>5. CASE r \in FreeRequests /\ AskFree(r) /\ UNCHANGED queryVars
    BY <1>0, <1>2, <2>3, <2>5, FreeAsked, QueryKept DEF IInv
  <2> QED BY <1>2, <2>1, <2>3, <2>4, <2>5 DEF Accept, IInv
<1>4. CASE \E q \in Queries : HandleQuery(q)
  <2>1. PICK q \in Queries : QueryStep(q) /\ UNCHANGED freeVars
    BY <1>4 DEF HandleQuery
  <2>2. stage[q] # "idle" /\ at' = at
    BY <2>1 DEF QueryStep, NotLoaded, Begin, Finish, LookupFails, Answer, freeVars
  <2>3. Active(q) /\ q \in Requests
    BY <2>1, <2>2 DEF Active, Requests
  <2>4. DrainInv'
    BY <1>0, <1>1, <2>3 DEF DrainInv, daemonVars
  <2> QED BY <1>0, <1>2, <2>1, <2>4, QueryServed, FreeKept DEF IInv
<1>5. CASE \E f \in FreeRequests : HandleFree(f)
  <2>1. PICK f \in FreeRequests : FreeStep(f) /\ UNCHANGED queryVars
    BY <1>5 DEF HandleFree
  <2>2. at[f] # "idle" /\ stage' = stage
    BY <2>1 DEF FreeStep, Lock, ListAssets, StoreAsset, AssetFails, AnswerFree, queryVars
  <2>3. \A r \in Requests : Active(r)' => Active(r)
    <3>1. \A g \in FreeRequests : g # f => at'[g] = at[g]
      BY <1>0, <2>1 DEF FreeStep, Lock, ListAssets, StoreAsset, AssetFails, AnswerFree,
                        GoTo, FreeInv, FreeTypeOK
    <3> QED BY <2>2, <3>1 DEF Active, Requests
  <2>4. DrainInv'
    BY <1>0, <1>1, <2>3 DEF DrainInv, daemonVars
  <2> QED BY <1>0, <1>2, <2>1, <2>4, FreeServed, QueryKept DEF IInv
<1>6. CASE Refresh
  <2>1. Install /\ UNCHANGED freeVars
    BY <1>6 DEF Refresh
  <2>2. \A r \in Requests : Active(r)' <=> Active(r)
    BY <2>1 DEF Install, Active, freeVars
  <2>3. DrainInv'
    BY <1>0, <1>1, <2>2 DEF DrainInv, daemonVars
  <2> QED BY <1>0, <1>2, <2>1, <2>3, QueryInstalled, FreeKept DEF IInv
<1>7. CASE Outside
  <2>1. (DeleteAsset \/ Upload \/ Tick) /\ UNCHANGED queryVars
    BY <1>7 DEF Outside
  <2>2. \A r \in Requests : Active(r)' <=> Active(r)
    BY <2>1 DEF DeleteAsset, Upload, Tick, Active, queryVars
  <2>3. DrainInv'
    BY <1>0, <1>1, <2>2 DEF DrainInv, daemonVars
  <2> QED BY <1>0, <1>2, <2>1, <2>3, OutsideKeeps, QueryKept DEF IInv
<1> QED BY <1>3, <1>4, <1>5, <1>6, <1>7

\* The daemon starts with nothing loaded, nothing cached and nobody served.
LEMMA DaemonInit == Init => IInv
<1> SUFFICES ASSUME Init PROVE IInv
  OBVIOUS
<1>1. QueryInv
  <2>1. /\ serving = 0 /\ highWater = 0 /\ batch = [q \in Queries |-> 0]
        /\ ask = [q \in Queries |-> << >>] /\ stage = [q \in Queries |-> "idle"]
        /\ reply = [q \in Queries |-> NoReply]
    BY DEF Init, QueryInit, Cache!Init
  <2>2. MaxPublications \in Nat
    BY QueryAssumption DEF QueryAssumption
  <2>3. NoReply \in [code : {"none", "ok", "InvalidArgument", "Unavailable", "Internal"},
                     createdAt : 0 .. MaxPublications]
        /\ NoReply.code = "none"
    BY <2>2 DEF NoReply
  <2> QED BY <2>1, <2>2, <2>3 DEF QueryInv, QueryTypeOK
<1>2. FreeInv
  BY FreeAssumption DEF Init, FreeInit, FreeAssumption, FreeInv, FreeTypeOK
<1>3. DaemonTypeOK /\ DrainInv
  BY DEF Init, DaemonTypeOK, DrainInv, Servers
<1> QED BY <1>1, <1>2, <1>3 DEF IInv

\* Every step of the daemon keeps its invariant.
LEMMA DaemonNext == IInv /\ [Next]_vars => IInv'
<1> SUFFICES ASSUME IInv, [Next]_vars PROVE IInv'
  OBVIOUS
<1>1. CASE UNCHANGED vars
  <2>1. QueryInv' /\ FreeInv'
    BY <1>1, QueryKept, FreeKept DEF IInv, vars
  <2>2. \A r \in Requests : Active(r)' <=> Active(r)
    BY <1>1 DEF Active, vars, queryVars, freeVars
  <2>3. DaemonTypeOK' /\ DrainInv'
    BY <1>1, <2>2 DEF IInv, DaemonTypeOK, DrainInv, vars, daemonVars
  <2> QED BY <2>1, <2>3 DEF IInv
<1>2. CASE StartFails \/ Return \/ Kill
  <2>1. \E how \in {"ok", "error", "killed"} : Die(how)
    BY <1>2 DEF StartFails, Return, Kill
  <2> QED BY <2>1, DeathKeeps
<1>3. CASE \/ Listen \/ Route \/ Metrics \/ Restart \/ Interrupt
           \/ \E s \in Servers : ServeFails(s) \/ Stopping(s)
  <2>1. UNCHANGED <<queryVars, freeVars>>
    BY <1>3 DEF Listen, Route, Metrics, Restart, Interrupt, ServeFails, Stopping,
                Shutdown, Drained, DrainTimesOut
  <2> QED BY <1>3, <2>1, ServersKeep
<1> QED BY <1>1, <1>2, <1>3, RequestsKeep DEF Next, Run

\* The inductive invariant of the daemon holds in every state: its types, the
\* free service's lock and cache, the query service's replies, and that the API
\* server is drained without an error only when nobody is left (main.go:60-130).
THEOREM DaemonInvariant == Spec => []IInv
BY DaemonInit, DaemonNext, PTL DEF Spec

\* Every answer of the query service lines up with its request, for every list
\* of addresses that clients send: one record per address in the order asked,
\* under the first spelling, all of them from the publication the answer is
\* stamped with (reputationdb.go:33-61, 132-146, 167-172).
THEOREM AnswersAlwaysLineUp == Spec => []AnswersLineUp
<1>1. IInv => AnswersLineUp
  <2> SUFFICES ASSUME IInv, NEW q \in Queries, reply[q].code = "ok"
               PROVE  /\ reply[q].createdAt \in 1 .. MaxPublications
                      /\ LET g == reply[q].createdAt
                             records == Records(g, ask[q])
                         IN /\ Lines(ask[q], records)
                            /\ \A i \in DOMAIN records :
                                 records[i].categories =
                                   Contents[g][records[i].ipAddress.host]
    BY DEF AnswersLineUp
  <2>1. reply[q].createdAt \in 1 .. MaxPublications
    <3>1. /\ reply[q].createdAt \in 0 .. MaxPublications /\ reply[q].createdAt # 0
          /\ MaxPublications \in Nat
      BY QueryAssumption DEF QueryAssumption, IInv, QueryInv, QueryTypeOK
    <3> QED BY <3>1
  <2>2. ask[q] \in Seq(Spellings)
    BY QueryAssumption, EmptySeq DEF QueryAssumption, IInv, QueryInv, QueryTypeOK
  <2> QED BY <2>1, <2>2, RecordsLineUp
<1> QED BY <1>1, DaemonInvariant, PTL

\* A daemon that ends with success has answered every request it accepted
\* (main.go:80-95, 128).
THEOREM CleanExitAnswersAll == Spec => DrainLosesNothing
<1>1. IInv /\ [Next]_vars =>
        [main # "gone" /\ exit' = "ok" => \A r \in Requests : ~Active(r)]_vars
  <2> SUFFICES ASSUME IInv, Next, main # "gone", exit' = "ok"
               PROVE  \A r \in Requests : ~Active(r)
    OBVIOUS
  <2>1. exit = "none"
    BY DEF IInv, DrainInv
  <2>2. Return
    BY <2>1 DEF Next, Run, Listen, Route, Metrics, StartFails, Kill, Restart, Interrupt,
                ServeFails, Stopping, Shutdown, Drained, DrainTimesOut, Accept,
                HandleQuery, HandleFree, Refresh, Outside, Die, daemonVars
  <2>3. srv.api = "done" /\ ~failed
    BY <2>2 DEF Return, Waited, Servers, Die
  <2> QED BY <2>3 DEF IInv, DrainInv
<1> QED BY <1>1, DaemonInvariant, PTL DEF Spec, DrainLosesNothing

\* The free service never answers with an asset that was replaced longer than
\* assetCacheTTL ago, in any interleaving of the requests, the build's delete
\* and upload, the clock and restarts (freefetch.go:61-99).
THEOREM FreeStaysFresh == Spec => FreeFresh
<1>1. IInv /\ [Next]_vars =>
        [\A f \in FreeRequests :
           at'[f] = "replied" /\ at[f] # "replied" /\ got'[f] # 0
             => got'[f] >= past[TTL]]_freeVars
  <2> SUFFICES ASSUME IInv, Next, NEW f \in FreeRequests,
                      at'[f] = "replied", at[f] # "replied", got'[f] # 0
               PROVE  got'[f] >= past[TTL]
    BY DEF vars
  <2>1. /\ FreeInv /\ FreeTypeOK /\ TTL \in 1 .. TTL /\ TTL \in Nat
    BY FreeAssumption DEF FreeAssumption, IInv, FreeInv
  <2>2. PICK g \in FreeRequests : FreeStep(g)
    BY DEF Next, Run, Listen, Route, Metrics, StartFails, Return, Kill, Restart, Interrupt,
           ServeFails, Stopping, Shutdown, Drained, DrainTimesOut, Accept, AskFree, GoTo,
           HandleQuery, HandleFree, Refresh, Outside, DeleteAsset, Upload, Tick, Die,
           FreeLost, freeVars, FreeInv, FreeTypeOK, IInv
  <2>3. CASE Lock(g) /\ Fresh
    BY <2>1, <2>3 DEF Lock, Fresh, GoTo, FreeInv, FreeTypeOK
  <2>4. CASE Lock(g) /\ ~Fresh
    BY <2>1, <2>4 DEF Lock, GoTo, FreeTypeOK
  <2>5. CASE StoreAsset(g)
    BY <2>1, <2>5 DEF StoreAsset, GoTo, FreeInv, FreeTypeOK
  <2>6. CASE AssetFails(g)
    BY <2>1, <2>6 DEF AssetFails, GoTo, FreeInv, FreeTypeOK
  <2>7. CASE ListAssets(g) \/ AnswerFree(g)
    BY <2>1, <2>7 DEF ListAssets, AnswerFree, GoTo, FreeTypeOK
  <2> QED BY <2>2, <2>3, <2>4, <2>5, <2>6, <2>7 DEF FreeStep
<1> QED BY <1>1, DaemonInvariant, PTL DEF Spec, FreeFresh
=============================================================================
