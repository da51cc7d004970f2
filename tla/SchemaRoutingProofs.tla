------------------------- MODULE SchemaRoutingProofs -------------------------
(***************************************************************************)
(* For any schema, any topics and any topic lists, and for any failure of  *)
(* any call: every row is in a table its scope declares, a model's topic   *)
(* rows are the rows of its records as long as no call has failed, every   *)
(* row a call adds tells its record, and the three levels implement the    *)
(* book of their topics. The argument is one operator at a time: what      *)
(* Among selects, what rekey lets through, which cells each level's insert *)
(* and delete are for; then one step of the book for each call.            *)
(***************************************************************************)
EXTENDS SchemaRouting, FiniteSetTheorems, SequenceTheorems, TLAPS

----------------------------------------------------------------------------
(* Short sequences.                                                        *)

\* Sequences of one, two and three are tuples.
LEMMA OneLong ==
  ASSUME NEW S, NEW s \in Seq(S), Len(s) = 1
  PROVE  s = <<s[1]>>
  OBVIOUS

LEMMA TwoLong ==
  ASSUME NEW S, NEW s \in Seq(S), Len(s) = 2
  PROVE  s = <<s[1], s[2]>>
  OBVIOUS

LEMMA ThreeLong ==
  ASSUME NEW S, NEW s \in Seq(S), Len(s) = 3
  PROVE  s = <<s[1], s[2], s[3]>>
  OBVIOUS

\* The parts of a triple that paths are cut into.
LEMMA SubSeqsOfTriple ==
  ASSUME NEW a, NEW b, NEW c, NEW s, s = <<a, b, c>>
  PROVE  /\ SubSeq(s, 1, 1) = <<a>> /\ SubSeq(s, 1, 2) = <<a, b>> 
         /\ SubSeq(s, 2, 3) = <<b, c>> /\ SubSeq(s, 3, 3) = <<c>> /\ SubSeq(s, 1, 3) = s
<1> DEFINE S == {a, b, c}
<1>1. s \in Seq(S) /\ s[1] = a /\ s[2] = b /\ s[3] = c /\ Len(s) = 3
  OBVIOUS
<1>2. \A i \in 1..3 : s[i] \in S
  BY <1>1
<1> HIDE DEF S
<1>3. ASSUME NEW m \in 1..3, NEW n \in m..3, NEW t, t = SubSeq(s, m, n)
      PROVE  t \in Seq(S) /\ Len(t) = n - m + 1 /\ \A i \in 1..n-m+1 : t[i] = s[m + i - 1]
  <2>1. m \in Int /\ n \in Int /\ \A i \in m..n : s[i] \in S
    BY <1>2
  <2> QED BY <1>3, <2>1, SubSeqProperties
<1>4. SubSeq(s, 1, 1) = <<a>> /\ SubSeq(s, 3, 3) = <<c>>
  <2>1. \A t : t = SubSeq(s, 1, 1) => t \in Seq(S) /\ Len(t) = 1 /\ t[1] = a 
    BY <1>1, <1>3
  <2>2. \A t : t = SubSeq(s, 3, 3) => t \in Seq(S) /\ Len(t) = 1 /\ t[1] = c
    BY <1>1, <1>3
  <2> QED BY <2>1, <2>2, OneLong
<1>5. SubSeq(s, 1, 2) = <<a, b>> /\ SubSeq(s, 2, 3) = <<b, c>>
  <2>1. \A t : t = SubSeq(s, 1, 2) => t \in Seq(S) /\ Len(t) = 2 /\ t[1] = a /\ t[2] = b
    BY <1>1, <1>3
  <2>2. \A t : t = SubSeq(s, 2, 3) => t \in Seq(S) /\ Len(t) = 2 /\ t[1] = b /\ t[2] = c
    BY <1>1, <1>3
  <2> QED BY <2>1, <2>2, TwoLong
<1>6. SubSeq(s, 1, 3) = s
  <2>1. \A t : t = SubSeq(s, 1, 3) => t \in Seq(S) /\ Len(t) = 3 /\ t[1] = a /\ t[2] = b /\ t[3] = c
    BY <1>1, <1>3
  <2> QED BY <1>1, <2>1, ThreeLong
<1> QED BY <1>4, <1>5, <1>6

\* The joins that paths are put together with.
LEMMA Joins ==
  ASSUME NEW a, NEW b, NEW c
  PROVE  /\ <<>> \o <<a>> = <<a>> /\ <<>> \o <<a, b, c>> = <<a, b, c>>
         /\ <<a>> \o <<b>> = <<a, b>> /\ <<a>> \o <<b, c>> = <<a, b, c>>
         /\ <<a, b>> \o <<c>> = <<a, b, c>>
<1> DEFINE S == {a, b, c}
<1>1. <<>> \in Seq(S) /\ <<a>> \in Seq(S) /\ <<b>> \in Seq(S) /\ <<c>> \in Seq(S)
  OBVIOUS
<1>2. <<a, b>> \in Seq(S) /\ <<b, c>> \in Seq(S) /\ <<a, b, c>> \in Seq(S)
  OBVIOUS
<1> HIDE DEF S
<1>3. ASSUME NEW s \in Seq(S), NEW t \in Seq(S), NEW r, r = s \o t
      PROVE  /\ r \in Seq(S) /\ Len(r) = Len(s) + Len(t)
             /\ \A i \in 1..Len(s) + Len(t) : r[i] = IF i <= Len(s) THEN s[i] ELSE t[i - Len(s)]
  BY <1>3, ConcatProperties
<1>4. <<>> \o <<a>> = <<a>> /\ <<>> \o <<a, b, c>> = <<a, b, c>>
  BY <1>1, <1>2, ConcatEmptySeq
<1>5. <<a>> \o <<b>> = <<a, b>>
  <2>1. \A r : r = <<a>> \o <<b>> => r \in Seq(S) /\ Len(r) = 2 /\ r[1] = a /\ r[2] = b
    BY <1>1, <1>3
  <2> QED BY <2>1, TwoLong
<1>6. <<a>> \o <<b, c>> = <<a, b, c>>
  <2>1. \A r : r = <<a>> \o <<b, c>> => r \in Seq(S) /\ Len(r) = 3 /\ r[1] = a /\ r[2] = b /\ r[3] = c
    BY <1>1, <1>2, <1>3
  <2> QED BY <2>1, ThreeLong
<1>7. <<a, b>> \o <<c>> = <<a, b, c>>
  <2>1. \A r : r = <<a, b>> \o <<c>> => r \in Seq(S) /\ Len(r) = 3 /\ r[1] = a /\ r[2] = b /\ r[3] = c
    BY <1>1, <1>2, <1>3
  <2> QED BY <2>1, ThreeLong
<1> QED BY <1>4, <1>5, <1>6, <1>7

----------------------------------------------------------------------------
(* Selecting from a sequence.                                              *)
Rank(places, i) == Cardinality({j \in places : j <= i})

\* The rank of a place among places: what it ranges over, and that it ascends.
LEMMA RankTyped ==
  ASSUME NEW N \in Nat, NEW places \in SUBSET (1..N)
  PROVE  /\ IsFiniteSet(places) /\ Cardinality(places) \in Nat
         /\ \A i \in places : Rank(places, i) \in 1..Cardinality(places)
         /\ \A i, k \in places : i < k => Rank(places, i) < Rank(places, k)
<1>1. IsFiniteSet(places) /\ Cardinality(places) \in Nat
  <2>1. IsFiniteSet(1..N)
    BY FS_Interval
  <2>2. IsFiniteSet(places)
    BY <2>1, FS_Subset
  <2> QED BY <2>2, FS_CardinalityType
<1>2. ASSUME NEW i \in places PROVE Rank(places, i) \in 1..Cardinality(places)
  <2> DEFINE T == {j \in places : j <= i}
  <2>1. T \in SUBSET places /\ i \in T
    OBVIOUS
  <2> HIDE DEF T
  <2>2. IsFiniteSet(T) /\ Cardinality(T) <= Cardinality(places) /\ Cardinality(T) \in Nat
    BY <1>1, <2>1, FS_Subset, FS_CardinalityType
  <2>3. Cardinality(T) # 0
    BY <2>1, <2>2, FS_EmptySet
  <2>4. Cardinality(T) \in 1..Cardinality(places)
    BY <1>1, <2>2, <2>3
  <2> QED BY <2>4 DEF T, Rank
<1>3. ASSUME NEW i \in places, NEW k \in places, i < k PROVE Rank(places, i) < Rank(places, k)
  <2> DEFINE T == {j \in places : j <= i}
             U == {j \in places : j <= k}
  <2>0. \A j \in places : j \in Int
    OBVIOUS
  <2>1. k \in U /\ k \notin T
    BY <1>3, <2>0
  <2>5. T \in SUBSET U /\ U \in SUBSET places
    <3>1. \A j \in places : j <= i => j <= k
      BY <1>3, <2>0
    <3> QED BY <3>1
  <2> HIDE DEF T, U
  <2>2. IsFiniteSet(U)
    BY <1>1, <2>5, FS_Subset
  <2>3. IsFiniteSet(T) /\ Cardinality(T) \in Nat /\ Cardinality(U) \in Nat
        /\ Cardinality(T) <= Cardinality(U) /\ (Cardinality(T) = Cardinality(U) => T = U)
    BY <2>2, <2>5, FS_Subset, FS_CardinalityType
  <2>4. Cardinality(T) < Cardinality(U)
    BY <2>1, <2>3
  <2> QED BY <2>4 DEF T, U, Rank
<1> QED BY <1>1, <1>2, <1>3

\* No two places have one rank.
LEMMA RankOnce ==
  ASSUME NEW N \in Nat, NEW places \in SUBSET (1..N), NEW i \in places, NEW k \in places,
         Rank(places, i) = Rank(places, k)
  PROVE  i = k
<1>1. i \in Int /\ k \in Int
  OBVIOUS
<1>3. Rank(places, i) \in Int
  <2>1. Rank(places, i) \in 1..Cardinality(places)
    BY RankTyped
  <2> QED BY <2>1
<1>2. \A m, n \in places : m < n => Rank(places, m) < Rank(places, n)
  BY RankTyped
<1> QED BY <1>1, <1>2, <1>3

\* Every number up to how many places there are is the rank of one.
LEMMA RankOnto ==
  ASSUME NEW N \in Nat, NEW places \in SUBSET (1..N), NEW n \in 1..Cardinality(places)
  PROVE  \E i \in places : Rank(places, i) = n
<1> DEFINE C == Cardinality(places)
           f == [i \in places |-> Rank(places, i)]
<1>1. IsFiniteSet(places) /\ C \in Nat /\ \A i \in places : i \in Int /\ f[i] \in 1..C
  BY RankTyped
<1>2. ASSUME NEW i \in places, NEW k \in places, f[i] = f[k] PROVE i = k
  <2>1. Rank(places, i) = Rank(places, k)
    BY <1>2
  <2> QED BY <2>1, RankOnce
<1>3. f \in Injection(places, 1..C)
  BY <1>1, <1>2 DEF Injection, IsInjective
<1> DEFINE T == {f[i] : i \in places}
<1>4. f \in Bijection(places, T)
  BY <1>2 DEF Bijection, Injection, Surjection, IsInjective
<1> HIDE DEF f
<1>5. ExistsBijection(places, T)
  BY <1>4 DEF ExistsBijection
<1>6. T \in SUBSET (1..C)
  BY <1>1
<1> HIDE DEF T
<1>7. IsFiniteSet(T) /\ Cardinality(T) = C
  BY <1>1, <1>5, FS_Bijection
<1>8. IsFiniteSet(1..C) /\ Cardinality(1..C) = C
  BY <1>1, FS_Interval
<1>9. T = 1..C
  BY <1>6, <1>7, <1>8, FS_Subset
<1> QED BY <1>9 DEF T, f

\* What Among selects, and that it is a sequence of it.
LEMMA AmongIs ==
  ASSUME NEW A, NEW s \in Seq(A), NEW S
  PROVE  /\ Among(s, S) \in Seq(A \cap S)
         /\ Range(Among(s, S)) = Range(s) \cap S
<1> DEFINE places == {i \in DOMAIN s : s[i] \in S}
           nth(n) == CHOOSE i \in places : Cardinality({j \in places : j <= i}) = n
           C == Cardinality(places)
           r == Among(s, S)
<1>1. Len(s) \in Nat /\ DOMAIN s = 1..Len(s) /\ \A i \in DOMAIN s : s[i] \in A
  OBVIOUS
<1>2. places \in SUBSET (1..Len(s))
  BY <1>1
<1>3. ASSUME NEW n \in 1..C PROVE nth(n) \in places /\ Rank(places, nth(n)) = n
  <2>1. \E i \in places : Rank(places, i) = n
    <3> HIDE DEF places
    <3> QED BY <1>1, <1>2, RankOnto
  <2> HIDE DEF places
  <2> QED BY <2>1 DEF Rank
<1>4. r = [n \in 1..C |-> s[nth(n)]]
  BY DEF Among
<1> HIDE DEF r, nth
<1>5. C \in Nat /\ \A i \in places : Rank(places, i) \in 1..C
  <2> HIDE DEF places
  <2> QED BY <1>1, <1>2, RankTyped
<1>6. r \in Seq(A \cap S)
  <2>1. \A n \in 1..C : s[nth(n)] \in A \cap S
    BY <1>1, <1>3
  <2> HIDE DEF places
  <2> QED BY <1>4, <1>5, <2>1
<1>7. ASSUME NEW x \in Range(s) \cap S PROVE \E n \in DOMAIN r : r[n] = x
  <2>1. PICK i \in places : s[i] = x
    BY DEF Range
  <2>2. Rank(places, i) \in 1..C
    BY <1>5
  <2>3. PICK n \in 1..C : n = Rank(places, i)
    BY <2>2
  <2>4. nth(n) \in places /\ Rank(places, nth(n)) = Rank(places, i)
    BY <1>3, <2>3
  <2>5. nth(n) = i
    <3>0. places \in SUBSET (1..Len(s)) /\ i \in places /\ nth(n) \in places
      BY <1>2, <2>4
    <3> HIDE DEF places, nth
    <3> QED BY <1>1, <2>4, <3>0, RankOnce
  <2>6. n \in DOMAIN r /\ r[n] = x
    <3> HIDE DEF places
    <3> QED BY <1>4, <2>1, <2>3, <2>5
  <2> QED BY <2>6
<1>8. Range(r) \subseteq Range(s) \cap S
  <2>1. ASSUME NEW n \in 1..C PROVE r[n] \in Range(s) \cap S
    <3>1. nth(n) \in DOMAIN s /\ s[nth(n)] \in S
      BY <1>3
    <3>2. r[n] = s[nth(n)]
      BY <1>4
    <3> QED BY <3>1, <3>2 DEF Range
  <2>2. DOMAIN r = 1..C
    BY <1>4
  <2> HIDE DEF places
  <2> QED BY <2>1, <2>2 DEF Range
<1> QED BY <1>6, <1>7, <1>8 DEF Range, r

\* A nonempty set of places has a last one.
LEMMA LastPlace ==
  ASSUME NEW N \in Nat, NEW places \in SUBSET (1..N), places # {}
  PROVE  \E i \in places : \A k \in places : k <= i
<1> DEFINE C == Cardinality(places)
<1>1. IsFiniteSet(places) /\ C \in Nat /\ \A i \in places : Rank(places, i) \in 1..C
  BY RankTyped
<1>2. \A i, k \in places : i < k => Rank(places, i) < Rank(places, k)
  BY RankTyped
<1>3. C \in 1..C
  <2>1. PICK i \in places : TRUE
    OBVIOUS
  <2>2. Rank(places, i) \in 1..C
    BY <1>1
  <2> QED BY <1>1, <2>2
<1>4. PICK i \in places : Rank(places, i) = C
  BY <1>3, RankOnto
<1>5. ASSUME NEW k \in places PROVE k <= i
  <2>1. Rank(places, k) <= C /\ Rank(places, k) \in Int
    BY <1>1
  <2>2. ~(i < k)
    BY <1>1, <1>2, <1>4, <2>1
  <2>3. i \in Int /\ k \in Int
    OBVIOUS
  <2> QED BY <2>2, <2>3
<1> QED BY <1>5

----------------------------------------------------------------------------
(* A call's writes.                                                        *)

\* The cells a list of writes is for.
Ats(writes) == {writes[n].at : n \in DOMAIN writes}

\* A store with v in some cells.
Overlay(store, cells, v) == [c \in DOMAIN store \cup cells |-> IF c \in cells THEN v ELSE store[c]]

\* Writes of one content are an overlay of their cells, whatever their order.
LEMMA WrittenIs ==
  ASSUME NEW C, NEW v, NEW writes \in Seq([at : C, val : {v}]), NEW store
  PROVE  Ats(writes) \in SUBSET C /\ Written(store, writes) = Overlay(store, Ats(writes), v)
<1> DEFINE last(c) == CHOOSE n \in DOMAIN writes :
                        writes[n].at = c /\ \A m \in DOMAIN writes : writes[m].at = c => m <= n
           cells == {writes[n].at : n \in DOMAIN writes}
<1>1. /\ Len(writes) \in Nat /\ DOMAIN writes = 1..Len(writes)
      /\ \A n \in DOMAIN writes : writes[n].at \in C /\ writes[n].val = v
  <2>1. Len(writes) \in Nat /\ DOMAIN writes = 1..Len(writes)
    OBVIOUS
  <2>2. ASSUME NEW n \in DOMAIN writes PROVE writes[n] \in [at : C, val : {v}]
    BY <2>1, ElementOfSeq
  <2>3. ASSUME NEW w \in [at : C, val : {v}] PROVE w.at \in C /\ w.val = v
    <3>1. w.val \in {v}
      OBVIOUS
    <3>2. w.at \in C
      OBVIOUS
    <3> QED BY <3>1, <3>2
  <2> QED BY <2>1, <2>2, <2>3
<1>2. ASSUME NEW c \in cells PROVE last(c) \in DOMAIN writes
  <2> DEFINE places == {n \in DOMAIN writes : writes[n].at = c}
  <2>1. places \in SUBSET (1..Len(writes)) /\ places # {}
    BY <1>1
  <2>2. \E n \in places : \A m \in places : m <= n
    <3> HIDE DEF places
    <3> QED BY <1>1, <2>1, LastPlace
  <2>3. \E n \in DOMAIN writes :
           writes[n].at = c /\ \A m \in DOMAIN writes : writes[m].at = c => m <= n
    BY <2>2
  <2> QED BY <2>3
<1>3. Written(store, writes) =
        [c \in DOMAIN store \cup cells |-> IF c \in cells THEN writes[last(c)].val ELSE store[c]]
  BY DEF Written
<1> HIDE DEF last
<1>4. \A c \in cells : writes[last(c)].val = v
  BY <1>1, <1>2
<1>5. cells = Ats(writes) /\ cells \in SUBSET C
  BY <1>1 DEF Ats
<1> HIDE DEF cells
<1> QED BY <1>3, <1>4, <1>5 DEF Overlay

\* The first writes of a list.
LEMMA FirstWrites ==
  ASSUME NEW W, NEW writes \in Seq(W), NEW n \in 0..Len(writes)
  PROVE  SubSeq(writes, 1, n) \in Seq(W) /\ Ats(SubSeq(writes, 1, n)) \in SUBSET Ats(writes)
<1> DEFINE r == SubSeq(writes, 1, n)
<1>1. Len(writes) \in Nat /\ DOMAIN writes = 1..Len(writes)
      /\ \A i \in 1..n : writes[i] \in W /\ i \in 1..Len(writes)
  OBVIOUS
<1>2. r \in Seq(W) /\ Len(r) = n /\ \A i \in 1..n : r[i] = writes[i]
  <2>1. /\ r \in Seq(W) /\ Len(r) = IF 1 <= n THEN n - 1 + 1 ELSE 0
        /\ \A i \in 1..n-1+1 : r[i] = writes[1 + i - 1]
    BY <1>1, SubSeqProperties
  <2> QED BY <2>1
<1> HIDE DEF r
<1>3. DOMAIN r = 1..n
  BY <1>1, <1>2
<1>4. Ats(r) \in SUBSET Ats(writes)
  BY <1>1, <1>2, <1>3 DEF Ats
<1> QED BY <1>2, <1>4 DEF r

\* What a call that writes v into cells leaves, whether it succeeds or fails.
Fills(cells, v) ==
  /\ tx = "write" /\ UNCHANGED <<tx, base>>
  /\ \/ work' = Overlay(work, cells, v) /\ ret' = "ok" /\ UNCHANGED failed
     \/ /\ \E part \in SUBSET cells : work' = Overlay(work, part, v)
        /\ ret' = "failed" /\ failed' = TRUE

\* An insert whose writes all tell one content fills their cells, or some of them.
LEMMA InsertFills ==
  ASSUME NEW C, NEW v, NEW writes \in Seq([at : C, val : {v}]), insert(writes)
  PROVE  Fills(Ats(writes), v)
<1>1. CASE work' = Written(work, writes) /\ ret' = "ok" /\ UNCHANGED failed
  BY <1>1, WrittenIs DEF insert, Fills
<1>2. ASSUME NEW n \in 0..Len(writes), work' = Written(work, SubSeq(writes, 1, n)),
             ret' = "failed", failed' = TRUE
      PROVE  \E part \in SUBSET Ats(writes) : work' = Overlay(work, part, v)
  <2>1. SubSeq(writes, 1, n) \in Seq([at : C, val : {v}])
        /\ Ats(SubSeq(writes, 1, n)) \in SUBSET Ats(writes)
    BY FirstWrites
  <2>2. work' = Overlay(work, Ats(SubSeq(writes, 1, n)), v)
    BY <1>2, <2>1, WrittenIs
  <2> QED BY <2>1, <2>2
<1> QED BY <1>1, <1>2 DEF insert, Fills

----------------------------------------------------------------------------
(* The topics each level hears of.                                         *)

\* A child hears of the topics whose path starts at the child, without that start.
LEMMA RekeyIs ==
  ASSUME NEW S, NEW topics \in Seq(S), NEW child
  PROVE  /\ rekey(topics, child) \in Seq(Range(rekey(topics, child)))
         /\ Range(rekey(topics, child)) =
              {Tail(q) : q \in {p \in Range(topics) : Len(p) > 1 /\ p[1] = child}}
<1> DEFINE A == {q \in Range(topics) : Len(q) > 1 /\ q[1] = child}
           mine == Among(topics, A)
           r == rekey(topics, child)
<1>1. mine \in Seq(S \cap A) /\ Range(mine) = A
  <2>1. A \subseteq Range(topics)
    OBVIOUS
  <2> HIDE DEF A
  <2> QED BY <2>1, AmongIs
<1>2. r = [i \in DOMAIN mine |-> Tail(mine[i])]
  BY DEF rekey
<1> HIDE DEF r, mine
<1>3. Range(r) = {Tail(q) : q \in A}
  <2>1. Range(r) = {Tail(mine[i]) : i \in DOMAIN mine}
    BY <1>2 DEF Range
  <2>2. A = {mine[i] : i \in DOMAIN mine}
    BY <1>1 DEF Range
  <2> HIDE DEF A
  <2> QED BY <2>1, <2>2, Zenon
<1>4. r \in Seq(Range(r))
  <2>1. Len(mine) \in Nat /\ DOMAIN mine = 1..Len(mine)
    <3> HIDE DEF A
    <3> QED BY <1>1
  <2>2. r = [i \in 1..Len(mine) |-> r[i]] /\ \A i \in 1..Len(mine) : r[i] \in Range(r)
    BY <1>2, <2>1 DEF Range
  <2> QED BY <2>1, <2>2
<1> QED BY <1>3, <1>4 DEF r

\* What callers ask for: topics the schema declares, by their paths.
LEMMA AskedForms ==
  ASSUME NEW topics \in TopicLists
  PROVE  /\ topics \in Seq(Range(topics))
         /\ \A q \in Range(topics) :
              \/ \E t \in Range(RepoTopics) : q = <<t>>
              \/ \E d \in Definitions : \E t \in Range(DefTopics[d]) : q = <<d, t>>
              \/ \E d \in Definitions : \E m \in ModelsOf[d] :
                   \E t \in Range(ModelTopics[m]) : q = <<d, m, t>>
<1> DEFINE P == {<<t>> : t \in Range(RepoTopics)} \cup
                UNION {{<<d, t>> : t \in Range(DefTopics[d])} \cup
                       UNION {{<<d, m, t>> : t \in Range(ModelTopics[m])} : m \in ModelsOf[d]}
                       : d \in Definitions}
<1>1. topics \in Seq(P)
  BY TopicAssumption
<1>2. \A q \in P :
        \/ \E t \in Range(RepoTopics) : q = <<t>>
        \/ \E d \in Definitions : \E t \in Range(DefTopics[d]) : q = <<d, t>>
        \/ \E d \in Definitions : \E m \in ModelsOf[d] :
             \E t \in Range(ModelTopics[m]) : q = <<d, m, t>>
  <2>1. ASSUME NEW d, NEW q \in {<<d, t>> : t \in Range(DefTopics[d])} \cup
                 UNION {{<<d, m, t>> : t \in Range(ModelTopics[m])} : m \in ModelsOf[d]}
        PROVE  \/ \E t \in Range(DefTopics[d]) : q = <<d, t>>
               \/ \E m \in ModelsOf[d] : \E t \in Range(ModelTopics[m]) : q = <<d, m, t>>
    <3>1. CASE q \in UNION {{<<d, m, t>> : t \in Range(ModelTopics[m])} : m \in ModelsOf[d]}
      <4>1. PICK m \in ModelsOf[d] : q \in {<<d, m, t>> : t \in Range(ModelTopics[m])}
        BY <3>1, Zenon
      <4> QED BY <4>1
    <3> QED BY <2>1, <3>1
  <2>2. ASSUME NEW q \in P, q \notin {<<t>> : t \in Range(RepoTopics)}
        PROVE  \E d \in Definitions :
                 q \in {<<d, t>> : t \in Range(DefTopics[d])} \cup
                       UNION {{<<d, m, t>> : t \in Range(ModelTopics[m])} : m \in ModelsOf[d]}
    BY <2>2, Zenon
  <2>3. \A q \in {<<t>> : t \in Range(RepoTopics)} : \E t \in Range(RepoTopics) : q = <<t>>
    OBVIOUS
  <2> HIDE DEF P
  <2> QED BY <2>1, <2>2, <2>3
<1> HIDE DEF P
<1>3. Len(topics) \in Nat /\ DOMAIN topics = 1..Len(topics) /\ \A n \in DOMAIN topics : topics[n] \in P
  BY <1>1, LenProperties, ElementOfSeq
<1>4. topics \in Seq(Range(topics))
  <2>1. \A n \in 1..Len(topics) : topics[n] \in Range(topics)
    BY <1>3 DEF Range
  <2>2. topics = [n \in 1..Len(topics) |-> topics[n]]
    BY <1>1, <1>3
  <2> QED BY <1>3, <2>1, <2>2
<1>5. Range(topics) \subseteq P
  BY <1>3 DEF Range
<1> QED BY <1>2, <1>4, <1>5

\* The lengths, heads and tails of the paths.
LEMMA ShortPaths ==
  ASSUME NEW a, NEW b, NEW c
  PROVE  /\ Len(<<a>>) = 1 /\ Len(<<a, b>>) = 2 /\ Len(<<a, b, c>>) = 3
         /\ <<a, b>>[1] = a /\ <<a, b, c>>[1] = a
         /\ Tail(<<a, b>>) = <<b>> /\ Tail(<<a, b, c>>) = <<b, c>>
  OBVIOUS

\* A definition hears of its own topics that were asked for by path.
LEMMA DefinitionHears ==
  ASSUME NEW topics \in TopicLists, NEW d \in Definitions
  PROVE  /\ rekey(topics, d) \in Seq(Range(rekey(topics, d)))
         /\ \A t : <<t>> \in Range(rekey(topics, d)) <=> <<d, t>> \in Range(topics)
         /\ \A p \in Range(rekey(topics, d)) :
              \/ \E t \in Range(DefTopics[d]) : p = <<t>>
              \/ \E m \in ModelsOf[d] : \E t \in Range(ModelTopics[m]) :
                   p = <<m, t>> /\ <<d, m, t>> \in Range(topics)
         /\ \A m \in ModelsOf[d] : \A t :
              <<m, t>> \in Range(rekey(topics, d)) <=> <<d, m, t>> \in Range(topics)
<1> DEFINE R == Range(rekey(topics, d))
           T == Range(topics)
<1>1. rekey(topics, d) \in Seq(R) /\ R = {Tail(q) : q \in {p \in T : Len(p) > 1 /\ p[1] = d}}
  BY AskedForms, RekeyIs
<1>2. \A q \in T :
        \/ \E t \in Range(RepoTopics) : q = <<t>>
        \/ \E e \in Definitions : \E t \in Range(DefTopics[e]) : q = <<e, t>>
        \/ \E e \in Definitions : \E m \in ModelsOf[e] :
             \E t \in Range(ModelTopics[m]) : q = <<e, m, t>>
  BY AskedForms
<1> HIDE DEF R, T
<1>3. ASSUME NEW p \in R
      PROVE  \/ \E t \in Range(DefTopics[d]) : p = <<t>> /\ <<d, t>> \in T
             \/ \E m \in ModelsOf[d] : \E t \in Range(ModelTopics[m]) :
                  p = <<m, t>> /\ <<d, m, t>> \in T
  <2>1. PICK q \in T : p = Tail(q) /\ Len(q) > 1 /\ q[1] = d
    BY <1>1
  <2>2. CASE \E t \in Range(RepoTopics) : q = <<t>>
    BY <2>1, <2>2, ShortPaths
  <2>3. ASSUME NEW e \in Definitions, NEW t \in Range(DefTopics[e]), q = <<e, t>>
        PROVE  t \in Range(DefTopics[d]) /\ p = <<t>> /\ <<d, t>> \in T
    BY <2>1, <2>3, ShortPaths
  <2>4. ASSUME NEW e \in Definitions, NEW m \in ModelsOf[e], NEW t \in Range(ModelTopics[m]), q = <<e, m, t>>
        PROVE  m \in ModelsOf[d] /\ p = <<m, t>> /\ <<d, m, t>> \in T
    BY <2>1, <2>4, ShortPaths
  <2>5. CASE \E e \in Definitions : \E t \in Range(DefTopics[e]) : q = <<e, t>>
    BY <2>3, <2>5
  <2>6. CASE \E e \in Definitions : \E m \in ModelsOf[e] :
               \E t \in Range(ModelTopics[m]) : q = <<e, m, t>>
    <3>1. PICK e \in Definitions : \E m \in ModelsOf[e] :
               \E t \in Range(ModelTopics[m]) : q = <<e, m, t>>
      BY <2>6
    <3>2. PICK m \in ModelsOf[e] : \E t \in Range(ModelTopics[m]) : q = <<e, m, t>>
      BY <3>1
    <3>3. PICK t \in Range(ModelTopics[m]) : q = <<e, m, t>>
      BY <3>2
    <3> QED BY <2>4, <3>3
  <2> QED BY <1>2, <2>2, <2>5, <2>6, Zenon
<1>4. ASSUME NEW t, <<d, t>> \in T PROVE <<t>> \in R
  <2>1. Len(<<d, t>>) > 1 /\ <<d, t>>[1] = d /\ Tail(<<d, t>>) = <<t>>
    BY ShortPaths
  <2> QED BY <1>1, <1>4, <2>1
<1>5. ASSUME NEW m, NEW t, <<d, m, t>> \in T PROVE <<m, t>> \in R
  <2>1. Len(<<d, m, t>>) > 1 /\ <<d, m, t>>[1] = d /\ Tail(<<d, m, t>>) = <<m, t>>
    BY ShortPaths
  <2> QED BY <1>1, <1>5, <2>1
<1>6. ASSUME NEW t, <<t>> \in R PROVE <<d, t>> \in T
  <2>1. \A s, m : <<t>> # <<m, s>> /\ (<<t>> = <<s>> => t = s)
    OBVIOUS
  <2> QED BY <1>3, <1>6, <2>1
<1>7. ASSUME NEW m, NEW t, <<m, t>> \in R PROVE <<d, m, t>> \in T
  <2>1. \A s, n : <<m, t>> # <<s>> /\ (<<m, t>> = <<n, s>> => m = n /\ t = s)
    OBVIOUS
  <2> QED BY <1>3, <1>7, <2>1
<1> QED BY <1>1, <1>3, <1>4, <1>5, <1>6, <1>7 DEF R, T

\* So does a model.
LEMMA ModelHears ==
  ASSUME NEW topics \in TopicLists, NEW d \in Definitions, NEW m \in ModelsOf[d]
  PROVE  LET heard == rekey(rekey(topics, d), m)
         IN  /\ heard \in Seq(Range(heard))
             /\ \A p \in Range(heard) : \E t \in Range(ModelTopics[m]) : p = <<t>>
             /\ \A t : <<t>> \in Range(heard) <=> <<d, m, t>> \in Range(topics)
<1> DEFINE heard == rekey(rekey(topics, d), m)
           H == Range(heard)
           R == Range(rekey(topics, d))
<1>1. rekey(topics, d) \in Seq(R)
  BY DefinitionHears
<1>2. heard \in Seq(H) /\ H = {Tail(q) : q \in {p \in R : Len(p) > 1 /\ p[1] = m}}
  BY <1>1, RekeyIs
<1>3. \A p \in R : \/ \E t \in Range(DefTopics[d]) : p = <<t>>
                   \/ \E n \in ModelsOf[d] : \E t \in Range(ModelTopics[n]) :
                        p = <<n, t>> /\ <<d, n, t>> \in Range(topics)
  BY DefinitionHears
<1>4. \A t : <<m, t>> \in R <=> <<d, m, t>> \in Range(topics)
  BY DefinitionHears
<1> HIDE DEF R, H
<1>5. ASSUME NEW p \in H
      PROVE  \E t \in Range(ModelTopics[m]) : p = <<t>> /\ <<d, m, t>> \in Range(topics)
  <2>1. PICK q \in R : p = Tail(q) /\ Len(q) > 1 /\ q[1] = m
    BY <1>2
  <2>2. CASE \E t \in Range(DefTopics[d]) : q = <<t>>
    BY <2>1, <2>2, ShortPaths
  <2>3. ASSUME NEW n \in ModelsOf[d], NEW t \in Range(ModelTopics[n]), q = <<n, t>>
        PROVE  n = m /\ p = <<t>>
    BY <2>1, <2>3, ShortPaths
  <2> QED BY <1>3, <2>1, <2>2, <2>3
<1>6. ASSUME NEW t, <<m, t>> \in R PROVE <<t>> \in H
  <2>1. Len(<<m, t>>) > 1 /\ <<m, t>>[1] = m /\ Tail(<<m, t>>) = <<t>>
    BY ShortPaths
  <2> QED BY <1>2, <1>6, <2>1
<1>7. ASSUME NEW t, <<t>> \in H PROVE <<d, m, t>> \in Range(topics)
  <2>1. \A s : <<t>> = <<s>> => t = s
    OBVIOUS
  <2> QED BY <1>5, <1>7, <2>1
<1>8. \A p \in H : \E t \in Range(ModelTopics[m]) : p = <<t>>
  BY <1>5
<1>9. \A t : <<t>> \in H <=> <<d, m, t>> \in Range(topics)
  BY <1>4, <1>6, <1>7
<1> QED BY <1>2, <1>8, <1>9 DEF H

----------------------------------------------------------------------------
(* The rows an insert writes.                                              *)

RecordAt(i) == <<<<i.def, i.model>>, Primary, <<i.id>>>>
RepoCell(i, t) == <<<<>>, t, repo_primary_key(i)>>
DefCell(i, t) == <<<<i.def>>, t, def_primary_key(i)>>
ModelCell(i, t) == <<<<i.def, i.model>>, t, <<i.id>>>>

\* The cells that tell of a value.
CellsOf(i) ==
  {RepoCell(i, t) : t \in Range(RepoTopics)}
    \cup {DefCell(i, t) : t \in Range(DefTopics[i.def])}
    \cup {ModelCell(i, t) : t \in Range(ModelTopics[i.model]) \cup {Primary}}

\* The cells asked for at each level.
AskedRepo(i, topics) == {RepoCell(i, t) : t \in {u \in Range(RepoTopics) : <<u>> \in Range(topics)}}
AskedDef(i, topics) ==
  {DefCell(i, t) : t \in {u \in Range(DefTopics[i.def]) : <<i.def, u>> \in Range(topics)}}
AskedModel(i, topics) ==
  {ModelCell(i, t) : t \in {u \in Range(ModelTopics[i.model]) :
                              <<i.def, i.model, u>> \in Range(topics)}}

WritesOf(i) == [at : CellsOf(i), val : {i.content}]

\* One write.
LEMMA PutTyped ==
  ASSUME NEW scope, NEW topic, NEW key, NEW v, NEW C, <<scope, topic, key>> \in C
  PROVE  /\ put(scope, topic, key, v) \in [at : C, val : {v}]
         /\ put(scope, topic, key, v).at = <<scope, topic, key>>
  BY DEF put

\* The writes of a level followed by those of the level below.
LEMMA JoinedWrites ==
  ASSUME NEW W, NEW s \in Seq(W), NEW t \in Seq(W)
  PROVE  s \o t \in Seq(W) /\ Ats(s \o t) = Ats(s) \cup Ats(t)
<1> DEFINE r == s \o t
<1>1. /\ r \in Seq(W) /\ Len(r) = Len(s) + Len(t)
      /\ \A i \in 1..Len(s) + Len(t) : r[i] = IF i <= Len(s) THEN s[i] ELSE t[i - Len(s)]
  BY ConcatProperties
<1>2. /\ Len(s) \in Nat /\ Len(t) \in Nat /\ DOMAIN s = 1..Len(s) /\ DOMAIN t = 1..Len(t)
      /\ DOMAIN r = 1..Len(s) + Len(t)
  <2>1. DOMAIN r = 1..Len(r)
    BY <1>1, LenProperties
  <2> HIDE DEF r
  <2> QED BY <1>1, <2>1, LenProperties
<1> HIDE DEF r
<1>3. \A i \in DOMAIN r : r[i].at \in Ats(s) \cup Ats(t)
  <2>1. ASSUME NEW i \in DOMAIN r, i <= Len(s) PROVE r[i].at \in Ats(s)
    <3>1. i \in DOMAIN s /\ r[i] = s[i]
      BY <1>1, <1>2, <2>1
    <3> QED BY <3>1 DEF Ats
  <2>2. ASSUME NEW i \in DOMAIN r, ~(i <= Len(s)) PROVE r[i].at \in Ats(t)
    <3>1. i - Len(s) \in DOMAIN t /\ r[i] = t[i - Len(s)]
      BY <1>1, <1>2, <2>2
    <3> QED BY <3>1 DEF Ats
  <2> QED BY <2>1, <2>2
<1>4. \A i \in DOMAIN s : s[i].at \in Ats(r)
  <2>1. ASSUME NEW i \in DOMAIN s PROVE i \in DOMAIN r /\ r[i] = s[i]
    BY <1>1, <1>2
  <2> QED BY <2>1 DEF Ats
<1>5. \A i \in DOMAIN t : t[i].at \in Ats(r)
  <2>1. ASSUME NEW i \in DOMAIN t PROVE i + Len(s) \in DOMAIN r /\ r[i + Len(s)] = t[i]
    <3>1. i + Len(s) \in 1..Len(s) + Len(t) /\ ~(i + Len(s) <= Len(s)) /\ (i + Len(s)) - Len(s) = i
      BY <1>2
    <3> QED BY <1>1, <1>2, <3>1
  <2> QED BY <2>1 DEF Ats
<1>6. Ats(r) \subseteq Ats(s) \cup Ats(t)
  BY <1>3 DEF Ats
<1>7. Ats(s) \subseteq Ats(r) /\ Ats(t) \subseteq Ats(r)
  BY <1>4, <1>5 DEF Ats
<1> QED BY <1>1, <1>6, <1>7 DEF r

\* The cells of a scope's topics that were asked for.
OwnCells(scope, declared, key, topics) ==
  {<<scope, t, key>> : t \in {u \in Range(declared) : <<u>> \in Range(topics)}}

\* A level's own rows: one for each of its topics that was asked for.
LEMMA OwnRows ==
  ASSUME NEW scope, NEW declared, declared \in Seq(Range(declared)), NEW key, NEW v, NEW topics, NEW C,
         \A t \in Range(declared) : <<scope, t, key>> \in C
  PROVE  LET writes == own_sub_writes(scope, declared, key, v, topics)
         IN  /\ writes \in Seq([at : C, val : {v}])
             /\ Ats(writes) = OwnCells(scope, declared, key, topics)
<1> DEFINE A == {t \in Range(declared) : <<t>> \in Range(topics)}
           asked == Among(declared, A)
           W == [at : C, val : {v}]
           writes == own_sub_writes(scope, declared, key, v, topics)
<1>1. asked \in Seq(Range(declared) \cap A) /\ Range(asked) = A
  <2>1. A \subseteq Range(declared)
    OBVIOUS
  <2> HIDE DEF A
  <2>2. asked \in Seq(Range(declared) \cap A) /\ Range(asked) = Range(declared) \cap A
    BY AmongIs, Zenon
  <2> QED BY <2>1, <2>2
<1>2. writes = [n \in DOMAIN asked |-> put(scope, asked[n], key, v)]
  BY DEF own_sub_writes
<1> HIDE DEF writes, asked
<1>3. Len(asked) \in Nat /\ DOMAIN asked = 1..Len(asked)
  <2> HIDE DEF A
  <2> QED BY <1>1
<1>4. \A n \in DOMAIN asked : asked[n] \in Range(declared) /\ <<scope, asked[n], key>> \in C
  BY <1>1 DEF Range
<1>5. \A n \in DOMAIN writes :
        writes[n] \in W /\ writes[n].at = <<scope, asked[n], key>>
  <2>1. \A t : <<scope, t, key>> \in C =>
          put(scope, t, key, v) \in W /\ put(scope, t, key, v).at = <<scope, t, key>>
    BY PutTyped
  <2> HIDE DEF W
  <2> QED BY <1>2, <1>4, <2>1
<1> HIDE DEF W, A
<1>6. writes \in Seq(W)
  BY <1>2, <1>3, <1>5
<1>7. Ats(writes) = {<<scope, t, key>> : t \in A}
  <2>1. DOMAIN writes = DOMAIN asked /\ A = {asked[n] : n \in DOMAIN asked}
    BY <1>1, <1>2 DEF Range
  <2> QED BY <1>5, <2>1 DEF Ats
<1> QED BY <1>6, <1>7 DEF A, W, writes, OwnCells

\* Facts about a value.
LEMMA ItemFacts ==
  ASSUME NEW i \in Items
  PROVE  /\ i.def \in Definitions /\ i.model \in ModelsOf[i.def] /\ i.content \in Contents
         /\ RepoTopics \in Seq(Range(RepoTopics))
         /\ DefTopics[i.def] \in Seq(Range(DefTopics[i.def]))
<1>1. i.def \in Definitions /\ i.model \in ModelsOf[i.def] /\ i.content \in Contents
  BY DEF Items
<1>2. RepoTopics \in Seq(Range(RepoTopics)) /\ DefTopics[i.def] \in Seq(Range(DefTopics[i.def]))
  BY <1>1, TopicAssumption
<1> QED BY <1>1, <1>2

\* What an insert at a model writes: the record and the model's topics asked for.
LEMMA ModelRows ==
  ASSUME NEW i \in Items, NEW topics \in TopicLists
  PROVE  LET writes == model_insert(i, rekey(rekey(topics, i.def), i.model))
         IN  /\ writes \in Seq(WritesOf(i))
             /\ Ats(writes) = {RecordAt(i)} \cup AskedModel(i, topics)
<1> DEFINE heard == rekey(rekey(topics, i.def), i.model)
           scope == <<i.def, i.model>>
           row(n) == put(scope, heard[n][1], <<i.id>>, i.content)
           first == <<put(scope, Primary, <<i.id>>, i.content)>>
           rest == [n \in DOMAIN heard |-> row(n)]
           C == CellsOf(i)
           W == [at : C, val : {i.content}]
           H == Range(heard)
<1>1. i.def \in Definitions /\ i.model \in ModelsOf[i.def]
  BY ItemFacts
<1>2. /\ heard \in Seq(H)
      /\ \A p \in H : \E t \in Range(ModelTopics[i.model]) : p = <<t>>
      /\ \A t : <<t>> \in H <=> <<i.def, i.model, t>> \in Range(topics)
  BY <1>1, ModelHears
<1>3. W = WritesOf(i)
  BY DEF WritesOf
<1>4. RecordAt(i) \in C /\ \A t \in Range(ModelTopics[i.model]) : <<scope, t, <<i.id>>>> \in C
  BY DEF CellsOf, RecordAt, ModelCell
<1>5. \A t : <<scope, t, <<i.id>>>> \in C =>
        /\ put(scope, t, <<i.id>>, i.content) \in W
        /\ put(scope, t, <<i.id>>, i.content).at = <<scope, t, <<i.id>>>>
  BY PutTyped
<1>6. model_insert(i, heard) = first \o rest
  BY DEF model_insert
<1>7. first \in Seq(W) /\ Ats(first) = {RecordAt(i)}
  <2>1. put(scope, Primary, <<i.id>>, i.content) \in W
        /\ put(scope, Primary, <<i.id>>, i.content).at = RecordAt(i)
    BY <1>4, <1>5 DEF RecordAt
  <2> DEFINE w == put(scope, Primary, <<i.id>>, i.content)
  <2> HIDE DEF w, W
  <2>2. <<w>> \in Seq(W) /\ DOMAIN <<w>> = {1} /\ <<w>>[1] = w
    BY <2>1 DEF w
  <2>3. Ats(<<w>>) = {w.at}
    BY <2>2 DEF Ats
  <2> QED BY <2>1, <2>2, <2>3 DEF w
<1> HIDE DEF first, C, W
<1>8. DOMAIN heard = 1..Len(heard) /\ Len(heard) \in Nat
  <2> HIDE DEF heard, H
  <2> QED BY <1>2
<1> DEFINE Asked == {t \in Range(ModelTopics[i.model]) : <<i.def, i.model, t>> \in Range(topics)}
<1>9. ASSUME NEW n \in DOMAIN heard
      PROVE  /\ row(n) \in W
             /\ \E t \in Asked : row(n).at = <<scope, t, <<i.id>>>>
  <2>1. heard[n] \in H
    BY DEF Range
  <2>2. PICK t \in Range(ModelTopics[i.model]) : heard[n] = <<t>>
    BY <1>2, <2>1
  <2>3. t \in Asked /\ heard[n][1] = t
    BY <1>2, <2>1, <2>2
  <2> HIDE DEF Asked, heard
  <2> QED BY <1>4, <1>5, <2>2, <2>3
<1>10. ASSUME NEW t \in Asked
       PROVE  \E n \in DOMAIN heard : row(n).at = <<scope, t, <<i.id>>>>
  <2>1. <<t>> \in H
    BY <1>2
  <2>2. PICK n \in DOMAIN heard : heard[n] = <<t>>
    BY <2>1 DEF Range
  <2>3. heard[n][1] = t
    BY <2>2
  <2> HIDE DEF heard
  <2> QED BY <1>4, <1>5, <2>3
<1> HIDE DEF heard, H, row
<1>11. rest \in Seq(W)
  BY <1>8, <1>9
<1>12. Ats(rest) = {<<scope, t, <<i.id>>>> : t \in Asked}
  <2>1. DOMAIN rest = DOMAIN heard /\ \A n \in DOMAIN heard : rest[n] = row(n)
    OBVIOUS
  <2> HIDE DEF rest, Asked
  <2>2. Ats(rest) \subseteq {<<scope, t, <<i.id>>>> : t \in Asked}
    BY <1>9, <2>1 DEF Ats
  <2>3. {<<scope, t, <<i.id>>>> : t \in Asked} \subseteq Ats(rest)
    BY <1>10, <2>1 DEF Ats
  <2> QED BY <2>2, <2>3
<1>13. AskedModel(i, topics) = {<<scope, t, <<i.id>>>> : t \in Asked}
  BY DEF AskedModel, ModelCell
<1> HIDE DEF rest
<1>14. first \o rest \in Seq(W) /\ Ats(first \o rest) = Ats(first) \cup Ats(rest)
  BY <1>7, <1>11, JoinedWrites
<1> QED BY <1>3, <1>6, <1>7, <1>12, <1>13, <1>14 DEF heard

\* What an insert at a definition writes: its own topics asked for, and the model's.
LEMMA DefinitionRows ==
  ASSUME NEW i \in Items, NEW topics \in TopicLists
  PROVE  LET writes == def_insert(i, rekey(topics, i.def))
         IN  /\ writes \in Seq(WritesOf(i))
             /\ Ats(writes) = {RecordAt(i)} \cup AskedDef(i, topics) \cup AskedModel(i, topics)
<1> DEFINE heard == rekey(topics, i.def)
           own == own_sub_writes(<<i.def>>, DefTopics[i.def], def_primary_key(i), i.content, heard)
           inner == model_insert(i, rekey(heard, i.model))
<1>1. inner \in Seq(WritesOf(i)) /\ Ats(inner) = {RecordAt(i)} \cup AskedModel(i, topics)
  BY ModelRows
<1>2. own \in Seq(WritesOf(i)) /\ Ats(own) = AskedDef(i, topics)
  <2>1. DefTopics[i.def] \in Seq(Range(DefTopics[i.def])) /\ i.def \in Definitions
    BY ItemFacts
  <2>2. \A t \in Range(DefTopics[i.def]) : <<<<i.def>>, t, def_primary_key(i)>> \in CellsOf(i)
    BY DEF CellsOf, DefCell
  <2>3. /\ own \in Seq([at : CellsOf(i), val : {i.content}])
        /\ Ats(own) = OwnCells(<<i.def>>, DefTopics[i.def], def_primary_key(i), heard)
    BY <2>1, <2>2, OwnRows
  <2>4. \A u : <<u>> \in Range(heard) <=> <<i.def, u>> \in Range(topics)
    BY <2>1, DefinitionHears
  <2> HIDE DEF own, heard
  <2>5. {u \in Range(DefTopics[i.def]) : <<u>> \in Range(heard)} =
          {u \in Range(DefTopics[i.def]) : <<i.def, u>> \in Range(topics)}
    BY <2>4
  <2> QED BY <2>3, <2>5 DEF AskedDef, DefCell, WritesOf, OwnCells
<1>3. def_insert(i, heard) = own \o inner
  BY DEF def_insert
<1> HIDE DEF own, inner
<1>4. own \o inner \in Seq(WritesOf(i)) /\ Ats(own \o inner) = Ats(own) \cup Ats(inner)
  BY <1>1, <1>2, JoinedWrites
<1> QED BY <1>1, <1>2, <1>3, <1>4

\* What an insert at the repository writes: the topics asked for at every level.
LEMMA RepositoryRows ==
  ASSUME NEW i \in Items, NEW topics \in TopicLists
  PROVE  LET writes == repo_insert(i, topics)
         IN  /\ writes \in Seq(WritesOf(i))
             /\ Ats(writes) = {RecordAt(i)} \cup AskedRepo(i, topics)
                                \cup AskedDef(i, topics) \cup AskedModel(i, topics)
<1> DEFINE own == own_sub_writes(<<>>, RepoTopics, repo_primary_key(i), i.content, topics)
           inner == def_insert(i, rekey(topics, i.def))
<1>1. /\ inner \in Seq(WritesOf(i))
      /\ Ats(inner) = {RecordAt(i)} \cup AskedDef(i, topics) \cup AskedModel(i, topics)
  BY DefinitionRows
<1>2. own \in Seq(WritesOf(i)) /\ Ats(own) = AskedRepo(i, topics)
  <2>1. RepoTopics \in Seq(Range(RepoTopics))
    BY ItemFacts
  <2>2. \A t \in Range(RepoTopics) : <<<<>>, t, repo_primary_key(i)>> \in CellsOf(i)
    BY DEF CellsOf, RepoCell
  <2>3. /\ own \in Seq([at : CellsOf(i), val : {i.content}])
        /\ Ats(own) = OwnCells(<<>>, RepoTopics, repo_primary_key(i), topics)
    BY <2>1, <2>2, OwnRows
  <2> QED BY <2>3 DEF AskedRepo, RepoCell, WritesOf, OwnCells
<1>3. repo_insert(i, topics) = own \o inner
  BY DEF repo_insert
<1> HIDE DEF own, inner
<1>4. own \o inner \in Seq(WritesOf(i)) /\ Ats(own \o inner) = Ats(own) \cup Ats(inner)
  BY <1>1, <1>2, JoinedWrites
<1> QED BY <1>1, <1>2, <1>3, <1>4

----------------------------------------------------------------------------
(* The cells of the schema.                                                *)

\* Every cell that tells of a value tells which record.
LEMMA CellsTellRecords ==
  ASSUME NEW i \in Items
  PROVE  /\ CellsOf(i) \subseteq Cells
         /\ RecordAt(i) \in CellsOf(i)
         /\ \A c \in CellsOf(i) : RecordOf(c) = RecordAt(i)
<1> DEFINE path == <<i.def, i.model, i.id>>
<1>1. /\ Front(path) = <<i.def, i.model>> /\ Last(path) = i.id
      /\ <<>> \o path = path /\ <<i.def>> \o <<i.model, i.id>> = path
      /\ <<i.def, i.model>> \o <<i.id>> = path
  <2>0. path = <<i.def, i.model, i.id>>
    OBVIOUS
  <2>1. Len(path) = 3 /\ path[3] = i.id
    OBVIOUS
  <2> HIDE DEF path
  <2>2. Front(path) = <<i.def, i.model>>
    <3>1. SubSeq(path, 1, 2) = <<i.def, i.model>>
      BY <2>0, SubSeqsOfTriple
    <3>2. Len(path) - 1 = 2
      BY <2>1
    <3> QED BY <3>1, <3>2 DEF Front
  <2>3. /\ <<>> \o path = path /\ <<i.def>> \o <<i.model, i.id>> = path
        /\ <<i.def, i.model>> \o <<i.id>> = path
    BY Joins DEF path
  <2> QED BY <2>1, <2>2, <2>3 DEF Last
<1>2. CellsOf(i) \subseteq Cells
  BY DEF Cells, CellsOf, RepoCell, DefCell, ModelCell
<1>3. RecordAt(i) \in CellsOf(i)
  BY DEF CellsOf, RecordAt, ModelCell
<1> HIDE DEF path
<1>4. ASSUME NEW c, c[1] \o c[3] = path PROVE RecordOf(c) = RecordAt(i)
  BY <1>1, <1>4 DEF RecordOf, RecordAt
<1>5. ASSUME NEW t PROVE RecordOf(RepoCell(i, t)) = RecordAt(i)
  <2>1. RepoCell(i, t)[1] = <<>> /\ RepoCell(i, t)[3] = path
    BY DEF RepoCell, repo_primary_key, path
  <2> QED BY <1>1, <1>4, <2>1
<1>6. ASSUME NEW t PROVE RecordOf(DefCell(i, t)) = RecordAt(i)
  <2>1. DefCell(i, t)[1] = <<i.def>> /\ DefCell(i, t)[3] = <<i.model, i.id>>
    BY DEF DefCell, def_primary_key
  <2> QED BY <1>1, <1>4, <2>1
<1>7. ASSUME NEW t PROVE RecordOf(ModelCell(i, t)) = RecordAt(i)
  <2>1. ModelCell(i, t)[1] = <<i.def, i.model>> /\ ModelCell(i, t)[3] = <<i.id>>
    BY DEF ModelCell
  <2> QED BY <1>1, <1>4, <2>1
<1>8. \A c \in CellsOf(i) : RecordOf(c) = RecordAt(i)
  BY <1>5, <1>6, <1>7 DEF CellsOf
<1> QED BY <1>2, <1>3, <1>8

\* The cells of a model's own tables.
LEMMA InnerCells ==
  ASSUME NEW c \in Cells, Len(c[1]) = 2
  PROVE  \E i \in Items : \E t \in Range(ModelTopics[i.model]) \cup {Primary} : c = ModelCell(i, t)
<1>1. PICK i \in Items : c \in CellsOf(i)
  BY DEF Cells, CellsOf, RepoCell, DefCell, ModelCell
<1>2. \A t : RepoCell(i, t)[1] = <<>> /\ DefCell(i, t)[1] = <<i.def>>
  BY DEF RepoCell, DefCell
<1>3. Len(<<>>) = 0 /\ Len(<<i.def>>) = 1
  OBVIOUS
<1> QED BY <1>1, <1>2, <1>3 DEF CellsOf

----------------------------------------------------------------------------
(* What a delete does.                                                     *)

\* The cells a delete of a value's key takes.
Taken(i) == {RecordAt(i)} \cup {ModelCell(i, t) : t \in Range(ModelTopics[i.model])}

\* A delete descends to the model if the address is the key's, and is refused if not.
LEMMA DeleteForms ==
  ASSUME NEW i \in Items, NEW address \in Addresses, NEW key, key = repo_primary_key(i)
  PROVE  /\ Front(key) = <<i.def, i.model>>
         /\ address = Front(key) =>
              /\ repo_delete(address, key) = model_delete(<<i.def, i.model>>, i.id)
              /\ def_delete(address[1], address[2], Tail(key)) = model_delete(<<i.def, i.model>>, i.id)
         /\ address # Front(key) => repo_delete(address, key) = Refuse("WrongVariant")
         /\ (address # Front(key) /\ address[1] = key[1]) =>
              def_delete(address[1], address[2], Tail(key)) = Refuse("WrongVariant")
<1>1. PICK d \in Definitions : \E m \in ModelsOf[d] : address = <<d, m>>
  BY DEF Addresses
<1>2. PICK m \in ModelsOf[d] : address = <<d, m>>
  BY <1>1
<1>3. /\ key = <<i.def, i.model, i.id>> /\ Len(key) = 3 /\ key[1] = i.def
      /\ Tail(key) = <<i.model, i.id>> /\ Tail(key)[1] = i.model /\ Tail(key)[2] = i.id
  BY DEF repo_primary_key
<1>4. Front(key) = <<i.def, i.model>>
  BY <1>3, SubSeqsOfTriple DEF Front
<1>5. address[1] = d /\ address[2] = m
  BY <1>2
<1>6. address = Front(key) <=> d = i.def /\ m = i.model
  BY <1>2, <1>4
<1> QED BY <1>3, <1>4, <1>5, <1>6 DEF repo_delete, def_delete

\* What a model's delete removes, if the record is there.
LEMMA RemovesIs ==
  ASSUME NEW i \in Items, RecordAt(i) \in DOMAIN work
  PROVE  LET result == model_delete(<<i.def, i.model>>, i.id)
         IN  /\ result.error = "none"
             /\ result.removes \in Seq(Taken(i))
             /\ Range(result.removes) = Taken(i)
<1> DEFINE topics == ModelTopics[i.model]
           first == <<RecordAt(i)>>
           rest == [n \in DOMAIN topics |-> ModelCell(i, topics[n])]
           S == Taken(i)
           r == first \o rest
<1>1. topics \in Seq(Range(topics))
  <2>1. i.def \in Definitions /\ i.model \in ModelsOf[i.def]
    BY ItemFacts
  <2> QED BY <2>1, TopicAssumption
<1>2. model_delete(<<i.def, i.model>>, i.id) = [error |-> "none", removes |-> r]
  <2>1. <<i.def, i.model>>[2] = i.model
    OBVIOUS
  <2> QED BY <2>1 DEF model_delete, RecordAt, ModelCell
<1>3. first \in Seq(S) /\ Len(first) = 1 /\ first[1] = RecordAt(i)
  BY DEF Taken
<1>4. rest \in Seq(S) /\ Len(rest) = Len(topics) /\ DOMAIN topics = 1..Len(topics) /\ Len(topics) \in Nat
  <2>1. DOMAIN topics = 1..Len(topics) /\ Len(topics) \in Nat
    <3> HIDE DEF topics
    <3> QED BY <1>1
  <2>2. \A n \in DOMAIN topics : ModelCell(i, topics[n]) \in S
    BY DEF Taken, Range
  <2> HIDE DEF topics, S
  <2> QED BY <2>1, <2>2
<1> HIDE DEF first, S
<1>5. /\ r \in Seq(S) /\ Len(r) = 1 + Len(topics)
      /\ \A n \in 1..1 + Len(topics) : r[n] = IF n <= 1 THEN first[n] ELSE rest[n - 1]
  <2> HIDE DEF rest, topics
  <2>1. /\ r \in Seq(S) /\ Len(r) = Len(first) + Len(rest)
        /\ \A n \in 1..Len(first) + Len(rest) :
             r[n] = IF n <= Len(first) THEN first[n] ELSE rest[n - Len(first)]
    BY <1>3, <1>4, ConcatProperties
  <2> HIDE DEF r
  <2> QED BY <1>3, <1>4, <2>1
<1>6. \A n \in DOMAIN topics : rest[n] = ModelCell(i, topics[n])
  OBVIOUS
<1>7. S = {RecordAt(i)} \cup {ModelCell(i, topics[n]) : n \in DOMAIN topics}
  <2>1. S = {RecordAt(i)} \cup {ModelCell(i, t) : t \in Range(topics)}
    BY DEF S, Taken
  <2>2. Range(topics) = {topics[n] : n \in DOMAIN topics}
    BY DEF Range
  <2> HIDE DEF topics
  <2> QED BY <2>1, <2>2
<1> HIDE DEF rest, r, topics
<1>8. DOMAIN r = 1..1 + Len(topics) /\ r[1] = RecordAt(i)
      /\ \A n \in 1..Len(topics) : r[n + 1] = ModelCell(i, topics[n])
  <2>1. DOMAIN r = 1..1 + Len(topics)
    BY <1>5
  <2>2. r[1] = RecordAt(i)
    BY <1>3, <1>4, <1>5
  <2>3. ASSUME NEW n \in 1..Len(topics) PROVE r[n + 1] = ModelCell(i, topics[n])
    <3>1. n + 1 \in 1..1 + Len(topics) /\ ~(n + 1 <= 1) /\ (n + 1) - 1 = n
      BY <1>4
    <3> QED BY <1>4, <1>5, <1>6, <3>1
  <2> QED BY <2>1, <2>2, <2>3
<1>9. S \subseteq Range(r)
  <2>1. RecordAt(i) \in Range(r)
    BY <1>4, <1>8 DEF Range
  <2>2. ASSUME NEW n \in DOMAIN topics PROVE ModelCell(i, topics[n]) \in Range(r)
    <3>1. n + 1 \in DOMAIN r
      BY <1>4, <1>8
    <3> QED BY <1>4, <1>8, <3>1 DEF Range
  <2> QED BY <1>7, <2>1, <2>2
<1>10. Range(r) \subseteq S
  <2>1. DOMAIN r = 1..Len(r) /\ \A n \in 1..Len(r) : r[n] \in S
    BY <1>5, ElementOfSeq, LenProperties
  <2> QED BY <2>1 DEF Range
<1>11. /\ model_delete(<<i.def, i.model>>, i.id).error = "none"
       /\ model_delete(<<i.def, i.model>>, i.id).removes = r
  BY <1>2
<1>12. Range(r) = S
  BY <1>9, <1>10
<1> QED BY <1>5, <1>11, <1>12 DEF S

\* The first entries of a sequence.
LEMMA FirstPlaces ==
  ASSUME NEW S, NEW s \in Seq(S)
  PROVE  /\ SubSeq(s, 1, Len(s)) = s
         /\ \A n \in 0..Len(s) : Range(SubSeq(s, 1, n)) \subseteq Range(s)
<1>1. ASSUME NEW n \in 0..Len(s) PROVE Range(SubSeq(s, 1, n)) \subseteq Range(s)
  <2> DEFINE r == SubSeq(s, 1, n)
  <2>1. Len(s) \in Nat /\ DOMAIN s = 1..Len(s) /\ \A i \in 1..n : s[i] \in S /\ i \in DOMAIN s
    OBVIOUS
  <2>2. /\ r \in Seq(S) /\ Len(r) = IF 1 <= n THEN n - 1 + 1 ELSE 0
        /\ \A i \in 1..n-1+1 : r[i] = s[1 + i - 1]
    BY <2>1, SubSeqProperties
  <2> HIDE DEF r
  <2>3. DOMAIN r = 1..n /\ \A i \in 1..n : r[i] = s[i]
    BY <2>1, <2>2
  <2> QED BY <2>1, <2>3 DEF Range, r
<1> QED BY <1>1, SubSeqFull

Empties(i) ==
  /\ tx = "write" /\ UNCHANGED <<tx, base>>
  /\ \/ /\ RecordAt(i) \notin DOMAIN work
        /\ ret' = "UnknownAddress" /\ UNCHANGED <<work, failed>>
     \/ /\ RecordAt(i) \in DOMAIN work
        /\ work' = Restrict(work, DOMAIN work \ Taken(i))
        /\ ret' = "ok" /\ UNCHANGED failed
     \/ /\ RecordAt(i) \in DOMAIN work
        /\ \E part \in SUBSET Taken(i) : work' = Restrict(work, DOMAIN work \ part)
        /\ ret' = "failed" /\ failed' = TRUE

\* A delete that reaches the model empties its cells for the key, or some of them.
LEMMA DeleteEmpties ==
  ASSUME NEW i \in Items, delete(model_delete(<<i.def, i.model>>, i.id))
  PROVE  Empties(i)
<1> DEFINE result == model_delete(<<i.def, i.model>>, i.id)
<1>1. CASE RecordAt(i) \notin DOMAIN work
  <2>1. result = [error |-> "UnknownAddress", removes |-> <<>>]
    BY <1>1 DEF model_delete, Refuse, RecordAt
  <2>2. result.error = "UnknownAddress"
    BY <2>1
  <2> HIDE DEF result
  <2> QED BY <1>1, <2>2 DEF delete, result, Empties
<1>2. CASE RecordAt(i) \in DOMAIN work
  <2>1. /\ result.error = "none" /\ result.removes \in Seq(Taken(i))
        /\ Range(result.removes) = Taken(i)
    BY <1>2, RemovesIs
  <2> DEFINE cells == result.removes
             without(n) == Restrict(work, DOMAIN work \ Range(SubSeq(cells, 1, n)))
  <2>2. /\ tx = "write" /\ UNCHANGED <<tx, base>>
        /\ \/ work' = without(Len(cells)) /\ ret' = "ok" /\ UNCHANGED failed
           \/ /\ \E n \in 0..Len(cells) : work' = without(n)
              /\ ret' = "failed" /\ failed' = TRUE
    BY <2>1 DEF delete
  <2> HIDE DEF cells, result
  <2>3. SubSeq(cells, 1, Len(cells)) = cells
        /\ \A n \in 0..Len(cells) : Range(SubSeq(cells, 1, n)) \in SUBSET Taken(i)
    BY <2>1, FirstPlaces DEF cells
  <2>4. Range(cells) = Taken(i)
    BY <2>1 DEF cells
  <2> QED BY <1>2, <2>2, <2>3, <2>4 DEF Empties
<1> QED BY <1>1, <1>2

Refuses == tx = "write" /\ ret' = "WrongVariant" /\ UNCHANGED <<tx, base, work, failed>>

\* A delete that is refused changes nothing.
LEMMA RefusalKeeps ==
  ASSUME delete(Refuse("WrongVariant"))
  PROVE  Refuses
<1>1. Refuse("WrongVariant").error = "WrongVariant"
  BY DEF Refuse
<1> QED BY <1>1 DEF delete, Refuses

----------------------------------------------------------------------------
(* Every step is one of six.                                               *)

\* The cells each kind of insert fills.
LEMMA InsertSteps ==
  ASSUME NEW i \in Items, NEW topics \in TopicLists
  PROVE  /\ insert(repo_insert(i, topics)) =>
              Fills({RecordAt(i)} \cup AskedRepo(i, topics) \cup AskedDef(i, topics)
                                  \cup AskedModel(i, topics), i.content)
         /\ insert(def_insert(i, rekey(topics, i.def))) =>
              Fills({RecordAt(i)} \cup AskedDef(i, topics) \cup AskedModel(i, topics), i.content)
         /\ insert(model_insert(i, rekey(rekey(topics, i.def), i.model))) =>
              Fills({RecordAt(i)} \cup AskedModel(i, topics), i.content)
<1>1. ASSUME NEW writes \in Seq(WritesOf(i)), NEW cells, Ats(writes) = cells, insert(writes)
      PROVE  Fills(cells, i.content)
  <2>1. Fills(Ats(writes), i.content)
    BY <1>1, InsertFills DEF WritesOf
  <2> QED BY <1>1, <2>1 DEF Fills
<1>2. insert(repo_insert(i, topics)) =>
        Fills({RecordAt(i)} \cup AskedRepo(i, topics) \cup AskedDef(i, topics)
                            \cup AskedModel(i, topics), i.content)
  BY <1>1, RepositoryRows
<1>3. insert(def_insert(i, rekey(topics, i.def))) =>
        Fills({RecordAt(i)} \cup AskedDef(i, topics) \cup AskedModel(i, topics), i.content)
  BY <1>1, DefinitionRows
<1>4. insert(model_insert(i, rekey(rekey(topics, i.def), i.model))) =>
        Fills({RecordAt(i)} \cup AskedModel(i, topics), i.content)
  BY <1>1, ModelRows
<1> QED BY <1>2, <1>3, <1>4

\* They tell of the value that is inserted.
LEMMA AskedCells ==
  ASSUME NEW i \in Items, NEW topics \in TopicLists
  PROVE  AskedRepo(i, topics) \cup AskedDef(i, topics) \cup AskedModel(i, topics) \subseteq CellsOf(i)
  BY DEF AskedRepo, AskedDef, AskedModel, CellsOf

\* A delete is refused, or empties the cells of the value its key is of.
LEMMA DeleteSteps ==
  ASSUME NEW address \in Addresses, NEW key \in RepoKeys
  PROVE  /\ delete(repo_delete(address, key)) =>
              \/ Refuses
              \/ \E i \in Items : key = repo_primary_key(i) /\ address = Front(key) /\ Empties(i)
         /\ (address[1] = key[1] /\ delete(def_delete(address[1], address[2], Tail(key)))) =>
              \/ Refuses
              \/ \E i \in Items : key = repo_primary_key(i) /\ address = Front(key) /\ Empties(i)
         /\ (delete(repo_delete(address, key)) /\ address # Front(key)) => Refuses
<1>1. PICK i \in Items : key = repo_primary_key(i)
  BY DEF RepoKeys
<1>2. CASE address = Front(key)
  <2>1. /\ repo_delete(address, key) = model_delete(<<i.def, i.model>>, i.id)
        /\ def_delete(address[1], address[2], Tail(key)) = model_delete(<<i.def, i.model>>, i.id)
    BY <1>1, <1>2, DeleteForms
  <2>2. delete(model_delete(<<i.def, i.model>>, i.id)) => Empties(i)
    BY DeleteEmpties
  <2> QED BY <1>1, <1>2, <2>1, <2>2
<1>3. CASE address # Front(key)
  <2>1. /\ repo_delete(address, key) = Refuse("WrongVariant")
        /\ address[1] = key[1] =>
             def_delete(address[1], address[2], Tail(key)) = Refuse("WrongVariant")
    BY <1>1, <1>3, DeleteForms
  <2> QED BY <1>3, <2>1, RefusalKeeps
<1> QED BY <1>2, <1>3

\* The steps of the specification, without the operators they are made of.
LEMMA Steps ==
  ASSUME Next
  PROVE  \/ write_transaction
         \/ commit
         \/ rollback
         \/ \E i \in Items : \E cells \in SUBSET CellsOf(i) :
              RecordAt(i) \in cells /\ Fills(cells, i.content)
         \/ \E i \in Items : Empties(i)
         \/ Refuses
         \/ \E key \in RepoKeys : get(key)
<1>1. ASSUME NEW i \in Items, NEW topics \in TopicLists,
             \/ insert(repo_insert(i, topics))
             \/ insert(def_insert(i, rekey(topics, i.def)))
             \/ insert(model_insert(i, rekey(rekey(topics, i.def), i.model)))
      PROVE  \E cells \in SUBSET CellsOf(i) : RecordAt(i) \in cells /\ Fills(cells, i.content)
  <2> DEFINE M == {RecordAt(i)} \cup AskedModel(i, topics)
             D == {RecordAt(i)} \cup AskedDef(i, topics) \cup AskedModel(i, topics)
             R == {RecordAt(i)} \cup AskedRepo(i, topics) \cup AskedDef(i, topics)
                                \cup AskedModel(i, topics)
  <2>1. R \in SUBSET CellsOf(i) /\ RecordAt(i) \in R
    BY AskedCells, CellsTellRecords
  <2>2. M \in SUBSET CellsOf(i) /\ RecordAt(i) \in M
    BY AskedCells, CellsTellRecords
  <2>3. D \in SUBSET CellsOf(i) /\ RecordAt(i) \in D
    BY AskedCells, CellsTellRecords
  <2>4. Fills(R, i.content) \/ Fills(D, i.content) \/ Fills(M, i.content)
    BY <1>1, InsertSteps
  <2> HIDE DEF R, M, D
  <2> QED BY <2>1, <2>2, <2>3, <2>4
<1>2. ASSUME NEW address \in Addresses, NEW key \in RepoKeys,
             \/ delete(repo_delete(address, key))
             \/ address[1] = key[1] /\ delete(def_delete(address[1], address[2], Tail(key)))
      PROVE  Refuses \/ \E i \in Items : Empties(i)
  BY <1>2, DeleteSteps
<1> QED BY <1>1, <1>2 DEF Next

----------------------------------------------------------------------------
(* Type correctness.                                                       *)

\* A well-formed store.
StoreOK(store) == DOMAIN store \subseteq Cells /\ Range(store) \subseteq Contents

\* The type invariant is about each store by itself.
LEMMA StoresOK ==
  TypeOK <=> tx \in {"idle", "write"} /\ StoreOK(base) /\ StoreOK(work) /\ failed \in BOOLEAN
  BY DEF TypeOK, StoreOK

\* The three ways a store comes about keep it well-formed.
LEMMA EmptyStoreOK == StoreOK(<<>>)
  BY DEF StoreOK, Range

LEMMA OverlayOK ==
  ASSUME NEW store, StoreOK(store), NEW i \in Items, NEW cells \in SUBSET CellsOf(i)
  PROVE  StoreOK(Overlay(store, cells, i.content))
<1>1. cells \subseteq Cells /\ i.content \in Contents
  BY CellsTellRecords, ItemFacts
<1> QED BY <1>1 DEF StoreOK, Overlay, Range

LEMMA RestrictOK ==
  ASSUME NEW store, StoreOK(store), NEW cells
  PROVE  StoreOK(Restrict(store, DOMAIN store \ cells))
  BY DEF StoreOK, Restrict, Range

\* The type invariant is inductive.
LEMMA TypeInit == Init => TypeOK
  BY StoresOK, EmptyStoreOK DEF Init

LEMMA TypeStep == TypeOK /\ [Next]_vars => TypeOK'
<1> SUFFICES ASSUME TypeOK, [Next]_vars PROVE TypeOK'
  OBVIOUS
<1>1. TypeOK' <=> tx' \in {"idle", "write"} /\ StoreOK(base') /\ StoreOK(work') /\ failed' \in BOOLEAN
  BY DEF TypeOK, StoreOK
<1>2. tx \in {"idle", "write"} /\ StoreOK(base) /\ StoreOK(work) /\ failed \in BOOLEAN
  BY StoresOK
<1>3. CASE write_transaction
  BY <1>1, <1>2, <1>3 DEF write_transaction
<1>4. CASE commit
  BY <1>1, <1>2, <1>4, EmptyStoreOK DEF commit
<1>5. CASE rollback
  BY <1>1, <1>2, <1>5, EmptyStoreOK DEF rollback
<1>6. ASSUME NEW i \in Items, NEW cells \in SUBSET CellsOf(i), Fills(cells, i.content) PROVE TypeOK'
  <2>1. \A part \in SUBSET cells : StoreOK(Overlay(work, part, i.content))
    <3>1. \A part \in SUBSET cells : part \in SUBSET CellsOf(i)
      OBVIOUS
    <3> QED BY <1>2, <3>1, OverlayOK
  <2>2. cells \in SUBSET cells
    OBVIOUS
  <2> QED BY <1>1, <1>2, <1>6, <2>1, <2>2 DEF Fills
<1>7. ASSUME NEW i \in Items, Empties(i) PROVE TypeOK'
  <2>1. \A part : StoreOK(Restrict(work, DOMAIN work \ part))
    BY <1>2, RestrictOK
  <2> QED BY <1>1, <1>2, <1>7, <2>1 DEF Empties
<1>8. CASE Refuses
  BY <1>1, <1>2, <1>8 DEF Refuses
<1>9. CASE \E key \in RepoKeys : get(key)
  BY <1>1, <1>2, <1>9 DEF get
<1>10. CASE UNCHANGED vars
  BY <1>1, <1>2, <1>10 DEF vars
<1> QED BY <1>3, <1>4, <1>5, <1>6, <1>7, <1>8, <1>9, <1>10, Steps

\* Every row is in a table that its scope declares, under a key of that scope's
\* level: topic keys that were asked for reach the level they name and no other.
THEOREM TypeCorrect == Spec => []TypeOK
<1>1. Init => TypeOK
  BY TypeInit
<1>2. TypeOK /\ [Next]_vars => TypeOK'
  BY TypeStep
<1> QED BY <1>1, <1>2, PTL DEF Spec

----------------------------------------------------------------------------
(* A model's topic rows and its records.                                   *)

\* Every row of a model's own topics is the row of a record of the store.
Backed(store) ==
  \A c \in DOMAIN store : Len(c[1]) = 2 => <<c[1], Primary, c[3]>> \in DOMAIN store

IInv == TypeOK /\ ModelTopicsHaveRecords

\* The inductive invariant, store by store.
LEMMA IInvIs == IInv <=> TypeOK /\ (~failed => Backed(base) /\ Backed(work))
  BY DEF IInv, ModelTopicsHaveRecords, Backed

\* The empty store has no rows.
LEMMA EmptyBacked == Backed(<<>>)
  BY DEF Backed

\* The record a model's row tells of.
LEMMA ModelCellsRecord ==
  ASSUME NEW i, NEW t
  PROVE  LET c == ModelCell(i, t)
         IN  Len(c[1]) = 2 /\ <<c[1], Primary, c[3]>> = RecordAt(i)
  BY DEF ModelCell, RecordAt

\* An insert writes the record its rows tell of.
LEMMA InsertBacks ==
  ASSUME NEW store, Backed(store), NEW i \in Items, NEW cells \in SUBSET CellsOf(i),
         RecordAt(i) \in cells, NEW v
  PROVE  Backed(Overlay(store, cells, v))
<1>1. DOMAIN Overlay(store, cells, v) = DOMAIN store \cup cells
  BY DEF Overlay
<1>2. ASSUME NEW c \in cells, Len(c[1]) = 2 PROVE <<c[1], Primary, c[3]>> = RecordAt(i)
  <2>1. \A t : RepoCell(i, t)[1] = <<>> /\ DefCell(i, t)[1] = <<i.def>>
    BY DEF RepoCell, DefCell
  <2>2. Len(<<>>) = 0 /\ Len(<<i.def>>) = 1
    OBVIOUS
  <2>3. c \in CellsOf(i)
    BY <1>2
  <2>4. \/ \E t : c = RepoCell(i, t)
        \/ \E t : c = DefCell(i, t)
        \/ \E t : c = ModelCell(i, t)
    BY <2>3, Zenon DEF CellsOf
  <2>5. \E t : c = ModelCell(i, t)
    BY <1>2, <2>1, <2>2, <2>4
  <2> QED BY <2>5, ModelCellsRecord
<1> QED BY <1>1, <1>2 DEF Backed

\* A delete takes a record's rows with it and no other record's record.
LEMMA DeleteKeepsBacked ==
  ASSUME NEW store, StoreOK(store), Backed(store), NEW i \in Items
  PROVE  Backed(Restrict(store, DOMAIN store \ Taken(i)))
<1>1. DOMAIN Restrict(store, DOMAIN store \ Taken(i)) = DOMAIN store \ Taken(i)
  BY DEF Restrict
<1>2. ASSUME NEW c \in DOMAIN store \ Taken(i), Len(c[1]) = 2
      PROVE  <<c[1], Primary, c[3]>> \in DOMAIN store \ Taken(i)
  <2>1. c \in Cells
    BY DEF StoreOK
  <2>2. PICK j \in Items : \E t \in Range(ModelTopics[j.model]) \cup {Primary} : c = ModelCell(j, t)
    BY <1>2, <2>1, InnerCells
  <2>3. PICK t \in Range(ModelTopics[j.model]) \cup {Primary} : c = ModelCell(j, t)
    BY <2>2
  <2>4. <<c[1], Primary, c[3]>> = RecordAt(j)
    BY <2>3, ModelCellsRecord
  <2>5. RecordAt(j) \in DOMAIN store
    BY <1>2, <2>4 DEF Backed
  <2>6. RecordAt(j) \notin Taken(i)
    <3>1. SUFFICES ASSUME RecordAt(j) \in Taken(i) PROVE FALSE
      OBVIOUS
    <3>2. PICK u : RecordAt(j) = ModelCell(i, u)
      BY <3>1 DEF Taken, RecordAt, ModelCell
    <3>3. j.def = i.def /\ j.model = i.model /\ j.id = i.id
      BY <3>2 DEF RecordAt, ModelCell
    <3>4. c = ModelCell(i, t) /\ t \in Range(ModelTopics[i.model]) \cup {Primary}
      BY <2>3, <3>3 DEF ModelCell
    <3>5. c \in Taken(i)
      BY <3>4 DEF Taken, RecordAt, ModelCell
    <3> QED BY <3>5
  <2> QED BY <2>4, <2>5, <2>6
<1> QED BY <1>1, <1>2 DEF Backed

\* The invariant is inductive; a step that fails gives up its second half.
LEMMA BackedStep == IInv /\ [Next]_vars => IInv'
<1> SUFFICES ASSUME IInv, [Next]_vars PROVE IInv'
  OBVIOUS
<1>1. IInv' <=> TypeOK' /\ (~failed' => Backed(base') /\ Backed(work'))
  BY DEF IInv, ModelTopicsHaveRecords, Backed
<1>2. TypeOK /\ (~failed => Backed(base) /\ Backed(work)) /\ StoreOK(work)
  BY IInvIs, StoresOK
<1>3. TypeOK'
  BY <1>2, TypeStep
<1>4. CASE write_transaction
  BY <1>1, <1>2, <1>3, <1>4 DEF write_transaction
<1>5. CASE commit
  BY <1>1, <1>2, <1>3, <1>5, EmptyBacked DEF commit
<1>6. CASE rollback
  BY <1>1, <1>2, <1>3, <1>6, EmptyBacked DEF rollback
<1>7. ASSUME NEW i \in Items, NEW cells \in SUBSET CellsOf(i), RecordAt(i) \in cells,
             Fills(cells, i.content)
      PROVE  IInv'
  <2>1. Backed(work) => Backed(Overlay(work, cells, i.content))
    BY <1>7, InsertBacks
  <2> QED BY <1>1, <1>2, <1>3, <1>7, <2>1 DEF Fills
<1>8. ASSUME NEW i \in Items, Empties(i) PROVE IInv'
  <2>1. Backed(work) => Backed(Restrict(work, DOMAIN work \ Taken(i)))
    BY <1>2, DeleteKeepsBacked
  <2> QED BY <1>1, <1>2, <1>3, <1>8, <2>1 DEF Empties
<1>9. CASE Refuses
  BY <1>1, <1>2, <1>3, <1>9 DEF Refuses
<1>10. CASE \E key \in RepoKeys : get(key)
  BY <1>1, <1>2, <1>3, <1>10 DEF get
<1>11. CASE UNCHANGED vars
  BY <1>1, <1>2, <1>3, <1>11 DEF vars
<1> QED BY <1>4, <1>5, <1>6, <1>7, <1>8, <1>9, <1>10, <1>11, Steps

\* As long as no call has failed, a model's topic rows, staged or committed, are
\* the rows of records that are there, whichever level each call came in at: the
\* delete of a record takes the row of every topic its model declares.
THEOREM ModelTopicsKept == Spec => []ModelTopicsHaveRecords
<1>1. Init => IInv
  <2> SUFFICES ASSUME Init PROVE IInv
    OBVIOUS
  <2> QED BY TypeInit, IInvIs, EmptyBacked DEF Init
<1>2. IInv /\ [Next]_vars => IInv'
  BY BackedStep
<1>3. IInv => ModelTopicsHaveRecords
  BY DEF IInv
<1> QED BY <1>1, <1>2, <1>3, PTL DEF Spec

----------------------------------------------------------------------------
(* Steps.                                                                  *)

\* A row that a successful call adds or changes, at any level, tells what the
\* record holds after the call.
THEOREM RowsTell == Spec => RowsTellTheirRecord
<1> DEFINE Tells ==
      \A c \in DOMAIN work' :
        (tx = "write" /\ ret' = "ok" /\ (c \notin DOMAIN work \/ work'[c] # work[c]))
          => RecordOf(c) \in DOMAIN work' /\ work'[RecordOf(c)] = work'[c]
<1>1. ASSUME [Next]_vars PROVE [Tells]_vars
  <2>1. CASE write_transaction
    BY <2>1 DEF write_transaction
  <2>2. CASE commit
    BY <2>2 DEF commit
  <2>3. CASE rollback
    BY <2>3 DEF rollback
  <2>4. ASSUME NEW i \in Items, NEW cells \in SUBSET CellsOf(i), RecordAt(i) \in cells,
               Fills(cells, i.content)
        PROVE  Tells
    <3>1. CASE ret' # "ok"
      BY <3>1
    <3>2. CASE ret' = "ok"
      <4>1. work' = Overlay(work, cells, i.content)
        BY <2>4, <3>2 DEF Fills
      <4>2. /\ DOMAIN work' = DOMAIN work \cup cells
            /\ \A c \in DOMAIN work' : work'[c] = IF c \in cells THEN i.content ELSE work[c]
        BY <4>1 DEF Overlay
      <4>3. \A c \in cells : RecordOf(c) = RecordAt(i)
        BY CellsTellRecords
      <4> QED BY <2>4, <4>2, <4>3
    <3> QED BY <3>1, <3>2
  <2>5. ASSUME NEW i \in Items, Empties(i) PROVE Tells
    <3>1. ASSUME NEW part, work' = Restrict(work, DOMAIN work \ part) PROVE Tells
      BY <3>1 DEF Restrict
    <3> QED BY <2>5, <3>1 DEF Empties
  <2>6. CASE Refuses
    BY <2>6 DEF Refuses
  <2>7. CASE \E key \in RepoKeys : get(key)
    BY <2>7 DEF get
  <2>8. CASE UNCHANGED vars
    BY <2>8
  <2> HIDE DEF Tells
  <2> QED BY <1>1, <2>1, <2>2, <2>3, <2>4, <2>5, <2>6, <2>7, <2>8, Steps
<1>2. [][Next]_vars => [][Tells]_vars
  BY <1>1, PTL
<1> QED BY <1>2 DEF Spec, RowsTellTheirRecord

\* A delete whose address and key name different variants changes no row, at
\* whichever of the two levels they differ.
THEOREM MisroutedKept == Spec => MisroutedDeletesChangeNothing
<1> DEFINE Keeps ==
      \A address \in Addresses, key \in RepoKeys :
        (address # Front(key) /\ delete(repo_delete(address, key))) => UNCHANGED work
<1>1. Keeps
  BY DeleteSteps DEF Refuses
<1> HIDE DEF Keeps
<1>2. [][Next]_vars => [][Keeps]_vars
  BY <1>1, PTL
<1> QED BY <1>2 DEF Spec, MisroutedDeletesChangeNothing, Keeps

----------------------------------------------------------------------------
(* The book's words.                                                       *)

\* The book takes the helpers for sequences and functions as this module does.
LEMMA SameHelpers ==
  ASSUME NEW s, NEW t, NEW S
  PROVE  /\ Book!Front(s) = Front(s) /\ Book!Last(s) = Last(s)
         /\ Book!IsStrictPrefix(s, t) <=> IsStrictPrefix(s, t)
         /\ Book!Restrict(s, S) = Restrict(s, S)
  BY DEF Book!Front, Front, Book!Last, Last, Book!IsStrictPrefix, IsStrictPrefix,
         Book!IsPrefix, IsPrefix, Book!Restrict, Restrict

\* The parts of a pair.
LEMMA SubSeqsOfPair ==
  ASSUME NEW a, NEW b, NEW s, s = <<a, b>>
  PROVE  SubSeq(s, 1, 1) = <<a>> /\ SubSeq(s, 1, 2) = s
<1> DEFINE S == {a, b}
<1>1. s \in Seq(S) /\ s[1] = a /\ s[2] = b /\ Len(s) = 2
  OBVIOUS
<1>2. \A i \in 1..2 : s[i] \in S
  BY <1>1
<1> HIDE DEF S
<1>3. \A t : t = SubSeq(s, 1, 1) => t \in Seq(S) /\ Len(t) = 1 /\ t[1] = a
  <2>1. \A i \in 1..1 : s[i] \in S
    BY <1>2
  <2> QED BY <1>1, <2>1, SubSeqProperties
<1>4. SubSeq(s, 1, 2) = s
  BY <1>1, SubSeqFull
<1> QED BY <1>3, <1>4, OneLong

\* The parts of a topic's path.
LEMMA PathParts ==
  ASSUME NEW a, NEW b, NEW c
  PROVE  /\ Front(<<a>>) = <<>> /\ Last(<<a>>) = a
         /\ Front(<<a, b>>) = <<a>> /\ Last(<<a, b>>) = b
         /\ Front(<<a, b, c>>) = <<a, b>> /\ Last(<<a, b, c>>) = c
<1>1. ASSUME NEW s, s = <<a>> PROVE Front(s) = <<>> /\ Last(s) = a
  <2>1. Len(s) = 1 /\ s[1] = a
    BY <1>1
  <2>2. SubSeq(s, 1, 0) = <<>>
    BY SubSeqEmpty
  <2>3. Len(s) - 1 = 0
    BY <2>1
  <2> QED BY <2>1, <2>2, <2>3 DEF Front, Last
<1>2. ASSUME NEW s, s = <<a, b>> PROVE Front(s) = <<a>> /\ Last(s) = b
  <2>1. Len(s) = 2 /\ s[2] = b
    BY <1>2
  <2>2. SubSeq(s, 1, 1) = <<a>>
    BY <1>2, SubSeqsOfPair
  <2>3. Len(s) - 1 = 1
    BY <2>1
  <2> QED BY <2>1, <2>2, <2>3 DEF Front, Last
<1>3. ASSUME NEW s, s = <<a, b, c>> PROVE Front(s) = <<a, b>> /\ Last(s) = c
  <2>1. Len(s) = 3 /\ s[3] = c
    BY <1>3
  <2>2. SubSeq(s, 1, 2) = <<a, b>>
    BY <1>3, SubSeqsOfTriple
  <2>3. Len(s) - 1 = 2
    BY <2>1
  <2> QED BY <2>1, <2>2, <2>3 DEF Front, Last
<1> QED BY <1>1, <1>2, <1>3

\* The scope of a record's path, and its key.
LEMMA FrontOfTriple ==
  ASSUME NEW a, NEW b, NEW c
  PROVE  Front(<<a, b, c>>) = <<a, b>>
  BY PathParts

LEMMA LastOfTriple ==
  ASSUME NEW a, NEW b, NEW c
  PROVE  Last(<<a, b, c>>) = c
  BY DEF Last

\* The scopes on a record's path.
LEMMA ScopesOnPath ==
  ASSUME NEW d, NEW m, NEW id, NEW path, path = <<d, m, id>>
  PROVE  /\ IsStrictPrefix(<<>>, path)
         /\ \A e : IsStrictPrefix(<<e>>, path) <=> e = d
         /\ \A e, n : IsStrictPrefix(<<e, n>>, path) <=> e = d /\ n = m
<1>1. /\ Len(path) = 3 /\ SubSeq(path, 1, 1) = <<d>> /\ SubSeq(path, 1, 2) = <<d, m>>
  BY SubSeqsOfTriple
<1>2. IsStrictPrefix(<<>>, path)
  <2>1. SubSeq(<<>>, 1, 0) = <<>> /\ SubSeq(path, 1, 0) = <<>>
    BY SubSeqEmpty
  <2>2. Len(<<>>) = 0 /\ <<>> # path
    OBVIOUS
  <2> QED BY <1>1, <2>1, <2>2 DEF IsStrictPrefix, IsPrefix
<1>3. ASSUME NEW e, NEW s, s = <<e>> PROVE IsStrictPrefix(s, path) <=> e = d
  <2>1. Len(s) = 1 /\ s # path /\ s \in Seq({e}) /\ (s = <<d>> <=> e = d)
    BY <1>3
  <2>2. SubSeq(s, 1, Len(s)) = s
    BY <2>1, SubSeqFull
  <2> QED BY <1>1, <2>1, <2>2 DEF IsStrictPrefix, IsPrefix
<1>4. ASSUME NEW e, NEW n, NEW s, s = <<e, n>> PROVE IsStrictPrefix(s, path) <=> e = d /\ n = m
  <2>1. Len(s) = 2 /\ s # path /\ (s = <<d, m>> <=> e = d /\ n = m)
    BY <1>4
  <2>2. SubSeq(s, 1, Len(s)) = s
    BY <1>4, <2>1, SubSeqsOfPair
  <2> QED BY <1>1, <2>1, <2>2 DEF IsStrictPrefix, IsPrefix
<1> QED BY <1>2, <1>3, <1>4

\* The cells of a value in the book's words.
LEMMA BookCells ==
  ASSUME NEW i, NEW t, NEW path, path = repo_primary_key(i)
  PROVE  /\ Book!Cell(path, <<>>, t) = RepoCell(i, t)
         /\ Book!Cell(path, <<i.def>>, t) = DefCell(i, t)
         /\ Book!Cell(path, <<i.def, i.model>>, t) = ModelCell(i, t)
<1>1. path = <<i.def, i.model, i.id>>
  BY DEF repo_primary_key
<1>2. /\ SubSeq(path, 1, 3) = path /\ SubSeq(path, 2, 3) = <<i.model, i.id>>
      /\ SubSeq(path, 3, 3) = <<i.id>> /\ Len(path) = 3
  <2>1. Len(path) = 3
    BY <1>1
  <2>2. SubSeq(path, 1, 3) = path
    <3>1. path \in Seq({i.def, i.model, i.id})
      BY <1>1
    <3> QED BY <2>1, <3>1, SubSeqFull
  <2>3. SubSeq(path, 2, 3) = <<i.model, i.id>>
    BY <1>1, SubSeqsOfTriple
  <2>4. SubSeq(path, 3, 3) = <<i.id>>
    BY <1>1, SubSeqsOfTriple
  <2> QED BY <2>1, <2>2, <2>3, <2>4
<1>3. Len(<<>>) + 1 = 1 /\ Len(<<i.def>>) + 1 = 2 /\ Len(<<i.def, i.model>>) + 1 = 3
  OBVIOUS
<1> QED BY <1>1, <1>2, <1>3
     DEF Book!Cell, RepoCell, DefCell, ModelCell, repo_primary_key, def_primary_key

\* The paths of the topics of the scopes a value lies in are declared.
LEMMA DeclaredPaths ==
  ASSUME NEW i \in Items
  PROVE  /\ \A t \in Range(RepoTopics) : <<t>> \in TopicPaths
         /\ \A t \in Range(DefTopics[i.def]) : <<i.def, t>> \in TopicPaths
         /\ \A t \in Range(ModelTopics[i.model]) : <<i.def, i.model, t>> \in TopicPaths
<1>1. \A c \in Cells : c[1] \o <<c[2]>> \in TopicPaths
  BY DEF TopicPaths
<1>2. ASSUME NEW t \in Range(RepoTopics) PROVE <<t>> \in TopicPaths
  <2>1. RepoCell(i, t) \in Cells /\ RepoCell(i, t)[1] = <<>> /\ RepoCell(i, t)[2] = t
    BY CellsTellRecords DEF CellsOf, RepoCell
  <2>2. <<>> \o <<t>> = <<t>>
    BY Joins
  <2> QED BY <1>1, <2>1, <2>2
<1>3. ASSUME NEW t \in Range(DefTopics[i.def]) PROVE <<i.def, t>> \in TopicPaths
  <2>1. DefCell(i, t) \in Cells /\ DefCell(i, t)[1] = <<i.def>> /\ DefCell(i, t)[2] = t
    BY CellsTellRecords DEF CellsOf, DefCell
  <2>2. <<i.def>> \o <<t>> = <<i.def, t>>
    BY Joins
  <2> QED BY <1>1, <2>1, <2>2
<1>4. ASSUME NEW t \in Range(ModelTopics[i.model]) PROVE <<i.def, i.model, t>> \in TopicPaths
  <2>1. ModelCell(i, t) \in Cells /\ ModelCell(i, t)[1] = <<i.def, i.model>> /\ ModelCell(i, t)[2] = t
    BY CellsTellRecords DEF CellsOf, ModelCell
  <2>2. <<i.def, i.model>> \o <<t>> = <<i.def, i.model, t>>
    BY Joins
  <2> QED BY <1>1, <2>1, <2>2
<1> QED BY <1>2, <1>3, <1>4

\* What a topic asked for by its path comes to for a value: nothing, if its scope
\* does not lie on the value's path, and a cell of the value if it does.
LEMMA AskIs ==
  ASSUME NEW i \in Items, NEW topics \in TopicLists, NEW path, path = repo_primary_key(i),
         NEW q \in Range(topics), NEW depth \in 0..2,
         Len(Front(q)) >= depth, IsStrictPrefix(Front(q), path)
  PROVE  LET c == Book!Cell(path, Front(q), Last(q))
         IN  \/ depth = 0 /\ c \in AskedRepo(i, topics)
             \/ depth \in 0..1 /\ c \in AskedDef(i, topics)
             \/ c \in AskedModel(i, topics)
<1>1. path = <<i.def, i.model, i.id>>
  BY DEF repo_primary_key
<1>2. /\ \A e : IsStrictPrefix(<<e>>, path) <=> e = i.def
      /\ \A e, n : IsStrictPrefix(<<e, n>>, path) <=> e = i.def /\ n = i.model
  BY <1>1, ScopesOnPath
<1>3. \A t : /\ Book!Cell(path, <<>>, t) = RepoCell(i, t)
             /\ Book!Cell(path, <<i.def>>, t) = DefCell(i, t)
             /\ Book!Cell(path, <<i.def, i.model>>, t) = ModelCell(i, t)
  BY BookCells
<1>4. CASE \E t \in Range(RepoTopics) : q = <<t>>
  <2>1. PICK t \in Range(RepoTopics) : q = <<t>>
    BY <1>4
  <2>2. Front(q) = <<>> /\ Last(q) = t
    BY <2>1, PathParts
  <2>3. Len(<<>>) = 0
    OBVIOUS
  <2>4. depth = 0
    BY <2>2, <2>3
  <2>5. RepoCell(i, t) \in AskedRepo(i, topics)
    BY <2>1 DEF AskedRepo
  <2> QED BY <1>3, <2>2, <2>4, <2>5
<1>5. CASE \E d \in Definitions : \E t \in Range(DefTopics[d]) : q = <<d, t>>
  <2>1. PICK d \in Definitions : \E t \in Range(DefTopics[d]) : q = <<d, t>>
    BY <1>5
  <2>2. PICK t \in Range(DefTopics[d]) : q = <<d, t>>
    BY <2>1
  <2>3. Front(q) = <<d>> /\ Last(q) = t
    BY <2>2, PathParts
  <2>4. d = i.def
    BY <1>2, <2>3
  <2>5. Len(<<d>>) = 1
    OBVIOUS
  <2>6. depth \in 0..1
    BY <2>3, <2>5
  <2>7. DefCell(i, t) \in AskedDef(i, topics)
    BY <2>2, <2>4 DEF AskedDef
  <2> QED BY <1>3, <2>3, <2>4, <2>6, <2>7
<1>6. CASE \E d \in Definitions : \E m \in ModelsOf[d] :
             \E t \in Range(ModelTopics[m]) : q = <<d, m, t>>
  <2>1. PICK d \in Definitions : \E m \in ModelsOf[d] :
          \E t \in Range(ModelTopics[m]) : q = <<d, m, t>>
    BY <1>6
  <2>2. PICK m \in ModelsOf[d] : \E t \in Range(ModelTopics[m]) : q = <<d, m, t>>
    BY <2>1
  <2>3. PICK t \in Range(ModelTopics[m]) : q = <<d, m, t>>
    BY <2>2
  <2>4. Front(q) = <<d, m>> /\ Last(q) = t
    <3>1. Front(<<d, m, t>>) = <<d, m>>
      BY FrontOfTriple
    <3>2. Last(<<d, m, t>>) = t
      BY LastOfTriple
    <3> QED BY <2>3, <3>1, <3>2
  <2>5. d = i.def /\ m = i.model
    BY <1>2, <2>4
  <2>6. ModelCell(i, t) \in AskedModel(i, topics)
    BY <2>3, <2>5 DEF AskedModel
  <2> QED BY <1>3, <2>4, <2>5, <2>6
<1> QED BY <1>4, <1>5, <1>6, AskedForms

\* The cell of a declared topic asked for is among those a call fills.
LEMMA FilledHas ==
  ASSUME NEW path, NEW depth, NEW ask, NEW q \in ask, q \in TopicPaths,
         NEW scope, NEW t, Front(q) = scope, Last(q) = t, Len(scope) >= depth,
         IsStrictPrefix(scope, path)
  PROVE  Book!Cell(path, scope, t) \in Book!Filled(depth, path, ask)
  BY SameHelpers DEF Book!Filled

\* Nothing else is, but the record.
LEMMA FilledHasOnly ==
  ASSUME NEW path, NEW depth, NEW ask, NEW c \in Book!Filled(depth, path, ask),
         c # Book!Cell(path, Front(path), Primary)
  PROVE  \E q \in ask : /\ Len(Front(q)) >= depth /\ IsStrictPrefix(Front(q), path)
                        /\ c = Book!Cell(path, Front(q), Last(q))
  BY SameHelpers DEF Book!Filled

\* The record is.
LEMMA FilledHasRecord ==
  ASSUME NEW path, NEW depth, NEW ask
  PROVE  Book!Cell(path, Front(path), Primary) \in Book!Filled(depth, path, ask)
  BY SameHelpers DEF Book!Filled

\* A call fills the record's cell and those asked for at its level and below.
LEMMA FilledIs ==
  ASSUME NEW i \in Items, NEW topics \in TopicLists, NEW path, path = repo_primary_key(i)
  PROVE  /\ Book!Filled(0, path, Range(topics)) =
              {RecordAt(i)} \cup AskedRepo(i, topics) \cup AskedDef(i, topics) \cup AskedModel(i, topics)
         /\ Book!Filled(1, path, Range(topics)) =
              {RecordAt(i)} \cup AskedDef(i, topics) \cup AskedModel(i, topics)
         /\ Book!Filled(2, path, Range(topics)) = {RecordAt(i)} \cup AskedModel(i, topics)
<1> DEFINE F(depth) == Book!Filled(depth, path, Range(topics))
<1>1. path = <<i.def, i.model, i.id>>
  BY DEF repo_primary_key
<1>2. Front(path) = <<i.def, i.model>> /\ Book!Cell(path, Front(path), Primary) = RecordAt(i)
  <2>1. Front(path) = <<i.def, i.model>>
    BY <1>1, FrontOfTriple
  <2>2. Book!Cell(path, <<i.def, i.model>>, Primary) = ModelCell(i, Primary)
    BY BookCells
  <2> QED BY <2>1, <2>2 DEF ModelCell, RecordAt
<1>3. ASSUME NEW depth \in 0..2, NEW c \in F(depth), c # RecordAt(i)
      PROVE  \/ depth = 0 /\ c \in AskedRepo(i, topics)
             \/ depth \in 0..1 /\ c \in AskedDef(i, topics)
             \/ c \in AskedModel(i, topics)
  <2>1. PICK q \in Range(topics) : /\ Len(Front(q)) >= depth /\ IsStrictPrefix(Front(q), path)
                                   /\ c = Book!Cell(path, Front(q), Last(q))
    BY <1>2, <1>3, FilledHasOnly
  <2> QED BY <2>1, AskIs
<1>4. ASSUME NEW depth \in 0..2
      PROVE  /\ RecordAt(i) \in F(depth)
             /\ AskedModel(i, topics) \subseteq F(depth)
             /\ depth \in 0..1 => AskedDef(i, topics) \subseteq F(depth)
             /\ depth = 0 => AskedRepo(i, topics) \subseteq F(depth)
  <2>1. RecordAt(i) \in F(depth)
    BY <1>2, FilledHasRecord
  <2>2. /\ IsStrictPrefix(<<>>, path) /\ IsStrictPrefix(<<i.def>>, path)
        /\ IsStrictPrefix(<<i.def, i.model>>, path)
        /\ Len(<<>>) = 0 /\ Len(<<i.def>>) = 1 /\ Len(<<i.def, i.model>>) = 2
    BY <1>1, ScopesOnPath
  <2>3. ASSUME NEW t \in Range(ModelTopics[i.model]), <<i.def, i.model, t>> \in Range(topics)
        PROVE  ModelCell(i, t) \in F(depth)
    <3>1. Front(<<i.def, i.model, t>>) = <<i.def, i.model>>
      BY FrontOfTriple
    <3>4. Last(<<i.def, i.model, t>>) = t
      BY LastOfTriple
    <3>2. <<i.def, i.model, t>> \in TopicPaths
      BY DeclaredPaths
    <3>3. Book!Cell(path, <<i.def, i.model>>, t) \in F(depth)
      <4>1. Len(<<i.def, i.model>>) >= depth
        BY <2>2
      <4> QED BY <2>2, <2>3, <3>1, <3>2, <3>4, <4>1, FilledHas, Zenon
    <3> QED BY <3>3, BookCells
  <2>4. ASSUME depth \in 0..1,
               NEW t \in Range(DefTopics[i.def]), <<i.def, t>> \in Range(topics)
        PROVE  DefCell(i, t) \in F(depth)
    <3>1. Front(<<i.def, t>>) = <<i.def>> /\ Last(<<i.def, t>>) = t
      BY PathParts
    <3>2. <<i.def, t>> \in TopicPaths
      BY DeclaredPaths
    <3>3. Book!Cell(path, <<i.def>>, t) \in F(depth)
      BY <2>2, <2>4, <3>1, <3>2, FilledHas
    <3> QED BY <3>3, BookCells
  <2>5. ASSUME depth = 0, NEW t \in Range(RepoTopics), <<t>> \in Range(topics)
        PROVE  RepoCell(i, t) \in F(depth)
    <3>1. Front(<<t>>) = <<>> /\ Last(<<t>>) = t
      BY PathParts
    <3>2. <<t>> \in TopicPaths
      BY DeclaredPaths
    <3>3. Book!Cell(path, <<>>, t) \in F(depth)
      BY <2>2, <2>5, <3>1, <3>2, FilledHas
    <3> QED BY <3>3, BookCells
  <2> HIDE DEF F
  <2>6. AskedModel(i, topics) \subseteq F(depth)
    BY <2>3 DEF AskedModel
  <2>7. depth \in 0..1 => AskedDef(i, topics) \subseteq F(depth)
    BY <2>4 DEF AskedDef
  <2>8. depth = 0 => AskedRepo(i, topics) \subseteq F(depth)
    BY <2>5 DEF AskedRepo
  <2> QED BY <2>1, <2>6, <2>7, <2>8
<1> HIDE DEF F
<1>5. F(0) = {RecordAt(i)} \cup AskedRepo(i, topics) \cup AskedDef(i, topics) \cup AskedModel(i, topics)
  BY <1>3, <1>4
<1>6. F(1) = {RecordAt(i)} \cup AskedDef(i, topics) \cup AskedModel(i, topics)
  BY <1>3, <1>4
<1>7. F(2) = {RecordAt(i)} \cup AskedModel(i, topics)
  BY <1>3, <1>4
<1> QED BY <1>5, <1>6, <1>7 DEF F

\* A delete takes the cells the book empties, of those that are there.
LEMMA EmptiedIs ==
  ASSUME NEW i \in Items, NEW path, path = repo_primary_key(i), StoreOK(work)
  PROVE  Book!Emptied(path) = Taken(i) \cap DOMAIN work
<1>1. path = <<i.def, i.model, i.id>>
  BY DEF repo_primary_key
<1>2. Book!Front(path) = <<i.def, i.model>> /\ Book!Last(path) = i.id
  <2>1. Front(path) = <<i.def, i.model>>
    BY <1>1, FrontOfTriple
  <2>2. Last(path) = i.id
    BY <1>1, LastOfTriple
  <2> QED BY <2>1, <2>2, SameHelpers
<1>3. Book!Emptied(path) = {c \in DOMAIN work : c[1] = <<i.def, i.model>> /\ c[3] = <<i.id>>}
  BY <1>2 DEF Book!Emptied
<1>4. ASSUME NEW c \in DOMAIN work, c[1] = <<i.def, i.model>>, c[3] = <<i.id>>
      PROVE  c \in Taken(i)
  <2>1. c \in Cells /\ Len(c[1]) = 2
    BY <1>4 DEF StoreOK
  <2>2. PICK j \in Items : \E t \in Range(ModelTopics[j.model]) \cup {Primary} : c = ModelCell(j, t)
    BY <2>1, InnerCells
  <2>3. PICK t \in Range(ModelTopics[j.model]) \cup {Primary} : c = ModelCell(j, t)
    BY <2>2
  <2>4. c[1] = <<j.def, j.model>> /\ c[3] = <<j.id>>
    BY <2>3 DEF ModelCell
  <2>5. j.def = i.def /\ j.model = i.model /\ j.id = i.id
    BY <1>4, <2>4
  <2>6. c = ModelCell(i, t) /\ t \in Range(ModelTopics[i.model]) \cup {Primary}
    BY <2>3, <2>5 DEF ModelCell
  <2> QED BY <2>6 DEF Taken, ModelCell, RecordAt
<1>5. \A c \in Taken(i) : c[1] = <<i.def, i.model>> /\ c[3] = <<i.id>>
  BY DEF Taken, RecordAt, ModelCell
<1> QED BY <1>3, <1>4, <1>5

----------------------------------------------------------------------------
(* Every call is a call of the book.                                       *)

\* A call that succeeds does all of its work, one that fails a part.
LEMMA BookDone ==
  ASSUME NEW all, NEW part
  PROVE  /\ all \in Book!Done(all, "ok")
         /\ part \in SUBSET all => part \in Book!Done(all, "failed")
  BY DEF Book!Done

\* An insert of a level is the book's insert at that depth.
LEMMA BookInsert ==
  ASSUME NEW i \in Items, NEW path, NEW depth, NEW ask, NEW cells,
         Book!Filled(depth, path, ask) = cells, Fills(cells, i.content)
  PROVE  Book!Insert(depth, path, ask, i.content)
<1>1. i.content \in Contents
  BY ItemFacts
<1>2. /\ tx = "write" /\ UNCHANGED <<tx, base>>
      /\ \E r \in {"ok", "failed"} :
           ret' = r /\ \E part \in Book!Done(cells, r) : work' = Overlay(work, part, i.content)
  BY BookDone DEF Fills
<1> QED BY <1>1, <1>2 DEF Book!Insert, Overlay

\* A delete that reaches the model is the book's.
LEMMA BookDelete ==
  ASSUME NEW i \in Items, NEW path, path = repo_primary_key(i), StoreOK(work), Empties(i)
  PROVE  Book!Delete(path)
<1>1. Book!Emptied(path) = Taken(i) \cap DOMAIN work
  BY EmptiedIs
<1>2. Book!Cell(path, Book!Front(path), Primary) = RecordAt(i)
  <2>1. path = <<i.def, i.model, i.id>>
    BY DEF repo_primary_key
  <2>2. Front(path) = <<i.def, i.model>>
    BY <2>1, FrontOfTriple
  <2>3. Book!Front(path) = <<i.def, i.model>>
    BY <2>2, SameHelpers
  <2>4. Book!Cell(path, <<i.def, i.model>>, Primary) = ModelCell(i, Primary)
    BY BookCells
  <2> QED BY <2>3, <2>4 DEF ModelCell, RecordAt
<1>3. CASE RecordAt(i) \notin DOMAIN work
  BY <1>2, <1>3 DEF Empties, Book!Delete
<1>4. CASE RecordAt(i) \in DOMAIN work
  <2> DEFINE all == Taken(i) \cap DOMAIN work
  <2>1. ASSUME NEW part \in SUBSET Taken(i), work' = Restrict(work, DOMAIN work \ part)
        PROVE  work' = Book!Restrict(work, DOMAIN work \ (part \cap DOMAIN work))
    <3>1. DOMAIN work \ part = DOMAIN work \ (part \cap DOMAIN work)
      OBVIOUS
    <3> QED BY <2>1, <3>1, SameHelpers
  <2>2. /\ tx = "write" /\ UNCHANGED <<tx, base>>
        /\ \E r \in {"ok", "failed"} :
             ret' = r /\ \E part \in Book!Done(all, r) :
                           work' = Book!Restrict(work, DOMAIN work \ part)
    <3>1. CASE work' = Restrict(work, DOMAIN work \ Taken(i)) /\ ret' = "ok"
      <4>1. work' = Book!Restrict(work, DOMAIN work \ all)
        BY <2>1, <3>1
      <4> HIDE DEF all
      <4> QED BY <1>4, <3>1, <4>1, BookDone DEF Empties
    <3>2. CASE (\E part \in SUBSET Taken(i) : work' = Restrict(work, DOMAIN work \ part))
               /\ ret' = "failed"
      <4>1. PICK part \in SUBSET Taken(i) : work' = Restrict(work, DOMAIN work \ part)
        BY <3>2
      <4>2. work' = Book!Restrict(work, DOMAIN work \ (part \cap DOMAIN work))
        BY <2>1, <4>1
      <4>3. part \cap DOMAIN work \in SUBSET all
        OBVIOUS
      <4> HIDE DEF all
      <4>4. part \cap DOMAIN work \in Book!Done(all, "failed")
        BY <4>3, BookDone
      <4> QED BY <1>4, <3>2, <4>2, <4>4 DEF Empties
    <3> QED BY <1>4, <3>1, <3>2 DEF Empties
  <2> HIDE DEF all
  <2>3. Book!Emptied(path) = all
    BY <1>1 DEF all
  <2> QED BY <1>2, <1>4, <2>2, <2>3 DEF Book!Delete
<1> QED BY <1>3, <1>4

\* A get is the book's.
LEMMA BookGet ==
  ASSUME NEW key \in RepoKeys, get(key)
  PROVE  Book!Get(key)
<1>1. PICK i \in Items : key = repo_primary_key(i)
  BY DEF RepoKeys
<1>2. /\ key = <<i.def, i.model, i.id>> /\ key[1] = i.def
      /\ Tail(key) = <<i.model, i.id>> /\ Tail(key)[1] = i.model /\ Tail(key)[2] = i.id
  BY <1>1 DEF repo_primary_key
<1>3. Book!Cell(key, Book!Front(key), Primary) = RecordAt(i)
  <2>2. Front(key) = <<i.def, i.model>>
    BY <1>2, FrontOfTriple
  <2>3. Book!Front(key) = <<i.def, i.model>>
    BY <2>2, SameHelpers
  <2>4. Book!Cell(key, <<i.def, i.model>>, Primary) = ModelCell(i, Primary)
    BY <1>1, BookCells
  <2> QED BY <2>3, <2>4 DEF ModelCell, RecordAt
<1>4. repo_get(key) = IF RecordAt(i) \in DOMAIN Seen THEN Seen[RecordAt(i)] ELSE "absent"
  BY <1>2 DEF repo_get, def_get, model_get, RecordAt
<1> QED BY <1>3, <1>4 DEF get, Book!Get, Seen

\* The inserts of each level are the book's, of the same value and topics.
LEMMA BookInserts ==
  ASSUME NEW i \in Items, NEW topics \in TopicLists, NEW path, path = repo_primary_key(i)
  PROVE  LET asked == Range(topics)
         IN  /\ insert(repo_insert(i, topics)) => Book!Insert(0, path, asked, i.content)
             /\ insert(def_insert(i, rekey(topics, i.def))) => Book!Insert(1, path, asked, i.content)
             /\ insert(model_insert(i, rekey(rekey(topics, i.def), i.model)))
                  => Book!Insert(2, path, asked, i.content)
<1> DEFINE asked == Range(topics)
<1>1. ASSUME insert(repo_insert(i, topics)) PROVE Book!Insert(0, path, asked, i.content)
  <2>1. Fills({RecordAt(i)} \cup AskedRepo(i, topics) \cup AskedDef(i, topics)
                \cup AskedModel(i, topics), i.content)
    BY <1>1, InsertSteps
  <2> QED BY <2>1, FilledIs, BookInsert
<1>2. ASSUME insert(def_insert(i, rekey(topics, i.def))) PROVE Book!Insert(1, path, asked, i.content)
  <2>1. Fills({RecordAt(i)} \cup AskedDef(i, topics) \cup AskedModel(i, topics), i.content)
    BY <1>2, InsertSteps
  <2> QED BY <2>1, FilledIs, BookInsert
<1>3. ASSUME insert(model_insert(i, rekey(rekey(topics, i.def), i.model)))
      PROVE  Book!Insert(2, path, asked, i.content)
  <2>1. Fills({RecordAt(i)} \cup AskedModel(i, topics), i.content)
    BY <1>3, InsertSteps
  <2> QED BY <2>1, FilledIs, BookInsert
<1> HIDE DEF asked
<1> QED BY <1>1, <1>2, <1>3 DEF asked

\* A delete of either level empties its key's cells or is refused.
LEMMA BookDeletes ==
  ASSUME NEW address \in Addresses, NEW key \in RepoKeys, StoreOK(work),
         \/ delete(repo_delete(address, key))
         \/ address[1] = key[1] /\ delete(def_delete(address[1], address[2], Tail(key)))
  PROVE  IF address = Front(key) THEN Book!Delete(key) ELSE Book!Misrouted
<1>1. PICK i \in Items : key = repo_primary_key(i)
  BY DEF RepoKeys
<1>2. CASE address = Front(key)
  <2>1. /\ repo_delete(address, key) = model_delete(<<i.def, i.model>>, i.id)
        /\ def_delete(address[1], address[2], Tail(key)) = model_delete(<<i.def, i.model>>, i.id)
    BY <1>1, <1>2, DeleteForms
  <2>2. Empties(i)
    BY <2>1, DeleteEmpties
  <2> QED BY <1>1, <1>2, <2>2, BookDelete
<1>3. CASE address # Front(key)
  <2>1. /\ repo_delete(address, key) = Refuse("WrongVariant")
        /\ address[1] = key[1] =>
             def_delete(address[1], address[2], Tail(key)) = Refuse("WrongVariant")
    BY <1>1, <1>3, DeleteForms
  <2>2. Refuses
    BY <2>1, RefusalKeeps
  <2> QED BY <1>3, <2>2 DEF Refuses, Book!Misrouted
<1> QED BY <1>2, <1>3

\* Every step is a step of the book or none.
LEMMA BookStep ==
  ASSUME TypeOK, [Next]_vars
  PROVE  [Book!Next]_(Book!vars)
<1>0. StoreOK(work)
  BY StoresOK
<1>1. CASE write_transaction
  BY <1>1 DEF write_transaction, Book!Begin, Book!Next
<1>2. CASE commit
  BY <1>2 DEF commit, Book!Commit, Book!Next
<1>3. CASE rollback
  BY <1>3 DEF rollback, Book!Rollback, Book!Next
<1>4. ASSUME NEW i \in Items, NEW topics \in TopicLists,
             \/ insert(repo_insert(i, topics))
             \/ insert(def_insert(i, rekey(topics, i.def)))
             \/ insert(model_insert(i, rekey(rekey(topics, i.def), i.model)))
      PROVE  Book!Next
  <2> DEFINE path == repo_primary_key(i)
             ask == Range(topics)
  <2>1. path \in RepoKeys /\ ask \in TopicSets /\ i.content \in Contents
    BY ItemFacts DEF RepoKeys, TopicSets
  <2>2. \E depth \in 0..2 : Book!Insert(depth, path, ask, i.content)
    BY <1>4, BookInserts
  <2> HIDE DEF path, ask
  <2> QED BY <2>1, <2>2 DEF Book!Next
<1>6. ASSUME NEW address \in Addresses, NEW key \in RepoKeys,
             \/ delete(repo_delete(address, key))
             \/ address[1] = key[1] /\ delete(def_delete(address[1], address[2], Tail(key)))
      PROVE  Book!Next
  <2>1. Book!Delete(key) \/ Book!Misrouted
    BY <1>0, <1>6, BookDeletes
  <2> QED BY <2>1 DEF Book!Next
<1>7. ASSUME NEW key \in RepoKeys, get(key) PROVE Book!Next
  BY <1>7, BookGet DEF Book!Next
<1>8. CASE UNCHANGED vars
  BY <1>8 DEF vars, Book!vars
<1> QED BY <1>1, <1>2, <1>3, <1>4, <1>6, <1>7, <1>8 DEF Next

\* Whatever definitions, models and topics there are, the rows change as the
\* book of their paths does: some insert's cells are filled, one model's emptied,
\* or, when a call fails, a part of that and nothing else.
THEOREM SchemaImplementsTopicBook == Spec => ImplementsTopicBook
<1>1. Init => TypeOK
  BY TypeInit
<1>2. TypeOK /\ [Next]_vars => TypeOK'
  BY TypeStep
<1>3. Init => Book!Init
  BY DEF Init, Book!Init
<1>4. TypeOK /\ [Next]_vars => [Book!Next]_(Book!vars)
  BY BookStep
<1> QED BY <1>1, <1>2, <1>3, <1>4, PTL DEF Spec, ImplementsTopicBook, Book!Spec

\* Whatever the value, the topics, the address and the key, and whatever level
\* the call comes in at, it writes, empties, refuses and tells what it was asked
\* for with them, and no other call's work.
THEOREM CallsDoTheirOwnWork == Spec => CallsActOnTheirArguments
<1> DEFINE Acts ==
      UNCHANGED <<tx, base>> =>
       /\ \A i \in Items, topics \in TopicLists :
            LET path == repo_primary_key(i)
                asked == Range(topics)
            IN  /\ insert(repo_insert(i, topics)) => Book!Insert(0, path, asked, i.content)
                /\ insert(def_insert(i, rekey(topics, i.def)))
                     => Book!Insert(1, path, asked, i.content)
                /\ insert(model_insert(i, rekey(rekey(topics, i.def), i.model)))
                     => Book!Insert(2, path, asked, i.content)
       /\ \A address \in Addresses, key \in RepoKeys :
            (\/ delete(repo_delete(address, key))
             \/ address[1] = key[1] /\ delete(def_delete(address[1], address[2], Tail(key))))
              => IF address = Front(key) THEN Book!Delete(key) ELSE Book!Misrouted
       /\ \A key \in RepoKeys : get(key) => Book!Get(key)
<1>1. ASSUME TypeOK PROVE Acts
  <2>0. StoreOK(work)
    BY <1>1, StoresOK
  <2>1. ASSUME NEW i \in Items, NEW topics \in TopicLists
        PROVE  LET path == repo_primary_key(i)
                   asked == Range(topics)
               IN  /\ insert(repo_insert(i, topics)) => Book!Insert(0, path, asked, i.content)
                   /\ insert(def_insert(i, rekey(topics, i.def)))
                        => Book!Insert(1, path, asked, i.content)
                   /\ insert(model_insert(i, rekey(rekey(topics, i.def), i.model)))
                        => Book!Insert(2, path, asked, i.content)
    BY BookInserts
  <2>2. ASSUME NEW address \in Addresses, NEW key \in RepoKeys,
               \/ delete(repo_delete(address, key))
               \/ address[1] = key[1] /\ delete(def_delete(address[1], address[2], Tail(key)))
        PROVE  IF address = Front(key) THEN Book!Delete(key) ELSE Book!Misrouted
    BY <2>0, <2>2, BookDeletes
  <2>3. ASSUME NEW key \in RepoKeys, get(key) PROVE Book!Get(key)
    BY <2>3, BookGet
  <2> QED BY <2>1, <2>2, <2>3
<1> HIDE DEF Acts
<1>2. TypeOK /\ [Next]_vars => [Acts]_vars
  BY <1>1
<1>3. Spec => [][Acts]_vars
  BY <1>2, TypeCorrect, PTL DEF Spec
<1> QED BY <1>3 DEF Acts, CallsActOnTheirArguments
=============================================================================
