--------------------------- MODULE BackendsProofs ---------------------------
(***************************************************************************)
(* The memory, fjall and redb backends implement the abstract store,       *)
(* whatever names, keys, values and bounds there are.  First the shared    *)
(* parts: finite sets put in order, and what each abstract call asks of    *)
(* whoever makes it.  Then, one backend after the other, what its data     *)
(* looks like (MemoryInv, FjallInv, RedbInv) and, call by call, that it    *)
(* stays so and that the call does to the rows what the abstract one does. *)
(***************************************************************************)
EXTENDS Backends, FiniteSetTheorems, SequenceTheorems, TLAPS

----------------------------------------------------------------------------
(* Strict orders on finite sets.                                           *)

\* R orders the elements of S, any two of them one way.
Orders(R, S) ==
  /\ \A x \in S : <<x, x>> \notin R
  /\ \A x, y \in S : x = y \/ <<x, y>> \in R \/ <<y, x>> \in R
  /\ \A x, y, z \in S : <<x, y>> \in R /\ <<y, z>> \in R => <<x, z>> \in R

Below(S, R, x) == Cardinality({y \in S : <<y, x>> \in R})

\* How many elements lie below one: fewer than there are, and more for a later one.
LEMMA BelowTyped ==
  ASSUME NEW S, IsFiniteSet(S), NEW R, Orders(R, S)
  PROVE  /\ Cardinality(S) \in Nat
         /\ \A x \in S : Below(S, R, x) \in 0..(Cardinality(S) - 1)
         /\ \A x, y \in S : <<x, y>> \in R => Below(S, R, x) < Below(S, R, y)
<1>1. Cardinality(S) \in Nat
  BY FS_CardinalityType
<1>2. ASSUME NEW x \in S PROVE Below(S, R, x) \in 0..(Cardinality(S) - 1)
  <2> DEFINE T == {y \in S : <<y, x>> \in R}
  <2>1. T \in SUBSET S /\ x \notin T
    BY DEF Orders
  <2> HIDE DEF T
  <2>2. /\ Cardinality(T) \in Nat /\ Cardinality(T) <= Cardinality(S)
        /\ Cardinality(T) = Cardinality(S) => T = S
    BY <2>1, FS_Subset, FS_CardinalityType
  <2>3. Cardinality(T) # Cardinality(S)
    BY <2>1, <2>2
  <2>4. Cardinality(T) \in 0..(Cardinality(S) - 1)
    BY <1>1, <2>2, <2>3
  <2> QED BY <2>4 DEF T, Below
<1>3. ASSUME NEW x \in S, NEW y \in S, <<x, y>> \in R PROVE Below(S, R, x) < Below(S, R, y)
  <2> DEFINE T == {z \in S : <<z, x>> \in R}
             U == {z \in S : <<z, y>> \in R}
  <2>1. T \in SUBSET U /\ U \in SUBSET S /\ x \in U /\ x \notin T
    BY <1>3 DEF Orders
  <2> HIDE DEF T, U
  <2>2. IsFiniteSet(U)
    BY <2>1, FS_Subset
  <2>3. /\ Cardinality(T) \in Nat /\ Cardinality(U) \in Nat
        /\ Cardinality(T) <= Cardinality(U) /\ (Cardinality(T) = Cardinality(U) => T = U)
    BY <2>1, <2>2, FS_Subset, FS_CardinalityType
  <2>4. Cardinality(T) < Cardinality(U)
    BY <2>1, <2>3
  <2> QED BY <2>4 DEF T, U, Below
<1> QED BY <1>1, <1>2, <1>3

\* No two elements have the same number below them.
LEMMA BelowOnce ==
  ASSUME NEW S, IsFiniteSet(S), NEW R, Orders(R, S),
         NEW x \in S, NEW y \in S, Below(S, R, x) = Below(S, R, y)
  PROVE  x = y
<1>1. Below(S, R, x) \in Int
  <2>1. Below(S, R, x) \in 0..(Cardinality(S) - 1)
    BY BelowTyped
  <2> QED BY <2>1
<1>2. <<x, y>> \notin R /\ <<y, x>> \notin R
  <2>1. \A u, v \in S : <<u, v>> \in R => Below(S, R, u) < Below(S, R, v)
    BY BelowTyped
  <2> QED BY <1>1, <2>1
<1> QED BY <1>2 DEF Orders

\* Each number is that of the elements below some element.
LEMMA BelowOnto ==
  ASSUME NEW S, IsFiniteSet(S), NEW R, Orders(R, S), NEW n \in 0..(Cardinality(S) - 1)
  PROVE  \E x \in S : Below(S, R, x) = n
<1> DEFINE C == Cardinality(S)
           f == [x \in S |-> Below(S, R, x)]
           T == {f[x] : x \in S}
<1>1. C \in Nat /\ \A x \in S : f[x] \in 0..(C - 1)
  BY BelowTyped
<1>2. ASSUME NEW x \in S, NEW y \in S, f[x] = f[y] PROVE x = y
  <2>1. Below(S, R, x) = Below(S, R, y)
    BY <1>2
  <2> QED BY <2>1, BelowOnce
<1>3. f \in Bijection(S, T)
  BY <1>2 DEF Bijection, Injection, Surjection, IsInjective
<1> HIDE DEF f
<1>4. ExistsBijection(S, T)
  BY <1>3 DEF ExistsBijection
<1>5. T \in SUBSET (0..(C - 1))
  BY <1>1
<1> HIDE DEF T
<1>6. IsFiniteSet(T) /\ Cardinality(T) = C
  BY <1>4, FS_Bijection
<1>7. IsFiniteSet(0..(C - 1)) /\ Cardinality(0..(C - 1)) = C
  <2>1. 0 \in Int /\ C - 1 \in Int
    BY <1>1
  <2>2. IsFiniteSet(0..(C - 1)) /\ Cardinality(0..(C - 1)) = IF 0 > C - 1 THEN 0 ELSE C - 1 - 0 + 1
    BY <2>1, FS_Interval
  <2> QED BY <1>1, <2>2
<1>8. T = 0..(C - 1)
  BY <1>5, <1>6, <1>7, FS_Subset
<1> QED BY <1>8 DEF T, f

\* A sequence whose elements come in the order R.
Ascends(s, R) == \A i, j \in DOMAIN s : i < j => <<s[i], s[j]>> \in R

\* A finite set put in order is a sequence of its elements, ascending.
LEMMA InOrderIs ==
  ASSUME NEW S, IsFiniteSet(S), NEW R, Orders(R, S)
  PROVE  /\ InOrder(S, R) \in Seq(S)
         /\ Range(InOrder(S, R)) = S
         /\ Ascends(InOrder(S, R), R)
<1> DEFINE C == Cardinality(S)
           nth(n) == CHOOSE x \in S : Cardinality({y \in S : <<y, x>> \in R}) = n - 1
           r == InOrder(S, R)
<1>1. C \in Nat /\ \A x \in S : Below(S, R, x) \in 0..(C - 1)
  BY BelowTyped
<1>2. ASSUME NEW n \in 1..C PROVE nth(n) \in S /\ Below(S, R, nth(n)) = n - 1
  <2>1. n - 1 \in 0..(C - 1)
    BY <1>1
  <2>2. \E x \in S : Below(S, R, x) = n - 1
    BY <2>1, BelowOnto
  <2> QED BY <2>2 DEF Below
<1>3. r = [n \in 1..C |-> nth(n)]
  BY DEF InOrder
<1> HIDE DEF r, nth
<1>4. r \in Seq(S) /\ DOMAIN r = 1..C
  BY <1>1, <1>2, <1>3
<1>5. ASSUME NEW x \in S PROVE x \in Range(r)
  <2> DEFINE n == Below(S, R, x) + 1
  <2>1. n \in 1..C /\ n - 1 = Below(S, R, x)
    BY <1>1
  <2> HIDE DEF n
  <2>2. nth(n) \in S /\ Below(S, R, nth(n)) = Below(S, R, x)
    BY <1>2, <2>1
  <2>3. nth(n) = x
    BY <2>2, BelowOnce
  <2> QED BY <1>3, <1>4, <2>1, <2>3 DEF Range
<1>6. Range(r) \subseteq S
  BY <1>2, <1>3 DEF Range
<1>7. ASSUME NEW i \in DOMAIN r, NEW j \in DOMAIN r, i < j PROVE <<r[i], r[j]>> \in R
  <2>1. /\ i \in 1..C /\ j \in 1..C /\ r[i] \in S /\ r[j] \in S
        /\ Below(S, R, r[i]) = i - 1 /\ Below(S, R, r[j]) = j - 1
    BY <1>2, <1>3, <1>4
  <2>2. r[i] # r[j]
    BY <1>7, <2>1
  <2>3. <<r[j], r[i]>> \notin R
    <3>1. \A u, v \in S : <<u, v>> \in R => Below(S, R, u) < Below(S, R, v)
      BY BelowTyped
    <3>2. <<r[j], r[i]>> \in R => j - 1 < i - 1
      BY <2>1, <3>1
    <3> QED BY <1>7, <2>1, <3>2
  <2> QED BY <2>1, <2>2, <2>3 DEF Orders
<1> QED BY <1>4, <1>5, <1>6, <1>7 DEF Ascends, r

----------------------------------------------------------------------------
(* Numbers and byte strings in order.                                      *)

\* Ascending lists a finite set of numbers, from the least.
LEMMA AscendingIs ==
  ASSUME NEW S \in SUBSET Nat, IsFiniteSet(S)
  PROVE  /\ Ascending(S) \in Seq(S)
         /\ Range(Ascending(S)) = S
         /\ \A i, j \in DOMAIN Ascending(S) : i < j => Ascending(S)[i] < Ascending(S)[j]
<1> DEFINE R == {p \in S \X S : p[1] < p[2]}
<1>1. \A x, y \in S : <<x, y>> \in R <=> x < y
  OBVIOUS
<1> HIDE DEF R
<1>2. Orders(R, S)
  BY <1>1 DEF Orders
<1>3. Ascending(S) = InOrder(S, R)
  BY DEF Ascending, R
<1>4. /\ Ascending(S) \in Seq(S)
      /\ Range(Ascending(S)) = S
      /\ Ascends(Ascending(S), R)
  BY <1>2, <1>3, InOrderIs
<1>5. \A i \in DOMAIN Ascending(S) : Ascending(S)[i] \in S
  BY <1>4
<1> QED BY <1>1, <1>4, <1>5 DEF Ascends

\* The byte strings that are kept: a key, or a key and what follows it.
Strings == {<<a>> : a \in Nat} \cup Nat \X Nat

\* What follows the key, with nothing before everything.
Second(x) == IF Len(x) = 1 THEN 0 - 1 ELSE x[2]

\* A kept string is its key, or its key and what follows it.
LEMMA StringsAre ==
  ASSUME NEW x \in Strings
  PROVE  /\ x \in Seq(Nat) /\ Len(x) \in 1..2 /\ x[1] \in Nat /\ Second(x) \in Int
         /\ Len(x) = 1 => x = <<x[1]>> /\ Second(x) = 0 - 1
         /\ Len(x) = 2 => x = <<x[1], x[2]>> /\ Second(x) = x[2] /\ x[2] \in Nat
<1>1. CASE \E a \in Nat : x = <<a>>
  BY <1>1 DEF Second
<1>2. CASE x \in Nat \X Nat
  <2>1. PICK a \in Nat : \E b \in Nat : x = <<a, b>>
    BY <1>2
  <2>2. PICK b \in Nat : x = <<a, b>>
    BY <2>1
  <2> QED BY <2>2 DEF Second
<1> QED BY <1>1, <1>2 DEF Strings

\* The prefixes of a byte string that are kept themselves: its key, and itself.
LEMMA PrefixIs ==
  ASSUME NEW x \in Strings, NEW y \in Strings
  PROVE  IsPrefix(x, y) <=> x = y \/ (Len(x) = 1 /\ x[1] = y[1])
<1>1. /\ x \in Seq(Nat) /\ Len(x) \in 1..2 /\ y \in Seq(Nat) /\ Len(y) \in 1..2
      /\ x[1] \in Nat /\ y[1] \in Nat
  BY StringsAre
<1>2. \A s \in Seq(Nat) : \A n \in 1..Len(s) :
        LET t == SubSeq(s, 1, n)
        IN  t \in Seq(Nat) /\ Len(t) = n /\ \A i \in 1..n : t[i] = s[i]
  <2>1. ASSUME NEW s \in Seq(Nat), NEW n \in 1..Len(s), NEW t, t = SubSeq(s, 1, n)
        PROVE  t \in Seq(Nat) /\ Len(t) = n /\ \A i \in 1..n : t[i] = s[i]
    <3>1. n \in Nat /\ 1 \in Int /\ n \in Int /\ n >= 1 /\ \A i \in 1..n : s[i] \in Nat
      BY ElementOfSeq, LenProperties
    <3> QED BY <2>1, <3>1, SubSeqProperties
  <2> QED BY <2>1
<1>3. SubSeq(x, 1, Len(x)) = x /\ SubSeq(y, 1, Len(y)) = y
  <2>1. \A s \in Seq(Nat) : Len(s) \in 1..2 => SubSeq(s, 1, Len(s)) = s
    <3>1. ASSUME NEW s \in Seq(Nat), Len(s) \in 1..2, NEW t, t = SubSeq(s, 1, Len(s)) PROVE t = s
      <4>1. t \in Seq(Nat) /\ Len(t) = Len(s) /\ \A i \in 1..Len(s) : t[i] = s[i]
        BY <1>2, <3>1
      <4> QED BY <3>1, <4>1
    <3> QED BY <3>1
  <2> QED BY <1>1, <2>1
<1>4. SubSeq(y, 1, 1) = <<y[1]>>
  <2>1. \A t : t = SubSeq(y, 1, 1) => t \in Seq(Nat) /\ Len(t) = 1 /\ t[1] = y[1]
    BY <1>1, <1>2
  <2>2. \A t \in Seq(Nat) : Len(t) = 1 => t = <<t[1]>>
    OBVIOUS
  <2> QED BY <2>1, <2>2
<1>5. CASE Len(x) = 1
  <2>1. x = <<x[1]>>
    BY <1>5, StringsAre
  <2>2. IsPrefix(x, y) <=> x = <<y[1]>>
    BY <1>1, <1>3, <1>4, <1>5 DEF IsPrefix
  <2> QED BY <1>1, <1>5, <2>1, <2>2
<1>6. CASE Len(x) = 2
  <2>1. IsPrefix(x, y) <=> Len(y) = 2 /\ x = y
    BY <1>1, <1>3, <1>6, SMTT(30) DEF IsPrefix
  <2> QED BY <1>6, <2>1
<1> QED BY <1>1, <1>5, <1>6

\* The order of byte strings: by key, then by what follows.
LEMMA BeforeIs ==
  ASSUME NEW x \in Strings, NEW y \in Strings
  PROVE  Before(x, y) <=> x[1] < y[1] \/ (x[1] = y[1] /\ Second(x) < Second(y))
<1>1. /\ x \in Seq(Nat) /\ Len(x) \in 1..2 /\ y \in Seq(Nat) /\ Len(y) \in 1..2
      /\ x[1] \in Nat /\ y[1] \in Nat
  BY StringsAre
<1>2. IsStrictPrefix(x, y) <=> x # y /\ Len(x) = 1 /\ x[1] = y[1]
  BY PrefixIs DEF IsStrictPrefix
<1>3. CASE Len(x) = 1 \/ Len(y) = 1
  <2>1. 1..Len(x) \cap 1..Len(y) = {1}
    <3>1. \A m, n \in 1..2 : m = 1 \/ n = 1 => 1..m \cap 1..n = {1}
      OBVIOUS
    <3> QED BY <1>1, <1>3, <3>1
  <2>2. (\E i \in 1..Len(x) \cap 1..Len(y) :
           x[i] < y[i] /\ \A j \in 1..(i - 1) : x[j] = y[j]) <=> x[1] < y[1]
    BY <2>1
  <2>3. Before(x, y) <=> x[1] < y[1] \/ (x # y /\ Len(x) = 1 /\ x[1] = y[1])
    BY <1>2, <2>2 DEF Before
  <2>4. CASE Len(x) = 1 /\ Len(y) = 1
    BY <1>1, <2>3, <2>4, StringsAre
  <2>5. CASE Len(x) = 1 /\ Len(y) = 2
    BY <1>1, <2>3, <2>5, StringsAre
  <2>6. CASE Len(x) = 2 /\ Len(y) = 1
    BY <1>1, <2>3, <2>6, StringsAre
  <2> QED BY <1>1, <1>3, <2>4, <2>5, <2>6
<1>4. CASE Len(x) = 2 /\ Len(y) = 2
  <2>1. 1..Len(x) \cap 1..Len(y) = {1, 2} /\ 1..(1 - 1) = {} /\ 1..(2 - 1) = {1}
    BY <1>4
  <2>2. (\E i \in 1..Len(x) \cap 1..Len(y) :
           x[i] < y[i] /\ \A j \in 1..(i - 1) : x[j] = y[j])
          <=> x[1] < y[1] \/ (x[2] < y[2] /\ x[1] = y[1])
    BY <2>1
  <2>3. Second(x) = x[2] /\ Second(y) = y[2]
    BY <1>4, StringsAre
  <2> QED BY <1>2, <1>4, <2>2, <2>3 DEF Before
<1> QED BY <1>1, <1>3, <1>4

\* Sorted lists a finite set of byte strings, from the least.
LEMMA SortedIs ==
  ASSUME NEW S \in SUBSET Strings, IsFiniteSet(S)
  PROVE  /\ Sorted(S) \in Seq(S)
         /\ Range(Sorted(S)) = S
         /\ \A i, j \in DOMAIN Sorted(S) : i < j => Before(Sorted(S)[i], Sorted(S)[j])
<1> DEFINE R == {p \in S \X S : Before(p[1], p[2])}
<1>1. \A x, y \in S : <<x, y>> \in R <=> Before(x, y)
  OBVIOUS
<1> HIDE DEF R
<1>2. Orders(R, S)
  <2>1. \A x, y \in S : <<x, y>> \in R <=> x[1] < y[1] \/ (x[1] = y[1] /\ Second(x) < Second(y))
    BY <1>1, BeforeIs
  <2>2. \A x \in S : x[1] \in Int /\ Second(x) \in Int
    BY StringsAre
  <2>3. \A x \in S : <<x, x>> \notin R
    BY <2>1, <2>2
  <2>4. \A x, y, z \in S : <<x, y>> \in R /\ <<y, z>> \in R => <<x, z>> \in R
    BY <2>1, <2>2
  <2>5. ASSUME NEW x \in S, NEW y \in S PROVE x = y \/ <<x, y>> \in R \/ <<y, x>> \in R
    <3>1. CASE x[1] = y[1] /\ Second(x) = Second(y)
      <4>1. x \in Strings /\ y \in Strings
        OBVIOUS
      <4>2. \/ x = <<x[1]>> /\ Second(x) = 0 - 1
            \/ x = <<x[1], x[2]>> /\ Second(x) = x[2] /\ x[2] \in Nat
        BY <4>1, StringsAre
      <4>3. \/ y = <<y[1]>> /\ Second(y) = 0 - 1
            \/ y = <<y[1], y[2]>> /\ Second(y) = y[2] /\ y[2] \in Nat
        BY <4>1, StringsAre
      <4>4. CASE x = <<x[1]>> /\ Second(x) = 0 - 1
        <5>1. y = <<y[1]>>
          BY <3>1, <4>3, <4>4
        <5> QED BY <3>1, <4>4, <5>1
      <4>5. CASE x = <<x[1], x[2]>> /\ Second(x) = x[2] /\ x[2] \in Nat
        <5>1. y = <<y[1], y[2]>> /\ y[2] = x[2]
          BY <3>1, <4>3, <4>5
        <5> QED BY <3>1, <4>5, <5>1
      <4> QED BY <4>2, <4>4, <4>5
    <3>2. CASE ~(x[1] = y[1] /\ Second(x) = Second(y))
      <4>1. x[1] \in Int /\ y[1] \in Int /\ Second(x) \in Int /\ Second(y) \in Int
        BY <2>2
      <4>2. \/ x[1] < y[1] \/ (x[1] = y[1] /\ Second(x) < Second(y))
            \/ y[1] < x[1] \/ (y[1] = x[1] /\ Second(y) < Second(x))
        BY <3>2, <4>1
      <4>3. x \in S /\ y \in S
        OBVIOUS
      <4> QED BY <2>1, <4>2, <4>3
    <3> QED BY <3>1, <3>2
  <2> QED BY <2>3, <2>4, <2>5 DEF Orders
<1>3. Sorted(S) = InOrder(S, R)
  BY DEF Sorted, R
<1>4. /\ Sorted(S) \in Seq(S)
      /\ Range(Sorted(S)) = S
      /\ Ascends(Sorted(S), R)
  BY <1>2, <1>3, InOrderIs
<1>5. \A i \in DOMAIN Sorted(S) : Sorted(S)[i] \in S
  BY <1>4
<1> QED BY <1>1, <1>4, <1>5 DEF Ascends

\* Whether a byte string lies between two bounds.
Above(lo, x) ==
  lo.kind = "Unbounded" \/ Before(lo.at, x) \/ (lo.kind = "Included" /\ x = lo.at)
BelowEnd(hi, x) ==
  hi.kind = "Unbounded" \/ Before(x, hi.at) \/ (hi.kind = "Included" /\ x = hi.at)

\* What lies between two bounds: the strings above the one and below the
\* other, in order.
LEMMA WithinIs ==
  ASSUME NEW S \in SUBSET Strings, IsFiniteSet(S), NEW lo, NEW hi
  PROVE  /\ Within(S, lo, hi) \in Seq(S)
         /\ Range(Within(S, lo, hi)) = {x \in S : Above(lo, x) /\ BelowEnd(hi, x)}
         /\ \A i, j \in DOMAIN Within(S, lo, hi) :
              i < j => Before(Within(S, lo, hi)[i], Within(S, lo, hi)[j])
<1> DEFINE T == {x \in S : Above(lo, x) /\ BelowEnd(hi, x)}
<1>1. Within(S, lo, hi) = Sorted(T)
  BY DEF Within, Above, BelowEnd
<1>2. T \in SUBSET S
  OBVIOUS
<1> HIDE DEF T
<1>3. T \in SUBSET Strings /\ IsFiniteSet(T)
  BY <1>2, FS_Subset
<1>4. /\ Sorted(T) \in Seq(T) /\ Range(Sorted(T)) = T
      /\ \A i, j \in DOMAIN Sorted(T) : i < j => Before(Sorted(T)[i], Sorted(T)[j])
  BY <1>3, SortedIs
<1>5. Sorted(T) \in Seq(S)
  BY <1>2, <1>4
<1> QED BY <1>1, <1>4, <1>5 DEF T

----------------------------------------------------------------------------
(* The abstract store.                                                     *)

RowSet == [name : Names, key : Keys, val : Vals]

\* There are finitely many rows a caller can write.
FinitelyManyRows == IsFiniteSet(RowSet)

\* A row before all others of a set is the first of it.
LEMMA FirstIs ==
  ASSUME NEW rows \in SUBSET RowSet, NEW r \in rows,
         \A s \in rows \ {r} : Store!RowBefore(r, s)
  PROVE  Store!First(rows) = r
<1>1. \A s \in RowSet : s.key \in Nat /\ s.val \in Nat
  BY TablesAssumption DEF RowSet
<1>2. ASSUME NEW s \in rows, \A t \in rows \ {s} : Store!RowBefore(s, t) PROVE s = r
  <2>1. s # r => Store!RowBefore(r, s) /\ Store!RowBefore(s, r)
    BY <1>2
  <2> QED BY <1>1, <2>1 DEF Store!RowBefore
<1>3. Store!First(rows) = CHOOSE s \in rows : \A t \in rows \ {s} : Store!RowBefore(s, t)
  BY DEF Store!First
<1> QED BY <1>2, <1>3

\* Rows in ascending order.
RowsAscend(q) == \A i, j \in DOMAIN q : i < j => Store!RowBefore(q[i], q[j])

\* The head of ascending rows is the first of them, the tail the others.
LEMMA HeadIsFirst ==
  ASSUME NEW q \in Seq(RowSet), q # <<>>, RowsAscend(q)
  PROVE  /\ Store!First(Range(q)) = q[1]
         /\ Range(Tail(q)) = Range(q) \ {q[1]}
         /\ Tail(q) \in Seq(RowSet) /\ RowsAscend(Tail(q))
<1>1. Len(q) \in Nat /\ Len(q) >= 1 /\ DOMAIN q = 1..Len(q) /\ \A i \in 1..Len(q) : q[i] \in RowSet
  OBVIOUS
<1>2. /\ Tail(q) \in Seq(RowSet) /\ DOMAIN Tail(q) = 1..(Len(q) - 1)
      /\ \A i \in 1..(Len(q) - 1) : Tail(q)[i] = q[i + 1]
  BY <1>1, HeadTailProperties
<1>3. \A i \in 2..Len(q) : Store!RowBefore(q[1], q[i])
  BY <1>1 DEF RowsAscend
<1>4. \A i \in 2..Len(q) : q[i] # q[1]
  <2>1. \A r \in RowSet : ~Store!RowBefore(r, r)
    <3>1. \A s \in RowSet : s.key \in Nat /\ s.val \in Nat
      BY TablesAssumption DEF RowSet
    <3> QED BY <3>1 DEF Store!RowBefore
  <2> QED BY <1>1, <1>3, <2>1
<1>5. Range(q) \in SUBSET RowSet /\ q[1] \in Range(q)
  BY <1>1 DEF Range
<1>6. \A s \in Range(q) \ {q[1]} : \E i \in 2..Len(q) : s = q[i]
  <2>1. ASSUME NEW s \in Range(q) \ {q[1]} PROVE \E i \in 2..Len(q) : s = q[i]
    <3>1. PICK i \in 1..Len(q) : s = q[i]
      BY <1>1 DEF Range
    <3>2. i \in 2..Len(q)
      BY <1>1, <3>1
    <3> QED BY <3>1, <3>2
  <2> QED BY <2>1
<1>7. Store!First(Range(q)) = q[1]
  BY <1>3, <1>5, <1>6, FirstIs
<1>8. Range(Tail(q)) = Range(q) \ {q[1]}
  <2>1. ASSUME NEW s \in Range(q) \ {q[1]} PROVE s \in Range(Tail(q))
    <3>1. PICK i \in 2..Len(q) : s = q[i]
      BY <1>6
    <3>2. i - 1 \in 1..(Len(q) - 1) /\ (i - 1) + 1 = i
      BY <1>1
    <3>3. Tail(q)[i - 1] = q[i]
      BY <1>2, <3>2
    <3> QED BY <1>2, <3>1, <3>2, <3>3 DEF Range
  <2>2. ASSUME NEW i \in 1..(Len(q) - 1) PROVE Tail(q)[i] \in Range(q) \ {q[1]}
    <3>1. i + 1 \in 2..Len(q) /\ Tail(q)[i] = q[i + 1]
      BY <1>1, <1>2
    <3> QED BY <1>1, <1>4, <3>1 DEF Range
  <2> QED BY <1>2, <2>1, <2>2 DEF Range
<1>9. RowsAscend(Tail(q))
  <2>1. ASSUME NEW i \in 1..(Len(q) - 1), NEW j \in 1..(Len(q) - 1), i < j
        PROVE  Store!RowBefore(Tail(q)[i], Tail(q)[j])
    <3>1. i + 1 \in 1..Len(q) /\ j + 1 \in 1..Len(q) /\ i + 1 < j + 1
      BY <1>1, <2>1
    <3> QED BY <1>1, <1>2, <3>1 DEF RowsAscend
  <2> QED BY <1>2, <2>1 DEF RowsAscend
<1> QED BY <1>2, <1>7, <1>8, <1>9

----------------------------------------------------------------------------
(* The calls every backend answers alike.                                  *)

\* Between transactions there is no iterator, a read transaction sees what is
\* committed, and a closed memory store is empty.
TxInv ==
  /\ tx \in {"closed", "idle", "read", "write"}
  /\ iter.open \in BOOLEAN
  /\ ~Reading => ~iter.open
  /\ tx = "read" => RowsOf(work) = RowsOf(base)
  /\ tx = "closed" /\ backend = "memory" => RowsOf(base) = {}

\* The abstract store tells its answers as the backends do.
LEMMA SameAnswers ==
  /\ \A r : Store!Ret(r) = Ret(r)
  /\ \A row : Store!RetRow(row) = RetRow(row)
  /\ \A S : Store!Cardinality(S) = Cardinality(S)
BY DEF Store!Ret, Ret, Store!RetRow, RetRow, Store!NoRow, NoRow, Store!Cardinality, Cardinality

\* There is a number of rows there is room for.
LEMMA RoomyIs == FinitelyManyRows => Roomy \in Nat
BY FS_CardinalityType DEF FinitelyManyRows, RowSet, Roomy

\* Opening a store that keeps its rows, or that had none, is the abstract
\* Open.
LEMMA OpenMaps ==
  ASSUME FinitelyManyRows, TxInv, UNCHANGED backend, tx = "closed", tx' = "idle",
         RowsOf(base)' = RowsOf(base), ret' = Ret("ok"), iter' = iter
  PROVE  Store!Open(0)
<1>1. ~(Roomy < 0)
  BY RoomyIs
<1>2. iter.open = FALSE
  BY DEF TxInv, Reading
<1> QED BY <1>1, <1>2, SameAnswers DEF Store!Open

\* Closing a store is the abstract Close: a memory store's rows are gone.
LEMMA CloseMaps ==
  ASSUME TxInv, UNCHANGED backend, tx = "idle", tx' = "closed", ret' = Ret("ok"),
         RowsOf(base)' = (IF backend = "memory" THEN {} ELSE RowsOf(base)), iter'.open = FALSE
  PROVE  Store!Close
<1>1. iter.open = FALSE
  BY DEF TxInv, Reading
<1> QED BY <1>1, SameAnswers DEF Store!Close, Store!Surviving

\* A crash is the abstract Crash: what was staged is gone, and in memory
\* everything.
LEMMA CrashMaps ==
  ASSUME TxInv, UNCHANGED backend, tx # "closed", tx' = "closed", ret' = Ret("crashed"),
         RowsOf(base)' = (IF backend = "memory" THEN {} ELSE RowsOf(base)), iter'.open = FALSE
  PROVE  Store!Crash
BY SameAnswers DEF Store!Crash, Store!Surviving

\* A read transaction on the committed rows is the abstract BeginRead.
LEMMA BeginReadMaps ==
  ASSUME TxInv, UNCHANGED <<backend, base, iter>>, tx = "idle", tx' = "read", ret' = Ret("ok")
  PROVE  Store!BeginRead
<1>1. iter.open = FALSE /\ RowsOf(base)' = RowsOf(base)
  BY DEF TxInv, Reading, RowsOf
<1> QED BY <1>1, SameAnswers DEF Store!BeginRead

\* A write transaction that stages the committed rows is the abstract
\* BeginWrite.
LEMMA BeginWriteMaps ==
  ASSUME TxInv, UNCHANGED <<backend, base, iter>>, work' = base, tx = "idle", tx' = "write",
         ret' = Ret("ok")
  PROVE  Store!BeginWrite
<1>1. iter.open = FALSE /\ RowsOf(base)' = RowsOf(base) /\ RowsOf(work)' = RowsOf(base)
  BY DEF TxInv, Reading, RowsOf
<1> QED BY <1>1, SameAnswers DEF Store!BeginWrite

\* Publishing what is staged is the abstract Commit.
LEMMA CommitMaps ==
  ASSUME TxInv, UNCHANGED backend, Writing, base' = work, tx' = "idle", iter'.open = FALSE,
         ret' = Ret("ok")
  PROVE  Store!Commit
<1>1. tx = "write" /\ iter.open = FALSE /\ RowsOf(base)' = RowsOf(work)
  BY DEF TxInv, Writing, RowsOf
<1> QED BY <1>1, SameAnswers DEF Store!Commit

\* Ending a transaction without publishing is the abstract Rollback.
LEMMA RollbackMaps ==
  ASSUME NEW r, TxInv, UNCHANGED <<backend, base>>, Reading, tx' = "idle", iter'.open = FALSE,
         ret' = Ret(r)
  PROVE  Store!Rollback(Store!Ret(r))
<1>1. RowsOf(base)' = RowsOf(base) /\ tx \in {"read", "write"}
  BY DEF RowsOf, Reading
<1> QED BY <1>1, SameAnswers DEF Store!Rollback

\* What a call finds: the rows of the transaction's view.
LEMMA VisibleIs ==
  ASSUME TxInv, Reading
  PROVE  Store!Visible = RowsOf(work)
BY DEF TxInv, Reading, Store!Visible

GetsFirst(rows) == IF rows = {} THEN Ret("absent") ELSE RetRow(Store!First(rows))

\* An answer with the first row at a key, and no change, is the abstract Get.
LEMMA GetMaps ==
  ASSUME TxInv, UNCHANGED <<backend, tx, base, iter>>, Reading,
         RowsOf(work)' = RowsOf(work), Pending' = Pending, NEW n, NEW k,
         ret' = GetsFirst(Store!RowsAt(RowsOf(work), n, k))
  PROVE  Store!Get(n, k)
<1>1. RowsOf(base)' = RowsOf(base) /\ tx \in {"read", "write"}
  BY DEF RowsOf, Reading
<1> QED BY <1>1, VisibleIs, SameAnswers DEF Store!Get, GetsFirst

\* Refusing a table that has no committed rows is the abstract NoSuchTable.
LEMMA NoSuchTableMaps ==
  ASSUME UNCHANGED <<backend, tx, base, iter>>, tx = "read", Pending' = Pending,
         NEW n, \A r \in RowsOf(base) : r.name # n, ret' = Ret("TableOpen")
  PROVE  Store!NoSuchTable(n)
<1>1. RowsOf(base)' = RowsOf(base)
  BY DEF RowsOf
<1> QED BY <1>1, SameAnswers DEF Store!NoSuchTable

\* An iterator with the rows in a range left is the abstract Scan.
LEMMA ScanMaps ==
  ASSUME TxInv, UNCHANGED <<backend, tx, base>>, Reading, ~iter.open,
         RowsOf(work)' = RowsOf(work), NEW n, NEW lo, NEW hi, iter'.open = TRUE, 
         Pending' = Store!RowsIn(RowsOf(work), n, lo, hi), ret' = Ret("ok")
  PROVE  Store!Scan(n, lo, hi)
<1>1. RowsOf(base)' = RowsOf(base) /\ tx \in {"read", "write"}
  BY DEF RowsOf, Reading
<1> QED BY <1>1, VisibleIs, SameAnswers DEF Store!Scan

\* Yielding the first row that is left is the abstract ScanNext.
LEMMA ScanNextMaps ==
  ASSUME UNCHANGED <<backend, tx, base, work>>, Scanning, iter'.open = TRUE,
         IF Pending = {} THEN ret' = Ret("end") /\ Pending' = {}
         ELSE ret' = RetRow(Store!First(Pending)) /\ Pending' = Pending \ {Store!First(Pending)}
  PROVE  Store!ScanNext
<1>1. RowsOf(base)' = RowsOf(base) /\ RowsOf(work)' = RowsOf(work) /\ iter.open
  BY DEF RowsOf, Scanning
<1> QED BY <1>1, SameAnswers DEF Store!ScanNext, Scanning

\* Dropping the iterator is the abstract EndScan.
LEMMA EndScanMaps ==
  ASSUME UNCHANGED <<backend, tx, base, work>>, Scanning, iter'.open = FALSE, ret' = Ret("ok")
  PROVE  Store!EndScan
<1>1. RowsOf(base)' = RowsOf(base) /\ RowsOf(work)' = RowsOf(work) /\ iter.open
  BY DEF RowsOf, Scanning
<1> QED BY <1>1, SameAnswers DEF Store!EndScan, Scanning

\* A write of a transaction without an iterator.
Writes(rows, r) ==
  /\ Writing
  /\ UNCHANGED <<backend, tx, base, iter>>
  /\ RowsOf(work)' = rows
  /\ ret' = r

\* The abstract rows of a call's own arguments.
LEMMA AbstractRow ==
  \A n, k, v : [name |-> n, key |-> k, val |-> v] = Row(n, k, v)
BY DEF Row

\* A row of a table's name, a key and a value is one a caller can write.
LEMMA RowTyped ==
  ASSUME NEW n \in Names, NEW k \in Keys, NEW v \in Vals
  PROVE  Row(n, k, v) \in RowSet
BY DEF Row, RowSet

\* Replacing the rows at a key with one row is the abstract InsertPlain:
\* there is room.
LEMMA InsertPlainMaps ==
  ASSUME FinitelyManyRows, RowsOf(work) \in SUBSET RowSet,
         NEW n \in Names, NEW k \in Keys, NEW v \in Vals,
         Writes((RowsOf(work) \ Store!RowsAt(RowsOf(work), n, k)) \cup {Row(n, k, v)}, Ret("ok"))
  PROVE  Store!InsertPlain(n, k, v)
<1> DEFINE rows == (RowsOf(work) \ Store!RowsAt(RowsOf(work), n, k)) \cup {Row(n, k, v)}
<1>1. rows \in SUBSET RowSet
  BY RowTyped
<1>2. RowsOf(base)' = RowsOf(base) /\ tx = "write" /\ ~iter.open
  BY DEF RowsOf, Writing, Writes
<1>3. Cardinality(rows) <= Roomy
  BY <1>1, FS_Subset DEF FinitelyManyRows, RowSet, Roomy
<1> QED BY <1>2, <1>3, SameAnswers, AbstractRow DEF Store!InsertPlain, Store!Stage, Writes

\* Adding one row is the abstract InsertMulti: there is room.
LEMMA InsertMultiMaps ==
  ASSUME FinitelyManyRows, RowsOf(work) \in SUBSET RowSet,
         NEW n \in Names, NEW k \in Keys, NEW v \in Vals,
         Writes(RowsOf(work) \cup {Row(n, k, v)}, Ret("ok"))
  PROVE  Store!InsertMulti(n, k, v)
<1> DEFINE rows == RowsOf(work) \cup {Row(n, k, v)}
<1>1. rows \in SUBSET RowSet
  BY RowTyped
<1>2. RowsOf(base)' = RowsOf(base) /\ tx = "write" /\ ~iter.open
  BY DEF RowsOf, Writing, Writes
<1>3. Cardinality(rows) <= Roomy
  BY <1>1, FS_Subset DEF FinitelyManyRows, RowSet, Roomy
<1> QED BY <1>2, <1>3, SameAnswers, AbstractRow DEF Store!InsertMulti, Store!Stage, Writes

\* Taking the rows at a key away is the abstract Remove, and tells whether
\* there were any.
LEMMA RemoveMaps ==
  ASSUME NEW n, NEW k, NEW existed \in BOOLEAN,
         existed <=> Store!RowsAt(RowsOf(work), n, k) # {},
         Writes(RowsOf(work) \ Store!RowsAt(RowsOf(work), n, k), Removed(existed))
  PROVE  Store!Remove(n, k)
<1>1. RowsOf(base)' = RowsOf(base) /\ tx = "write" /\ ~iter.open
  BY DEF RowsOf, Writing, Writes
<1>2. Store!RowsAt(RowsOf(work), n, k) \cap RowsOf(work) = Store!RowsAt(RowsOf(work), n, k)
  BY DEF Store!RowsAt
<1> QED BY <1>1, <1>2, SameAnswers DEF Store!Remove, Store!Unstage, Writes, Removed

\* Taking one row away is the abstract RemoveValue, and tells whether it was
\* there.
LEMMA RemoveValueMaps ==
  ASSUME NEW n, NEW k, NEW v, NEW existed \in BOOLEAN,
         existed <=> Row(n, k, v) \in RowsOf(work),
         Writes(RowsOf(work) \ {Row(n, k, v)}, Removed(existed))
  PROVE  Store!RemoveValue(n, k, v)
<1>1. RowsOf(base)' = RowsOf(base) /\ tx = "write" /\ ~iter.open
  BY DEF RowsOf, Writing, Writes
<1>2. {Row(n, k, v)} \cap RowsOf(work) = {} <=> ~existed
  OBVIOUS
<1> QED BY <1>1, <1>2, SameAnswers, AbstractRow
        DEF Store!RemoveValue, Store!Unstage, Writes, Removed

\* Refusing to take one value from a plain table is the abstract refusal.
LEMMA RemoveValuePlainMaps ==
  ASSUME Writes(RowsOf(work), Ret("Unsupported"))
  PROVE  Store!RemoveValuePlain
<1>1. RowsOf(base)' = RowsOf(base) /\ tx = "write" /\ ~iter.open
  BY DEF RowsOf, Writing, Writes
<1> QED BY <1>1, SameAnswers DEF Store!RemoveValuePlain, Writes

\* What keeps TxInv: a call in a transaction, the end of one, its beginning.
LEMMA TxStays ==
  ASSUME TxInv, UNCHANGED <<backend, tx, base>>, Reading, iter'.open \in BOOLEAN,
         tx = "write" \/ RowsOf(work)' = RowsOf(work)
  PROVE  TxInv'
<1>1. RowsOf(base)' = RowsOf(base)
  BY DEF RowsOf
<1> QED BY <1>1 DEF TxInv, Reading

\* The end of a transaction, or of the store's handle, keeps TxInv.
LEMMA TxEnds ==
  ASSUME UNCHANGED backend, tx' \in {"closed", "idle"}, iter'.open = FALSE,
         tx' = "closed" /\ backend = "memory" => RowsOf(base)' = {}
  PROVE  TxInv'
BY DEF TxInv, Reading

\* The beginning of a transaction keeps TxInv.
LEMMA TxBegins ==
  ASSUME TxInv, UNCHANGED <<backend, base, iter>>, work' = base, tx' \in {"read", "write"}
  PROVE  TxInv'
<1>1. RowsOf(base)' = RowsOf(base) /\ RowsOf(work)' = RowsOf(base)
  BY DEF RowsOf
<1> QED BY <1>1 DEF TxInv, Reading

----------------------------------------------------------------------------
(* The memory backend: its map and its slots.                              *)

\* The helpers the memory backend shares with the others.
LEMMA MemoryHelpers ==
  /\ Memory!Names = Names
  /\ \A n, k, v : Memory!Row(n, k, v) = Row(n, k, v)
  /\ \A r : Memory!Ret(r) = Ret(r) /\ Memory!RetRow(r) = RetRow(r) /\ Memory!Removed(r) = Removed(r)
  /\ \A s : Memory!Range(s) = Range(s)
  /\ Memory!Reading = Reading /\ Memory!Writing = Writing /\ Memory!Scanning = Scanning
<1>1. Memory!Names = Names
  BY DEF Memory!Names, Names
<1>2. \A n, k, v : Memory!Row(n, k, v) = Row(n, k, v)
  BY DEF Memory!Row, Row
<1>3. \A r : Memory!Ret(r) = Ret(r)
  BY DEF Memory!Ret, Ret, Memory!NoRow, NoRow
<1>4. \A r : Memory!RetRow(r) = RetRow(r)
  BY DEF Memory!RetRow, RetRow
<1>5. \A r : Memory!Removed(r) = Removed(r)
  BY <1>3 DEF Memory!Removed, Removed
<1>6. \A s : Memory!Range(s) = Range(s)
  BY DEF Memory!Range, Range
<1>7. Memory!Reading = Reading /\ Memory!Writing = Writing /\ Memory!Scanning = Scanning
  BY DEF Memory!Reading, Reading, Memory!Writing, Writing, Memory!Scanning, Scanning
<1> QED BY <1>1, <1>2, <1>3, <1>4, <1>5, <1>6, <1>7

\* The memory backend's copies of the operators on orders and maps.
LEMMA MemoryOrders ==
  /\ \A S : Memory!Sorted(S) = Sorted(S) /\ Memory!Ascending(S) = Ascending(S)
  /\ \A S, lo, hi : Memory!Within(S, lo, hi) = Within(S, lo, hi)
  /\ \A map, key, value : Memory!Put(map, key, value) = Put(map, key, value)
<1>1. \A x, y : Memory!Before(x, y) <=> Before(x, y)
  BY DEF Memory!Before, Before, Memory!IsStrictPrefix, IsStrictPrefix, Memory!IsPrefix, IsPrefix
<1>3. \A S, R : Memory!InOrder(S, R) = InOrder(S, R)
  BY DEF Memory!InOrder, InOrder, Memory!Cardinality, Cardinality
<1>4. \A S : Memory!Sorted(S) = Sorted(S)
  <2>1. \A S : {p \in S \X S : Memory!Before(p[1], p[2])} = {p \in S \X S : Before(p[1], p[2])}
    BY <1>1
  <2> QED BY <1>3, <2>1 DEF Memory!Sorted, Sorted
<1>5. \A S : Memory!Ascending(S) = Ascending(S)
  BY <1>3 DEF Memory!Ascending, Ascending
<1>6. \A S, lo, hi : Memory!Within(S, lo, hi) = Within(S, lo, hi)
  BY <1>4 DEF Memory!Within, Within, Memory!Before, Before, Memory!IsStrictPrefix, IsStrictPrefix,
              Memory!IsPrefix, IsPrefix
<1>7. \A map, key, value : Memory!Put(map, key, value) = Put(map, key, value)
  BY DEF Memory!Put, Put
<1> QED BY <1>4, <1>5, <1>6, <1>7

\* The values of a slot: at least one, ascending; a plain table's just one.
SlotOK(n, s) ==
  /\ s \in Seq(Vals) \ {<<>>}
  /\ \A i, j \in 1..Len(s) : i < j => s[i] < s[j]
  /\ n \in PlainTables => Len(s) = 1

MapGood(map) == Memory!MapOK(map) /\ IsFiniteSet(DOMAIN map)

\* A map in form: finitely many slots, each in form.
LEMMA MapGoodIs ==
  ASSUME NEW map
  PROVE  MapGood(map) <=> /\ DOMAIN map \in SUBSET (Names \X Keys) /\ IsFiniteSet(DOMAIN map)
                          /\ \A p \in DOMAIN map : SlotOK(p[1], map[p])
BY MemoryHelpers DEF MapGood, Memory!MapOK, SlotOK

\* A fresh map is in form and has no rows.
LEMMA EmptyMapGood == MapGood(<<>>) /\ Memory!RowsOf(<<>>) = {}
BY MapGoodIs, FS_EmptySet DEF Memory!RowsOf

\* A slot in form: its values, ascending, the first before the others.
LEMMA SlotFacts ==
  ASSUME NEW n, NEW s, SlotOK(n, s)
  PROVE  /\ s \in Seq(Vals) /\ Len(s) \in Nat /\ Len(s) >= 1 /\ DOMAIN s = 1..Len(s)
         /\ s # <<>> /\ Range(s) # {} /\ s[1] \in Range(s)
         /\ IsFiniteSet(Range(s)) /\ Range(s) \in SUBSET Vals
         /\ \A v \in Range(s) : v = s[1] \/ s[1] < v
<1>1. s \in Seq(Vals) /\ Len(s) \in Nat /\ Len(s) >= 1 /\ DOMAIN s = 1..Len(s) /\ s # <<>>
  BY DEF SlotOK
<1>2. \A i \in 1..Len(s) : s[i] \in Vals
  BY <1>1
<1>3. s[1] \in Range(s) /\ Range(s) \in SUBSET Vals
  BY <1>1, <1>2 DEF Range
<1>4. IsFiniteSet(Range(s))
  <2>1. s \in Surjection(1..Len(s), Range(s))
    BY <1>1 DEF Surjection, Range
  <2>2. IsFiniteSet(1..Len(s))
    BY <1>1, FS_Interval
  <2> QED BY <2>1, <2>2, FS_Surjection
<1>5. ASSUME NEW v \in Range(s) PROVE v = s[1] \/ s[1] < v
  <2>1. PICK i \in 1..Len(s) : v = s[i]
    BY <1>1 DEF Range
  <2>2. i = 1 \/ 1 < i
    BY <1>1
  <2> QED BY <1>1, <2>1, <2>2 DEF SlotOK
<1> QED BY <1>1, <1>3, <1>4, <1>5

\* The rows of a map, one by one.
LEMMA MapHas ==
  ASSUME NEW map, MapGood(map)
  PROVE  /\ Memory!RowsOf(map) \in SUBSET RowSet
         /\ \A r \in RowSet : r \in Memory!RowsOf(map) <=>
              /\ <<r.name, r.key>> \in DOMAIN map
              /\ r.val \in Range(map[<<r.name, r.key>>])
<1>1. /\ DOMAIN map \in SUBSET (Names \X Keys)
      /\ \A p \in DOMAIN map : SlotOK(p[1], map[p])
  BY MapGoodIs
<1>2. Memory!RowsOf(map) = UNION {{Row(p[1], p[2], v) : v \in Range(map[p])} : p \in DOMAIN map}
  BY MemoryHelpers DEF Memory!RowsOf
<1>3. \A r : r \in Memory!RowsOf(map) <=>
        \E p \in DOMAIN map : \E v \in Range(map[p]) : r = Row(p[1], p[2], v)
  BY <1>2
<1>4. \A p \in DOMAIN map : /\ p = <<p[1], p[2]>> /\ p[1] \in Names /\ p[2] \in Keys
                            /\ Range(map[p]) \in SUBSET Vals
  BY <1>1, SlotFacts
<1>5. Memory!RowsOf(map) \in SUBSET RowSet
  BY <1>3, <1>4 DEF Row, RowSet
<1>6. ASSUME NEW r \in RowSet
      PROVE  r \in Memory!RowsOf(map) <=> /\ <<r.name, r.key>> \in DOMAIN map
                                          /\ r.val \in Range(map[<<r.name, r.key>>])
  <2>1. ASSUME r \in Memory!RowsOf(map)
        PROVE  <<r.name, r.key>> \in DOMAIN map /\ r.val \in Range(map[<<r.name, r.key>>])
    <3>1. PICK p \in DOMAIN map : \E v \in Range(map[p]) : r = Row(p[1], p[2], v)
      BY <1>3, <2>1
    <3>2. p = <<r.name, r.key>> /\ r.val \in Range(map[p])
      BY <1>4, <3>1 DEF Row
    <3> QED BY <3>2
  <2>2. ASSUME <<r.name, r.key>> \in DOMAIN map, r.val \in Range(map[<<r.name, r.key>>])
        PROVE  r \in Memory!RowsOf(map)
    <3> DEFINE p == <<r.name, r.key>>
    <3>1. p \in DOMAIN map /\ p[1] = r.name /\ p[2] = r.key /\ r.val \in Range(map[p])
      BY <2>2
    <3>2. r = Row(r.name, r.key, r.val)
      BY DEF Row, RowSet
    <3> HIDE DEF p
    <3> QED BY <1>3, <3>1, <3>2
  <2> QED BY <2>1, <2>2
<1> QED BY <1>5, <1>6

\* The rows of one slot.
SlotRows(n, k, values) == {Row(n, k, v) : v \in values}

\* The rows at a key are those of its slot.
LEMMA SlotRowsAt ==
  ASSUME NEW map, MapGood(map), NEW n \in Names, NEW k \in Keys
  PROVE  Store!RowsAt(Memory!RowsOf(map), n, k) =
           IF <<n, k>> \in DOMAIN map THEN SlotRows(n, k, Range(map[<<n, k>>])) ELSE {}
<1>1. \A r : r \in Store!RowsAt(Memory!RowsOf(map), n, k) <=>
        r \in RowSet /\ r.name = n /\ r.key = k /\ <<n, k>> \in DOMAIN map
        /\ r.val \in Range(map[<<n, k>>])
  BY MapHas DEF Store!RowsAt
<1>2. CASE <<n, k>> \notin DOMAIN map
  BY <1>1, <1>2
<1>3. CASE <<n, k>> \in DOMAIN map
  <2>1. Range(map[<<n, k>>]) \in SUBSET Vals
    <3>1. SlotOK(n, map[<<n, k>>])
      <4>1. \A p \in DOMAIN map : SlotOK(p[1], map[p])
        BY MapGoodIs
      <4> QED BY <1>3, <4>1
    <3> QED BY <3>1, SlotFacts
  <2>2. \A r : r \in SlotRows(n, k, Range(map[<<n, k>>])) <=>
          r \in RowSet /\ r.name = n /\ r.key = k /\ r.val \in Range(map[<<n, k>>])
    BY <2>1 DEF SlotRows, Row, RowSet
  <2> QED BY <1>1, <1>3, <2>2
<1> QED BY <1>2, <1>3

\* Putting a slot in place of the rows of its key.
LEMMA PutSlot ==
  ASSUME NEW map, MapGood(map), NEW n \in Names, NEW k \in Keys, NEW s, SlotOK(n, s)
  PROVE  /\ MapGood(Put(map, <<n, k>>, s))
         /\ Memory!RowsOf(Put(map, <<n, k>>, s)) =
              (Memory!RowsOf(map) \ Store!RowsAt(Memory!RowsOf(map), n, k))
                \cup SlotRows(n, k, Range(s))
<1> DEFINE m == Put(map, <<n, k>>, s)
<1>1. /\ DOMAIN m = DOMAIN map \cup {<<n, k>>}
      /\ m[<<n, k>>] = s
      /\ \A p \in DOMAIN map : p # <<n, k>> => m[p] = map[p]
  BY DEF Put
<1> HIDE DEF m
<1>2. /\ DOMAIN map \in SUBSET (Names \X Keys) /\ IsFiniteSet(DOMAIN map)
      /\ \A p \in DOMAIN map : SlotOK(p[1], map[p])
  BY MapGoodIs
<1>3. MapGood(m)
  <2>1. IsFiniteSet(DOMAIN m)
    BY <1>1, <1>2, FS_AddElement
  <2>2. \A p \in DOMAIN m : SlotOK(p[1], m[p])
    BY <1>1, <1>2
  <2> QED BY <1>1, <1>2, <2>1, <2>2, MapGoodIs
<1>4. \A r \in RowSet : r \in Memory!RowsOf(m) <=>
        IF r.name = n /\ r.key = k THEN r.val \in Range(s) ELSE r \in Memory!RowsOf(map)
  <2>1. ASSUME NEW r \in RowSet
        PROVE  r \in Memory!RowsOf(m) <=>
                 IF r.name = n /\ r.key = k THEN r.val \in Range(s) ELSE r \in Memory!RowsOf(map)
    <3>1. r \in Memory!RowsOf(m) <=> /\ <<r.name, r.key>> \in DOMAIN m
                                     /\ r.val \in Range(m[<<r.name, r.key>>])
      BY <1>3, MapHas
    <3>2. r \in Memory!RowsOf(map) <=> /\ <<r.name, r.key>> \in DOMAIN map
                                       /\ r.val \in Range(map[<<r.name, r.key>>])
      BY MapHas
    <3>3. <<r.name, r.key>> = <<n, k>> <=> r.name = n /\ r.key = k
      OBVIOUS
    <3> QED BY <1>1, <3>1, <3>2, <3>3
  <2> QED BY <2>1
<1>5. \A r : r \in SlotRows(n, k, Range(s)) <=>
        r \in RowSet /\ r.name = n /\ r.key = k /\ r.val \in Range(s)
  <2>1. Range(s) \in SUBSET Vals
    BY SlotFacts
  <2> QED BY <2>1 DEF SlotRows, Row, RowSet
<1>6. Memory!RowsOf(m) \in SUBSET RowSet /\ Memory!RowsOf(map) \in SUBSET RowSet
  BY <1>3, MapHas
<1>7. Memory!RowsOf(m) =
        (Memory!RowsOf(map) \ Store!RowsAt(Memory!RowsOf(map), n, k)) \cup SlotRows(n, k, Range(s))
  BY <1>4, <1>5, <1>6 DEF Store!RowsAt
<1> QED BY <1>3, <1>7 DEF m

\* Taking a slot away.
LEMMA DropSlot ==
  ASSUME NEW map, MapGood(map), NEW n \in Names, NEW k \in Keys
  PROVE  /\ MapGood(Restrict(map, DOMAIN map \ {<<n, k>>}))
         /\ Memory!RowsOf(Restrict(map, DOMAIN map \ {<<n, k>>})) =
              Memory!RowsOf(map) \ Store!RowsAt(Memory!RowsOf(map), n, k)
<1> DEFINE m == Restrict(map, DOMAIN map \ {<<n, k>>})
<1>1. DOMAIN m = DOMAIN map \ {<<n, k>>} /\ \A p \in DOMAIN m : m[p] = map[p]
  BY DEF Restrict
<1> HIDE DEF m
<1>2. /\ DOMAIN map \in SUBSET (Names \X Keys) /\ IsFiniteSet(DOMAIN map)
      /\ \A p \in DOMAIN map : SlotOK(p[1], map[p])
  BY MapGoodIs
<1>3. MapGood(m)
  <2>1. IsFiniteSet(DOMAIN m)
    BY <1>1, <1>2, FS_RemoveElement
  <2> QED BY <1>1, <1>2, <2>1, MapGoodIs
<1>4. \A r \in RowSet : r \in Memory!RowsOf(m) <=>
        r \in Memory!RowsOf(map) /\ ~(r.name = n /\ r.key = k)
  <2>1. ASSUME NEW r \in RowSet
        PROVE  r \in Memory!RowsOf(m) <=>
                 r \in Memory!RowsOf(map) /\ ~(r.name = n /\ r.key = k)
    <3>1. r \in Memory!RowsOf(m) <=> /\ <<r.name, r.key>> \in DOMAIN m
                                     /\ r.val \in Range(m[<<r.name, r.key>>])
      BY <1>3, MapHas
    <3>2. r \in Memory!RowsOf(map) <=> /\ <<r.name, r.key>> \in DOMAIN map
                                       /\ r.val \in Range(map[<<r.name, r.key>>])
      BY MapHas
    <3>3. <<r.name, r.key>> = <<n, k>> <=> r.name = n /\ r.key = k
      OBVIOUS
    <3> QED BY <1>1, <3>1, <3>2, <3>3
  <2> QED BY <2>1
<1>5. Memory!RowsOf(m) \in SUBSET RowSet /\ Memory!RowsOf(map) \in SUBSET RowSet
  BY <1>3, MapHas
<1>6. Memory!RowsOf(m) = Memory!RowsOf(map) \ Store!RowsAt(Memory!RowsOf(map), n, k)
  BY <1>4, <1>5 DEF Store!RowsAt
<1> QED BY <1>3, <1>6 DEF m

\* A sequence over a set is one over any larger set.
LEMMA SeqWider ==
  ASSUME NEW S, NEW T, S \subseteq T, NEW s \in Seq(S)
  PROVE  s \in Seq(T)
OBVIOUS

\* The rows get_all asks for are the rows at the key.
LEMMA RowsAtExactly ==
  ASSUME NEW rows, NEW n, NEW k
  PROVE  Store!RowsIn(rows, n, Store!Exactly(k), Store!Exactly(k)) = Store!RowsAt(rows, n, k)
BY DEF Store!RowsIn, Store!RowsAt, Store!Exactly, Store!AboveLo, Store!BelowHi

\* Names, keys and values are numbers.
LEMMA ValsNat == Vals \in SUBSET Nat /\ Keys \in SUBSET Nat /\ Names \in SUBSET Nat
BY TablesAssumption DEF Names

\* The rows of one slot as a sequence.
LEMMA SlotRowsAscend ==
  ASSUME NEW n \in Names, NEW k \in Keys, NEW s, SlotOK(n, s) \/ s = <<>>
  PROVE  LET q == [j \in DOMAIN s |-> Row(n, k, s[j])]
         IN  q \in Seq(RowSet) /\ RowsAscend(q) /\ Range(q) = SlotRows(n, k, Range(s))
<1> DEFINE q == [j \in DOMAIN s |-> Row(n, k, s[j])]
<1>1. /\ s \in Seq(Vals) /\ Len(s) \in Nat /\ DOMAIN s = 1..Len(s)
      /\ \A i, j \in 1..Len(s) : i < j => s[i] < s[j]
  <2>1. CASE SlotOK(n, s)
    BY <2>1, SlotFacts DEF SlotOK
  <2>2. CASE s = <<>>
    BY <2>2
  <2> QED BY <2>1, <2>2
<1>2. \A j \in 1..Len(s) : s[j] \in Vals
  BY <1>1
<1>3. q \in Seq(RowSet)
  BY <1>1, <1>2 DEF Row, RowSet
<1>4. RowsAscend(q)
  BY <1>1 DEF RowsAscend, Row, Store!RowBefore
<1>5. Range(q) = SlotRows(n, k, Range(s))
  BY DEF Range, SlotRows
<1> QED BY <1>3, <1>4, <1>5

\* What stays of a slot when a value goes.
LEMMA KeptIs ==
  ASSUME NEW n, NEW s, SlotOK(n, s), NEW v
  PROVE  /\ Range(Memory!Kept(s, v)) = Range(s) \ {v}
         /\ Memory!Kept(s, v) # <<>> => SlotOK(n, Memory!Kept(s, v))
         /\ Memory!Kept(s, v) = <<>> <=> Range(s) \ {v} = {}
<1> DEFINE P == {i \in DOMAIN s : s[i] # v}
           t == Ascending(P)
           kept == Memory!Kept(s, v)
<1>1. /\ s \in Seq(Vals) /\ Len(s) \in Nat /\ DOMAIN s = 1..Len(s)
      /\ \A i, j \in 1..Len(s) : i < j => s[i] < s[j]
      /\ \A i \in 1..Len(s) : s[i] \in Vals
  BY SlotFacts DEF SlotOK
<1>2. P \in SUBSET (1..Len(s)) /\ P \in SUBSET Nat /\ IsFiniteSet(P)
  <2>1. P \in SUBSET (1..Len(s)) /\ P \in SUBSET Nat
    BY <1>1
  <2>2. IsFiniteSet(1..Len(s))
    BY <1>1, FS_Interval
  <2> QED BY <2>1, <2>2, FS_Subset
<1>3. kept = [m \in DOMAIN t |-> s[t[m]]]
  BY MemoryOrders DEF Memory!Kept
<1>4. \A i : i \in P <=> i \in 1..Len(s) /\ s[i] # v
  BY <1>1
<1> HIDE DEF P, t, kept
<1>5. /\ t \in Seq(P) /\ Range(t) = P
      /\ \A i, j \in DOMAIN t : i < j => t[i] < t[j]
  BY <1>2, AscendingIs DEF t
<1>6. Len(t) \in Nat /\ DOMAIN t = 1..Len(t) /\ \A m \in DOMAIN t : t[m] \in P
  BY <1>5
<1>7. kept \in Seq(Vals) /\ DOMAIN kept = 1..Len(t) /\ Len(kept) = Len(t)
  <2>1. \A m \in 1..Len(t) : s[t[m]] \in Vals
    BY <1>1, <1>4, <1>6
  <2> QED BY <1>3, <1>6, <2>1
<1>8. Range(kept) = Range(s) \ {v}
  <2>1. ASSUME NEW x \in Range(s) \ {v} PROVE x \in Range(kept)
    <3>1. PICK i \in 1..Len(s) : x = s[i]
      BY <1>1 DEF Range
    <3>2. i \in Range(t)
      BY <1>4, <1>5, <3>1
    <3>3. PICK m \in DOMAIN t : t[m] = i
      BY <3>2 DEF Range
    <3> QED BY <1>3, <3>1, <3>3 DEF Range
  <2>2. ASSUME NEW m \in DOMAIN t PROVE s[t[m]] \in Range(s) \ {v}
    BY <1>1, <1>4, <1>6 DEF Range
  <2> QED BY <1>3, <2>1, <2>2 DEF Range
<1>9. \A i, j \in 1..Len(kept) : i < j => kept[i] < kept[j]
  <2>1. ASSUME NEW i \in 1..Len(t), NEW j \in 1..Len(t), i < j PROVE s[t[i]] < s[t[j]]
    <3>1. t[i] < t[j] /\ t[i] \in 1..Len(s) /\ t[j] \in 1..Len(s)
      BY <1>4, <1>5, <1>6, <2>1
    <3> QED BY <1>1, <3>1
  <2> QED BY <1>3, <1>6, <1>7, <2>1
<1>10. Len(kept) <= 1 \/ n \notin PlainTables
  <2>1. ASSUME n \in PlainTables PROVE Len(t) <= 1
    <3>1. Len(s) = 1
      BY <2>1 DEF SlotOK
    <3>2. \A m \in 1..Len(t) : t[m] = 1
      BY <1>4, <1>6, <3>1
    <3>3. Len(t) > 1 => 1 \in 1..Len(t) /\ 2 \in 1..Len(t) /\ t[1] < t[2]
      BY <1>5, <1>6
    <3> QED BY <1>6, <3>2, <3>3
  <2> QED BY <1>7, <2>1
<1>11. kept # <<>> => SlotOK(n, kept)
  <2>1. kept # <<>> => Len(kept) >= 1
    BY <1>6, <1>7
  <2> QED BY <1>6, <1>7, <1>9, <1>10, <2>1 DEF SlotOK
<1>12. kept = <<>> <=> Range(s) \ {v} = {}
  <2>1. kept = <<>> => Range(kept) = {}
    BY DEF Range
  <2>2. kept # <<>> => kept[1] \in Range(kept)
    BY <1>6, <1>7 DEF Range
  <2> QED BY <1>8, <2>1, <2>2
<1> QED BY <1>8, <1>11, <1>12 DEF kept

\* What a slot becomes when a value comes.
LEMMA PlacedIs ==
  ASSUME NEW n \in Names, NEW s, SlotOK(n, s) \/ s = <<>>, NEW v \in Vals
  PROVE  /\ SlotOK(n, Memory!Placed(n, s, v))
         /\ Range(Memory!Placed(n, s, v)) = IF n \in PlainTables THEN {v} ELSE Range(s) \cup {v}
<1>1. CASE n \in PlainTables
  <2>1. Memory!Placed(n, s, v) = <<v>>
    BY <1>1 DEF Memory!Placed
  <2>2. SlotOK(n, <<v>>) /\ Range(<<v>>) = {v}
    BY DEF SlotOK, Range
  <2> QED BY <1>1, <2>1, <2>2
<1>2. CASE n \notin PlainTables /\ v \in Range(s)
  <2>1. Memory!Placed(n, s, v) = s
    BY <1>2, MemoryHelpers DEF Memory!Placed
  <2>2. s # <<>>
    BY <1>2 DEF Range
  <2>3. Range(s) \cup {v} = Range(s)
    BY <1>2
  <2> QED BY <1>2, <2>1, <2>2, <2>3
<1>3. CASE n \notin PlainTables /\ v \notin Range(s)
  <2> DEFINE S == Range(s) \cup {v}
  <2>1. Memory!Placed(n, s, v) = Ascending(S)
    BY <1>3, MemoryHelpers, MemoryOrders DEF Memory!Placed
  <2>2. Range(s) \in SUBSET Vals /\ IsFiniteSet(Range(s))
    <3>1. CASE SlotOK(n, s)
      BY <3>1, SlotFacts
    <3>2. CASE s = <<>>
      <4>1. Range(s) = {}
        BY <3>2 DEF Range
      <4> QED BY <4>1, FS_EmptySet
    <3> QED BY <3>1, <3>2
  <2>3. S \in SUBSET Nat /\ S \in SUBSET Vals /\ IsFiniteSet(S) /\ v \in S
    BY <2>2, ValsNat, FS_AddElement
  <2> HIDE DEF S
  <2> DEFINE t == Ascending(S)
  <2>4. t \in Seq(S) /\ Range(t) = S /\ \A i, j \in DOMAIN t : i < j => t[i] < t[j]
    BY <2>3, AscendingIs
  <2> HIDE DEF t
  <2>5. t \in Seq(Vals) /\ t # <<>>
    <3>1. t \in Seq(Vals)
      BY <2>3, <2>4, SeqWider
    <3>2. t = <<>> => Range(t) = {}
      BY DEF Range
    <3> QED BY <2>3, <2>4, <3>1, <3>2
  <2>6. SlotOK(n, t)
    BY <1>3, <2>4, <2>5 DEF SlotOK
  <2> QED BY <1>3, <2>1, <2>4, <2>6 DEF t, S
<1> QED BY <1>1, <1>2, <1>3

\* The slots between two bounds of a table are those of the table's keys between
\* them and, without an upper bound, those of the tables whose names extend its.
LEMMA SlotsBetween ==
  ASSUME NEW n \in Names, NEW m \in Names, NEW k \in Keys, NEW lo \in Bounds, NEW hi \in Bounds
  PROVE  Above(Memory!range_start(n, lo), <<m, k>>) /\ BelowEnd(Memory!range_end(n, hi), <<m, k>>)
           <=> \/ m = n /\ Store!AboveLo(lo, k) /\ Store!BelowHi(hi, k)
               \/ hi.kind = "Unbounded" /\ m \in Memory!Extensions(n)
<1> DEFINE p == <<m, k>>
           fence == NameFence[n]
           start == Memory!range_start(n, lo)
           end == Memory!range_end(n, hi)
<1>1. n \in Nat /\ m \in Nat /\ k \in Nat /\ fence \in Nat /\ n < fence
  BY ValsNat, FenceAssumption
<1>2. /\ lo = Unbounded \/ (lo.kind \in {"Included", "Excluded"} /\ lo.key \in Nat)
      /\ hi = Unbounded \/ (hi.kind \in {"Included", "Excluded"} /\ hi.key \in Nat)
  BY ValsNat DEF Bounds, Unbounded, Included, Excluded
<1>3. p \in Strings /\ <<n>> \in Strings /\ <<fence>> \in Strings
      /\ \A x \in Nat : <<n, x>> \in Strings
  BY <1>1 DEF Strings
<1>4. /\ p[1] = m /\ Second(p) = k
      /\ \A x : Second(<<x>>) = 0 - 1 /\ <<x>>[1] = x
      /\ \A x, y : Second(<<x, y>>) = y /\ <<x, y>>[1] = x
  BY DEF Second
<1>5. Above(start, p) <=> n < m \/ (m = n /\ Store!AboveLo(lo, k))
  <2>1. CASE lo = Unbounded
    <3>1. start.kind = "Included" /\ start.at = <<n>>
      BY <2>1 DEF Memory!range_start, Unbounded
    <3>2. (Before(<<n>>, p) <=> n <= m) /\ p # <<n>>
      BY <1>1, <1>3, <1>4, BeforeIs
    <3> QED BY <1>1, <2>1, <3>1, <3>2 DEF Above, Store!AboveLo, Unbounded
  <2>2. CASE lo # Unbounded
    <3>1. start.kind = lo.kind /\ start.at = <<n, lo.key>>
      BY <1>2, <2>2 DEF Memory!range_start, Unbounded
    <3>2. Before(<<n, lo.key>>, p) <=> n < m \/ (n = m /\ lo.key < k)
      BY <1>1, <1>2, <1>3, <1>4, <2>2, BeforeIs
    <3>3. p = <<n, lo.key>> <=> m = n /\ k = lo.key
      OBVIOUS
    <3> QED BY <1>1, <1>2, <2>2, <3>1, <3>2, <3>3 DEF Above, Store!AboveLo
  <2> QED BY <2>1, <2>2
<1>6. n <= m => (BelowEnd(end, p) <=> \/ m = n /\ Store!BelowHi(hi, k)
                                      \/ hi = Unbounded /\ n < m /\ m < fence)
  <2>1. CASE hi = Unbounded
    <3>1. end.kind = "Excluded" /\ end.at = <<fence>>
      BY <2>1 DEF Memory!range_end, Unbounded
    <3>2. Before(p, <<fence>>) <=> m < fence
      BY <1>1, <1>3, <1>4, BeforeIs
    <3>3. BelowEnd(end, p) <=> m < fence
      BY <3>1, <3>2 DEF BelowEnd
    <3> QED BY <1>1, <2>1, <3>3 DEF Store!BelowHi, Unbounded
  <2>2. CASE hi # Unbounded
    <3>1. end.kind = hi.kind /\ end.at = <<n, hi.key>>
      BY <1>2, <2>2 DEF Memory!range_end, Unbounded
    <3>2. Before(p, <<n, hi.key>>) <=> m < n \/ (m = n /\ k < hi.key)
      BY <1>1, <1>2, <1>3, <1>4, <2>2, BeforeIs
    <3>3. p = <<n, hi.key>> <=> m = n /\ k = hi.key
      OBVIOUS
    <3> QED BY <1>1, <1>2, <2>2, <3>1, <3>2, <3>3 DEF BelowEnd, Store!BelowHi
  <2> QED BY <2>1, <2>2
<1>7. m \in Memory!Extensions(n) <=> n < m /\ m < fence
  BY MemoryHelpers DEF Memory!Extensions
<1>8. hi = Unbounded <=> hi.kind = "Unbounded"
  BY <1>2 DEF Unbounded
<1> QED BY <1>1, <1>5, <1>6, <1>7, <1>8

----------------------------------------------------------------------------
(* The memory backend: its scans.                                          *)

\* The rows of the slots, collected in order: one table's ascend.
LEMMA CollectedIs ==
  ASSUME MapGood(work), NEW slots \in Seq(DOMAIN work),
         \A i, j \in DOMAIN slots : i < j => Before(slots[i], slots[j])
  PROVE  /\ Memory!Collected(slots) \in Seq(RowSet)
         /\ \A n \in Names :
              (\A i \in DOMAIN slots : slots[i][1] = n) => RowsAscend(Memory!Collected(slots))
         /\ Range(Memory!Collected(slots)) =
              {r \in Memory!RowsOf(work) : <<r.name, r.key>> \in Range(slots)}
<1> DEFINE parts == [i \in DOMAIN slots |-> {i} \X DOMAIN work[slots[i]]]
           P == UNION {{i} \X DOMAIN work[slots[i]] : i \in DOMAIN slots}
           t == Sorted(P)
           row(slot, j) == Row(slot[1], slot[2], work[slot][j])
           rows == Memory!Collected(slots)
<1>1. /\ Len(slots) \in Nat /\ DOMAIN slots = 1..Len(slots)
      /\ \A i \in DOMAIN slots : slots[i] \in DOMAIN work
  OBVIOUS
<1>2. /\ DOMAIN work \in SUBSET (Names \X Keys)
      /\ \A p \in DOMAIN work : SlotOK(p[1], work[p])
  BY MapGoodIs
<1>3. \A i \in DOMAIN slots :
        /\ slots[i] = <<slots[i][1], slots[i][2]>>
        /\ slots[i][1] \in Names /\ slots[i][2] \in Keys
        /\ DOMAIN work[slots[i]] = 1..Len(work[slots[i]]) /\ Len(work[slots[i]]) \in Nat
        /\ \A j \in DOMAIN work[slots[i]] : work[slots[i]][j] \in Vals
        /\ \A j, m \in DOMAIN work[slots[i]] : j < m => work[slots[i]][j] < work[slots[i]][m]
  <2>1. ASSUME NEW i \in DOMAIN slots
        PROVE  /\ slots[i] = <<slots[i][1], slots[i][2]>>
               /\ slots[i][1] \in Names /\ slots[i][2] \in Keys
               /\ SlotOK(slots[i][1], work[slots[i]])
    <3>1. slots[i] \in Names \X Keys
      BY <1>1, <1>2
    <3> QED BY <1>1, <1>2, <3>1
  <2>2. ASSUME NEW n, NEW s, SlotOK(n, s)
        PROVE  /\ DOMAIN s = 1..Len(s) /\ Len(s) \in Nat
               /\ \A j \in DOMAIN s : s[j] \in Vals
               /\ \A j, m \in DOMAIN s : j < m => s[j] < s[m]
    BY <2>2, SlotFacts DEF SlotOK
  <2> QED BY <2>1, <2>2
<1>4. \A x : x \in P <=> \E i \in DOMAIN slots : \E j \in DOMAIN work[slots[i]] : x = <<i, j>>
  OBVIOUS
<1>5. P \in SUBSET Strings
  BY <1>1, <1>3, <1>4 DEF Strings
<1>6. IsFiniteSet(P)
  <2> DEFINE F == {{i} \X DOMAIN work[slots[i]] : i \in DOMAIN slots}
  <2>1. parts \in Surjection(DOMAIN slots, F)
    BY DEF Surjection
  <2>2. IsFiniteSet(DOMAIN slots)
    BY <1>1, FS_Interval
  <2>3. \A i \in DOMAIN slots : IsFiniteSet({i} \X DOMAIN work[slots[i]])
    <3>1. ASSUME NEW i \in DOMAIN slots PROVE IsFiniteSet({i} \X DOMAIN work[slots[i]])
      <4>1. IsFiniteSet(DOMAIN work[slots[i]])
        BY <1>3, FS_Interval
      <4>2. IsFiniteSet({i})
        BY FS_Singleton
      <4> QED BY <4>1, <4>2, FS_Product
    <3> QED BY <3>1
  <2>4. \A T \in F : IsFiniteSet(T)
    BY <2>3
  <2> HIDE DEF parts
  <2>5. IsFiniteSet(F)
    BY <2>1, <2>2, FS_Surjection
  <2>6. IsFiniteSet(UNION F)
    <3> HIDE DEF F
    <3> QED BY <2>4, <2>5, FS_UNION
  <2> QED BY <2>6
<1>7. rows = [m \in DOMAIN t |-> row(slots[t[m][1]], t[m][2])]
  BY MemoryHelpers, MemoryOrders DEF Memory!Collected
<1> HIDE DEF P, parts, t, rows
<1>8. /\ t \in Seq(P) /\ Range(t) = P
      /\ \A i, j \in DOMAIN t : i < j => Before(t[i], t[j])
  BY <1>5, <1>6, SortedIs DEF t
<1>9. ASSUME NEW m \in DOMAIN t
      PROVE  \E i \in DOMAIN slots : \E j \in DOMAIN work[slots[i]] :
               t[m] = <<i, j>> /\ rows[m] = Row(slots[i][1], slots[i][2], work[slots[i]][j])
  <2>1. t[m] \in P
    BY <1>8
  <2>2. PICK i \in DOMAIN slots : \E j \in DOMAIN work[slots[i]] : t[m] = <<i, j>>
    BY <1>4, <2>1
  <2>3. PICK j \in DOMAIN work[slots[i]] : t[m] = <<i, j>>
    BY <2>2
  <2>4. rows[m] = row(slots[i], j)
    BY <1>7, <2>3
  <2>5. row(slots[i], j) = Row(slots[i][1], slots[i][2], work[slots[i]][j])
    BY <1>3
  <2> QED BY <2>3, <2>4, <2>5
<1>10. rows \in Seq(RowSet) /\ DOMAIN rows = DOMAIN t
  <2>1. ASSUME NEW m \in DOMAIN t PROVE rows[m] \in RowSet
    <3>1. PICK i \in DOMAIN slots : \E j \in DOMAIN work[slots[i]] :
            rows[m] = Row(slots[i][1], slots[i][2], work[slots[i]][j])
      BY <1>9
    <3>2. PICK j \in DOMAIN work[slots[i]] : rows[m] = Row(slots[i][1], slots[i][2], work[slots[i]][j])
      BY <3>1
    <3> QED BY <1>3, <3>2 DEF Row, RowSet
  <2>2. DOMAIN rows = DOMAIN t /\ DOMAIN t = 1..Len(t) /\ Len(t) \in Nat
    BY <1>7, <1>8
  <2>3. rows = [m \in 1..Len(t) |-> rows[m]]
    BY <1>7, <2>2
  <2> QED BY <2>1, <2>2, <2>3
<1>11. ASSUME NEW n \in Names, \A i \in DOMAIN slots : slots[i][1] = n PROVE RowsAscend(rows)
  <2>1. ASSUME NEW a \in DOMAIN t, NEW b \in DOMAIN t, a < b
        PROVE  Store!RowBefore(rows[a], rows[b])
    <3>1. PICK i \in DOMAIN slots : \E j \in DOMAIN work[slots[i]] :
            t[a] = <<i, j>> /\ rows[a] = Row(slots[i][1], slots[i][2], work[slots[i]][j])
      BY <1>9
    <3>2. PICK j \in DOMAIN work[slots[i]] :
            t[a] = <<i, j>> /\ rows[a] = Row(slots[i][1], slots[i][2], work[slots[i]][j])
      BY <3>1
    <3>3. PICK k \in DOMAIN slots : \E l \in DOMAIN work[slots[k]] :
            t[b] = <<k, l>> /\ rows[b] = Row(slots[k][1], slots[k][2], work[slots[k]][l])
      BY <1>9
    <3>4. PICK l \in DOMAIN work[slots[k]] :
            t[b] = <<k, l>> /\ rows[b] = Row(slots[k][1], slots[k][2], work[slots[k]][l])
      BY <3>3
    <3>5. i \in Nat /\ j \in Nat /\ k \in Nat /\ l \in Nat
      BY <1>1, <1>3
    <3>6. i < k \/ (i = k /\ j < l)
      <4>1. Before(<<i, j>>, <<k, l>>)
        BY <1>8, <2>1, <3>2, <3>4
      <4>2. <<i, j>> \in Strings /\ <<k, l>> \in Strings
        BY <3>5 DEF Strings
      <4>3. Second(<<i, j>>) = j /\ Second(<<k, l>>) = l
        BY DEF Second
      <4> QED BY <4>1, <4>2, <4>3, BeforeIs
    <3>7. CASE i = k
      <4>1. work[slots[i]][j] < work[slots[i]][l]
        BY <1>3, <3>5, <3>6, <3>7
      <4> QED BY <3>2, <3>4, <3>7, <4>1 DEF Row, Store!RowBefore
    <3>8. CASE i < k
      <4>1. Before(<<n, slots[i][2]>>, <<n, slots[k][2]>>)
        BY <1>3, <1>11, <3>8
      <4>2. n \in Nat /\ slots[i][2] \in Nat /\ slots[k][2] \in Nat
        BY <1>3, ValsNat
      <4>3. <<n, slots[i][2]>> \in Strings /\ <<n, slots[k][2]>> \in Strings
        BY <4>2 DEF Strings
      <4>4. \A x : Second(<<n, x>>) = x
        BY DEF Second
      <4>5. slots[i][2] < slots[k][2]
        BY <4>1, <4>2, <4>3, <4>4, BeforeIs
      <4> QED BY <3>2, <3>4, <4>5 DEF Row, Store!RowBefore
    <3> QED BY <3>5, <3>6, <3>7, <3>8
  <2> QED BY <1>10, <2>1 DEF RowsAscend
<1>12. ASSUME NEW r \in RowSet
       PROVE  r \in Range(rows) <=>
                r \in Memory!RowsOf(work) /\ <<r.name, r.key>> \in Range(slots)
  <2>1. r \in Memory!RowsOf(work) <=> /\ <<r.name, r.key>> \in DOMAIN work
                                      /\ r.val \in Range(work[<<r.name, r.key>>])
    BY MapHas
  <2>2. ASSUME r \in Range(rows)
        PROVE  r \in Memory!RowsOf(work) /\ <<r.name, r.key>> \in Range(slots)
    <3>1. PICK m \in DOMAIN t : r = rows[m]
      BY <1>10, <2>2 DEF Range
    <3>2. PICK i \in DOMAIN slots : \E j \in DOMAIN work[slots[i]] :
            rows[m] = Row(slots[i][1], slots[i][2], work[slots[i]][j])
      BY <1>9
    <3>3. PICK j \in DOMAIN work[slots[i]] : r = Row(slots[i][1], slots[i][2], work[slots[i]][j])
      BY <3>1, <3>2
    <3>4. <<r.name, r.key>> = slots[i] /\ r.val = work[slots[i]][j]
      BY <1>3, <3>3 DEF Row
    <3> QED BY <1>1, <2>1, <3>4 DEF Range
  <2>3. ASSUME r \in Memory!RowsOf(work), <<r.name, r.key>> \in Range(slots)
        PROVE  r \in Range(rows)
    <3>1. PICK i \in DOMAIN slots : <<r.name, r.key>> = slots[i]
      BY <2>3 DEF Range
    <3>2. PICK j \in DOMAIN work[slots[i]] : r.val = work[slots[i]][j]
      BY <2>1, <2>3, <3>1 DEF Range
    <3>3. <<i, j>> \in P
      BY <1>4
    <3>4. PICK m \in DOMAIN t : t[m] = <<i, j>>
      BY <1>8, <3>3 DEF Range
    <3>5. rows[m] = row(slots[i], j)
      BY <1>7, <3>4
    <3>6. slots[i][1] = r.name /\ slots[i][2] = r.key
      BY <3>1
    <3>7. row(slots[i], j) = r
      BY <3>2, <3>6 DEF Row, RowSet
    <3> QED BY <1>10, <3>5, <3>7 DEF Range
  <2> QED BY <2>2, <2>3
<1>13. Range(rows) \in SUBSET RowSet
  BY <1>10 DEF Range
<1>14. Range(rows) = {r \in Memory!RowsOf(work) : <<r.name, r.key>> \in Range(slots)}
  BY <1>12, <1>13, MapHas
<1> QED BY <1>10, <1>11, <1>14 DEF rows

\* The rows a scan finds outside its table.
Longer(n, hi) ==
  {r \in Memory!RowsOf(work) : hi.kind = "Unbounded" /\ r.name \in Memory!Extensions(n)}

\* A scan of a table finds its rows between the bounds, ascending, if it ends in
\* the table; otherwise those of the longer names as well.
LEMMA RangeIs ==
  ASSUME MapGood(work), NEW n \in Names, NEW lo \in Bounds, NEW hi \in Bounds, NEW q,
         q = Memory!Found(n, lo, hi)
  PROVE  /\ q \in Seq(RowSet)
         /\ Range(q) = Store!RowsIn(Memory!RowsOf(work), n, lo, hi) \cup Longer(n, hi)
         /\ (hi.kind = "Unbounded" => Memory!Extensions(n) = {}) =>
              RowsAscend(q) /\ Range(q) = Store!RowsIn(Memory!RowsOf(work), n, lo, hi)
<1> DEFINE slots == Within(DOMAIN work, Memory!range_start(n, lo), Memory!range_end(n, hi))
<1>1. DOMAIN work \in SUBSET (Names \X Keys) /\ IsFiniteSet(DOMAIN work)
  BY MapGoodIs
<1>2. DOMAIN work \in SUBSET Strings
  BY <1>1, ValsNat DEF Strings
<1>3. /\ slots \in Seq(DOMAIN work)
      /\ Range(slots) = {x \in DOMAIN work : Above(Memory!range_start(n, lo), x)
                                             /\ BelowEnd(Memory!range_end(n, hi), x)}
      /\ \A i, j \in DOMAIN slots : i < j => Before(slots[i], slots[j])
  BY <1>1, <1>2, WithinIs
<1>4. q = Memory!Collected(slots)
  BY MemoryOrders DEF Memory!Found
<1> HIDE DEF slots
<1>5. \A m \in Names, k \in Keys :
        <<m, k>> \in Range(slots) <=>
          /\ <<m, k>> \in DOMAIN work
          /\ \/ m = n /\ Store!AboveLo(lo, k) /\ Store!BelowHi(hi, k)
             \/ hi.kind = "Unbounded" /\ m \in Memory!Extensions(n)
  BY <1>3, SlotsBetween
<1>6. ASSUME hi.kind = "Unbounded" => Memory!Extensions(n) = {}
      PROVE  \A i \in DOMAIN slots : slots[i][1] = n
  <2>1. ASSUME NEW i \in DOMAIN slots PROVE slots[i][1] = n
    <3>1. slots[i] \in Range(slots) /\ slots[i] \in Names \X Keys
      BY <1>1, <1>3 DEF Range
    <3>2. PICK m \in Names, k \in Keys : slots[i] = <<m, k>>
      BY <3>1
    <3> QED BY <1>5, <1>6, <3>1, <3>2
  <2> QED BY <2>1
<1>7. /\ q \in Seq(RowSet)
      /\ (\A i \in DOMAIN slots : slots[i][1] = n) => RowsAscend(q)
      /\ Range(q) = {r \in Memory!RowsOf(work) : <<r.name, r.key>> \in Range(slots)}
  BY <1>3, <1>4, CollectedIs
<1>8. \A r \in Memory!RowsOf(work) :
        <<r.name, r.key>> \in Range(slots) <=>
          \/ r.name = n /\ Store!AboveLo(lo, r.key) /\ Store!BelowHi(hi, r.key)
          \/ hi.kind = "Unbounded" /\ r.name \in Memory!Extensions(n)
  <2>1. ASSUME NEW r \in Memory!RowsOf(work)
        PROVE  r.name \in Names /\ r.key \in Keys /\ <<r.name, r.key>> \in DOMAIN work
    <3>1. r \in RowSet
      BY MapHas
    <3> QED BY <3>1, MapHas DEF RowSet
  <2> QED BY <1>5, <2>1
<1>9. Range(q) = Store!RowsIn(Memory!RowsOf(work), n, lo, hi) \cup Longer(n, hi)
  BY <1>7, <1>8 DEF Store!RowsIn, Longer
<1>10. (hi.kind = "Unbounded" => Memory!Extensions(n) = {}) => Longer(n, hi) = {}
  BY DEF Longer
<1> QED BY <1>6, <1>7, <1>9, <1>10

----------------------------------------------------------------------------
(* The memory backend: its steps.                                          *)

\* The map staged and the map committed are in form, and an iterator has
\* ascending rows of its own table left.
MemoryInv ==
  /\ MapGood(base)
  /\ MapGood(work)
  /\ iter \in [open : BOOLEAN, table : Nat, rows : Seq(RowSet)]
  /\ RowsAscend(iter.rows)
  /\ \A r \in Range(iter.rows) : r.name = iter.table
  /\ ~iter.open => iter = Memory!NoIter

\* A step of the memory backend in progress.
MemoryStep == backend = "memory" /\ UNCHANGED backend /\ TxInv /\ MemoryInv

\* What a step leaves in place, and the abstract step it is.
Keeps(Inv, call) == TxInv' /\ Inv' /\ (FinitelyManyRows => call)

\* The rows and the iterator of a memory store, seen from outside.
LEMMA MemoryViews ==
  ASSUME MemoryStep
  PROVE  /\ RowsOf(base) = Memory!RowsOf(base) /\ RowsOf(work) = Memory!RowsOf(work)
         /\ RowsOf(base)' = Memory!RowsOf(base') /\ RowsOf(work)' = Memory!RowsOf(work')
         /\ Pending = Range(iter.rows) /\ Pending' = Range(iter'.rows)
BY DEF MemoryStep, RowsOf, Pending

\* A memory store without an iterator is in form.
LEMMA NoIterOK ==
  /\ Memory!NoIter \in [open : BOOLEAN, table : Nat, rows : Seq(RowSet)]
  /\ Memory!NoIter.open = FALSE
  /\ RowsAscend(Memory!NoIter.rows)
  /\ \A r \in Range(Memory!NoIter.rows) : r.name = Memory!NoIter.table
BY DEF Memory!NoIter, RowsAscend, Range

\* A slot that is there is in form, the slot of a free key is empty.
LEMMA SlotIs ==
  ASSUME MemoryInv, NEW n \in Names, NEW k \in Keys
  PROVE  /\ <<n, k>> \in DOMAIN work =>
              SlotOK(n, Memory!Slot(n, k)) /\ Memory!Slot(n, k) = work[<<n, k>>]
         /\ <<n, k>> \notin DOMAIN work => Memory!Slot(n, k) = <<>>
         /\ Store!RowsAt(Memory!RowsOf(work), n, k) = SlotRows(n, k, Range(Memory!Slot(n, k)))
<1>1. \A p \in DOMAIN work : SlotOK(p[1], work[p])
  BY MapGoodIs DEF MemoryInv
<1>2. Range(<<>>) = {}
  BY DEF Range
<1>3. <<n, k>> \in DOMAIN work =>
        SlotOK(n, Memory!Slot(n, k)) /\ Memory!Slot(n, k) = work[<<n, k>>]
  BY <1>1 DEF Memory!Slot
<1>4. <<n, k>> \notin DOMAIN work => Memory!Slot(n, k) = <<>>
  BY DEF Memory!Slot
<1>5. SlotRows(n, k, {}) = {}
  BY DEF SlotRows
<1> QED BY <1>2, <1>3, <1>4, <1>5, SlotRowsAt DEF MemoryInv

\* Whether a row, or any row of a key, is there.
LEMMA SlotHolds ==
  ASSUME MemoryInv, NEW n \in Names, NEW k \in Keys, NEW v \in Vals
  PROVE  /\ Row(n, k, v) \in Memory!RowsOf(work) <=> v \in Range(Memory!Slot(n, k))
         /\ <<n, k>> \in DOMAIN work <=> Store!RowsAt(Memory!RowsOf(work), n, k) # {}
<1>1. Row(n, k, v) \in RowSet /\ Row(n, k, v).name = n /\ Row(n, k, v).key = k
      /\ Row(n, k, v).val = v
  BY DEF Row, RowSet
<1>2. Row(n, k, v) \in Memory!RowsOf(work) <=>
        <<n, k>> \in DOMAIN work /\ v \in Range(work[<<n, k>>])
  BY <1>1, MapHas DEF MemoryInv
<1>3. Range(<<>>) = {}
  BY DEF Range
<1>4. <<n, k>> \in DOMAIN work => Range(Memory!Slot(n, k)) # {}
  BY SlotIs, SlotFacts
<1>5. SlotRows(n, k, Range(Memory!Slot(n, k))) = {} <=> Range(Memory!Slot(n, k)) = {}
  BY DEF SlotRows
<1> QED BY <1>2, <1>3, <1>4, <1>5, SlotIs

\* open of the memory backend.
LEMMA MemoryOpens == MemoryStep /\ Memory!open => Keeps(MemoryInv, Store!Open(0))
<1> SUFFICES ASSUME MemoryStep, Memory!open PROVE Keeps(MemoryInv, Store!Open(0))
  OBVIOUS
<1>1. /\ tx = "closed" /\ tx' = "idle" /\ base' = <<>> /\ ret' = Ret("ok")
      /\ work' = work /\ iter' = iter
  BY MemoryHelpers DEF Memory!open
<1>2. /\ RowsOf(base)' = RowsOf(base) /\ iter'.open = FALSE
  BY <1>1, MemoryViews, EmptyMapGood DEF MemoryStep, TxInv, Reading
<1>3. TxInv'
  BY <1>1, <1>2, TxEnds DEF MemoryStep
<1>4. MemoryInv'
  BY <1>1, EmptyMapGood DEF MemoryStep, MemoryInv, Memory!NoIter
<1>5. FinitelyManyRows => Store!Open(0)
  BY <1>1, <1>2, OpenMaps DEF MemoryStep
<1> QED BY <1>3, <1>4, <1>5 DEF Keeps

\* Closing or losing a memory store: its map is gone.
LEMMA MemoryGoes ==
  ASSUME MemoryStep, NEW r, Memory!Gone(r), tx # "closed"
  PROVE  /\ r = "ok" /\ tx = "idle" => Keeps(MemoryInv, Store!Close)
         /\ r = "crashed" => Keeps(MemoryInv, Store!Crash)
<1>1. /\ tx' = "closed" /\ base' = <<>> /\ work' = <<>> /\ iter' = Memory!NoIter /\ ret' = Ret(r)
  BY MemoryHelpers DEF Memory!Gone
<1>2. /\ RowsOf(base)' = {} /\ iter'.open = FALSE
  BY <1>1, MemoryViews, EmptyMapGood, NoIterOK
<1>3. TxInv'
  BY <1>1, <1>2, TxEnds DEF MemoryStep
<1>4. MemoryInv'
  BY <1>1, EmptyMapGood, NoIterOK DEF MemoryInv, Memory!NoIter
<1>5. r = "ok" /\ tx = "idle" => Store!Close
  BY <1>1, <1>2, CloseMaps DEF MemoryStep
<1>6. r = "crashed" => Store!Crash
  BY <1>1, <1>2, CrashMaps DEF MemoryStep
<1> QED BY <1>3, <1>4, <1>5, <1>6 DEF Keeps

\* read_transaction and write_transaction of the memory backend.
LEMMA MemoryBegins ==
  ASSUME MemoryStep
  PROVE  /\ Memory!read_transaction => Keeps(MemoryInv, Store!BeginRead)
         /\ Memory!write_transaction => Keeps(MemoryInv, Store!BeginWrite)
<1>1. ASSUME tx = "idle", tx' \in {"read", "write"}, work' = base, UNCHANGED <<base, iter>>
      PROVE  TxInv' /\ MemoryInv'
  BY <1>1, TxBegins DEF MemoryStep, MemoryInv, Memory!NoIter
<1>2. Memory!read_transaction => Keeps(MemoryInv, Store!BeginRead)
  BY <1>1, BeginReadMaps, MemoryHelpers DEF Memory!read_transaction, Keeps, MemoryStep
<1>3. Memory!write_transaction => Keeps(MemoryInv, Store!BeginWrite)
  BY <1>1, BeginWriteMaps, MemoryHelpers DEF Memory!write_transaction, Keeps, MemoryStep
<1> QED BY <1>2, <1>3

\* commit of the memory backend, and a transaction dropped.
LEMMA MemoryEnds ==
  ASSUME MemoryStep
  PROVE  /\ Memory!commit => Keeps(MemoryInv, Store!Commit)
         /\ \A r : Memory!Drop(r) => Keeps(MemoryInv, Store!Rollback(Store!Ret(r)))
<1>1. ASSUME NEW r, Memory!EndTx(r)
      PROVE  /\ tx' = "idle" /\ work' = <<>> /\ iter' = Memory!NoIter /\ ret' = Ret(r)
             /\ iter'.open = FALSE
  BY <1>1, MemoryHelpers, NoIterOK DEF Memory!EndTx
<1>2. ASSUME tx' = "idle", iter'.open = FALSE PROVE TxInv'
  BY <1>2, TxEnds DEF MemoryStep
<1>3. ASSUME MapGood(base'), work' = <<>>, iter' = Memory!NoIter PROVE MemoryInv'
  BY <1>3, EmptyMapGood, NoIterOK DEF MemoryInv, Memory!NoIter
<1>4. Memory!commit => Keeps(MemoryInv, Store!Commit)
  BY <1>1, <1>2, <1>3, CommitMaps, MemoryHelpers DEF Memory!commit, Keeps, MemoryStep, MemoryInv
<1>5. ASSUME NEW r, Memory!Drop(r) PROVE Keeps(MemoryInv, Store!Rollback(Store!Ret(r)))
  BY <1>1, <1>2, <1>3, <1>5, RollbackMaps, MemoryHelpers
     DEF Memory!Drop, Keeps, MemoryStep, MemoryInv
<1> QED BY <1>4, <1>5

\* map_get answers with the slot's first value.
LEMMA MemoryGets ==
  ASSUME MemoryStep, NEW n \in Names, NEW k \in Keys, Memory!map_get(n, k)
  PROVE  Keeps(MemoryInv, Store!Get(n, k))
<1> DEFINE s == Memory!Slot(n, k)
           rows == Store!RowsAt(RowsOf(work), n, k)
<1>1. /\ Reading /\ UNCHANGED <<tx, base, work, iter>>
      /\ ret' = IF s = <<>> THEN Ret("absent") ELSE RetRow(Row(n, k, s[1]))
  BY MemoryHelpers DEF Memory!map_get, Memory!Answers
<1>2. rows = SlotRows(n, k, Range(s)) /\ (SlotOK(n, s) \/ s = <<>>)
  BY SlotIs, MemoryViews DEF MemoryStep
<1>3. ret' = GetsFirst(rows)
  <2>1. CASE s = <<>>
    <3>1. rows = {}
      BY <1>2, <2>1 DEF SlotRows, Range
    <3> QED BY <1>1, <2>1, <3>1 DEF GetsFirst
  <2>2. CASE s # <<>>
    <3>1. SlotOK(n, s)
      BY <1>2, <2>2
    <3> HIDE DEF s, rows
    <3>2. s[1] \in Range(s) /\ Range(s) \in SUBSET Vals /\ \A v \in Range(s) : v = s[1] \/ s[1] < v
      BY <3>1, SlotFacts
    <3>3. rows \in SUBSET RowSet /\ Row(n, k, s[1]) \in rows
      BY <1>2, <3>2 DEF SlotRows, Row, RowSet
    <3>4. \A r \in rows \ {Row(n, k, s[1])} : Store!RowBefore(Row(n, k, s[1]), r)
      BY <1>2, <3>2 DEF SlotRows, Row, Store!RowBefore
    <3>5. Store!First(rows) = Row(n, k, s[1])
      BY <3>3, <3>4, FirstIs
    <3> QED BY <1>1, <2>2, <3>3, <3>5 DEF GetsFirst
  <2> QED BY <2>1, <2>2
<1>4. RowsOf(work)' = RowsOf(work) /\ Pending' = Pending
  BY <1>1, MemoryViews
<1>5. TxInv' /\ MemoryInv'
  BY <1>1, <1>4, TxStays DEF MemoryStep, MemoryInv, TxInv, Memory!NoIter
<1>6. Store!Get(n, k)
  BY <1>1, <1>3, <1>4, GetMaps DEF MemoryStep
<1> QED BY <1>5, <1>6 DEF Keeps

\* An iterator of the memory backend that is given the rows of a range.
LEMMA MemoryScans ==
  ASSUME MemoryStep, NEW n \in Names, NEW lo, NEW hi, NEW q, Memory!Iterate(n, q),
         q \in Seq(RowSet), RowsAscend(q), Range(q) = Store!RowsIn(RowsOf(work), n, lo, hi)
  PROVE  Keeps(MemoryInv, Store!Scan(n, lo, hi))
<1>1. /\ Reading /\ ~iter.open /\ UNCHANGED <<tx, base, work>>
      /\ iter' = [open |-> TRUE, table |-> n, rows |-> q] /\ ret' = Ret("ok")
  BY MemoryHelpers DEF Memory!Iterate
<1>2. /\ iter'.open = TRUE /\ iter'.table = n /\ iter'.rows = q /\ n \in Nat
      /\ \A r \in Range(q) : r.name = n
  BY <1>1, ValsNat DEF Store!RowsIn
<1>3. RowsOf(work)' = RowsOf(work) /\ Pending' = Range(q)
  BY <1>1, <1>2, MemoryViews
<1>4. TxInv' /\ MemoryInv'
  BY <1>1, <1>2, <1>3, TxStays DEF MemoryStep, MemoryInv
<1>5. Store!Scan(n, lo, hi)
  BY <1>1, <1>2, <1>3, ScanMaps DEF MemoryStep
<1> QED BY <1>4, <1>5 DEF Keeps

\* map_range, ending in its table, collects the rows of the range.
LEMMA MemoryRanges ==
  ASSUME MemoryStep, NEW n \in Names, NEW lo \in Bounds, NEW hi \in Bounds,
         hi.kind = "Unbounded" => Memory!Extensions(n) = {}, Memory!map_range(n, lo, hi)
  PROVE  Keeps(MemoryInv, Store!Scan(n, lo, hi))
<1> DEFINE q == Memory!Found(n, lo, hi)
<1>1. Memory!Iterate(n, q)
  BY DEF Memory!map_range
<1>2. MapGood(work) /\ RowsOf(work) = Memory!RowsOf(work)
  BY MemoryViews DEF MemoryStep, MemoryInv
<1> HIDE DEF q
<1>3. /\ q \in Seq(RowSet) /\ RowsAscend(q)
      /\ Range(q) = Store!RowsIn(Memory!RowsOf(work), n, lo, hi)
  BY <1>2, RangeIs DEF q
<1> QED BY <1>1, <1>2, <1>3, MemoryScans

\* map_get_all collects the rows of the key.
LEMMA MemoryGetsAll ==
  ASSUME MemoryStep, NEW n \in Names, NEW k \in Keys, Memory!map_get_all(n, k)
  PROVE  Keeps(MemoryInv, Store!Scan(n, Store!Exactly(k), Store!Exactly(k)))
<1> DEFINE s == Memory!Slot(n, k)
           q == [j \in DOMAIN s |-> Row(n, k, s[j])]
<1>1. Memory!Iterate(n, q)
  BY MemoryHelpers DEF Memory!map_get_all
<1>2. /\ Store!RowsAt(RowsOf(work), n, k) = SlotRows(n, k, Range(s))
      /\ (SlotOK(n, s) \/ s = <<>>)
  BY SlotIs, MemoryViews DEF MemoryStep
<1>3. q \in Seq(RowSet) /\ RowsAscend(q) /\ Range(q) = SlotRows(n, k, Range(s))
  <2> HIDE DEF s
  <2> QED BY <1>2, SlotRowsAscend
<1> HIDE DEF s, q
<1>4. Range(q) = Store!RowsIn(RowsOf(work), n, Store!Exactly(k), Store!Exactly(k))
  BY <1>2, <1>3, RowsAtExactly
<1> QED BY <1>1, <1>3, <1>4, MemoryScans

\* next of the memory backend yields the next collected row.
LEMMA MemoryNexts == MemoryStep /\ Memory!next => Keeps(MemoryInv, Store!ScanNext)
<1> SUFFICES ASSUME MemoryStep, Memory!next PROVE Keeps(MemoryInv, Store!ScanNext)
  OBVIOUS
<1>1. /\ Scanning /\ Reading /\ iter.open /\ UNCHANGED <<tx, base, work>>
      /\ iter.rows = <<>> => ret' = Ret("end") /\ iter' = iter
      /\ iter.rows # <<>> => /\ ret' \in Memory!Readings(iter.table, Head(iter.rows))
                             /\ iter' = [iter EXCEPT !.rows = Tail(iter.rows)]
  BY MemoryHelpers DEF Memory!next, Scanning
<1>2. /\ iter.rows \in Seq(RowSet) /\ RowsAscend(iter.rows)
      /\ \A r \in Range(iter.rows) : r.name = iter.table
      /\ iter \in [open : BOOLEAN, table : Nat, rows : Seq(RowSet)]
  BY DEF MemoryStep, MemoryInv
<1>3. RowsOf(work)' = RowsOf(work) /\ Pending = Range(iter.rows) /\ Pending' = Range(iter'.rows)
  BY <1>1, MemoryViews
<1>4. CASE iter.rows = <<>>
  <2>1. Pending = {} /\ Pending' = {} /\ iter' = iter
    BY <1>1, <1>3, <1>4 DEF Range
  <2>2. TxInv' /\ MemoryInv'
    BY <1>1, <1>3, <2>1, TxStays DEF MemoryStep, MemoryInv, TxInv, Memory!NoIter
  <2>3. Store!ScanNext
    BY <1>1, <1>4, <2>1, ScanNextMaps DEF MemoryStep
  <2> QED BY <2>2, <2>3 DEF Keeps
<1>5. CASE iter.rows # <<>>
  <2> DEFINE q == iter.rows
  <2>1. /\ Store!First(Range(q)) = q[1]
        /\ Range(Tail(q)) = Range(q) \ {q[1]}
        /\ Tail(q) \in Seq(RowSet) /\ RowsAscend(Tail(q))
    BY <1>2, <1>5, HeadIsFirst
  <2>2. /\ iter' \in [open : BOOLEAN, table : Nat, rows : Seq(RowSet)] /\ iter'.open = TRUE
        /\ iter'.rows = Tail(q) /\ iter'.table = iter.table /\ Head(q) = q[1]
    BY <1>1, <1>2, <1>5, <2>1
  <2>3. Pending # {} /\ q[1] \in Range(q)
    <3>1. 1 \in DOMAIN iter.rows
      BY <1>2, <1>5
    <3> QED BY <1>3, <3>1 DEF Range
  <2>4. TxInv' /\ MemoryInv'
    <3>1. \A r \in Range(Tail(q)) : r.name = iter.table
      BY <1>2, <2>1
    <3> QED BY <1>1, <1>3, <2>1, <2>2, <3>1, TxStays DEF MemoryStep, MemoryInv, TxInv
  <2>5. ret' = RetRow(Store!First(Pending)) /\ Pending' = Pending \ {Store!First(Pending)}
    <3>1. q[1].name = iter.table
      BY <1>2, <2>3
    <3>2. ret' = RetRow(q[1])
      BY <1>1, <1>5, <2>2, <3>1, MemoryHelpers DEF Memory!Readings
    <3> QED BY <1>3, <2>1, <2>2, <3>2
  <2>6. Store!ScanNext
    BY <1>1, <2>2, <2>3, <2>5, ScanNextMaps DEF MemoryStep
  <2> QED BY <2>4, <2>6 DEF Keeps
<1> QED BY <1>4, <1>5

\* The memory backend's iterator dropped.
LEMMA MemoryEndsScan == MemoryStep /\ Memory!EndScan => Keeps(MemoryInv, Store!EndScan)
<1> SUFFICES ASSUME MemoryStep, Memory!EndScan PROVE Keeps(MemoryInv, Store!EndScan)
  OBVIOUS
<1>1. /\ Scanning /\ Reading /\ UNCHANGED <<tx, base, work>> /\ iter' = Memory!NoIter
      /\ ret' = Ret("ok") /\ iter'.open = FALSE
  BY MemoryHelpers, NoIterOK DEF Memory!EndScan, Scanning
<1>2. RowsOf(work)' = RowsOf(work)
  BY <1>1, MemoryViews
<1>3. TxInv' /\ MemoryInv'
  BY <1>1, <1>2, NoIterOK, TxStays DEF MemoryStep, MemoryInv, Memory!NoIter
<1> QED BY <1>1, <1>3, EndScanMaps DEF MemoryStep, Keeps

\* A write that stages a map in form.
LEMMA MemoryStages ==
  ASSUME MemoryStep, NEW map, NEW r, Memory!Stage(map, r), MapGood(map)
  PROVE  TxInv' /\ MemoryInv' /\ Writes(Memory!RowsOf(map), r)
<1>1. Writing /\ Reading /\ UNCHANGED <<tx, base, iter>> /\ work' = map /\ ret' = r /\ tx = "write"
  BY MemoryHelpers DEF Memory!Stage, Writing, Reading
<1>2. TxInv'
  BY <1>1, TxStays DEF MemoryStep, TxInv
<1>3. MemoryInv'
  BY <1>1 DEF MemoryStep, MemoryInv, Memory!NoIter
<1> QED BY <1>1, <1>2, <1>3, MemoryViews DEF Writes, MemoryStep

\* insert of the memory backend puts the value in its place in the slot.
LEMMA MemoryInserts ==
  ASSUME MemoryStep, NEW n \in Names, NEW k \in Keys, NEW v \in Vals, Memory!insert(n, k, v)
  PROVE  Keeps(MemoryInv, IF n \in PlainTables THEN Store!InsertPlain(n, k, v)
                                               ELSE Store!InsertMulti(n, k, v))
<1> DEFINE s == Memory!Slot(n, k)
           placed == Memory!Placed(n, s, v)
           map == Put(work, <<n, k>>, placed)
           at == Store!RowsAt(RowsOf(work), n, k)
<1>1. Memory!Stage(map, Ret("ok"))
  BY MemoryHelpers, MemoryOrders DEF Memory!insert
<1>2. /\ RowsOf(work) = Memory!RowsOf(work) /\ MapGood(work)
      /\ at = SlotRows(n, k, Range(s)) /\ (SlotOK(n, s) \/ s = <<>>)
  BY SlotIs, MemoryViews DEF MemoryStep, MemoryInv
<1> HIDE DEF s
<1>3. SlotOK(n, placed) /\ Range(placed) = IF n \in PlainTables THEN {v} ELSE Range(s) \cup {v}
  BY <1>2, PlacedIs
<1> HIDE DEF placed
<1>4. MapGood(map) /\ Memory!RowsOf(map) = (RowsOf(work) \ at) \cup SlotRows(n, k, Range(placed))
  <2>1. MapGood(work) /\ SlotOK(n, placed)
    BY <1>2, <1>3
  <2>2. MapGood(Put(work, <<n, k>>, placed))
    BY <2>1, PutSlot
  <2>3. Memory!RowsOf(Put(work, <<n, k>>, placed)) =
          (Memory!RowsOf(work) \ Store!RowsAt(Memory!RowsOf(work), n, k))
            \cup SlotRows(n, k, Range(placed))
    BY <2>1, PutSlot
  <2> QED BY <1>2, <2>2, <2>3
<1> HIDE DEF map
<1>5. TxInv' /\ MemoryInv' /\ Writes(Memory!RowsOf(map), Ret("ok"))
  BY <1>1, <1>4, MemoryStages
<1>6. RowsOf(work) \in SUBSET RowSet /\ at \subseteq RowsOf(work)
  BY <1>2, MapHas DEF Store!RowsAt
<1>7. CASE n \in PlainTables
  <2>1. SlotRows(n, k, Range(placed)) = {Row(n, k, v)}
    BY <1>3, <1>7 DEF SlotRows
  <2>2. Writes((RowsOf(work) \ at) \cup {Row(n, k, v)}, Ret("ok"))
    BY <1>4, <1>5, <2>1
  <2> QED BY <1>5, <1>6, <1>7, <2>2, InsertPlainMaps DEF Keeps
<1>8. CASE n \notin PlainTables
  <2>1. SlotRows(n, k, Range(placed)) = at \cup {Row(n, k, v)}
    BY <1>2, <1>3, <1>8 DEF SlotRows
  <2>2. Memory!RowsOf(map) = RowsOf(work) \cup {Row(n, k, v)}
    BY <1>4, <1>6, <2>1
  <2>3. Writes(RowsOf(work) \cup {Row(n, k, v)}, Ret("ok"))
    BY <1>5, <2>2
  <2> QED BY <1>5, <1>6, <1>8, <2>3, InsertMultiMaps DEF Keeps
<1> QED BY <1>7, <1>8

\* remove of the memory backend drops the slot.
LEMMA MemoryRemoves ==
  ASSUME MemoryStep, NEW n \in Names, NEW k \in Keys, Memory!remove(n, k)
  PROVE  Keeps(MemoryInv, Store!Remove(n, k))
<1> DEFINE map == Restrict(work, DOMAIN work \ {<<n, k>>})
           at == Store!RowsAt(RowsOf(work), n, k)
           existed == <<n, k>> \in DOMAIN work
<1>1. Memory!Stage(map, Removed(existed))
  BY MemoryHelpers DEF Memory!remove, Memory!Without, Memory!Restrict, Restrict
<1>2. RowsOf(work) = Memory!RowsOf(work) /\ MapGood(work)
  BY MemoryViews DEF MemoryStep, MemoryInv
<1>3. MapGood(map) /\ Memory!RowsOf(map) = RowsOf(work) \ at
  <2>1. /\ MapGood(map)
        /\ Memory!RowsOf(map) =
             Memory!RowsOf(work) \ Store!RowsAt(Memory!RowsOf(work), n, k)
    BY <1>2, DropSlot
  <2> QED BY <1>2, <2>1
<1>4. existed <=> at # {}
  <2>1. at = IF existed THEN SlotRows(n, k, Range(work[<<n, k>>])) ELSE {}
    BY <1>2, SlotRowsAt
  <2>2. existed => Range(work[<<n, k>>]) # {}
    <3>1. \A p \in DOMAIN work : SlotOK(p[1], work[p])
      BY <1>2, MapGoodIs
    <3> QED BY <3>1, SlotFacts
  <2> QED BY <2>1, <2>2 DEF SlotRows
<1> HIDE DEF map
<1>5. /\ TxInv' /\ MemoryInv' /\ existed \in BOOLEAN
      /\ Writes(RowsOf(work) \ Store!RowsAt(RowsOf(work), n, k), Removed(existed))
  BY <1>1, <1>3, MemoryStages
<1> HIDE DEF existed
<1>6. Store!Remove(n, k)
  BY <1>4, <1>5, RemoveMaps
<1> QED BY <1>5, <1>6 DEF Keeps

\* remove_value of the memory backend: the last value takes the slot with it.
LEMMA MemoryRemovesValue ==
  ASSUME MemoryStep, NEW n \in Names, NEW k \in Keys, NEW v \in Vals, Memory!remove_value(n, k, v)
  PROVE  Keeps(MemoryInv, IF n \in PlainTables THEN Store!RemoveValuePlain
                                               ELSE Store!RemoveValue(n, k, v))
<1> DEFINE s == Memory!Slot(n, k)
           kept == Memory!Kept(s, v)
           at == Store!RowsAt(RowsOf(work), n, k)
           existed == v \in Range(s)
<1>1. /\ RowsOf(work) = Memory!RowsOf(work) /\ MapGood(work)
      /\ at = SlotRows(n, k, Range(s))
      /\ existed <=> Row(n, k, v) \in RowsOf(work)
      /\ n \in PlainTables \/ (n \in MultiTables /\ n \notin PlainTables)
  <2>1. RowsOf(work) = Memory!RowsOf(work) /\ MapGood(work) /\ MemoryInv
    BY MemoryViews DEF MemoryStep, MemoryInv
  <2>2. at = SlotRows(n, k, Range(s))
    BY <2>1, SlotIs
  <2>3. existed <=> Row(n, k, v) \in RowsOf(work)
    BY <2>1, SlotHolds
  <2>4. n \in PlainTables \/ (n \in MultiTables /\ n \notin PlainTables)
    BY TablesAssumption DEF Names
  <2> QED BY <2>1, <2>2, <2>3, <2>4
<1>2. ASSUME Memory!Writing, Memory!Answers(ret')
      PROVE  TxInv' /\ MemoryInv' /\ Writes(RowsOf(work), ret')
  <2>1. Writing /\ Reading /\ UNCHANGED <<tx, base, work, iter>> /\ tx = "write"
    BY <1>2, MemoryHelpers DEF Memory!Answers, Writing, Reading
  <2>2. RowsOf(work)' = RowsOf(work)
    BY <2>1, MemoryViews
  <2>3. TxInv'
    BY <2>1, TxStays DEF MemoryStep, TxInv
  <2>4. MemoryInv'
    BY <2>1 DEF MemoryStep, MemoryInv, Memory!NoIter
  <2> QED BY <2>1, <2>2, <2>3, <2>4 DEF Writes, MemoryStep
<1>3. CASE n \in PlainTables
  <2>1. Memory!Writing /\ Memory!Answers(Ret("Unsupported"))
    BY <1>1, <1>3, MemoryHelpers, TablesAssumption DEF Memory!remove_value
  <2>2. Memory!Answers(ret') /\ ret' = Ret("Unsupported")
    BY <2>1 DEF Memory!Answers
  <2>3. TxInv' /\ MemoryInv' /\ Writes(RowsOf(work), Ret("Unsupported"))
    BY <1>2, <2>1, <2>2
  <2> QED BY <1>3, <2>3, RemoveValuePlainMaps DEF Keeps
<1>4. CASE n \notin PlainTables /\ <<n, k>> \notin DOMAIN work
  <2>1. Memory!Writing /\ Memory!Answers(Ret("absent"))
    BY <1>4, MemoryHelpers DEF Memory!remove_value
  <2>2. Memory!Answers(ret') /\ ret' = Ret("absent")
    BY <2>1 DEF Memory!Answers
  <2>3. ~existed
    <3>1. s = <<>>
      BY <1>4, SlotIs DEF MemoryStep
    <3>2. Range(<<>>) = {}
      BY DEF Range
    <3> QED BY <3>1, <3>2
  <2>4. RowsOf(work) \ {Row(n, k, v)} = RowsOf(work) /\ Removed(FALSE) = Ret("absent")
    BY <1>1, <2>3 DEF Removed
  <2>5. TxInv' /\ MemoryInv' /\ Writes(RowsOf(work) \ {Row(n, k, v)}, Removed(FALSE))
    BY <1>2, <2>1, <2>2, <2>4
  <2>6. Store!RemoveValue(n, k, v)
    BY <1>1, <2>3, <2>5, RemoveValueMaps
  <2> QED BY <1>4, <2>5, <2>6 DEF Keeps
<1>5. CASE n \notin PlainTables /\ <<n, k>> \in DOMAIN work
  <2> DEFINE map == IF kept = <<>> THEN Restrict(work, DOMAIN work \ {<<n, k>>})
                    ELSE Put(work, <<n, k>>, kept)
  <2>1. Memory!Stage(map, Removed(existed))
    BY <1>5, MemoryHelpers, MemoryOrders
       DEF Memory!remove_value, Memory!Without, Memory!Restrict, Restrict
  <2>2. SlotOK(n, s)
    BY <1>5, SlotIs DEF MemoryStep
  <2> HIDE DEF s
  <2>3. /\ Range(kept) = Range(s) \ {v}
        /\ kept # <<>> => SlotOK(n, kept)
        /\ kept = <<>> <=> Range(s) \ {v} = {}
    BY <2>2, KeptIs
  <2> HIDE DEF kept
  <2>4. MapGood(map) /\ Memory!RowsOf(map) = (RowsOf(work) \ at) \cup SlotRows(n, k, Range(s) \ {v})
    <3>1. CASE kept = <<>>
      <4>1. SlotRows(n, k, Range(s) \ {v}) = {}
        BY <2>3, <3>1 DEF SlotRows
      <4>2. map = Restrict(work, DOMAIN work \ {<<n, k>>})
        BY <3>1
      <4> HIDE DEF map
      <4>3. /\ MapGood(map)
            /\ Memory!RowsOf(map) =
                 Memory!RowsOf(work) \ Store!RowsAt(Memory!RowsOf(work), n, k)
        BY <1>1, <4>2, DropSlot
      <4> QED BY <1>1, <4>1, <4>3
    <3>2. CASE kept # <<>>
      <4>1. MapGood(work) /\ SlotOK(n, kept)
        BY <1>1, <2>3, <3>2
      <4>2. MapGood(Put(work, <<n, k>>, kept))
        BY <4>1, PutSlot
      <4>3. Memory!RowsOf(Put(work, <<n, k>>, kept)) =
              (Memory!RowsOf(work) \ Store!RowsAt(Memory!RowsOf(work), n, k))
                \cup SlotRows(n, k, Range(kept))
        BY <4>1, PutSlot
      <4> QED BY <1>1, <2>3, <3>2, <4>2, <4>3
    <3> QED BY <3>1, <3>2
  <2>5. SlotRows(n, k, Range(s) \ {v}) = at \ {Row(n, k, v)}
    BY <1>1 DEF SlotRows, Row
  <2>6. at \subseteq RowsOf(work) /\ (Row(n, k, v) \in RowsOf(work) => Row(n, k, v) \in at)
    BY DEF Store!RowsAt, Row
  <2>7. Memory!RowsOf(map) = RowsOf(work) \ {Row(n, k, v)}
    <3> HIDE DEF at
    <3> QED BY <2>4, <2>5, <2>6
  <2> HIDE DEF map
  <2>8. /\ TxInv' /\ MemoryInv' /\ existed \in BOOLEAN
        /\ Writes(RowsOf(work) \ {Row(n, k, v)}, Removed(existed))
    BY <2>1, <2>4, <2>7, MemoryStages
  <2> HIDE DEF existed
  <2>9. Store!RemoveValue(n, k, v)
    BY <1>1, <2>8, RemoveValueMaps
  <2> QED BY <1>5, <2>8, <2>9 DEF Keeps
<1> QED BY <1>3, <1>4, <1>5

----------------------------------------------------------------------------
(* The calls of the abstract store, told apart.                            *)

\* The calls of the abstract store that name no table.
LEMMA CallsAre ==
  /\ Store!Open(0) \/ Store!Close \/ Store!Crash \/ Store!BeginRead \/ Store!BeginWrite
       \/ Store!Commit \/ Store!RemoveValuePlain \/ Store!ScanNext \/ Store!EndScan
       => Store!Call
  /\ \A r \in {"ok", "panic"} : Store!Rollback(Store!Ret(r)) => Store!Call
<1>1. Store!Open(0) => Store!Call
  BY DEF Store!Call
<1>2. Store!Close \/ Store!Crash \/ Store!BeginRead \/ Store!BeginWrite
       \/ Store!Commit \/ Store!RemoveValuePlain \/ Store!ScanNext \/ Store!EndScan
       => Store!Call
  BY DEF Store!Call
<1>3. \A r \in {"ok", "panic"} : Store!Rollback(Store!Ret(r)) => Store!Call
  BY DEF Store!Call
<1> QED BY <1>1, <1>2, <1>3

\* The calls of the abstract store on one of its tables.
LEMMA CallsOnTablesAre ==
  ASSUME NEW n \in Names
  PROVE  /\ \A k \in Keys : Store!Remove(n, k) \/ Store!Get(n, k)
                              \/ Store!Scan(n, Store!Exactly(k), Store!Exactly(k)) => Store!Call
         /\ \A scan \in ScanRanges : Store!Scan(n, scan[1], scan[2]) => Store!Call
         /\ Store!NoSuchTable(n) => Store!Call
         /\ \A k \in Keys, v \in Vals :
              /\ (IF n \in PlainTables THEN Store!InsertPlain(n, k, v) ELSE Store!InsertMulti(n, k, v))
                   => Store!Call
              /\ (IF n \in PlainTables THEN Store!RemoveValuePlain ELSE Store!RemoveValue(n, k, v))
                   => Store!Call
<1>1. n \in Store!Names /\ (n \notin PlainTables => n \in MultiTables)
  BY DEF Store!Names, Names
<1>2. \A k \in Keys : Store!Remove(n, k) \/ Store!Get(n, k)
                              \/ Store!Scan(n, Store!Exactly(k), Store!Exactly(k)) => Store!Call
  BY <1>1 DEF Store!Call
<1>3. \A scan \in ScanRanges : Store!Scan(n, scan[1], scan[2]) => Store!Call
  BY <1>1 DEF Store!Call
<1>4. Store!NoSuchTable(n) => Store!Call
  BY <1>1 DEF Store!Call
<1>5. ASSUME NEW k \in Keys, NEW v \in Vals
      PROVE  (IF n \in PlainTables THEN Store!InsertPlain(n, k, v) ELSE Store!InsertMulti(n, k, v))
               => Store!Call
  BY <1>1 DEF Store!Call
<1>6. ASSUME NEW k \in Keys, NEW v \in Vals
      PROVE  (IF n \in PlainTables THEN Store!RemoveValuePlain ELSE Store!RemoveValue(n, k, v))
               => Store!Call
  BY <1>1 DEF Store!Call
<1> QED BY <1>2, <1>3, <1>4, <1>5, <1>6

\* Every call of the memory backend keeps its map in form and is a call of the
\* abstract store.
LEMMA MemoryCalls ==
  ASSUME MemoryStep, Memory!Next
  PROVE  Keeps(MemoryInv, Store!Call)
<1>2. CASE Memory!open
  BY <1>2, MemoryOpens, CallsAre DEF Keeps
<1>3. CASE tx = "idle" /\ Memory!Gone("ok")
  BY <1>3, MemoryGoes, CallsAre DEF Keeps
<1>4. CASE tx # "closed" /\ Memory!Gone("crashed")
  BY <1>4, MemoryGoes, CallsAre DEF Keeps
<1>5. CASE Memory!read_transaction
  BY <1>5, MemoryBegins, CallsAre DEF Keeps
<1>6. CASE Memory!write_transaction
  BY <1>6, MemoryBegins, CallsAre DEF Keeps
<1>7. CASE Memory!commit
  BY <1>7, MemoryEnds, CallsAre DEF Keeps
<1>8. ASSUME NEW r \in {"ok", "panic"}, Memory!Drop(r) PROVE Keeps(MemoryInv, Store!Call)
  BY <1>8, MemoryEnds, CallsAre DEF Keeps
<1>9. ASSUME NEW n \in Names, Memory!Lookups(n) PROVE Keeps(MemoryInv, Store!Call)
  <2>1. ASSUME NEW k \in Keys, Memory!map_get(n, k) PROVE Keeps(MemoryInv, Store!Call)
    BY <2>1, MemoryGets, CallsOnTablesAre DEF Keeps
  <2>2. ASSUME NEW k \in Keys, Memory!map_get_all(n, k) PROVE Keeps(MemoryInv, Store!Call)
    BY <2>2, MemoryGetsAll, CallsOnTablesAre DEF Keeps
  <2>3. ASSUME NEW scan \in Memory!FencedScans(n), Memory!map_range(n, scan[1], scan[2])
        PROVE  Keeps(MemoryInv, Store!Call)
    <3>1. /\ scan \in ScanRanges /\ scan[1] \in Bounds /\ scan[2] \in Bounds
          /\ scan[2].kind = "Unbounded" => Memory!Extensions(n) = {}
      BY ScanRangesAssumption DEF Memory!FencedScans
    <3> QED BY <2>3, <3>1, MemoryRanges, CallsOnTablesAre DEF Keeps
  <2> QED BY <1>9, <2>1, <2>2, <2>3 DEF Memory!Lookups
<1>10. ASSUME NEW n \in Names, Memory!MemoryReadTable(n) \/ Memory!MemoryWriteTable(n)
       PROVE  Keeps(MemoryInv, Store!Call)
  <2>1. ASSUME NEW k \in Keys, Memory!remove(n, k) PROVE Keeps(MemoryInv, Store!Call)
    BY <2>1, MemoryRemoves, CallsOnTablesAre DEF Keeps
  <2>2. ASSUME NEW k \in Keys, NEW v \in Vals, Memory!insert(n, k, v)
        PROVE  Keeps(MemoryInv, Store!Call)
    BY <2>2, MemoryInserts, CallsOnTablesAre DEF Keeps
  <2>3. ASSUME NEW k \in Keys, NEW v \in Vals, Memory!remove_value(n, k, v)
        PROVE  Keeps(MemoryInv, Store!Call)
    BY <2>3, MemoryRemovesValue, CallsOnTablesAre DEF Keeps
  <2> QED BY <1>9, <1>10, <2>1, <2>2, <2>3 DEF Memory!MemoryReadTable, Memory!MemoryWriteTable
<1>11. CASE Memory!next
  BY <1>11, MemoryNexts, CallsAre DEF Keeps
<1>12. CASE Memory!EndScan
  BY <1>12, MemoryEndsScan, CallsAre DEF Keeps
<1> QED
  BY <1>2, <1>3, <1>4, <1>5, <1>6, <1>7, <1>8, <1>10, <1>11, <1>12, MemoryHelpers DEF Memory!Next

----------------------------------------------------------------------------
(* The fjall backend: its keyspaces and their entries.                     *)

\* The fjall backend's copies of the shared operators.
LEMMA FjallHelpers ==
  /\ Fjall!Names = Names
  /\ \A n, k, v : Fjall!Row(n, k, v) = Row(n, k, v)
  /\ \A r : Fjall!Ret(r) = Ret(r) /\ Fjall!RetRow(r) = RetRow(r) /\ Fjall!Removed(r) = Removed(r)
  /\ \A s : Fjall!Range(s) = Range(s)
  /\ Fjall!Reading = Reading /\ Fjall!Writing = Writing /\ Fjall!Scanning = Scanning
<1>1. Fjall!Names = Names
  BY DEF Fjall!Names, Names
<1>2. \A n, k, v : Fjall!Row(n, k, v) = Row(n, k, v)
  BY DEF Fjall!Row, Row
<1>3. \A r : Fjall!Ret(r) = Ret(r)
  BY DEF Fjall!Ret, Ret, Fjall!NoRow, NoRow
<1>4. \A r : Fjall!RetRow(r) = RetRow(r)
  BY DEF Fjall!RetRow, RetRow
<1>5. \A r : Fjall!Removed(r) = Removed(r)
  BY <1>3 DEF Fjall!Removed, Removed
<1>6. \A s : Fjall!Range(s) = Range(s)
  BY DEF Fjall!Range, Range
<1>7. Fjall!Reading = Reading /\ Fjall!Writing = Writing /\ Fjall!Scanning = Scanning
  BY DEF Fjall!Reading, Reading, Fjall!Writing, Writing, Fjall!Scanning, Scanning
<1> QED BY <1>1, <1>2, <1>3, <1>4, <1>5, <1>6, <1>7

\* The fjall backend's copies of the operators on orders and maps.
LEMMA FjallOrders ==
  /\ \A S : Fjall!Sorted(S) = Sorted(S)
  /\ \A S, lo, hi : Fjall!Within(S, lo, hi) = Within(S, lo, hi)
  /\ \A map, key, value : Fjall!Put(map, key, value) = Put(map, key, value)
  /\ \A map, S : Fjall!Restrict(map, S) = Restrict(map, S)
  /\ \A x, y : Fjall!IsPrefix(x, y) <=> IsPrefix(x, y)
  /\ \A k : Fjall!Included(k) = Included(k)
<1>1. \A x, y : Fjall!Before(x, y) <=> Before(x, y)
  BY DEF Fjall!Before, Before, Fjall!IsStrictPrefix, IsStrictPrefix, Fjall!IsPrefix, IsPrefix
<1>2. \A x, y : Fjall!IsPrefix(x, y) <=> IsPrefix(x, y)
  BY DEF Fjall!IsPrefix, IsPrefix
<1>3. \A S, R : Fjall!InOrder(S, R) = InOrder(S, R)
  BY DEF Fjall!InOrder, InOrder, Fjall!Cardinality, Cardinality
<1>4. \A S : Fjall!Sorted(S) = Sorted(S)
  <2>1. \A S : {p \in S \X S : Fjall!Before(p[1], p[2])} = {p \in S \X S : Before(p[1], p[2])}
    BY <1>1
  <2> QED BY <1>3, <2>1 DEF Fjall!Sorted, Sorted
<1>5. \A S, lo, hi : Fjall!Within(S, lo, hi) = Within(S, lo, hi)
  BY <1>4 DEF Fjall!Within, Within, Fjall!Before, Before, Fjall!IsStrictPrefix, IsStrictPrefix,
              Fjall!IsPrefix, IsPrefix
<1>6. \A map, key, value : Fjall!Put(map, key, value) = Put(map, key, value)
  BY DEF Fjall!Put, Put
<1>7. \A map, S : Fjall!Restrict(map, S) = Restrict(map, S)
  BY DEF Fjall!Restrict, Restrict
<1>8. \A k : Fjall!Included(k) = Included(k)
  BY DEF Fjall!Included, Included
<1> QED BY <1>2, <1>4, <1>5, <1>6, <1>7, <1>8

\* The entries of a keyspace: finitely many, whole pairs in a multimap's.
EntriesOK(n, t) ==
  /\ IsFiniteSet(DOMAIN t)
  /\ \A raw \in DOMAIN t :
       IF n \in PlainTables
         THEN raw \in {<<k>> : k \in Keys} /\ t[raw] \in {<<v>> : v \in Vals}
         ELSE raw \in Keys \X Vals /\ t[raw] = <<>>

TablesGood(tables) == DOMAIN tables = Names /\ \A n \in Names : EntriesOK(n, tables[n])

\* Keyspaces in form are what the type invariant asks for.
LEMMA TablesGoodOK ==
  ASSUME NEW tables, TablesGood(tables)
  PROVE  Fjall!TablesOK(tables)
BY FjallHelpers DEF TablesGood, EntriesOK, Fjall!TablesOK

\* The entry a row is kept as, and whether a keyspace keeps it.
Raw(r) == IF r.name \in PlainTables THEN <<r.key>> ELSE <<r.key, r.val>>
Holds(t, r) == Raw(r) \in DOMAIN t /\ (r.name \in PlainTables => t[Raw(r)] = <<r.val>>)

\* What an entry stands for.
LEMMA EntryIs ==
  ASSUME NEW n \in Names, NEW t, EntriesOK(n, t), NEW raw \in DOMAIN t
  PROVE  LET r == Fjall!Decoded(n, raw, t[raw])
         IN  /\ raw \in Strings /\ raw[1] \in Keys /\ t[raw] \in Seq(Nat)
             /\ r \in RowSet /\ r.name = n /\ r.key = raw[1]
             /\ Raw(r) = raw /\ Holds(t, r)
             /\ Second(raw) = IF n \in PlainTables THEN 0 - 1 ELSE r.val
<1> DEFINE r == Fjall!Decoded(n, raw, t[raw])
<1>1. r = Row(n, raw[1], IF n \in PlainTables THEN t[raw][1] ELSE raw[2])
  BY FjallHelpers DEF Fjall!Decoded
<1> HIDE DEF r
<1>2. CASE n \in PlainTables
  <2>1. raw \in {<<k>> : k \in Keys} /\ t[raw] \in {<<v>> : v \in Vals}
    BY <1>2 DEF EntriesOK
  <2>2. PICK k \in Keys : raw = <<k>>
    BY <2>1
  <2>3. PICK v \in Vals : t[raw] = <<v>>
    BY <2>1
  <2>4. r = Row(n, k, v) /\ k \in Nat /\ v \in Nat
    BY <1>1, <1>2, <2>2, <2>3, ValsNat
  <2>5. raw \in Strings /\ raw[1] = k /\ Second(raw) = 0 - 1 /\ t[raw] \in Seq(Nat)
    BY <2>2, <2>3, <2>4 DEF Strings, Second
  <2>6. r \in RowSet /\ r.name = n /\ r.key = k /\ r.val = v /\ Raw(r) = raw
    BY <1>2, <2>2, <2>4 DEF Row, RowSet, Raw
  <2>7. Holds(t, r)
    BY <2>3, <2>6 DEF Holds
  <2> QED BY <1>2, <2>5, <2>6, <2>7 DEF r
<1>3. CASE n \notin PlainTables
  <2>1. raw \in Keys \X Vals /\ t[raw] = <<>>
    BY <1>3 DEF EntriesOK
  <2>2. PICK k \in Keys, v \in Vals : raw = <<k, v>>
    BY <2>1
  <2>4. r = Row(n, k, v) /\ k \in Nat /\ v \in Nat
    BY <1>1, <1>3, <2>2, ValsNat
  <2>5. raw \in Strings /\ raw[1] = k /\ Second(raw) = v /\ t[raw] \in Seq(Nat)
    BY <2>1, <2>2, <2>4 DEF Strings, Second
  <2>6. r \in RowSet /\ r.name = n /\ r.key = k /\ r.val = v /\ Raw(r) = raw
    BY <1>3, <2>2, <2>4 DEF Row, RowSet, Raw
  <2>7. Holds(t, r)
    BY <1>3, <2>6 DEF Holds
  <2> QED BY <1>3, <2>5, <2>6, <2>7 DEF r
<1> QED BY <1>2, <1>3

\* The rows of the keyspaces, one by one.
LEMMA FjallHas ==
  ASSUME NEW tables, TablesGood(tables)
  PROVE  /\ Fjall!RowsOf(tables) \in SUBSET RowSet
         /\ \A r \in RowSet : r \in Fjall!RowsOf(tables) <=> Holds(tables[r.name], r)
<1>1. \A r : r \in Fjall!RowsOf(tables) <=>
        \E n \in Names : \E raw \in DOMAIN tables[n] : r = Fjall!Decoded(n, raw, tables[n][raw])
  BY FjallHelpers DEF Fjall!RowsOf
<1>2. ASSUME NEW n \in Names, NEW raw \in DOMAIN tables[n]
      PROVE  /\ Fjall!Decoded(n, raw, tables[n][raw]) \in RowSet
             /\ Fjall!Decoded(n, raw, tables[n][raw]).name = n
             /\ Holds(tables[n], Fjall!Decoded(n, raw, tables[n][raw]))
  <2>1. EntriesOK(n, tables[n])
    BY DEF TablesGood
  <2> QED BY <2>1, EntryIs
<1>3. Fjall!RowsOf(tables) \in SUBSET RowSet
  BY <1>1, <1>2
<1>4. ASSUME NEW r \in RowSet, Holds(tables[r.name], r) PROVE r \in Fjall!RowsOf(tables)
  <2> DEFINE n == r.name
  <2>1. n \in Names /\ Raw(r) \in DOMAIN tables[n] /\ r = Row(n, r.key, r.val)
    BY <1>4 DEF RowSet, Holds, Row
  <2>2. Fjall!Decoded(n, Raw(r), tables[n][Raw(r)]) = r
    BY <1>4, <2>1, FjallHelpers DEF Fjall!Decoded, Raw, Holds
  <2> QED BY <1>1, <2>1, <2>2
<1>5. ASSUME NEW r \in Fjall!RowsOf(tables) PROVE Holds(tables[r.name], r)
  BY <1>1, <1>2
<1> QED BY <1>3, <1>4, <1>5

\* Every entry is that of a row.
LEMMA RawHas ==
  ASSUME NEW tables, TablesGood(tables), NEW n \in Names, NEW raw \in DOMAIN tables[n]
  PROVE  \E r \in Fjall!RowsOf(tables) : r.name = n /\ Raw(r) = raw /\ r.key = raw[1]
<1> DEFINE r == Fjall!Decoded(n, raw, tables[n][raw])
<1>1. EntriesOK(n, tables[n])
  BY DEF TablesGood
<1>2. r \in RowSet /\ r.name = n /\ Raw(r) = raw /\ r.key = raw[1] /\ Holds(tables[n], r)
  BY <1>1, EntryIs
<1> HIDE DEF r
<1>3. r \in Fjall!RowsOf(tables)
  BY <1>2, FjallHas
<1> QED BY <1>2, <1>3

\* Putting a keyspace in place of a table's.
LEMMA PutTable ==
  ASSUME NEW tables, TablesGood(tables), NEW n \in Names, NEW t, EntriesOK(n, t),
         NEW new, new = [tables EXCEPT ![n] = t]
  PROVE  /\ TablesGood(new)
         /\ \A r \in RowSet : r \in Fjall!RowsOf(new) <=>
              IF r.name = n THEN Holds(t, r) ELSE r \in Fjall!RowsOf(tables)
<1>1. TablesGood(new) /\ \A m \in Names : new[m] = IF m = n THEN t ELSE tables[m]
  BY DEF TablesGood
<1>2. ASSUME NEW r \in RowSet
      PROVE  r \in Fjall!RowsOf(new) <=> IF r.name = n THEN Holds(t, r) ELSE r \in Fjall!RowsOf(tables)
  <2>1. r.name \in Names
    BY DEF RowSet
  <2>2. r \in Fjall!RowsOf(new) <=> Holds(new[r.name], r)
    BY <1>1, FjallHas
  <2>3. r \in Fjall!RowsOf(tables) <=> Holds(tables[r.name], r)
    BY FjallHas
  <2>4. new[r.name] = IF r.name = n THEN t ELSE tables[r.name]
    BY <1>1, <2>1
  <2> QED BY <2>2, <2>3, <2>4
<1> QED BY <1>1, <1>2

\* Putting a plain table's entry replaces the row of its key.
LEMMA PutPlainEntry ==
  ASSUME NEW n \in PlainTables, NEW t, EntriesOK(n, t), NEW k \in Keys, NEW v \in Vals
  PROVE  /\ EntriesOK(n, Put(t, <<k>>, <<v>>))
         /\ \A r \in RowSet : r.name = n =>
              (Holds(Put(t, <<k>>, <<v>>), r) <=> IF r.key = k THEN r.val = v ELSE Holds(t, r))
<1> DEFINE m == Put(t, <<k>>, <<v>>)
<1>1. /\ DOMAIN m = DOMAIN t \cup {<<k>>} /\ m[<<k>>] = <<v>>
      /\ \A x \in DOMAIN t : x # <<k>> => m[x] = t[x]
  BY DEF Put
<1> HIDE DEF m
<1>2. EntriesOK(n, m)
  <2>1. IsFiniteSet(DOMAIN m)
    BY <1>1, FS_AddElement DEF EntriesOK
  <2> QED BY <1>1, <2>1 DEF EntriesOK
<1>3. ASSUME NEW r \in RowSet, r.name = n
      PROVE  Holds(m, r) <=> IF r.key = k THEN r.val = v ELSE Holds(t, r)
  <2>1. Raw(r) = <<r.key>> /\ (Raw(r) = <<k>> <=> r.key = k)
    BY <1>3 DEF Raw
  <2> QED BY <1>1, <1>3, <2>1 DEF Holds
<1> QED BY <1>2, <1>3 DEF m

\* Putting a multimap's entry adds its row.
LEMMA PutMultiEntry ==
  ASSUME NEW n, n \notin PlainTables, NEW t, EntriesOK(n, t), NEW k \in Keys, NEW v \in Vals
  PROVE  /\ EntriesOK(n, Put(t, <<k, v>>, <<>>))
         /\ \A r \in RowSet : r.name = n =>
              (Holds(Put(t, <<k, v>>, <<>>), r) <=> (r.key = k /\ r.val = v) \/ Holds(t, r))
<1> DEFINE m == Put(t, <<k, v>>, <<>>)
<1>1. /\ DOMAIN m = DOMAIN t \cup {<<k, v>>} /\ m[<<k, v>>] = <<>>
      /\ \A x \in DOMAIN t : x # <<k, v>> => m[x] = t[x]
  BY DEF Put
<1> HIDE DEF m
<1>2. EntriesOK(n, m)
  <2>1. IsFiniteSet(DOMAIN m)
    BY <1>1, FS_AddElement, SMTT(30) DEF EntriesOK
  <2>2. <<k, v>> \in Keys \X Vals
    OBVIOUS
  <2> QED BY <1>1, <2>1, <2>2 DEF EntriesOK
<1>3. ASSUME NEW r \in RowSet, r.name = n
      PROVE  Holds(m, r) <=> (r.key = k /\ r.val = v) \/ Holds(t, r)
  <2>1. Raw(r) = <<r.key, r.val>> /\ (Raw(r) = <<k, v>> <=> r.key = k /\ r.val = v)
    BY <1>3 DEF Raw
  <2> QED BY <1>1, <1>3, <2>1 DEF Holds
<1> QED BY <1>2, <1>3 DEF m

\* Taking entries away.
LEMMA DropRaws ==
  ASSUME NEW n, NEW t, EntriesOK(n, t), NEW D
  PROVE  /\ EntriesOK(n, Restrict(t, DOMAIN t \ D))
         /\ \A r \in RowSet : Holds(Restrict(t, DOMAIN t \ D), r) <=> Holds(t, r) /\ Raw(r) \notin D
<1> DEFINE m == Restrict(t, DOMAIN t \ D)
<1>1. DOMAIN m = DOMAIN t \ D /\ \A x \in DOMAIN m : m[x] = t[x]
  BY DEF Restrict
<1> HIDE DEF m
<1>2. EntriesOK(n, m)
  <2>1. DOMAIN m \in SUBSET DOMAIN t
    BY <1>1
  <2>2. IsFiniteSet(DOMAIN m)
    BY <2>1, FS_Subset DEF EntriesOK
  <2> QED BY <1>1, <2>2 DEF EntriesOK
<1>3. \A r \in RowSet : Holds(m, r) <=> Holds(t, r) /\ Raw(r) \notin D
  BY <1>1 DEF Holds
<1> QED BY <1>2, <1>3 DEF m

----------------------------------------------------------------------------
(* The fjall backend: its lookups.                                         *)

\* Some entries of a keyspace, in order.
SomeRaws(n, raws) ==
  /\ raws \in Seq(DOMAIN work[n])
  /\ \A i, j \in DOMAIN raws : i < j => Before(raws[i], raws[j])

EntryRows(n, entries) == [i \in DOMAIN entries |-> Fjall!Decoded(n, entries[i][1], entries[i][2])]

\* The rows entries stand for ascend with them.
LEMMA EntriesAscend ==
  ASSUME TablesGood(work), NEW n \in Names, NEW raws, SomeRaws(n, raws),
         NEW entries, entries = [i \in DOMAIN raws |-> <<raws[i], work[n][raws[i]]>>]
  PROVE  /\ entries \in Seq(Strings \X Seq(Nat)) /\ (entries = <<>> <=> raws = <<>>)
         /\ EntryRows(n, entries) \in Seq(RowSet)
         /\ RowsAscend(EntryRows(n, entries))
         /\ Range(EntryRows(n, entries)) =
              {r \in Fjall!RowsOf(work) : r.name = n /\ Raw(r) \in Range(raws)}
<1> DEFINE rows == EntryRows(n, entries)
           dec(raw) == Fjall!Decoded(n, raw, work[n][raw])
<1>1. /\ Len(raws) \in Nat /\ DOMAIN raws = 1..Len(raws)
      /\ \A i \in DOMAIN raws : raws[i] \in DOMAIN work[n]
      /\ \A i, j \in DOMAIN raws : i < j => Before(raws[i], raws[j])
  BY DEF SomeRaws
<1>2. \A raw \in DOMAIN work[n] :
        /\ raw \in Strings /\ raw[1] \in Keys /\ work[n][raw] \in Seq(Nat)
        /\ dec(raw) \in RowSet /\ dec(raw).name = n /\ dec(raw).key = raw[1]
        /\ Raw(dec(raw)) = raw /\ Holds(work[n], dec(raw))
        /\ Second(raw) = IF n \in PlainTables THEN 0 - 1 ELSE dec(raw).val
  BY EntryIs DEF TablesGood
<1> HIDE DEF dec
<1>3. entries \in Seq(Strings \X Seq(Nat)) /\ (entries = <<>> <=> raws = <<>>)
  <2> DEFINE P == Strings \X Seq(Nat)
  <2>1. ASSUME NEW i \in 1..Len(raws) PROVE entries[i] \in P
    <3>1. raws[i] \in DOMAIN work[n]
      BY <1>1
    <3> QED BY <1>1, <1>2, <3>1
  <2>2. entries = [i \in 1..Len(raws) |-> entries[i]]
    BY <1>1
  <2> HIDE DEF P
  <2>3. entries \in Seq(P) /\ Len(entries) = Len(raws)
    BY <1>1, <2>1, <2>2
  <2>4. Len(entries) = 0 <=> entries = <<>>
    BY <2>3
  <2>5. Len(raws) = 0 <=> raws = <<>>
    BY DEF SomeRaws
  <2> QED BY <2>3, <2>4, <2>5 DEF P
<1>4. rows = [i \in DOMAIN raws |-> dec(raws[i])]
  BY DEF EntryRows, dec
<1> HIDE DEF rows
<1>5. rows \in Seq(RowSet) /\ DOMAIN rows = DOMAIN raws
  BY <1>1, <1>2, <1>4
<1>6. RowsAscend(rows)
  <2>1. ASSUME NEW i \in DOMAIN raws, NEW j \in DOMAIN raws, i < j
        PROVE  Store!RowBefore(dec(raws[i]), dec(raws[j]))
    <3>1. /\ raws[i] \in DOMAIN work[n] /\ raws[j] \in DOMAIN work[n] /\ Before(raws[i], raws[j])
      BY <1>1, <2>1
    <3>2. raws[i] \in Strings /\ raws[j] \in Strings
      BY <1>2, <3>1
    <3>3. \/ raws[i][1] < raws[j][1]
          \/ raws[i][1] = raws[j][1] /\ Second(raws[i]) < Second(raws[j])
      BY <3>1, <3>2, BeforeIs
    <3>4. CASE n \in PlainTables
      <4>1. Second(raws[i]) = 0 - 1 /\ Second(raws[j]) = 0 - 1
        BY <1>2, <3>1, <3>4
      <4> QED BY <1>2, <3>1, <3>3, <4>1 DEF Store!RowBefore
    <3>5. CASE n \notin PlainTables
      BY <1>2, <3>1, <3>3, <3>5 DEF Store!RowBefore
    <3> QED BY <3>4, <3>5
  <2> QED BY <1>4, <1>5, <2>1 DEF RowsAscend
<1>7. ASSUME NEW r \in RowSet
      PROVE  r \in Range(rows) <=> r \in Fjall!RowsOf(work) /\ r.name = n /\ Raw(r) \in Range(raws)
  <2>1. r \in Fjall!RowsOf(work) <=> Holds(work[r.name], r)
    BY FjallHas
  <2>2. ASSUME r \in Range(rows)
        PROVE  r \in Fjall!RowsOf(work) /\ r.name = n /\ Raw(r) \in Range(raws)
    <3>1. PICK i \in DOMAIN raws : r = dec(raws[i])
      BY <1>4, <2>2 DEF Range
    <3>2. raws[i] \in DOMAIN work[n] /\ raws[i] \in Range(raws)
      BY <1>1 DEF Range
    <3> QED BY <1>2, <2>1, <3>1, <3>2
  <2>3. ASSUME r \in Fjall!RowsOf(work), r.name = n, Raw(r) \in Range(raws) PROVE r \in Range(rows)
    <3>1. PICK i \in DOMAIN raws : Raw(r) = raws[i]
      BY <2>3 DEF Range
    <3>2. dec(Raw(r)) = r
      <4>1. r = Row(n, r.key, r.val) /\ Holds(work[n], r)
        BY <2>1, <2>3 DEF Row, RowSet
      <4> QED BY <2>3, <4>1, FjallHelpers DEF dec, Fjall!Decoded, Raw, Holds
    <3>3. r = rows[i]
      BY <1>4, <3>1, <3>2
    <3> QED BY <1>5, <3>3 DEF Range
  <2> QED BY <2>2, <2>3
<1>8. Range(rows) \in SUBSET RowSet
  BY <1>5 DEF Range
<1>9. Range(rows) = {r \in Fjall!RowsOf(work) : r.name = n /\ Raw(r) \in Range(raws)}
  BY <1>7, <1>8, FjallHas
<1> QED BY <1>3, <1>5, <1>6, <1>9 DEF rows

\* A row's entry begins with its key.
LEMMA RawIs ==
  ASSUME NEW r \in RowSet
  PROVE  /\ Raw(r) \in Strings /\ Raw(r)[1] = r.key
         /\ Second(Raw(r)) = IF r.name \in PlainTables THEN 0 - 1 ELSE r.val
         /\ r.key \in Nat /\ r.val \in Nat
<1>1. r.key \in Nat /\ r.val \in Nat
  BY ValsNat DEF RowSet
<1> QED BY <1>1 DEF Raw, Strings, Second

\* The entries of a keyspace are kept strings, finitely many.
LEMMA RawsAreStrings ==
  ASSUME TablesGood(work), NEW n \in Names
  PROVE  DOMAIN work[n] \in SUBSET Strings /\ IsFiniteSet(DOMAIN work[n])
<1>1. EntriesOK(n, work[n])
  BY DEF TablesGood
<1>2. \A raw \in DOMAIN work[n] : raw \in Strings
  BY <1>1, EntryIs
<1> QED BY <1>1, <1>2 DEF EntriesOK

\* A prefix scan finds the entries that begin with the key.
LEMMA PrefixScanIs ==
  ASSUME TablesGood(work), NEW n \in Names, NEW k \in Keys
  PROVE  /\ SomeRaws(n, Fjall!prefix(n, k))
         /\ Range(Fjall!prefix(n, k)) = {raw \in DOMAIN work[n] : raw[1] = k}
<1> DEFINE S == {raw \in DOMAIN work[n] : IsPrefix(<<k>>, raw)}
<1>1. Fjall!prefix(n, k) = Sorted(S)
  <2>1. {raw \in DOMAIN work[n] : Fjall!IsPrefix(<<k>>, raw)} = S
    BY FjallOrders
  <2> QED BY <2>1, FjallOrders DEF Fjall!prefix
<1>2. <<k>> \in Strings /\ k \in Nat
  BY ValsNat DEF Strings
<1>3. S = {raw \in DOMAIN work[n] : raw[1] = k}
  <2>1. ASSUME NEW raw \in DOMAIN work[n] PROVE IsPrefix(<<k>>, raw) <=> raw[1] = k
    <3>1. raw \in Strings
      BY RawsAreStrings
    <3>2. IsPrefix(<<k>>, raw) <=> <<k>> = raw \/ (Len(<<k>>) = 1 /\ <<k>>[1] = raw[1])
      BY <1>2, <3>1, PrefixIs
    <3> QED BY <3>2
  <2> QED BY <2>1
<1>4. S \in SUBSET DOMAIN work[n]
  OBVIOUS
<1> HIDE DEF S
<1>5. S \in SUBSET Strings /\ IsFiniteSet(S)
  BY <1>4, RawsAreStrings, FS_Subset
<1>6. /\ Sorted(S) \in Seq(S) /\ Range(Sorted(S)) = S
      /\ \A i, j \in DOMAIN Sorted(S) : i < j => Before(Sorted(S)[i], Sorted(S)[j])
  BY <1>5, SortedIs
<1>7. Sorted(S) \in Seq(DOMAIN work[n])
  BY <1>4, <1>6, SeqWider
<1> QED BY <1>1, <1>3, <1>6, <1>7 DEF SomeRaws

\* The keys an entry scan finds: in a plain table those between the bounds, in
\* a multimap an inclusive upper bound leaves its key out and an exclusive
\* lower bound lets its key in.
Found(n, lo, hi, k) ==
  IF n \in PlainTables
    THEN Store!AboveLo(lo, k) /\ Store!BelowHi(hi, k)
    ELSE /\ lo.kind = "Unbounded" \/ lo.key <= k
         /\ hi.kind = "Unbounded" \/ k < hi.key

\* What an entry scan between two bounds finds.
LEMMA BetweenIs ==
  ASSUME TablesGood(work), NEW n \in Names, NEW lo \in Bounds, NEW hi \in Bounds
  PROVE  /\ SomeRaws(n, Fjall!Between(n, lo, hi))
         /\ \A r \in Fjall!RowsOf(work) : r.name = n =>
              (Raw(r) \in Range(Fjall!Between(n, lo, hi)) <=> Found(n, lo, hi, r.key))
<1> DEFINE l == Fjall!byte_bound(lo)
           h == Fjall!byte_bound(hi)
           raws == Within(DOMAIN work[n], l, h)
<1>1. Fjall!Between(n, lo, hi) = raws
  BY FjallOrders DEF Fjall!Between
<1>2. DOMAIN work[n] \in SUBSET Strings /\ IsFiniteSet(DOMAIN work[n])
  BY RawsAreStrings
<1>3. l.kind = lo.kind /\ l.at = <<lo.key>> /\ h.kind = hi.kind /\ h.at = <<hi.key>>
  BY DEF Fjall!byte_bound
<1> HIDE DEF l, h
<1>4. /\ raws \in Seq(DOMAIN work[n])
      /\ Range(raws) = {x \in DOMAIN work[n] : Above(l, x) /\ BelowEnd(h, x)}
      /\ \A i, j \in DOMAIN raws : i < j => Before(raws[i], raws[j])
  BY <1>2, WithinIs
<1> HIDE DEF raws
<1>5. /\ lo = Unbounded \/ (lo.kind \in {"Included", "Excluded"} /\ lo.key \in Nat)
      /\ hi = Unbounded \/ (hi.kind \in {"Included", "Excluded"} /\ hi.key \in Nat)
      /\ lo.key \in Nat /\ hi.key \in Nat
  BY ValsNat DEF Bounds, Unbounded, Included, Excluded
<1>6. ASSUME NEW r \in Fjall!RowsOf(work), r.name = n
      PROVE  Raw(r) \in Range(raws) <=> Found(n, lo, hi, r.key)
  <2> DEFINE x == Raw(r)
             k == r.key
  <2>1. r \in RowSet /\ x \in DOMAIN work[n]
    <3>1. r \in RowSet
      BY FjallHas
    <3>2. Holds(work[r.name], r)
      BY <3>1, FjallHas
    <3> QED BY <1>6, <3>1, <3>2 DEF Holds
  <2>2. x \in Strings /\ x[1] = k /\ k \in Nat /\ r.val \in Nat
        /\ Second(x) = IF n \in PlainTables THEN 0 - 1 ELSE r.val
    BY <1>6, <2>1, RawIs
  <2>3. \A y \in Nat : <<y>> \in Strings /\ <<y>>[1] = y /\ Second(<<y>>) = 0 - 1
    BY DEF Strings, Second
  <2> HIDE DEF x, k
  <2>4. \A y \in Nat : /\ Before(<<y>>, x) <=> y < k \/ (y = k /\ n \notin PlainTables)
                       /\ Before(x, <<y>>) <=> k < y
    <3>1. ASSUME NEW y \in Nat
          PROVE  /\ Before(<<y>>, x) <=> y < k \/ (y = k /\ n \notin PlainTables)
                 /\ Before(x, <<y>>) <=> k < y
      <4>1. Before(<<y>>, x) <=> y < k \/ (y = k /\ 0 - 1 < Second(x))
        BY <2>2, <2>3, BeforeIs
      <4>2. Before(x, <<y>>) <=> k < y \/ (k = y /\ Second(x) < 0 - 1)
        BY <2>2, <2>3, BeforeIs
      <4> QED BY <2>2, <4>1, <4>2
    <3> QED BY <3>1
  <2>5. \A y \in Nat : x = <<y>> <=> k = y /\ n \in PlainTables
    BY <1>6, <2>2 DEF x, Raw, k
  <2>6. CASE n \in PlainTables
    <3>1. Above(l, x) <=> Store!AboveLo(lo, k)
      BY <1>3, <1>5, <2>2, <2>4, <2>5, <2>6 DEF Above, Store!AboveLo, Unbounded
    <3>2. BelowEnd(h, x) <=> Store!BelowHi(hi, k)
      BY <1>3, <1>5, <2>2, <2>4, <2>5, <2>6 DEF BelowEnd, Store!BelowHi, Unbounded
    <3> QED BY <1>4, <2>1, <2>6, <3>1, <3>2 DEF Found, x, k
  <2>7. CASE n \notin PlainTables
    <3>1. Above(l, x) <=> lo.kind = "Unbounded" \/ lo.key <= k
      BY <1>3, <1>5, <2>2, <2>4, <2>5, <2>7 DEF Above
    <3>2. BelowEnd(h, x) <=> hi.kind = "Unbounded" \/ k < hi.key
      BY <1>3, <1>5, <2>2, <2>4, <2>5, <2>7 DEF BelowEnd
    <3> QED BY <1>4, <2>1, <2>7, <3>1, <3>2 DEF Found, x, k
  <2> QED BY <2>6, <2>7
<1> QED BY <1>1, <1>4, <1>6 DEF SomeRaws

----------------------------------------------------------------------------
(* The fjall backend: its steps.                                           *)

\* The keyspaces staged and committed are in form, and an iterator's entries
\* stand for ascending rows.
FjallInv ==
  /\ TablesGood(base)
  /\ TablesGood(work)
  /\ iter \in [open : BOOLEAN, table : Nat, entries : Seq(Strings \X Seq(Nat))]
  /\ EntryRows(iter.table, iter.entries) \in Seq(RowSet)
  /\ RowsAscend(EntryRows(iter.table, iter.entries))
  /\ ~iter.open => iter = Fjall!NoIter

FjallStep == backend = "fjall" /\ UNCHANGED backend /\ TxInv /\ FjallInv

\* The rows and the iterator of a fjall store, seen from outside.
LEMMA FjallViews ==
  ASSUME FjallStep
  PROVE  /\ RowsOf(base) = Fjall!RowsOf(base) /\ RowsOf(work) = Fjall!RowsOf(work)
         /\ RowsOf(base)' = Fjall!RowsOf(base') /\ RowsOf(work)' = Fjall!RowsOf(work')
         /\ iter.entries \in Seq(Strings \X Seq(Nat)) =>
              Pending = Range(EntryRows(iter.table, iter.entries))
         /\ iter'.entries \in Seq(Strings \X Seq(Nat)) =>
              Pending' = Range(EntryRows(iter'.table, iter'.entries))
<1>1. \A n, entries : Range(EntryRows(n, entries)) =
                        {Fjall!Decoded(n, e[1], e[2]) : e \in Range(entries)}
  BY DEF Range, EntryRows
<1>2. Pending = {Fjall!Decoded(iter.table, e[1], e[2]) : e \in Range(iter.entries)}
  BY DEF FjallStep, Pending
<1>3. Pending' = {Fjall!Decoded(iter'.table, e[1], e[2]) : e \in Range(iter'.entries)}
  BY DEF FjallStep, Pending
<1>4. /\ RowsOf(base) = Fjall!RowsOf(base) /\ RowsOf(work) = Fjall!RowsOf(work)
      /\ RowsOf(base)' = Fjall!RowsOf(base') /\ RowsOf(work)' = Fjall!RowsOf(work')
  BY DEF FjallStep, RowsOf
<1> QED BY <1>1, <1>2, <1>3, <1>4

\* Fresh keyspaces are in form, and so is a store without an iterator.
LEMMA FjallStarts ==
  /\ TablesGood(Fjall!NoTables)
  /\ Fjall!NoIter \in [open : BOOLEAN, table : Nat, entries : Seq(Strings \X Seq(Nat))]
  /\ Fjall!NoIter.open = FALSE
  /\ EntryRows(Fjall!NoIter.table, Fjall!NoIter.entries) \in Seq(RowSet)
  /\ RowsAscend(EntryRows(Fjall!NoIter.table, Fjall!NoIter.entries))
<1>1. TablesGood(Fjall!NoTables)
  <2>1. DOMAIN <<>> = {}
    OBVIOUS
  <2>2. \A n : EntriesOK(n, <<>>)
    BY <2>1, FS_EmptySet DEF EntriesOK
  <2> QED BY <2>2, FjallHelpers DEF TablesGood, Fjall!NoTables
<1>2. /\ Fjall!NoIter \in [open : BOOLEAN, table : Nat, entries : Seq(Strings \X Seq(Nat))]
      /\ Fjall!NoIter.open = FALSE /\ Fjall!NoIter.table = 0 /\ Fjall!NoIter.entries = <<>>
  BY DEF Fjall!NoIter
<1>3. EntryRows(0, <<>>) = <<>>
  BY DEF EntryRows
<1> QED BY <1>1, <1>2, <1>3 DEF RowsAscend

\* open of the fjall backend.
LEMMA FjallOpens == FjallStep /\ Fjall!open => Keeps(FjallInv, Store!Open(0))
<1> SUFFICES ASSUME FjallStep, Fjall!open PROVE Keeps(FjallInv, Store!Open(0))
  OBVIOUS
<1>1. /\ tx = "closed" /\ tx' = "idle" /\ ret' = Ret("ok")
      /\ base' = base /\ work' = work /\ iter' = iter
  BY FjallHelpers DEF Fjall!open
<1>2. /\ RowsOf(base)' = RowsOf(base) /\ iter'.open = FALSE
  BY <1>1, FjallViews DEF FjallStep, TxInv, Reading
<1>3. TxInv'
  BY <1>1, <1>2, TxEnds DEF FjallStep
<1>4. FjallInv'
  BY <1>1 DEF FjallStep, FjallInv, Fjall!NoIter
<1>5. FinitelyManyRows => Store!Open(0)
  BY <1>1, <1>2, OpenMaps DEF FjallStep
<1> QED BY <1>3, <1>4, <1>5 DEF Keeps

\* Closing or losing a fjall store: what was committed stays.
LEMMA FjallGoes ==
  ASSUME FjallStep, NEW r, Fjall!Gone(r), tx # "closed"
  PROVE  /\ r = "ok" /\ tx = "idle" => Keeps(FjallInv, Store!Close)
         /\ r = "crashed" => Keeps(FjallInv, Store!Crash)
<1>1. /\ tx' = "closed" /\ base' = base /\ work' = Fjall!NoTables /\ iter' = Fjall!NoIter
      /\ ret' = Ret(r)
  BY FjallHelpers DEF Fjall!Gone
<1>2. /\ RowsOf(base)' = RowsOf(base) /\ iter'.open = FALSE /\ backend # "memory"
  BY <1>1, FjallViews, FjallStarts DEF FjallStep
<1>3. TxInv'
  BY <1>1, <1>2, TxEnds DEF FjallStep
<1>4. FjallInv'
  BY <1>1, FjallStarts DEF FjallInv, Fjall!NoIter, FjallStep
<1>5. r = "ok" /\ tx = "idle" => Store!Close
  BY <1>1, <1>2, CloseMaps DEF FjallStep
<1>6. r = "crashed" => Store!Crash
  BY <1>1, <1>2, CrashMaps DEF FjallStep
<1> QED BY <1>3, <1>4, <1>5, <1>6 DEF Keeps

\* read_transaction and write_transaction of the fjall backend.
LEMMA FjallBegins ==
  ASSUME FjallStep
  PROVE  /\ Fjall!read_transaction => Keeps(FjallInv, Store!BeginRead)
         /\ Fjall!write_transaction => Keeps(FjallInv, Store!BeginWrite)
<1>1. ASSUME tx = "idle", tx' \in {"read", "write"}, work' = base, UNCHANGED <<base, iter>>
      PROVE  TxInv' /\ FjallInv'
  BY <1>1, TxBegins DEF FjallStep, FjallInv, Fjall!NoIter
<1>2. Fjall!read_transaction => Keeps(FjallInv, Store!BeginRead)
  BY <1>1, BeginReadMaps, FjallHelpers DEF Fjall!read_transaction, Keeps, FjallStep
<1>3. Fjall!write_transaction => Keeps(FjallInv, Store!BeginWrite)
  BY <1>1, BeginWriteMaps, FjallHelpers DEF Fjall!write_transaction, Keeps, FjallStep
<1> QED BY <1>2, <1>3

\* commit of the fjall backend, and a transaction dropped.
LEMMA FjallEnds ==
  ASSUME FjallStep
  PROVE  /\ Fjall!commit => Keeps(FjallInv, Store!Commit)
         /\ \A r : Fjall!Drop(r) => Keeps(FjallInv, Store!Rollback(Store!Ret(r)))
<1>1. ASSUME NEW r, Fjall!EndTx(r)
      PROVE  /\ tx' = "idle" /\ work' = Fjall!NoTables /\ iter' = Fjall!NoIter /\ ret' = Ret(r)
             /\ iter'.open = FALSE
  BY <1>1, FjallHelpers, FjallStarts DEF Fjall!EndTx
<1>2. ASSUME tx' = "idle", iter'.open = FALSE PROVE TxInv'
  BY <1>2, TxEnds DEF FjallStep
<1>3. ASSUME TablesGood(base'), work' = Fjall!NoTables, iter' = Fjall!NoIter PROVE FjallInv'
  BY <1>3, FjallStarts DEF FjallInv, Fjall!NoIter
<1>4. Fjall!commit => Keeps(FjallInv, Store!Commit)
  BY <1>1, <1>2, <1>3, CommitMaps, FjallHelpers DEF Fjall!commit, Keeps, FjallStep, FjallInv
<1>5. ASSUME NEW r, Fjall!Drop(r) PROVE Keeps(FjallInv, Store!Rollback(Store!Ret(r)))
  BY <1>1, <1>2, <1>3, <1>5, RollbackMaps, FjallHelpers
     DEF Fjall!Drop, Keeps, FjallStep, FjallInv
<1> QED BY <1>4, <1>5

\* The entries with a key, looked up or scanned.
LEMMA FjallFinds ==
  ASSUME FjallStep, NEW n \in Names, NEW k \in Keys, NEW raws, SomeRaws(n, raws),
         Range(raws) = {raw \in DOMAIN work[n] : raw[1] = k},
         NEW entries, entries = [i \in DOMAIN raws |-> <<raws[i], work[n][raws[i]]>>]
  PROVE  /\ EntryRows(n, entries) \in Seq(RowSet) /\ RowsAscend(EntryRows(n, entries))
         /\ Range(EntryRows(n, entries)) = Store!RowsAt(RowsOf(work), n, k)
         /\ raws = <<>> <=> entries = <<>>
<1>1. TablesGood(work) /\ RowsOf(work) = Fjall!RowsOf(work)
  BY FjallViews DEF FjallStep, FjallInv
<1>2. /\ EntryRows(n, entries) \in Seq(RowSet) /\ RowsAscend(EntryRows(n, entries))
      /\ Range(EntryRows(n, entries)) =
           {r \in Fjall!RowsOf(work) : r.name = n /\ Raw(r) \in Range(raws)}
      /\ entries = <<>> <=> raws = <<>>
  BY <1>1, EntriesAscend
<1>3. ASSUME NEW r \in Fjall!RowsOf(work), r.name = n PROVE Raw(r) \in Range(raws) <=> r.key = k
  <2>1. r \in RowSet /\ Holds(work[n], r)
    BY <1>1, <1>3, FjallHas
  <2>2. Raw(r) \in DOMAIN work[n] /\ Raw(r)[1] = r.key
    BY <2>1, RawIs DEF Holds
  <2> QED BY <2>2
<1> QED BY <1>1, <1>2, <1>3 DEF Store!RowsAt

\* No entry, and one entry, are in order.
LEMMA FewRaws ==
  ASSUME NEW n
  PROVE  /\ SomeRaws(n, <<>>) /\ Range(<<>>) = {}
         /\ \A raw \in DOMAIN work[n] : SomeRaws(n, <<raw>>) /\ Range(<<raw>>) = {raw}
<1>1. SomeRaws(n, <<>>)
  BY DEF SomeRaws
<1>2. ASSUME NEW raw \in DOMAIN work[n] PROVE SomeRaws(n, <<raw>>)
  <2> DEFINE D == DOMAIN work[n]
  <2> HIDE DEF D
  <2>1. raw \in D
    BY DEF D
  <2>2. <<raw>> \in Seq(D)
    BY <2>1
  <2>3. \A i, j \in DOMAIN <<raw>> : ~(i < j)
    OBVIOUS
  <2> QED BY <2>2, <2>3 DEF SomeRaws, D
<1>3. Range(<<>>) = {} /\ \A raw : Range(<<raw>>) = {raw}
  BY DEF Range
<1> QED BY <1>1, <1>2, <1>3

\* get of the fjall backend answers with the first entry of the key.
LEMMA FjallGets ==
  ASSUME FjallStep, NEW n \in Names, NEW k \in Keys, Fjall!get(n, k)
  PROVE  Keeps(FjallInv, Store!Get(n, k))
<1> DEFINE raws == IF n \in MultiTables THEN Fjall!prefix(n, k)
                   ELSE IF <<k>> \in DOMAIN work[n] THEN <<<<k>>>> ELSE <<>>
           entries == [i \in DOMAIN raws |-> <<raws[i], work[n][raws[i]]>>]
           q == EntryRows(n, entries)
           rows == Store!RowsAt(RowsOf(work), n, k)
<1>1. /\ Reading /\ UNCHANGED <<tx, base, work, iter>>
      /\ ret' = IF raws = <<>> THEN Ret("absent")
                ELSE RetRow(Fjall!Decoded(n, raws[1], work[n][raws[1]]))
  BY FjallHelpers DEF Fjall!get, Fjall!Answers
<1>2. TablesGood(work) /\ EntriesOK(n, work[n])
  BY DEF FjallStep, FjallInv, TablesGood
<1>3. SomeRaws(n, raws) /\ Range(raws) = {raw \in DOMAIN work[n] : raw[1] = k}
  <2>1. CASE n \in MultiTables
    BY <1>2, <2>1, PrefixScanIs
  <2>2. CASE n \notin MultiTables
    <3>1. n \in PlainTables
      BY <2>2 DEF Names
    <3>2. {raw \in DOMAIN work[n] : raw[1] = k} = {<<k>>} \cap DOMAIN work[n]
      BY <1>2, <3>1 DEF EntriesOK
    <3>3. CASE <<k>> \in DOMAIN work[n]
      <4>1. raws = <<<<k>>>>
        BY <2>2, <3>3
      <4>2. SomeRaws(n, raws) /\ Range(raws) = {<<k>>}
        <5> HIDE DEF raws
        <5> QED BY <3>3, <4>1, FewRaws
      <4> QED BY <3>2, <3>3, <4>2
    <3>4. CASE <<k>> \notin DOMAIN work[n]
      <4>1. raws = <<>>
        BY <2>2, <3>4
      <4>2. SomeRaws(n, raws) /\ Range(raws) = {}
        <5> HIDE DEF raws
        <5> QED BY <4>1, FewRaws
      <4> QED BY <3>2, <3>4, <4>2
    <3> QED BY <3>3, <3>4
  <2> QED BY <2>1, <2>2
<1> HIDE DEF raws, entries
<1>4. /\ q \in Seq(RowSet) /\ RowsAscend(q) /\ Range(q) = rows
      /\ raws = <<>> <=> entries = <<>>
  BY <1>3, FjallFinds DEF entries
<1>5. ret' = GetsFirst(rows)
  <2>1. CASE raws = <<>>
    <3>1. q = <<>>
      BY <1>4, <2>1 DEF EntryRows
    <3>2. rows = {}
      BY <1>4, <3>1 DEF Range
    <3> QED BY <1>1, <2>1, <3>2 DEF GetsFirst
  <2>2. CASE raws # <<>>
    <3>1. 1 \in DOMAIN raws /\ DOMAIN entries = DOMAIN raws /\ DOMAIN q = DOMAIN raws
      BY <1>3, <2>2 DEF SomeRaws, entries, EntryRows
    <3>2. q[1] = Fjall!Decoded(n, raws[1], work[n][raws[1]])
      BY <3>1 DEF EntryRows, entries
    <3>3. q # <<>> /\ rows # {}
      <4>1. q[1] \in Range(q)
        BY <3>1 DEF Range
      <4> QED BY <1>4, <3>1, <4>1
    <3> HIDE DEF q
    <3>4. Store!First(Range(q)) = q[1]
      BY <1>4, <3>3, HeadIsFirst
    <3> QED BY <1>1, <1>4, <2>2, <3>2, <3>3, <3>4 DEF GetsFirst
  <2> QED BY <2>1, <2>2
<1>6. RowsOf(work)' = RowsOf(work) /\ Pending' = Pending
  BY <1>1, FjallViews DEF FjallStep, FjallInv
<1>7. TxInv' /\ FjallInv'
  BY <1>1, <1>6, TxStays DEF FjallStep, FjallInv, TxInv, Fjall!NoIter
<1>8. Store!Get(n, k)
  BY <1>1, <1>5, <1>6, GetMaps DEF FjallStep
<1> QED BY <1>7, <1>8 DEF Keeps

\* Opening an iterator on entries that stand for the rows asked for.
LEMMA FjallScans ==
  ASSUME FjallStep, NEW n \in Names, NEW lo, NEW hi, NEW raws, Fjall!Iterate(n, raws),
         SomeRaws(n, raws),
         {r \in RowsOf(work) : r.name = n /\ Raw(r) \in Range(raws)}
           = Store!RowsIn(RowsOf(work), n, lo, hi)
  PROVE  Keeps(FjallInv, Store!Scan(n, lo, hi))
<1> DEFINE entries == [i \in DOMAIN raws |-> <<raws[i], work[n][raws[i]]>>]
           q == EntryRows(n, entries)
<1>1. /\ Reading /\ ~iter.open /\ UNCHANGED <<tx, base, work>>
      /\ iter' = [open |-> TRUE, table |-> n, entries |-> entries] /\ ret' = Ret("ok")
  BY FjallHelpers DEF Fjall!Iterate
<1>2. TablesGood(work) /\ RowsOf(work) = Fjall!RowsOf(work) /\ n \in Nat
  BY FjallViews, ValsNat DEF FjallStep, FjallInv
<1>3. /\ entries \in Seq(Strings \X Seq(Nat))
      /\ q \in Seq(RowSet) /\ RowsAscend(q)
      /\ Range(q) = {r \in Fjall!RowsOf(work) : r.name = n /\ Raw(r) \in Range(raws)}
  <2>1. TablesGood(work)
    BY <1>2
  <2>2. entries = [i \in DOMAIN raws |-> <<raws[i], work[n][raws[i]]>>]
    OBVIOUS
  <2> HIDE DEF entries
  <2> QED BY <2>1, <2>2, EntriesAscend, SMTT(30)
<1> HIDE DEF entries
<1>4. /\ iter'.open = TRUE /\ iter'.table = n /\ iter'.entries = entries
      /\ iter' \in [open : BOOLEAN, table : Nat, entries : Seq(Strings \X Seq(Nat))]
  BY <1>1, <1>2, <1>3
<1>5. RowsOf(work)' = RowsOf(work) /\ Pending' = Range(q)
  BY <1>1, <1>3, <1>4, FjallViews
<1>6. TxInv' /\ FjallInv'
  BY <1>1, <1>3, <1>4, <1>5, TxStays DEF FjallStep, FjallInv
<1>7. Store!Scan(n, lo, hi)
  BY <1>1, <1>2, <1>3, <1>4, <1>5, ScanMaps DEF FjallStep
<1> QED BY <1>6, <1>7 DEF Keeps

\* In a multimap only scans whose bounds mean the same for entries as for keys.
LEMMA FjallRanges ==
  ASSUME FjallStep, NEW n \in Names, NEW lo \in Bounds, NEW hi \in Bounds,
         n \in PlainTables \/ Fjall!HalfOpen(lo, hi), Fjall!range(n, lo, hi)
  PROVE  Keeps(FjallInv, Store!Scan(n, lo, hi))
<1> DEFINE raws == Fjall!Between(n, lo, hi)
<1>1. Fjall!Iterate(n, raws)
  BY DEF Fjall!range
<1>2. TablesGood(work) /\ RowsOf(work) = Fjall!RowsOf(work)
  BY FjallViews DEF FjallStep, FjallInv
<1>3. /\ SomeRaws(n, raws)
      /\ \A r \in Fjall!RowsOf(work) : r.name = n =>
           (Raw(r) \in Range(raws) <=> Found(n, lo, hi, r.key))
  BY <1>2, BetweenIs
<1> HIDE DEF raws
<1>4. ASSUME NEW k \in Nat
      PROVE  Found(n, lo, hi, k) <=> Store!AboveLo(lo, k) /\ Store!BelowHi(hi, k)
  <2>1. /\ lo.kind \in {"Unbounded", "Included", "Excluded"} /\ lo.key \in Nat
        /\ hi.kind \in {"Unbounded", "Included", "Excluded"} /\ hi.key \in Nat
    BY ValsNat DEF Bounds, Unbounded, Included, Excluded
  <2> QED BY <2>1 DEF Found, Store!AboveLo, Store!BelowHi, Fjall!HalfOpen
<1>5. \A r \in Fjall!RowsOf(work) : r.key \in Nat
  BY <1>2, FjallHas, ValsNat DEF RowSet
<1>6. {r \in RowsOf(work) : r.name = n /\ Raw(r) \in Range(raws)}
        = Store!RowsIn(RowsOf(work), n, lo, hi)
  BY <1>2, <1>3, <1>4, <1>5 DEF Store!RowsIn
<1> QED BY <1>1, <1>3, <1>6, FjallScans

\* get_all of the fjall backend finds the entries of the key.
LEMMA FjallGetsAll ==
  ASSUME FjallStep, NEW n \in Names, NEW k \in Keys, Fjall!get_all(n, k)
  PROVE  Keeps(FjallInv, Store!Scan(n, Store!Exactly(k), Store!Exactly(k)))
<1> DEFINE raws == Fjall!get_all_entries(n, k)
<1>1. Fjall!Iterate(n, raws)
  BY DEF Fjall!get_all
<1>2. TablesGood(work) /\ RowsOf(work) = Fjall!RowsOf(work)
  BY FjallViews DEF FjallStep, FjallInv
<1>3. SomeRaws(n, raws) /\ \A r \in Fjall!RowsOf(work) : r.name = n =>
                             (Raw(r) \in Range(raws) <=> r.key = k)
  <2>1. CASE n \in PlainTables
    <3>1. raws = Fjall!Between(n, Included(k), Included(k)) /\ Included(k) \in Bounds
      BY <2>1, FjallOrders DEF Fjall!get_all_entries, Bounds
    <3>2. /\ SomeRaws(n, raws)
          /\ \A r \in Fjall!RowsOf(work) : r.name = n =>
               (Raw(r) \in Range(raws) <=> Found(n, Included(k), Included(k), r.key))
      BY <1>2, <3>1, BetweenIs
    <3>3. \A l \in Nat : Found(n, Included(k), Included(k), l) <=> l = k
      BY <2>1, ValsNat DEF Found, Included, Store!AboveLo, Store!BelowHi
    <3>4. \A r \in Fjall!RowsOf(work) : r.key \in Nat
      BY <1>2, FjallHas, ValsNat DEF RowSet
    <3> QED BY <3>2, <3>3, <3>4
  <2>2. CASE n \notin PlainTables
    <3>1. raws = Fjall!prefix(n, k)
      BY <2>2 DEF Fjall!get_all_entries
    <3>2. SomeRaws(n, raws) /\ Range(raws) = {raw \in DOMAIN work[n] : raw[1] = k}
      BY <1>2, <3>1, PrefixScanIs
    <3> HIDE DEF raws
    <3>3. ASSUME NEW r \in Fjall!RowsOf(work), r.name = n PROVE Raw(r) \in Range(raws) <=> r.key = k
      <4>1. r \in RowSet /\ Holds(work[n], r)
        BY <1>2, <3>3, FjallHas
      <4>2. Raw(r) \in DOMAIN work[n] /\ Raw(r)[1] = r.key
        BY <4>1, RawIs DEF Holds
      <4> QED BY <3>2, <4>2
    <3> QED BY <3>2, <3>3
  <2> QED BY <2>1, <2>2
<1> HIDE DEF raws
<1>4. {r \in RowsOf(work) : r.name = n /\ Raw(r) \in Range(raws)}
        = Store!RowsIn(RowsOf(work), n, Store!Exactly(k), Store!Exactly(k))
  BY <1>2, <1>3, RowsAtExactly DEF Store!RowsAt
<1> QED BY <1>1, <1>3, <1>4, FjallScans

\* The rows of entries are that of the first and those of the others.
LEMMA EntryRowsTail ==
  ASSUME NEW n, NEW T, NEW entries \in Seq(T), entries # <<>>,
         EntryRows(n, entries) \in Seq(RowSet)
  PROVE  /\ EntryRows(n, entries) # <<>>
         /\ EntryRows(n, entries)[1] = Fjall!Decoded(n, Head(entries)[1], Head(entries)[2])
         /\ EntryRows(n, Tail(entries)) = Tail(EntryRows(n, entries))
<1> DEFINE q == EntryRows(n, entries)
           dec(e) == Fjall!Decoded(n, e[1], e[2])
<1>1. q = [i \in DOMAIN entries |-> dec(entries[i])]
  BY DEF EntryRows
<1>2. EntryRows(n, Tail(entries)) = [i \in DOMAIN Tail(entries) |-> dec(Tail(entries)[i])]
  BY DEF EntryRows
<1> HIDE DEF q, dec
<1>3. /\ Len(entries) \in Nat /\ Len(entries) >= 1 /\ DOMAIN entries = 1..Len(entries)
      /\ Tail(entries) \in Seq(T) /\ DOMAIN Tail(entries) = 1..(Len(entries) - 1)
      /\ \A i \in 1..(Len(entries) - 1) : Tail(entries)[i] = entries[i + 1]
      /\ Head(entries) = entries[1]
  BY HeadTailProperties
<1>4. q \in Seq(RowSet) /\ DOMAIN q = 1..Len(entries) /\ Len(q) = Len(entries) /\ q # <<>>
  BY <1>1, <1>3 DEF q
<1>5. /\ DOMAIN Tail(q) = 1..(Len(entries) - 1)
      /\ \A i \in 1..(Len(entries) - 1) : Tail(q)[i] = q[i + 1]
      /\ Tail(q) \in Seq(RowSet)
  BY <1>3, <1>4, HeadTailProperties
<1>6. \A i \in 1..(Len(entries) - 1) : Tail(q)[i] = dec(Tail(entries)[i])
  BY <1>1, <1>3, <1>5
<1>7. Tail(q) = [i \in 1..(Len(entries) - 1) |-> Tail(q)[i]]
  <2>1. \A s \in Seq(RowSet) : s = [i \in DOMAIN s |-> s[i]]
    OBVIOUS
  <2> QED BY <1>5, <2>1
<1>8. EntryRows(n, Tail(entries)) = Tail(q)
  BY <1>2, <1>3, <1>6, <1>7
<1>9. q[1] = dec(Head(entries))
  BY <1>1, <1>3
<1> QED BY <1>4, <1>8, <1>9 DEF q, dec

\* next of the fjall backend yields the row of the next entry.
LEMMA FjallNexts == FjallStep /\ Fjall!next => Keeps(FjallInv, Store!ScanNext)
<1> SUFFICES ASSUME FjallStep, Fjall!next PROVE Keeps(FjallInv, Store!ScanNext)
  OBVIOUS
<1> DEFINE P == Strings \X Seq(Nat)
           n == iter.table
           entries == iter.entries
           q == EntryRows(n, entries)
<1>1. /\ Scanning /\ Reading /\ iter.open /\ UNCHANGED <<tx, base, work>>
      /\ entries = <<>> => ret' = Ret("end") /\ iter' = iter
      /\ entries # <<>> =>
           /\ ret' = RetRow(Fjall!Decoded(n, Head(entries)[1], Head(entries)[2]))
           /\ iter' = [iter EXCEPT !.entries = Tail(entries)]
  BY FjallHelpers DEF Fjall!next, Scanning
<1>2. /\ iter \in [open : BOOLEAN, table : Nat, entries : Seq(P)]
      /\ q \in Seq(RowSet) /\ RowsAscend(q)
  BY DEF FjallStep, FjallInv
<1> HIDE DEF P
<1>3. entries \in Seq(P)
  BY <1>2
<1>4. RowsOf(work)' = RowsOf(work) /\ Pending = Range(q)
  BY <1>1, <1>3, FjallViews DEF P
<1>5. CASE entries = <<>>
  <2>1. iter' = iter /\ ret' = Ret("end")
    BY <1>1, <1>5
  <2>2. Pending = {} /\ Pending' = {}
    <3>1. EntryRows(n, <<>>) = <<>> /\ Range(<<>>) = {}
      BY DEF EntryRows, Range
    <3>2. Pending' = Pending
      BY <1>3, <1>4, <2>1, FjallViews DEF P
    <3> QED BY <1>4, <1>5, <3>1, <3>2
  <2>3. TxInv' /\ FjallInv'
    BY <1>1, <1>4, <2>1, TxStays DEF FjallStep, FjallInv, TxInv, Fjall!NoIter
  <2>4. Store!ScanNext
    BY <1>1, <2>1, <2>2, ScanNextMaps DEF FjallStep
  <2> QED BY <2>3, <2>4 DEF Keeps
<1>6. CASE entries # <<>>
  <2>1. /\ q # <<>> /\ q[1] = Fjall!Decoded(n, Head(entries)[1], Head(entries)[2])
        /\ EntryRows(n, Tail(entries)) = Tail(q)
    BY <1>2, <1>3, <1>6, EntryRowsTail
  <2>2. Tail(entries) \in Seq(P)
    BY <1>3, <1>6, HeadTailProperties
  <2>3. /\ iter' \in [open : BOOLEAN, table : Nat, entries : Seq(P)]
        /\ iter'.open = TRUE /\ iter'.table = n /\ iter'.entries = Tail(entries)
    BY <1>1, <1>2, <1>6, <2>2
  <2>4. Pending' = Range(Tail(q))
    BY <2>1, <2>2, <2>3, FjallViews DEF P
  <2>5. q[1] \in Range(q)
    <3>1. 1 \in DOMAIN q
      BY <1>2, <2>1
    <3> HIDE DEF q
    <3> QED BY <3>1 DEF Range
  <2> HIDE DEF q
  <2>6. /\ Store!First(Range(q)) = q[1]
        /\ Range(Tail(q)) = Range(q) \ {q[1]}
        /\ Tail(q) \in Seq(RowSet) /\ RowsAscend(Tail(q))
    BY <1>2, <2>1, HeadIsFirst
  <2>7. TxInv' /\ FjallInv'
    BY <1>1, <1>4, <2>1, <2>3, <2>6, TxStays DEF FjallStep, FjallInv, TxInv, P
  <2>8. /\ Pending # {} /\ ret' = RetRow(Store!First(Pending))
        /\ Pending' = Pending \ {Store!First(Pending)}
    BY <1>1, <1>4, <1>6, <2>1, <2>4, <2>5, <2>6
  <2>9. Store!ScanNext
    BY <1>1, <2>3, <2>8, ScanNextMaps DEF FjallStep
  <2> QED BY <2>7, <2>9 DEF Keeps
<1> QED BY <1>5, <1>6

\* The fjall backend's iterator dropped.
LEMMA FjallEndsScan == FjallStep /\ Fjall!EndScan => Keeps(FjallInv, Store!EndScan)
<1> SUFFICES ASSUME FjallStep, Fjall!EndScan PROVE Keeps(FjallInv, Store!EndScan)
  OBVIOUS
<1>1. /\ Scanning /\ Reading /\ UNCHANGED <<tx, base, work>> /\ iter' = Fjall!NoIter
      /\ ret' = Ret("ok") /\ iter'.open = FALSE
  BY FjallHelpers, FjallStarts DEF Fjall!EndScan, Scanning
<1>2. RowsOf(work)' = RowsOf(work)
  BY <1>1, FjallViews
<1>3. TxInv' /\ FjallInv'
  BY <1>1, <1>2, FjallStarts, TxStays DEF FjallStep, FjallInv, Fjall!NoIter
<1> QED BY <1>1, <1>3, EndScanMaps DEF FjallStep, Keeps

\* A write that stages entries in form.
LEMMA FjallStages ==
  ASSUME FjallStep, NEW n \in Names, NEW t, NEW r, Fjall!Stage(n, t, r), EntriesOK(n, t)
  PROVE  /\ TxInv' /\ FjallInv' /\ Writes(RowsOf(work)', r)
         /\ RowsOf(work) \in SUBSET RowSet /\ RowsOf(work)' \in SUBSET RowSet
         /\ \A row \in RowSet :
              /\ row \in RowsOf(work) <=> Holds(work[row.name], row)
              /\ row \in RowsOf(work)' <=> IF row.name = n THEN Holds(t, row) ELSE row \in RowsOf(work)
<1>1. /\ Writing /\ Reading /\ UNCHANGED <<tx, base, iter>> /\ ret' = r /\ tx = "write"
      /\ work' = [work EXCEPT ![n] = t]
  BY FjallHelpers DEF Fjall!Stage, Writing, Reading
<1>2. /\ TablesGood(work) /\ RowsOf(work) = Fjall!RowsOf(work) /\ RowsOf(work)' = Fjall!RowsOf(work')
  BY FjallViews DEF FjallStep, FjallInv
<1>3. TablesGood(work)
  BY <1>2
<1>4. /\ TablesGood(work')
      /\ \A row \in RowSet : row \in Fjall!RowsOf(work') <=>
           IF row.name = n THEN Holds(t, row) ELSE row \in Fjall!RowsOf(work)
  BY <1>1, <1>3, PutTable
<1>5. TxInv'
  BY <1>1, TxStays DEF FjallStep, TxInv
<1>6. FjallInv'
  BY <1>1, <1>4 DEF FjallStep, FjallInv, Fjall!NoIter
<1>7. /\ Fjall!RowsOf(work) \in SUBSET RowSet
      /\ \A row \in RowSet : row \in Fjall!RowsOf(work) <=> Holds(work[row.name], row)
  BY <1>3, FjallHas
<1>8. Fjall!RowsOf(work') \in SUBSET RowSet
  BY <1>4, FjallHas
<1>9. Writes(RowsOf(work)', r)
  BY <1>1 DEF Writes, FjallStep
<1> QED BY <1>2, <1>4, <1>5, <1>6, <1>7, <1>8, <1>9

\* insert of the fjall backend puts one entry.
LEMMA FjallInserts ==
  ASSUME FjallStep, NEW n \in Names, NEW k \in Keys, NEW v \in Vals, Fjall!insert(n, k, v)
  PROVE  Keeps(FjallInv, IF n \in PlainTables THEN Store!InsertPlain(n, k, v)
                                              ELSE Store!InsertMulti(n, k, v))
<1> DEFINE t == IF n \in PlainTables THEN Put(work[n], <<k>>, <<v>>) ELSE Put(work[n], <<k, v>>, <<>>)
<1>1. Fjall!Stage(n, t, Ret("ok"))
  BY FjallHelpers, FjallOrders DEF Fjall!insert
<1>2. EntriesOK(n, work[n])
  BY DEF FjallStep, FjallInv, TablesGood
<1>3. /\ EntriesOK(n, t)
      /\ \A r \in RowSet : r.name = n =>
           (Holds(t, r) <=> IF n \in PlainTables
                              THEN IF r.key = k THEN r.val = v ELSE Holds(work[n], r)
                              ELSE (r.key = k /\ r.val = v) \/ Holds(work[n], r))
  <2>1. CASE n \in PlainTables
    BY <1>2, <2>1, PutPlainEntry
  <2>2. CASE n \notin PlainTables
    BY <1>2, <2>2, PutMultiEntry
  <2> QED BY <2>1, <2>2
<1> HIDE DEF t
<1>4. /\ TxInv' /\ FjallInv' /\ Writes(RowsOf(work)', Ret("ok"))
      /\ RowsOf(work) \in SUBSET RowSet /\ RowsOf(work)' \in SUBSET RowSet
      /\ \A row \in RowSet :
           /\ row \in RowsOf(work) <=> Holds(work[row.name], row)
           /\ row \in RowsOf(work)' <=> IF row.name = n THEN Holds(t, row) ELSE row \in RowsOf(work)
  BY <1>1, <1>3, FjallStages
<1>5. /\ Row(n, k, v) \in RowSet
      /\ \A r \in RowSet : r = Row(n, k, v) <=> r.name = n /\ r.key = k /\ r.val = v
  BY DEF Row, RowSet
<1>6. CASE n \in PlainTables
  <2>1. RowsOf(work)' = (RowsOf(work) \ Store!RowsAt(RowsOf(work), n, k)) \cup {Row(n, k, v)}
    <3>1. ASSUME NEW r \in RowSet
          PROVE  r \in RowsOf(work)' <=>
                   r \in (RowsOf(work) \ Store!RowsAt(RowsOf(work), n, k)) \cup {Row(n, k, v)}
      BY <1>3, <1>4, <1>5, <1>6 DEF Store!RowsAt
    <3> QED BY <1>4, <1>5, <3>1
  <2>2. Writes((RowsOf(work) \ Store!RowsAt(RowsOf(work), n, k)) \cup {Row(n, k, v)}, Ret("ok"))
    BY <1>4, <2>1
  <2>3. FinitelyManyRows => Store!InsertPlain(n, k, v)
    BY <1>4, <2>2, InsertPlainMaps
  <2> QED BY <1>4, <1>6, <2>3 DEF Keeps
<1>7. CASE n \notin PlainTables
  <2>1. RowsOf(work)' = RowsOf(work) \cup {Row(n, k, v)}
    <3>1. ASSUME NEW r \in RowSet
          PROVE  r \in RowsOf(work)' <=> r \in RowsOf(work) \cup {Row(n, k, v)}
      BY <1>3, <1>4, <1>5, <1>7
    <3> QED BY <1>4, <1>5, <3>1
  <2>2. Writes(RowsOf(work) \cup {Row(n, k, v)}, Ret("ok"))
    BY <1>4, <2>1
  <2>3. FinitelyManyRows => Store!InsertMulti(n, k, v)
    BY <1>4, <2>2, InsertMultiMaps
  <2> QED BY <1>4, <1>7, <2>3 DEF Keeps
<1> QED BY <1>6, <1>7

\* remove of the fjall backend takes the entries of the key away.
LEMMA FjallRemoves ==
  ASSUME FjallStep, NEW n \in Names, NEW k \in Keys, Fjall!remove(n, k)
  PROVE  Keeps(FjallInv, Store!Remove(n, k))
<1> DEFINE D == IF n \in PlainTables THEN {<<k>>} ELSE Range(Fjall!prefix(n, k))
           t == Restrict(work[n], DOMAIN work[n] \ D)
           existed == D \cap DOMAIN work[n] # {}
           at == Store!RowsAt(RowsOf(work), n, k)
<1>1. Fjall!Stage(n, t, Removed(existed))
  BY FjallHelpers, FjallOrders DEF Fjall!remove, Fjall!Without
<1>2. TablesGood(work) /\ EntriesOK(n, work[n])
  BY DEF FjallStep, FjallInv, TablesGood
<1>3. D \cap DOMAIN work[n] = {raw \in DOMAIN work[n] : raw[1] = k}
  <2>1. CASE n \in PlainTables
    <3>1. {raw \in DOMAIN work[n] : raw[1] = k} = {<<k>>} \cap DOMAIN work[n]
      BY <1>2, <2>1 DEF EntriesOK
    <3> QED BY <2>1, <3>1
  <2>2. CASE n \notin PlainTables
    <3>1. Range(Fjall!prefix(n, k)) = {raw \in DOMAIN work[n] : raw[1] = k}
      BY <1>2, PrefixScanIs
    <3> QED BY <2>2, <3>1
  <2> QED BY <2>1, <2>2
<1> HIDE DEF D
<1>4. /\ EntriesOK(n, t)
      /\ \A r \in RowSet : Holds(t, r) <=> Holds(work[n], r) /\ Raw(r) \notin D
  BY <1>2, DropRaws
<1> HIDE DEF t
<1>5. /\ TxInv' /\ FjallInv' /\ Writes(RowsOf(work)', Removed(existed)) /\ existed \in BOOLEAN
      /\ RowsOf(work) \in SUBSET RowSet /\ RowsOf(work)' \in SUBSET RowSet
      /\ \A row \in RowSet :
           /\ row \in RowsOf(work) <=> Holds(work[row.name], row)
           /\ row \in RowsOf(work)' <=> IF row.name = n THEN Holds(t, row) ELSE row \in RowsOf(work)
  BY <1>1, <1>4, FjallStages
<1>6. ASSUME NEW r \in RowsOf(work), r.name = n PROVE Raw(r) \in D <=> r.key = k
  <2>1. Raw(r) \in DOMAIN work[n] /\ Raw(r)[1] = r.key
    BY <1>5, <1>6, RawIs DEF Holds
  <2> QED BY <1>3, <2>1
<1>7. RowsOf(work)' = RowsOf(work) \ at
  <2>1. ASSUME NEW r \in RowSet PROVE r \in RowsOf(work)' <=> r \in RowsOf(work) \ at
    BY <1>4, <1>5, <1>6 DEF Store!RowsAt
  <2> QED BY <1>5, <2>1
<1>8. existed <=> at # {}
  <2>1. ASSUME NEW raw \in D \cap DOMAIN work[n] PROVE at # {}
    <3>1. raw[1] = k /\ raw \in DOMAIN work[n] /\ RowsOf(work) = Fjall!RowsOf(work)
      BY <1>3, FjallViews
    <3>2. \E r \in Fjall!RowsOf(work) : r.name = n /\ Raw(r) = raw /\ r.key = raw[1]
      BY <1>2, RawHas
    <3> QED BY <3>1, <3>2 DEF Store!RowsAt
  <2>2. ASSUME NEW r \in at PROVE D \cap DOMAIN work[n] # {}
    <3>1. r \in RowsOf(work) /\ r.name = n /\ r.key = k
      BY DEF Store!RowsAt
    <3>2. Raw(r) \in D /\ Raw(r) \in DOMAIN work[n]
      BY <1>5, <1>6, <3>1 DEF Holds
    <3> QED BY <3>2
  <2> QED BY <2>1, <2>2
<1> HIDE DEF existed
<1>9. Writes(RowsOf(work) \ Store!RowsAt(RowsOf(work), n, k), Removed(existed))
  BY <1>5, <1>7
<1>10. Store!Remove(n, k)
  BY <1>5, <1>8, <1>9, RemoveMaps
<1> QED BY <1>5, <1>10 DEF Keeps

\* remove_value of the fjall backend takes one entry away.
LEMMA FjallRemovesValue ==
  ASSUME FjallStep, NEW n \in Names, NEW k \in Keys, NEW v \in Vals, Fjall!remove_value(n, k, v)
  PROVE  Keeps(FjallInv, IF n \in PlainTables THEN Store!RemoveValuePlain
                                              ELSE Store!RemoveValue(n, k, v))
<1>1. n \in PlainTables \/ (n \in MultiTables /\ n \notin PlainTables)
  BY TablesAssumption DEF Names
<1>2. CASE n \in PlainTables
  <2>1. /\ Writing /\ Reading /\ UNCHANGED <<tx, base, work, iter>> /\ tx = "write"
        /\ ret' = Ret("Unsupported")
    BY <1>2, FjallHelpers, TablesAssumption DEF Fjall!remove_value, Fjall!Answers, Writing, Reading
  <2>2. RowsOf(work)' = RowsOf(work)
    BY <2>1, FjallViews
  <2>3. TxInv'
    BY <2>1, TxStays DEF FjallStep, TxInv
  <2>4. FjallInv'
    BY <2>1 DEF FjallStep, FjallInv, Fjall!NoIter
  <2>5. Writes(RowsOf(work), Ret("Unsupported"))
    BY <2>1, <2>2 DEF Writes, FjallStep
  <2> QED BY <1>2, <2>3, <2>4, <2>5, RemoveValuePlainMaps DEF Keeps
<1>3. CASE n \notin PlainTables
  <2> DEFINE D == {<<k, v>>}
             t == Restrict(work[n], DOMAIN work[n] \ D)
             existed == <<k, v>> \in DOMAIN work[n]
  <2>1. Fjall!Stage(n, t, Removed(existed))
    BY <1>3, FjallHelpers, FjallOrders DEF Fjall!remove_value, Fjall!Without
  <2>2. EntriesOK(n, work[n])
    BY DEF FjallStep, FjallInv, TablesGood
  <2>3. /\ EntriesOK(n, t)
        /\ \A r \in RowSet : Holds(t, r) <=> Holds(work[n], r) /\ Raw(r) \notin D
    <3> HIDE DEF D
    <3> QED BY <2>2, DropRaws
  <2> HIDE DEF t
  <2>4. /\ TxInv' /\ FjallInv' /\ Writes(RowsOf(work)', Removed(existed)) /\ existed \in BOOLEAN
        /\ RowsOf(work) \in SUBSET RowSet /\ RowsOf(work)' \in SUBSET RowSet
        /\ \A row \in RowSet :
             /\ row \in RowsOf(work) <=> Holds(work[row.name], row)
             /\ row \in RowsOf(work)' <=> IF row.name = n THEN Holds(t, row) ELSE row \in RowsOf(work)
    BY <2>1, <2>3, FjallStages
  <2>5. /\ Row(n, k, v) \in RowSet /\ Row(n, k, v).name = n /\ Raw(Row(n, k, v)) = <<k, v>>
        /\ \A r \in RowSet : r = Row(n, k, v) <=> r.name = n /\ r.key = k /\ r.val = v
        /\ \A r \in RowSet : r.name = n => (Raw(r) \in D <=> r = Row(n, k, v))
    BY <1>3 DEF Row, RowSet, Raw
  <2>6. existed <=> Row(n, k, v) \in RowsOf(work)
    BY <1>3, <2>4, <2>5 DEF Holds
  <2> HIDE DEF existed, D
  <2>7. RowsOf(work)' = RowsOf(work) \ {Row(n, k, v)}
    <3>1. ASSUME NEW r \in RowSet PROVE r \in RowsOf(work)' <=> r \in RowsOf(work) \ {Row(n, k, v)}
      BY <2>3, <2>4, <2>5
    <3> QED BY <2>4, <3>1
  <2>8. Writes(RowsOf(work) \ {Row(n, k, v)}, Removed(existed))
    BY <2>4, <2>7
  <2>9. Store!RemoveValue(n, k, v)
    BY <2>4, <2>6, <2>8, RemoveValueMaps
  <2> QED BY <1>3, <2>4, <2>9 DEF Keeps
<1> QED BY <1>2, <1>3

\* Every call of the fjall backend keeps its keyspaces in form and is a call of
\* the abstract store.
LEMMA FjallCalls ==
  ASSUME FjallStep, Fjall!Next
  PROVE  Keeps(FjallInv, Store!Call)
<1>1. CASE Fjall!open
  BY <1>1, FjallOpens, CallsAre DEF Keeps
<1>2. CASE tx = "idle" /\ Fjall!Gone("ok")
  BY <1>2, FjallGoes, CallsAre DEF Keeps
<1>3. CASE tx # "closed" /\ Fjall!Gone("crashed")
  BY <1>3, FjallGoes, CallsAre DEF Keeps
<1>4. CASE Fjall!read_transaction
  BY <1>4, FjallBegins, CallsAre DEF Keeps
<1>5. CASE Fjall!write_transaction
  BY <1>5, FjallBegins, CallsAre DEF Keeps
<1>6. CASE Fjall!commit
  BY <1>6, FjallEnds, CallsAre DEF Keeps
<1>7. ASSUME NEW r \in {"ok", "panic"}, Fjall!Drop(r) PROVE Keeps(FjallInv, Store!Call)
  BY <1>7, FjallEnds, CallsAre DEF Keeps
<1>8. ASSUME NEW n \in Names, NEW scans, Fjall!Lookups(n, scans),
             scans \in SUBSET ScanRanges,
             n \in PlainTables \/ \A scan \in scans : Fjall!HalfOpen(scan[1], scan[2])
      PROVE  Keeps(FjallInv, Store!Call)
  <2>1. ASSUME NEW k \in Keys, Fjall!get(n, k) PROVE Keeps(FjallInv, Store!Call)
    BY <2>1, FjallGets, CallsOnTablesAre DEF Keeps
  <2>2. ASSUME NEW k \in Keys, Fjall!get_all(n, k) PROVE Keeps(FjallInv, Store!Call)
    BY <2>2, FjallGetsAll, CallsOnTablesAre DEF Keeps
  <2>3. ASSUME NEW scan \in scans, Fjall!range(n, scan[1], scan[2])
        PROVE  Keeps(FjallInv, Store!Call)
    <3>1. scan \in ScanRanges /\ scan[1] \in Bounds /\ scan[2] \in Bounds
      BY <1>8, ScanRangesAssumption
    <3>2. Keeps(FjallInv, Store!Scan(n, scan[1], scan[2]))
      BY <1>8, <2>3, <3>1, FjallRanges
    <3> QED BY <3>1, <3>2, CallsOnTablesAre DEF Keeps
  <2> QED BY <1>8, <2>1, <2>2, <2>3 DEF Fjall!Lookups
<1>9. ASSUME NEW n \in Names, Fjall!Updates(n) PROVE Keeps(FjallInv, Store!Call)
  <2>1. ASSUME NEW k \in Keys, Fjall!remove(n, k) PROVE Keeps(FjallInv, Store!Call)
    BY <2>1, FjallRemoves, CallsOnTablesAre DEF Keeps
  <2>2. ASSUME NEW k \in Keys, NEW v \in Vals, Fjall!insert(n, k, v)
        PROVE  Keeps(FjallInv, Store!Call)
    BY <2>2, FjallInserts, CallsOnTablesAre DEF Keeps
  <2>3. ASSUME NEW k \in Keys, NEW v \in Vals, Fjall!remove_value(n, k, v)
        PROVE  Keeps(FjallInv, Store!Call)
    BY <2>3, FjallRemovesValue, CallsOnTablesAre DEF Keeps
  <2> QED BY <1>9, <2>1, <2>2, <2>3 DEF Fjall!Updates
<1>10. CASE Fjall!FjallReadTable \/ Fjall!FjallWriteTable
  <2>1. PICK n \in PlainTables : Fjall!Lookups(n, ScanRanges) \/ Fjall!Updates(n)
    BY <1>10 DEF Fjall!FjallReadTable, Fjall!FjallWriteTable
  <2>2. n \in Names
    BY DEF Names
  <2> QED BY <1>8, <1>9, <2>1, <2>2
<1>11. CASE Fjall!FjallReadMultimapTable \/ Fjall!FjallWriteMultimapTable
  <2>1. PICK n \in MultiTables : Fjall!Lookups(n, Fjall!MultimapScans) \/ Fjall!Updates(n)
    BY <1>11 DEF Fjall!FjallReadMultimapTable, Fjall!FjallWriteMultimapTable
  <2>2. n \in Names
    BY DEF Names
  <2>3. /\ Fjall!MultimapScans \in SUBSET ScanRanges
        /\ \A scan \in Fjall!MultimapScans : Fjall!HalfOpen(scan[1], scan[2])
    BY DEF Fjall!MultimapScans
  <2> QED BY <1>8, <1>9, <2>1, <2>2, <2>3
<1>12. CASE Fjall!next
  BY <1>12, FjallNexts, CallsAre DEF Keeps
<1>13. CASE Fjall!EndScan
  BY <1>13, FjallEndsScan, CallsAre DEF Keeps
<1> QED
  BY <1>1, <1>2, <1>3, <1>4, <1>5, <1>6, <1>7, <1>10, <1>11, <1>12, <1>13, FjallHelpers DEF Fjall!Next

----------------------------------------------------------------------------
(* The redb backend: its tables and their values.                          *)

\* The redb backend's copies of the shared operators.
LEMMA RedbHelpers ==
  /\ Redb!Names = Names
  /\ \A n, k, v : Redb!Row(n, k, v) = Row(n, k, v)
  /\ \A r : Redb!Ret(r) = Ret(r) /\ Redb!RetRow(r) = RetRow(r) /\ Redb!Removed(r) = Removed(r)
  /\ \A s : Redb!Range(s) = Range(s)
  /\ Redb!Reading = Reading /\ Redb!Writing = Writing /\ Redb!Scanning = Scanning
<1>1. Redb!Names = Names
  BY DEF Redb!Names, Names
<1>2. \A n, k, v : Redb!Row(n, k, v) = Row(n, k, v)
  BY DEF Redb!Row, Row
<1>3. \A r : Redb!Ret(r) = Ret(r)
  BY DEF Redb!Ret, Ret, Redb!NoRow, NoRow
<1>4. \A r : Redb!RetRow(r) = RetRow(r)
  BY DEF Redb!RetRow, RetRow
<1>5. \A r : Redb!Removed(r) = Removed(r)
  BY <1>3 DEF Redb!Removed, Removed
<1>6. \A s : Redb!Range(s) = Range(s)
  BY DEF Redb!Range, Range
<1>7. Redb!Reading = Reading /\ Redb!Writing = Writing /\ Redb!Scanning = Scanning
  BY DEF Redb!Reading, Reading, Redb!Writing, Writing, Redb!Scanning, Scanning
<1> QED BY <1>1, <1>2, <1>3, <1>4, <1>5, <1>6, <1>7

\* The redb backend's copies of the operators on orders and maps.
LEMMA RedbOrders ==
  /\ \A S : Redb!Ascending(S) = Ascending(S)
  /\ \A S, lo, hi : Redb!Within(S, lo, hi) = Within(S, lo, hi)
  /\ \A map, key, value : Redb!Put(map, key, value) = Put(map, key, value)
  /\ \A map, S : Redb!Restrict(map, S) = Restrict(map, S)
  /\ \A S : Redb!Cardinality(S) = Cardinality(S)
  /\ \A k : Redb!Included(k) = Included(k)
<1>1. \A x, y : Redb!Before(x, y) <=> Before(x, y)
  BY DEF Redb!Before, Before, Redb!IsStrictPrefix, IsStrictPrefix, Redb!IsPrefix, IsPrefix
<1>2. \A S : Redb!Cardinality(S) = Cardinality(S)
  BY DEF Redb!Cardinality, Cardinality
<1>3. \A S, R : Redb!InOrder(S, R) = InOrder(S, R)
  BY DEF Redb!InOrder, InOrder, Redb!Cardinality, Cardinality
<1>4. \A S : Redb!Sorted(S) = Sorted(S)
  <2>1. \A S : {p \in S \X S : Redb!Before(p[1], p[2])} = {p \in S \X S : Before(p[1], p[2])}
    BY <1>1
  <2> QED BY <1>3, <2>1 DEF Redb!Sorted, Sorted
<1>5. \A S, lo, hi : Redb!Within(S, lo, hi) = Within(S, lo, hi)
  BY <1>4 DEF Redb!Within, Within, Redb!Before, Before, Redb!IsStrictPrefix, IsStrictPrefix,
              Redb!IsPrefix, IsPrefix
<1>6. \A map, key, value : Redb!Put(map, key, value) = Put(map, key, value)
  BY DEF Redb!Put, Put
<1>7. \A map, S : Redb!Restrict(map, S) = Restrict(map, S)
  BY DEF Redb!Restrict, Restrict
<1>8. \A k : Redb!Included(k) = Included(k)
  BY DEF Redb!Included, Included
<1>9. \A S : Redb!Ascending(S) = Ascending(S)
  BY <1>3 DEF Redb!Ascending, Ascending
<1> QED BY <1>2, <1>5, <1>6, <1>7, <1>8, <1>9

\* The values of a key: some of them, finitely many; a plain table's just one.
ValsOK(n, values) ==
  /\ values \in SUBSET Vals /\ values # {} /\ IsFiniteSet(values)
  /\ n \in PlainTables => \E v \in Vals : values = {v}

TableOK(n, t) ==
  /\ IsFiniteSet(DOMAIN t) /\ DOMAIN t \in SUBSET Keys
  /\ \A k \in DOMAIN t : ValsOK(n, t[k])

RedbGood(tables) ==
  /\ DOMAIN tables \in SUBSET Names
  /\ \A n \in DOMAIN tables : TableOK(n, tables[n])

\* Tables in form are what the type invariant asks for.
LEMMA RedbGoodOK ==
  ASSUME NEW tables, RedbGood(tables)
  PROVE  Redb!TablesOK(tables)
<1>1. ASSUME NEW n \in DOMAIN tables, NEW k \in DOMAIN tables[n]
      PROVE  /\ k \in Keys /\ tables[n][k] \in (SUBSET Vals) \ {{}}
             /\ n \in PlainTables => Redb!Cardinality(tables[n][k]) = 1
  <2>1. k \in Keys /\ ValsOK(n, tables[n][k])
    BY <1>1 DEF RedbGood, TableOK
  <2>2. \A v : Cardinality({v}) = 1
    BY FS_Singleton
  <2> QED BY <2>1, <2>2, RedbOrders DEF ValsOK
<1> QED BY <1>1, RedbHelpers DEF RedbGood, Redb!TablesOK

\* What a table has for a key.
ValuesOf(t, k) == IF k \in DOMAIN t THEN t[k] ELSE {}

\* The rows of the tables, one by one.
LEMMA RedbHas ==
  ASSUME NEW tables, RedbGood(tables)
  PROVE  /\ Redb!RowsOf(tables) \in SUBSET RowSet
         /\ \A r \in RowSet : r \in Redb!RowsOf(tables) <=>
              r.name \in DOMAIN tables /\ r.val \in ValuesOf(tables[r.name], r.key)
<1>1. \A r : r \in Redb!RowsOf(tables) <=>
        \E n \in DOMAIN tables : \E k \in DOMAIN tables[n] : \E v \in tables[n][k] : r = Row(n, k, v)
  BY RedbHelpers DEF Redb!RowsOf
<1>2. \A n \in DOMAIN tables : \A k \in DOMAIN tables[n] : \A v \in tables[n][k] :
        n \in Names /\ k \in Keys /\ v \in Vals
  BY DEF RedbGood, TableOK, ValsOK
<1>3. Redb!RowsOf(tables) \in SUBSET RowSet
  BY <1>1, <1>2 DEF Row, RowSet
<1>4. ASSUME NEW r \in RowSet
      PROVE  r \in Redb!RowsOf(tables) <=>
               r.name \in DOMAIN tables /\ r.val \in ValuesOf(tables[r.name], r.key)
  <2>1. r = Row(r.name, r.key, r.val)
    BY DEF Row, RowSet
  <2>2. \A n, k, v : r = Row(n, k, v) => r.name = n /\ r.key = k /\ r.val = v
    BY DEF Row
  <2> QED BY <1>1, <2>1, <2>2 DEF ValuesOf
<1> QED BY <1>3, <1>4

\* Putting a table in place, or making it.
LEMMA PutRedbTable ==
  ASSUME NEW tables, RedbGood(tables), NEW n \in Names, NEW t, TableOK(n, t),
         NEW new, DOMAIN new = DOMAIN tables \cup {n}, new[n] = t,
         \A m \in DOMAIN tables : m # n => new[m] = tables[m]
  PROVE  /\ RedbGood(new)
         /\ \A r \in RowSet : r \in Redb!RowsOf(new) <=>
              IF r.name = n THEN r.val \in ValuesOf(t, r.key) ELSE r \in Redb!RowsOf(tables)
<1>1. RedbGood(new)
  BY DEF RedbGood
<1>2. ASSUME NEW r \in RowSet
      PROVE  r \in Redb!RowsOf(new) <=>
              IF r.name = n THEN r.val \in ValuesOf(t, r.key) ELSE r \in Redb!RowsOf(tables)
  <2>1. r \in Redb!RowsOf(new) <=> r.name \in DOMAIN new /\ r.val \in ValuesOf(new[r.name], r.key)
    BY <1>1, RedbHas
  <2>2. r \in Redb!RowsOf(tables) <=>
          r.name \in DOMAIN tables /\ r.val \in ValuesOf(tables[r.name], r.key)
    BY RedbHas
  <2> QED BY <2>1, <2>2
<1> QED BY <1>1, <1>2

\* The table a call works on: an empty one where there was none.
LEMMA OpenedIs ==
  ASSUME RedbGood(work), NEW n \in Names
  PROVE  /\ DOMAIN Redb!Opened(n) = DOMAIN work \cup {n}
         /\ \A m \in DOMAIN work : Redb!Opened(n)[m] = work[m]
         /\ TableOK(n, Redb!Opened(n)[n])
         /\ RedbGood(Redb!Opened(n))
         /\ Redb!RowsOf(Redb!Opened(n)) = Redb!RowsOf(work)
         /\ \A k \in Keys : Store!RowsAt(Redb!RowsOf(work), n, k) =
                              SlotRows(n, k, ValuesOf(Redb!Opened(n)[n], k))
         /\ \A r \in RowSet : r.name = n =>
              (r \in Redb!RowsOf(work) <=> r.val \in ValuesOf(Redb!Opened(n)[n], r.key))
<1> DEFINE o == Redb!Opened(n)
<1>1. o = IF n \in DOMAIN work THEN work ELSE Put(work, n, <<>>)
  BY RedbOrders DEF Redb!Opened
<1> HIDE DEF o
<1>2. /\ DOMAIN o = DOMAIN work \cup {n} /\ \A m \in DOMAIN work : o[m] = work[m]
      /\ n \notin DOMAIN work => o[n] = <<>>
  BY <1>1 DEF Put
<1>3. DOMAIN <<>> = {}
  OBVIOUS
<1>4. TableOK(n, <<>>)
  BY <1>3, FS_EmptySet DEF TableOK
<1>5. TableOK(n, o[n])
  BY <1>2, <1>4 DEF RedbGood
<1>6. RedbGood(o)
  BY <1>2, <1>5 DEF RedbGood
<1>7. \A r \in RowSet : r \in Redb!RowsOf(o) <=> r \in Redb!RowsOf(work)
  <2>1. ASSUME NEW r \in RowSet PROVE r \in Redb!RowsOf(o) <=> r \in Redb!RowsOf(work)
    <3>1. r \in Redb!RowsOf(o) <=> r.name \in DOMAIN o /\ r.val \in ValuesOf(o[r.name], r.key)
      BY <1>6, RedbHas
    <3>2. r \in Redb!RowsOf(work) <=>
            r.name \in DOMAIN work /\ r.val \in ValuesOf(work[r.name], r.key)
      BY RedbHas
    <3>3. ValuesOf(<<>>, r.key) = {}
      BY <1>3 DEF ValuesOf
    <3> QED BY <1>2, <3>1, <3>2, <3>3
  <2> QED BY <2>1
<1>8. Redb!RowsOf(o) = Redb!RowsOf(work)
  BY <1>6, <1>7, RedbHas
<1>9. \A r \in RowSet : r.name = n => (r \in Redb!RowsOf(work) <=> r.val \in ValuesOf(o[n], r.key))
  <2>1. \A r \in RowSet : r \in Redb!RowsOf(o) <=>
          r.name \in DOMAIN o /\ r.val \in ValuesOf(o[r.name], r.key)
    BY <1>6, RedbHas
  <2> QED BY <1>2, <1>8, <2>1
<1>10. ASSUME NEW k \in Keys
       PROVE  Store!RowsAt(Redb!RowsOf(work), n, k) = SlotRows(n, k, ValuesOf(o[n], k))
  <2>1. Redb!RowsOf(work) \in SUBSET RowSet
    BY RedbHas
  <2>2. ValuesOf(o[n], k) \in SUBSET Vals
    BY <1>5 DEF ValuesOf, TableOK, ValsOK
  <2>3. \A r : r \in SlotRows(n, k, ValuesOf(o[n], k)) <=>
          r \in RowSet /\ r.name = n /\ r.key = k /\ r.val \in ValuesOf(o[n], k)
    BY <2>2 DEF SlotRows, Row, RowSet
  <2> QED BY <1>9, <2>1, <2>3 DEF Store!RowsAt
<1> QED BY <1>2, <1>5, <1>6, <1>8, <1>9, <1>10 DEF o

\* Values in ascending order.
Ordered(s) == s \in Seq(Vals) /\ \A i, j \in 1..Len(s) : i < j => s[i] < s[j]

\* The values of a key, ascending.
LEMMA ValuesAtIs ==
  ASSUME NEW n, NEW t, TableOK(n, t), NEW k
  PROVE  /\ Ordered(Redb!ValuesAt(t, k))
         /\ Range(Redb!ValuesAt(t, k)) = ValuesOf(t, k)
         /\ Redb!ValuesAt(t, k) = <<>> <=> k \notin DOMAIN t
<1> DEFINE s == Redb!ValuesAt(t, k)
<1>1. CASE k \notin DOMAIN t
  <2>1. s = <<>>
    BY <1>1 DEF Redb!ValuesAt
  <2>2. Range(<<>>) = {} /\ Ordered(<<>>)
    BY DEF Range, Ordered
  <2> QED BY <1>1, <2>1, <2>2 DEF ValuesOf
<1>2. CASE k \in DOMAIN t
  <2>1. s = Ascending(t[k])
    BY <1>2, RedbOrders DEF Redb!ValuesAt
  <2>2. t[k] \in SUBSET Vals /\ t[k] \in SUBSET Nat /\ IsFiniteSet(t[k]) /\ t[k] # {}
    BY <1>2, ValsNat DEF TableOK, ValsOK
  <2>3. /\ s \in Seq(t[k]) /\ Range(s) = t[k]
        /\ \A i, j \in DOMAIN s : i < j => s[i] < s[j]
    BY <2>1, <2>2, AscendingIs
  <2> HIDE DEF s
  <2>4. s \in Seq(Vals)
    BY <2>2, <2>3, SeqWider
  <2>5. Range(<<>>) = {}
    BY DEF Range
  <2> QED BY <1>2, <2>2, <2>3, <2>4, <2>5 DEF Ordered, ValuesOf, s
<1> QED BY <1>1, <1>2

\* A table with the values of one key replaced, or the key gone.
LEMMA WithIs ==
  ASSUME RedbGood(work), NEW n \in Names, NEW k \in Keys, NEW values,
         values = {} \/ ValsOK(n, values)
  PROVE  /\ TableOK(n, Redb!With(n, k, values))
         /\ \A l : ValuesOf(Redb!With(n, k, values), l) =
                     IF l = k THEN values ELSE ValuesOf(Redb!Opened(n)[n], l)
<1> DEFINE t == Redb!Opened(n)[n]
           w == Redb!With(n, k, values)
<1>1. TableOK(n, t)
  BY OpenedIs
<1>2. w = IF values = {} THEN Restrict(t, DOMAIN t \ {k}) ELSE Put(t, k, values)
  BY RedbOrders DEF Redb!With
<1> HIDE DEF t, w
<1>3. CASE values = {}
  <2>1. DOMAIN w = DOMAIN t \ {k} /\ \A l \in DOMAIN w : w[l] = t[l]
    BY <1>2, <1>3 DEF Restrict
  <2>2. IsFiniteSet(DOMAIN w)
    BY <1>1, <2>1, FS_RemoveElement DEF TableOK
  <2> QED BY <1>1, <1>3, <2>1, <2>2 DEF TableOK, ValuesOf, t, w
<1>4. CASE values # {}
  <2>1. /\ DOMAIN w = DOMAIN t \cup {k} /\ w[k] = values
        /\ \A l \in DOMAIN t : l # k => w[l] = t[l]
    BY <1>2, <1>4 DEF Put
  <2>2. IsFiniteSet(DOMAIN w)
    BY <1>1, <2>1, FS_AddElement DEF TableOK
  <2> QED BY <1>1, <1>4, <2>1, <2>2 DEF TableOK, ValuesOf, t, w
<1> QED BY <1>3, <1>4

\* A sequence is its head and its tail.
LEMMA TailIs ==
  ASSUME NEW S, NEW s \in Seq(S), s # <<>>
  PROVE  /\ Head(s) = s[1] /\ s[1] \in S /\ 1 \in DOMAIN s
         /\ Tail(s) \in Seq(S)
         /\ \A i \in DOMAIN Tail(s) : i + 1 \in DOMAIN s /\ 1 < i + 1 /\ Tail(s)[i] = s[i + 1]
         /\ Range(s) = {s[1]} \cup Range(Tail(s))
<1>1. /\ Len(s) \in Nat /\ Len(s) >= 1 /\ DOMAIN s = 1..Len(s) /\ Head(s) = s[1]
      /\ \A i \in 1..Len(s) : s[i] \in S
  OBVIOUS
<1>2. /\ Tail(s) \in Seq(S) /\ DOMAIN Tail(s) = 1..(Len(s) - 1)
      /\ \A i \in 1..(Len(s) - 1) : Tail(s)[i] = s[i + 1]
  BY <1>1, HeadTailProperties
<1>3. \A i \in DOMAIN Tail(s) : i + 1 \in DOMAIN s /\ 1 < i + 1 /\ Tail(s)[i] = s[i + 1]
  BY <1>1, <1>2
<1>4. Range(s) = {s[1]} \cup Range(Tail(s))
  <2>1. ASSUME NEW i \in 1..Len(s), i # 1 PROVE s[i] \in Range(Tail(s))
    <3>1. i - 1 \in 1..(Len(s) - 1) /\ (i - 1) + 1 = i
      BY <1>1, <2>1
    <3>2. Tail(s)[i - 1] = s[i]
      BY <1>2, <3>1
    <3> QED BY <1>2, <3>1, <3>2 DEF Range
  <2>2. \A i \in DOMAIN Tail(s) : Tail(s)[i] \in Range(s)
    BY <1>3 DEF Range
  <2>3. s[1] \in Range(s)
    BY <1>1 DEF Range
  <2> QED BY <1>1, <2>1, <2>2, <2>3 DEF Range
<1> QED BY <1>1, <1>2, <1>3, <1>4

\* Ascending values: the first comes before the others, which ascend.
LEMMA OrderedTail ==
  ASSUME NEW s, Ordered(s), s # <<>>
  PROVE  /\ Head(s) = s[1] /\ s[1] \in Range(s) /\ Range(s) \in SUBSET Vals
         /\ \A v \in Range(s) : v = s[1] \/ s[1] < v
         /\ Ordered(Tail(s)) /\ Range(Tail(s)) = Range(s) \ {s[1]}
<1>1. /\ s \in Seq(Vals) /\ Len(s) \in Nat /\ DOMAIN s = 1..Len(s)
      /\ \A i \in DOMAIN s : s[i] \in Vals
      /\ \A i, j \in DOMAIN s : i < j => s[i] < s[j]
  BY DEF Ordered
<1>2. /\ Head(s) = s[1] /\ 1 \in DOMAIN s /\ Tail(s) \in Seq(Vals)
      /\ \A i \in DOMAIN Tail(s) : i + 1 \in DOMAIN s /\ 1 < i + 1 /\ Tail(s)[i] = s[i + 1]
      /\ Range(s) = {s[1]} \cup Range(Tail(s))
  BY <1>1, TailIs
<1>3. \A v \in Range(Tail(s)) : s[1] < v /\ v \in Vals
  <2>1. \A i \in DOMAIN Tail(s) : s[1] < Tail(s)[i] /\ Tail(s)[i] \in Vals
    BY <1>1, <1>2
  <2> QED BY <2>1 DEF Range
<1>4. s[1] \in Vals /\ s[1] \in Nat
  BY <1>1, <1>2, ValsNat
<1>5. Range(Tail(s)) = Range(s) \ {s[1]}
  BY <1>2, <1>3, <1>4
<1>6. Ordered(Tail(s))
  <2>1. DOMAIN Tail(s) = 1..Len(Tail(s)) /\ \A i \in DOMAIN Tail(s) : i \in Nat
    BY <1>2
  <2>2. ASSUME NEW i \in DOMAIN Tail(s), NEW j \in DOMAIN Tail(s), i < j
        PROVE  Tail(s)[i] < Tail(s)[j]
    <3>1. i + 1 < j + 1
      BY <2>1, <2>2
    <3> QED BY <1>1, <1>2, <3>1
  <2> QED BY <1>2, <2>1, <2>2 DEF Ordered
<1> QED BY <1>2, <1>3, <1>4, <1>5, <1>6

----------------------------------------------------------------------------
(* The redb backend: its iterators.                                        *)

\* A key with its values, in order.
KeyEntry(e) == e \in Keys \X Seq(Vals) /\ Ordered(e[2])

\* What an iterator has left: ascending keys with values, after the current one.
RestOK(rest) ==
  /\ rest \in Seq(Keys \X Seq(Vals))
  /\ \A i \in DOMAIN rest : KeyEntry(rest[i]) /\ rest[i][2] # <<>>
  /\ \A i, j \in DOMAIN rest : i < j => rest[i][1] < rest[j][1]

CurrentOK(current, rest) ==
  current # <<>> => KeyEntry(current) /\ \A i \in DOMAIN rest : current[1] < rest[i][1]

EntryRowsOf(n, e) == SlotRows(n, e[1], Range(e[2]))
RowsOfAll(n, entries) == UNION {EntryRowsOf(n, e) : e \in entries}

RedbIters == [open : BOOLEAN, table : Nat, current : {<<>>} \cup (Keys \X Seq(Vals)),
              rest : Seq(Keys \X Seq(Vals))]

RedbIterOK(it) ==
  /\ it \in RedbIters
  /\ it.open => it.table \in Names
  /\ RestOK(it.rest)
  /\ CurrentOK(it.current, it.rest)

RedbPending(it) == RowsOfAll(it.table, Range(it.rest) \cup ({it.current} \ {<<>>}))

\* The rows of entries that all come after one key.
LEMMA RowsAfter ==
  ASSUME NEW n \in Names, NEW rest, RestOK(rest), NEW k \in Keys,
         \A i \in DOMAIN rest : k < rest[i][1]
  PROVE  /\ RowsOfAll(n, Range(rest)) \in SUBSET RowSet
         /\ \A r \in RowsOfAll(n, Range(rest)) : k < r.key
<1>1. \A r \in RowsOfAll(n, Range(rest)) : \E i \in DOMAIN rest : \E v \in Range(rest[i][2]) :
        r = Row(n, rest[i][1], v)
  BY DEF RowsOfAll, EntryRowsOf, SlotRows, Range
<1>2. ASSUME NEW i \in DOMAIN rest, NEW v \in Range(rest[i][2]), NEW r, r = Row(n, rest[i][1], v)
      PROVE  r \in RowSet /\ k < r.key
  <2>1. rest[i] \in Keys \X Seq(Vals) /\ Ordered(rest[i][2]) /\ rest[i][2] # <<>>
    BY DEF RestOK, KeyEntry
  <2>2. rest[i][1] \in Keys /\ v \in Vals
    BY <2>1, OrderedTail
  <2> QED BY <1>2, <2>2 DEF Row, RowSet
<1> QED BY <1>1, <1>2

\* The next row is the first value of the key, when all others come after it.
LEMMA NextRowIs ==
  ASSUME NEW n \in Names, NEW e, KeyEntry(e), e[2] # <<>>, NEW others \in SUBSET RowSet,
         \A r \in others : e[1] < r.key
  PROVE  LET rows == EntryRowsOf(n, e) \cup others
             row == Row(n, e[1], Head(e[2]))
         IN  /\ row \in rows /\ Store!First(rows) = row
             /\ rows \ {row} = EntryRowsOf(n, <<e[1], Tail(e[2])>>) \cup others
<1> DEFINE rows == EntryRowsOf(n, e) \cup others
           s == e[2]
           k == e[1]
           row == Row(n, k, s[1])
<1>1. k \in Keys /\ k \in Nat /\ Ordered(s) /\ s # <<>>
  BY ValsNat DEF KeyEntry
<1> HIDE DEF s, k
<1>2. /\ Head(s) = s[1] /\ s[1] \in Range(s) /\ Range(s) \in SUBSET Vals
      /\ \A v \in Range(s) : v = s[1] \/ s[1] < v
      /\ Ordered(Tail(s)) /\ Range(Tail(s)) = Range(s) \ {s[1]}
  BY <1>1, OrderedTail
<1>3. EntryRowsOf(n, e) = SlotRows(n, k, Range(s))
      /\ EntryRowsOf(n, <<k, Tail(s)>>) = SlotRows(n, k, Range(Tail(s)))
  BY DEF EntryRowsOf, s, k
<1>4. \A r : r \in SlotRows(n, k, Range(s)) <=>
        r \in RowSet /\ r.name = n /\ r.key = k /\ r.val \in Range(s)
  BY <1>1, <1>2 DEF SlotRows, Row, RowSet
<1>5. \A r : r \in SlotRows(n, k, Range(Tail(s))) <=>
        r \in RowSet /\ r.name = n /\ r.key = k /\ r.val \in Range(s) /\ r.val # s[1]
  BY <1>1, <1>2 DEF SlotRows, Row, RowSet
<1>6. /\ row \in RowSet /\ row.name = n /\ row.key = k /\ row.val = s[1]
      /\ \A r \in RowSet : r.name = n /\ r.key = k /\ r.val = s[1] => r = row
  BY <1>1, <1>2 DEF Row, RowSet
<1>7. \A r \in others : k < r.key /\ r.key # k
  <2>1. \A r \in RowSet : r.key \in Nat
    BY ValsNat DEF RowSet
  <2>2. \A r \in others : k < r.key
    BY DEF k
  <2> QED BY <1>1, <2>1, <2>2
<1> HIDE DEF row
<1>8. rows \in SUBSET RowSet /\ row \in rows
  BY <1>2, <1>3, <1>4, <1>6
<1>9. \A r \in rows \ {row} : Store!RowBefore(row, r)
  BY <1>2, <1>3, <1>4, <1>6, <1>7 DEF Store!RowBefore
<1>10. Store!First(rows) = row
  BY <1>8, <1>9, FirstIs
<1>11. rows \ {row} = EntryRowsOf(n, <<k, Tail(s)>>) \cup others
  BY <1>2, <1>3, <1>4, <1>5, <1>6, <1>7
<1> QED BY <1>2, <1>8, <1>10, <1>11 DEF row, s, k

\* The rows of an iterator: those of its current key and those of the others.
LEMMA PendingIs ==
  ASSUME NEW it, RedbIterOK(it)
  PROVE  /\ it.current = <<>> => RedbPending(it) = RowsOfAll(it.table, Range(it.rest))
         /\ it.current # <<>> =>
              RedbPending(it) = EntryRowsOf(it.table, it.current) \cup RowsOfAll(it.table, Range(it.rest))
<1>1. it.current = <<>> => Range(it.rest) \cup ({it.current} \ {<<>>}) = Range(it.rest)
  OBVIOUS
<1>2. it.current # <<>> =>
        Range(it.rest) \cup ({it.current} \ {<<>>}) = Range(it.rest) \cup {it.current}
  OBVIOUS
<1>3. \A S, e : RowsOfAll(it.table, S \cup {e}) = EntryRowsOf(it.table, e) \cup RowsOfAll(it.table, S)
  BY DEF RowsOfAll
<1> QED BY <1>1, <1>2, <1>3 DEF RedbPending

\* What is left when the first of the entries left becomes the current one.
LEMMA RestTail ==
  ASSUME NEW rest, RestOK(rest), rest # <<>>, NEW n
  PROVE  /\ KeyEntry(Head(rest)) /\ Head(rest)[2] # <<>> /\ Head(rest)[1] \in Keys
         /\ RestOK(Tail(rest))
         /\ \A i \in DOMAIN Tail(rest) : Head(rest)[1] < Tail(rest)[i][1]
         /\ RowsOfAll(n, Range(rest)) = EntryRowsOf(n, Head(rest)) \cup RowsOfAll(n, Range(Tail(rest)))
<1> DEFINE T == Keys \X Seq(Vals)
<1>1. rest \in Seq(T)
  BY DEF RestOK
<1> HIDE DEF T
<1>2. /\ Head(rest) = rest[1] /\ 1 \in DOMAIN rest
      /\ Tail(rest) \in Seq(T)
      /\ \A i \in DOMAIN Tail(rest) : i + 1 \in DOMAIN rest /\ 1 < i + 1 /\ Tail(rest)[i] = rest[i + 1]
      /\ Range(rest) = {rest[1]} \cup Range(Tail(rest))
  BY <1>1, TailIs
<1>3. /\ \A i \in DOMAIN rest : KeyEntry(rest[i]) /\ rest[i][2] # <<>>
      /\ \A i, j \in DOMAIN rest : i < j => rest[i][1] < rest[j][1]
  BY DEF RestOK
<1>4. KeyEntry(Head(rest)) /\ Head(rest)[2] # <<>> /\ Head(rest)[1] \in Keys
  BY <1>2, <1>3 DEF KeyEntry
<1>5. RestOK(Tail(rest))
  <2>1. \A i \in DOMAIN Tail(rest) : KeyEntry(Tail(rest)[i]) /\ Tail(rest)[i][2] # <<>>
    BY <1>2, <1>3
  <2>2. ASSUME NEW i \in DOMAIN Tail(rest), NEW j \in DOMAIN Tail(rest), i < j
        PROVE  Tail(rest)[i][1] < Tail(rest)[j][1]
    <3>1. i + 1 < j + 1
      <4>1. \A x \in DOMAIN Tail(rest) : x \in Nat
        BY <1>2
      <4> QED BY <2>2, <4>1
    <3> QED BY <1>2, <1>3, <3>1
  <2> QED BY <1>2, <2>1, <2>2 DEF RestOK, T
<1>6. \A i \in DOMAIN Tail(rest) : Head(rest)[1] < Tail(rest)[i][1]
  BY <1>2, <1>3
<1>7. \A S, e : RowsOfAll(n, {e} \cup S) = EntryRowsOf(n, e) \cup RowsOfAll(n, S)
  BY DEF RowsOfAll
<1>8. RowsOfAll(n, Range(rest)) = EntryRowsOf(n, Head(rest)) \cup RowsOfAll(n, Range(Tail(rest)))
  BY <1>2, <1>7
<1> QED BY <1>4, <1>5, <1>6, <1>8

\* The keys of a table between two bounds, each with its values.
LEMMA EntriesIs ==
  ASSUME RedbGood(work), NEW n \in Names, NEW lo \in Bounds, NEW hi \in Bounds
  PROVE  /\ RestOK(Redb!Entries(n, lo, hi))
         /\ RowsOfAll(n, Range(Redb!Entries(n, lo, hi)))
              = Store!RowsIn(Redb!RowsOf(work), n, lo, hi)
<1> DEFINE t == Redb!Opened(n)[n]
           S == {<<k>> : k \in DOMAIN t}
           l == [kind |-> lo.kind, at |-> <<lo.key>>]
           h == [kind |-> hi.kind, at |-> <<hi.key>>]
           found == Within(S, l, h)
           rest == Redb!Entries(n, lo, hi)
<1>1. rest = [i \in DOMAIN found |-> <<found[i][1], Redb!ValuesAt(t, found[i][1])>>]
  BY RedbOrders DEF Redb!Entries
<1>2. TableOK(n, t) /\ DOMAIN t \in SUBSET Keys /\ IsFiniteSet(DOMAIN t)
  BY OpenedIs DEF TableOK
<1> HIDE DEF t
<1>3. S \in SUBSET Strings /\ \A x \in S : x[1] \in DOMAIN t /\ x = <<x[1]>> /\ Second(x) = 0 - 1
  BY <1>2, ValsNat DEF Strings, Second
<1>4. IsFiniteSet(S)
  <2> DEFINE f == [k \in DOMAIN t |-> <<k>>]
  <2>1. f \in Surjection(DOMAIN t, S)
    BY DEF Surjection
  <2> HIDE DEF f, S
  <2> QED BY <1>2, <2>1, FS_Surjection
<1>5. \A k : <<k>> \in S <=> k \in DOMAIN t
  OBVIOUS
<1>6. l.kind = lo.kind /\ l.at = <<lo.key>> /\ h.kind = hi.kind /\ h.at = <<hi.key>>
  OBVIOUS
<1> HIDE DEF S, l, h, rest
<1>7. /\ found \in Seq(S)
      /\ Range(found) = {x \in S : Above(l, x) /\ BelowEnd(h, x)}
      /\ \A i, j \in DOMAIN found : i < j => Before(found[i], found[j])
  BY <1>3, <1>4, WithinIs
<1> HIDE DEF found
<1>8. /\ Len(found) \in Nat /\ DOMAIN found = 1..Len(found)
      /\ \A i \in DOMAIN found : found[i] \in S /\ found[i][1] \in DOMAIN t /\ found[i][1] \in Keys
  BY <1>2, <1>3, <1>7
<1>9. \A k \in DOMAIN t : /\ Ordered(Redb!ValuesAt(t, k)) /\ Redb!ValuesAt(t, k) # <<>>
                          /\ Range(Redb!ValuesAt(t, k)) = ValuesOf(t, k)
                          /\ Redb!ValuesAt(t, k) \in Seq(Vals)
  BY <1>2, ValuesAtIs DEF Ordered
<1>10. \A i \in DOMAIN found : /\ rest[i] = <<found[i][1], Redb!ValuesAt(t, found[i][1])>>
                               /\ rest[i] \in Keys \X Seq(Vals)
                               /\ rest[i][1] = found[i][1]
                               /\ rest[i][2] = Redb!ValuesAt(t, found[i][1])
                               /\ KeyEntry(rest[i]) /\ rest[i][2] # <<>>
  BY <1>1, <1>8, <1>9 DEF KeyEntry
<1>11. RestOK(rest) /\ DOMAIN rest = DOMAIN found
  <2> DEFINE T == Keys \X Seq(Vals)
  <2>1. \A i \in 1..Len(found) : rest[i] \in T
    BY <1>8, <1>10
  <2>2. DOMAIN rest = DOMAIN found /\ rest = [i \in 1..Len(found) |-> rest[i]]
    BY <1>1, <1>8
  <2> HIDE DEF T
  <2>3. rest \in Seq(T)
    BY <1>8, <2>1, <2>2
  <2>4. ASSUME NEW i \in DOMAIN found, NEW j \in DOMAIN found, i < j
        PROVE  found[i][1] < found[j][1]
    <3>1. Before(found[i], found[j]) /\ found[i] \in S /\ found[j] \in S
      BY <1>7, <1>8, <2>4
    <3>2. found[i] \in Strings /\ found[j] \in Strings
      BY <1>3, <3>1
    <3>3. \/ found[i][1] < found[j][1]
          \/ found[i][1] = found[j][1] /\ Second(found[i]) < Second(found[j])
      BY <3>1, <3>2, BeforeIs
    <3>4. Second(found[i]) = 0 - 1 /\ Second(found[j]) = 0 - 1
      BY <1>3, <3>1
    <3> QED BY <3>3, <3>4
  <2>5. rest \in Seq(Keys \X Seq(Vals))
    BY <2>3 DEF T
  <2>6. \A i \in DOMAIN rest : KeyEntry(rest[i]) /\ rest[i][2] # <<>>
    BY <1>10, <2>2
  <2>7. ASSUME NEW i \in DOMAIN rest, NEW j \in DOMAIN rest, i < j
        PROVE  rest[i][1] < rest[j][1]
    BY <1>10, <2>2, <2>4, <2>7
  <2> QED BY <2>2, <2>5, <2>6, <2>7 DEF RestOK
<1>12. /\ lo = Unbounded \/ (lo.kind \in {"Included", "Excluded"} /\ lo.key \in Nat)
       /\ hi = Unbounded \/ (hi.kind \in {"Included", "Excluded"} /\ hi.key \in Nat)
       /\ lo.key \in Nat /\ hi.key \in Nat
  BY ValsNat DEF Bounds, Unbounded, Included, Excluded
<1>13. ASSUME NEW k \in DOMAIN t
       PROVE  <<k>> \in Range(found) <=> Store!AboveLo(lo, k) /\ Store!BelowHi(hi, k)
  <2> DEFINE x == <<k>>
  <2>1. k \in Nat /\ x \in S /\ x[1] = k /\ \A y : x = <<y>> <=> k = y
    BY <1>2, <1>5, ValsNat
  <2>2. \A y \in Nat : <<y>> \in Strings /\ <<y>>[1] = y /\ Second(<<y>>) = 0 - 1
    BY DEF Strings, Second
  <2>3. x \in Strings /\ Second(x) = 0 - 1
    BY <2>1, <2>2
  <2> HIDE DEF x
  <2>4. ASSUME NEW y \in Nat PROVE (Before(<<y>>, x) <=> y < k) /\ (Before(x, <<y>>) <=> k < y)
    <3>1. Before(<<y>>, x) <=> y < k \/ (y = k /\ 0 - 1 < 0 - 1)
      BY <2>1, <2>2, <2>3, BeforeIs
    <3>2. Before(x, <<y>>) <=> k < y \/ (k = y /\ 0 - 1 < 0 - 1)
      BY <2>1, <2>2, <2>3, BeforeIs
    <3> QED BY <3>1, <3>2
  <2>5. Above(l, x) <=> Store!AboveLo(lo, k)
    BY <1>6, <1>12, <2>1, <2>4 DEF Above, Store!AboveLo, Unbounded
  <2>6. BelowEnd(h, x) <=> Store!BelowHi(hi, k)
    BY <1>6, <1>12, <2>1, <2>4 DEF BelowEnd, Store!BelowHi, Unbounded
  <2> QED BY <1>7, <2>1, <2>5, <2>6 DEF x
<1>14. \A r : r \in RowsOfAll(n, Range(rest)) <=>
         \E i \in DOMAIN found : \E v \in ValuesOf(t, found[i][1]) : r = Row(n, found[i][1], v)
  <2>1. \A r : r \in RowsOfAll(n, Range(rest)) <=>
          \E i \in DOMAIN rest : \E v \in Range(rest[i][2]) : r = Row(n, rest[i][1], v)
    BY DEF RowsOfAll, EntryRowsOf, SlotRows, Range
  <2>2. \A i \in DOMAIN found : Range(rest[i][2]) = ValuesOf(t, found[i][1])
    BY <1>8, <1>9, <1>10
  <2>3. ASSUME NEW r
        PROVE  (\E i \in DOMAIN rest : \E v \in Range(rest[i][2]) : r = Row(n, rest[i][1], v)) <=>
                 \E i \in DOMAIN found : \E v \in ValuesOf(t, found[i][1]) : r = Row(n, found[i][1], v)
    <3>1. \A i \in DOMAIN found :
            (\E v \in Range(rest[i][2]) : r = Row(n, rest[i][1], v)) <=>
              \E v \in ValuesOf(t, found[i][1]) : r = Row(n, found[i][1], v)
      <4>1. ASSUME NEW i \in DOMAIN found
            PROVE  (\E v \in Range(rest[i][2]) : r = Row(n, rest[i][1], v)) <=>
                     \E v \in ValuesOf(t, found[i][1]) : r = Row(n, found[i][1], v)
        <5>1. Range(rest[i][2]) = ValuesOf(t, found[i][1]) /\ rest[i][1] = found[i][1]
          BY <1>10, <2>2
        <5> QED BY <5>1
      <4> QED BY <4>1
    <3>2. DOMAIN rest = DOMAIN found
      BY <1>11
    <3> QED BY <3>1, <3>2
  <2> QED BY <2>1, <2>3, ZenonT(30)
<1>15. ASSUME NEW r \in RowSet
       PROVE  r \in RowsOfAll(n, Range(rest)) <=> r \in Store!RowsIn(Redb!RowsOf(work), n, lo, hi)
  <2>1. r.name = n => (r \in Redb!RowsOf(work) <=> r.val \in ValuesOf(t, r.key))
    BY OpenedIs DEF t
  <2>2. r = Row(r.name, r.key, r.val)
        /\ \A k, v : r = Row(n, k, v) <=> r.name = n /\ r.key = k /\ r.val = v
    BY DEF Row, RowSet
  <2>3. r \in RowsOfAll(n, Range(rest)) <=>
          r.name = n /\ r.val \in ValuesOf(t, r.key) /\ <<r.key>> \in Range(found)
    <3>1. ASSUME NEW i \in DOMAIN found PROVE <<found[i][1]>> \in Range(found)
      BY <1>3, <1>8 DEF Range
    <3>2. ASSUME <<r.key>> \in Range(found) PROVE \E i \in DOMAIN found : found[i][1] = r.key
      <4>1. PICK i \in DOMAIN found : found[i] = <<r.key>>
        BY <3>2 DEF Range
      <4> QED BY <4>1
    <3> QED BY <1>14, <2>2, <3>1, <3>2
  <2>4. r.val \in ValuesOf(t, r.key) => r.key \in DOMAIN t
    BY DEF ValuesOf
  <2> QED BY <1>13, <2>1, <2>3, <2>4 DEF Store!RowsIn
<1>16. RowsOfAll(n, Range(rest)) \in SUBSET RowSet
  <2>1. ASSUME NEW i \in DOMAIN found, NEW v \in ValuesOf(t, found[i][1])
        PROVE  found[i][1] \in Keys /\ v \in Vals
    BY <1>2, <1>8 DEF ValuesOf, TableOK, ValsOK
  <2> QED BY <1>14, <2>1 DEF Row, RowSet
<1>17. Store!RowsIn(Redb!RowsOf(work), n, lo, hi) \in SUBSET RowSet
  BY RedbHas DEF Store!RowsIn
<1> QED BY <1>11, <1>15, <1>16, <1>17 DEF rest

----------------------------------------------------------------------------
(* The redb backend: its steps.                                            *)

\* The tables staged and committed are in form, and so is the iterator.
RedbInv ==
  /\ RedbGood(base)
  /\ RedbGood(work)
  /\ RedbIterOK(iter)
  /\ ~iter.open => iter = Redb!NoIter

RedbStep == backend = "redb" /\ UNCHANGED backend /\ TxInv /\ RedbInv

\* The rows and the iterator of a redb store, seen from outside.
LEMMA RedbViews ==
  ASSUME RedbStep
  PROVE  /\ RowsOf(base) = Redb!RowsOf(base) /\ RowsOf(work) = Redb!RowsOf(work)
         /\ RowsOf(base)' = Redb!RowsOf(base') /\ RowsOf(work)' = Redb!RowsOf(work')
         /\ Pending = RedbPending(iter) /\ Pending' = RedbPending(iter')
<1>1. \A it : RedbPending(it) = UNION {{Row(it.table, e[1], v) : v \in Range(e[2])} :
                                        e \in Range(it.rest) \cup ({it.current} \ {<<>>})}
  BY DEF RedbPending, RowsOfAll, EntryRowsOf, SlotRows
<1>2. Pending = UNION {{Row(iter.table, e[1], v) : v \in Range(e[2])} :
                         e \in Range(iter.rest) \cup ({iter.current} \ {<<>>})}
  BY DEF RedbStep, Pending
<1>3. Pending' = UNION {{Row(iter'.table, e[1], v) : v \in Range(e[2])} :
                          e \in Range(iter'.rest) \cup ({iter'.current} \ {<<>>})}
  BY DEF RedbStep, Pending
<1>4. /\ RowsOf(base) = Redb!RowsOf(base) /\ RowsOf(work) = Redb!RowsOf(work)
      /\ RowsOf(base)' = Redb!RowsOf(base') /\ RowsOf(work)' = Redb!RowsOf(work')
  BY DEF RedbStep, RowsOf
<1>5. Pending = RedbPending(iter)
  BY <1>1, <1>2
<1>6. Pending' = RedbPending(iter')
  BY <1>1, <1>3
<1> QED BY <1>4, <1>5, <1>6

\* No tables are in form, and so is a store without an iterator.
LEMMA RedbStarts ==
  /\ RedbGood(<<>>)
  /\ RedbIterOK(Redb!NoIter) /\ Redb!NoIter.open = FALSE
<1>1. DOMAIN <<>> = {}
  OBVIOUS
<1>2. RedbGood(<<>>)
  BY <1>1 DEF RedbGood
<1>3. /\ Redb!NoIter \in RedbIters /\ Redb!NoIter.open = FALSE
      /\ Redb!NoIter.current = <<>> /\ Redb!NoIter.rest = <<>>
  BY DEF Redb!NoIter, RedbIters
<1>4. RestOK(<<>>) /\ CurrentOK(<<>>, <<>>)
  BY <1>1 DEF RestOK, CurrentOK
<1> QED BY <1>2, <1>3, <1>4 DEF RedbIterOK

\* open of the redb backend.
LEMMA RedbOpens == RedbStep /\ Redb!open => Keeps(RedbInv, Store!Open(0))
<1> SUFFICES ASSUME RedbStep, Redb!open PROVE Keeps(RedbInv, Store!Open(0))
  OBVIOUS
<1>1. /\ tx = "closed" /\ tx' = "idle" /\ ret' = Ret("ok")
      /\ base' = base /\ work' = work /\ iter' = iter
  BY RedbHelpers DEF Redb!open
<1>2. /\ RowsOf(base)' = RowsOf(base) /\ iter'.open = FALSE
  BY <1>1, RedbViews DEF RedbStep, TxInv, Reading
<1>3. TxInv'
  BY <1>1, <1>2, TxEnds DEF RedbStep
<1>4. RedbInv'
  BY <1>1 DEF RedbStep, RedbInv, Redb!NoIter
<1>5. FinitelyManyRows => Store!Open(0)
  BY <1>1, <1>2, OpenMaps DEF RedbStep
<1> QED BY <1>3, <1>4, <1>5 DEF Keeps

\* Closing or losing a redb store: what was committed stays.
LEMMA RedbGoes ==
  ASSUME RedbStep, NEW r, Redb!Gone(r), tx # "closed"
  PROVE  /\ r = "ok" /\ tx = "idle" => Keeps(RedbInv, Store!Close)
         /\ r = "crashed" => Keeps(RedbInv, Store!Crash)
<1>1. /\ tx' = "closed" /\ base' = base /\ work' = <<>> /\ iter' = Redb!NoIter
      /\ ret' = Ret(r)
  BY RedbHelpers DEF Redb!Gone
<1>2. /\ RowsOf(base)' = RowsOf(base) /\ iter'.open = FALSE /\ backend # "memory"
  BY <1>1, RedbViews, RedbStarts DEF RedbStep
<1>3. TxInv'
  BY <1>1, <1>2, TxEnds DEF RedbStep
<1>4. RedbInv'
  BY <1>1, RedbStarts DEF RedbInv, Redb!NoIter, RedbStep
<1>5. r = "ok" /\ tx = "idle" => Store!Close
  BY <1>1, <1>2, CloseMaps DEF RedbStep
<1>6. r = "crashed" => Store!Crash
  BY <1>1, <1>2, CrashMaps DEF RedbStep
<1> QED BY <1>3, <1>4, <1>5, <1>6 DEF Keeps

\* read_transaction and write_transaction of the redb backend.
LEMMA RedbBegins ==
  ASSUME RedbStep
  PROVE  /\ Redb!read_transaction => Keeps(RedbInv, Store!BeginRead)
         /\ Redb!write_transaction => Keeps(RedbInv, Store!BeginWrite)
<1>1. ASSUME tx = "idle", tx' \in {"read", "write"}, work' = base, UNCHANGED <<base, iter>>
      PROVE  TxInv' /\ RedbInv'
  BY <1>1, TxBegins DEF RedbStep, RedbInv, Redb!NoIter
<1>2. Redb!read_transaction => Keeps(RedbInv, Store!BeginRead)
  BY <1>1, BeginReadMaps, RedbHelpers DEF Redb!read_transaction, Keeps, RedbStep
<1>3. Redb!write_transaction => Keeps(RedbInv, Store!BeginWrite)
  BY <1>1, BeginWriteMaps, RedbHelpers DEF Redb!write_transaction, Keeps, RedbStep
<1> QED BY <1>2, <1>3

\* commit of the redb backend, and a transaction dropped.
LEMMA RedbEnds ==
  ASSUME RedbStep
  PROVE  /\ Redb!commit => Keeps(RedbInv, Store!Commit)
         /\ \A r : Redb!Drop(r) => Keeps(RedbInv, Store!Rollback(Store!Ret(r)))
<1>1. ASSUME NEW r, Redb!EndTx(r)
      PROVE  /\ tx' = "idle" /\ work' = <<>> /\ iter' = Redb!NoIter /\ ret' = Ret(r)
             /\ iter'.open = FALSE
  BY <1>1, RedbHelpers, RedbStarts DEF Redb!EndTx
<1>2. ASSUME tx' = "idle", iter'.open = FALSE PROVE TxInv'
  BY <1>2, TxEnds DEF RedbStep
<1>3. ASSUME RedbGood(base'), work' = <<>>, iter' = Redb!NoIter PROVE RedbInv'
  BY <1>3, RedbStarts DEF RedbInv, Redb!NoIter
<1>4. Redb!commit => Keeps(RedbInv, Store!Commit)
  BY <1>1, <1>2, <1>3, CommitMaps, RedbHelpers DEF Redb!commit, Keeps, RedbStep, RedbInv
<1>5. ASSUME NEW r, Redb!Drop(r) PROVE Keeps(RedbInv, Store!Rollback(Store!Ret(r)))
  BY <1>1, <1>2, <1>3, <1>5, RollbackMaps, RedbHelpers
     DEF Redb!Drop, Keeps, RedbStep, RedbInv
<1> QED BY <1>4, <1>5

\* A call on a table a read transaction does not have.
RedbRefuses(n) ==
  /\ tx = "read" /\ n \notin DOMAIN work /\ ret' = Ret("TableOpen")
  /\ UNCHANGED <<tx, base, work, iter>>

\* A table a read transaction does not have holds no rows.
LEMMA RedbNoTable ==
  ASSUME RedbStep, NEW n \in Names, RedbRefuses(n)
  PROVE  Keeps(RedbInv, Store!NoSuchTable(n))
<1>1. RowsOf(work)' = RowsOf(work) /\ Pending' = Pending
  BY RedbViews DEF RedbRefuses
<1>2. \A r \in RowsOf(base) : r.name # n
  <2>1. RowsOf(base) = Redb!RowsOf(work) /\ RedbGood(work)
    BY RedbViews DEF RedbStep, TxInv, RedbRefuses, RedbInv
  <2> QED BY <2>1, RedbHas DEF RedbRefuses
<1>3. TxInv' /\ RedbInv'
  BY <1>1, TxStays DEF RedbStep, RedbInv, TxInv, RedbRefuses, Reading, Redb!NoIter
<1>4. Store!NoSuchTable(n)
  BY <1>1, <1>2, NoSuchTableMaps DEF RedbStep, RedbRefuses
<1> QED BY <1>3, <1>4 DEF Keeps

\* Opening a table for a call that only reads changes no row.
LEMMA RedbOpened ==
  ASSUME RedbStep, NEW n \in Names, UNCHANGED base, work' = Redb!Opened(n),
         tx = "write" \/ (tx = "read" /\ n \in DOMAIN work)
  PROVE  RowsOf(work)' = RowsOf(work) /\ RedbGood(base') /\ RedbGood(work')
<1>1. RedbGood(work) /\ RedbGood(base)
  BY DEF RedbStep, RedbInv
<1>2. RedbGood(Redb!Opened(n)) /\ Redb!RowsOf(Redb!Opened(n)) = Redb!RowsOf(work)
  BY <1>1, OpenedIs
<1> QED BY <1>1, <1>2, RedbViews

\* get of the redb backend answers with the key's first value, or has no such
\* table.
LEMMA RedbGets ==
  ASSUME RedbStep, NEW n \in Names, NEW k \in Keys, Redb!get(n, k)
  PROVE  Keeps(RedbInv, Store!Get(n, k) \/ Store!NoSuchTable(n))
         /\ (ret'.res # "TableOpen" => Keeps(RedbInv, Store!Get(n, k)))
<1> DEFINE t == Redb!Opened(n)[n]
           s == Redb!ValuesAt(t, k)
           rows == Store!RowsAt(RowsOf(work), n, k)
<1>1. \/ RedbRefuses(n)
      \/ /\ Reading /\ (tx = "write" \/ (tx = "read" /\ n \in DOMAIN work))
         /\ work' = Redb!Opened(n) /\ UNCHANGED <<tx, base, iter>>
         /\ ret' = IF s = <<>> THEN Ret("absent") ELSE RetRow(Row(n, k, s[1]))
  BY RedbHelpers DEF Redb!get, Redb!OnTable, Redb!Answers, RedbRefuses, Reading
<1>2. CASE RedbRefuses(n)
  <2>1. ret'.res = "TableOpen"
    BY <1>2 DEF RedbRefuses, Ret
  <2> QED BY <1>2, <2>1, RedbNoTable DEF Keeps
<1>3. CASE ~RedbRefuses(n)
  <2>1. /\ Reading /\ (tx = "write" \/ (tx = "read" /\ n \in DOMAIN work))
        /\ work' = Redb!Opened(n) /\ UNCHANGED <<tx, base, iter>>
        /\ ret' = IF s = <<>> THEN Ret("absent") ELSE RetRow(Row(n, k, s[1]))
    BY <1>1, <1>3
  <2>2. RedbGood(work) /\ RowsOf(work) = Redb!RowsOf(work)
    BY RedbViews DEF RedbStep, RedbInv
  <2>3. rows = SlotRows(n, k, ValuesOf(t, k)) /\ TableOK(n, t)
    BY <2>2, OpenedIs
  <2> HIDE DEF t
  <2>4. Ordered(s) /\ Range(s) = ValuesOf(t, k)
    BY <2>3, ValuesAtIs
  <2> HIDE DEF s
  <2>5. ret' = GetsFirst(rows)
    <3>1. CASE s = <<>>
      <4>1. Range(<<>>) = {}
        BY DEF Range
      <4>2. rows = {}
        BY <2>3, <2>4, <3>1, <4>1 DEF SlotRows
      <4> QED BY <2>1, <3>1, <4>2 DEF GetsFirst
    <3>2. CASE s # <<>>
      <4>1. s[1] \in Range(s) /\ Range(s) \in SUBSET Vals /\ \A v \in Range(s) : v = s[1] \/ s[1] < v
        BY <2>4, <3>2, OrderedTail
      <4> HIDE DEF rows
      <4>2. rows \in SUBSET RowSet /\ Row(n, k, s[1]) \in rows
        BY <2>3, <2>4, <4>1 DEF SlotRows, Row, RowSet
      <4>3. \A r \in rows \ {Row(n, k, s[1])} : Store!RowBefore(Row(n, k, s[1]), r)
        BY <2>3, <2>4, <4>1 DEF SlotRows, Row, Store!RowBefore
      <4>4. Store!First(rows) = Row(n, k, s[1])
        BY <4>2, <4>3, FirstIs
      <4> QED BY <2>1, <3>2, <4>2, <4>4 DEF GetsFirst
    <3> QED BY <3>1, <3>2
  <2>6. RowsOf(work)' = RowsOf(work) /\ RedbGood(base') /\ RedbGood(work')
    BY <2>1, RedbOpened
  <2>7. Pending' = Pending
    BY <2>1, RedbViews
  <2>8. TxInv' /\ RedbInv'
    BY <2>1, <2>6, TxStays DEF RedbStep, RedbInv, TxInv, Redb!NoIter
  <2>9. Store!Get(n, k)
    BY <2>1, <2>5, <2>6, <2>7, GetMaps DEF RedbStep
  <2> QED BY <2>8, <2>9 DEF Keeps
<1> QED BY <1>2, <1>3

\* Opening an iterator on a table.
LEMMA RedbScans ==
  ASSUME RedbStep, NEW n \in Names, NEW lo, NEW hi, NEW it, Redb!Iterate(n, it),
         it \in RedbIters, RestOK(it.rest), CurrentOK(it.current, it.rest),
         RedbPending([it EXCEPT !.open = TRUE, !.table = n]) = Store!RowsIn(RowsOf(work), n, lo, hi)
  PROVE  Keeps(RedbInv, Store!Scan(n, lo, hi) \/ Store!NoSuchTable(n))
<1>1. \/ RedbRefuses(n)
      \/ /\ Reading /\ ~iter.open /\ (tx = "write" \/ (tx = "read" /\ n \in DOMAIN work))
         /\ work' = Redb!Opened(n) /\ UNCHANGED <<tx, base>>
         /\ iter' = [it EXCEPT !.open = TRUE, !.table = n] /\ ret' = Ret("ok")
  BY RedbHelpers DEF Redb!Iterate, Redb!OnTable, Redb!Answers, RedbRefuses, Reading
<1>2. CASE RedbRefuses(n)
  BY <1>2, RedbNoTable DEF Keeps
<1>3. CASE ~RedbRefuses(n)
  <2>1. /\ Reading /\ ~iter.open /\ (tx = "write" \/ (tx = "read" /\ n \in DOMAIN work))
        /\ work' = Redb!Opened(n) /\ UNCHANGED <<tx, base>>
        /\ iter' = [it EXCEPT !.open = TRUE, !.table = n] /\ ret' = Ret("ok")
    BY <1>1, <1>3
  <2>2. /\ iter' \in RedbIters /\ iter'.open = TRUE /\ iter'.table = n
        /\ iter'.current = it.current /\ iter'.rest = it.rest
    <3>1. n \in Nat
      BY ValsNat
    <3> QED BY <2>1, <3>1 DEF RedbIters
  <2>3. RedbIterOK(iter')
    BY <2>2 DEF RedbIterOK
  <2>4. RowsOf(work)' = RowsOf(work) /\ RedbGood(base') /\ RedbGood(work')
    BY <2>1, RedbOpened
  <2>5. Pending' = Store!RowsIn(RowsOf(work), n, lo, hi)
    BY <2>1, RedbViews
  <2>6. TxInv' /\ RedbInv'
    BY <2>1, <2>2, <2>3, <2>4, TxStays DEF RedbStep, RedbInv
  <2>7. Store!Scan(n, lo, hi)
    BY <2>1, <2>2, <2>4, <2>5, ScanMaps DEF RedbStep
  <2> QED BY <2>6, <2>7 DEF Keeps
<1> QED BY <1>2, <1>3

\* The iterators that range and get_all open.
LEMMA RestIter ==
  ASSUME NEW rest, RestOK(rest), NEW n \in Names,
         NEW it, it = [Redb!NoIter EXCEPT !.rest = rest]
  PROVE  /\ it \in RedbIters /\ RestOK(it.rest) /\ CurrentOK(it.current, it.rest)
         /\ RedbPending([it EXCEPT !.open = TRUE, !.table = n]) = RowsOfAll(n, Range(rest))
<1>1. /\ it \in RedbIters /\ it.rest = rest /\ it.current = <<>>
  BY DEF Redb!NoIter, RedbIters, RestOK
<1> DEFINE jt == [it EXCEPT !.open = TRUE, !.table = n]
<1>2. jt \in RedbIters /\ jt.open = TRUE /\ jt.table = n /\ jt.rest = rest /\ jt.current = <<>>
  BY <1>1, ValsNat DEF RedbIters
<1> HIDE DEF jt
<1>3. RedbIterOK(jt)
  BY <1>2 DEF RedbIterOK, CurrentOK
<1>4. RedbPending(jt) = RowsOfAll(n, Range(rest))
  BY <1>2, <1>3, PendingIs
<1> QED BY <1>1, <1>4 DEF jt, CurrentOK

\* The iterator get_all of a multimap opens: the values of one key.
LEMMA CurrentIter ==
  ASSUME NEW e, KeyEntry(e), NEW n \in Names,
         NEW it, it = [Redb!NoIter EXCEPT !.current = e]
  PROVE  /\ it \in RedbIters /\ RestOK(it.rest) /\ CurrentOK(it.current, it.rest)
         /\ RedbPending([it EXCEPT !.open = TRUE, !.table = n]) = EntryRowsOf(n, e)
<1>1. DOMAIN <<>> = {} /\ RestOK(<<>>) /\ Range(<<>>) = {}
  BY DEF RestOK, Range
<1>2. /\ it \in RedbIters /\ it.rest = <<>> /\ it.current = e /\ e # <<>>
  <2>1. e \in Keys \X Seq(Vals)
    BY DEF KeyEntry
  <2>2. e # <<>>
    <3>1. PICK k \in Keys, s \in Seq(Vals) : e = <<k, s>>
      BY <2>1
    <3>2. Len(<<k, s>>) = 2 /\ Len(<<>>) = 0
      OBVIOUS
    <3> QED BY <3>1, <3>2
  <2>3. it.open = FALSE /\ it.table = 0 /\ it.rest = <<>> /\ it.current = e
    BY DEF Redb!NoIter
  <2>4. it = [open |-> FALSE, table |-> 0, current |-> e, rest |-> <<>>]
    BY DEF Redb!NoIter
  <2> DEFINE C == {<<>>} \cup (Keys \X Seq(Vals))
             R == Seq(Keys \X Seq(Vals))
  <2>5. e \in C /\ <<>> \in R /\ RedbIters = [open : BOOLEAN, table : Nat, current : C, rest : R]
    BY <2>1 DEF RedbIters
  <2> HIDE DEF C, R
  <2>6. it \in RedbIters
    <3>1. \A c \in C : [open |-> FALSE, table |-> 0, current |-> c, rest |-> <<>>]
                        \in [open : BOOLEAN, table : Nat, current : C, rest : R]
      <4>1. <<>> \in R
        BY <2>5
      <4> DEFINE nothing == <<>>
      <4>2. nothing \in R
        BY <4>1
      <4> HIDE DEF nothing
      <4>3. \A c \in C : [open |-> FALSE, table |-> 0, current |-> c, rest |-> nothing]
                          \in [open : BOOLEAN, table : Nat, current : C, rest : R]
        BY <4>2
      <4> QED BY <4>3 DEF nothing
    <3> QED BY <2>4, <2>5, <3>1
  <2> QED BY <2>2, <2>3, <2>6
<1> DEFINE jt == [it EXCEPT !.open = TRUE, !.table = n]
<1>3. jt \in RedbIters /\ jt.open = TRUE /\ jt.table = n /\ jt.rest = <<>> /\ jt.current = e
  BY <1>2, ValsNat DEF RedbIters
<1> HIDE DEF jt
<1>4. RedbIterOK(jt)
  BY <1>1, <1>3 DEF RedbIterOK, CurrentOK
<1>5. RedbPending(jt) = EntryRowsOf(n, e)
  <2>1. RowsOfAll(n, {}) = {}
    BY DEF RowsOfAll
  <2> QED BY <1>1, <1>2, <1>3, <1>4, <2>1, PendingIs
<1> QED BY <1>1, <1>2, <1>5 DEF jt, CurrentOK

\* range of the redb backend finds the keys between the bounds.
LEMMA RedbRanges ==
  ASSUME RedbStep, NEW n \in Names, NEW lo \in Bounds, NEW hi \in Bounds, Redb!range(n, lo, hi)
  PROVE  Keeps(RedbInv, Store!Scan(n, lo, hi) \/ Store!NoSuchTable(n))
<1> DEFINE rest == Redb!Entries(n, lo, hi)
           it == [Redb!NoIter EXCEPT !.rest = rest]
<1>1. Redb!Iterate(n, it)
  BY DEF Redb!range
<1>2. RedbGood(work) /\ RowsOf(work) = Redb!RowsOf(work)
  BY RedbViews DEF RedbStep, RedbInv
<1>3. RestOK(rest) /\ RowsOfAll(n, Range(rest)) = Store!RowsIn(RowsOf(work), n, lo, hi)
  BY <1>2, EntriesIs
<1> HIDE DEF rest
<1>4. /\ it \in RedbIters /\ RestOK(it.rest) /\ CurrentOK(it.current, it.rest)
      /\ RedbPending([it EXCEPT !.open = TRUE, !.table = n]) = RowsOfAll(n, Range(rest))
  BY <1>3, RestIter
<1> HIDE DEF it
<1> QED BY <1>1, <1>3, <1>4, RedbScans

\* get_all of the redb backend finds the values of the key.
LEMMA RedbGetsAll ==
  ASSUME RedbStep, NEW n \in Names, NEW k \in Keys, Redb!get_all(n, k)
  PROVE  Keeps(RedbInv, Store!Scan(n, Store!Exactly(k), Store!Exactly(k)) \/ Store!NoSuchTable(n))
<1>1. RedbGood(work) /\ RowsOf(work) = Redb!RowsOf(work)
  BY RedbViews DEF RedbStep, RedbInv
<1>2. CASE n \in PlainTables
  <2> DEFINE rest == Redb!Entries(n, Included(k), Included(k))
             it == [Redb!NoIter EXCEPT !.rest = rest]
  <2>1. Redb!Iterate(n, it)
    BY <1>2, RedbOrders DEF Redb!get_all, Redb!range
  <2>2. Included(k) \in Bounds
    BY DEF Bounds
  <2>3. /\ RestOK(rest)
        /\ RowsOfAll(n, Range(rest)) = Store!RowsIn(RowsOf(work), n, Included(k), Included(k))
    BY <1>1, <2>2, EntriesIs
  <2> HIDE DEF rest
  <2>4. Store!RowsIn(RowsOf(work), n, Included(k), Included(k))
          = Store!RowsIn(RowsOf(work), n, Store!Exactly(k), Store!Exactly(k))
    <3>1. \A l \in Nat : Store!AboveLo(Included(k), l) /\ Store!BelowHi(Included(k), l) <=> l = k
      BY ValsNat DEF Included, Store!AboveLo, Store!BelowHi
    <3>2. \A r \in RowsOf(work) : r.key \in Nat
      <4>1. RedbGood(work)
        BY <1>1
      <4>2. Redb!RowsOf(work) \in SUBSET RowSet
        BY <4>1, RedbHas
      <4>3. RowsOf(work) \in SUBSET RowSet
        BY <1>1, <4>2
      <4>4. \A r \in RowSet : r.key \in Nat
        BY ValsNat DEF RowSet
      <4> QED BY <4>3, <4>4
    <3>3. Store!RowsIn(RowsOf(work), n, Included(k), Included(k)) = Store!RowsAt(RowsOf(work), n, k)
      BY <3>1, <3>2 DEF Store!RowsIn, Store!RowsAt
    <3> QED BY <3>3, RowsAtExactly
  <2>5. /\ it \in RedbIters /\ RestOK(it.rest) /\ CurrentOK(it.current, it.rest)
        /\ RedbPending([it EXCEPT !.open = TRUE, !.table = n]) = RowsOfAll(n, Range(rest))
    BY <2>3, RestIter
  <2> HIDE DEF it
  <2> QED BY <2>1, <2>3, <2>4, <2>5, RedbScans
<1>3. CASE n \notin PlainTables
  <2> DEFINE t == Redb!Opened(n)[n]
             e == <<k, Redb!ValuesAt(t, k)>>
             it == [Redb!NoIter EXCEPT !.current = e]
  <2>1. Redb!Iterate(n, it)
    BY <1>3 DEF Redb!get_all
  <2>2. TableOK(n, t) /\ Store!RowsAt(RowsOf(work), n, k) = SlotRows(n, k, ValuesOf(t, k))
    BY <1>1, OpenedIs
  <2> HIDE DEF t
  <2>3. Ordered(Redb!ValuesAt(t, k)) /\ Range(Redb!ValuesAt(t, k)) = ValuesOf(t, k)
    BY <2>2, ValuesAtIs
  <2>4. KeyEntry(e) /\ e[1] = k /\ e[2] = Redb!ValuesAt(t, k)
    BY <2>3 DEF KeyEntry, Ordered
  <2> HIDE DEF e
  <2>5. EntryRowsOf(n, e)
          = Store!RowsIn(RowsOf(work), n, Store!Exactly(k), Store!Exactly(k))
    BY <2>2, <2>3, <2>4, RowsAtExactly DEF EntryRowsOf
  <2>6. /\ it \in RedbIters /\ RestOK(it.rest) /\ CurrentOK(it.current, it.rest)
        /\ RedbPending([it EXCEPT !.open = TRUE, !.table = n]) = EntryRowsOf(n, e)
    BY <2>4, CurrentIter
  <2> HIDE DEF it
  <2> QED BY <2>1, <2>5, <2>6, RedbScans
<1> QED BY <1>2, <1>3

\* Yielding the first value of the first entry that has any.
LEMMA RedbYields ==
  ASSUME RedbStep, Scanning, NEW e, KeyEntry(e), e[2] # <<>>,
         NEW rest, RestOK(rest), \A i \in DOMAIN rest : e[1] < rest[i][1],
         Pending = EntryRowsOf(iter.table, e) \cup RowsOfAll(iter.table, Range(rest)),
         ret' = RetRow(Row(iter.table, e[1], Head(e[2]))),
         iter' = [iter EXCEPT !.current = <<e[1], Tail(e[2])>>, !.rest = rest],
         UNCHANGED <<tx, base, work>>
  PROVE  Keeps(RedbInv, Store!ScanNext)
<1> DEFINE n == iter.table
           left == <<e[1], Tail(e[2])>>
           row == Row(n, e[1], Head(e[2]))
           others == RowsOfAll(n, Range(rest))
<1>1. /\ iter.open /\ Reading /\ n \in Names /\ iter \in RedbIters /\ RedbIterOK(iter)
      /\ e[1] \in Keys /\ Ordered(e[2]) /\ e \in Keys \X Seq(Vals)
  BY DEF Scanning, RedbStep, RedbInv, RedbIterOK, KeyEntry
<1>2. Ordered(Tail(e[2]))
  BY <1>1, OrderedTail
<1>3. left \in Keys \X Seq(Vals) /\ left[1] = e[1] /\ left[2] = Tail(e[2])
  BY <1>1, <1>2 DEF Ordered
<1>4. left # <<>>
  <2>1. Len(<<e[1], Tail(e[2])>>) = 2 /\ Len(<<>>) = 0
    OBVIOUS
  <2> QED BY <2>1
<1>5. others \in SUBSET RowSet /\ \A r \in others : e[1] < r.key
  BY <1>1, RowsAfter
<1> HIDE DEF others
<1>6. /\ row \in EntryRowsOf(n, e) \cup others
      /\ Store!First(EntryRowsOf(n, e) \cup others) = row
      /\ (EntryRowsOf(n, e) \cup others) \ {row} = EntryRowsOf(n, left) \cup others
  <2>1. n \in Names /\ KeyEntry(e) /\ e[2] # <<>>
    BY <1>1
  <2> HIDE DEF n
  <2>2. LET rows == EntryRowsOf(n, e) \cup others
            first == Row(n, e[1], Head(e[2]))
        IN  /\ first \in rows /\ Store!First(rows) = first
            /\ rows \ {first} = EntryRowsOf(n, <<e[1], Tail(e[2])>>) \cup others
    BY <1>5, <2>1, NextRowIs
  <2> QED BY <2>2
<1>7. /\ iter' \in RedbIters /\ iter'.open = TRUE /\ iter'.table = n
      /\ iter'.current = left /\ iter'.rest = rest
  <2> DEFINE C == {<<>>} \cup (Keys \X Seq(Vals))
             R == Seq(Keys \X Seq(Vals))
  <2>1. /\ left \in C /\ rest \in R
        /\ RedbIters = [open : BOOLEAN, table : Nat, current : C, rest : R]
    BY <1>3 DEF RedbIters, RestOK
  <2> HIDE DEF C, R, left
  <2>2. iter' = [iter EXCEPT !.current = left, !.rest = rest]
    BY DEF left
  <2> QED BY <1>1, <2>1, <2>2
<1> HIDE DEF left
<1>8. KeyEntry(left) /\ CurrentOK(left, rest)
  BY <1>2, <1>3 DEF KeyEntry, CurrentOK
<1>9. RedbIterOK(iter')
  BY <1>1, <1>7, <1>8 DEF RedbIterOK
<1>10. Pending' = EntryRowsOf(n, left) \cup others
  <2>1. RedbPending(iter') = EntryRowsOf(n, left) \cup others
    BY <1>4, <1>7, <1>9, PendingIs DEF others, left
  <2> QED BY <2>1, RedbViews
<1>11. RowsOf(work)' = RowsOf(work)
  BY RedbViews
<1>12. TxInv'
  BY <1>1, <1>7, <1>11, TxStays DEF RedbStep
<1>13. RedbInv'
  BY <1>7, <1>9 DEF RedbStep, RedbInv
<1>14. /\ Pending # {} /\ ret' = RetRow(Store!First(Pending))
       /\ Pending' = Pending \ {Store!First(Pending)}
  BY <1>6, <1>10 DEF others
<1>15. Store!ScanNext
  BY <1>7, <1>14, ScanNextMaps DEF RedbStep
<1> QED BY <1>12, <1>13, <1>15 DEF Keeps

\* next of the redb backend: the current key's next value, or the next key's
\* first.
LEMMA RedbNexts == RedbStep /\ Redb!next => Keeps(RedbInv, Store!ScanNext)
<1> SUFFICES ASSUME RedbStep, Redb!next PROVE Keeps(RedbInv, Store!ScanNext)
  OBVIOUS
<1> DEFINE n == iter.table
           more == iter.current # <<>> /\ iter.current[2] # <<>>
           at == IF more THEN iter.current ELSE Head(iter.rest)
<1>1. /\ Scanning /\ UNCHANGED <<tx, base, work>>
      /\ IF more \/ iter.rest # <<>>
           THEN /\ ret' = RetRow(Row(n, at[1], Head(at[2])))
                /\ iter' = [iter EXCEPT !.current = <<at[1], Tail(at[2])>>,
                                        !.rest = IF more THEN iter.rest ELSE Tail(iter.rest)]
           ELSE ret' = Ret("end") /\ UNCHANGED iter
  BY RedbHelpers DEF Redb!next
<1>2. /\ RedbIterOK(iter) /\ RestOK(iter.rest) /\ CurrentOK(iter.current, iter.rest)
      /\ iter.open /\ n \in Names /\ Reading
  BY <1>1 DEF RedbStep, RedbInv, RedbIterOK, Scanning
<1>3. Pending = RedbPending(iter) /\ RowsOf(work)' = RowsOf(work)
  BY <1>1, RedbViews
<1>4. CASE more
  <2>1. /\ KeyEntry(iter.current) /\ iter.current[2] # <<>>
        /\ \A i \in DOMAIN iter.rest : iter.current[1] < iter.rest[i][1]
    BY <1>2, <1>4 DEF CurrentOK
  <2>2. Pending = EntryRowsOf(n, iter.current) \cup RowsOfAll(n, Range(iter.rest))
    BY <1>2, <1>3, <1>4, PendingIs
  <2>3. /\ ret' = RetRow(Row(n, iter.current[1], Head(iter.current[2])))
        /\ iter' = [iter EXCEPT !.current = <<iter.current[1], Tail(iter.current[2])>>,
                                !.rest = iter.rest]
    BY <1>1, <1>4
  <2> QED BY <1>1, <1>2, <2>1, <2>2, <2>3, RedbYields
<1>5. ASSUME ~more PROVE Pending = RowsOfAll(n, Range(iter.rest))
  <2>1. CASE iter.current = <<>>
    BY <1>2, <1>3, <2>1, PendingIs
  <2>2. CASE iter.current # <<>>
    <3>1. EntryRowsOf(n, iter.current) = {}
      <4>1. iter.current[2] = <<>> /\ Range(<<>>) = {}
        BY <1>5, <2>2 DEF Range
      <4>2. SlotRows(n, iter.current[1], {}) = {}
        BY DEF SlotRows
      <4> QED BY <4>1, <4>2 DEF EntryRowsOf
    <3> QED BY <1>2, <1>3, <2>2, <3>1, PendingIs
  <2> QED BY <2>1, <2>2
<1>6. CASE ~more /\ iter.rest # <<>>
  <2> DEFINE e == Head(iter.rest)
             rest == Tail(iter.rest)
  <2>1. /\ KeyEntry(e) /\ e[2] # <<>> /\ RestOK(rest)
        /\ \A i \in DOMAIN rest : e[1] < rest[i][1]
        /\ RowsOfAll(n, Range(iter.rest)) = EntryRowsOf(n, e) \cup RowsOfAll(n, Range(rest))
    BY <1>2, <1>6, RestTail
  <2>2. /\ ret' = RetRow(Row(n, e[1], Head(e[2])))
        /\ iter' = [iter EXCEPT !.current = <<e[1], Tail(e[2])>>, !.rest = rest]
    BY <1>1, <1>6
  <2> HIDE DEF e, rest
  <2>3. Pending = EntryRowsOf(n, e) \cup RowsOfAll(n, Range(rest))
    BY <1>5, <1>6, <2>1
  <2> QED BY <1>1, <2>1, <2>2, <2>3, RedbYields
<1>7. CASE ~more /\ iter.rest = <<>>
  <2>1. iter' = iter /\ ret' = Ret("end")
    BY <1>1, <1>7
  <2>2. Pending = {}
    <3>1. Range(<<>>) = {} /\ RowsOfAll(n, {}) = {}
      BY DEF Range, RowsOfAll
    <3> QED BY <1>5, <1>7, <3>1
  <2>3. Pending' = {}
    BY <1>3, <2>1, <2>2, RedbViews
  <2>4. TxInv'
    BY <1>1, <1>2, <1>3, <2>1, TxStays DEF RedbStep
  <2>5. RedbInv'
    BY <1>1, <2>1 DEF RedbStep, RedbInv, Redb!NoIter
  <2>6. Store!ScanNext
    BY <1>1, <1>2, <2>1, <2>2, <2>3, ScanNextMaps DEF RedbStep
  <2> QED BY <2>4, <2>5, <2>6 DEF Keeps
<1> QED BY <1>4, <1>6, <1>7

\* The redb backend's iterator dropped.
LEMMA RedbEndsScan == RedbStep /\ Redb!EndScan => Keeps(RedbInv, Store!EndScan)
<1> SUFFICES ASSUME RedbStep, Redb!EndScan PROVE Keeps(RedbInv, Store!EndScan)
  OBVIOUS
<1>1. /\ Scanning /\ Reading /\ UNCHANGED <<tx, base, work>> /\ iter' = Redb!NoIter
      /\ ret' = Ret("ok") /\ iter'.open = FALSE
  BY RedbHelpers, RedbStarts DEF Redb!EndScan, Scanning
<1>2. RowsOf(work)' = RowsOf(work)
  BY <1>1, RedbViews
<1>3. TxInv' /\ RedbInv'
  BY <1>1, <1>2, RedbStarts, TxStays DEF RedbStep, RedbInv, Redb!NoIter
<1> QED BY <1>1, <1>3, EndScanMaps DEF RedbStep, Keeps

\* A write that stages a table in form.
LEMMA RedbStages ==
  ASSUME RedbStep, NEW n \in Names, NEW t, NEW r, Redb!Stage(n, t, r), TableOK(n, t)
  PROVE  /\ TxInv' /\ RedbInv' /\ Writes(RowsOf(work)', r)
         /\ RowsOf(work) \in SUBSET RowSet /\ RowsOf(work)' \in SUBSET RowSet
         /\ \A row \in RowSet :
              /\ row.name = n =>
                   (row \in RowsOf(work) <=> row.val \in ValuesOf(Redb!Opened(n)[n], row.key))
              /\ row \in RowsOf(work)' <=>
                   IF row.name = n THEN row.val \in ValuesOf(t, row.key) ELSE row \in RowsOf(work)
<1>1. /\ Writing /\ Reading /\ UNCHANGED <<tx, base, iter>> /\ ret' = r /\ tx = "write"
      /\ work' = [Redb!Opened(n) EXCEPT ![n] = t]
  BY RedbHelpers DEF Redb!Stage, Writing, Reading
<1>2. RedbGood(work) /\ RowsOf(work) = Redb!RowsOf(work) /\ RowsOf(work)' = Redb!RowsOf(work')
  BY RedbViews DEF RedbStep, RedbInv
<1>3. RedbGood(work)
  BY <1>2
<1>4. /\ DOMAIN Redb!Opened(n) = DOMAIN work \cup {n}
      /\ \A m \in DOMAIN work : Redb!Opened(n)[m] = work[m]
      /\ \A row \in RowSet : row.name = n =>
           (row \in Redb!RowsOf(work) <=> row.val \in ValuesOf(Redb!Opened(n)[n], row.key))
  BY <1>3, OpenedIs
<1>5. /\ DOMAIN work' = DOMAIN work \cup {n} /\ work'[n] = t
      /\ \A m \in DOMAIN work : m # n => work'[m] = work[m]
  BY <1>1, <1>4
<1>6. /\ RedbGood(work')
      /\ \A row \in RowSet : row \in Redb!RowsOf(work') <=>
           IF row.name = n THEN row.val \in ValuesOf(t, row.key) ELSE row \in Redb!RowsOf(work)
  BY <1>3, <1>5, PutRedbTable
<1>7. TxInv'
  BY <1>1, TxStays DEF RedbStep, TxInv
<1>8. RedbInv'
  BY <1>1, <1>6 DEF RedbStep, RedbInv, Redb!NoIter
<1>9. Redb!RowsOf(work) \in SUBSET RowSet
  BY <1>3, RedbHas
<1>10. Redb!RowsOf(work') \in SUBSET RowSet
  BY <1>6, RedbHas
<1>11. Writes(RowsOf(work)', r)
  BY <1>1 DEF Writes, RedbStep
<1> QED BY <1>2, <1>4, <1>6, <1>7, <1>8, <1>9, <1>10, <1>11

\* A write that sets the values of one key.
LEMMA RedbPuts ==
  ASSUME RedbStep, NEW n \in Names, NEW k \in Keys, NEW values, NEW r,
         Redb!Stage(n, Redb!With(n, k, values), r), values = {} \/ ValsOK(n, values)
  PROVE  /\ TxInv' /\ RedbInv' /\ Writes(RowsOf(work)', r)
         /\ RowsOf(work) \in SUBSET RowSet /\ RowsOf(work)' \in SUBSET RowSet
         /\ \A row \in RowSet : row \in RowsOf(work)' <=>
              IF row.name = n /\ row.key = k THEN row.val \in values ELSE row \in RowsOf(work)
<1> DEFINE t == Redb!With(n, k, values)
<1>1. RedbGood(work)
  BY DEF RedbStep, RedbInv
<1>2. /\ TableOK(n, t)
      /\ \A l : ValuesOf(t, l) = IF l = k THEN values ELSE ValuesOf(Redb!Opened(n)[n], l)
  BY <1>1, WithIs
<1> HIDE DEF t
<1>3. /\ TxInv' /\ RedbInv' /\ Writes(RowsOf(work)', r)
      /\ RowsOf(work) \in SUBSET RowSet /\ RowsOf(work)' \in SUBSET RowSet
      /\ \A row \in RowSet :
              /\ row.name = n =>
                   (row \in RowsOf(work) <=> row.val \in ValuesOf(Redb!Opened(n)[n], row.key))
              /\ row \in RowsOf(work)' <=>
                   IF row.name = n THEN row.val \in ValuesOf(t, row.key) ELSE row \in RowsOf(work)
  BY <1>2, RedbStages DEF t
<1> QED BY <1>2, <1>3

\* The values of a key are those of its rows.
LEMMA AtIs ==
  ASSUME RedbStep, NEW n \in Names, NEW k \in Keys
  PROVE  /\ Redb!At(n, k) \in SUBSET Vals /\ IsFiniteSet(Redb!At(n, k))
         /\ Redb!At(n, k) = {} \/ ValsOK(n, Redb!At(n, k))
         /\ \A row \in RowSet : row.name = n /\ row.key = k =>
              (row \in RowsOf(work) <=> row.val \in Redb!At(n, k))
<1> DEFINE t == Redb!Opened(n)[n]
<1>1. RedbGood(work) /\ RowsOf(work) = Redb!RowsOf(work)
  BY RedbViews DEF RedbStep, RedbInv
<1>2. RedbGood(work)
  BY <1>1
<1>3. /\ TableOK(n, t)
      /\ \A row \in RowSet : row.name = n =>
           (row \in Redb!RowsOf(work) <=> row.val \in ValuesOf(t, row.key))
  BY <1>2, OpenedIs
<1>4. Redb!At(n, k) = Range(Redb!ValuesAt(t, k))
  BY RedbHelpers DEF Redb!At
<1> HIDE DEF t
<1>5. Redb!At(n, k) = ValuesOf(t, k)
  BY <1>3, <1>4, ValuesAtIs
<1>6. /\ ValuesOf(t, k) \in SUBSET Vals /\ IsFiniteSet(ValuesOf(t, k))
      /\ ValuesOf(t, k) = {} \/ ValsOK(n, ValuesOf(t, k))
  BY <1>3, FS_EmptySet DEF ValuesOf, TableOK, ValsOK
<1> QED BY <1>1, <1>3, <1>5, <1>6

\* insert of the redb backend replaces a plain key's value, adds to a
\* multimap's.
LEMMA RedbInserts ==
  ASSUME RedbStep, NEW n \in Names, NEW k \in Keys, NEW v \in Vals, Redb!insert(n, k, v)
  PROVE  Keeps(RedbInv, IF n \in PlainTables THEN Store!InsertPlain(n, k, v)
                                             ELSE Store!InsertMulti(n, k, v))
<1> DEFINE A == Redb!At(n, k)
           values == IF n \in PlainTables THEN {v} ELSE A \cup {v}
<1>1. Redb!Stage(n, Redb!With(n, k, values), Ret("ok"))
  BY RedbHelpers DEF Redb!insert
<1>2. /\ A \in SUBSET Vals /\ IsFiniteSet(A)
      /\ \A row \in RowSet : row.name = n /\ row.key = k => (row \in RowsOf(work) <=> row.val \in A)
  BY AtIs
<1>3. ValsOK(n, values)
  <2>1. IsFiniteSet({v}) /\ IsFiniteSet(A \cup {v})
    BY <1>2, FS_Singleton, FS_AddElement
  <2> QED BY <1>2, <2>1 DEF ValsOK
<1> HIDE DEF A
<1>4. /\ n \in PlainTables => values = {v}
      /\ n \notin PlainTables => values = A \cup {v}
  OBVIOUS
<1> HIDE DEF values
<1>5. /\ TxInv' /\ RedbInv' /\ Writes(RowsOf(work)', Ret("ok"))
      /\ RowsOf(work) \in SUBSET RowSet /\ RowsOf(work)' \in SUBSET RowSet
      /\ \A row \in RowSet : row \in RowsOf(work)' <=>
           IF row.name = n /\ row.key = k THEN row.val \in values ELSE row \in RowsOf(work)
  BY <1>1, <1>3, RedbPuts
<1>6. /\ Row(n, k, v) \in RowSet
      /\ \A r \in RowSet : r = Row(n, k, v) <=> r.name = n /\ r.key = k /\ r.val = v
  BY DEF Row, RowSet
<1>7. CASE n \in PlainTables
  <2>1. RowsOf(work)' = (RowsOf(work) \ Store!RowsAt(RowsOf(work), n, k)) \cup {Row(n, k, v)}
    <3>1. ASSUME NEW r \in RowSet
          PROVE  r \in RowsOf(work)' <=>
                   r \in (RowsOf(work) \ Store!RowsAt(RowsOf(work), n, k)) \cup {Row(n, k, v)}
      BY <1>4, <1>5, <1>6, <1>7 DEF Store!RowsAt
    <3> QED BY <1>5, <1>6, <3>1
  <2>2. Writes((RowsOf(work) \ Store!RowsAt(RowsOf(work), n, k)) \cup {Row(n, k, v)}, Ret("ok"))
    BY <1>5, <2>1
  <2>3. FinitelyManyRows => Store!InsertPlain(n, k, v)
    BY <1>5, <2>2, InsertPlainMaps
  <2> QED BY <1>5, <1>7, <2>3 DEF Keeps
<1>8. CASE n \notin PlainTables
  <2>1. RowsOf(work)' = RowsOf(work) \cup {Row(n, k, v)}
    <3>1. ASSUME NEW r \in RowSet
          PROVE  r \in RowsOf(work)' <=> r \in RowsOf(work) \cup {Row(n, k, v)}
      BY <1>2, <1>4, <1>5, <1>6, <1>8
    <3> QED BY <1>5, <1>6, <3>1
  <2>2. Writes(RowsOf(work) \cup {Row(n, k, v)}, Ret("ok"))
    BY <1>5, <2>1
  <2>3. FinitelyManyRows => Store!InsertMulti(n, k, v)
    BY <1>5, <2>2, InsertMultiMaps
  <2> QED BY <1>5, <1>8, <2>3 DEF Keeps
<1> QED BY <1>7, <1>8

\* remove of the redb backend takes the key out of its table.
LEMMA RedbRemoves ==
  ASSUME RedbStep, NEW n \in Names, NEW k \in Keys, Redb!remove(n, k)
  PROVE  Keeps(RedbInv, Store!Remove(n, k))
<1> DEFINE A == Redb!At(n, k)
           existed == A # {}
           at == Store!RowsAt(RowsOf(work), n, k)
<1>1. Redb!Stage(n, Redb!With(n, k, {}), Removed(existed))
  BY RedbHelpers DEF Redb!remove
<1>2. /\ A \in SUBSET Vals
      /\ \A row \in RowSet : row.name = n /\ row.key = k => (row \in RowsOf(work) <=> row.val \in A)
  BY AtIs
<1> HIDE DEF A
<1>3. existed \in BOOLEAN
  OBVIOUS
<1>4. existed => \E v \in Vals : Row(n, k, v) \in RowsOf(work)
  <2>1. ASSUME NEW v \in A PROVE Row(n, k, v) \in RowsOf(work)
    BY <1>2 DEF Row, RowSet
  <2> QED BY <1>2, <2>1
<1> DEFINE R == Removed(existed)
<1>5. Redb!Stage(n, Redb!With(n, k, {}), R)
  BY <1>1
<1> HIDE DEF R
<1>6. /\ TxInv' /\ RedbInv' /\ Writes(RowsOf(work)', R)
      /\ RowsOf(work) \in SUBSET RowSet /\ RowsOf(work)' \in SUBSET RowSet
      /\ \A row \in RowSet : row \in RowsOf(work)' <=>
           IF row.name = n /\ row.key = k THEN row.val \in {} ELSE row \in RowsOf(work)
  BY <1>5, RedbPuts
<1>7. RowsOf(work)' = RowsOf(work) \ at
  <2>1. ASSUME NEW r \in RowSet PROVE r \in RowsOf(work)' <=> r \in RowsOf(work) \ at
    BY <1>6 DEF Store!RowsAt
  <2> QED BY <1>6, <2>1
<1>8. existed <=> at # {}
  <2>1. ASSUME existed PROVE at # {}
    <3>1. \A v : Row(n, k, v).name = n /\ Row(n, k, v).key = k
      BY DEF Row
    <3> QED BY <1>4, <2>1, <3>1 DEF Store!RowsAt
  <2>2. ASSUME NEW r \in at PROVE existed
    BY <1>2, <1>6 DEF Store!RowsAt
  <2> QED BY <2>1, <2>2
<1> HIDE DEF existed
<1>9. Writes(RowsOf(work) \ Store!RowsAt(RowsOf(work), n, k), Removed(existed))
  BY <1>6, <1>7 DEF R
<1>10. Store!Remove(n, k)
  BY <1>3, <1>8, <1>9, RemoveMaps
<1> QED BY <1>6, <1>10 DEF Keeps

\* remove_value of the redb backend: the last value takes its key with it.
LEMMA RedbRemovesValue ==
  ASSUME RedbStep, NEW n \in Names, NEW k \in Keys, NEW v \in Vals, Redb!remove_value(n, k, v)
  PROVE  Keeps(RedbInv, IF n \in PlainTables THEN Store!RemoveValuePlain
                                             ELSE Store!RemoveValue(n, k, v))
<1>1. n \in PlainTables \/ (n \in MultiTables /\ n \notin PlainTables)
  BY TablesAssumption DEF Names
<1>2. CASE n \in PlainTables
  <2> DEFINE t == Redb!Opened(n)[n]
  <2>1. Redb!Stage(n, t, Ret("Unsupported"))
    BY <1>2, RedbHelpers, TablesAssumption DEF Redb!remove_value
  <2>2. RedbGood(work)
    BY DEF RedbStep, RedbInv
  <2>3. TableOK(n, t)
    BY <2>2, OpenedIs
  <2> HIDE DEF t
  <2>4. /\ TxInv' /\ RedbInv' /\ Writes(RowsOf(work)', Ret("Unsupported"))
        /\ RowsOf(work) \in SUBSET RowSet /\ RowsOf(work)' \in SUBSET RowSet
        /\ \A row \in RowSet :
             /\ row.name = n =>
                  (row \in RowsOf(work) <=> row.val \in ValuesOf(Redb!Opened(n)[n], row.key))
             /\ row \in RowsOf(work)' <=>
                  IF row.name = n THEN row.val \in ValuesOf(t, row.key) ELSE row \in RowsOf(work)
    BY <2>1, <2>3, RedbStages
  <2>5. RowsOf(work)' = RowsOf(work)
    <3>1. \A row \in RowSet : row \in RowsOf(work)' <=> row \in RowsOf(work)
      BY <2>4 DEF t
    <3> QED BY <2>4, <3>1
  <2>6. Writes(RowsOf(work), Ret("Unsupported"))
    BY <2>4, <2>5
  <2> QED BY <1>2, <2>4, <2>6, RemoveValuePlainMaps DEF Keeps
<1>3. CASE n \notin PlainTables
  <2> DEFINE A == Redb!At(n, k)
             existed == v \in A
             values == A \ {v}
  <2>1. Redb!Stage(n, Redb!With(n, k, values), Removed(existed))
    BY <1>3, RedbHelpers DEF Redb!remove_value
  <2>2. /\ A \in SUBSET Vals /\ IsFiniteSet(A)
        /\ \A row \in RowSet : row.name = n /\ row.key = k => (row \in RowsOf(work) <=> row.val \in A)
    BY AtIs
  <2>3. values = {} \/ ValsOK(n, values)
    <3>1. IsFiniteSet(A \ {v})
      BY <2>2, FS_RemoveElement
    <3> QED BY <1>3, <2>2, <3>1 DEF ValsOK
  <2> HIDE DEF A
  <2>4. existed \in BOOLEAN /\ values = A \ {v}
    OBVIOUS
  <2> DEFINE R == Removed(existed)
  <2>5. Redb!Stage(n, Redb!With(n, k, values), R)
    BY <2>1
  <2> HIDE DEF R, values
  <2>6. /\ TxInv' /\ RedbInv' /\ Writes(RowsOf(work)', R)
        /\ RowsOf(work) \in SUBSET RowSet /\ RowsOf(work)' \in SUBSET RowSet
        /\ \A row \in RowSet : row \in RowsOf(work)' <=>
             IF row.name = n /\ row.key = k THEN row.val \in values ELSE row \in RowsOf(work)
    BY <2>3, <2>5, RedbPuts
  <2>7. /\ Row(n, k, v) \in RowSet /\ Row(n, k, v).name = n /\ Row(n, k, v).key = k
        /\ Row(n, k, v).val = v
        /\ \A r \in RowSet : r = Row(n, k, v) <=> r.name = n /\ r.key = k /\ r.val = v
    BY DEF Row, RowSet
  <2>8. RowsOf(work)' = RowsOf(work) \ {Row(n, k, v)}
    <3>1. ASSUME NEW r \in RowSet PROVE r \in RowsOf(work)' <=> r \in RowsOf(work) \ {Row(n, k, v)}
      BY <2>2, <2>4, <2>6, <2>7
    <3> QED BY <2>6, <3>1
  <2>9. existed <=> Row(n, k, v) \in RowsOf(work)
    BY <2>2, <2>7
  <2> HIDE DEF existed
  <2>10. Writes(RowsOf(work) \ {Row(n, k, v)}, Removed(existed))
    BY <2>6, <2>8 DEF R
  <2>11. Store!RemoveValue(n, k, v)
    BY <2>4, <2>9, <2>10, RemoveValueMaps
  <2> QED BY <1>3, <2>6, <2>11 DEF Keeps
<1> QED BY <1>2, <1>3

\* Every call of the redb backend keeps its tables in form and is a call of the
\* abstract store.
LEMMA RedbCalls ==
  ASSUME RedbStep, Redb!Next
  PROVE  Keeps(RedbInv, Store!Call)
<1>1. CASE Redb!open
  BY <1>1, RedbOpens, CallsAre DEF Keeps
<1>2. CASE tx = "idle" /\ Redb!Gone("ok")
  BY <1>2, RedbGoes, CallsAre DEF Keeps
<1>3. CASE tx # "closed" /\ Redb!Gone("crashed")
  BY <1>3, RedbGoes, CallsAre DEF Keeps
<1>4. CASE Redb!read_transaction
  BY <1>4, RedbBegins, CallsAre DEF Keeps
<1>5. CASE Redb!write_transaction
  BY <1>5, RedbBegins, CallsAre DEF Keeps
<1>6. CASE Redb!commit
  BY <1>6, RedbEnds, CallsAre DEF Keeps
<1>7. ASSUME NEW r \in {"ok", "panic"}, Redb!Drop(r) PROVE Keeps(RedbInv, Store!Call)
  BY <1>7, RedbEnds, CallsAre DEF Keeps
<1>8. ASSUME NEW n \in Names, Redb!Lookups(n) PROVE Keeps(RedbInv, Store!Call)
  <2>1. ASSUME NEW k \in Keys, Redb!get(n, k) PROVE Keeps(RedbInv, Store!Call)
    BY <2>1, RedbGets, CallsOnTablesAre DEF Keeps
  <2>2. ASSUME NEW k \in Keys, Redb!get_all(n, k) PROVE Keeps(RedbInv, Store!Call)
    BY <2>2, RedbGetsAll, CallsOnTablesAre DEF Keeps
  <2>3. ASSUME NEW scan \in ScanRanges, Redb!range(n, scan[1], scan[2])
        PROVE  Keeps(RedbInv, Store!Call)
    <3>1. scan[1] \in Bounds /\ scan[2] \in Bounds
      BY ScanRangesAssumption
    <3>2. Keeps(RedbInv, Store!Scan(n, scan[1], scan[2]) \/ Store!NoSuchTable(n))
      BY <2>3, <3>1, RedbRanges
    <3> QED BY <3>2, CallsOnTablesAre DEF Keeps
  <2> QED BY <1>8, <2>1, <2>2, <2>3 DEF Redb!Lookups
<1>9. ASSUME NEW n \in Names, Redb!Updates(n) PROVE Keeps(RedbInv, Store!Call)
  <2>1. ASSUME NEW k \in Keys, Redb!remove(n, k) PROVE Keeps(RedbInv, Store!Call)
    BY <2>1, RedbRemoves, CallsOnTablesAre DEF Keeps
  <2>2. ASSUME NEW k \in Keys, NEW v \in Vals, Redb!insert(n, k, v)
        PROVE  Keeps(RedbInv, Store!Call)
    BY <2>2, RedbInserts, CallsOnTablesAre DEF Keeps
  <2>3. ASSUME NEW k \in Keys, NEW v \in Vals, Redb!remove_value(n, k, v)
        PROVE  Keeps(RedbInv, Store!Call)
    BY <2>3, RedbRemovesValue, CallsOnTablesAre DEF Keeps
  <2> QED BY <1>9, <2>1, <2>2, <2>3 DEF Redb!Updates
<1>10. ASSUME NEW n \in Names, Redb!Lookups(n) \/ Redb!Updates(n)
       PROVE  Keeps(RedbInv, Store!Call)
  BY <1>8, <1>9, <1>10
<1>11. CASE Redb!RedbReadTable \/ Redb!RedbWriteTable
  <2>1. PICK n \in PlainTables : Redb!Lookups(n) \/ Redb!Updates(n)
    BY <1>11 DEF Redb!RedbReadTable, Redb!RedbWriteTable
  <2>2. n \in Names
    BY DEF Names
  <2> QED BY <1>10, <2>1, <2>2
<1>12. CASE Redb!RedbReadMultimapTable \/ Redb!RedbWriteMultimapTable
  <2>1. PICK n \in MultiTables : Redb!Lookups(n) \/ Redb!Updates(n)
    BY <1>12 DEF Redb!RedbReadMultimapTable, Redb!RedbWriteMultimapTable
  <2>2. n \in Names
    BY DEF Names
  <2> QED BY <1>10, <2>1, <2>2
<1>13. CASE Redb!next
  BY <1>13, RedbNexts, CallsAre DEF Keeps
<1>14. CASE Redb!EndScan
  BY <1>14, RedbEndsScan, CallsAre DEF Keeps
<1> QED
  BY <1>1, <1>2, <1>3, <1>4, <1>5, <1>6, <1>7, <1>11, <1>12, <1>13, <1>14, RedbHelpers DEF Redb!Next

----------------------------------------------------------------------------
(* The theorems.                                                           *)

\* Whichever backend the store is, its data is in form.
BackendInv ==
  /\ backend \in {"memory", "fjall", "redb"}
  /\ TxInv
  /\ backend = "memory" => MemoryInv
  /\ backend = "fjall" => FjallInv
  /\ backend = "redb" => RedbInv

\* No store has rows before it is used.
LEMMA NoRowsAtFirst ==
  /\ Memory!RowsOf(<<>>) = {} /\ Fjall!RowsOf(Fjall!NoTables) = {} /\ Redb!RowsOf(<<>>) = {}
<1>1. Memory!RowsOf(<<>>) = {}
  BY EmptyMapGood
<1>2. Fjall!RowsOf(Fjall!NoTables) = {}
  <2>1. TablesGood(Fjall!NoTables)
    BY FjallStarts
  <2>2. /\ Fjall!RowsOf(Fjall!NoTables) \in SUBSET RowSet
        /\ \A r \in RowSet : r \in Fjall!RowsOf(Fjall!NoTables) <=> Holds(Fjall!NoTables[r.name], r)
    BY <2>1, FjallHas
  <2>3. \A r \in RowSet : ~Holds(Fjall!NoTables[r.name], r)
    <3>1. \A r \in RowSet : r.name \in Names
      BY DEF RowSet
    <3>2. \A n \in Names : Fjall!NoTables[n] = <<>>
      BY FjallHelpers DEF Fjall!NoTables
    <3>3. DOMAIN <<>> = {}
      OBVIOUS
    <3> QED BY <3>1, <3>2, <3>3 DEF Holds
  <2> QED BY <2>2, <2>3
<1>3. Redb!RowsOf(<<>>) = {}
  <2>1. DOMAIN <<>> = {}
    OBVIOUS
  <2> QED BY <2>1 DEF Redb!RowsOf
<1> QED BY <1>1, <1>2, <1>3

\* A fresh store's data is in form.
LEMMA InitKeeps == Init => BackendInv
<1> SUFFICES ASSUME Init PROVE BackendInv
  OBVIOUS
<1>1. CASE backend = "memory" /\ Memory!Init
  <2>1. base = <<>> /\ work = <<>> /\ iter = Memory!NoIter /\ tx = "closed"
    BY <1>1 DEF Memory!Init
  <2>2. RowsOf(base) = {}
    BY <1>1, <2>1, NoRowsAtFirst DEF RowsOf
  <2>3. MemoryInv
    BY <2>1, EmptyMapGood, NoIterOK DEF MemoryInv
  <2>4. TxInv
    BY <2>1, <2>2, NoIterOK DEF TxInv, Reading
  <2> QED BY <1>1, <2>3, <2>4 DEF BackendInv
<1>2. CASE backend = "fjall" /\ Fjall!Init
  <2>1. base = Fjall!NoTables /\ work = Fjall!NoTables /\ iter = Fjall!NoIter /\ tx = "closed"
    BY <1>2 DEF Fjall!Init
  <2>2. FjallInv
    BY <2>1, FjallStarts DEF FjallInv
  <2>3. TxInv
    BY <1>2, <2>1, FjallStarts DEF TxInv, Reading
  <2> QED BY <1>2, <2>2, <2>3 DEF BackendInv
<1>3. CASE backend = "redb" /\ Redb!Init
  <2>1. base = <<>> /\ work = <<>> /\ iter = Redb!NoIter /\ tx = "closed"
    BY <1>3 DEF Redb!Init
  <2>2. RedbInv
    BY <2>1, RedbStarts DEF RedbInv
  <2>3. TxInv
    BY <1>3, <2>1, RedbStarts DEF TxInv, Reading
  <2> QED BY <1>3, <2>2, <2>3 DEF BackendInv
<1> QED BY <1>1, <1>2, <1>3 DEF Init

\* A step that is a call keeps the invariant and is an abstract call.
LEMMA NextKeeps ==
  ASSUME BackendInv, Next
  PROVE  BackendInv' /\ (FinitelyManyRows => Store!Call)
<1>1. CASE backend = "memory" /\ Memory!Next
  <2>1. MemoryStep
    BY <1>1 DEF BackendInv, MemoryStep, Next
  <2>2. Keeps(MemoryInv, Store!Call)
    BY <1>1, <2>1, MemoryCalls
  <2> QED BY <1>1, <2>1, <2>2 DEF Keeps, BackendInv, MemoryStep
<1>2. CASE backend = "fjall" /\ Fjall!Next
  <2>1. FjallStep
    BY <1>2 DEF BackendInv, FjallStep, Next
  <2>2. Keeps(FjallInv, Store!Call)
    BY <1>2, <2>1, FjallCalls
  <2> QED BY <1>2, <2>1, <2>2 DEF Keeps, BackendInv, FjallStep
<1>3. CASE backend = "redb" /\ Redb!Next
  <2>1. RedbStep
    BY <1>3 DEF BackendInv, RedbStep, Next
  <2>2. Keeps(RedbInv, Store!Call)
    BY <1>3, <2>1, RedbCalls
  <2> QED BY <1>3, <2>1, <2>2 DEF Keeps, BackendInv, RedbStep
<1> QED BY <1>1, <1>2, <1>3 DEF Next

\* Nothing happening keeps the data in form.
LEMMA StutterKeeps == BackendInv /\ UNCHANGED vars => BackendInv'
<1> SUFFICES ASSUME BackendInv, UNCHANGED vars PROVE BackendInv'
  OBVIOUS
<1>1. UNCHANGED <<backend, tx, base, work, iter, ret>>
  BY DEF vars
<1>2. RowsOf(base)' = RowsOf(base) /\ RowsOf(work)' = RowsOf(work)
  BY <1>1 DEF RowsOf
<1>3. TxInv'
  BY <1>1, <1>2 DEF BackendInv, TxInv, Reading
<1>4. backend = "memory" => MemoryInv'
  BY <1>1 DEF BackendInv, MemoryInv, Memory!NoIter
<1>5. backend = "fjall" => FjallInv'
  BY <1>1 DEF BackendInv, FjallInv, Fjall!NoIter
<1>6. backend = "redb" => RedbInv'
  BY <1>1 DEF BackendInv, RedbInv, Redb!NoIter
<1> QED BY <1>1, <1>3, <1>4, <1>5, <1>6 DEF BackendInv

\* Whatever names, keys and values there are, the data of every backend is
\* always in the form BackendInv states, which its calls rely on and keep.  The
\* scans are those that end in their table: of a memory table whose name others
\* extend, those with an upper bound.
THEOREM AlwaysInForm == Spec => []BackendInv
<1>1. BackendInv /\ [Next]_vars => BackendInv'
  BY NextKeeps, StutterKeeps
<1> QED BY <1>1, InitKeeps, PTL DEF Spec

\* Whatever names, keys and values there are, every backend always keeps its
\* bytes in the form its readers rely on.
THEOREM TypeCorrect == Spec => []TypeOK
<1>1. BackendInv => TypeOK
  <2> SUFFICES ASSUME BackendInv PROVE TypeOK
    OBVIOUS
  <2>1. CASE backend = "memory"
    <3>1. Memory!MapOK(base) /\ Memory!MapOK(work)
      BY <2>1 DEF BackendInv, MemoryInv, MapGood
    <3>2. iter.rows \in Seq([name : Names, key : Keys, val : Vals])
      BY <2>1 DEF BackendInv, MemoryInv, RowSet
    <3>3. ~iter.open => iter = Memory!NoIter
      BY <2>1 DEF BackendInv, MemoryInv
    <3> QED BY <2>1, <3>1, <3>2, <3>3, MemoryHelpers DEF BackendInv, TxInv, TypeOK, Memory!TypeOK
  <2>2. CASE backend = "fjall"
    <3>1. Fjall!TablesOK(base) /\ Fjall!TablesOK(work)
      BY <2>2, TablesGoodOK DEF BackendInv, FjallInv
    <3>2. ~iter.open => iter = Fjall!NoIter
      BY <2>2 DEF BackendInv, FjallInv
    <3> QED BY <2>2, <3>1, <3>2 DEF BackendInv, TxInv, TypeOK, Fjall!TypeOK
  <2>3. CASE backend = "redb"
    <3>1. Redb!TablesOK(base) /\ Redb!TablesOK(work)
      BY <2>3, RedbGoodOK DEF BackendInv, RedbInv
    <3>2. ~iter.open => iter = Redb!NoIter
      BY <2>3 DEF BackendInv, RedbInv
    <3> QED BY <2>3, <3>1, <3>2 DEF BackendInv, TxInv, TypeOK, Redb!TypeOK
  <2> QED BY <2>1, <2>2, <2>3 DEF BackendInv
<1> QED BY <1>1, AlwaysInForm, PTL

\* What an entry scan of a fjall multimap finds.
LEMMA FoundIs ==
  ASSUME BackendInv, backend = "fjall", NEW n \in MultiTables, NEW lo \in Bounds, NEW hi \in Bounds
  PROVE  {Fjall!Decoded(n, raw, <<>>) : raw \in Range(Fjall!Between(n, lo, hi))}
           = {r \in RowsOf(work) : r.name = n /\ Found(n, lo, hi, r.key)}
<1> DEFINE raws == Fjall!Between(n, lo, hi)
           entries == [i \in DOMAIN raws |-> <<raws[i], work[n][raws[i]]>>]
<1>1. n \in Names /\ n \notin PlainTables
  BY TablesAssumption DEF Names
<1>2. TablesGood(work) /\ RowsOf(work) = Fjall!RowsOf(work)
  BY DEF BackendInv, FjallInv, RowsOf
<1>3. TablesGood(work)
  BY <1>2
<1>4. /\ SomeRaws(n, raws)
      /\ \A r \in Fjall!RowsOf(work) : r.name = n => (Raw(r) \in Range(raws) <=> Found(n, lo, hi, r.key))
  BY <1>1, <1>3, BetweenIs
<1> HIDE DEF raws
<1>5. Range(EntryRows(n, entries)) = {r \in Fjall!RowsOf(work) : r.name = n /\ Raw(r) \in Range(raws)}
  BY <1>1, <1>3, <1>4, EntriesAscend
<1>6. \A i \in DOMAIN raws : work[n][raws[i]] = <<>>
  <2>1. EntriesOK(n, work[n])
    BY <1>1, <1>3 DEF TablesGood
  <2>2. \A i \in DOMAIN raws : raws[i] \in DOMAIN work[n]
    BY <1>4 DEF SomeRaws
  <2> QED BY <1>1, <2>1, <2>2 DEF EntriesOK
<1>7. Range(EntryRows(n, entries)) = {Fjall!Decoded(n, raw, <<>>) : raw \in Range(raws)}
  <2>1. EntryRows(n, entries) = [i \in DOMAIN raws |-> Fjall!Decoded(n, raws[i], <<>>)]
    BY <1>6 DEF EntryRows
  <2> HIDE DEF entries
  <2> QED BY <2>1 DEF Range
<1>8. {r \in Fjall!RowsOf(work) : r.name = n /\ Raw(r) \in Range(raws)}
        = {r \in Fjall!RowsOf(work) : r.name = n /\ Found(n, lo, hi, r.key)}
  BY <1>4
<1> QED BY <1>2, <1>5, <1>7, <1>8 DEF raws

\* However many keys and values a fjall multimap holds and whatever two bounds
\* it is scanned between, only the rows at a bound are found or left out wrongly:
\* those of an inclusive upper and of an exclusive lower bound.
THEOREM BoundsKeepToTheirKey == Spec => []BoundsMissOnlyTheirKey
<1>1. BackendInv => BoundsMissOnlyTheirKey
  <2> SUFFICES ASSUME BackendInv, backend = "fjall", NEW n \in MultiTables, NEW scan \in ScanRanges
               PROVE  LET lo == scan[1]
                          hi == scan[2]
                          found == {Fjall!Decoded(n, raw, <<>>) : raw \in Range(Fjall!Between(n, lo, hi))}
                          meant == Store!RowsIn(RowsOf(work), n, lo, hi)
                          at(b, kind) == IF b.kind = kind THEN Store!RowsAt(RowsOf(work), n, b.key)
                                                          ELSE {}
                      IN  found = (meant \cup at(lo, "Excluded")) \ at(hi, "Included")
    BY DEF BoundsMissOnlyTheirKey
  <2> DEFINE lo == scan[1]
             hi == scan[2]
             rows == RowsOf(work)
             at(b, kind) == IF b.kind = kind THEN Store!RowsAt(rows, n, b.key) ELSE {}
             found == {Fjall!Decoded(n, raw, <<>>) : raw \in Range(Fjall!Between(n, lo, hi))}
  <2>1. lo \in Bounds /\ hi \in Bounds /\ ~Inverted(lo, hi)
    BY ScanRangesAssumption
  <2>2. n \notin PlainTables
    BY TablesAssumption
  <2>3. /\ lo.kind \in {"Unbounded", "Included", "Excluded"} /\ lo.key \in Nat
        /\ hi.kind \in {"Unbounded", "Included", "Excluded"} /\ hi.key \in Nat
    BY <2>1, ValsNat DEF Bounds, Unbounded, Included, Excluded
  <2>4. \A r \in rows : r.key \in Nat
    <3>1. RowsOf(work) = Fjall!RowsOf(work) /\ TablesGood(work)
      BY DEF BackendInv, FjallInv, RowsOf
    <3>2. TablesGood(work)
      BY <3>1
    <3>3. Fjall!RowsOf(work) \in SUBSET RowSet
      BY <3>2, FjallHas
    <3>4. \A r \in RowSet : r.key \in Nat
      BY ValsNat DEF RowSet
    <3> QED BY <3>1, <3>3, <3>4
  <2> HIDE DEF lo, hi
  <2>5. found = {r \in rows : r.name = n /\ Found(n, lo, hi, r.key)}
    BY <2>1, FoundIs
  <2> HIDE DEF found, rows
  <2>6. ASSUME NEW k \in Nat
        PROVE  Found(n, lo, hi, k) <=>
                 /\ (Store!AboveLo(lo, k) /\ Store!BelowHi(hi, k)) \/ (lo.kind = "Excluded" /\ k = lo.key)
                 /\ ~(hi.kind = "Included" /\ k = hi.key)
    BY <2>1, <2>2, <2>3 DEF Found, Inverted, Store!AboveLo, Store!BelowHi
  <2>7. found = (Store!RowsIn(rows, n, lo, hi) \cup at(lo, "Excluded")) \ at(hi, "Included")
    <3>1. ASSUME NEW r \in rows
          PROVE  r \in found <=>
                   r \in (Store!RowsIn(rows, n, lo, hi) \cup at(lo, "Excluded")) \ at(hi, "Included")
      BY <2>4, <2>5, <2>6 DEF Store!RowsIn, Store!RowsAt
    <3>2. found \subseteq rows /\ Store!RowsIn(rows, n, lo, hi) \subseteq rows
          /\ at(lo, "Excluded") \subseteq rows
      BY <2>5 DEF Store!RowsIn, Store!RowsAt
    <3> QED BY <3>1, <3>2
  <2> QED BY <2>7 DEF found, rows, lo, hi
<1> QED BY <1>1, AlwaysInForm, PTL

\* However many tables share the memory backend's map, whichever of their names
\* extend others and whatever two bounds a table is scanned between, the scan
\* finds the table's rows between them and, without an upper bound, all rows of
\* the tables whose names extend its own, and nothing else.
THEOREM FencesKeepOthersOut == Spec => []FenceLetsInOnlyLongerNames
<1>1. BackendInv => FenceLetsInOnlyLongerNames
  <2> SUFFICES ASSUME BackendInv, backend = "memory", NEW n \in Names, NEW scan \in ScanRanges
               PROVE  LET lo == scan[1]
                          hi == scan[2]
                          longer == {r \in RowsOf(work) : r.name \in Memory!Extensions(n)}
                      IN  Range(Memory!Found(n, lo, hi)) =
                            Store!RowsIn(RowsOf(work), n, lo, hi)
                              \cup (IF hi.kind = "Unbounded" THEN longer ELSE {})
    BY DEF FenceLetsInOnlyLongerNames
  <2> DEFINE lo == scan[1]
             hi == scan[2]
             longer == {r \in RowsOf(work) : r.name \in Memory!Extensions(n)}
             q == Memory!Found(n, lo, hi)
  <2>1. lo \in Bounds /\ hi \in Bounds
    BY ScanRangesAssumption
  <2>2. MapGood(work) /\ RowsOf(work) = Memory!RowsOf(work)
    BY DEF BackendInv, MemoryInv, RowsOf
  <2> HIDE DEF lo, hi
  <2>3. Range(q) = Store!RowsIn(Memory!RowsOf(work), n, lo, hi) \cup Longer(n, hi)
    <3> HIDE DEF q
    <3>1. MapGood(work)
      BY <2>2
    <3>2. q = Memory!Found(n, lo, hi)
      BY DEF q
    <3> QED BY <2>1, <3>1, <3>2, RangeIs
  <2>4. Longer(n, hi) = IF hi.kind = "Unbounded" THEN longer ELSE {}
    BY <2>2 DEF Longer
  <2> QED BY <2>2, <2>3, <2>4 DEF lo, hi
<1> QED BY <1>1, AlwaysInForm, PTL

\* Whichever backend is behind it and whatever it holds, the store's calls are
\* those of the abstract store and nothing else happens to its rows.
THEOREM EveryBackendImplementsTheStore == FinitelyManyRows => (Spec => ImplementsTableStore)
<1> SUFFICES ASSUME FinitelyManyRows PROVE Spec => ImplementsTableStore
  OBVIOUS
<1>1. Init => Store!Init
  <2> SUFFICES ASSUME Init PROVE Store!Init
    OBVIOUS
  <2>1. BackendInv
    BY InitKeeps
  <2>2. RowsOf(base) = {} /\ tx = "closed" /\ ret = Ret("none")
    <3>1. CASE backend = "memory" /\ Memory!Init
      BY <3>1, NoRowsAtFirst, MemoryHelpers DEF Memory!Init, RowsOf
    <3>2. CASE backend = "fjall" /\ Fjall!Init
      BY <3>2, NoRowsAtFirst, FjallHelpers DEF Fjall!Init, RowsOf
    <3>3. CASE backend = "redb" /\ Redb!Init
      BY <3>3, NoRowsAtFirst, RedbHelpers DEF Redb!Init, RowsOf
    <3> QED BY <3>1, <3>2, <3>3 DEF Init
  <2>3. iter.open = FALSE
    BY <2>1, <2>2 DEF BackendInv, TxInv, Reading
  <2> QED BY <2>2, <2>3, SameAnswers DEF Store!Init
<1>2. BackendInv /\ [Next]_vars => [Store!Next]_(Store!vars)
  <2> SUFFICES ASSUME BackendInv, [Next]_vars PROVE [Store!Next]_(Store!vars)
    OBVIOUS
  <2>1. CASE Next
    BY <2>1, NextKeeps DEF Store!Next, Next
  <2>2. CASE UNCHANGED vars
    <3>1. UNCHANGED <<backend, tx, base, work, iter, ret>>
      BY <2>2 DEF vars
    <3>2. RowsOf(base)' = RowsOf(base) /\ RowsOf(work)' = RowsOf(work) /\ Pending' = Pending
      BY <3>1 DEF RowsOf, Pending
    <3> QED BY <3>1, <3>2 DEF Store!vars
  <2> QED BY <2>1, <2>2
<1> QED BY <1>1, <1>2, AlwaysInForm, PTL DEF Spec, ImplementsTableStore, Store!Spec

\* Whatever the call's table, key and value, it answers for them and changes
\* their rows, and does no other call's work.
THEOREM CallsDoTheirOwnWork == FinitelyManyRows => (Spec => CallsActOnTheirArguments)
<1> SUFFICES ASSUME FinitelyManyRows PROVE Spec => CallsActOnTheirArguments
  OBVIOUS
<1> DEFINE Inserts(n, k, v) == IF n \in PlainTables THEN Store!InsertPlain(n, k, v)
                                                    ELSE Store!InsertMulti(n, k, v)
           RemovesValue(n, k, v) == IF n \in PlainTables THEN Store!RemoveValuePlain
                                                         ELSE Store!RemoveValue(n, k, v)
<1>1. ASSUME BackendInv, [Next]_vars, NEW n \in Names, NEW k \in Keys
      PROVE  /\ get(n, k) => Store!Get(n, k) \/ Store!NoSuchTable(n)
             /\ remove(n, k) => Store!Remove(n, k)
             /\ \A v \in Vals : /\ insert(n, k, v) => Inserts(n, k, v)
                                /\ remove_value(n, k, v) => RemovesValue(n, k, v)
  <2>1. UNCHANGED backend /\ backend \in {"memory", "fjall", "redb"}
    BY <1>1 DEF Next, vars, BackendInv
  <2>2. CASE backend = "memory"
    <3>1. MemoryStep
      BY <1>1, <2>1, <2>2 DEF BackendInv, MemoryStep
    <3>2. get(n, k) => Store!Get(n, k)
      BY <2>2, <3>1, MemoryGets DEF get, Keeps
    <3>3. remove(n, k) => Store!Remove(n, k)
      BY <2>2, <3>1, MemoryRemoves DEF remove, Keeps
    <3>4. ASSUME NEW v \in Vals, insert(n, k, v) PROVE Inserts(n, k, v)
      BY <2>2, <3>1, <3>4, MemoryInserts DEF insert, Keeps
    <3>5. ASSUME NEW v \in Vals, remove_value(n, k, v) PROVE RemovesValue(n, k, v)
      BY <2>2, <3>1, <3>5, MemoryRemovesValue DEF remove_value, Keeps
    <3> QED BY <3>2, <3>3, <3>4, <3>5
  <2>3. CASE backend = "fjall"
    <3>1. FjallStep
      BY <1>1, <2>1, <2>3 DEF BackendInv, FjallStep
    <3>2. get(n, k) => Store!Get(n, k)
      BY <2>3, <3>1, FjallGets DEF get, Keeps
    <3>3. remove(n, k) => Store!Remove(n, k)
      BY <2>3, <3>1, FjallRemoves DEF remove, Keeps
    <3>4. ASSUME NEW v \in Vals, insert(n, k, v) PROVE Inserts(n, k, v)
      BY <2>3, <3>1, <3>4, FjallInserts DEF insert, Keeps
    <3>5. ASSUME NEW v \in Vals, remove_value(n, k, v) PROVE RemovesValue(n, k, v)
      BY <2>3, <3>1, <3>5, FjallRemovesValue DEF remove_value, Keeps
    <3> QED BY <3>2, <3>3, <3>4, <3>5
  <2>4. CASE backend = "redb"
    <3>1. RedbStep
      BY <1>1, <2>1, <2>4 DEF BackendInv, RedbStep
    <3>2. get(n, k) => Store!Get(n, k) \/ Store!NoSuchTable(n)
      BY <2>4, <3>1, RedbGets DEF get, Keeps
    <3>3. remove(n, k) => Store!Remove(n, k)
      BY <2>4, <3>1, RedbRemoves DEF remove, Keeps
    <3>4. ASSUME NEW v \in Vals, insert(n, k, v) PROVE Inserts(n, k, v)
      BY <2>4, <3>1, <3>4, RedbInserts DEF insert, Keeps
    <3>5. ASSUME NEW v \in Vals, remove_value(n, k, v) PROVE RemovesValue(n, k, v)
      BY <2>4, <3>1, <3>5, RedbRemovesValue DEF remove_value, Keeps
    <3> QED BY <3>2, <3>3, <3>4, <3>5
  <2> QED BY <2>1, <2>2, <2>3, <2>4
<1> DEFINE Acts == UNCHANGED <<tx, base, iter>> =>
       \A n \in Names, k \in Keys :
         /\ (ret'.res \in {"row", "absent", "NotFound"} /\ get(n, k))
              => Store!Get(n, k) \/ Store!NoSuchTable(n)
         /\ (ret'.res \in {"removed", "absent"} /\ remove(n, k)) => Store!Remove(n, k)
         /\ \A v \in Vals :
              /\ (ret'.res = "ok" /\ insert(n, k, v))
                   => IF n \in PlainTables THEN Store!InsertPlain(n, k, v)
                                           ELSE Store!InsertMulti(n, k, v)
              /\ (/\ ret'.res \in {"removed", "absent", "Unsupported"}
                  /\ remove_value(n, k, v))
                   => IF n \in PlainTables THEN Store!RemoveValuePlain
                                           ELSE Store!RemoveValue(n, k, v)
<1>2. BackendInv /\ [Next]_vars => [Acts]_vars
  BY <1>1
<1> HIDE DEF Acts
<1>3. Spec => [][Acts]_vars
  BY <1>2, AlwaysInForm, PTL DEF Spec
<1> QED BY <1>3 DEF Acts, CallsActOnTheirArguments
=============================================================================
