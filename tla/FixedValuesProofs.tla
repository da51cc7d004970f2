------------------------- MODULE FixedValuesProofs -------------------------
(***************************************************************************)
(* The fixed-capacity types are their abstract values, for any capacities, *)
(* elements, keys and characters.                                          *)
(*                                                                         *)
(* The invariant, IInv, says of the value and of an archive that the slots *)
(* behind the live ones hold the default, that the live keys of a map      *)
(* ascend, and that the live bytes of a string are those of a text.  Every *)
(* call keeps it and is the abstract call on the contents; equal contents  *)
(* then leave nothing for two values to differ in.  A load keeps it if the *)
(* archive is one these types wrote, or is refused: under Spec.            *)
(*                                                                         *)
(* Loads of any bytes, AnyBytesSpec, keep a weaker one, SInv: the lengths  *)
(* and elements, and all of IInv for strings.                              *)
(***************************************************************************)
EXTENDS FixedValues, FiniteSetTheorems, SequenceTheorems, WellFoundedInduction, TLAPS

----------------------------------------------------------------------------
(* Induction over the naturals, as facts about sets.                       *)

\* A set of naturals that has 0 and, with each number, the next is Nat.
LEMMA NaturalsFrom ==
  ASSUME NEW T \in SUBSET Nat, 0 \in T, \A n \in T : n + 1 \in T
  PROVE  T = Nat
<1> DEFINE U == Nat \ T
<1>1. CASE U = {}
  BY <1>1
<1>2. CASE U # {}
  <2>1. PICK x \in U : \A y \in U : <<y, x>> \notin OpToRel(<, Nat)
    BY <1>2, WFMin, NatLessThanWellFounded
  <2>2. x - 1 \in T /\ x # 0
    <3>1. x \in Nat /\ x # 0
      OBVIOUS
    <3>2. x - 1 \in Nat /\ <<x - 1, x>> \in OpToRel(<, Nat)
      BY <3>1 DEF OpToRel
    <3> QED BY <2>1, <3>1, <3>2
  <2> QED BY <2>2
<1> QED BY <1>1, <1>2

\* A set of naturals with a member has a least one.
LEMMA LeastOf ==
  ASSUME NEW T \in SUBSET Nat, T # {}
  PROVE  \E n \in T : \A m \in T : n <= m
<1>1. PICK x \in T : \A y \in T : <<y, x>> \notin OpToRel(<, Nat)
  BY WFMin, NatLessThanWellFounded
<1>2. \A y \in T : ~(y < x)
  <2>1. \A y \in T : y < x => <<y, x>> \in OpToRel(<, Nat)
    BY DEF OpToRel
  <2> QED BY <1>1, <2>1
<1> QED BY <1>2

----------------------------------------------------------------------------
(* Sequences put one after the other.                                      *)

\* What FlattenSeq's recursion asks of its values.
FlatAt(g, seqs, i) == IF i = 1 THEN seqs[i] ELSE g[i - 1] \o seqs[i]
Flattens(g, seqs) == g = [i \in 1..Len(seqs) |-> FlatAt(g, seqs, i)]

\* The recursion has a solution, however long the sequence.
LEMMA FlattenDefined ==
  ASSUME NEW S, NEW seqs \in Seq(S)
  PROVE  Flattens(CHOOSE g : Flattens(g, seqs), seqs)
<1> DEFINE L == 1..Len(seqs)
           T == {n \in Nat : \E g : \A i \in L : i <= n => g[i] = FlatAt(g, seqs, i)}
<1>1. 0 \in T
  BY LenProperties
<1>2. ASSUME NEW n \in T PROVE n + 1 \in T
  <2>1. PICK g : \A i \in L : i <= n => g[i] = FlatAt(g, seqs, i)
    OBVIOUS
  <2> DEFINE h == [i \in L |-> FlatAt(g, seqs, i)]
  <2>2. \A i \in L : i <= n => h[i] = g[i]
    BY <2>1
  <2>3. ASSUME NEW i \in L, i <= n + 1 PROVE h[i] = FlatAt(h, seqs, i)
    <3>1. h[i] = FlatAt(g, seqs, i)
      OBVIOUS
    <3>2. CASE i = 1
      BY <3>1, <3>2 DEF FlatAt
    <3>3. CASE i # 1
      <4>1. i - 1 \in L /\ i - 1 <= n
        BY <2>3, <3>3, LenProperties
      <4>2. h[i - 1] = g[i - 1]
        BY <2>2, <4>1
      <4> HIDE DEF h
      <4> QED BY <3>1, <3>3, <4>2 DEF FlatAt
    <3> QED BY <3>2, <3>3
  <2>4. \E f : \A i \in L : i <= n + 1 => f[i] = FlatAt(f, seqs, i)
    <3> HIDE DEF h
    <3> QED BY <2>3
  <2> HIDE DEF L
  <2> QED BY <2>4
<1>3. T = Nat
  <2> HIDE DEF T
  <2>1. T \in SUBSET Nat
    BY DEF T
  <2> QED BY <1>1, <1>2, <2>1, NaturalsFrom
<1>4. Len(seqs) \in T
  BY <1>3, LenProperties
<1>5. PICK g : \A i \in L : g[i] = FlatAt(g, seqs, i)
  <2>1. PICK g : \A i \in L : i <= Len(seqs) => g[i] = FlatAt(g, seqs, i)
    BY <1>4
  <2> QED BY <2>1, LenProperties
<1>6. \E f : Flattens(f, seqs)
  <2> DEFINE h == [i \in L |-> g[i]]
  <2>1. ASSUME NEW i \in L PROVE h[i] = FlatAt(h, seqs, i)
    <3>1. i # 1 => i - 1 \in L
      BY LenProperties
    <3>2. i # 1 => h[i - 1] = g[i - 1]
      BY <3>1
    <3> QED BY <1>5, <3>2 DEF FlatAt
  <2>2. h = [i \in L |-> h[i]]
    OBVIOUS
  <2> HIDE DEF h
  <2>3. h = [i \in L |-> FlatAt(h, seqs, i)]
    BY <2>1, <2>2
  <2> QED BY <2>3 DEF Flattens
<1> QED BY <1>6

\* One more sequence comes after the others.
LEMMA FlattenStep ==
  ASSUME NEW S, NEW seqs \in Seq(Seq(S))
  PROVE  /\ seqs = <<>> => FlattenSeq(seqs) = <<>>
         /\ FlattenSeq(seqs) \in Seq(S)
         /\ \A last \in Seq(S) :
              FlattenSeq(Append(seqs, last)) = FlattenSeq(seqs) \o last
<1> DEFINE F(s) == CHOOSE g : Flattens(g, s)
<1>1. \A s \in Seq(Seq(S)) : Len(s) # 0 => FlattenSeq(s) = F(s)[Len(s)]
  BY DEF FlattenSeq, Flattens, FlatAt
<1>2. \A s \in Seq(Seq(S)) : \A i \in 1..Len(s) : F(s)[i] = FlatAt(F(s), s, i)
  <2>1. ASSUME NEW s \in Seq(Seq(S)) PROVE \A i \in 1..Len(s) : F(s)[i] = FlatAt(F(s), s, i)
    <3> DEFINE g == F(s)
    <3>1. Flattens(g, s)
      BY FlattenDefined
    <3> HIDE DEF g
    <3>2. \A i \in 1..Len(s) : g[i] = FlatAt(g, s, i)
      BY <3>1 DEF Flattens
    <3> QED BY <3>2 DEF g
  <2> QED BY <2>1
<1>3. seqs = <<>> => FlattenSeq(seqs) = <<>>
  BY DEF FlattenSeq
<1>4. \A s \in Seq(Seq(S)) : \A i \in 1..Len(s) : F(s)[i] \in Seq(S)
  <2> SUFFICES ASSUME NEW s \in Seq(Seq(S)) PROVE \A i \in 1..Len(s) : F(s)[i] \in Seq(S)
    OBVIOUS
  <2> DEFINE g == F(s)
             T == {n \in Nat : n + 1 \in 1..Len(s) => g[n + 1] \in Seq(S)}
  <2>1. \A i \in 1..Len(s) : g[i] = FlatAt(g, s, i) /\ s[i] \in Seq(S)
    BY <1>2
  <2> HIDE DEF g
  <2>2. 0 \in T
    <3>1. 1 \in 1..Len(s) => g[1] \in Seq(S)
      BY <2>1 DEF FlatAt
    <3> QED BY <3>1
  <2>3. ASSUME NEW n \in T PROVE n + 1 \in T
    <3>1. ASSUME n + 2 \in 1..Len(s) PROVE g[n + 2] \in Seq(S)
      <4>1. n + 1 \in 1..Len(s) /\ n + 2 # 1 /\ (n + 2) - 1 = n + 1
        BY <3>1, LenProperties
      <4>2. g[n + 1] \in Seq(S)
        BY <4>1
      <4>3. g[n + 2] = g[n + 1] \o s[n + 2] /\ s[n + 2] \in Seq(S)
        <5>1. g[n + 2] = FlatAt(g, s, n + 2) /\ s[n + 2] \in Seq(S)
          BY <2>1, <3>1
        <5>2. FlatAt(g, s, n + 2) = g[(n + 2) - 1] \o s[n + 2]
          BY <4>1 DEF FlatAt
        <5>3. g[(n + 2) - 1] = g[n + 1]
          BY <4>1
        <5> QED BY <5>1, <5>2, <5>3
      <4> QED BY <4>2, <4>3, ConcatProperties
    <3> QED BY <3>1
  <2>4. T = Nat
    <3> HIDE DEF T
    <3>1. T \in SUBSET Nat
      BY DEF T
    <3> QED BY <2>2, <2>3, <3>1, NaturalsFrom
  <2>5. ASSUME NEW i \in 1..Len(s) PROVE g[i] \in Seq(S)
    <3>1. i - 1 \in Nat /\ i - 1 + 1 = i
      BY LenProperties
    <3>2. \A n \in Nat : n \in T
      BY <2>4
    <3> QED BY <3>1, <3>2
  <2> QED BY <2>5 DEF g
<1>5. FlattenSeq(seqs) \in Seq(S)
  <2>1. CASE Len(seqs) = 0
    <3>1. seqs = <<>>
      BY <2>1, EmptySeq
    <3> QED BY <1>3, <3>1, EmptySeq
  <2>2. CASE Len(seqs) # 0
    <3>1. Len(seqs) \in 1..Len(seqs)
      BY <2>2, LenProperties
    <3> HIDE DEF F
    <3> QED BY <1>1, <1>4, <2>2, <3>1
  <2> QED BY <2>1, <2>2
<1>6. ASSUME NEW last \in Seq(S)
      PROVE  FlattenSeq(Append(seqs, last)) = FlattenSeq(seqs) \o last
  <2> DEFINE t == Append(seqs, last)
             f == F(seqs)
             g == F(t)
  <2>1. /\ t \in Seq(Seq(S)) /\ Len(t) = Len(seqs) + 1 /\ Len(seqs) \in Nat
        /\ \A i \in 1..Len(seqs) : t[i] = seqs[i]
        /\ t[Len(seqs) + 1] = last
    BY AppendProperties, LenProperties
  <2>2. /\ \A i \in 1..Len(seqs) : f[i] = FlatAt(f, seqs, i)
        /\ \A i \in 1..Len(t) : g[i] = FlatAt(g, t, i)
    BY <1>2, <2>1
  <2>3. /\ FlattenSeq(t) = g[Len(t)]
        /\ Len(seqs) # 0 => FlattenSeq(seqs) = f[Len(seqs)]
    <3> HIDE DEF F
    <3>1. t \in Seq(Seq(S)) /\ Len(t) # 0
      BY <2>1
    <3> HIDE DEF t
    <3> QED BY <1>1, <3>1
  <2> HIDE DEF F, t, f, g
  <2> DEFINE T == {n \in Nat : n + 1 \in 1..Len(seqs) => g[n + 1] = f[n + 1]}
  <2>4. 0 \in T
    BY <2>1, <2>2 DEF FlatAt
  <2>5. ASSUME NEW n \in T PROVE n + 1 \in T
    <3>1. ASSUME n + 2 \in 1..Len(seqs) PROVE g[n + 2] = f[n + 2]
      <4>1. n + 1 \in 1..Len(seqs) /\ n + 2 # 1 /\ (n + 2) - 1 = n + 1 /\ n + 2 \in 1..Len(t)
        BY <2>1, <3>1
      <4>2. g[n + 1] = f[n + 1] /\ t[n + 2] = seqs[n + 2]
        BY <2>1, <3>1, <4>1
      <4> QED BY <2>2, <3>1, <4>1, <4>2 DEF FlatAt
    <3> QED BY <3>1
  <2>6. T = Nat
    <3> HIDE DEF T
    <3>1. T \in SUBSET Nat
      BY DEF T
    <3> QED BY <2>4, <2>5, <3>1, NaturalsFrom
  <2>7. CASE Len(seqs) = 0
    <3>1. FlattenSeq(seqs) = <<>>
      BY <1>3, <2>7, EmptySeq
    <3>2. g[1] = last
      BY <2>1, <2>2, <2>7 DEF FlatAt
    <3>3. <<>> \o last = last
      BY ConcatEmptySeq
    <3> QED BY <2>1, <2>3, <2>7, <3>1, <3>2, <3>3 DEF t
  <2>8. CASE Len(seqs) # 0
    <3>1. Len(seqs) - 1 \in Nat /\ Len(seqs) - 1 + 1 = Len(seqs) /\ Len(seqs) \in 1..Len(seqs)
      BY <2>1, <2>8
    <3>2. g[Len(seqs)] = f[Len(seqs)]
      <4>1. \A n \in Nat : n \in T
        BY <2>6
      <4> QED BY <3>1, <4>1
    <3>3. g[Len(seqs) + 1] = g[Len(seqs)] \o last
      <4>1. Len(seqs) + 1 \in 1..Len(t) /\ Len(seqs) + 1 # 1 /\ (Len(seqs) + 1) - 1 = Len(seqs)
        BY <2>1, <2>8
      <4>2. g[Len(seqs) + 1] = FlatAt(g, t, Len(seqs) + 1)
        BY <2>2, <4>1
      <4> QED BY <2>1, <4>1, <4>2 DEF FlatAt
    <3> QED BY <2>1, <2>3, <2>8, <3>2, <3>3 DEF t
  <2> QED BY <2>7, <2>8
<1> QED BY <1>3, <1>5, <1>6


----------------------------------------------------------------------------
(* Texts and their bytes.                                                  *)

\* A text's bytes are those of its characters, one after the other.
LEMMA TextIs ==
  /\ Text(<<>>) = <<>>
  /\ \A s \in Seq(Chars) : Text(s) \in Seq(Bytes)
  /\ \A s \in Seq(Chars), c \in Chars : Text(Append(s, c)) = Text(s) \o Utf8(c)
<1> DEFINE of(s) == [i \in DOMAIN s |-> Utf8(s[i])]
<1>1. \A s \in Seq(Chars) : of(s) \in Seq(Seq(Bytes))
  <2> SUFFICES ASSUME NEW s \in Seq(Chars) PROVE of(s) \in Seq(Seq(Bytes))
    OBVIOUS
  <2> DEFINE B == Seq(Bytes)
  <2>1. Len(s) \in Nat /\ DOMAIN s = 1..Len(s) /\ \A i \in 1..Len(s) : Utf8(s[i]) \in B
    BY LenProperties, Utf8Assumption
  <2> HIDE DEF B
  <2>2. of(s) \in Seq(B)
    BY <2>1
  <2> QED BY <2>2 DEF B
<1>2. \A s \in Seq(Chars), c \in Chars : of(Append(s, c)) = Append(of(s), Utf8(c))
  <2> SUFFICES ASSUME NEW s \in Seq(Chars), NEW c \in Chars
               PROVE  of(Append(s, c)) = Append(of(s), Utf8(c))
    OBVIOUS
  <2> DEFINE B == Seq(Bytes)
             t == Append(s, c)
             x == of(s)
             y == of(t)
             z == Append(x, Utf8(c))
  <2>1. /\ Len(s) \in Nat /\ DOMAIN s = 1..Len(s)
        /\ DOMAIN t = 1..(Len(s) + 1) /\ t[Len(s) + 1] = c
        /\ \A i \in 1..Len(s) : t[i] = s[i]
    BY LenProperties, AppendProperties
  <2>2. x \in Seq(B) /\ Utf8(c) \in B
    BY <1>1, Utf8Assumption
  <2>3. /\ DOMAIN x = 1..Len(s) /\ \A i \in 1..Len(s) : x[i] = Utf8(s[i])
        /\ DOMAIN y = 1..(Len(s) + 1) /\ \A i \in 1..(Len(s) + 1) : y[i] = Utf8(t[i])
        /\ y = [i \in 1..(Len(s) + 1) |-> y[i]]
    BY <2>1
  <2> HIDE DEF B, x, y, t
  <2>4. Len(x) = Len(s)
    BY <2>1, <2>2, <2>3, LenProperties
  <2>5. /\ z \in Seq(B) /\ Len(z) = Len(s) + 1
        /\ \A i \in 1..Len(s) : z[i] = x[i]
        /\ z[Len(s) + 1] = Utf8(c)
    BY <2>2, <2>4, AppendProperties
  <2> HIDE DEF z
  <2>6. DOMAIN z = 1..(Len(s) + 1) /\ z = [i \in 1..(Len(s) + 1) |-> z[i]]
    BY <2>5, LenProperties
  <2>7. \A i \in 1..(Len(s) + 1) : y[i] = z[i]
    BY <2>1, <2>3, <2>5
  <2>8. y = z
    BY <2>3, <2>6, <2>7
  <2> QED BY <2>8 DEF x, y, z, t
<1>3. \A s : Text(s) = FlattenSeq(of(s))
  BY DEF Text
<1>4. of(<<>>) = <<>>
  OBVIOUS
<1> HIDE DEF of
<1>5. Text(<<>>) = <<>>
  <2>1. <<>> \in Seq(Seq(Bytes))
    BY EmptySeq
  <2> QED BY <1>3, <1>4, <2>1, FlattenStep
<1>6. \A s \in Seq(Chars) : Text(s) \in Seq(Bytes)
  BY <1>1, <1>3, FlattenStep
<1>7. \A s \in Seq(Chars), c \in Chars : Text(Append(s, c)) = Text(s) \o Utf8(c)
  <2>1. ASSUME NEW s \in Seq(Chars), NEW c \in Chars PROVE Text(Append(s, c)) = Text(s) \o Utf8(c)
    <3>1. of(s) \in Seq(Seq(Bytes)) /\ Utf8(c) \in Seq(Bytes)
      BY <1>1, Utf8Assumption
    <3>2. FlattenSeq(Append(of(s), Utf8(c))) = FlattenSeq(of(s)) \o Utf8(c)
      BY <3>1, FlattenStep
    <3> QED BY <1>2, <1>3, <3>2
  <2> QED BY <2>1
<1> QED BY <1>5, <1>6, <1>7

\* Which two of three sequences are joined first does not matter.
LEMMA Regroup ==
  /\ \A x, y, z \in Seq(Bytes) : (x \o y) \o z = x \o (y \o z)
  /\ \A x, y, z \in Seq(Chars) : (x \o y) \o z = x \o (y \o z)
<1>1. ASSUME NEW S, NEW x \in Seq(S), NEW y \in Seq(S), NEW z \in Seq(S)
      PROVE  (x \o y) \o z = x \o (y \o z)
  BY SMTT(30)
<1> QED BY <1>1

\* All but the last of a sequence, and the last.
LEMMA LastApart ==
  ASSUME NEW S, NEW s \in Seq(S), NEW n \in Nat, Len(s) = n + 1
  PROVE  \E r \in Seq(S) : \E c \in S : s = Append(r, c) /\ Len(r) = n
<1> DEFINE r == [i \in 1..n |-> s[i]]
<1>1. s[n + 1] \in S /\ \A i \in 1..n : s[i] \in S
  BY ElementOfSeq
<1>2. r \in Seq(S) /\ Len(r) = n
  BY <1>1
<1> HIDE DEF r
<1>3. /\ Append(r, s[n + 1]) \in Seq(S) /\ Len(Append(r, s[n + 1])) = n + 1
      /\ \A i \in 1..n : Append(r, s[n + 1])[i] = r[i]
      /\ Append(r, s[n + 1])[n + 1] = s[n + 1]
  BY <1>1, <1>2, AppendProperties
<1>4. \A i \in 1..n : r[i] = s[i]
  BY DEF r
<1>5. \A i \in 1..(n + 1) : Append(r, s[n + 1])[i] = s[i]
  BY <1>3, <1>4
<1>6. Append(r, s[n + 1]) = s
  BY <1>3, <1>5, SeqEqual
<1> QED BY <1>1, <1>2, <1>6

\* The bytes of two texts, one after the other, are those of both.
LEMMA TextConcat ==
  ASSUME NEW s \in Seq(Chars), NEW t \in Seq(Chars)
  PROVE  Text(s \o t) = Text(s) \o Text(t)
<1> DEFINE P(n) == \A u \in Seq(Chars) : Len(u) = n => Text(s \o u) = Text(s) \o Text(u)
           T == {n \in Nat : P(n)}
<1>1. 0 \in T
  <2>1. ASSUME NEW u \in Seq(Chars), Len(u) = 0 PROVE Text(s \o u) = Text(s) \o Text(u)
    <3>1. u = <<>>
      BY <2>1, EmptySeq
    <3>2. s \o <<>> = s /\ Text(s) \o <<>> = Text(s)
      BY TextIs, ConcatEmptySeq
    <3> QED BY <3>1, <3>2, TextIs
  <2> QED BY <2>1
<1>2. ASSUME NEW n \in T PROVE n + 1 \in T
  <2>1. ASSUME NEW u \in Seq(Chars), Len(u) = n + 1 PROVE Text(s \o u) = Text(s) \o Text(u)
    <3>1. PICK r \in Seq(Chars) : \E c \in Chars : u = Append(r, c) /\ Len(r) = n
      BY <2>1, LastApart
    <3>2. PICK c \in Chars : u = Append(r, c) /\ Len(r) = n
      BY <3>1
    <3>3. Text(s \o r) = Text(s) \o Text(r)
      BY <3>2
    <3>4. s \o u = Append(s \o r, c) /\ s \o r \in Seq(Chars)
      <4>1. u = r \o <<c>> /\ <<c>> \in Seq(Chars) /\ s \o r \in Seq(Chars)
        BY <3>2, AppendIsConcat, ConcatProperties
      <4>2. s \o (r \o <<c>>) = (s \o r) \o <<c>>
        BY <4>1, ConcatAssociative
      <4> QED BY <4>1, <4>2, AppendIsConcat
    <3>5. Text(s \o u) = (Text(s) \o Text(r)) \o Utf8(c)
      BY <3>3, <3>4, TextIs
    <3>6. Text(u) = Text(r) \o Utf8(c)
      BY <3>2, TextIs
    <3>7. (Text(s) \o Text(r)) \o Utf8(c) = Text(s) \o (Text(r) \o Utf8(c))
      <4> DEFINE x == Text(s)
                 y == Text(r)
                 z == Utf8(c)
      <4>1. x \in Seq(Bytes) /\ y \in Seq(Bytes) /\ z \in Seq(Bytes)
        BY TextIs, Utf8Assumption
      <4> HIDE DEF x, y, z, P, T
      <4>2. (x \o y) \o z = x \o (y \o z)
        BY <4>1, Regroup, Zenon
      <4> QED BY <4>2 DEF x, y, z
    <3> QED BY <3>5, <3>6, <3>7
  <2> QED BY <2>1
<1>3. T = Nat
  <2> HIDE DEF T
  <2>1. T \in SUBSET Nat
    BY DEF T
  <2> QED BY <1>1, <1>2, <2>1, NaturalsFrom
<1>4. Len(t) \in T
  <2> HIDE DEF T
  <2> QED BY <1>3, LenProperties
<1> QED BY <1>4

\* The bytes before, of and behind a text's character.
LEMMA TextAt ==
  ASSUME NEW s \in Seq(Chars), NEW i \in 1..Len(s),
         NEW p, p = SubSeq(s, 1, i - 1)
  PROVE  /\ p \in Seq(Chars) /\ Text(p) \in Seq(Bytes)
         /\ Len(Text(s)) >= Len(Text(p)) + Len(Utf8(s[i]))
         /\ \A m \in 1..Len(Text(p)) : Text(s)[m] = Text(p)[m]
         /\ \A q \in 1..Len(Utf8(s[i])) : Text(s)[Len(Text(p)) + q] = Utf8(s[i])[q]
<1> DEFINE r == SubSeq(s, i + 1, Len(s))
           c == s[i]
<1>1. Len(s) \in Nat /\ i \in Nat /\ c \in Chars /\ \A j \in 1..Len(s) : s[j] \in Chars
  BY LenProperties, ElementOfSeq
<1>2. p \in Seq(Chars) /\ r \in Seq(Chars)
  <2>1. \A m, n \in Int : 1 <= m /\ n <= Len(s) => SubSeq(s, m, n) \in Seq(Chars)
    BY <1>1, SubSeqProperties
  <2> QED BY <1>1, <2>1
<1>3. s = Append(p, c) \o r
  <2>1. SubSeq(s, 1, i - 1) \o SubSeq(s, i, Len(s)) = SubSeq(s, 1, Len(s))
    <3>1. i - 1 \in (1 - 1)..Len(s) /\ (i - 1) + 1 = i /\ 1 \in 1..(Len(s) + 1)
          /\ Len(s) \in (i - 1)..Len(s)
      BY <1>1
    <3> QED BY <3>1, ConcatAdjacentSubSeq
  <2>2. SubSeq(s, i, Len(s)) = <<c>> \o r
    <3>1. i \in 1..Len(s) /\ Len(s) \in i..Len(s)
      BY <1>1
    <3> QED BY <3>1, SubSeqRecursiveFirst
  <2>3. SubSeq(s, 1, Len(s)) = s
    BY SubSeqFull
  <2>4. p \o (<<c>> \o r) = (p \o <<c>>) \o r /\ Append(p, c) = p \o <<c>>
    <3> HIDE DEF r, c
    <3>1. <<c>> \in Seq(Chars)
      BY <1>1
    <3>2. Append(p, c) = p \o <<c>>
      BY <1>1, <1>2, AppendIsConcat
    <3>3. (p \o <<c>>) \o r = p \o (<<c>> \o r)
      <4> DEFINE x == p
                 y == <<c>>
                 z == r
      <4>1. x \in Seq(Chars) /\ y \in Seq(Chars) /\ z \in Seq(Chars)
        BY <1>2, <3>1
      <4> HIDE DEF x, y, z
      <4>2. (x \o y) \o z = x \o (y \o z)
        BY <4>1, Regroup, Zenon
      <4> QED BY <4>2 DEF x, y, z
    <3> QED BY <3>2, <3>3
  <2> HIDE DEF r, c
  <2> QED BY <2>1, <2>2, <2>3, <2>4
<1> HIDE DEF r, c
<1>4. Text(s) = (Text(p) \o Utf8(c)) \o Text(r)
  <2>1. Append(p, c) \in Seq(Chars)
    BY <1>1, <1>2, AppendProperties
  <2>2. Text(Append(p, c) \o r) = Text(Append(p, c)) \o Text(r)
    BY <1>2, <2>1, TextConcat
  <2> QED BY <1>1, <1>2, <1>3, <2>2, TextIs
<1> DEFINE P == Text(p)
           U == Utf8(c)
           R == Text(r)
<1>5. P \in Seq(Bytes) /\ U \in Seq(Bytes) /\ R \in Seq(Bytes)
  BY <1>1, <1>2, TextIs, Utf8Assumption
<1>6. Text(s) = (P \o U) \o R
  BY <1>4
<1> HIDE DEF P, U, R
<1>7. /\ P \o U \in Seq(Bytes) /\ Len(P \o U) = Len(P) + Len(U)
      /\ \A m \in 1..(Len(P) + Len(U)) : (P \o U)[m] = IF m <= Len(P) THEN P[m] ELSE U[m - Len(P)]
  BY <1>5, ConcatProperties
<1>8. /\ Len(Text(s)) = Len(P \o U) + Len(R)
      /\ \A m \in 1..(Len(P \o U) + Len(R)) :
           Text(s)[m] = IF m <= Len(P \o U) THEN (P \o U)[m] ELSE R[m - Len(P \o U)]
  BY <1>5, <1>6, <1>7, ConcatProperties
<1>9. Len(P) \in Nat /\ Len(U) \in Nat /\ Len(R) \in Nat
  BY <1>5, LenProperties
<1>10. \A m \in 1..(Len(P) + Len(U)) : Text(s)[m] = IF m <= Len(P) THEN P[m] ELSE U[m - Len(P)]
  BY <1>7, <1>8, <1>9
<1>11. /\ Len(Text(s)) >= Len(P) + Len(U)
       /\ \A m \in 1..Len(P) : Text(s)[m] = P[m]
  BY <1>7, <1>8, <1>9, <1>10
<1>12. \A q \in 1..Len(U) : Text(s)[Len(P) + q] = U[q]
  <2>1. ASSUME NEW q \in 1..Len(U) PROVE Text(s)[Len(P) + q] = U[q]
    <3>1. /\ Len(P) + q \in 1..(Len(P) + Len(U)) /\ ~(Len(P) + q <= Len(P))
          /\ (Len(P) + q) - Len(P) = q
      BY <1>9
    <3> QED BY <1>10, <3>1
  <2> QED BY <2>1
<1> QED BY <1>2, <1>5, <1>11, <1>12 DEF P, U, c


\* A text has at least one byte for each character.
LEMMA TextLonger ==
  ASSUME NEW s \in Seq(Chars)
  PROVE  Len(s) <= Len(Text(s))
<1> DEFINE T == {n \in Nat : \A u \in Seq(Chars) : Len(u) = n => n <= Len(Text(u))}
<1>1. 0 \in T
  <2>1. ASSUME NEW u \in Seq(Chars) PROVE 0 <= Len(Text(u))
    <3>1. Text(u) \in Seq(Bytes)
      BY TextIs
    <3> QED BY <3>1, LenProperties
  <2> QED BY <2>1
<1>2. ASSUME NEW n \in T PROVE n + 1 \in T
  <2>1. ASSUME NEW u \in Seq(Chars), Len(u) = n + 1 PROVE n + 1 <= Len(Text(u))
    <3>1. PICK r \in Seq(Chars) : \E c \in Chars : u = Append(r, c) /\ Len(r) = n
      BY <2>1, LastApart
    <3>2. PICK c \in Chars : u = Append(r, c) /\ Len(r) = n
      BY <3>1
    <3>3. n <= Len(Text(r))
      BY <3>2
    <3>4. Text(u) = Text(r) \o Utf8(c) /\ Text(r) \in Seq(Bytes)
      BY <3>2, TextIs
    <3>5. Utf8(c) \in Seq(Bytes) /\ Len(Utf8(c)) \in Nat \ {0}
      <4>1. Utf8(c) \in Seq(Bytes) /\ Utf8(c) # <<>>
        BY Utf8Assumption
      <4> QED BY <4>1, EmptySeq
    <3>6. Len(Text(u)) = Len(Text(r)) + Len(Utf8(c)) /\ Len(Text(r)) \in Nat
      BY <3>4, <3>5, ConcatProperties, LenProperties
    <3> QED BY <3>3, <3>5, <3>6
  <2> QED BY <2>1
<1>3. T = Nat
  <2> HIDE DEF T
  <2>1. T \in SUBSET Nat
    BY DEF T
  <2> QED BY <1>1, <1>2, <2>1, NaturalsFrom
<1>4. Len(s) \in T
  <2> HIDE DEF T
  <2> QED BY <1>3, LenProperties
<1> QED BY <1>4

\* What the recursion of Size asks of its values.
WeighsAt(g, s, n) == IF n = 0 THEN 0 ELSE g[n - 1] + Width(s[n])
Weighs(g, s) == g = [n \in 0..Len(s) |-> WeighsAt(g, s, n)]

\* The recursion has a solution, however long the text.
LEMMA SizeDefined ==
  ASSUME NEW S, NEW s \in Seq(S)
  PROVE  Weighs(CHOOSE g : Weighs(g, s), s)
<1> DEFINE L == 0..Len(s)
           T == {n \in Nat : \E g : \A i \in L : i <= n => g[i] = WeighsAt(g, s, i)}
<1>1. 0 \in T
  <2> DEFINE h == [i \in L |-> 0]
  <2>1. \A i \in L : i <= 0 => h[i] = WeighsAt(h, s, i)
    BY LenProperties DEF WeighsAt
  <2> HIDE DEF h
  <2> QED BY <2>1
<1>2. ASSUME NEW n \in T PROVE n + 1 \in T
  <2>1. PICK g : \A i \in L : i <= n => g[i] = WeighsAt(g, s, i)
    OBVIOUS
  <2> DEFINE h == [i \in L |-> WeighsAt(g, s, i)]
  <2>2. \A i \in L : i <= n => h[i] = g[i]
    BY <2>1
  <2>3. ASSUME NEW i \in L, i <= n + 1 PROVE h[i] = WeighsAt(h, s, i)
    <3>1. h[i] = WeighsAt(g, s, i)
      OBVIOUS
    <3>2. CASE i = 0
      BY <3>1, <3>2 DEF WeighsAt
    <3>3. CASE i # 0
      <4>1. i - 1 \in L /\ i - 1 <= n
        BY <2>3, <3>3, LenProperties
      <4>2. h[i - 1] = g[i - 1]
        BY <2>2, <4>1
      <4> HIDE DEF h
      <4> QED BY <3>1, <3>3, <4>2 DEF WeighsAt
    <3> QED BY <3>2, <3>3
  <2>4. \E f : \A i \in L : i <= n + 1 => f[i] = WeighsAt(f, s, i)
    <3> HIDE DEF h
    <3> QED BY <2>3
  <2> HIDE DEF L
  <2> QED BY <2>4
<1>3. T = Nat
  <2> HIDE DEF T
  <2>1. T \in SUBSET Nat
    BY DEF T
  <2> QED BY <1>1, <1>2, <2>1, NaturalsFrom
<1>4. Len(s) \in T
  <2> HIDE DEF T
  <2> QED BY <1>3, LenProperties
<1>5. PICK g : \A i \in L : g[i] = WeighsAt(g, s, i)
  <2>1. PICK g : \A i \in L : i <= Len(s) => g[i] = WeighsAt(g, s, i)
    BY <1>4
  <2> QED BY <2>1, LenProperties
<1>6. \E f : Weighs(f, s)
  <2> DEFINE h == [i \in L |-> g[i]]
  <2>1. ASSUME NEW i \in L PROVE h[i] = WeighsAt(h, s, i)
    <3>1. i # 0 => i - 1 \in L
      BY LenProperties
    <3>2. i # 0 => h[i - 1] = g[i - 1]
      BY <3>1
    <3> QED BY <1>5, <3>2 DEF WeighsAt
  <2>2. h = [i \in L |-> h[i]]
    OBVIOUS
  <2> HIDE DEF h
  <2>3. h = [i \in L |-> WeighsAt(h, s, i)]
    BY <2>1, <2>2
  <2> QED BY <2>3 DEF Weighs
<1> QED BY <1>6

\* The widths of a text's characters add up to its bytes.
LEMMA SizeIs ==
  ASSUME NEW s \in Seq(Chars)
  PROVE  Abstract!Size(s) = Len(Text(s))
<1> DEFINE g == CHOOSE f : Weighs(f, s)
           head(n) == SubSeq(s, 1, n)
           T == {n \in Nat : n \in 0..Len(s) => g[n] = Len(Text(head(n)))}
<1>1. Abstract!Size(s) = g[Len(s)]
  BY DEF Abstract!Size, Weighs, WeighsAt
<1>2. \A n \in 0..Len(s) : g[n] = WeighsAt(g, s, n)
  <2>1. Weighs(g, s)
    BY SizeDefined
  <2> HIDE DEF g
  <2> QED BY <2>1 DEF Weighs
<1> HIDE DEF g
<1>3. Len(s) \in Nat /\ \A i \in 1..Len(s) : s[i] \in Chars
  BY LenProperties, ElementOfSeq
<1>4. \A n \in 0..Len(s) : head(n) \in Seq(Chars)
  BY <1>3, SubSeqProperties
<1>5. 0 \in T
  <2>1. g[0] = 0
    BY <1>2, <1>3 DEF WeighsAt
  <2>2. head(0) = <<>>
    BY SubSeqEmpty
  <2>3. Len(Text(head(0))) = 0
    BY <2>2, TextIs, EmptySeq
  <2> QED BY <2>1, <2>3
<1>6. ASSUME NEW n \in T PROVE n + 1 \in T
  <2>1. ASSUME n + 1 \in 0..Len(s) PROVE g[n + 1] = Len(Text(head(n + 1)))
    <3>1. n \in Nat /\ n \in 0..Len(s) /\ n + 1 \in 1..Len(s) /\ n + 1 # 0 /\ (n + 1) - 1 = n
      BY <1>3, <2>1
    <3>2. g[n + 1] = g[n] + Width(s[n + 1])
      BY <1>2, <2>1, <3>1 DEF WeighsAt
    <3>3. head(n + 1) = Append(head(n), s[n + 1])
      <4>1. SubSeq(s, 1, n + 1) = SubSeq(s, 1, n) \o <<s[n + 1]>>
        <5>1. 1 \in 1..Len(s) /\ n + 1 \in 1..Len(s)
          BY <1>3, <3>1
        <5> QED BY <3>1, <5>1, SubSeqRecursiveSecond
      <4> QED BY <1>3, <1>4, <3>1, <4>1, AppendIsConcat
    <3>4. Text(head(n + 1)) = Text(head(n)) \o Utf8(s[n + 1])
      BY <1>3, <1>4, <3>1, <3>3, TextIs
    <3>5. Text(head(n)) \in Seq(Bytes) /\ Utf8(s[n + 1]) \in Seq(Bytes)
      BY <1>3, <1>4, <3>1, TextIs, Utf8Assumption
    <3>6. Len(Text(head(n + 1))) = Len(Text(head(n))) + Width(s[n + 1])
      BY <3>4, <3>5, ConcatProperties DEF Width
    <3>7. g[n] = Len(Text(head(n)))
      BY <3>1
    <3> QED BY <3>2, <3>6, <3>7
  <2> QED BY <2>1
<1>7. T = Nat
  <2> HIDE DEF T
  <2>1. T \in SUBSET Nat
    BY DEF T
  <2> QED BY <1>5, <1>6, <2>1, NaturalsFrom
<1>8. g[Len(s)] = Len(Text(head(Len(s))))
  <2>1. \A n \in Nat : n \in T
    BY <1>7
  <2> QED BY <1>3, <2>1
<1>9. head(Len(s)) = s
  BY SubSeqFull
<1> QED BY <1>1, <1>8, <1>9

----------------------------------------------------------------------------
(* Comparison.                                                             *)

\* The same elements up to where one ends or has the smaller: an order.
LEMMA Compared ==
  ASSUME kind # "map", NEW s \in Seq(Nat), NEW t \in Seq(Nat)
  PROVE  /\ ~slice_lt(s, s)
         /\ slice_lt(s, t) => ~slice_lt(t, s)
         /\ s = t \/ slice_lt(s, t) \/ slice_lt(t, s)
<1>1. \A u, v : slice_lt(u, v) <=>
        \E i \in 1..Len(v) : /\ i <= Len(u) + 1
                             /\ \A j \in 1..i - 1 : u[j] = v[j]
                             /\ i <= Len(u) => u[i] < v[i]
  BY DEF slice_lt, Less
<1>2. /\ Len(s) \in Nat /\ \A i \in 1..Len(s) : s[i] \in Nat
      /\ Len(t) \in Nat /\ \A i \in 1..Len(t) : t[i] \in Nat
  BY LenProperties, ElementOfSeq
<1>3. ~slice_lt(s, s)
  BY <1>1, <1>2
<1>4. ASSUME slice_lt(s, t), slice_lt(t, s) PROVE FALSE
  <2>1. PICK i \in 1..Len(t) : /\ i <= Len(s) + 1
                               /\ \A j \in 1..i - 1 : s[j] = t[j]
                               /\ i <= Len(s) => s[i] < t[i]
    BY <1>1, <1>4
  <2>2. PICK k \in 1..Len(s) : /\ k <= Len(t) + 1
                               /\ \A j \in 1..k - 1 : t[j] = s[j]
                               /\ k <= Len(t) => t[k] < s[k]
    BY <1>1, <1>4
  <2>3. i \in Nat /\ k \in Nat
    BY <1>2
  <2>4. CASE i < k
    <3>1. i <= Len(s) /\ i \in 1..k - 1
      BY <1>2, <2>3, <2>4
    <3> QED BY <1>2, <2>1, <2>2, <3>1, SMTT(30)
  <2>5. CASE k < i
    <3>1. k <= Len(t) /\ k \in 1..i - 1
      BY <1>2, <2>3, <2>5
    <3> QED BY <1>2, <2>1, <2>2, <3>1
  <2>6. CASE i = k
    BY <1>2, <2>1, <2>2, <2>6
  <2> QED BY <2>3, <2>4, <2>5, <2>6
<1>5. ASSUME s # t PROVE slice_lt(s, t) \/ slice_lt(t, s)
  <2> DEFINE D == {i \in Nat : /\ i \in 1..(Len(s) + 1) /\ i \in 1..(Len(t) + 1)
                               /\ i = Len(s) + 1 \/ i = Len(t) + 1 \/ s[i] # t[i]}
  <2>1. D # {}
    <3>1. CASE Len(s) <= Len(t)
      <4>1. Len(s) + 1 \in D
        BY <1>2, <3>1
      <4> HIDE DEF D
      <4> QED BY <4>1
    <3>2. CASE Len(t) <= Len(s)
      <4>1. Len(t) + 1 \in D
        BY <1>2, <3>2
      <4> HIDE DEF D
      <4> QED BY <4>1
    <3> HIDE DEF D
    <3> QED BY <1>2, <3>1, <3>2
  <2>2. PICK i \in D : \A j \in D : i <= j
    <3> HIDE DEF D
    <3>1. D \in SUBSET Nat
      BY DEF D
    <3> QED BY <2>1, <3>1, LeastOf
  <2>3. \A j \in 1..i - 1 : j \in 1..Len(s) /\ j \in 1..Len(t) /\ s[j] = t[j]
    <3>1. ASSUME NEW j \in 1..i - 1 PROVE j \in 1..Len(s) /\ j \in 1..Len(t) /\ s[j] = t[j]
      <4>1. i \in Nat /\ j \in Nat /\ ~(i <= j) /\ i <= Len(s) + 1 /\ i <= Len(t) + 1
        BY <1>2
      <4>2. j \notin D
        BY <2>2, <4>1
      <4>3. j \in 1..Len(s) /\ j \in 1..Len(t)
        BY <1>2, <4>1
      <4> QED BY <1>2, <4>1, <4>2, <4>3
    <3> QED BY <3>1
  <2>4. CASE i = Len(s) + 1 /\ i = Len(t) + 1
    <3>1. Len(s) = Len(t) /\ \A j \in 1..Len(s) : s[j] = t[j]
      BY <1>2, <2>3, <2>4
    <3> QED BY <1>5, <3>1, SeqEqual
  <2>5. CASE i <= Len(t) /\ (i <= Len(s) => s[i] < t[i])
    <3>1. i \in 1..Len(t) /\ i <= Len(s) + 1
      BY <1>2, <2>5
    <3> QED BY <1>1, <2>3, <2>5, <3>1
  <2>6. CASE i <= Len(s) /\ (i <= Len(t) => t[i] < s[i])
    <3>1. i \in 1..Len(s) /\ i <= Len(t) + 1
      BY <1>2, <2>6
    <3> QED BY <1>1, <2>3, <2>6, <3>1
  <2> QED BY <1>2, <2>4, <2>5, <2>6
<1> QED BY <1>3, <1>4, <1>5

\* TextAt of every text and position.
LEMMA TextAround ==
  \A s \in Seq(Chars) : \A i \in 1..Len(s) :
    /\ Len(Text(s)) >= Len(Text(SubSeq(s, 1, i - 1))) + Len(Utf8(s[i]))
    /\ \A m \in 1..Len(Text(SubSeq(s, 1, i - 1))) :
         Text(s)[m] = Text(SubSeq(s, 1, i - 1))[m]
    /\ \A q \in 1..Len(Utf8(s[i])) :
         Text(s)[Len(Text(SubSeq(s, 1, i - 1))) + q] = Utf8(s[i])[q]
<1> SUFFICES ASSUME NEW s \in Seq(Chars), NEW i \in 1..Len(s)
             PROVE  /\ Len(Text(s)) >= Len(Text(SubSeq(s, 1, i - 1))) + Len(Utf8(s[i]))
                    /\ \A m \in 1..Len(Text(SubSeq(s, 1, i - 1))) :
                         Text(s)[m] = Text(SubSeq(s, 1, i - 1))[m]
                    /\ \A q \in 1..Len(Utf8(s[i])) :
                         Text(s)[Len(Text(SubSeq(s, 1, i - 1))) + q] = Utf8(s[i])[q]
  OBVIOUS
<1> DEFINE p == SubSeq(s, 1, i - 1)
<1>1. p = SubSeq(s, 1, i - 1)
  OBVIOUS
<1> HIDE DEF p
<1>2. /\ Len(Text(s)) >= Len(Text(p)) + Len(Utf8(s[i]))
      /\ \A m \in 1..Len(Text(p)) : Text(s)[m] = Text(p)[m]
      /\ \A q \in 1..Len(Utf8(s[i])) : Text(s)[Len(Text(p)) + q] = Utf8(s[i])[q]
  BY <1>1, TextAt, ZenonT(30)
<1> QED BY <1>2 DEF p

\* The bytes of texts compare as their characters do, one way.
LEMMA TextAscends ==
  ASSUME kind # "map", NEW s \in Seq(Chars), NEW t \in Seq(Chars), slice_lt(s, t)
  PROVE  slice_lt(Text(s), Text(t))
<1>1. \A u, v : slice_lt(u, v) <=>
        \E i \in 1..Len(v) : /\ i <= Len(u) + 1
                             /\ \A j \in 1..i - 1 : u[j] = v[j]
                             /\ i <= Len(u) => u[i] < v[i]
  BY DEF slice_lt, Less
<1>2. PICK i \in 1..Len(t) : /\ i <= Len(s) + 1
                             /\ \A j \in 1..i - 1 : s[j] = t[j]
                             /\ i <= Len(s) => s[i] < t[i]
  BY <1>1
<1>3. /\ Len(s) \in Nat /\ \A j \in 1..Len(s) : s[j] \in Chars
      /\ Len(t) \in Nat /\ \A j \in 1..Len(t) : t[j] \in Chars
      /\ i \in Nat
  BY LenProperties, ElementOfSeq
<1> DEFINE p == SubSeq(t, 1, i - 1)
           P == Text(p)
           X == Text(s)
           Y == Text(t)
<1>4. /\ p \in Seq(Chars) /\ P \in Seq(Bytes)
      /\ Len(Y) >= Len(P) + Len(Utf8(t[i]))
      /\ \A m \in 1..Len(P) : Y[m] = P[m]
      /\ \A q \in 1..Len(Utf8(t[i])) : Y[Len(P) + q] = Utf8(t[i])[q]
  BY TextAt
<1>5. SubSeq(s, 1, i - 1) = p
  <2> DEFINE r == SubSeq(s, 1, i - 1)
  <2>1. /\ r \in Seq(Chars) /\ Len(r) = (IF 1 <= i - 1 THEN (i - 1) - 1 + 1 ELSE 0)
        /\ \A j \in 1..(i - 1) - 1 + 1 : r[j] = s[(1 + j) - 1]
    BY <1>2, <1>3, SubSeqProperties
  <2>2. /\ p \in Seq(Chars) /\ Len(p) = (IF 1 <= i - 1 THEN (i - 1) - 1 + 1 ELSE 0)
        /\ \A j \in 1..(i - 1) - 1 + 1 : p[j] = t[(1 + j) - 1]
    BY <1>2, <1>3, SubSeqProperties
  <2> HIDE DEF r, p
  <2>3. Len(r) = i - 1 /\ Len(p) = i - 1 /\ \A j \in 1..i - 1 : r[j] = s[j] /\ p[j] = t[j]
    BY <1>3, <2>1, <2>2
  <2>4. \A j \in 1..Len(r) : r[j] = p[j]
    BY <1>2, <2>3
  <2>5. r = p
    BY <2>1, <2>2, <2>3, <2>4, SeqEqual
  <2> QED BY <2>5 DEF r
<1>6. CASE i = Len(s) + 1
  <2>1. p = s
    <3>1. SubSeq(s, 1, Len(s)) = s
      BY SubSeqFull
    <3> HIDE DEF p
    <3> QED BY <1>3, <1>5, <1>6, <3>1
  <2>2. Len(Utf8(t[i])) \in Nat \ {0}
    <3>1. Utf8(t[i]) \in Seq(Bytes) /\ Utf8(t[i]) # <<>>
      BY <1>3, Utf8Assumption
    <3> QED BY <3>1, EmptySeq
  <2>3. X = P /\ Len(P) \in Nat
    BY <1>4, <2>1, LenProperties
  <2>4. Y \in Seq(Bytes) /\ Len(Y) \in Nat
    BY TextIs, LenProperties
  <2> DEFINE m == Len(P) + 1
  <2> HIDE DEF P, Y, X
  <2>5. m \in 1..Len(Y) /\ m <= Len(X) + 1 /\ ~(m <= Len(X)) /\ \A j \in 1..m - 1 : X[j] = Y[j]
    BY <1>4, <2>2, <2>3, <2>4
  <2> HIDE DEF m
  <2>6. slice_lt(X, Y)
    BY <1>1, <2>5
  <2> QED BY <2>6 DEF X, Y
<1>7. CASE i <= Len(s)
  <2>1. /\ Len(X) >= Len(P) + Len(Utf8(s[i]))
        /\ \A m \in 1..Len(P) : X[m] = P[m]
        /\ \A q \in 1..Len(Utf8(s[i])) : X[Len(P) + q] = Utf8(s[i])[q]
    <3> DEFINE r == SubSeq(s, 1, i - 1)
    <3>1. i \in 1..Len(s)
      BY <1>3, <1>7
    <3>2. /\ Len(Text(s)) >= Len(Text(r)) + Len(Utf8(s[i]))
          /\ \A m \in 1..Len(Text(r)) : Text(s)[m] = Text(r)[m]
          /\ \A q \in 1..Len(Utf8(s[i])) : Text(s)[Len(Text(r)) + q] = Utf8(s[i])[q]
      BY <3>1, TextAround, Zenon
    <3>3. r = p
      BY <1>5
    <3> HIDE DEF r, p
    <3> QED BY <3>2, <3>3
  <2>2. s[i] \in Chars /\ t[i] \in Chars /\ s[i] < t[i]
    BY <1>2, <1>3, <1>7
  <2>3. PICK q \in DOMAIN Utf8(s[i]) \cap DOMAIN Utf8(t[i]) :
          /\ Utf8(s[i])[q] < Utf8(t[i])[q]
          /\ \A j \in 1..q - 1 : Utf8(s[i])[j] = Utf8(t[i])[j]
    BY <2>2, Utf8Assumption
  <2> DEFINE a == Utf8(s[i])
             b == Utf8(t[i])
             m == Len(P) + q
  <2>4. /\ a \in Seq(Bytes) /\ b \in Seq(Bytes)
        /\ Len(a) \in Nat /\ Len(b) \in Nat /\ q \in 1..Len(a) /\ q \in 1..Len(b)
        /\ a[q] < b[q] /\ \A j \in 1..q - 1 : a[j] = b[j]
    BY <2>2, <2>3, Utf8Assumption, LenProperties
  <2>5. X \in Seq(Bytes) /\ Y \in Seq(Bytes) /\ Len(X) \in Nat /\ Len(Y) \in Nat /\ Len(P) \in Nat
    BY <1>4, TextIs, LenProperties
  <2>6. /\ Len(X) >= Len(P) + Len(a) /\ \A j \in 1..Len(a) : X[Len(P) + j] = a[j]
        /\ Len(Y) >= Len(P) + Len(b) /\ \A j \in 1..Len(b) : Y[Len(P) + j] = b[j]
        /\ \A j \in 1..Len(P) : X[j] = Y[j]
    BY <1>4, <2>1
  <2> HIDE DEF a, b, P, X, Y
  <2>7. m \in 1..Len(Y) /\ m <= Len(X) /\ X[m] < Y[m]
    <3>1. X[m] = a[q] /\ Y[m] = b[q]
      BY <2>4, <2>6
    <3>2. m \in Nat /\ m >= 1 /\ m <= Len(P) + Len(a) /\ m <= Len(P) + Len(b)
      BY <2>4, <2>5, SMTT(30)
    <3>3. m <= Len(X) /\ m <= Len(Y)
      BY <2>4, <2>5, <2>6, <3>2, SMTT(30)
    <3> QED BY <2>4, <2>5, <3>1, <3>2, <3>3
  <2>8. \A j \in 1..m - 1 : X[j] = Y[j]
    <3>1. ASSUME NEW j \in 1..m - 1, ~(j <= Len(P)) PROVE X[j] = Y[j]
      <4>1. /\ j - Len(P) \in 1..q - 1 /\ j - Len(P) \in 1..Len(a) /\ j - Len(P) \in 1..Len(b)
            /\ Len(P) + (j - Len(P)) = j
        BY <2>4, <2>5, <3>1, SMTT(30)
      <4>2. X[j] = a[j - Len(P)] /\ Y[j] = b[j - Len(P)]
        BY <2>6, <4>1
      <4> QED BY <2>4, <4>1, <4>2
    <3>2. ASSUME NEW j \in 1..m - 1, j <= Len(P) PROVE X[j] = Y[j]
      BY <2>5, <2>6, <3>2
    <3> QED BY <3>1, <3>2
  <2> HIDE DEF m
  <2>9. m <= Len(X) + 1
    BY <2>5, <2>7
  <2>10. slice_lt(X, Y)
    BY <1>1, <2>7, <2>8, <2>9
  <2> QED BY <2>10 DEF X, Y
<1> QED BY <1>2, <1>3, <1>6, <1>7

\* The bytes of texts compare as their characters do, and tell texts apart.
LEMMA TextCompares ==
  ASSUME kind # "map", NEW s \in Seq(Chars), NEW t \in Seq(Chars)
  PROVE  /\ slice_lt(s, t) <=> slice_lt(Text(s), Text(t))
         /\ s = t <=> Text(s) = Text(t)
<1>1. s \in Seq(Nat) /\ t \in Seq(Nat) /\ Text(s) \in Seq(Nat) /\ Text(t) \in Seq(Nat)
  <2>1. Chars \subseteq Nat /\ Bytes \subseteq Nat
    BY Utf8Assumption
  <2>2. Text(s) \in Seq(Bytes) /\ Text(t) \in Seq(Bytes)
    BY TextIs
  <2> QED BY <2>1, <2>2, SeqMonotonic
<1>2. s = t \/ slice_lt(s, t) \/ slice_lt(t, s)
  BY <1>1, Compared
<1>3. /\ slice_lt(s, t) => slice_lt(Text(s), Text(t))
      /\ slice_lt(t, s) => slice_lt(Text(t), Text(s))
  BY TextAscends
<1>4. /\ ~slice_lt(Text(s), Text(s)) /\ (slice_lt(Text(s), Text(t)) => ~slice_lt(Text(t), Text(s)))
      /\ ~slice_lt(Text(t), Text(t)) /\ (slice_lt(Text(t), Text(s)) => ~slice_lt(Text(s), Text(t)))
  BY <1>1, Compared
<1> QED BY <1>2, <1>3, <1>4


----------------------------------------------------------------------------
(* Binary search.                                                          *)

\* What the recursion of binary_search asks of its values.
Spans == (0..Capacity) \X (0..Capacity)
Mid(span) == (span[1] + span[2]) \div 2
ProbeAt(g, v, k, span) ==
  IF span[1] >= span[2] THEN [found |-> FALSE, pos |-> span[1]]
  ELSE IF v.items[Mid(span)][1] = k THEN [found |-> TRUE, pos |-> Mid(span)]
  ELSE IF v.items[Mid(span)][1] < k THEN g[<<Mid(span) + 1, span[2]>>]
  ELSE g[<<span[1], Mid(span)>>]
Probes(g, v, k) == g = [span \in Spans |-> ProbeAt(g, v, k, span)]

\* The middle slot is a live one, and what is left on either side is shorter.
LEMMA Halving ==
  ASSUME Capacity \in Nat, NEW span \in Spans, span[1] < span[2]
  PROVE  /\ Mid(span) \in span[1]..(span[2] - 1)
         /\ <<Mid(span) + 1, span[2]>> \in Spans
         /\ <<span[1], Mid(span)>> \in Spans
<1>1. span[1] \in 0..Capacity /\ span[2] \in 0..Capacity
  BY DEF Spans
<1>2. Mid(span) \in Int /\ span[1] <= Mid(span) /\ Mid(span) < span[2]
  BY <1>1 DEF Mid
<1> QED BY <1>1, <1>2 DEF Spans

\* The recursion has a solution, whatever the slots hold.
LEMMA SearchDefined ==
  ASSUME Capacity \in Nat, NEW v, NEW k
  PROVE  Probes(CHOOSE g : Probes(g, v, k), v, k)
<1> DEFINE T == {n \in Nat : \E g : \A span \in Spans :
                   span[2] - span[1] <= n => g[span] = ProbeAt(g, v, k, span)}
<1>1. \A span \in Spans : span[1] \in 0..Capacity /\ span[2] \in 0..Capacity
  BY DEF Spans
<1>2. 0 \in T
  <2> DEFINE h == [span \in Spans |-> [found |-> FALSE, pos |-> span[1]]]
  <2>1. ASSUME NEW span \in Spans, span[2] - span[1] <= 0
        PROVE  h[span] = ProbeAt(h, v, k, span)
    <3>1. span[1] >= span[2]
      BY <1>1, <2>1
    <3> QED BY <3>1 DEF ProbeAt
  <2> HIDE DEF h
  <2> QED BY <2>1
<1>3. ASSUME NEW n \in T PROVE n + 1 \in T
  <2>1. PICK g : \A span \in Spans :
                   span[2] - span[1] <= n => g[span] = ProbeAt(g, v, k, span)
    OBVIOUS
  <2> DEFINE h == [span \in Spans |-> ProbeAt(g, v, k, span)]
  <2>2. \A span \in Spans : span[2] - span[1] <= n => h[span] = g[span]
    BY <2>1
  <2>3. ASSUME NEW span \in Spans, span[2] - span[1] <= n + 1
        PROVE  h[span] = ProbeAt(h, v, k, span)
    <3>1. h[span] = ProbeAt(g, v, k, span)
      OBVIOUS
    <3>2. CASE span[1] >= span[2]
      BY <3>1, <3>2 DEF ProbeAt
    <3>3. CASE span[1] < span[2]
      <4> DEFINE a == <<Mid(span) + 1, span[2]>>
                 b == <<span[1], Mid(span)>>
      <4>1. /\ a \in Spans /\ a[2] - a[1] <= n
            /\ b \in Spans /\ b[2] - b[1] <= n
        <5>1. Mid(span) \in span[1]..(span[2] - 1) /\ a \in Spans /\ b \in Spans
          BY <3>3, Halving
        <5>2. a[1] = Mid(span) + 1 /\ a[2] = span[2] /\ b[1] = span[1] /\ b[2] = Mid(span)
          OBVIOUS
        <5> HIDE DEF a, b
        <5> QED BY <1>1, <2>3, <5>1, <5>2
      <4>2. h[a] = g[a] /\ h[b] = g[b]
        <5> HIDE DEF h, a, b
        <5> QED BY <2>2, <4>1
      <4> HIDE DEF h
      <4> QED BY <3>1, <3>3, <4>2 DEF ProbeAt
    <3> QED BY <1>1, <3>2, <3>3
  <2>4. \E f : \A span \in Spans :
          span[2] - span[1] <= n + 1 => f[span] = ProbeAt(f, v, k, span)
    <3> HIDE DEF h
    <3> QED BY <2>3
  <2> QED BY <2>4
<1>4. T = Nat
  <2> HIDE DEF T
  <2>1. T \in SUBSET Nat
    BY DEF T
  <2> QED BY <1>2, <1>3, <2>1, NaturalsFrom
<1>5. Capacity \in T
  <2> HIDE DEF T
  <2> QED BY <1>4
<1>6. PICK g : \A span \in Spans : g[span] = ProbeAt(g, v, k, span)
  <2>1. PICK g : \A span \in Spans :
                   span[2] - span[1] <= Capacity => g[span] = ProbeAt(g, v, k, span)
    BY <1>5
  <2> QED BY <1>1, <2>1
<1>7. \E f : Probes(f, v, k)
  <2> DEFINE h == [span \in Spans |-> g[span]]
  <2>1. ASSUME NEW span \in Spans PROVE h[span] = ProbeAt(h, v, k, span)
    <3>1. CASE span[1] >= span[2]
      BY <1>6, <3>1 DEF ProbeAt
    <3>2. CASE span[1] < span[2]
      <4> DEFINE a == <<Mid(span) + 1, span[2]>>
                 b == <<span[1], Mid(span)>>
      <4>1. h[a] = g[a] /\ h[b] = g[b] /\ h[span] = g[span]
        <5>1. a \in Spans /\ b \in Spans
          BY <3>2, Halving
        <5> HIDE DEF a, b
        <5> QED BY <5>1
      <4> HIDE DEF h
      <4> QED BY <1>6, <4>1 DEF ProbeAt
    <3> QED BY <1>1, <3>1, <3>2
  <2>2. h = [span \in Spans |-> h[span]]
    OBVIOUS
  <2> HIDE DEF h
  <2>3. h = [span \in Spans |-> ProbeAt(h, v, k, span)]
    BY <2>1, <2>2
  <2> QED BY <2>3 DEF Probes
<1> QED BY <1>7

\* The slots of a value, and a map's keys in them.
Shape(v) == v \in [len : 0..Capacity, items : [Slots -> Item]]
KeyAt(v, i) == v.items[i][1]

\* Where a key is among a map's live slots, or where it would go.
Sought(v, k, at) ==
  \/ /\ at.found = TRUE
     /\ at.pos \in 0..v.len - 1
     /\ KeyAt(v, at.pos) = k
  \/ /\ at.found = FALSE
     /\ at.pos \in 0..v.len
     /\ \A i \in 0..v.len - 1 : i < at.pos => KeyAt(v, i) < k
     /\ \A i \in 0..v.len - 1 : i >= at.pos => KeyAt(v, i) > k

\* What a map's slots are.
LEMMA MapShape ==
  ASSUME Capacity \in Nat, kind = "map", NEW v, Shape(v)
  PROVE  /\ v.len \in 0..Capacity
         /\ v = [len |-> v.len, items |-> v.items]
         /\ v.items \in [Slots -> Keys \X Elems]
         /\ \A i \in Slots : /\ KeyAt(v, i) \in Keys /\ KeyAt(v, i) \in Nat
                             /\ v.items[i][2] \in Elems
                             /\ v.items[i] = <<KeyAt(v, i), v.items[i][2]>>
         /\ \A i \in 0..v.len - 1 : i \in Slots /\ i \in Nat
<1>1. Keys \subseteq Nat
  BY FixedAssumption
<1>2. v.items \in [Slots -> Keys \X Elems] /\ v.len \in 0..Capacity
      /\ v = [len |-> v.len, items |-> v.items]
  BY DEF Shape, Item
<1>3. \A i \in Slots : v.items[i] \in Keys \X Elems
  BY <1>2
<1>4. \A e \in Keys \X Elems : e[1] \in Keys /\ e[2] \in Elems /\ e = <<e[1], e[2]>>
  OBVIOUS
<1>5. \A i \in 0..v.len - 1 : i \in Slots /\ i \in Nat
  BY <1>2 DEF Slots
<1> QED BY <1>1, <1>2, <1>3, <1>4, <1>5 DEF KeyAt

\* A search for a key finds it, or the place it would take.
LEMMA SearchIs ==
  ASSUME Capacity \in Nat, kind = "map", NEW v, Shape(v), Ascending(v), NEW k \in Keys
  PROVE  Sought(v, k, binary_search(v, k))
<1> DEFINE g == CHOOSE f : Probes(f, v, k)
           Left(span) ==
             /\ span[1] <= span[2] /\ span[2] <= v.len
             /\ \A i \in 0..v.len - 1 : i < span[1] => KeyAt(v, i) < k
             /\ \A i \in 0..v.len - 1 : i >= span[2] => KeyAt(v, i) > k
           T == {n \in Nat : \A span \in Spans :
                   span[2] - span[1] <= n /\ Left(span) => Sought(v, k, g[span])}
<1>1. binary_search(v, k) = g[<<0, v.len>>]
  BY DEF binary_search, Probes, ProbeAt, Spans, Mid
<1>2. \A span \in Spans : g[span] = ProbeAt(g, v, k, span)
  <2>1. Probes(g, v, k)
    BY SearchDefined
  <2> HIDE DEF g
  <2> QED BY <2>1 DEF Probes
<1> HIDE DEF g
<1>3. \A span \in Spans : span[1] \in 0..Capacity /\ span[2] \in 0..Capacity
  BY DEF Spans
<1>4. /\ v.len \in 0..Capacity /\ k \in Nat
      /\ \A i \in 0..v.len - 1 : KeyAt(v, i) \in Nat
      /\ \A i, j \in 0..v.len - 1 : i < j => KeyAt(v, i) < KeyAt(v, j)
  <2>1. k \in Nat
    BY FixedAssumption
  <2> QED BY <2>1, MapShape DEF Ascending, KeyAt
<1>5. ASSUME NEW span \in Spans, Left(span), span[1] >= span[2]
      PROVE  Sought(v, k, g[span])
  <2>1. g[span] = [found |-> FALSE, pos |-> span[1]]
    BY <1>2, <1>5 DEF ProbeAt
  <2>2. g[span].found = FALSE /\ g[span].pos = span[1]
    BY <2>1
  <2>3. span[1] = span[2] /\ span[1] \in 0..v.len
    BY <1>3, <1>4, <1>5
  <2>4. /\ \A i \in 0..v.len - 1 : i < span[1] => KeyAt(v, i) < k
        /\ \A i \in 0..v.len - 1 : i >= span[1] => KeyAt(v, i) > k
    BY <1>5, <2>3
  <2> QED BY <2>2, <2>3, <2>4 DEF Sought
<1>6. 0 \in T
  <2>1. ASSUME NEW span \in Spans, span[2] - span[1] <= 0, Left(span) PROVE Sought(v, k, g[span])
    <3>1. span[1] >= span[2]
      BY <1>3, <2>1
    <3> QED BY <1>5, <2>1, <3>1
  <2> QED BY <2>1
<1>7. ASSUME NEW n \in T PROVE n + 1 \in T
  <2>1. ASSUME NEW span \in Spans, span[2] - span[1] <= n + 1, Left(span)
        PROVE  Sought(v, k, g[span])
    <3>1. CASE span[1] >= span[2]
      BY <1>5, <2>1, <3>1
    <3>2. CASE span[1] < span[2]
      <4> DEFINE m == Mid(span)
                 a == <<m + 1, span[2]>>
                 b == <<span[1], m>>
      <4>1. /\ m \in span[1]..(span[2] - 1)
            /\ a \in Spans /\ a[1] = m + 1 /\ a[2] = span[2]
            /\ b \in Spans /\ b[1] = span[1] /\ b[2] = m
        BY <3>2, Halving
      <4>2. g[span] = IF KeyAt(v, m) = k THEN [found |-> TRUE, pos |-> m]
                      ELSE IF KeyAt(v, m) < k THEN g[a] ELSE g[b]
        <5>1. ~(span[1] >= span[2])
          BY <1>3, <3>2
        <5> QED BY <1>2, <5>1 DEF ProbeAt, KeyAt
      <4>3. \A s \in Spans : s[2] - s[1] <= n /\ Left(s) => Sought(v, k, g[s])
        OBVIOUS
      <4> HIDE DEF m, a, b, T
      <4>4. m \in 0..v.len - 1 /\ m \in Nat /\ n \in Nat
        BY <1>3, <1>4, <2>1, <4>1 DEF T
      <4>5. CASE KeyAt(v, m) = k
        <5>1. g[span].found = TRUE /\ g[span].pos = m
          BY <4>2, <4>5
        <5> QED BY <4>4, <4>5, <5>1 DEF Sought
      <4>6. CASE KeyAt(v, m) < k
        <5>1. g[span] = g[a]
          BY <1>4, <4>2, <4>4, <4>6
        <5>2. a[2] - a[1] <= n /\ a[1] <= a[2] /\ a[2] <= v.len
          BY <1>3, <1>4, <2>1, <4>1, <4>4
        <5>3. \A i \in 0..v.len - 1 : i < a[1] => KeyAt(v, i) < k
          <6>1. \A i \in 0..v.len - 1 : i < m + 1 => i = m \/ i < m
            BY <1>4, <4>4
          <6>2. \A i \in 0..v.len - 1 : i < m => KeyAt(v, i) < KeyAt(v, m)
            BY <1>4, <4>4
          <6> QED BY <1>4, <4>1, <4>4, <4>6, <6>1, <6>2
        <5>4. \A i \in 0..v.len - 1 : i >= a[2] => KeyAt(v, i) > k
          BY <2>1, <4>1
        <5> QED BY <4>1, <4>3, <5>1, <5>2, <5>3, <5>4
      <4>7. CASE KeyAt(v, m) > k
        <5>1. g[span] = g[b]
          BY <1>4, <4>2, <4>4, <4>7
        <5>2. b[2] - b[1] <= n /\ b[1] <= b[2] /\ b[2] <= v.len
          BY <1>3, <1>4, <2>1, <4>1, <4>4
        <5>3. \A i \in 0..v.len - 1 : i >= b[2] => KeyAt(v, i) > k
          <6>1. \A i \in 0..v.len - 1 : i >= m => i = m \/ m < i
            BY <1>4, <4>4
          <6>2. \A i \in 0..v.len - 1 : m < i => KeyAt(v, m) < KeyAt(v, i)
            BY <1>4, <4>4
          <6> QED BY <1>4, <4>1, <4>4, <4>7, <6>1, <6>2
        <5>4. \A i \in 0..v.len - 1 : i < b[1] => KeyAt(v, i) < k
          BY <2>1, <4>1
        <5> QED BY <4>1, <4>3, <5>1, <5>2, <5>3, <5>4
      <4> QED BY <1>4, <4>4, <4>5, <4>6, <4>7
    <3> QED BY <1>3, <3>1, <3>2
  <2> QED BY <2>1
<1>8. T = Nat
  <2> HIDE DEF T
  <2>1. T \in SUBSET Nat
    BY DEF T
  <2> QED BY <1>6, <1>7, <2>1, NaturalsFrom
<1>9. Sought(v, k, g[<<0, v.len>>])
  <2> DEFINE w == <<0, v.len>>
  <2>1. v.len \in T
    <3>1. v.len \in Nat
      BY <1>4
    <3> HIDE DEF T
    <3> QED BY <1>8, <3>1
  <2>2. w \in Spans /\ w[1] = 0 /\ w[2] = v.len
    BY <1>4 DEF Spans
  <2> HIDE DEF w
  <2>3. w[2] - w[1] <= v.len /\ Left(w)
    BY <1>4, <2>2
  <2>4. Sought(v, k, g[w])
    BY <2>1, <2>2, <2>3
  <2> QED BY <2>4 DEF w
<1> QED BY <1>1, <1>9


----------------------------------------------------------------------------
(* The live slots as a sequence.                                           *)

\* What the type tried fixes.
LEMMA KindIs ==
  ASSUME kind \in Kinds
  PROVE  /\ kind \in {"vec", "map", "string", "option"}
         /\ Capacity \in Nat
         /\ kind = "option" => Capacity = 1
         /\ Default \in Item
BY FixedAssumption, Utf8Assumption DEF Capacity, Default, Item

\* The live slots, one after the other.
LEMMA SliceIs ==
  ASSUME Capacity \in Nat, NEW v, Shape(v)
  PROVE  /\ v = [len |-> v.len, items |-> v.items]
         /\ v.len \in Nat /\ v.len <= Capacity
         /\ as_slice(v) \in Seq(Item) /\ Len(as_slice(v)) = v.len
         /\ \A i \in 1..v.len : as_slice(v)[i] = v.items[i - 1]
         /\ \A i \in Slots : v.items[i] \in Item
         /\ \A i : i \in Slots <=> i \in 0..Capacity - 1
<1>1. /\ v = [len |-> v.len, items |-> v.items] /\ v.len \in Nat /\ v.len <= Capacity
      /\ v.items \in [Slots -> Item]
  BY DEF Shape
<1>2. \A i \in 1..v.len : i - 1 \in Slots
  BY <1>1 DEF Slots
<1>3. \A i \in 1..v.len : v.items[i - 1] \in Item
  BY <1>1, <1>2
<1>4. as_slice(v) = [i \in 1..v.len |-> v.items[i - 1]]
  BY DEF as_slice
<1>5. as_slice(v) \in Seq(Item) /\ Len(as_slice(v)) = v.len
  BY <1>1, <1>3, <1>4
<1>6. \A i \in Slots : v.items[i] \in Item
  BY <1>1
<1>7. \A i : i \in Slots <=> i \in 0..Capacity - 1
  BY DEF Slots
<1>8. \A i \in 1..v.len : as_slice(v)[i] = v.items[i - 1]
  BY <1>4
<1> QED BY <1>1, <1>5, <1>6, <1>7, <1>8

\* Two sequences, one after the other.
LEMMA Joined ==
  ASSUME NEW S, NEW x \in Seq(S), NEW y \in Seq(S)
  PROVE  /\ x \o y \in Seq(S) /\ Len(x \o y) = Len(x) + Len(y)
         /\ \A j \in 1..Len(x) : (x \o y)[j] = x[j]
         /\ \A j \in 1..Len(y) : (x \o y)[Len(x) + j] = y[j]
<1>1. Len(x) \in Nat /\ Len(y) \in Nat
  BY LenProperties
<1>2. /\ x \o y \in Seq(S) /\ Len(x \o y) = Len(x) + Len(y)
      /\ \A j \in 1..(Len(x) + Len(y)) :
           (x \o y)[j] = IF j <= Len(x) THEN x[j] ELSE y[j - Len(x)]
  BY ConcatProperties
<1>3. \A j \in 1..Len(x) : (x \o y)[j] = x[j]
  BY <1>1, <1>2
<1>4. \A j \in 1..Len(y) : /\ Len(x) + j \in 1..(Len(x) + Len(y))
                           /\ ~(Len(x) + j <= Len(x)) /\ (Len(x) + j) - Len(x) = j
  BY <1>1
<1> QED BY <1>2, <1>3, <1>4

\* A sequence with one more element at a place.
LEMMA InsertedAt ==
  ASSUME NEW S, NEW s \in Seq(S), NEW e \in S, NEW i \in 1..(Len(s) + 1),
         NEW t \in Seq(S), Len(t) = Len(s) + 1,
         \A j \in 1..i - 1 : t[j] = s[j],
         t[i] = e,
         \A j \in i + 1..(Len(s) + 1) : t[j] = s[j - 1]
  PROVE  Abstract!InsertAt(s, i, e) = t
<1> DEFINE a == SubSeq(s, 1, i - 1)
           b == <<e>>
           c == SubSeq(s, i, Len(s))
<1>1. Len(s) \in Nat /\ i \in Nat /\ \A j \in 1..Len(s) : s[j] \in S
  BY LenProperties, ElementOfSeq
<1>2. /\ a \in Seq(S) /\ Len(a) = i - 1
      /\ \A j \in 1..i - 1 : a[j] = s[j]
  BY <1>1
<1>3. b \in Seq(S) /\ Len(b) = 1 /\ b[1] = e
  OBVIOUS
<1>4. /\ c \in Seq(S) /\ Len(c) = (Len(s) - i) + 1
      /\ \A j \in 1..(Len(s) - i) + 1 : c[j] = s[(i + j) - 1]
  BY <1>1
<1>5. Abstract!InsertAt(s, i, e) = (a \o b) \o c
  BY DEF Abstract!InsertAt
<1> HIDE DEF a, b, c
<1> DEFINE ab == a \o b
<1>6. /\ ab \in Seq(S) /\ Len(ab) = i
      /\ \A j \in 1..i - 1 : ab[j] = s[j]
      /\ ab[i] = e
  <2>1. /\ ab \in Seq(S) /\ Len(ab) = Len(a) + Len(b)
        /\ \A j \in 1..Len(a) : ab[j] = a[j]
        /\ \A j \in 1..Len(b) : ab[Len(a) + j] = b[j]
    <3>1. a \in Seq(S) /\ b \in Seq(S)
      BY <1>2, <1>3
    <3> QED BY <3>1, Joined
  <2>2. Len(a) + 1 = i /\ 1 \in 1..Len(b) /\ Len(a) = i - 1
    BY <1>1, <1>2, <1>3
  <2> HIDE DEF ab
  <2> QED BY <1>2, <1>3, <2>1, <2>2
<1> HIDE DEF ab
<1>7. /\ ab \o c \in Seq(S) /\ Len(ab \o c) = Len(s) + 1
      /\ \A j \in 1..i : (ab \o c)[j] = ab[j]
      /\ \A j \in 1..(Len(s) - i) + 1 : (ab \o c)[i + j] = c[j]
  <2>1. i + ((Len(s) - i) + 1) = Len(s) + 1
    BY <1>1
  <2>2. Len(ab) = i /\ Len(c) = (Len(s) - i) + 1
    BY <1>4, <1>6
  <2> HIDE DEF ab
  <2>3. /\ ab \o c \in Seq(S) /\ Len(ab \o c) = Len(ab) + Len(c)
        /\ \A j \in 1..Len(ab) : (ab \o c)[j] = ab[j]
        /\ \A j \in 1..Len(c) : (ab \o c)[Len(ab) + j] = c[j]
    BY <1>4, <1>6, Joined
  <2> QED BY <2>1, <2>2, <2>3
<1>8. ASSUME NEW j \in 1..(Len(s) + 1) PROVE (ab \o c)[j] = t[j]
  <2>1. CASE j <= i - 1
    <3>1. j \in 1..i - 1 /\ j \in 1..i
      BY <1>1, <2>1
    <3> QED BY <1>6, <1>7, <3>1
  <2>2. CASE j = i
    <3>1. i \in 1..i
      BY <1>1
    <3> QED BY <1>6, <1>7, <2>2, <3>1
  <2>3. CASE j > i
    <3> DEFINE q == j - i
    <3>1. q \in 1..(Len(s) - i) + 1 /\ (i + q) - 1 = j - 1 /\ i + q = j /\ j \in i + 1..(Len(s) + 1)
      BY <1>1, <2>3
    <3> HIDE DEF q
    <3>2. (ab \o c)[i + q] = c[q]
      BY <1>7, <3>1
    <3>3. c[q] = s[(i + q) - 1]
      BY <1>4, <3>1
    <3>4. t[j] = s[j - 1]
      BY <3>1
    <3> QED BY <3>1, <3>2, <3>3, <3>4
  <2>4. j <= i - 1 \/ j = i \/ j > i
    BY <1>1
  <2> QED BY <2>1, <2>2, <2>3, <2>4
<1>9. ab \o c = t
  BY <1>7, <1>8, SeqEqual
<1> QED BY <1>5, <1>9 DEF ab

\* A sequence without one of its elements.
LEMMA RemovedAt ==
  ASSUME NEW S, NEW s \in Seq(S), NEW i \in 1..Len(s),
         NEW t \in Seq(S), Len(t) = Len(s) - 1,
         \A j \in 1..i - 1 : t[j] = s[j],
         \A j \in i..Len(s) - 1 : t[j] = s[j + 1]
  PROVE  Abstract!RemoveAt(s, i) = t
<1> DEFINE a == SubSeq(s, 1, i - 1)
           c == SubSeq(s, i + 1, Len(s))
<1>1. Len(s) \in Nat /\ i \in Nat /\ \A j \in 1..Len(s) : s[j] \in S
  BY LenProperties, ElementOfSeq
<1>2. /\ a \in Seq(S) /\ Len(a) = i - 1
      /\ \A j \in 1..i - 1 : a[j] = s[j]
  BY <1>1
<1>3. /\ c \in Seq(S) /\ Len(c) = Len(s) - i
      /\ \A j \in 1..Len(s) - i : c[j] = s[i + j]
  BY <1>1
<1>4. Abstract!RemoveAt(s, i) = a \o c
  BY DEF Abstract!RemoveAt
<1> HIDE DEF a, c
<1>5. /\ a \o c \in Seq(S) /\ Len(a \o c) = Len(s) - 1
      /\ \A j \in 1..i - 1 : (a \o c)[j] = a[j]
      /\ \A j \in 1..Len(s) - i : (a \o c)[(i - 1) + j] = c[j]
  <2>1. (i - 1) + (Len(s) - i) = Len(s) - 1
    BY <1>1
  <2>2. Len(a) = i - 1 /\ Len(c) = Len(s) - i
    BY <1>2, <1>3
  <2>3. /\ a \o c \in Seq(S) /\ Len(a \o c) = Len(a) + Len(c)
        /\ \A j \in 1..Len(a) : (a \o c)[j] = a[j]
        /\ \A j \in 1..Len(c) : (a \o c)[Len(a) + j] = c[j]
    <3>1. a \in Seq(S) /\ c \in Seq(S)
      BY <1>2, <1>3
    <3> QED BY <3>1, Joined
  <2> QED BY <2>1, <2>2, <2>3
<1>6. ASSUME NEW j \in 1..Len(s) - 1 PROVE (a \o c)[j] = t[j]
  <2>1. CASE j <= i - 1
    <3>1. j \in 1..i - 1
      BY <1>1, <2>1
    <3> QED BY <1>2, <1>5, <3>1
  <2>2. CASE j >= i
    <3> DEFINE q == j - (i - 1)
    <3>1. q \in 1..Len(s) - i /\ i + q = j + 1 /\ (i - 1) + q = j /\ j \in i..Len(s) - 1
      BY <1>1, <2>2
    <3> HIDE DEF q
    <3>2. (a \o c)[(i - 1) + q] = c[q]
      BY <1>5, <3>1
    <3>3. c[q] = s[i + q]
      BY <1>3, <3>1
    <3>4. t[j] = s[j + 1]
      BY <3>1
    <3> QED BY <3>1, <3>2, <3>3, <3>4
  <2>3. j <= i - 1 \/ j >= i
    BY <1>1
  <2> QED BY <2>1, <2>2, <2>3
<1>7. a \o c = t
  BY <1>5, <1>6, SeqEqual
<1> QED BY <1>4, <1>7

\* The first elements of a sequence.
LEMMA FirstOf ==
  ASSUME NEW S, NEW s \in Seq(S), NEW n \in 0..Len(s),
         NEW t \in Seq(S), Len(t) = n, \A j \in 1..n : t[j] = s[j]
  PROVE  SubSeq(s, 1, n) = t
<1>1. Len(s) \in Nat /\ n \in Nat /\ \A j \in 1..Len(s) : s[j] \in S
  BY LenProperties, ElementOfSeq
<1>2. /\ SubSeq(s, 1, n) \in Seq(S) /\ Len(SubSeq(s, 1, n)) = n
      /\ \A j \in 1..n : SubSeq(s, 1, n)[j] = s[j]
  BY <1>1
<1> QED BY <1>2, SeqEqual

\* A slot more: the live slots of a value pushed apart.
LEMMA ShiftRight ==
  ASSUME Capacity \in Nat, NEW v, Shape(v), v.len < Capacity,
         NEW at \in 0..v.len, NEW x \in Item
  PROVE  /\ Shape(shifted_right(v, at, x))
         /\ shifted_right(v, at, x).len = v.len + 1
         /\ \A i \in Slots :
              shifted_right(v, at, x).items[i] =
                IF i = at THEN x ELSE IF i > at /\ i <= v.len THEN v.items[i - 1] ELSE v.items[i]
         /\ as_slice(shifted_right(v, at, x)) = Abstract!InsertAt(as_slice(v), at + 1, x)
<1> DEFINE w == shifted_right(v, at, x)
           s == as_slice(v)
           t == as_slice(w)
           f == [i \in Slots |-> IF i = at THEN x
                                 ELSE IF i > at /\ i <= v.len THEN v.items[i - 1] ELSE v.items[i]]
<1>1. /\ v.len \in Nat /\ v.len <= Capacity
      /\ s \in Seq(Item) /\ Len(s) = v.len
      /\ \A i \in 1..v.len : s[i] = v.items[i - 1]
      /\ \A i \in Slots : v.items[i] \in Item
      /\ \A i : i \in Slots <=> i \in 0..Capacity - 1
  BY SliceIs
<1>2. w = [len |-> v.len + 1, items |-> f]
  <2>1. \A i \in Slots : (CASE i = at                -> x
                            [] i > at /\ i <= v.len  -> v.items[i - 1]
                            [] i < at \/ i > v.len   -> v.items[i]) = f[i]
    BY <1>1
  <2> HIDE DEF f
  <2>2. f = [i \in Slots |-> f[i]]
    BY DEF f
  <2> QED BY <2>1, <2>2 DEF shifted_right
<1>3. f \in [Slots -> Item]
  <2>1. \A i \in Slots : i > at /\ i <= v.len => i - 1 \in Slots
    BY <1>1
  <2> QED BY <1>1, <2>1
<1> HIDE DEF w
<1>4. w.len = v.len + 1 /\ w.items = f
  BY <1>2
<1>5. Shape(w)
  <2> HIDE DEF f
  <2> QED BY <1>1, <1>2, <1>3 DEF Shape
<1>6. /\ t \in Seq(Item) /\ Len(t) = v.len + 1
      /\ \A i \in 1..(v.len + 1) : t[i] = f[i - 1]
  <2>1. /\ t \in Seq(Item) /\ Len(t) = w.len /\ \A i \in 1..w.len : t[i] = w.items[i - 1]
    BY <1>5, SliceIs
  <2> HIDE DEF f, t
  <2> QED BY <1>4, <2>1
<1>7. ASSUME NEW i \in 1..(v.len + 1)
      PROVE  /\ i - 1 < at => f[i - 1] = v.items[i - 1]
             /\ i - 1 = at => f[i - 1] = x
             /\ i - 1 > at => f[i - 1] = v.items[(i - 1) - 1]
  <2>1. i - 1 \in Slots /\ i - 1 \in Nat /\ at \in Nat /\ i - 1 <= v.len
    <3>1. i - 1 \in 0..Capacity - 1 /\ i - 1 \in Nat /\ i - 1 <= v.len /\ at \in Nat
      <4>1. v.len \in Nat /\ v.len < Capacity
        BY <1>1
      <4> QED BY <4>1
    <3> QED BY <1>1, <3>1
  <2> DEFINE q == i - 1
  <2> HIDE DEF q
  <2>2. f[q] = IF q = at THEN x ELSE IF q > at /\ q <= v.len THEN v.items[q - 1] ELSE v.items[q]
    BY <2>1 DEF q
  <2>3. /\ q < at => f[q] = v.items[q]
        /\ q = at => f[q] = x
        /\ q > at => f[q] = v.items[q - 1]
    <3> HIDE DEF f
    <3> QED BY <2>1, <2>2 DEF q
  <2> QED BY <2>3 DEF q
<1>8. Abstract!InsertAt(s, at + 1, x) = t
  <2> HIDE DEF f, s, t
  <2>1. ASSUME NEW j \in 1..(at + 1) - 1 PROVE t[j] = s[j]
    <3>1. j \in 1..(v.len + 1) /\ j \in 1..v.len /\ j - 1 < at
      BY <1>1
    <3> QED BY <1>1, <1>6, <1>7, <3>1
  <2>2. t[at + 1] = x
    <3>1. at + 1 \in 1..(v.len + 1) /\ (at + 1) - 1 = at
      BY <1>1
    <3> QED BY <1>6, <1>7, <3>1
  <2>3. ASSUME NEW j \in (at + 1) + 1..(Len(s) + 1) PROVE t[j] = s[j - 1]
    <3>1. j \in 1..(v.len + 1) /\ j - 1 \in 1..v.len /\ j - 1 > at
      BY <1>1
    <3> QED BY <1>1, <1>6, <1>7, <3>1
  <2>4. at + 1 \in 1..(Len(s) + 1)
    BY <1>1
  <2> QED BY <1>1, <1>6, <2>1, <2>2, <2>3, <2>4, InsertedAt
<1>9. \A i \in Slots : w.items[i] =
        IF i = at THEN x ELSE IF i > at /\ i <= v.len THEN v.items[i - 1] ELSE v.items[i]
  BY <1>4
<1> QED BY <1>4, <1>5, <1>8, <1>9 DEF w

\* A slot less: the live slots of a value moved up.
LEMMA ShiftLeft ==
  ASSUME Capacity \in Nat, Default \in Item, NEW v, Shape(v), NEW at \in 0..v.len - 1
  PROVE  /\ Shape(shifted_left(v, at))
         /\ shifted_left(v, at).len = v.len - 1
         /\ \A i \in Slots :
              shifted_left(v, at).items[i] =
                IF i >= at /\ i < v.len - 1 THEN v.items[i + 1]
                ELSE IF i = v.len - 1 THEN Default ELSE v.items[i]
         /\ as_slice(shifted_left(v, at)) = Abstract!RemoveAt(as_slice(v), at + 1)
<1> DEFINE w == shifted_left(v, at)
           s == as_slice(v)
           t == as_slice(w)
           f == [i \in Slots |-> IF i >= at /\ i < v.len - 1 THEN v.items[i + 1]
                                 ELSE IF i = v.len - 1 THEN Default ELSE v.items[i]]
<1>1. /\ v.len \in Nat /\ v.len <= Capacity
      /\ s \in Seq(Item) /\ Len(s) = v.len
      /\ \A i \in 1..v.len : s[i] = v.items[i - 1]
      /\ \A i \in Slots : v.items[i] \in Item
      /\ \A i : i \in Slots <=> i \in 0..Capacity - 1
  BY SliceIs
<1>2. w = [len |-> v.len - 1, items |-> f]
  <2>1. \A i \in Slots : (CASE i >= at /\ i < v.len - 1 -> v.items[i + 1]
                            [] i = v.len - 1            -> Default
                            [] i < at \/ i >= v.len     -> v.items[i]) = f[i]
    BY <1>1
  <2> HIDE DEF f
  <2>2. f = [i \in Slots |-> f[i]]
    BY DEF f
  <2> QED BY <2>1, <2>2 DEF shifted_left
<1>3. f \in [Slots -> Item]
  <2>1. \A i \in Slots : i >= at /\ i < v.len - 1 => i + 1 \in Slots
    BY <1>1
  <2> QED BY <1>1, <2>1
<1> HIDE DEF w
<1>4. w.len = v.len - 1 /\ w.items = f
  BY <1>2
<1>5. Shape(w)
  <2> HIDE DEF f
  <2>1. v.len - 1 \in 0..Capacity
    BY <1>1
  <2> QED BY <1>2, <1>3, <2>1 DEF Shape
<1>6. /\ t \in Seq(Item) /\ Len(t) = v.len - 1
      /\ \A i \in 1..v.len - 1 : t[i] = f[i - 1]
  <2>1. /\ t \in Seq(Item) /\ Len(t) = w.len /\ \A i \in 1..w.len : t[i] = w.items[i - 1]
    BY <1>5, SliceIs
  <2> HIDE DEF f, t
  <2> QED BY <1>4, <2>1
<1>7. ASSUME NEW i \in 1..v.len - 1
      PROVE  /\ i - 1 < at => f[i - 1] = v.items[i - 1]
             /\ i - 1 >= at => f[i - 1] = v.items[i]
  <2>1. i - 1 \in Slots /\ i - 1 \in Nat /\ at \in Nat /\ i - 1 < v.len - 1 /\ (i - 1) + 1 = i
    BY <1>1, SMTT(30)
  <2> DEFINE q == i - 1
  <2> HIDE DEF q
  <2>2. f[q] = IF q >= at /\ q < v.len - 1 THEN v.items[q + 1]
               ELSE IF q = v.len - 1 THEN Default ELSE v.items[q]
    BY <2>1 DEF q
  <2>3. /\ q < at => f[q] = v.items[q]
        /\ q >= at => f[q] = v.items[q + 1]
    <3>1. q \in Nat /\ q < v.len - 1 /\ v.len \in Nat /\ at \in Nat
      BY <1>1, <2>1 DEF q
    <3> HIDE DEF f
    <3> QED BY <2>2, <3>1
  <2> QED BY <2>1, <2>3 DEF q
<1>8. Abstract!RemoveAt(s, at + 1) = t
  <2> HIDE DEF f, s, t
  <2>1. ASSUME NEW j \in 1..(at + 1) - 1 PROVE t[j] = s[j]
    <3>1. j \in 1..v.len - 1 /\ j \in 1..v.len /\ j - 1 < at
      BY <1>1
    <3> QED BY <1>1, <1>6, <1>7, <3>1
  <2>2. ASSUME NEW j \in at + 1..Len(s) - 1 PROVE t[j] = s[j + 1]
    <3>1. j \in 1..v.len - 1 /\ j + 1 \in 1..v.len /\ j - 1 >= at /\ (j + 1) - 1 = j
      BY <1>1
    <3> QED BY <1>1, <1>6, <1>7, <3>1
  <2>3. at + 1 \in 1..Len(s) /\ Len(t) = Len(s) - 1
    BY <1>1, <1>6
  <2> QED BY <1>1, <1>6, <2>1, <2>2, <2>3, RemovedAt
<1>9. \A i \in Slots : w.items[i] =
        IF i >= at /\ i < v.len - 1 THEN v.items[i + 1]
        ELSE IF i = v.len - 1 THEN Default ELSE v.items[i]
  BY <1>4
<1> QED BY <1>4, <1>5, <1>8, <1>9 DEF w

\* Fewer live slots.
LEMMA Shorten ==
  ASSUME Capacity \in Nat, Default \in Item, NEW v, Shape(v), NEW n \in 0..v.len
  PROVE  /\ Shape(shortened(v, n))
         /\ shortened(v, n).len = n
         /\ \A i \in Slots :
              shortened(v, n).items[i] = IF i >= n /\ i < v.len THEN Default ELSE v.items[i]
         /\ as_slice(shortened(v, n)) = SubSeq(as_slice(v), 1, n)
<1> DEFINE w == shortened(v, n)
           s == as_slice(v)
           t == as_slice(w)
           f == [i \in Slots |-> IF i >= n /\ i < v.len THEN Default ELSE v.items[i]]
<1>1. /\ v.len \in Nat /\ v.len <= Capacity
      /\ s \in Seq(Item) /\ Len(s) = v.len
      /\ \A i \in 1..v.len : s[i] = v.items[i - 1]
      /\ \A i \in Slots : v.items[i] \in Item
      /\ \A i : i \in Slots <=> i \in 0..Capacity - 1
  BY SliceIs
<1>2. w = [len |-> n, items |-> f] /\ f \in [Slots -> Item]
  BY <1>1 DEF shortened
<1> HIDE DEF w
<1>3. w.len = n /\ w.items = f
  BY <1>2
<1>4. Shape(w)
  <2> HIDE DEF f
  <2> QED BY <1>1, <1>2 DEF Shape
<1>5. /\ t \in Seq(Item) /\ Len(t) = n
      /\ \A i \in 1..n : t[i] = f[i - 1]
  <2>1. /\ t \in Seq(Item) /\ Len(t) = w.len /\ \A i \in 1..w.len : t[i] = w.items[i - 1]
    BY <1>4, SliceIs
  <2> HIDE DEF f, t
  <2> QED BY <1>3, <2>1
<1>6. \A i \in 1..n : f[i - 1] = v.items[i - 1]
  BY <1>1
<1>7. SubSeq(s, 1, n) = t
  <2> HIDE DEF f, s, t
  <2>1. \A j \in 1..n : t[j] = s[j]
    BY <1>1, <1>5, <1>6
  <2>2. n \in 0..Len(s)
    BY <1>1
  <2> QED BY <1>1, <1>5, <2>1, <2>2, FirstOf
<1> QED BY <1>3, <1>4, <1>7 DEF w

\* v with one live slot set: that element of the slice and no other.
WithSlot(v, at, x) == [v EXCEPT !.items[at] = x]
\* Setting a live slot sets that element of the slice and no other.
LEMMA SetSlot ==
  ASSUME Capacity \in Nat, NEW v, Shape(v), NEW at \in 0..v.len - 1, NEW x \in Item
  PROVE  /\ Shape(WithSlot(v, at, x))
         /\ WithSlot(v, at, x).len = v.len
         /\ \A i \in Slots : WithSlot(v, at, x).items[i] = IF i = at THEN x ELSE v.items[i]
         /\ as_slice(WithSlot(v, at, x)) = [as_slice(v) EXCEPT ![at + 1] = x]
<1> DEFINE w == WithSlot(v, at, x)
           s == as_slice(v)
           t == as_slice(w)
           f == [i \in Slots |-> IF i = at THEN x ELSE v.items[i]]
<1>1. /\ v.len \in Nat /\ v.len <= Capacity
      /\ v = [len |-> v.len, items |-> v.items]
      /\ s \in Seq(Item) /\ Len(s) = v.len
      /\ \A i \in 1..v.len : s[i] = v.items[i - 1]
      /\ \A i \in Slots : v.items[i] \in Item
      /\ \A i : i \in Slots <=> i \in 0..Capacity - 1
  BY SliceIs
<1>2. f \in [Slots -> Item]
  BY <1>1
<1>3. w.len = v.len /\ w.items = f /\ w = [len |-> v.len, items |-> f]
  <2>1. v.items \in [Slots -> Item]
    BY DEF Shape
  <2>2. [v.items EXCEPT ![at] = x] = f
    BY <1>1, <2>1
  <2> HIDE DEF f
  <2> QED BY <1>1, <2>2 DEF WithSlot
<1> HIDE DEF w
<1>4. Shape(w)
  <2> HIDE DEF f
  <2> QED BY <1>1, <1>2, <1>3 DEF Shape
<1>5. /\ t \in Seq(Item) /\ Len(t) = v.len
      /\ \A i \in 1..v.len : t[i] = f[i - 1]
  <2>1. /\ t \in Seq(Item) /\ Len(t) = w.len /\ \A i \in 1..w.len : t[i] = w.items[i - 1]
    BY <1>4, SliceIs
  <2> HIDE DEF f, t
  <2> QED BY <1>3, <2>1
<1>6. \A i \in 1..v.len : f[i - 1] = IF i = at + 1 THEN x ELSE v.items[i - 1]
  BY <1>1
<1>7. [s EXCEPT ![at + 1] = x] = t
  <2> HIDE DEF f, s, t
  <2>1. \A j \in 1..v.len : t[j] = IF j = at + 1 THEN x ELSE s[j]
    BY <1>1, <1>5, <1>6
  <2>2. [s EXCEPT ![at + 1] = x] = [j \in 1..v.len |-> IF j = at + 1 THEN x ELSE s[j]]
    <3>1. DOMAIN s = 1..v.len
      BY <1>1
    <3> QED BY <3>1
  <2>3. t = [j \in 1..v.len |-> t[j]]
    BY <1>1, <1>5
  <2> QED BY <2>1, <2>2, <2>3
<1>8. \A i \in Slots : w.items[i] = IF i = at THEN x ELSE v.items[i]
  BY <1>3
<1> QED BY <1>3, <1>4, <1>7, <1>8 DEF w


----------------------------------------------------------------------------
(* The live slots as a map.                                                *)

KeysOf(v) == {KeyAt(v, i) : i \in 0..v.len - 1}

\* What is known of a map with its keys in order.
MapValue(v) == Capacity \in Nat /\ kind = "map" /\ Shape(v) /\ Ascending(v)

\* The slots of such a map, and that no two have one key.
LEMMA MapSlots ==
  ASSUME NEW v, MapValue(v)
  PROVE  /\ v.len \in Nat /\ v.len <= Capacity
         /\ \A i \in 0..v.len - 1 :
              /\ i \in Slots /\ i \in Nat
              /\ KeyAt(v, i) \in Keys /\ KeyAt(v, i) \in Nat /\ v.items[i][2] \in Elems
              /\ v.items[i] = <<KeyAt(v, i), v.items[i][2]>>
         /\ \A i, j \in 0..v.len - 1 : i < j => KeyAt(v, i) < KeyAt(v, j)
         /\ \A i, j \in 0..v.len - 1 : KeyAt(v, i) = KeyAt(v, j) => i = j
         /\ \A i, j \in 0..v.len - 1 : KeyAt(v, i) <= KeyAt(v, j) <=> i <= j
<1>1. /\ v.len \in Nat /\ v.len <= Capacity
      /\ \A i \in 0..v.len - 1 :
           /\ i \in Slots /\ i \in Nat
           /\ KeyAt(v, i) \in Keys /\ KeyAt(v, i) \in Nat /\ v.items[i][2] \in Elems
           /\ v.items[i] = <<KeyAt(v, i), v.items[i][2]>>
  BY MapShape DEF MapValue
<1>2. \A i, j \in 0..v.len - 1 : i < j => KeyAt(v, i) < KeyAt(v, j)
  BY DEF MapValue, Ascending, KeyAt
<1>3. ASSUME NEW i \in 0..v.len - 1, NEW j \in 0..v.len - 1
      PROVE  /\ KeyAt(v, i) = KeyAt(v, j) => i = j
             /\ KeyAt(v, i) <= KeyAt(v, j) <=> i <= j
  <2>1. /\ i \in Nat /\ j \in Nat /\ KeyAt(v, i) \in Nat /\ KeyAt(v, j) \in Nat
        /\ i < j => KeyAt(v, i) < KeyAt(v, j)
        /\ j < i => KeyAt(v, j) < KeyAt(v, i)
    BY <1>1, <1>2
  <2>2. i = j => KeyAt(v, i) = KeyAt(v, j)
    OBVIOUS
  <2> QED BY <2>1, <2>2
<1> QED BY <1>1, <1>2, <1>3

\* The map of the live slots.
LEMMA ContentIs ==
  ASSUME NEW v, MapValue(v)
  PROVE  /\ DOMAIN Content(v) = KeysOf(v)
         /\ Content(v) = [k \in KeysOf(v) |-> Content(v)[k]]
         /\ \A i \in 0..v.len - 1 : Content(v)[KeyAt(v, i)] = v.items[i][2]
<1> DEFINE R == Range(as_slice(v))
           c == [k \in {e[1] : e \in R} |-> (CHOOSE e \in R : e[1] = k)[2]]
<1>1. /\ v.len \in Nat
      /\ \A i, j \in 0..v.len - 1 : KeyAt(v, i) = KeyAt(v, j) => i = j
  BY MapSlots
<1>2. R = {v.items[i] : i \in 0..v.len - 1}
  <2>1. R = {v.items[i - 1] : i \in 1..v.len}
    BY DEF as_slice, Range
  <2> HIDE DEF R
  <2>2. \A i \in 1..v.len : i - 1 \in 0..v.len - 1
    BY <1>1
  <2>3. \A i \in 0..v.len - 1 : i + 1 \in 1..v.len /\ (i + 1) - 1 = i
    BY <1>1
  <2> QED BY <2>1, <2>2, <2>3
<1>3. Content(v) = c
  BY DEF Content, MapValue
<1> HIDE DEF R
<1>4. {e[1] : e \in R} = KeysOf(v)
  BY <1>2 DEF KeysOf, KeyAt
<1>5. ASSUME NEW i \in 0..v.len - 1 PROVE c[KeyAt(v, i)] = v.items[i][2]
  <2> DEFINE k == KeyAt(v, i)
             e == CHOOSE f \in R : f[1] = k
  <2>1. v.items[i] \in R /\ v.items[i][1] = k
    BY <1>2 DEF KeyAt
  <2>2. e \in R /\ e[1] = k
    <3> HIDE DEF k
    <3> QED BY <2>1
  <2> HIDE DEF e
  <2>3. PICK j \in 0..v.len - 1 : e = v.items[j]
    BY <1>2, <2>2
  <2>4. KeyAt(v, j) = KeyAt(v, i)
    BY <2>2, <2>3 DEF KeyAt
  <2>5. e = v.items[i]
    BY <1>1, <2>3, <2>4
  <2>6. c[k] = e[2]
    <3>1. k \in {f[1] : f \in R}
      BY <2>1
    <3> HIDE DEF k
    <3> QED BY <3>1 DEF e
  <2> QED BY <2>5, <2>6
<1>6. c = [k \in KeysOf(v) |-> c[k]] /\ DOMAIN c = KeysOf(v)
  BY <1>4
<1> HIDE DEF c
<1> QED BY <1>3, <1>5, <1>6

\* A function with these keys and these values is the map.
LEMMA ContentUnique ==
  ASSUME NEW v, MapValue(v), NEW D, NEW f,
         f = [k \in D |-> f[k]], \A k : k \in D <=> k \in KeysOf(v),
         \A i \in 0..v.len - 1 : f[KeyAt(v, i)] = v.items[i][2]
  PROVE  Content(v) = f
<1>1. /\ Content(v) = [k \in KeysOf(v) |-> Content(v)[k]]
      /\ \A i \in 0..v.len - 1 : Content(v)[KeyAt(v, i)] = v.items[i][2]
  BY ContentIs
<1>2. D = KeysOf(v)
  OBVIOUS
<1>3. ASSUME NEW k \in KeysOf(v) PROVE Content(v)[k] = f[k]
  <2>1. PICK i \in 0..v.len - 1 : k = KeyAt(v, i)
    BY DEF KeysOf
  <2> QED BY <1>1, <2>1
<1> HIDE DEF Content
<1>4. \A k \in D : Content(v)[k] = f[k]
  BY <1>2, <1>3
<1> QED BY <1>1, <1>2, <1>4

\* As many keys as live slots, and as many up to each as slots.
LEMMA KeyCount ==
  ASSUME NEW v, MapValue(v)
  PROVE  /\ Cardinality(KeysOf(v)) = v.len
         /\ \A i \in 0..v.len - 1 : Cardinality({x \in KeysOf(v) : x <= KeyAt(v, i)}) = i + 1
<1> DEFINE F(n) == {KeyAt(v, i) : i \in 0..n - 1}
           T == {n \in Nat : n <= v.len => IsFiniteSet(F(n)) /\ Cardinality(F(n)) = n}
<1>1. /\ v.len \in Nat
      /\ \A i, j \in 0..v.len - 1 : KeyAt(v, i) = KeyAt(v, j) => i = j
      /\ \A i, j \in 0..v.len - 1 : KeyAt(v, i) <= KeyAt(v, j) <=> i <= j
  BY MapSlots
<1>2. 0 \in T
  <2>1. F(0) = {}
    OBVIOUS
  <2> HIDE DEF F
  <2> QED BY <2>1, FS_EmptySet
<1>3. ASSUME NEW n \in T PROVE n + 1 \in T
  <2>1. ASSUME n + 1 <= v.len PROVE IsFiniteSet(F(n + 1)) /\ Cardinality(F(n + 1)) = n + 1
    <3>1. n \in Nat /\ IsFiniteSet(F(n)) /\ Cardinality(F(n)) = n
      BY <1>1, <2>1
    <3>2. F(n + 1) = F(n) \cup {KeyAt(v, n)}
      <4>1. \A i : i \in 0..(n + 1) - 1 <=> i \in 0..n - 1 \/ i = n
        BY <3>1
      <4> QED BY <4>1
    <3>3. KeyAt(v, n) \notin F(n)
      <4>1. \A i \in 0..n - 1 : i \in 0..v.len - 1 /\ n \in 0..v.len - 1 /\ i # n
        BY <1>1, <2>1, <3>1
      <4> QED BY <1>1, <4>1
    <3> HIDE DEF F
    <3> QED BY <3>1, <3>2, <3>3, FS_AddElement
  <2> HIDE DEF F
  <2> QED BY <2>1
<1>4. T = Nat
  <2> HIDE DEF T
  <2>1. T \in SUBSET Nat
    BY DEF T
  <2> QED BY <1>2, <1>3, <2>1, NaturalsFrom
<1>5. \A n \in 0..v.len : Cardinality(F(n)) = n
  <2>1. \A n \in Nat : n \in T
    BY <1>4
  <2> HIDE DEF F
  <2> QED BY <1>1, <2>1
<1>6. F(v.len) = KeysOf(v)
  BY DEF KeysOf
<1>7. ASSUME NEW i \in 0..v.len - 1
      PROVE  Cardinality({x \in KeysOf(v) : x <= KeyAt(v, i)}) = i + 1
  <2>1. {x \in KeysOf(v) : x <= KeyAt(v, i)} = F(i + 1)
    <3>1. \A j \in 0..v.len - 1 : KeyAt(v, j) <= KeyAt(v, i) <=> j \in 0..(i + 1) - 1
      <4>1. \A j \in 0..v.len - 1 : j <= i <=> j \in 0..(i + 1) - 1
        BY <1>1
      <4> QED BY <1>1, <4>1
    <3>2. \A j \in 0..(i + 1) - 1 : j \in 0..v.len - 1
      BY <1>1
    <3> QED BY <3>1, <3>2 DEF KeysOf
  <2>2. i + 1 \in 0..v.len
    BY <1>1
  <2> HIDE DEF F
  <2> QED BY <1>5, <2>1, <2>2
<1>8. v.len \in 0..v.len
  BY <1>1
<1> HIDE DEF F
<1> QED BY <1>5, <1>6, <1>7, <1>8

\* The entries of the map in the order of their keys are the live slots.
LEMMA EntriesAre ==
  ASSUME NEW v, MapValue(v)
  PROVE  Abstract!Entries(Content(v)) = as_slice(v)
<1> DEFINE f == Content(v)
           D == KeysOf(v)
           Up(x) == Cardinality({y \in D : y <= x})
           key(n) == CHOOSE k \in D : Up(k) = n
<1>1. /\ v.len \in Nat
      /\ \A i \in 0..v.len - 1 : v.items[i] = <<KeyAt(v, i), v.items[i][2]>>
  BY MapSlots
<1>2. DOMAIN f = D /\ \A i \in 0..v.len - 1 : f[KeyAt(v, i)] = v.items[i][2]
  BY ContentIs
<1>3. Cardinality(D) = v.len /\ \A i \in 0..v.len - 1 : Up(KeyAt(v, i)) = i + 1
  BY KeyCount
<1>4. Abstract!Entries(f) = [n \in 1..v.len |-> <<key(n), f[key(n)]>>]
  <2> HIDE DEF f
  <2>1. Abstract!Entries(f) =
          [n \in 1..Cardinality(DOMAIN f) |->
             <<CHOOSE k \in DOMAIN f : Cardinality({y \in DOMAIN f : y <= k}) = n,
               f[CHOOSE k \in DOMAIN f : Cardinality({y \in DOMAIN f : y <= k}) = n]>>]
    BY DEF Abstract!Entries, Abstract!Cardinality, Cardinality
  <2>2. DOMAIN f = D
    BY <1>2
  <2> HIDE DEF D
  <2> QED BY <1>3, <2>1, <2>2
<1> HIDE DEF f, Up
<1>5. ASSUME NEW i \in 0..v.len - 1 PROVE key(i + 1) = KeyAt(v, i)
  <2>1. KeyAt(v, i) \in D /\ Up(KeyAt(v, i)) = i + 1
    BY <1>3 DEF KeysOf
  <2>2. key(i + 1) \in D /\ Up(key(i + 1)) = i + 1
    <3> HIDE DEF D
    <3> QED BY <2>1
  <2> DEFINE x == key(i + 1)
  <2> HIDE DEF x
  <2>3. PICK j \in 0..v.len - 1 : x = KeyAt(v, j)
    BY <2>2 DEF KeysOf, x
  <2>4. j + 1 = i + 1
    BY <1>3, <2>2, <2>3 DEF x
  <2>5. j = i
    BY <1>1, <2>4
  <2> QED BY <2>3, <2>5 DEF x
<1>6. \A n \in 1..v.len : n - 1 \in 0..v.len - 1 /\ (n - 1) + 1 = n
  BY <1>1
<1> HIDE DEF key
<1>7. \A n \in 1..v.len : <<key(n), f[key(n)]>> = v.items[n - 1]
  <2>1. ASSUME NEW n \in 1..v.len PROVE <<key(n), f[key(n)]>> = v.items[n - 1]
    <3>1. key(n) = KeyAt(v, n - 1)
      BY <1>5, <1>6
    <3>2. f[KeyAt(v, n - 1)] = v.items[n - 1][2] /\ v.items[n - 1] = <<KeyAt(v, n - 1), v.items[n - 1][2]>>
      BY <1>1, <1>2, <1>6
    <3> QED BY <3>1, <3>2
  <2> QED BY <2>1
<1>8. as_slice(v) = [n \in 1..v.len |-> v.items[n - 1]]
  BY DEF as_slice
<1> QED BY <1>4, <1>7, <1>8 DEF f

\* A search finds the keys of the map, with their values.
LEMMA SearchFinds ==
  ASSUME NEW v, MapValue(v), NEW k \in Keys, NEW at, at = binary_search(v, k)
  PROVE  /\ at.found \in BOOLEAN
         /\ at.found <=> k \in KeysOf(v)
         /\ at.found => /\ at.pos \in 0..v.len - 1
                        /\ KeyAt(v, at.pos) = k
                        /\ Content(v)[k] = v.items[at.pos][2]
         /\ ~at.found => /\ at.pos \in 0..v.len
                         /\ \A i \in 0..v.len - 1 : i < at.pos => KeyAt(v, i) < k
                         /\ \A i \in 0..v.len - 1 : i >= at.pos => KeyAt(v, i) > k
<1>1. Sought(v, k, at)
  BY SearchIs DEF MapValue
<1>2. /\ v.len \in Nat /\ k \in Nat
      /\ \A i \in 0..v.len - 1 : i \in Nat /\ KeyAt(v, i) \in Nat
  BY MapSlots, FixedAssumption
<1>3. CASE at.found = TRUE /\ at.pos \in 0..v.len - 1 /\ KeyAt(v, at.pos) = k
  <2>1. k \in KeysOf(v)
    BY <1>3 DEF KeysOf
  <2>2. Content(v)[k] = v.items[at.pos][2]
    BY <1>3, ContentIs
  <2> QED BY <1>3, <2>1, <2>2
<1>4. CASE /\ at.found = FALSE /\ at.pos \in 0..v.len
           /\ \A i \in 0..v.len - 1 : i < at.pos => KeyAt(v, i) < k
           /\ \A i \in 0..v.len - 1 : i >= at.pos => KeyAt(v, i) > k
  <2>1. \A i \in 0..v.len - 1 : KeyAt(v, i) # k
    BY <1>2, <1>4
  <2>2. k \notin KeysOf(v)
    BY <2>1 DEF KeysOf
  <2> QED BY <1>4, <2>2
<1> QED BY <1>1, <1>3, <1>4 DEF Sought

\* An entry put where its key belongs.
LEMMA PutEntry ==
  ASSUME NEW v, MapValue(v), Default \in Item, NEW k \in Keys, NEW x \in Elems,
         v.len < Capacity, NEW at, at = binary_search(v, k), ~at.found
  PROVE  /\ MapValue(shifted_right(v, at.pos, <<k, x>>))
         /\ Content(shifted_right(v, at.pos, <<k, x>>)) =
              [y \in KeysOf(v) \cup {k} |-> IF y = k THEN x ELSE Content(v)[y]]
<1> DEFINE p == at.pos
           e == <<k, x>>
           w == shifted_right(v, p, e)
<1>1. /\ p \in 0..v.len /\ k \notin KeysOf(v)
      /\ \A i \in 0..v.len - 1 : i < p => KeyAt(v, i) < k
      /\ \A i \in 0..v.len - 1 : i >= p => KeyAt(v, i) > k
  BY SearchFinds
<1>2. e \in Item /\ k \in Nat /\ e[1] = k /\ e[2] = x
  BY FixedAssumption DEF Item, MapValue
<1> HIDE DEF p, e
<1>3. /\ Shape(w) /\ w.len = v.len + 1
      /\ \A i \in Slots : w.items[i] = IF i = p THEN e
                                       ELSE IF i > p /\ i <= v.len THEN v.items[i - 1] ELSE v.items[i]
  BY <1>1, <1>2, ShiftRight DEF MapValue
<1> HIDE DEF w
<1>4. /\ v.len \in Nat /\ v.len <= Capacity
      /\ \A i \in 0..v.len - 1 : i \in Slots /\ i \in Nat /\ KeyAt(v, i) \in Nat
      /\ \A i, j \in 0..v.len - 1 : i < j => KeyAt(v, i) < KeyAt(v, j)
  BY MapSlots
<1>5. ASSUME NEW i \in 0..w.len - 1
      PROVE  \/ i < p /\ i \in 0..v.len - 1 /\ w.items[i] = v.items[i]
             \/ i = p /\ w.items[i] = e
             \/ i > p /\ i - 1 \in 0..v.len - 1 /\ i - 1 >= p /\ w.items[i] = v.items[i - 1]
  <2>1. i \in Slots /\ i \in Nat /\ i <= v.len /\ p \in Nat
    BY <1>1, <1>3, <1>4 DEF Slots, MapValue
  <2>2. CASE i < p
    BY <1>1, <1>3, <1>4, <2>1, <2>2
  <2>3. CASE i = p
    BY <1>3, <2>1, <2>3
  <2>4. CASE i > p
    BY <1>1, <1>3, <1>4, <2>1, <2>4
  <2> QED BY <2>1, <2>2, <2>3, <2>4
<1>6. ASSUME NEW i \in 0..w.len - 1
      PROVE  \/ i < p /\ i \in 0..v.len - 1 /\ KeyAt(w, i) = KeyAt(v, i) /\ KeyAt(v, i) < k
             \/ i = p /\ KeyAt(w, i) = k
             \/ i > p /\ i - 1 \in 0..v.len - 1 /\ KeyAt(w, i) = KeyAt(v, i - 1) /\ KeyAt(v, i - 1) > k
  BY <1>1, <1>2, <1>5 DEF KeyAt
<1>7. Ascending(w)
  <2>1. ASSUME NEW i \in 0..w.len - 1, NEW j \in 0..w.len - 1, i < j
        PROVE  KeyAt(w, i) < KeyAt(w, j)
    <3>1. i \in Nat /\ j \in Nat /\ p \in Nat /\ k \in Nat
      BY <1>1, <1>2, <1>3, <1>4
    <3>2. CASE i < p /\ i \in 0..v.len - 1 /\ KeyAt(w, i) = KeyAt(v, i) /\ KeyAt(v, i) < k
      <4>1. CASE j < p /\ j \in 0..v.len - 1 /\ KeyAt(w, j) = KeyAt(v, j) /\ KeyAt(v, j) < k
        BY <1>4, <2>1, <3>2, <4>1
      <4>2. CASE j = p /\ KeyAt(w, j) = k
        BY <3>2, <4>2
      <4>3. CASE j > p /\ j - 1 \in 0..v.len - 1 /\ KeyAt(w, j) = KeyAt(v, j - 1) /\ KeyAt(v, j - 1) > k
        BY <1>2, <1>4, <3>2, <4>3
      <4> QED BY <1>6, <4>1, <4>2, <4>3
    <3>3. CASE i >= p
      <4>1. j > p /\ j - 1 \in 0..v.len - 1 /\ KeyAt(w, j) = KeyAt(v, j - 1) /\ KeyAt(v, j - 1) > k
        BY <1>6, <2>1, <3>1, <3>3
      <4>2. CASE i = p /\ KeyAt(w, i) = k
        BY <1>2, <1>4, <4>1, <4>2
      <4>3. CASE i > p /\ i - 1 \in 0..v.len - 1 /\ KeyAt(w, i) = KeyAt(v, i - 1)
        <5>1. i - 1 < j - 1
          BY <2>1, <3>1
        <5> QED BY <1>4, <4>1, <4>3, <5>1
      <4> QED BY <1>6, <3>1, <3>3, <4>2, <4>3
    <3> QED BY <1>6, <3>1, <3>2, <3>3
  <2> QED BY <2>1 DEF Ascending, KeyAt
<1>8. MapValue(w)
  BY <1>3, <1>7 DEF MapValue
<1> DEFINE f == [y \in KeysOf(v) \cup {k} |-> IF y = k THEN x ELSE Content(v)[y]]
<1>9. \A y : y \in KeysOf(v) \cup {k} <=> y \in KeysOf(w)
  <2>1. ASSUME NEW i \in 0..v.len - 1 PROVE \E j \in 0..w.len - 1 : KeyAt(w, j) = KeyAt(v, i)
    <3>1. CASE i < p
      <4>1. i \in 0..w.len - 1
        BY <1>3, <1>4
      <4>2. KeyAt(w, i) = KeyAt(v, i)
        BY <1>1, <1>4, <1>6, <3>1, <4>1
      <4> QED BY <4>1, <4>2
    <3>2. CASE i >= p
      <4>1. i + 1 \in 0..w.len - 1 /\ i + 1 > p /\ (i + 1) - 1 = i
        BY <1>1, <1>3, <1>4, <3>2
      <4>2. KeyAt(w, i + 1) = KeyAt(v, i)
        BY <1>1, <1>4, <1>6, <4>1
      <4> QED BY <4>1, <4>2
    <3> QED BY <1>1, <1>4, <3>1, <3>2
  <2>2. \E j \in 0..w.len - 1 : KeyAt(w, j) = k
    <3>1. p \in 0..w.len - 1
      BY <1>1, <1>3, <1>4
    <3>2. KeyAt(w, p) = k
      BY <1>1, <1>4, <1>6, <3>1
    <3> QED BY <3>1, <3>2
  <2>3. \A y \in KeysOf(v) \cup {k} : y \in KeysOf(w)
    BY <2>1, <2>2 DEF KeysOf
  <2>4. \A y \in KeysOf(w) : y \in KeysOf(v) \cup {k}
    BY <1>6 DEF KeysOf
  <2> QED BY <2>3, <2>4
<1>10. ASSUME NEW i \in 0..w.len - 1 PROVE f[KeyAt(w, i)] = w.items[i][2]
  <2>1. \A j \in 0..v.len - 1 : /\ KeyAt(v, j) \in KeysOf(v) /\ KeyAt(v, j) # k
                                /\ Content(v)[KeyAt(v, j)] = v.items[j][2]
    BY <1>1, ContentIs DEF KeysOf
  <2>2. \A j \in 0..v.len - 1 : f[KeyAt(v, j)] = v.items[j][2]
    BY <2>1
  <2>3. f[k] = x
    OBVIOUS
  <2> HIDE DEF f
  <2> QED BY <1>2, <1>5, <2>2, <2>3 DEF KeyAt
<1>11. Content(w) = f
  <2>1. f = [y \in KeysOf(v) \cup {k} |-> f[y]]
    OBVIOUS
  <2> HIDE DEF f
  <2> QED BY <1>8, <1>9, <1>10, <2>1, ContentUnique
<1> QED BY <1>8, <1>11 DEF w, e, p

\* The value of a key set.
LEMMA SetEntry ==
  ASSUME NEW v, MapValue(v), NEW k \in Keys, NEW x \in Elems,
         NEW at, at = binary_search(v, k), at.found
  PROVE  /\ MapValue(WithSlot(v, at.pos, <<k, x>>))
         /\ Content(WithSlot(v, at.pos, <<k, x>>)) = [Content(v) EXCEPT ![k] = x]
<1> DEFINE p == at.pos
           e == <<k, x>>
           w == WithSlot(v, p, e)
           f == [Content(v) EXCEPT ![k] = x]
<1>1. p \in 0..v.len - 1 /\ KeyAt(v, p) = k /\ k \in KeysOf(v)
  BY SearchFinds
<1>2. e \in Item /\ e[1] = k /\ e[2] = x
  BY DEF Item, MapValue
<1> HIDE DEF p, e
<1>3. /\ Shape(w) /\ w.len = v.len
      /\ \A i \in Slots : w.items[i] = IF i = p THEN e ELSE v.items[i]
  BY <1>1, <1>2, SetSlot DEF MapValue
<1> HIDE DEF w
<1>4. /\ \A i \in 0..v.len - 1 : i \in Slots
      /\ \A i, j \in 0..v.len - 1 : KeyAt(v, i) = KeyAt(v, j) => i = j
  BY MapSlots
<1>5. \A i \in 0..v.len - 1 : w.items[i] = IF i = p THEN e ELSE v.items[i]
  BY <1>3, <1>4
<1>6. \A i \in 0..v.len - 1 : KeyAt(w, i) = KeyAt(v, i)
  BY <1>1, <1>2, <1>5 DEF KeyAt
<1>7. MapValue(w)
  <2>1. Ascending(w)
    BY <1>3, <1>6 DEF MapValue, Ascending, KeyAt
  <2> QED BY <1>3, <2>1 DEF MapValue
<1>8. \A y : y \in KeysOf(v) <=> y \in KeysOf(w)
  BY <1>3, <1>6 DEF KeysOf
<1>9. /\ DOMAIN Content(v) = KeysOf(v)
      /\ Content(v) = [y \in KeysOf(v) |-> Content(v)[y]]
      /\ \A i \in 0..v.len - 1 : Content(v)[KeyAt(v, i)] = v.items[i][2]
  BY ContentIs
<1>10. f = [y \in KeysOf(v) |-> f[y]] /\ \A y \in KeysOf(v) : f[y] = IF y = k THEN x ELSE Content(v)[y]
  BY <1>9
<1> HIDE DEF f
<1>11. ASSUME NEW i \in 0..w.len - 1 PROVE f[KeyAt(w, i)] = w.items[i][2]
  <2>1. i \in 0..v.len - 1 /\ KeyAt(w, i) = KeyAt(v, i) /\ KeyAt(v, i) \in KeysOf(v)
    BY <1>3, <1>6 DEF KeysOf
  <2>2. CASE i = p
    BY <1>1, <1>2, <1>5, <1>10, <2>1, <2>2
  <2>3. CASE i # p
    <3>1. KeyAt(v, i) # k
      BY <1>1, <1>4, <2>1, <2>3
    <3> QED BY <1>5, <1>9, <1>10, <2>1, <2>3, <3>1
  <2> QED BY <2>2, <2>3
<1>12. Content(w) = f
  BY <1>7, <1>8, <1>10, <1>11, ContentUnique
<1> QED BY <1>7, <1>12 DEF w, f, p, e

\* An entry taken out.
LEMMA TakeEntry ==
  ASSUME NEW v, MapValue(v), Default \in Item, NEW k \in Keys,
         NEW at, at = binary_search(v, k), at.found
  PROVE  /\ MapValue(shifted_left(v, at.pos))
         /\ Content(shifted_left(v, at.pos)) = [y \in KeysOf(v) \ {k} |-> Content(v)[y]]
<1> DEFINE p == at.pos
           w == shifted_left(v, p)
           f == [y \in KeysOf(v) \ {k} |-> Content(v)[y]]
<1>1. p \in 0..v.len - 1 /\ KeyAt(v, p) = k /\ k \in KeysOf(v)
  BY SearchFinds
<1> HIDE DEF p
<1>2. /\ Shape(w) /\ w.len = v.len - 1
      /\ \A i \in Slots : w.items[i] = IF i >= p /\ i < v.len - 1 THEN v.items[i + 1]
                                       ELSE IF i = v.len - 1 THEN Default ELSE v.items[i]
  BY <1>1, ShiftLeft DEF MapValue
<1> HIDE DEF w
<1>3. /\ v.len \in Nat /\ v.len <= Capacity
      /\ \A i \in 0..v.len - 1 : i \in Slots /\ i \in Nat /\ KeyAt(v, i) \in Nat
      /\ \A i, j \in 0..v.len - 1 : i < j => KeyAt(v, i) < KeyAt(v, j)
      /\ \A i, j \in 0..v.len - 1 : KeyAt(v, i) = KeyAt(v, j) => i = j
  BY MapSlots
<1>4. ASSUME NEW i \in 0..w.len - 1
      PROVE  \/ i < p /\ i \in 0..v.len - 1 /\ w.items[i] = v.items[i]
             \/ i >= p /\ i + 1 \in 0..v.len - 1 /\ w.items[i] = v.items[i + 1]
  <2>1. i \in Slots /\ i \in Nat /\ i < v.len - 1 /\ p \in Nat
    BY <1>1, <1>2, <1>3 DEF Slots
  <2>2. CASE i < p
    BY <1>2, <1>3, <2>1, <2>2
  <2>3. CASE i >= p
    BY <1>2, <1>3, <2>1, <2>3
  <2> QED BY <2>1, <2>2, <2>3
<1>5. Ascending(w)
  <2>1. ASSUME NEW i \in 0..w.len - 1, NEW j \in 0..w.len - 1, i < j
        PROVE  KeyAt(w, i) < KeyAt(w, j)
    <3>1. i \in Nat /\ j \in Nat /\ p \in Nat
      BY <1>1, <1>2, <1>3
    <3>2. CASE i < p /\ i \in 0..v.len - 1 /\ w.items[i] = v.items[i]
      <4>1. CASE j < p /\ j \in 0..v.len - 1 /\ w.items[j] = v.items[j]
        BY <1>3, <2>1, <3>2, <4>1 DEF KeyAt
      <4>2. CASE j >= p /\ j + 1 \in 0..v.len - 1 /\ w.items[j] = v.items[j + 1]
        <5>1. i < j + 1
          BY <2>1, <3>1
        <5> QED BY <1>3, <3>2, <4>2, <5>1 DEF KeyAt
      <4> QED BY <1>4, <4>1, <4>2
    <3>3. CASE i >= p
      <4>1. i + 1 \in 0..v.len - 1 /\ w.items[i] = v.items[i + 1]
        BY <1>4, <3>1, <3>3
      <4>2. j + 1 \in 0..v.len - 1 /\ w.items[j] = v.items[j + 1]
        BY <1>4, <2>1, <3>1, <3>3
      <4>3. i + 1 < j + 1
        BY <2>1, <3>1
      <4> QED BY <1>3, <4>1, <4>2, <4>3 DEF KeyAt
    <3> QED BY <1>4, <3>1, <3>2, <3>3
  <2> QED BY <2>1 DEF Ascending, KeyAt
<1>6. MapValue(w)
  BY <1>2, <1>5 DEF MapValue
<1>7. \A y : y \in KeysOf(v) \ {k} <=> y \in KeysOf(w)
  <2>1. ASSUME NEW i \in 0..v.len - 1, i # p PROVE \E j \in 0..w.len - 1 : w.items[j] = v.items[i]
    <3>1. i \in Nat /\ p \in Nat /\ p <= v.len - 1 /\ i <= v.len - 1
      BY <1>1, <1>3
    <3>2. CASE i < p
      <4>1. i \in 0..w.len - 1
        BY <1>2, <1>3, <3>1, <3>2
      <4>2. w.items[i] = v.items[i]
        BY <1>4, <3>1, <3>2, <4>1
      <4> QED BY <4>1, <4>2
    <3>3. CASE i > p
      <4>1. i - 1 \in 0..w.len - 1 /\ i - 1 >= p /\ (i - 1) + 1 = i
        BY <1>2, <1>3, <3>1, <3>3
      <4>2. w.items[i - 1] = v.items[i]
        BY <1>4, <3>1, <4>1
      <4> QED BY <4>1, <4>2
    <3> QED BY <2>1, <3>1, <3>2, <3>3
  <2>2. ASSUME NEW y \in KeysOf(v), y # k PROVE y \in KeysOf(w)
    <3>1. PICK i \in 0..v.len - 1 : y = KeyAt(v, i)
      BY DEF KeysOf
    <3>2. i # p
      BY <1>1, <2>2, <3>1
    <3>3. PICK j \in 0..w.len - 1 : w.items[j] = v.items[i]
      BY <2>1, <3>2
    <3> QED BY <3>1, <3>3 DEF KeysOf, KeyAt
  <2>3. ASSUME NEW y \in KeysOf(w) PROVE y \in KeysOf(v) \ {k}
    <3>1. PICK j \in 0..w.len - 1 : y = KeyAt(w, j)
      BY DEF KeysOf
    <3>2. PICK i \in 0..v.len - 1 : w.items[j] = v.items[i] /\ i # p
      BY <1>1, <1>2, <1>3, <1>4
    <3>3. y = KeyAt(v, i) /\ y # KeyAt(v, p)
      BY <1>1, <1>3, <3>1, <3>2 DEF KeyAt
    <3> QED BY <1>1, <3>3 DEF KeysOf
  <2> QED BY <2>2, <2>3
<1>8. ASSUME NEW i \in 0..w.len - 1 PROVE f[KeyAt(w, i)] = w.items[i][2]
  <2>1. PICK j \in 0..v.len - 1 : w.items[i] = v.items[j]
    BY <1>4
  <2>2. KeyAt(w, i) = KeyAt(v, j) /\ Content(v)[KeyAt(v, j)] = v.items[j][2]
    BY <2>1, ContentIs DEF KeyAt
  <2>3. KeyAt(w, i) \in KeysOf(v) \ {k}
    BY <1>7 DEF KeysOf
  <2> QED BY <2>1, <2>2, <2>3
<1>9. Content(w) = f
  <2>1. f = [y \in KeysOf(v) \ {k} |-> f[y]]
    OBVIOUS
  <2> HIDE DEF f
  <2> QED BY <1>6, <1>7, <1>8, <2>1, ContentUnique
<1> QED BY <1>6, <1>9 DEF w, p


----------------------------------------------------------------------------
(* Values: what the slots are, and what they stand for.                    *)

\* What every call leaves behind, in the value and in the archive: a length
\* within the capacity, elements of the type, defaults behind the live slots,
\* a map's keys in order, and a string's bytes the bytes of a text.
Clean(v) ==
  /\ Shape(v)
  /\ \A i \in Slots : i >= v.len => v.items[i] = Default
  /\ kind = "map" => Ascending(v)
  /\ kind = "string" => from_utf8(as_slice(v))

IInv ==
  /\ kind \in Kinds
  /\ Clean(val)
  /\ arch # <<>> => arch = <<arch[1]>> /\ Clean(arch[1])

\* The abstract module's own copies of library operators.
LEMMA SameOperators ==
  /\ \A s : Abstract!FlattenSeq(s) = FlattenSeq(s)
  /\ \A S, n : Abstract!BoundedSeq(S, n) = BoundedSeq(S, n)
  /\ \A f, S : Abstract!Restrict(f, S) = [x \in S |-> f[x]]
  /\ \A S : Abstract!Cardinality(S) = Cardinality(S)
<1>1. \A s : Abstract!FlattenSeq(s) = FlattenSeq(s)
  BY DEF Abstract!FlattenSeq, FlattenSeq
<1>2. \A S, n : Abstract!BoundedSeq(S, n) = BoundedSeq(S, n)
  BY DEF Abstract!BoundedSeq, BoundedSeq, Abstract!SeqOf, SeqOf
<1>3. \A f, S : Abstract!Restrict(f, S) = [x \in S |-> f[x]]
  BY DEF Abstract!Restrict
<1>4. \A S : Abstract!Cardinality(S) = Cardinality(S)
  BY DEF Abstract!Cardinality, Cardinality
<1> QED BY <1>1, <1>2, <1>3, <1>4

\* The sequences up to a length.
LEMMA Bounded ==
  ASSUME NEW S, NEW n \in Nat
  PROVE  \A s : s \in BoundedSeq(S, n) <=> s \in Seq(S) /\ Len(s) <= n
<1>1. \A s : s \in BoundedSeq(S, n) <=> \E m \in 0..n : s \in [1..m -> S]
  BY DEF BoundedSeq, SeqOf
<1>2. ASSUME NEW s, NEW m \in 0..n, s \in [1..m -> S] PROVE s \in Seq(S) /\ Len(s) <= n
  <2>1. s \in Seq(S) /\ Len(s) = m
    BY <1>2
  <2> QED BY <2>1
<1>3. ASSUME NEW s \in Seq(S), Len(s) <= n PROVE Len(s) \in 0..n /\ s \in [1..Len(s) -> S]
  BY <1>3, LenProperties, ElementOfSeq
<1> QED BY <1>1, <1>2, <1>3

\* The texts a string holds are told apart by their bytes.
LEMMA TextsAre ==
  ASSUME kind \in Kinds, kind = "string"
  PROVE  /\ \A s : s \in Texts <=> s \in Seq(Chars) /\ Len(Text(s)) <= Capacity
         /\ \A s \in Texts : from_utf8(Text(s)) /\ TextOf[Text(s)] = s
         /\ \A bytes : from_utf8(bytes) => TextOf[bytes] \in Texts /\ Text(TextOf[bytes]) = bytes
<1>1. Capacity \in Nat
  BY KindIs
<1>2. \A s : s \in Texts <=> s \in BoundedSeq(Chars, Capacity) /\ Len(Text(s)) <= Capacity
  BY DEF Texts, Capacity
<1>3. ASSUME NEW s PROVE s \in Texts <=> s \in Seq(Chars) /\ Len(Text(s)) <= Capacity
  <2>1. s \in BoundedSeq(Chars, Capacity) <=> s \in Seq(Chars) /\ Len(s) <= Capacity
    BY <1>1, Bounded
  <2>2. ASSUME s \in Seq(Chars), Len(Text(s)) <= Capacity PROVE Len(s) <= Capacity
    <3>1. Len(s) <= Len(Text(s))
      BY <2>2, TextLonger
    <3>2. Len(s) \in Nat /\ Len(Text(s)) \in Nat
      <4>1. Text(s) \in Seq(Bytes)
        BY <2>2, TextIs
      <4> QED BY <2>2, <4>1, LenProperties
    <3> QED BY <1>1, <2>2, <3>1, <3>2
  <2> QED BY <1>2, <2>1, <2>2
<1>4. TextOf = [bytes \in {Text(s) : s \in Texts} |-> CHOOSE s \in Texts : Text(s) = bytes]
  BY DEF TextOf
<1>5. \A bytes : from_utf8(bytes) <=> \E s \in Texts : bytes = Text(s)
  BY <1>4 DEF from_utf8
<1>6. ASSUME NEW bytes, from_utf8(bytes)
      PROVE  TextOf[bytes] \in Texts /\ Text(TextOf[bytes]) = bytes
  <2>1. PICK s \in Texts : Text(s) = bytes
    BY <1>5, <1>6
  <2>2. bytes \in {Text(t) : t \in Texts}
    BY <2>1
  <2>3. TextOf[bytes] = CHOOSE t \in Texts : Text(t) = bytes
    BY <1>4, <2>2
  <2> QED BY <2>1, <2>3
<1>7. ASSUME NEW s \in Texts PROVE from_utf8(Text(s)) /\ TextOf[Text(s)] = s
  <2>1. from_utf8(Text(s))
    BY <1>5
  <2>2. TextOf[Text(s)] \in Texts /\ Text(TextOf[Text(s)]) = Text(s)
    BY <1>6, <2>1
  <2>3. s \in Seq(Chars) /\ TextOf[Text(s)] \in Seq(Chars)
    BY <1>3, <2>2
  <2>4. kind # "map"
    OBVIOUS
  <2> QED BY <2>1, <2>2, <2>3, <2>4, TextCompares
<1> QED BY <1>3, <1>6, <1>7

\* What a value stands for, kind by kind.
LEMMA StandsFor ==
  ASSUME kind \in Kinds, NEW v, Clean(v)
  PROVE  /\ kind \in {"vec", "option"} => Content(v) = as_slice(v)
         /\ kind = "string" => /\ Content(v) \in Texts /\ Content(v) \in Seq(Chars)
                               /\ Text(Content(v)) = as_slice(v)
         /\ kind = "map" => MapValue(v)
<1>1. kind \in {"vec", "option"} => Content(v) = as_slice(v)
  BY DEF Content
<1>2. ASSUME kind = "string"
      PROVE  /\ Content(v) \in Texts /\ Content(v) \in Seq(Chars)
             /\ Text(Content(v)) = as_slice(v)
  <2>1. Content(v) = TextOf[as_slice(v)]
    BY <1>2 DEF Content
  <2>2. from_utf8(as_slice(v))
    BY <1>2 DEF Clean
  <2> QED BY <1>2, <2>1, <2>2, TextsAre
<1>3. kind = "map" => MapValue(v)
  BY KindIs DEF Clean, MapValue
<1> QED BY <1>1, <1>2, <1>3

\* A value without live slots stands for nothing.
LEMMA EmptyValue ==
  ASSUME kind \in Kinds, NEW v, Shape(v), v.len = 0, \A i \in Slots : v.items[i] = Default
  PROVE  Clean(v) /\ Content(v) = <<>>
<1>1. as_slice(v) = <<>>
  BY DEF as_slice
<1>2. kind = "string" => from_utf8(<<>>) /\ TextOf[<<>>] = <<>>
  <2>1. ASSUME kind = "string" PROVE <<>> \in Texts
    <3>1. <<>> \in Seq(Chars) /\ Len(<<>>) = 0 /\ Text(<<>>) = <<>> /\ Capacity \in Nat
      BY TextIs, KindIs, EmptySeq
    <3> DEFINE s == <<>>
    <3>2. s \in Seq(Chars) /\ Len(Text(s)) <= Capacity
      BY <3>1
    <3> HIDE DEF s
    <3>3. s \in Texts
      BY <2>1, <3>2, TextsAre
    <3> QED BY <3>3 DEF s
  <2>2. Text(<<>>) = <<>>
    BY TextIs
  <2> QED BY <2>1, <2>2, TextsAre
<1>3. kind = "map" => Ascending(v)
  BY DEF Ascending
<1>4. Clean(v)
  BY <1>1, <1>2, <1>3 DEF Clean
<1>5. CASE kind = "map"
  <2> DEFINE D == {}
             f == [k \in D |-> 0]
  <2>1. MapValue(v)
    BY <1>4, <1>5, StandsFor
  <2>2. f = [k \in D |-> f[k]]
    OBVIOUS
  <2>3. (\A k : k \in D <=> k \in KeysOf(v)) /\ \A i \in 0..v.len - 1 : f[KeyAt(v, i)] = v.items[i][2]
    BY DEF KeysOf
  <2>4. f = <<>>
    OBVIOUS
  <2> HIDE DEF D, f
  <2>5. Content(v) = f
    BY <2>1, <2>2, <2>3, ContentUnique
  <2> QED BY <1>4, <2>4, <2>5
<1>6. CASE kind = "string"
  BY <1>1, <1>2, <1>4, <1>6 DEF Content
<1>7. CASE kind \in {"vec", "option"}
  BY <1>1, <1>4, <1>7, StandsFor
<1> QED BY <1>5, <1>6, <1>7, KindIs

\* Values compare as what they stand for.
LEMMA PrecedesIs ==
  ASSUME kind \in Kinds, NEW v, NEW a, Clean(v), Clean(a)
  PROVE  /\ Abstract!Precedes(Abstract!Sequenced(Content(v)), Abstract!Sequenced(Content(a)))
              <=> slice_lt(as_slice(v), as_slice(a))
         /\ Abstract!Sequenced(Content(v)) = Abstract!Sequenced(Content(a))
              <=> as_slice(v) = as_slice(a)
<1>1. \A s, t : Abstract!Precedes(s, t) <=> slice_lt(s, t)
  BY DEF Abstract!Precedes, Abstract!Less, slice_lt, Less
<1>2. CASE kind = "map"
  <2>1. Abstract!Sequenced(Content(v)) = as_slice(v) /\ Abstract!Sequenced(Content(a)) = as_slice(a)
    BY <1>2, StandsFor, EntriesAre DEF Abstract!Sequenced
  <2> QED BY <1>1, <2>1
<1>3. CASE kind \in {"vec", "option"}
  <2>1. Abstract!Sequenced(Content(v)) = as_slice(v) /\ Abstract!Sequenced(Content(a)) = as_slice(a)
    BY <1>3, StandsFor DEF Abstract!Sequenced
  <2> QED BY <1>1, <2>1
<1>4. CASE kind = "string"
  <2>1. Abstract!Sequenced(Content(v)) = Content(v) /\ Abstract!Sequenced(Content(a)) = Content(a)
    BY <1>4 DEF Abstract!Sequenced
  <2>2. /\ Content(v) \in Seq(Chars) /\ Text(Content(v)) = as_slice(v)
        /\ Content(a) \in Seq(Chars) /\ Text(Content(a)) = as_slice(a)
    BY <1>4, StandsFor
  <2>3. kind # "map"
    BY <1>4
  <2>4. /\ slice_lt(Content(v), Content(a)) <=> slice_lt(Text(Content(v)), Text(Content(a)))
        /\ Content(v) = Content(a) <=> Text(Content(v)) = Text(Content(a))
    BY <2>2, <2>3, TextCompares
  <2> QED BY <1>1, <2>1, <2>2, <2>4
<1> QED BY <1>2, <1>3, <1>4, KindIs

----------------------------------------------------------------------------
(* Steps.                                                                  *)

\* What depends on the type only, before and after a step that keeps it.
LEMMA Primed ==
  ASSUME kind' = kind
  PROVE  /\ Content(val)' = Content(val')
         /\ Clean(val)' <=> Clean(val')
         /\ [i \in DOMAIN arch |-> Content(arch[i])]' = [i \in DOMAIN arch' |-> Content(arch'[i])]
         /\ Clean(arch[1])' <=> Clean(arch'[1])
<1>1. Content(val)' = Content(val')
  BY DEF Content, as_slice
<1>2. Clean(val)' <=> Clean(val')
  BY DEF Clean, Shape, Slots, Capacity, Item, Default, Ascending, as_slice
<1>3. [i \in DOMAIN arch |-> Content(arch[i])]' = [i \in DOMAIN arch' |-> Content(arch'[i])]
  BY DEF Content, as_slice
<1>4. Clean(arch[1])' <=> Clean(arch'[1])
  BY DEF Clean, Shape, Slots, Capacity, Item, Default, Ascending, as_slice
<1> QED BY <1>1, <1>2, <1>3, <1>4

\* A call that sets the value.
LEMMA Becomes ==
  ASSUME IInv, NEW w, NEW r, Become(w, r), Clean(w)
  PROVE  /\ IInv'
         /\ Abstract!Become(Content(w), r)
<1>1. kind' = kind /\ val' = w /\ arch' = arch /\ ret' = r
  BY DEF Become
<1>2. IInv'
  BY <1>1, Primed DEF IInv
<1>3. Content(val)' = Content(w)
  BY <1>1, Primed
<1>4. [i \in DOMAIN arch |-> Content(arch[i])]' = [i \in DOMAIN arch |-> Content(arch[i])]
  BY <1>1, Primed
<1> QED BY <1>1, <1>2, <1>3, <1>4 DEF Abstract!Become

\* A call that only answers.
LEMMA Answers ==
  ASSUME IInv, NEW r, Answer(r)
  PROVE  /\ IInv'
         /\ Abstract!Answer(r)
<1>1. Become(val, r) /\ Clean(val)
  BY DEF Answer, IInv
<1> QED BY <1>1, Becomes DEF Abstract!Answer


\* The answers and the capacity are the same on both sides.
LEMMA SameWords ==
  /\ \A r : Abstract!Says(r) = Says(r)
  /\ \A items : Abstract!Gives(items) = Gives(items)
  /\ Abstract!Capacity = Capacity
BY DEF Abstract!Says, Says, Abstract!Gives, Gives, Abstract!Capacity, Capacity

----------------------------------------------------------------------------
(* NbVec's calls.                                                          *)

\* A vector's slots and sequence.
LEMMA VecIs ==
  ASSUME IInv, kind = "vec"
  PROVE  /\ Capacity \in Nat /\ Item = Elems /\ Default \in Item
         /\ Shape(val) /\ \A i \in Slots : i >= val.len => val.items[i] = Default
         /\ val.len \in Nat /\ val.len <= Capacity
         /\ Content(val) = as_slice(val)
         /\ Content(val) \in Seq(Elems) /\ Len(Content(val)) = val.len
         /\ \A i \in 1..val.len : Content(val)[i] = val.items[i - 1]
<1>1. Capacity \in Nat /\ Default \in Item /\ Item = Elems
  BY KindIs DEF IInv, Item
<1>2. Shape(val) /\ \A i \in Slots : i >= val.len => val.items[i] = Default
  BY DEF IInv, Clean
<1>3. Content(val) = as_slice(val)
  BY StandsFor DEF IInv
<1> QED BY <1>1, <1>2, <1>3, SliceIs

\* A call that sets a vector, or an option.
LEMMA VecBecomes ==
  ASSUME IInv, kind \in {"vec", "option"}, NEW w, NEW r, Become(w, r),
         Shape(w), \A i \in Slots : i >= w.len => w.items[i] = Default
  PROVE  IInv' /\ Abstract!Become(as_slice(w), r)
<1>1. Clean(w)
  BY DEF Clean
<1>2. Content(w) = as_slice(w)
  BY <1>1, StandsFor DEF IInv
<1> QED BY <1>1, <1>2, Becomes

\* TryFrom<&[T]> is the sequence given, or a refusal when it is too long.
LEMMA FromSlice ==
  ASSUME IInv, NEW s \in BoundedSeq(Elems, Capacity + 1), try_from_slice(s)
  PROVE  IInv' /\ Abstract!TryFromSlice(s)
<1>1. kind = "vec"
  BY DEF try_from_slice
<1>2. /\ Capacity \in Nat /\ Item = Elems /\ Default \in Item
  BY <1>1, VecIs
<1>3. s \in Seq(Elems) /\ Len(s) \in Nat /\ \A i \in 1..Len(s) : s[i] \in Elems
  <2>1. s \in Seq(Elems)
    BY <1>2, Bounded
  <2> QED BY <2>1, LenProperties, ElementOfSeq
<1>4. CASE Len(s) > Capacity
  <2>1. Answer(Says("Capacity"))
    BY <1>4 DEF try_from_slice
  <2> QED BY <1>1, <1>4, <2>1, Answers, SameWords DEF Abstract!TryFromSlice
<1>5. CASE ~(Len(s) > Capacity)
  <2> DEFINE f == [i \in Slots |-> IF i < Len(s) THEN s[i + 1] ELSE Default]
             w == [len |-> Len(s), items |-> f]
  <2>1. Become(w, Says("ok"))
    BY <1>5 DEF try_from_slice
  <2>2. f \in [Slots -> Item]
    <3>1. \A i \in Slots : i < Len(s) => i + 1 \in 1..Len(s)
      BY <1>2, <1>3 DEF Slots
    <3> QED BY <1>2, <1>3, <3>1
  <2> HIDE DEF f
  <2>3. w.len = Len(s) /\ w.items = f
    OBVIOUS
  <2>4. Shape(w)
    BY <1>2, <1>3, <1>5, <2>2 DEF Shape
  <2> HIDE DEF w
  <2>5. \A i \in Slots : i >= w.len => w.items[i] = Default
    BY <1>3, <2>3 DEF f, Slots
  <2>6. as_slice(w) = s
    <3>1. /\ as_slice(w) \in Seq(Item) /\ Len(as_slice(w)) = Len(s)
          /\ \A i \in 1..Len(s) : as_slice(w)[i] = f[i - 1]
      BY <1>2, <2>3, <2>4, SliceIs
    <3>2. \A i \in 1..Len(s) : f[i - 1] = s[i]
      <4>1. \A i \in 1..Len(s) : i - 1 \in Slots /\ i - 1 < Len(s) /\ (i - 1) + 1 = i
        BY <1>2, <1>3, <1>5 DEF Slots
      <4> QED BY <4>1 DEF f
    <3> QED BY <1>2, <1>3, <3>1, <3>2, SeqEqual
  <2>7. IInv' /\ Abstract!Become(s, Says("ok"))
    BY <1>1, <2>1, <2>4, <2>5, <2>6, VecBecomes
  <2> QED BY <1>1, <1>5, <2>7, SameWords DEF Abstract!TryFromSlice
<1> QED BY <1>4, <1>5

\* One more element at a place.
LEMMA InsertStep ==
  ASSUME IInv, kind = "vec", NEW x \in Elems, NEW at \in 0..val.len,
         IF val.len >= Capacity THEN Answer(Says("Capacity"))
         ELSE Become(shifted_right(val, at, x), Says("ok"))
  PROVE  IInv' /\ Abstract!InsertOrRefuse(at + 1, x)
<1>1. /\ Capacity \in Nat /\ Item = Elems /\ Default \in Item
      /\ Shape(val) /\ \A i \in Slots : i >= val.len => val.items[i] = Default
      /\ val.len \in Nat /\ val.len <= Capacity
      /\ Content(val) = as_slice(val) /\ Len(Content(val)) = val.len
  BY VecIs
<1>2. CASE val.len >= Capacity
  <2>1. Answer(Says("Capacity"))
    BY <1>2
  <2>2. Len(Content(val)) = Capacity
    BY <1>1, <1>2
  <2> QED BY <2>1, <2>2, Answers, SameWords DEF Abstract!InsertOrRefuse
<1>3. CASE ~(val.len >= Capacity)
  <2> DEFINE w == shifted_right(val, at, x)
  <2>1. Become(w, Says("ok"))
    BY <1>3
  <2>2. /\ Shape(w) /\ w.len = val.len + 1
        /\ \A i \in Slots : w.items[i] = IF i = at THEN x
                                         ELSE IF i > at /\ i <= val.len THEN val.items[i - 1] ELSE val.items[i]
        /\ as_slice(w) = Abstract!InsertAt(as_slice(val), at + 1, x)
    BY <1>1, <1>3, ShiftRight
  <2> HIDE DEF w
  <2>3. \A i \in Slots : i >= w.len => w.items[i] = Default
    <3>1. \A i \in Slots : i \in Nat
      BY <1>1 DEF Slots
    <3> QED BY <1>1, <2>2, <3>1
  <2>4. IInv' /\ Abstract!Become(Abstract!InsertAt(Content(val), at + 1, x), Says("ok"))
    BY <1>1, <2>1, <2>2, <2>3, VecBecomes
  <2>5. Len(Content(val)) # Capacity
    BY <1>1, <1>3
  <2> QED BY <2>4, <2>5, SameWords DEF Abstract!InsertOrRefuse
<1> QED BY <1>2, <1>3

\* try_push appends, or refuses when every slot is live.
LEMMA PushStep ==
  ASSUME IInv, NEW x \in Elems, try_push(x)
  PROVE  IInv' /\ Abstract!TryPush(x)
<1>1. kind = "vec"
  BY DEF try_push
<1>2. /\ Capacity \in Nat /\ Shape(val) /\ val.len \in Nat /\ val.len <= Capacity
      /\ Len(Content(val)) = val.len
  BY <1>1, VecIs
<1>3. ASSUME ~(val.len >= Capacity)
      PROVE  [len |-> val.len + 1, items |-> [val.items EXCEPT ![val.len] = x]]
               = shifted_right(val, val.len, x)
  <2>1. val.items \in [Slots -> Item] /\ \A i \in Slots : i \in Nat
    BY <1>2 DEF Shape, Slots
  <2>2. ASSUME NEW i \in Slots
        PROVE  (CASE i = val.len                  -> x
                  [] i > val.len /\ i <= val.len  -> val.items[i - 1]
                  [] i < val.len \/ i > val.len   -> val.items[i])
                 = IF i = val.len THEN x ELSE val.items[i]
    BY <1>2, <2>1
  <2>3. [val.items EXCEPT ![val.len] = x] = [i \in Slots |-> IF i = val.len THEN x ELSE val.items[i]]
    BY <2>1
  <2> QED BY <2>2, <2>3 DEF shifted_right
<1>4. IF val.len >= Capacity THEN Answer(Says("Capacity"))
      ELSE Become(shifted_right(val, val.len, x), Says("ok"))
  BY <1>3 DEF try_push
<1>5. val.len \in 0..val.len
  BY <1>2
<1>6. IInv' /\ Abstract!InsertOrRefuse(val.len + 1, x)
  BY <1>1, <1>4, <1>5, InsertStep
<1> QED BY <1>1, <1>2, <1>6 DEF Abstract!TryPush

\* try_insert puts the element at the index, or at the end past it.
LEMMA TryInsertStep ==
  ASSUME IInv, NEW i \in Nat, NEW x \in Elems, try_insert(i, x)
  PROVE  IInv' /\ Abstract!TryInsert(i, x)
<1>1. kind = "vec"
  BY DEF try_insert
<1>2. val.len \in Nat /\ Len(Content(val)) = val.len
  BY <1>1, VecIs
<1> DEFINE at == IF i < val.len THEN i ELSE val.len
<1>3. at \in 0..val.len
  BY <1>2
<1>4. IF val.len >= Capacity THEN Answer(Says("Capacity"))
      ELSE Become(shifted_right(val, at, x), Says("ok"))
  BY DEF try_insert
<1>5. Abstract!TryInsert(i, x) <=> kind = "vec" /\ Abstract!InsertOrRefuse(at + 1, x)
  BY <1>2 DEF Abstract!TryInsert
<1> HIDE DEF at
<1> QED BY <1>1, <1>3, <1>4, <1>5, InsertStep

\* One element less.
LEMMA RemoveStep ==
  ASSUME IInv, kind = "vec", NEW at \in 0..val.len - 1, NEW r, Become(shifted_left(val, at), r)
  PROVE  IInv' /\ Abstract!Become(Abstract!RemoveAt(Content(val), at + 1), r)
<1>1. /\ Capacity \in Nat /\ Default \in Item
      /\ Shape(val) /\ \A i \in Slots : i >= val.len => val.items[i] = Default
      /\ val.len \in Nat /\ Content(val) = as_slice(val)
  BY VecIs
<1> DEFINE w == shifted_left(val, at)
<1>2. /\ Shape(w) /\ w.len = val.len - 1
      /\ \A i \in Slots : w.items[i] = IF i >= at /\ i < val.len - 1 THEN val.items[i + 1]
                                       ELSE IF i = val.len - 1 THEN Default ELSE val.items[i]
      /\ as_slice(w) = Abstract!RemoveAt(as_slice(val), at + 1)
  BY <1>1, ShiftLeft
<1>3. Become(w, r)
  OBVIOUS
<1> HIDE DEF w
<1>4. \A i \in Slots : i >= w.len => w.items[i] = Default
  <2>1. \A i \in Slots : i \in Nat
    BY <1>1 DEF Slots
  <2> QED BY <1>1, <1>2, <2>1
<1> QED BY <1>1, <1>2, <1>3, <1>4, VecBecomes

\* pop takes the last element off and gives it.
LEMMA PopStep ==
  ASSUME IInv, pop
  PROVE  IInv' /\ Abstract!Pop
<1>1. kind = "vec"
  BY DEF pop
<1>2. /\ val.len \in Nat /\ Content(val) \in Seq(Elems) /\ Len(Content(val)) = val.len
      /\ \A i \in 1..val.len : Content(val)[i] = val.items[i - 1]
  BY <1>1, VecIs
<1>3. CASE val.len = 0
  <2>1. Content(val) = <<>>
    BY <1>2, <1>3, EmptySeq
  <2>2. Answer(Says("None"))
    BY <1>3 DEF pop
  <2> QED BY <1>1, <2>1, <2>2, Answers, SameWords DEF Abstract!Pop
<1>4. CASE val.len # 0
  <2>1. Content(val) # <<>>
    BY <1>2, <1>4, EmptySeq
  <2>2. Become(shifted_left(val, val.len - 1), Gives(<<val.items[val.len - 1]>>))
    BY <1>4 DEF pop
  <2>3. val.len - 1 \in 0..val.len - 1 /\ (val.len - 1) + 1 = val.len /\ val.len \in 1..val.len
    BY <1>2, <1>4
  <2>4. IInv' /\ Abstract!Become(Abstract!RemoveAt(Content(val), val.len), Gives(<<val.items[val.len - 1]>>))
    BY <1>1, <2>2, <2>3, RemoveStep
  <2>5. Abstract!RemoveAt(Content(val), val.len) = Abstract!Front(Content(val))
    <3> DEFINE c == Content(val)
               n == val.len
    <3>1. c \in Seq(Elems) /\ n \in Nat /\ n = Len(c)
      BY <1>2
    <3>2. Abstract!RemoveAt(c, n) = SubSeq(c, 1, n - 1) \o SubSeq(c, n + 1, n)
      BY <3>1 DEF Abstract!RemoveAt
    <3>3. Abstract!Front(c) = SubSeq(c, 1, n - 1)
      BY <3>1 DEF Abstract!Front
    <3> HIDE DEF c, n
    <3>4. SubSeq(c, n + 1, n) = <<>>
      BY <3>1, SubSeqEmpty
    <3>5. SubSeq(c, 1, n - 1) \in Seq(Elems)
      BY <3>1
    <3>6. SubSeq(c, 1, n - 1) \o <<>> = SubSeq(c, 1, n - 1)
      BY <3>5, ConcatEmptySeq
    <3>7. Abstract!RemoveAt(c, n) = Abstract!Front(c)
      BY <3>2, <3>3, <3>4, <3>6
    <3> QED BY <3>7 DEF c, n
  <2>6. Abstract!Last(Content(val)) = val.items[val.len - 1]
    BY <1>2, <2>3 DEF Abstract!Last
  <2> QED BY <1>1, <2>1, <2>4, <2>5, <2>6, SameWords DEF Abstract!Pop
<1> QED BY <1>3, <1>4

\* remove takes out the element at the index, and clears the slot left free.
LEMMA RemoveFromStep ==
  ASSUME IInv, NEW i \in Nat, remove(i)
  PROVE  IInv' /\ Abstract!RemoveFrom(i)
<1>1. kind = "vec"
  BY DEF remove
<1>2. /\ val.len \in Nat /\ Len(Content(val)) = val.len
      /\ \A j \in 1..val.len : Content(val)[j] = val.items[j - 1]
  BY <1>1, VecIs
<1>3. CASE i >= val.len
  <2>1. Answer(Says("None"))
    BY <1>3 DEF remove
  <2> QED BY <1>1, <1>2, <1>3, <2>1, Answers, SameWords DEF Abstract!RemoveFrom
<1>4. CASE ~(i >= val.len)
  <2>1. Become(shifted_left(val, i), Gives(<<val.items[i]>>))
    BY <1>4 DEF remove
  <2>2. i \in 0..val.len - 1 /\ i + 1 \in 1..val.len /\ (i + 1) - 1 = i
    BY <1>2, <1>4
  <2>3. IInv' /\ Abstract!Become(Abstract!RemoveAt(Content(val), i + 1), Gives(<<val.items[i]>>))
    BY <1>1, <2>1, <2>2, RemoveStep
  <2>4. Content(val)[i + 1] = val.items[i]
    BY <1>2, <2>2
  <2> QED BY <1>1, <1>2, <1>4, <2>3, <2>4, SameWords DEF Abstract!RemoveFrom
<1> QED BY <1>3, <1>4

\* get_mut changes the one element at the index.
LEMMA GetMutStep ==
  ASSUME IInv, NEW i \in Nat, NEW x \in Elems, get_mut(i, x)
  PROVE  IInv' /\ Abstract!SetElement(i, x)
<1>1. kind = "vec"
  BY DEF get_mut
<1>2. /\ Capacity \in Nat /\ Item = Elems
      /\ Shape(val) /\ \A j \in Slots : j >= val.len => val.items[j] = Default
      /\ val.len \in Nat /\ val.len <= Capacity
      /\ Content(val) = as_slice(val) /\ Len(Content(val)) = val.len
  BY <1>1, VecIs
<1>3. CASE i >= val.len
  <2>1. Answer(Says("None"))
    BY <1>3 DEF get_mut
  <2> QED BY <1>1, <1>2, <1>3, <2>1, Answers, SameWords DEF Abstract!SetElement
<1>4. CASE ~(i >= val.len)
  <2> DEFINE w == WithSlot(val, i, x)
  <2>1. Become(w, Says("ok"))
    BY <1>4 DEF get_mut, WithSlot
  <2>2. i \in 0..val.len - 1
    BY <1>2, <1>4
  <2> HIDE DEF w
  <2>3. /\ Shape(w) /\ w.len = val.len
        /\ \A j \in Slots : w.items[j] = IF j = i THEN x ELSE val.items[j]
        /\ as_slice(w) = [as_slice(val) EXCEPT ![i + 1] = x]
    BY <1>2, <2>2, SetSlot DEF w
  <2>4. \A j \in Slots : j >= w.len => w.items[j] = Default
    BY <1>2, <1>4, <2>3
  <2> DEFINE s == [Content(val) EXCEPT ![i + 1] = x]
  <2>5. as_slice(w) = s
    BY <1>2, <2>3
  <2> HIDE DEF s
  <2>6. IInv' /\ Abstract!Become(s, Says("ok"))
    BY <1>1, <2>1, <2>3, <2>4, <2>5, VecBecomes
  <2> QED BY <1>1, <1>2, <1>4, <2>6, SameWords DEF Abstract!SetElement, s
<1> QED BY <1>3, <1>4

\* truncate keeps the first n, and clears the slots behind them.
LEMMA TruncateStep ==
  ASSUME IInv, NEW n \in Nat, truncate(n)
  PROVE  IInv' /\ Abstract!Truncate(n)
<1>1. kind = "vec"
  BY DEF truncate
<1>2. /\ Capacity \in Nat /\ Default \in Item
      /\ Shape(val) /\ \A j \in Slots : j >= val.len => val.items[j] = Default
      /\ val.len \in Nat /\ val.len <= Capacity
      /\ Content(val) = as_slice(val) /\ Len(Content(val)) = val.len
  BY <1>1, VecIs
<1>3. CASE n >= val.len
  <2>1. Become(val, Says("ok"))
    BY <1>3 DEF truncate
  <2>2. IInv' /\ Abstract!Become(Content(val), Says("ok"))
    BY <2>1, Becomes DEF IInv
  <2> QED BY <1>1, <1>2, <1>3, <2>2, SameWords DEF Abstract!Truncate
<1>4. CASE ~(n >= val.len)
  <2> DEFINE w == shortened(val, n)
  <2>1. Become(w, Says("ok"))
    BY <1>4 DEF truncate
  <2>2. n \in 0..val.len
    BY <1>2, <1>4
  <2>3. /\ Shape(w) /\ w.len = n
        /\ \A i \in Slots : w.items[i] = IF i >= n /\ i < val.len THEN Default ELSE val.items[i]
        /\ as_slice(w) = SubSeq(as_slice(val), 1, n)
    BY <1>2, <2>2, Shorten
  <2> HIDE DEF w
  <2>4. \A j \in Slots : j >= w.len => w.items[j] = Default
    <3>1. \A i \in Slots : i \in Nat
      BY <1>2 DEF Slots
    <3> QED BY <1>2, <2>3, <3>1
  <2>5. IInv' /\ Abstract!Become(SubSeq(Content(val), 1, n), Says("ok"))
    BY <1>1, <1>2, <2>1, <2>3, <2>4, VecBecomes
  <2> QED BY <1>1, <1>2, <1>4, <2>5, SameWords DEF Abstract!Truncate
<1> QED BY <1>3, <1>4

\* clear leaves no live slot and no leftover.
LEMMA ClearStep ==
  ASSUME IInv, clear
  PROVE  IInv' /\ Abstract!Clear
<1> DEFINE w == shortened(val, 0)
<1>1. kind \in {"vec", "map", "string"} /\ Become(w, Says("ok"))
  BY DEF clear
<1>2. /\ kind \in Kinds /\ Capacity \in Nat /\ Default \in Item /\ Shape(val)
      /\ \A i \in Slots : i >= val.len => val.items[i] = Default
  BY KindIs DEF IInv, Clean
<1>3. val.len \in Nat /\ 0 \in 0..val.len
  BY <1>2, SliceIs
<1>4. /\ Shape(w) /\ w.len = 0
      /\ \A i \in Slots : w.items[i] = IF i >= 0 /\ i < val.len THEN Default ELSE val.items[i]
  BY <1>2, <1>3, Shorten
<1> HIDE DEF w
<1>5. \A i \in Slots : w.items[i] = Default
  <2>1. \A i \in Slots : i \in Nat
    BY <1>2 DEF Slots
  <2> QED BY <1>2, <1>3, <1>4, <2>1
<1>6. Clean(w) /\ Content(w) = <<>>
  BY <1>2, <1>4, <1>5, EmptyValue
<1>7. IInv' /\ Abstract!Become(<<>>, Says("ok"))
  BY <1>1, <1>6, Becomes
<1> QED BY <1>1, <1>7, SameWords DEF Abstract!Clear

\* iter gives a vector's elements in order, a map's entries by their keys.
LEMMA IterStep ==
  ASSUME IInv, iter
  PROVE  IInv' /\ Abstract!Iterate
<1>1. /\ kind \in {"vec", "map"}
      /\ Answer(Gives(IF kind = "map" THEN FlattenSeq(as_slice(val)) ELSE as_slice(val)))
  BY DEF iter
<1>2. kind = "map" => Abstract!FlattenSeq(Abstract!Entries(Content(val))) = FlattenSeq(as_slice(val))
  <2>1. ASSUME kind = "map" PROVE Abstract!Entries(Content(val)) = as_slice(val)
    BY <2>1, StandsFor, EntriesAre DEF IInv
  <2> QED BY <2>1, SameOperators
<1>3. kind = "vec" => Content(val) = as_slice(val)
  BY StandsFor DEF IInv
<1>4. IInv' /\ Abstract!Answer(Gives(IF kind = "map" THEN FlattenSeq(as_slice(val)) ELSE as_slice(val)))
  BY <1>1, Answers
<1> QED BY <1>1, <1>2, <1>3, <1>4, SameWords DEF Abstract!Iterate


----------------------------------------------------------------------------
(* NbMap's calls.                                                          *)

\* A map's slots and function.
LEMMA MapIs ==
  ASSUME IInv, kind = "map"
  PROVE  /\ Capacity \in Nat /\ Default \in Item
         /\ MapValue(val) /\ \A i \in Slots : i >= val.len => val.items[i] = Default
         /\ val.len \in Nat /\ val.len <= Capacity
         /\ DOMAIN Content(val) = KeysOf(val)
         /\ Cardinality(DOMAIN Content(val)) = val.len
<1>1. Capacity \in Nat /\ Default \in Item
  BY KindIs DEF IInv
<1>2. MapValue(val) /\ \A i \in Slots : i >= val.len => val.items[i] = Default
  BY StandsFor DEF IInv, Clean
<1> QED BY <1>1, <1>2, MapSlots, ContentIs, KeyCount

\* A call that sets a map.
LEMMA MapBecomes ==
  ASSUME IInv, kind = "map", NEW w, NEW r, Become(w, r),
         MapValue(w), \A i \in Slots : i >= w.len => w.items[i] = Default
  PROVE  IInv' /\ Abstract!Become(Content(w), r)
<1>1. Clean(w)
  BY DEF Clean, MapValue
<1> QED BY <1>1, Becomes

\* What a key gives.
LEMMA GetIs ==
  ASSUME NEW v, MapValue(v), NEW k \in Keys
  PROVE  /\ map_get(v, k) = Abstract!Found(Content(v), k)
         /\ binary_search(v, k).found <=> k \in DOMAIN Content(v)
         /\ k \in DOMAIN Content(v) => map_get(v, k) = Gives(<<Content(v)[k]>>)
         /\ k \notin DOMAIN Content(v) => map_get(v, k) = Says("None")
<1> DEFINE at == binary_search(v, k)
<1>1. map_get(v, k) = IF at.found THEN Gives(<<v.items[at.pos][2]>>) ELSE Says("None")
  BY DEF map_get
<1>2. /\ at.found \in BOOLEAN /\ (at.found <=> k \in KeysOf(v))
      /\ at.found => Content(v)[k] = v.items[at.pos][2]
  BY SearchFinds
<1>3. DOMAIN Content(v) = KeysOf(v)
  BY ContentIs
<1> HIDE DEF at
<1>4. /\ k \in DOMAIN Content(v) => map_get(v, k) = Gives(<<Content(v)[k]>>)
      /\ k \notin DOMAIN Content(v) => map_get(v, k) = Says("None")
      /\ at.found <=> k \in DOMAIN Content(v)
  BY <1>1, <1>2, <1>3
<1>5. map_get(v, k) = Abstract!Found(Content(v), k)
  BY <1>4, SameWords DEF Abstract!Found
<1> QED BY <1>4, <1>5 DEF at

\* try_insert replaces the value of a present key and inserts an absent one where
\* the keys stay ascending, or refuses when every slot is live.
LEMMA MapInsertStep ==
  ASSUME IInv, NEW k \in Keys, NEW x \in Elems, map_try_insert(k, x)
  PROVE  IInv' /\ Abstract!MapInsert(k, x)
<1> DEFINE at == binary_search(val, k)
           c == Content(val)
<1>1. kind = "map"
  BY DEF map_try_insert
<1>2. /\ Capacity \in Nat /\ Default \in Item
      /\ MapValue(val) /\ \A i \in Slots : i >= val.len => val.items[i] = Default
      /\ val.len \in Nat /\ val.len <= Capacity
      /\ DOMAIN c = KeysOf(val) /\ Cardinality(DOMAIN c) = val.len
  BY <1>1, MapIs
<1>3. /\ at.found \in BOOLEAN /\ (at.found <=> k \in DOMAIN c)
      /\ at.found => at.pos \in 0..val.len - 1
      /\ ~at.found => at.pos \in 0..val.len
      /\ k \in DOMAIN c => map_get(val, k) = Gives(<<c[k]>>)
  BY <1>2, SearchFinds, GetIs
<1>4. CASE \/ at.found /\ Become([val EXCEPT !.items[at.pos] = <<k, x>>], map_get(val, k))
           \/ ~at.found /\ val.len >= Capacity /\ Answer(Says("Capacity"))
           \/ ~at.found /\ val.len < Capacity
                /\ Become(shifted_right(val, at.pos, <<k, x>>), Says("None"))
  <2>1. Abstract!MapInsert(k, x) <=>
          \/ k \in DOMAIN c /\ Abstract!Become([c EXCEPT ![k] = x], Gives(<<c[k]>>))
          \/ k \notin DOMAIN c /\ val.len = Capacity /\ Abstract!Answer(Says("Capacity"))
          \/ k \notin DOMAIN c /\ val.len < Capacity
               /\ Abstract!Become([y \in DOMAIN c \cup {k} |-> IF y = k THEN x ELSE c[y]], Says("None"))
    <3> HIDE DEF c
    <3>1. Abstract!Capacity = Capacity /\ Abstract!Cardinality(DOMAIN c) = val.len
      BY <1>2, SameWords, SameOperators
    <3>2. (\A r : Abstract!Says(r) = Says(r)) /\ (\A items : Abstract!Gives(items) = Gives(items))
      BY SameWords
    <3>3. val.len = Capacity \/ val.len < Capacity
      BY <1>2
    <3>4. ~(val.len = Capacity /\ val.len < Capacity)
      BY <1>2
    <3> QED BY <1>1, <3>1, <3>2, <3>3, <3>4 DEF Abstract!MapInsert, c
  <2>2. CASE at.found /\ Become([val EXCEPT !.items[at.pos] = <<k, x>>], map_get(val, k))
    <3> DEFINE w == WithSlot(val, at.pos, <<k, x>>)
    <3>1. Become(w, Gives(<<c[k]>>))
      BY <1>3, <2>2 DEF WithSlot
    <3>2. MapValue(w) /\ Content(w) = [c EXCEPT ![k] = x]
      BY <1>2, <2>2, SetEntry
    <3>3. w.len = val.len /\ \A i \in Slots : w.items[i] = IF i = at.pos THEN <<k, x>> ELSE val.items[i]
      <4>1. <<k, x>> \in Item /\ Shape(val)
        BY <1>1, <1>2 DEF Item, MapValue
      <4> HIDE DEF at
      <4> QED BY <1>2, <1>3, <2>2, <4>1, SetSlot
    <3> HIDE DEF w, at
    <3>4. \A i \in Slots : i >= w.len => w.items[i] = Default
      BY <1>2, <1>3, <2>2, <3>3
    <3>5. IInv' /\ Abstract!Become(Content(w), Gives(<<c[k]>>))
      BY <1>1, <3>1, <3>2, <3>4, MapBecomes
    <3> QED BY <1>3, <2>1, <2>2, <3>2, <3>5
  <2>3. CASE ~at.found /\ val.len >= Capacity /\ Answer(Says("Capacity"))
    <3> HIDE DEF at, c
    <3>1. IInv' /\ Abstract!Answer(Says("Capacity"))
      BY <2>3, Answers
    <3>2. k \notin DOMAIN c /\ val.len = Capacity
      BY <1>2, <1>3, <2>3
    <3> QED BY <2>1, <3>1, <3>2
  <2>4. CASE ~at.found /\ val.len < Capacity
               /\ Become(shifted_right(val, at.pos, <<k, x>>), Says("None"))
    <3> DEFINE w == shifted_right(val, at.pos, <<k, x>>)
    <3>1. Become(w, Says("None"))
      BY <2>4
    <3>2. MapValue(w) /\ Content(w) = [y \in DOMAIN c \cup {k} |-> IF y = k THEN x ELSE c[y]]
      BY <1>2, <2>4, PutEntry
    <3>3. /\ w.len = val.len + 1
          /\ \A i \in Slots : w.items[i] = IF i = at.pos THEN <<k, x>>
                                           ELSE IF i > at.pos /\ i <= val.len THEN val.items[i - 1] ELSE val.items[i]
      <4>1. <<k, x>> \in Item /\ Shape(val)
        BY <1>1, <1>2 DEF Item, MapValue
      <4> HIDE DEF at
      <4> QED BY <1>2, <1>3, <2>4, <4>1, ShiftRight
    <3> HIDE DEF w, at
    <3>4. \A i \in Slots : i >= w.len => w.items[i] = Default
      <4>1. \A i \in Slots : i \in Nat
        BY <1>2 DEF Slots
      <4> QED BY <1>2, <1>3, <2>4, <3>3, <4>1
    <3>5. IInv' /\ Abstract!Become(Content(w), Says("None"))
      BY <1>1, <3>1, <3>2, <3>4, MapBecomes
    <3> QED BY <1>3, <2>1, <2>4, <3>2, <3>5
  <2> QED BY <1>4, <2>2, <2>3, <2>4
<1>5. \/ at.found /\ Become([val EXCEPT !.items[at.pos] = <<k, x>>], map_get(val, k))
      \/ ~at.found /\ val.len >= Capacity /\ Answer(Says("Capacity"))
      \/ ~at.found /\ val.len < Capacity
                /\ Become(shifted_right(val, at.pos, <<k, x>>), Says("None"))
  <2> DEFINE A == Become([val EXCEPT !.items[at.pos] = <<k, x>>], map_get(val, k))
             B == Become(shifted_right(val, at.pos, <<k, x>>), Says("None"))
  <2>1. (CASE at.found                        -> A
           [] ~at.found /\ val.len >= Capacity -> Answer(Says("Capacity"))
           [] ~at.found /\ val.len < Capacity  -> B)
    BY DEF map_try_insert
  <2> HIDE DEF A, B, at
  <2>2. (val.len >= Capacity /\ ~(val.len < Capacity)) \/ (val.len < Capacity /\ ~(val.len >= Capacity))
    BY <1>2
  <2>3. CASE at.found
    BY <2>1, <2>3 DEF A, B
  <2>4. CASE ~at.found /\ val.len >= Capacity /\ ~(val.len < Capacity)
    BY <2>1, <2>4 DEF A, B
  <2>5. CASE ~at.found /\ val.len < Capacity /\ ~(val.len >= Capacity)
    BY <2>1, <2>5 DEF A, B
  <2> QED BY <2>2, <2>3, <2>4, <2>5 DEF A, B
<1> HIDE DEF at, c
<1> QED BY <1>4, <1>5

\* get finds the value of a present key.
LEMMA MapGetStep ==
  ASSUME IInv, NEW k \in Keys, get(k)
  PROVE  IInv' /\ Abstract!MapGet(k)
<1>1. kind = "map" /\ Answer(map_get(val, k))
  BY DEF get
<1>2. map_get(val, k) = Abstract!Found(Content(val), k)
  BY <1>1, MapIs, GetIs
<1> QED BY <1>1, <1>2, Answers DEF Abstract!MapGet

\* get_mut changes the value of a present key.
LEMMA MapSetStep ==
  ASSUME IInv, NEW k \in Keys, NEW x \in Elems, map_get_mut(k, x)
  PROVE  IInv' /\ Abstract!MapSet(k, x)
<1> DEFINE at == binary_search(val, k)
           c == Content(val)
<1>1. kind = "map"
  BY DEF map_get_mut
<1>2. /\ Capacity \in Nat /\ Default \in Item
      /\ MapValue(val) /\ \A i \in Slots : i >= val.len => val.items[i] = Default
      /\ val.len \in Nat /\ val.len <= Capacity
      /\ DOMAIN c = KeysOf(val)
  BY <1>1, MapIs
<1>3. /\ at.found \in BOOLEAN /\ (at.found <=> k \in DOMAIN c)
      /\ at.found => at.pos \in 0..val.len - 1
  BY <1>2, SearchFinds
<1>4. IF at.found THEN Become([val EXCEPT !.items[at.pos] = <<k, x>>], Says("ok"))
      ELSE Answer(Says("None"))
  BY DEF map_get_mut
<1>5. CASE at.found
  <2> DEFINE w == WithSlot(val, at.pos, <<k, x>>)
  <2>1. Become(w, Says("ok"))
    BY <1>4, <1>5 DEF WithSlot
  <2> DEFINE f == [c EXCEPT ![k] = x]
  <2>2. MapValue(w) /\ Content(w) = f
    <3>1. MapValue(val) /\ Default \in Item
      BY <1>2
    <3> QED BY <1>5, <3>1, SetEntry
  <2>3. w.len = val.len /\ \A i \in Slots : w.items[i] = IF i = at.pos THEN <<k, x>> ELSE val.items[i]
    <3>1. <<k, x>> \in Item /\ Shape(val)
      BY <1>1, <1>2 DEF Item, MapValue
    <3> HIDE DEF at
    <3> QED BY <1>2, <1>3, <1>5, <3>1, SetSlot
  <2> HIDE DEF w, at
  <2>4. \A i \in Slots : i >= w.len => w.items[i] = Default
    BY <1>2, <1>3, <1>5, <2>3
  <2>5. IInv' /\ Abstract!Become(Content(w), Says("ok"))
    BY <1>1, <2>1, <2>2, <2>4, MapBecomes
  <2> QED BY <1>1, <1>3, <1>5, <2>2, <2>5, SameWords DEF Abstract!MapSet
<1>6. CASE ~at.found
  <2>1. Answer(Says("None"))
    BY <1>4, <1>6
  <2> HIDE DEF at
  <2> QED BY <1>1, <1>3, <1>6, <2>1, Answers, SameWords DEF Abstract!MapSet
<1> HIDE DEF at
<1> QED BY <1>3, <1>5, <1>6

\* remove takes out a present key, and clears the slot left free.
LEMMA MapRemoveStep ==
  ASSUME IInv, NEW k \in Keys, map_remove(k)
  PROVE  IInv' /\ Abstract!MapRemove(k)
<1> DEFINE at == binary_search(val, k)
           c == Content(val)
<1>1. kind = "map"
  BY DEF map_remove
<1>2. /\ Capacity \in Nat /\ Default \in Item
      /\ MapValue(val) /\ \A i \in Slots : i >= val.len => val.items[i] = Default
      /\ val.len \in Nat /\ val.len <= Capacity
      /\ DOMAIN c = KeysOf(val)
  BY <1>1, MapIs
<1>3. /\ at.found \in BOOLEAN /\ (at.found <=> k \in DOMAIN c)
      /\ at.found => at.pos \in 0..val.len - 1
      /\ map_get(val, k) = Abstract!Found(c, k)
      /\ k \notin DOMAIN c => map_get(val, k) = Says("None")
  BY <1>2, SearchFinds, GetIs
<1>4. IF at.found THEN Become(shifted_left(val, at.pos), map_get(val, k))
      ELSE Answer(Says("None"))
  BY DEF map_remove
<1>5. Abstract!MapRemove(k) <=>
        Abstract!Become([y \in DOMAIN c \ {k} |-> c[y]], Abstract!Found(c, k))
  <2>1. Abstract!Restrict(c, DOMAIN c \ {k}) = [y \in DOMAIN c \ {k} |-> c[y]]
    BY SameOperators
  <2> QED BY <1>1, <2>1 DEF Abstract!MapRemove
<1>6. CASE at.found
  <2> DEFINE w == shifted_left(val, at.pos)
  <2>1. Become(w, Abstract!Found(c, k))
    BY <1>3, <1>4, <1>6
  <2>2. MapValue(w) /\ Content(w) = [y \in DOMAIN c \ {k} |-> c[y]]
    BY <1>2, <1>6, TakeEntry
  <2>3. /\ w.len = val.len - 1
        /\ \A i \in Slots : w.items[i] = IF i >= at.pos /\ i < val.len - 1 THEN val.items[i + 1]
                                         ELSE IF i = val.len - 1 THEN Default ELSE val.items[i]
    <3>1. Shape(val)
      BY <1>2 DEF MapValue
    <3> HIDE DEF at
    <3> QED BY <1>2, <1>3, <1>6, <3>1, ShiftLeft
  <2> HIDE DEF w, at
  <2>4. \A i \in Slots : i >= w.len => w.items[i] = Default
    <3>1. \A i \in Slots : i \in Nat
      BY <1>2 DEF Slots
    <3> QED BY <1>2, <1>3, <1>6, <2>3, <3>1
  <2>5. IInv' /\ Abstract!Become(Content(w), Abstract!Found(c, k))
    BY <1>1, <2>1, <2>2, <2>4, MapBecomes
  <2> QED BY <1>5, <2>2, <2>5
<1>7. CASE ~at.found
  <2>1. Answer(Abstract!Found(c, k))
    BY <1>3, <1>4, <1>7
  <2>2. IInv' /\ Abstract!Answer(Abstract!Found(c, k))
    BY <2>1, Answers
  <2>3. [y \in DOMAIN c \ {k} |-> c[y]] = c
    <3>1. DOMAIN c \ {k} = DOMAIN c
      BY <1>3, <1>7
    <3>2. c = [y \in DOMAIN c |-> c[y]]
      BY <1>2, ContentIs
    <3> HIDE DEF c
    <3> QED BY <3>1, <3>2
  <2> HIDE DEF c
  <2> QED BY <1>5, <2>2, <2>3 DEF Abstract!Answer, c
<1> HIDE DEF at
<1> QED BY <1>3, <1>6, <1>7

\* get_with searches an archive as a map is searched.
LEMMA SearchStep ==
  ASSUME IInv, NEW k \in Keys, get_with(k)
  PROVE  IInv' /\ Abstract!Search(k)
<1>1. kind = "map" /\ arch # <<>> /\ Answer(map_get(arch[1], k))
  BY DEF get_with
<1>2. arch = <<arch[1]>> /\ MapValue(arch[1])
  BY <1>1, StandsFor DEF IInv
<1>3. map_get(arch[1], k) = Abstract!Found(Content(arch[1]), k)
  BY <1>2, GetIs
<1> DEFINE saved == [i \in DOMAIN arch |-> Content(arch[i])]
<1>4. saved # <<>> /\ saved[1] = Content(arch[1])
  <2>1. 1 \in DOMAIN arch
    BY <1>2
  <2> QED BY <2>1
<1>5. IInv' /\ Abstract!Answer(Abstract!Found(saved[1], k))
  BY <1>1, <1>3, <1>4, Answers
<1> QED BY <1>1, <1>4, <1>5 DEF Abstract!Search


----------------------------------------------------------------------------
(* NbString's and NbOption's calls.                                        *)

\* try_push_str appends the characters, or refuses when their bytes do not fit.
LEMMA PushStrStep ==
  ASSUME IInv, NEW s \in BoundedSeq(Chars, 2), try_push_str(s)
  PROVE  IInv' /\ Abstract!TryPushStr(s)
<1> DEFINE c == Content(val)
           bytes == Text(s)
           total == val.len + Len(bytes)
<1>1. kind = "string" /\ kind \in Kinds
  BY DEF try_push_str, IInv
<1>2. /\ Capacity \in Nat /\ Default \in Item /\ Item = Bytes /\ kind # "map"
      /\ Shape(val) /\ \A i \in Slots : i >= val.len => val.items[i] = Default
  BY <1>1, KindIs DEF IInv, Clean, Item
<1>3. c \in Seq(Chars) /\ Text(c) = as_slice(val)
  BY <1>1, StandsFor DEF IInv
<1>4. /\ val.len \in Nat /\ val.len <= Capacity
      /\ as_slice(val) \in Seq(Bytes) /\ Len(as_slice(val)) = val.len
      /\ \A i \in 1..val.len : as_slice(val)[i] = val.items[i - 1]
      /\ \A i \in Slots : val.items[i] \in Bytes
      /\ \A i : i \in Slots <=> i \in 0..Capacity - 1
  BY <1>2, SliceIs
<1>5. s \in Seq(Chars)
  BY Bounded
<1>6. bytes \in Seq(Bytes) /\ Len(bytes) \in Nat /\ \A i \in 1..Len(bytes) : bytes[i] \in Bytes
  <2>1. bytes \in Seq(Bytes)
    BY <1>5, TextIs
  <2> HIDE DEF bytes
  <2> QED BY <2>1, LenProperties, ElementOfSeq
<1>7. Abstract!Size(c) = val.len /\ Abstract!Size(s) = Len(bytes)
  <2>1. Abstract!Size(c) = Len(Text(c)) /\ Abstract!Size(s) = Len(Text(s))
    BY <1>3, <1>5, SizeIs
  <2> HIDE DEF c
  <2> QED BY <1>3, <1>4, <2>1
<1>8. Abstract!TryPushStr(s) <=>
        IF total > Capacity THEN Abstract!Answer(Says("Capacity"))
        ELSE Abstract!Become(c \o s, Says("ok"))
  <2>1. Abstract!Capacity = Capacity /\ \A r : Abstract!Says(r) = Says(r)
    BY SameWords
  <2> HIDE DEF bytes
  <2> QED BY <1>1, <1>7, <2>1 DEF Abstract!TryPushStr
<1>9. CASE total > Capacity
  <2>1. Answer(Says("Capacity"))
    BY <1>9 DEF try_push_str
  <2> HIDE DEF total, c
  <2> QED BY <1>8, <1>9, <2>1, Answers
<1>10. CASE ~(total > Capacity)
  <2> DEFINE f == [i \in Slots |-> IF i >= val.len /\ i < total THEN bytes[i - val.len + 1] ELSE val.items[i]]
             w == [len |-> total, items |-> f]
             both == as_slice(val) \o bytes
  <2>1. Become(w, Says("ok"))
    BY <1>10 DEF try_push_str
  <2> HIDE DEF bytes
  <2>2. total \in Nat /\ total <= Capacity
    BY <1>2, <1>4, <1>6, <1>10
  <2>3. ASSUME NEW i \in Slots
        PROVE  /\ i \in Nat
               /\ i >= val.len /\ i < total => i - val.len + 1 \in 1..Len(bytes) /\ f[i] = bytes[i - val.len + 1]
               /\ i < val.len => f[i] = val.items[i]
               /\ i >= total => f[i] = val.items[i] /\ i >= val.len
    <3>1. i \in Nat
      BY <1>2, <1>4
    <3>2. f[i] = IF i >= val.len /\ i < total THEN bytes[i - val.len + 1] ELSE val.items[i]
      OBVIOUS
    <3> HIDE DEF f
    <3>3. total = val.len + Len(bytes)
      OBVIOUS
    <3> HIDE DEF total
    <3> QED BY <1>4, <1>6, <2>2, <3>1, <3>2, <3>3
  <2>4. f \in [Slots -> Item]
    <3>1. ASSUME NEW i \in Slots PROVE f[i] \in Bytes
      <4>1. (i >= val.len /\ i < total) \/ i < val.len \/ i >= total
        BY <1>4, <2>2, <2>3
      <4> HIDE DEF f, total
      <4> QED BY <1>4, <1>6, <2>3, <4>1
    <3>2. f = [i \in Slots |-> f[i]]
      OBVIOUS
    <3> HIDE DEF f
    <3> QED BY <1>2, <3>1, <3>2
  <2> HIDE DEF f, total
  <2>5. w.len = total /\ w.items = f
    OBVIOUS
  <2>6. Shape(w)
    BY <1>2, <2>2, <2>4 DEF Shape
  <2> HIDE DEF w
  <2>7. \A i \in Slots : i >= w.len => w.items[i] = Default
    BY <1>2, <2>3, <2>5
  <2>8. as_slice(w) = both
    <3>1. /\ both \in Seq(Bytes) /\ Len(both) = total
          /\ \A j \in 1..val.len : both[j] = as_slice(val)[j]
          /\ \A j \in 1..Len(bytes) : both[val.len + j] = bytes[j]
      <4>1. /\ both \in Seq(Bytes) /\ Len(both) = Len(as_slice(val)) + Len(bytes)
            /\ \A j \in 1..Len(as_slice(val)) : both[j] = as_slice(val)[j]
            /\ \A j \in 1..Len(bytes) : both[Len(as_slice(val)) + j] = bytes[j]
        <5>1. as_slice(val) \in Seq(Bytes) /\ bytes \in Seq(Bytes)
          BY <1>4, <1>6
        <5> QED BY <5>1, Joined
      <4> HIDE DEF both
      <4> QED BY <1>4, <4>1 DEF total
    <3>2. /\ as_slice(w) \in Seq(Bytes) /\ Len(as_slice(w)) = total
          /\ \A i \in 1..total : as_slice(w)[i] = f[i - 1]
      BY <1>2, <2>5, <2>6, SliceIs
    <3> HIDE DEF both
    <3>3. ASSUME NEW j \in 1..total PROVE as_slice(w)[j] = both[j]
      <4>1. j - 1 \in Slots /\ j \in Nat
        <5>1. j - 1 \in 0..Capacity - 1 /\ j \in Nat
          BY <1>2, <2>2
        <5> QED BY <1>4, <5>1
      <4>2. CASE j <= val.len
        <5>1. j - 1 < val.len /\ j \in 1..val.len
          BY <1>4, <4>1, <4>2
        <5>2. f[j - 1] = val.items[j - 1]
          BY <2>3, <4>1, <5>1
        <5> QED BY <1>4, <3>1, <3>2, <5>1, <5>2
      <4>3. CASE j > val.len
        <5> DEFINE q == j - val.len
        <5>1. /\ j - 1 >= val.len /\ j - 1 < total
              /\ q \in 1..Len(bytes) /\ (j - 1) - val.len + 1 = q /\ val.len + q = j
          BY <1>4, <1>6, <4>1, <4>3 DEF total
        <5> HIDE DEF q
        <5>2. f[j - 1] = bytes[q]
          BY <2>3, <4>1, <5>1
        <5> QED BY <3>1, <3>2, <5>1, <5>2
      <4> QED BY <1>4, <4>1, <4>2, <4>3
    <3> QED BY <3>1, <3>2, <3>3, SeqEqual
  <2> DEFINE t == c \o s
  <2>9. t \in Seq(Chars) /\ Text(t) = both
    BY <1>3, <1>5, ConcatProperties, TextConcat DEF bytes
  <2>10. Len(Text(t)) <= Capacity
    <3>1. Len(both) = total
      <4>1. as_slice(val) \in Seq(Bytes) /\ bytes \in Seq(Bytes)
        BY <1>4, <1>6
      <4>2. Len(both) = Len(as_slice(val)) + Len(bytes)
        BY <4>1, ConcatProperties
      <4> HIDE DEF both
      <4> QED BY <1>4, <4>2 DEF total
    <3> HIDE DEF both, t
    <3> QED BY <2>2, <2>9, <3>1
  <2> HIDE DEF t, both
  <2>11. t \in Texts
    BY <1>1, <2>9, <2>10, TextsAre
  <2>12. from_utf8(as_slice(w)) /\ TextOf[as_slice(w)] = t
    BY <1>1, <2>8, <2>9, <2>11, TextsAre
  <2>13. Clean(w)
    BY <1>1, <2>6, <2>7, <2>12 DEF Clean
  <2>14. Content(w) = t
    BY <1>1, <2>12 DEF Content
  <2>15. IInv' /\ Abstract!Become(t, Says("ok"))
    BY <2>1, <2>13, <2>14, Becomes
  <2> QED BY <1>8, <1>10, <2>15 DEF t
<1> QED BY <1>9, <1>10

\* An option's slot and sequence.
LEMMA OptionIs ==
  ASSUME IInv, kind = "option"
  PROVE  /\ Capacity = 1 /\ Slots = {0} /\ Item = Elems /\ 0 \in Elems /\ Default = 0
         /\ val.items \in [{0} -> Elems]
         /\ as_option(val) = IF Content(val) = <<>> THEN Says("None") ELSE Gives(Content(val))
<1>1. /\ Capacity = 1 /\ Slots = {0} /\ Item = Elems /\ Default = 0 /\ 0 \in Elems
  BY KindIs, FixedAssumption DEF IInv, Item, Default, Slots
<1>2. Shape(val) /\ Content(val) = as_slice(val)
  BY StandsFor DEF IInv, Clean
<1>3. val.items \in [{0} -> Elems]
  BY <1>1, <1>2 DEF Shape
<1>4. /\ val.len \in Nat /\ val.len <= 1
      /\ Content(val) \in Seq(Elems) /\ Len(Content(val)) = val.len
      /\ \A i \in 1..val.len : Content(val)[i] = val.items[i - 1]
  BY <1>1, <1>2, SliceIs
<1>5. CASE val.len = 0
  <2>1. Content(val) = <<>>
    BY <1>4, <1>5, EmptySeq
  <2> QED BY <1>1, <1>3, <1>5, <2>1 DEF as_option
<1>6. CASE val.len = 1
  <2>1. 1 \in 1..val.len /\ 1 - 1 = 0
    BY <1>6
  <2>2. Content(val)[1] = val.items[0] /\ Len(Content(val)) = 1
    BY <1>4, <1>6, <2>1
  <2>3. Content(val) = <<val.items[0]>>
    BY <1>4, <2>2
  <2>4. Content(val) # <<>>
    BY <2>3
  <2> QED BY <1>1, <1>3, <1>6, <2>3, <2>4 DEF as_option
<1> QED BY <1>4, <1>5, <1>6

\* replace sets the slot and gives what was there.
LEMMA ReplaceStep ==
  ASSUME IInv, NEW x \in Elems, replace(x)
  PROVE  IInv' /\ Abstract!Replace(x)
<1> DEFINE w == [len |-> 1, items |-> [val.items EXCEPT ![0] = x]]
<1>1. kind = "option" /\ Become(w, as_option(val))
  BY DEF replace
<1>2. /\ Capacity = 1 /\ Slots = {0} /\ Item = Elems
      /\ val.items \in [{0} -> Elems]
      /\ as_option(val) = IF Content(val) = <<>> THEN Says("None") ELSE Gives(Content(val))
  BY <1>1, OptionIs
<1>3. w.len = 1 /\ w.items[0] = x /\ w.items \in [{0} -> Elems] /\ w = [len |-> w.len, items |-> w.items]
  BY <1>2
<1> HIDE DEF w
<1>4. Shape(w)
  BY <1>2, <1>3 DEF Shape
<1>5. \A i \in Slots : i >= w.len => w.items[i] = Default
  BY <1>2, <1>3
<1>6. as_slice(w) = <<x>>
  BY <1>3 DEF as_slice
<1>7. IInv' /\ Abstract!Become(<<x>>, as_option(val))
  BY <1>1, <1>4, <1>5, <1>6, VecBecomes
<1> QED BY <1>1, <1>2, <1>7, SameWords DEF Abstract!Replace

\* take clears the slot and gives what was there.
LEMMA TakeStep ==
  ASSUME IInv, take
  PROVE  IInv' /\ Abstract!Take
<1> DEFINE w == [len |-> 0, items |-> [val.items EXCEPT ![0] = Default]]
<1>1. kind = "option" /\ Become(w, as_option(val))
  BY DEF take
<1>2. /\ Capacity = 1 /\ Slots = {0} /\ Item = Elems /\ Default = 0 /\ 0 \in Elems
      /\ val.items \in [{0} -> Elems]
      /\ as_option(val) = IF Content(val) = <<>> THEN Says("None") ELSE Gives(Content(val))
  BY <1>1, OptionIs
<1>3. w.len = 0 /\ w.items[0] = Default /\ w.items \in [{0} -> Elems] /\ w = [len |-> w.len, items |-> w.items]
  BY <1>2
<1> HIDE DEF w
<1>4. Shape(w)
  BY <1>2, <1>3 DEF Shape
<1>5. Clean(w) /\ Content(w) = <<>>
  BY <1>2, <1>3, <1>4, EmptyValue DEF IInv
<1>6. IInv' /\ Abstract!Become(<<>>, as_option(val))
  BY <1>1, <1>5, Becomes
<1> QED BY <1>1, <1>2, <1>6, SameWords DEF Abstract!Take

----------------------------------------------------------------------------
(* Archives.                                                               *)

\* A call that writes an archive.
LEMMA Archives ==
  ASSUME IInv, NEW b, Clean(b), kind' = kind, val' = val, arch' = <<b>>
  PROVE  /\ IInv'
         /\ [i \in DOMAIN arch |-> Content(arch[i])]' = <<Content(b)>>
         /\ Content(val)' = Content(val)
<1>1. /\ Content(val)' = Content(val') /\ (Clean(val)' <=> Clean(val'))
      /\ [i \in DOMAIN arch |-> Content(arch[i])]' = [i \in DOMAIN arch' |-> Content(arch'[i])]
      /\ Clean(arch[1])' <=> Clean(arch'[1])
  BY Primed
<1>2. arch'[1] = b /\ arch' = <<arch'[1]>>
  OBVIOUS
<1>3. [i \in DOMAIN arch' |-> Content(arch'[i])] = <<Content(b)>>
  <2> HIDE DEF Content
  <2> QED OBVIOUS
<1>4. IInv'
  BY <1>1, <1>2 DEF IInv
<1> QED BY <1>1, <1>3, <1>4

\* resolve archives the value as it is.
LEMMA ResolveStep ==
  ASSUME IInv, resolve
  PROVE  IInv' /\ Abstract!SaveValue
<1>1. kind' = kind /\ val' = val /\ arch' = <<val>> /\ ret' = Says("ok") /\ Clean(val)
  BY DEF resolve, IInv
<1>2. /\ IInv'
      /\ [i \in DOMAIN arch |-> Content(arch[i])]' = <<Content(val)>>
      /\ Content(val)' = Content(val)
  BY <1>1, Archives
<1> QED BY <1>1, <1>2, SameWords DEF Abstract!SaveValue

\* What these types wrote and the checks let through stands for a value of the
\* type: the checks stand in for the writer only in strings.
LEMMA WrittenIs ==
  ASSUME IInv, NEW b \in Written, check_bytes(b)
  PROVE  /\ Clean(b)
         /\ Content(b) \in IF kind = "map" THEN UNION {[ks -> Elems] : ks \in SUBSET Keys}
                           ELSE Abstract!BoundedSeq(IF kind = "string" THEN Chars ELSE Elems, Capacity)
<1>1. kind \in Kinds /\ Capacity \in Nat
  BY KindIs DEF IInv
<1>2. /\ b \in [len: 0..Capacity + 1, items: [Slots -> Item]]
      /\ b.len <= Capacity
      /\ kind # "string" => /\ \A i \in Slots : i >= b.len => b.items[i] = Default
                            /\ kind = "map" => Ascending(b)
      /\ kind = "string" => /\ from_utf8(as_slice(b))
                            /\ \A i \in b.len..Capacity - 1 : b.items[i] = 0
  BY DEF Written, Foreign, Canonical, DefaultTail, check_bytes
<1>3. Shape(b)
  BY <1>1, <1>2 DEF Shape
<1>4. \A i \in Slots : i >= b.len => b.items[i] = Default
  <2>1. CASE kind = "string"
    <3>1. Default = 0
      BY <2>1 DEF Default
    <3>2. b.len \in Nat
      BY <1>1, <1>2
    <3> QED BY <1>1, <1>2, <2>1, <3>1, <3>2 DEF Slots
  <2> QED BY <1>2, <2>1
<1>5. Clean(b)
  BY <1>2, <1>3, <1>4 DEF Clean
<1>6. CASE kind = "map"
  <2>1. MapValue(b)
    BY <1>1, <1>5, <1>6, StandsFor
  <2>2. /\ Content(b) = [k \in KeysOf(b) |-> Content(b)[k]]
        /\ \A i \in 0..b.len - 1 : Content(b)[KeyAt(b, i)] = b.items[i][2]
    BY <2>1, ContentIs
  <2>3. \A i \in 0..b.len - 1 : KeyAt(b, i) \in Keys /\ b.items[i][2] \in Elems
    BY <2>1, MapSlots
  <2>4. KeysOf(b) \in SUBSET Keys
    BY <2>3 DEF KeysOf
  <2>5. ASSUME NEW k \in KeysOf(b) PROVE Content(b)[k] \in Elems
    <3>1. PICK i \in 0..b.len - 1 : k = KeyAt(b, i)
      BY DEF KeysOf
    <3> QED BY <2>2, <2>3, <3>1
  <2> DEFINE c == Content(b)
  <2> HIDE DEF c
  <2>6. c \in [KeysOf(b) -> Elems]
    BY <2>2, <2>5 DEF c
  <2>7. c \in UNION {[ks -> Elems] : ks \in SUBSET Keys}
    BY <2>4, <2>6
  <2> QED BY <1>5, <1>6, <2>7 DEF c
<1>7. CASE kind = "string"
  <2>1. Content(b) \in Seq(Chars) /\ Len(Text(Content(b))) <= Capacity
    BY <1>1, <1>5, <1>7, StandsFor, TextsAre
  <2>2. Len(Content(b)) <= Len(Text(Content(b)))
    BY <2>1, TextLonger
  <2>3. Len(Content(b)) \in Nat /\ Len(Text(Content(b))) \in Nat
    <3>1. Text(Content(b)) \in Seq(Bytes)
      BY <2>1, TextIs
    <3> QED BY <2>1, <3>1, LenProperties
  <2>4. Len(Content(b)) <= Capacity
    BY <1>1, <2>1, <2>2, <2>3
  <2>5. Content(b) \in Abstract!BoundedSeq(Chars, Capacity)
    BY <1>1, <2>1, <2>4, Bounded, SameOperators
  <2> QED BY <1>5, <1>7, <2>5
<1>8. CASE kind \in {"vec", "option"}
  <2>1. Item = Elems /\ Content(b) = as_slice(b)
    BY <1>1, <1>5, <1>8, StandsFor DEF Item
  <2>2. Content(b) \in Seq(Elems) /\ Len(Content(b)) <= Capacity
    BY <1>1, <1>3, <2>1, SliceIs
  <2>3. Content(b) \in Abstract!BoundedSeq(Elems, Capacity)
    BY <1>1, <2>2, Bounded, SameOperators
  <2> QED BY <1>5, <1>8, <2>3
<1> QED BY <1>1, <1>6, <1>7, <1>8, KindIs

\* Written bytes that pass check_bytes stand for some value; others leave no
\* archive.
LEMMA LoadStep ==
  ASSUME IInv, NEW b \in Written, load(b)
  PROVE  IInv' /\ Abstract!Load
<1> DEFINE saved == [i \in DOMAIN arch |-> Content(arch[i])]
<1>1. arch = <<>> /\ kind' = kind /\ val' = val
  BY DEF load
<1>2. saved = <<>>
  BY <1>1
<1>3. CASE check_bytes(b)
  <2>1. arch' = <<b>> /\ ret' = Says("ok")
    BY <1>3 DEF load
  <2>2. Clean(b)
    BY <1>3, WrittenIs
  <2>3. IInv' /\ saved' = <<Content(b)>> /\ Content(val)' = Content(val)
    BY <1>1, <2>1, <2>2, Archives
  <2> DEFINE c == Content(b)
  <2>4. c \in IF kind = "map" THEN UNION {[ks -> Elems] : ks \in SUBSET Keys}
              ELSE Abstract!BoundedSeq(IF kind = "string" THEN Chars ELSE Elems, Abstract!Capacity)
    BY <1>3, WrittenIs, SameWords
  <2> HIDE DEF c
  <2>5. saved' = <<c>>
    BY <2>3 DEF c
  <2>6. ret' = Abstract!Says("ok")
    BY <2>1, SameWords
  <2> QED BY <1>1, <1>2, <2>3, <2>4, <2>5, <2>6 DEF Abstract!Load
<1>4. CASE ~check_bytes(b)
  <2>1. arch' = arch /\ ret' = Says("Invalid")
    BY <1>4 DEF load
  <2>2. IInv' /\ saved' = saved /\ Content(val)' = Content(val)
    BY <1>1, <2>1, Primed DEF IInv
  <2>3. ret' = Abstract!Says("Invalid")
    BY <2>1, SameWords
  <2> QED BY <1>1, <1>2, <2>2, <2>3 DEF Abstract!Load
<1> QED BY <1>3, <1>4

\* The archive is what the abstract archive stands for.
LEMMA SavedIs ==
  ASSUME IInv, arch # <<>>
  PROVE  /\ [i \in DOMAIN arch |-> Content(arch[i])] # <<>>
         /\ [i \in DOMAIN arch |-> Content(arch[i])][1] = Content(arch[1])
         /\ Clean(arch[1])
<1>1. arch = <<arch[1]>> /\ Clean(arch[1])
  BY DEF IInv
<1>2. 1 \in DOMAIN arch
  BY <1>1
<1> HIDE DEF Content
<1> QED BY <1>1, <1>2

\* deserialize gives the value archived.
LEMMA DeserializeStep ==
  ASSUME IInv, deserialize
  PROVE  IInv' /\ Abstract!ReadBack
<1>1. arch # <<>> /\ Become(arch[1], Says("ok"))
  BY DEF deserialize
<1>2. Clean(arch[1])
  BY <1>1, SavedIs
<1>3. IInv' /\ Abstract!Become(Content(arch[1]), Says("ok"))
  BY <1>1, <1>2, Becomes
<1> QED BY <1>1, <1>3, SavedIs, SameWords DEF Abstract!ReadBack

\* cmp orders a value and an archive as their contents are ordered: a text's
\* bytes as its characters, a map's slots as its entries by key.
LEMMA CmpStep ==
  ASSUME IInv, cmp
  PROVE  IInv' /\ Abstract!Compare
<1> DEFINE a == arch[1]
           c == Abstract!Sequenced(Content(val))
           s == Abstract!Sequenced(Content(a))
           lt == slice_lt(as_slice(val), as_slice(a))
           gt == slice_lt(as_slice(a), as_slice(val))
           eq == as_slice(val) = as_slice(a)
           before == Abstract!Precedes(c, s)
           behind == Abstract!Precedes(s, c)
           same == c = s
           r == CASE lt -> "Less" [] gt -> "Greater" [] eq -> "Equal"
           q == CASE before -> "Less" [] behind -> "Greater" [] same -> "Equal"
<1>1. arch # <<>> /\ Answer(Says(r))
  BY DEF cmp
<1>2. kind \in Kinds /\ Clean(val) /\ Clean(a)
  BY <1>1, SavedIs DEF IInv
<1>3. (before <=> lt) /\ (behind <=> gt) /\ (same <=> eq)
  BY <1>2, PrecedesIs
<1>4. q = r
  <2>1. \A u, v : slice_lt(u, v) \in BOOLEAN /\ Abstract!Precedes(u, v) \in BOOLEAN
    BY DEF slice_lt, Abstract!Precedes
  <2>2. /\ lt \in BOOLEAN /\ gt \in BOOLEAN /\ eq \in BOOLEAN
        /\ before \in BOOLEAN /\ behind \in BOOLEAN /\ same \in BOOLEAN
    BY <2>1
  <2> HIDE DEF lt, gt, eq, before, behind, same
  <2>3. before = lt /\ behind = gt /\ same = eq
    BY <1>3, <2>2
  <2> QED BY <2>3, Zenon
<1>5. IInv' /\ Abstract!Answer(Says(r))
  <2> HIDE DEF r
  <2> QED BY <1>1, Answers
<1>6. Abstract!Compare <=> arch # <<>> /\ Abstract!Answer(Abstract!Says(q))
  <2>1. /\ [i \in DOMAIN arch |-> Content(arch[i])] # <<>>
        /\ [i \in DOMAIN arch |-> Content(arch[i])][1] = Content(a)
    BY <1>1, SavedIs
  <2> QED BY <1>1, <2>1 DEF Abstract!Compare
<1> HIDE DEF r, q
<1> QED BY <1>1, <1>4, <1>5, <1>6, SameWords


----------------------------------------------------------------------------
(* All calls.                                                              *)

\* A behaviour begins with no live slots and no archive.
LEMMA InitStep ==
  ASSUME Init
  PROVE  IInv /\ Abstract!Init
<1>1. kind \in Kinds /\ val = new /\ arch = <<>> /\ ret = Says("none")
  BY DEF Init
<1>2. Capacity \in Nat /\ Default \in Item
  BY <1>1, KindIs
<1>3. Shape(new) /\ new.len = 0 /\ \A i \in Slots : new.items[i] = Default
  BY <1>2 DEF new, Shape
<1>4. Clean(val) /\ Content(val) = <<>>
  BY <1>1, <1>3, EmptyValue
<1>5. [i \in DOMAIN arch |-> Content(arch[i])] = <<>>
  BY <1>1
<1>6. Abstract!Init
  BY <1>1, <1>4, <1>5, SameWords DEF Abstract!Init
<1> QED BY <1>1, <1>4, <1>6 DEF IInv

\* Every call keeps the invariant and is the abstract call of its kind.
LEMMA NextStep ==
  ASSUME IInv, Next
  PROVE  IInv' /\ Abstract!Next
<1>1. \A i \in 0..MaxAsk : i \in Nat
  BY FixedAssumption
<1>2. /\ \A S, n : Abstract!BoundedSeq(S, n) = BoundedSeq(S, n)
      /\ Abstract!Capacity = Capacity
  BY SameOperators, SameWords
<1>3. ASSUME NEW s \in BoundedSeq(Elems, Capacity + 1), try_from_slice(s)
      PROVE  IInv' /\ Abstract!Next
  <2>1. IInv' /\ Abstract!TryFromSlice(s)
    BY <1>3, FromSlice
  <2>2. s \in Abstract!BoundedSeq(Elems, Abstract!Capacity + 1)
    BY <1>2
  <2> QED BY <2>1, <2>2 DEF Abstract!Next
<1>4. ASSUME NEW x \in Elems, try_push(x) \/ replace(x)
      PROVE  IInv' /\ Abstract!Next
  BY <1>4, PushStep, ReplaceStep DEF Abstract!Next
<1>5. ASSUME pop \/ take \/ clear PROVE IInv' /\ Abstract!Next
  BY <1>5, PopStep, TakeStep, ClearStep DEF Abstract!Next
<1>6. ASSUME NEW i \in 0..MaxAsk, remove(i) \/ truncate(i)
      PROVE  IInv' /\ Abstract!Next
  BY <1>1, <1>6, RemoveFromStep, TruncateStep DEF Abstract!Next
<1>7. ASSUME NEW i \in 0..MaxAsk, NEW x \in Elems, try_insert(i, x) \/ get_mut(i, x)
      PROVE  IInv' /\ Abstract!Next
  BY <1>1, <1>7, TryInsertStep, GetMutStep DEF Abstract!Next
<1>8. ASSUME NEW s \in BoundedSeq(Chars, 2), try_push_str(s)
      PROVE  IInv' /\ Abstract!Next
  <2>1. IInv' /\ Abstract!TryPushStr(s)
    BY <1>8, PushStrStep
  <2>2. s \in Abstract!BoundedSeq(Chars, 2)
    BY <1>2
  <2> QED BY <2>1, <2>2 DEF Abstract!Next
<1>9. ASSUME NEW k \in Keys, NEW x \in Elems, map_try_insert(k, x) \/ map_get_mut(k, x)
      PROVE  IInv' /\ Abstract!Next
  BY <1>9, MapInsertStep, MapSetStep DEF Abstract!Next
<1>10. ASSUME NEW k \in Keys, get(k) \/ map_remove(k) \/ get_with(k)
       PROVE  IInv' /\ Abstract!Next
  BY <1>10, MapGetStep, MapRemoveStep, SearchStep DEF Abstract!Next
<1>11. ASSUME iter \/ resolve \/ deserialize \/ cmp PROVE IInv' /\ Abstract!Next
  BY <1>11, IterStep, ResolveStep, DeserializeStep, CmpStep DEF Abstract!Next
<1>12. ASSUME NEW b \in Written, load(b) PROVE IInv' /\ Abstract!Next
  BY <1>12, LoadStep DEF Abstract!Next
<1> QED BY <1>3, <1>4, <1>5, <1>6, <1>7, <1>8, <1>9, <1>10, <1>11, <1>12 DEF Next

\* A step that changes nothing changes nothing of the abstract state.
LEMMA StutterStep ==
  ASSUME IInv, UNCHANGED vars
  PROVE  IInv' /\ UNCHANGED Abstract!vars
<1>1. kind' = kind /\ val' = val /\ arch' = arch /\ ret' = ret
  BY DEF vars
<1>2. IInv'
  BY <1>1, Primed DEF IInv
<1>3. /\ Content(val)' = Content(val)
      /\ [i \in DOMAIN arch |-> Content(arch[i])]' = [i \in DOMAIN arch |-> Content(arch[i])]
  BY <1>1, Primed
<1> QED BY <1>1, <1>2, <1>3 DEF Abstract!vars

----------------------------------------------------------------------------
(* Loads of any bytes.                                                     *)

\* What is left of the invariant when the bytes loaded may be anyone's: all of
\* it for strings, which are checked throughout, the shape for the others.
Sound(v) == Shape(v) /\ (kind = "string" => Clean(v))

SInv ==
  /\ kind \in Kinds
  /\ Sound(val)
  /\ arch # <<>> => arch = <<arch[1]>> /\ Sound(arch[1])

\* It is the weaker of the two, and no weaker for strings.
LEMMA CleanIsSound == IInv => SInv
BY DEF IInv, SInv, Sound, Clean

LEMMA CleanStaysSound == IInv' => SInv'
BY DEF IInv, SInv, Sound, Clean

LEMMA SoundStrings == SInv /\ kind = "string" => IInv
BY DEF IInv, SInv, Sound

\* Shapes before and after a step that keeps the type.
LEMMA SoundKept ==
  ASSUME SInv, kind # "string", kind' = kind, Shape(val'),
         arch' # <<>> => arch' = <<arch'[1]>> /\ Shape(arch'[1])
  PROVE  SInv'
<1>1. Shape(val)' <=> Shape(val')
  BY DEF Shape, Slots, Capacity, Item
<1>2. Shape(arch[1])' <=> Shape(arch'[1])
  BY DEF Shape, Slots, Capacity, Item
<1> QED BY <1>1, <1>2 DEF SInv, Sound

\* A call that sets the value.
LEMMA ShapeSet ==
  ASSUME SInv, kind # "string", NEW w, NEW r, Become(w, r), Shape(w)
  PROVE  SInv'
<1>1. kind' = kind /\ val' = w /\ arch' = arch
  BY DEF Become
<1>2. arch # <<>> => arch = <<arch[1]>> /\ Shape(arch[1])
  BY DEF SInv, Sound
<1> QED BY <1>1, <1>2, SoundKept

\* A call that only answers.
LEMMA ShapeSame ==
  ASSUME SInv, kind # "string", NEW r, Answer(r)
  PROVE  SInv'
<1>1. Become(val, r) /\ Shape(val)
  BY DEF Answer, SInv, Sound
<1> QED BY <1>1, ShapeSet

\* Halving stays within the live slots whatever the order of the keys.
Within(v, at) ==
  \/ at.found = TRUE /\ at.pos \in 0..v.len - 1
  \/ at.found = FALSE /\ at.pos \in 0..v.len

LEMMA SearchWithin ==
  ASSUME Capacity \in Nat, kind = "map", NEW v, Shape(v), NEW k
  PROVE  Within(v, binary_search(v, k))
<1> DEFINE g == CHOOSE f : Probes(f, v, k)
           Left(span) == span[1] <= span[2] /\ span[2] <= v.len
           T == {n \in Nat : \A span \in Spans :
                   span[2] - span[1] <= n /\ Left(span) => Within(v, g[span])}
<1>1. binary_search(v, k) = g[<< 0, v.len >>]
  BY DEF binary_search, Probes, ProbeAt, Spans, Mid
<1>2. \A span \in Spans : g[span] = ProbeAt(g, v, k, span)
  <2>1. Probes(g, v, k)
    BY SearchDefined
  <2> HIDE DEF g
  <2> QED BY <2>1 DEF Probes
<1> HIDE DEF g
<1>3. \A span \in Spans : span[1] \in 0..Capacity /\ span[2] \in 0..Capacity
  BY DEF Spans
<1>4. v.len \in 0..Capacity
  BY MapShape
<1>5. ASSUME NEW span \in Spans, Left(span), span[1] >= span[2]
      PROVE  Within(v, g[span])
  <2>1. g[span] = [found |-> FALSE, pos |-> span[1]]
    BY <1>2, <1>5 DEF ProbeAt
  <2>2. g[span].found = FALSE /\ g[span].pos = span[1]
    BY <2>1
  <2>3. span[1] \in 0..v.len
    BY <1>3, <1>4, <1>5
  <2> QED BY <2>2, <2>3 DEF Within
<1>6. 0 \in T
  <2>1. ASSUME NEW span \in Spans, span[2] - span[1] <= 0, Left(span) PROVE Within(v, g[span])
    <3>1. span[1] >= span[2]
      BY <1>3, <2>1
    <3> QED BY <1>5, <2>1, <3>1
  <2> QED BY <2>1
<1>7. ASSUME NEW n \in T PROVE n + 1 \in T
  <2>1. ASSUME NEW span \in Spans, span[2] - span[1] <= n + 1, Left(span)
        PROVE  Within(v, g[span])
    <3>1. CASE span[1] >= span[2]
      BY <1>5, <2>1, <3>1
    <3>2. CASE span[1] < span[2]
      <4> DEFINE m == Mid(span)
                 a == <<m + 1, span[2]>>
                 b == <<span[1], m>>
      <4>1. /\ m \in span[1]..(span[2] - 1)
            /\ a \in Spans /\ a[1] = m + 1 /\ a[2] = span[2]
            /\ b \in Spans /\ b[1] = span[1] /\ b[2] = m
        BY <3>2, Halving
      <4>2. g[span] = IF KeyAt(v, m) = k THEN [found |-> TRUE, pos |-> m]
                      ELSE IF KeyAt(v, m) < k THEN g[a] ELSE g[b]
        <5>1. ~(span[1] >= span[2])
          BY <1>3, <3>2
        <5> QED BY <1>2, <5>1 DEF ProbeAt, KeyAt
      <4>3. \A s \in Spans : s[2] - s[1] <= n /\ Left(s) => Within(v, g[s])
        OBVIOUS
      <4> HIDE DEF m, a, b, T
      <4>4. m \in 0..v.len - 1 /\ m \in Nat /\ n \in Nat
        BY <1>3, <1>4, <2>1, <4>1 DEF T
      <4>5. Within(v, g[a])
        <5>1. a[2] - a[1] <= n /\ a[1] <= a[2] /\ a[2] <= v.len
          BY <1>3, <1>4, <2>1, <4>1, <4>4
        <5> QED BY <4>1, <4>3, <5>1
      <4>6. Within(v, g[b])
        <5>1. b[2] - b[1] <= n /\ b[1] <= b[2] /\ b[2] <= v.len
          BY <1>3, <1>4, <2>1, <4>1, <4>4
        <5> QED BY <4>1, <4>3, <5>1
      <4>7. CASE KeyAt(v, m) = k
        <5>1. g[span].found = TRUE /\ g[span].pos = m
          BY <4>2, <4>7
        <5> QED BY <4>4, <5>1 DEF Within
      <4>8. CASE KeyAt(v, m) # k
        <5>1. g[span] = g[a] \/ g[span] = g[b]
          BY <4>2, <4>8
        <5> QED BY <4>5, <4>6, <5>1
      <4> QED BY <4>7, <4>8
    <3> QED BY <1>3, <3>1, <3>2
  <2> QED BY <2>1
<1>8. T = Nat
  <2> HIDE DEF T
  <2>1. T \in SUBSET Nat
    BY DEF T
  <2> QED BY <1>6, <1>7, <2>1, NaturalsFrom
<1>9. Within(v, g[<< 0, v.len >>])
  <2> DEFINE w == << 0, v.len >>
  <2>1. v.len \in T
    <3>1. v.len \in Nat
      BY <1>4
    <3> HIDE DEF T
    <3> QED BY <1>8, <3>1
  <2>2. w \in Spans /\ w[1] = 0 /\ w[2] = v.len
    BY <1>4 DEF Spans
  <2> HIDE DEF w
  <2>3. w[2] - w[1] <= v.len /\ Left(w)
    BY <1>4, <2>2
  <2>4. Within(v, g[w])
    BY <2>1, <2>2, <2>3
  <2> QED BY <2>4 DEF w
<1> QED BY <1>1, <1>9

\* A vector's calls keep its shape.
LEMMA VecSound ==
  ASSUME SInv, kind = "vec", Next,
         ~resolve, ~deserialize, \A b \in Written : ~load(b)
  PROVE  SInv'
<1>1. /\ Capacity \in Nat /\ Item = Elems /\ Default \in Item
      /\ Shape(val) /\ val.len \in Nat /\ val.len <= Capacity
      /\ val.items \in [Slots -> Item]
  <2>1. /\ Capacity \in Nat /\ Default \in Item /\ Shape(val) /\ Item = Elems
    BY KindIs DEF SInv, Sound, Item
  <2> QED BY <2>1 DEF Shape
<1>2. ASSUME NEW at \in 0..val.len - 1, NEW r, Become(shifted_left(val, at), r)
      PROVE  SInv'
  BY <1>1, <1>2, ShiftLeft, ShapeSet
<1>3. ASSUME NEW s \in BoundedSeq(Elems, Capacity + 1), try_from_slice(s)
      PROVE  SInv'
  <2>1. s \in Seq(Elems) /\ Len(s) \in Nat /\ \A i \in 1..Len(s) : s[i] \in Elems
    <3>1. s \in Seq(Elems)
      BY <1>1, Bounded
    <3> QED BY <3>1, LenProperties, ElementOfSeq
  <2>2. CASE Len(s) > Capacity
    <3>1. Answer(Says("Capacity"))
      BY <1>3, <2>2 DEF try_from_slice
    <3> QED BY <3>1, ShapeSame
  <2>3. CASE ~(Len(s) > Capacity)
    <3> DEFINE f == [i \in Slots |-> IF i < Len(s) THEN s[i + 1] ELSE Default]
               w == [len |-> Len(s), items |-> f]
    <3>1. Become(w, Says("ok"))
      BY <1>3, <2>3 DEF try_from_slice
    <3>2. f \in [Slots -> Item]
      <4>1. \A i \in Slots : i < Len(s) => i + 1 \in 1..Len(s)
        BY <1>1, <2>1 DEF Slots
      <4> QED BY <1>1, <2>1, <4>1
    <3> HIDE DEF f
    <3>3. Shape(w)
      BY <1>1, <2>1, <2>3, <3>2 DEF Shape
    <3> HIDE DEF w
    <3> QED BY <3>1, <3>3, ShapeSet
  <2> QED BY <2>2, <2>3
<1>4. ASSUME NEW x \in Elems, try_push(x) PROVE SInv'
  <2>1. CASE val.len >= Capacity
    <3>1. Answer(Says("Capacity"))
      BY <1>4, <2>1 DEF try_push
    <3> QED BY <3>1, ShapeSame
  <2>2. CASE ~(val.len >= Capacity)
    <3> DEFINE w == [len |-> val.len + 1, items |-> [val.items EXCEPT ![val.len] = x]]
    <3>1. Become(w, Says("ok"))
      BY <1>4, <2>2 DEF try_push
    <3>2. Shape(w)
      <4>1. val.len + 1 \in 0..Capacity /\ val.len \in Slots
        BY <1>1, <2>2 DEF Slots
      <4>2. [val.items EXCEPT ![val.len] = x] \in [Slots -> Item]
        BY <1>1, <4>1
      <4> QED BY <4>1, <4>2 DEF Shape
    <3> HIDE DEF w
    <3> QED BY <3>1, <3>2, ShapeSet
  <2> QED BY <2>1, <2>2
<1>5. ASSUME pop PROVE SInv'
  <2>1. CASE val.len = 0
    <3>1. Answer(Says("None"))
      BY <1>5, <2>1 DEF pop
    <3> QED BY <3>1, ShapeSame
  <2>2. CASE val.len # 0
    <3>1. /\ Become(shifted_left(val, val.len - 1), Gives(<<val.items[val.len - 1]>>))
          /\ val.len - 1 \in 0..val.len - 1
      BY <1>1, <1>5, <2>2 DEF pop
    <3> QED BY <1>2, <3>1
  <2> QED BY <2>1, <2>2
<1>6. ASSUME NEW i \in Nat, remove(i) PROVE SInv'
  <2>1. CASE i >= val.len
    <3>1. Answer(Says("None"))
      BY <1>6, <2>1 DEF remove
    <3> QED BY <3>1, ShapeSame
  <2>2. CASE ~(i >= val.len)
    <3>1. Become(shifted_left(val, i), Gives(<<val.items[i]>>)) /\ i \in 0..val.len - 1
      BY <1>1, <1>6, <2>2 DEF remove
    <3> QED BY <1>2, <3>1
  <2> QED BY <2>1, <2>2
<1>7. ASSUME NEW i \in Nat, NEW x \in Elems, try_insert(i, x) PROVE SInv'
  <2> DEFINE at == IF i < val.len THEN i ELSE val.len
  <2>1. CASE val.len >= Capacity
    <3>1. Answer(Says("Capacity"))
      BY <1>7, <2>1 DEF try_insert
    <3> QED BY <3>1, ShapeSame
  <2>2. CASE ~(val.len >= Capacity)
    <3>1. Become(shifted_right(val, at, x), Says("ok")) /\ at \in 0..val.len
      BY <1>1, <1>7, <2>2 DEF try_insert
    <3> HIDE DEF at
    <3>2. Shape(shifted_right(val, at, x))
      BY <1>1, <2>2, <3>1, ShiftRight
    <3> QED BY <3>1, <3>2, ShapeSet
  <2> QED BY <2>1, <2>2
<1>8. ASSUME NEW i \in Nat, NEW x \in Elems, get_mut(i, x) PROVE SInv'
  <2>1. CASE i >= val.len
    <3>1. Answer(Says("None"))
      BY <1>8, <2>1 DEF get_mut
    <3> QED BY <3>1, ShapeSame
  <2>2. CASE ~(i >= val.len)
    <3>1. Become(WithSlot(val, i, x), Says("ok")) /\ i \in 0..val.len - 1
      BY <1>1, <1>8, <2>2 DEF get_mut, WithSlot
    <3>2. Shape(WithSlot(val, i, x))
      BY <1>1, <3>1, SetSlot
    <3> QED BY <3>1, <3>2, ShapeSet
  <2> QED BY <2>1, <2>2
<1>9. ASSUME NEW n \in Nat, truncate(n) PROVE SInv'
  <2>1. CASE n >= val.len
    <3>1. Become(val, Says("ok"))
      BY <1>9, <2>1 DEF truncate
    <3> QED BY <1>1, <3>1, ShapeSet
  <2>2. CASE ~(n >= val.len)
    <3>1. Become(shortened(val, n), Says("ok")) /\ n \in 0..val.len
      BY <1>1, <1>9, <2>2 DEF truncate
    <3>2. Shape(shortened(val, n))
      BY <1>1, <3>1, Shorten
    <3> QED BY <3>1, <3>2, ShapeSet
  <2> QED BY <2>1, <2>2
<1>10. ASSUME clear PROVE SInv'
  <2>1. Become(shortened(val, 0), Says("ok")) /\ 0 \in 0..val.len
    BY <1>1, <1>10 DEF clear
  <2>2. Shape(shortened(val, 0))
    BY <1>1, <2>1, Shorten
  <2> QED BY <2>1, <2>2, ShapeSet
<1>11. ASSUME iter \/ cmp PROVE SInv'
  BY <1>11, ShapeSame DEF iter, cmp
<1>12. \A i \in 0..MaxAsk : i \in Nat
  BY FixedAssumption
<1>13. /\ \A x : ~replace(x) /\ ~take /\ \A s : ~try_push_str(s)
       /\ \A k, x : ~map_try_insert(k, x) /\ ~map_get_mut(k, x)
       /\ \A k : ~get(k) /\ ~map_remove(k) /\ ~get_with(k)
  BY DEF replace, take, try_push_str, map_try_insert, map_get_mut, get, map_remove, get_with
<1> QED BY <1>3, <1>4, <1>5, <1>6, <1>7, <1>8, <1>9, <1>10, <1>11, <1>12, <1>13 DEF Next

\* So do a map's, whatever the order of its keys.
LEMMA MapSound ==
  ASSUME SInv, kind = "map", Next,
         ~resolve, ~deserialize, \A b \in Written : ~load(b)
  PROVE  SInv'
<1>1. /\ Capacity \in Nat /\ Item = Keys \X Elems /\ Default \in Item
      /\ Shape(val) /\ val.len \in Nat /\ val.len <= Capacity
  <2>1. /\ Capacity \in Nat /\ Default \in Item /\ Shape(val) /\ Item = Keys \X Elems
    BY KindIs DEF SInv, Sound, Item
  <2> QED BY <2>1 DEF Shape
<1>2. ASSUME NEW k \in Keys
      PROVE  /\ binary_search(val, k).found \in BOOLEAN
             /\ binary_search(val, k).found => binary_search(val, k).pos \in 0..val.len - 1
             /\ ~binary_search(val, k).found => binary_search(val, k).pos \in 0..val.len
  BY <1>1, SearchWithin DEF Within
<1>3. ASSUME NEW k \in Keys, NEW x \in Elems, map_try_insert(k, x) PROVE SInv'
  <2> DEFINE at == binary_search(val, k)
             e == <<k, x>>
             old == map_get(val, k)
  <2>1. e \in Item
    BY <1>1
  <2>2. /\ at.found \in BOOLEAN
        /\ at.found => at.pos \in 0..val.len - 1
        /\ ~at.found => at.pos \in 0..val.len
    BY <1>2
  <2>3. /\ at.found => Become(WithSlot(val, at.pos, e), old)
        /\ ~at.found /\ val.len >= Capacity => Answer(Says("Capacity"))
        /\ ~at.found /\ val.len < Capacity =>
             Become(shifted_right(val, at.pos, e), Says("None"))
    <3> DEFINE fits == val.len < Capacity
               full == val.len >= Capacity
               set == Become([val EXCEPT !.items[at.pos] = e], old)
               put == Become(shifted_right(val, at.pos, e), Says("None"))
               no == Answer(Says("Capacity"))
    <3>1. (CASE at.found -> set [] ~at.found /\ full -> no [] ~at.found /\ fits -> put)
      BY <1>3 DEF map_try_insert
    <3>2. full \/ fits
      BY <1>1
    <3>3. ~(full /\ fits)
      BY <1>1
    <3>4. set => Become(WithSlot(val, at.pos, e), old)
      BY DEF WithSlot
    <3> HIDE DEF at, fits, full, set, put, no
    <3>5. /\ at.found => set
          /\ ~at.found /\ full => no
          /\ ~at.found /\ fits => put
      BY <2>2, <3>1, <3>2, <3>3
    <3> QED BY <3>4, <3>5 DEF fits, full, put, no
  <2> HIDE DEF at, e, old
  <2>4. CASE at.found
    <3>1. Shape(WithSlot(val, at.pos, e))
      BY <1>1, <2>1, <2>2, <2>4, SetSlot
    <3> QED BY <2>3, <2>4, <3>1, ShapeSet
  <2>5. CASE ~at.found /\ val.len >= Capacity
    BY <2>3, <2>5, ShapeSame
  <2>6. CASE ~at.found /\ val.len < Capacity
    <3>1. Shape(shifted_right(val, at.pos, e))
      BY <1>1, <2>1, <2>2, <2>6, ShiftRight
    <3> QED BY <2>3, <2>6, <3>1, ShapeSet
  <2> QED BY <1>1, <2>2, <2>4, <2>5, <2>6
<1>4. ASSUME NEW k \in Keys, NEW x \in Elems, map_get_mut(k, x) PROVE SInv'
  <2> DEFINE at == binary_search(val, k)
             e == <<k, x>>
  <2>1. e \in Item /\ (at.found => at.pos \in 0..val.len - 1)
    BY <1>1, <1>2
  <2>2. IF at.found THEN Become(WithSlot(val, at.pos, e), Says("ok"))
        ELSE Answer(Says("None"))
    BY <1>4 DEF map_get_mut, WithSlot
  <2> HIDE DEF at, e
  <2>3. CASE at.found
    <3>1. Shape(WithSlot(val, at.pos, e))
      BY <1>1, <2>1, <2>3, SetSlot
    <3> QED BY <2>2, <2>3, <3>1, ShapeSet
  <2>4. CASE ~at.found
    BY <2>2, <2>4, ShapeSame
  <2> QED BY <2>3, <2>4
<1>5. ASSUME NEW k \in Keys, map_remove(k) PROVE SInv'
  <2> DEFINE at == binary_search(val, k)
             old == map_get(val, k)
  <2>1. at.found => at.pos \in 0..val.len - 1
    BY <1>2
  <2>2. IF at.found THEN Become(shifted_left(val, at.pos), old) ELSE Answer(Says("None"))
    BY <1>5 DEF map_remove
  <2> HIDE DEF at, old
  <2>3. CASE at.found
    <3>1. Shape(shifted_left(val, at.pos))
      BY <1>1, <2>1, <2>3, ShiftLeft
    <3> QED BY <2>2, <2>3, <3>1, ShapeSet
  <2>4. CASE ~at.found
    BY <2>2, <2>4, ShapeSame
  <2> QED BY <2>3, <2>4
<1>6. ASSUME clear PROVE SInv'
  <2>1. Become(shortened(val, 0), Says("ok")) /\ 0 \in 0..val.len
    BY <1>1, <1>6 DEF clear
  <2>2. Shape(shortened(val, 0))
    BY <1>1, <2>1, Shorten
  <2> QED BY <2>1, <2>2, ShapeSet
<1>7. ASSUME NEW k \in Keys, get(k) \/ get_with(k) PROVE SInv'
  BY <1>7, ShapeSame DEF get, get_with
<1>8. ASSUME iter \/ cmp PROVE SInv'
  BY <1>8, ShapeSame DEF iter, cmp
<1>9. /\ \A x : ~replace(x) /\ ~try_push(x) /\ \A s : ~try_push_str(s) /\ ~try_from_slice(s)
      /\ ~take /\ ~pop /\ \A i : ~remove(i) /\ ~truncate(i)
      /\ \A i, x : ~try_insert(i, x) /\ ~get_mut(i, x)
  BY DEF replace, try_push, try_push_str, try_from_slice, take, pop, remove, truncate,
         try_insert, get_mut
<1> QED BY <1>3, <1>4, <1>5, <1>6, <1>7, <1>8, <1>9 DEF Next

\* So do an option's.
LEMMA OptionSound ==
  ASSUME SInv, kind = "option", Next,
         ~resolve, ~deserialize, \A b \in Written : ~load(b)
  PROVE  SInv'
<1>1. /\ Capacity = 1 /\ Slots = {0} /\ Item = Elems /\ Default \in Item
      /\ val.items \in [Slots -> Item]
  <2>1. /\ Capacity = 1 /\ Default \in Item /\ Shape(val) /\ Item = Elems
    BY KindIs DEF SInv, Sound, Item
  <2>2. Slots = {0}
    BY <2>1 DEF Slots
  <2> QED BY <2>1, <2>2 DEF Shape
<1>2. ASSUME NEW x \in Elems, replace(x) PROVE SInv'
  <2> DEFINE w == [len |-> 1, items |-> [val.items EXCEPT ![0] = x]]
  <2>1. Become(w, as_option(val))
    BY <1>2 DEF replace
  <2>2. Shape(w)
    BY <1>1 DEF Shape
  <2> HIDE DEF w
  <2> QED BY <2>1, <2>2, ShapeSet
<1>3. ASSUME take PROVE SInv'
  <2> DEFINE w == [len |-> 0, items |-> [val.items EXCEPT ![0] = Default]]
  <2>1. Become(w, as_option(val))
    BY <1>3 DEF take
  <2>2. Shape(w)
    BY <1>1 DEF Shape
  <2> HIDE DEF w
  <2> QED BY <2>1, <2>2, ShapeSet
<1>4. ASSUME cmp PROVE SInv'
  BY <1>4, ShapeSame DEF cmp
<1>5. /\ \A x : ~try_push(x) /\ \A s : ~try_push_str(s) /\ ~try_from_slice(s)
      /\ ~pop /\ ~clear /\ ~iter /\ \A i : ~remove(i) /\ ~truncate(i)
      /\ \A i, x : ~try_insert(i, x) /\ ~get_mut(i, x)
      /\ \A k, x : ~map_try_insert(k, x) /\ ~map_get_mut(k, x)
      /\ \A k : ~get(k) /\ ~map_remove(k) /\ ~get_with(k)
  BY DEF try_push, try_push_str, try_from_slice, pop, clear, iter, remove, truncate,
         try_insert, get_mut, map_try_insert, map_get_mut, get, map_remove, get_with
<1> QED BY <1>2, <1>3, <1>4, <1>5 DEF Next

\* A load leaves no archive or one of the right shape, which can be read back.
LEMMA ArchiveSound ==
  ASSUME SInv, kind # "string",
         resolve \/ deserialize \/ \E b \in Foreign : load(b)
  PROVE  SInv'
<1>1. Capacity \in Nat /\ Shape(val) /\ (arch # <<>> => arch = <<arch[1]>> /\ Shape(arch[1]))
  BY KindIs DEF SInv, Sound
<1>2. ASSUME NEW b, Shape(b), kind' = kind, val' = val, arch' = <<b>> PROVE SInv'
  <2>1. arch' = <<arch'[1]>> /\ arch'[1] = b
    BY <1>2
  <2> QED BY <1>1, <1>2, <2>1, SoundKept
<1>3. CASE resolve
  BY <1>1, <1>2, <1>3 DEF resolve
<1>4. CASE deserialize
  <2>1. arch # <<>> /\ Become(arch[1], Says("ok"))
    BY <1>4 DEF deserialize
  <2> QED BY <1>1, <2>1, ShapeSet
<1>5. ASSUME NEW b \in Foreign, load(b) PROVE SInv'
  <2>1. CASE check_bytes(b)
    <3>1. arch' = <<b>> /\ kind' = kind /\ val' = val
      BY <1>5, <2>1 DEF load
    <3>2. b.len \in Nat /\ b.len <= Capacity /\ b \in [len: 0..Capacity + 1, items: [Slots -> Item]]
      BY <1>1, <2>1 DEF check_bytes, Foreign
    <3>3. Shape(b)
      BY <1>1, <3>2 DEF Shape
    <3> QED BY <1>2, <3>1, <3>3
  <2>2. CASE ~check_bytes(b)
    <3>1. arch' = arch /\ kind' = kind /\ val' = val
      BY <1>5, <2>2 DEF load
    <3> QED BY <1>1, <3>1, SoundKept
  <2> QED BY <2>1, <2>2
<1> QED BY <1>3, <1>4, <1>5

\* Every call keeps the shape, and every load of whatever bytes.
LEMMA AnyBytesStep ==
  ASSUME SInv, AnyBytesNext
  PROVE  SInv'
<1>1. Written \subseteq Foreign
  BY DEF Written
<1>2. CASE kind = "string"
  <2>1. Foreign = Written
    BY <1>2 DEF Written
  <2>2. IInv /\ Next
    <3>1. ASSUME NEW b \in Foreign, load(b) PROVE Next
      BY <2>1, <3>1 DEF Next
    <3> QED BY <1>2, <3>1, SoundStrings DEF AnyBytesNext
  <2> QED BY <2>2, NextStep, CleanStaysSound
<1>3. CASE kind # "string" /\ (resolve \/ deserialize \/ \E b \in Foreign : load(b))
  BY <1>3, ArchiveSound
<1>4. CASE kind # "string" /\ ~(resolve \/ deserialize \/ \E b \in Foreign : load(b))
  <2>1. Next /\ ~resolve /\ ~deserialize /\ \A b \in Written : ~load(b)
    BY <1>1, <1>4 DEF AnyBytesNext
  <2>2. kind \in {"vec", "map", "option"}
    BY <1>4, KindIs DEF SInv
  <2> QED BY <2>1, <2>2, VecSound, MapSound, OptionSound
<1> QED BY <1>2, <1>3, <1>4

\* Where nothing changes neither does this.
LEMMA SoundStutters ==
  ASSUME SInv, UNCHANGED vars
  PROVE  SInv'
<1>1. kind' = kind /\ val' = val /\ arch' = arch
  BY DEF vars
<1>2. CASE kind = "string"
  <2>1. IInv'
    BY <1>2, SoundStrings, StutterStep
  <2> QED BY <2>1, CleanIsSound, CleanStaysSound
<1>3. CASE kind # "string"
  BY <1>1, <1>3, SoundKept DEF SInv, Sound
<1> QED BY <1>2, <1>3

----------------------------------------------------------------------------
(* Theorems.                                                               *)

\* Whatever is called, in whatever order, as long as the vectors, maps and
\* options loaded are archives these types wrote: value and archive stay within
\* the capacity, with elements of the type, defaults behind the live slots, a
\* map's keys in order and a string's bytes a text's.  The calls alone keep it
\* so; for strings, so does check_bytes.
THEOREM CleanSlots == Spec => []IInv
<1>1. Init => IInv
  BY InitStep
<1>2. IInv /\ [Next]_vars => IInv'
  BY NextStep, StutterStep
<1> QED BY <1>1, <1>2, PTL DEF Spec

\* What as_slice and as_str rely on without looking always holds, whatever
\* bytes are loaded: check_bytes and the calls see to it.
THEOREM TypeCorrect == AnyBytesSpec => []TypeOK
<1>1. Init => SInv
  BY InitStep, CleanIsSound
<1>2. SInv /\ [AnyBytesNext]_vars => SInv'
  BY AnyBytesStep, SoundStutters
<1>3. SInv => TypeOK
  <2> SUFFICES ASSUME SInv PROVE TypeOK
    OBVIOUS
  <2>1. \A v \in {val} \cup Range(arch) : Sound(v)
    <3>1. ASSUME NEW v \in Range(arch) PROVE Sound(v)
      <4>1. PICK i \in DOMAIN arch : v = arch[i]
        BY DEF Range
      <4>2. arch # <<>>
        BY <4>1
      <4>3. arch = <<arch[1]>> /\ Sound(arch[1])
        BY <4>2 DEF SInv
      <4>4. i = 1
        BY <4>1, <4>3
      <4> QED BY <4>1, <4>3, <4>4
    <3> QED BY <3>1 DEF SInv
  <2>2. ASSUME NEW v, Sound(v)
        PROVE  /\ v.len \in 0..Capacity
               /\ v.items \in [Slots -> Item]
               /\ kind = "string" => from_utf8(as_slice(v))
    BY <2>2 DEF Sound, Clean, Shape
  <2> QED BY <2>1, <2>2 DEF TypeOK
<1> QED BY <1>1, <1>2, <1>3, PTL DEF AnyBytesSpec

\* Whatever calls two values came about by, and from whichever archives these
\* types wrote: if their live slots agree then so do all their bytes.
THEOREM CanonicalTail == Spec => []EqualValuesArchiveAlike
<1>1. IInv => EqualValuesArchiveAlike
  <2> SUFFICES ASSUME IInv, NEW a \in Range(arch), as_slice(a) = as_slice(val)
               PROVE  a = val
    BY DEF EqualValuesArchiveAlike
  <2>1. Clean(a)
    <3>1. PICK i \in DOMAIN arch : a = arch[i]
      BY DEF Range
    <3>2. arch # <<>>
      BY <3>1
    <3>3. arch = <<arch[1]>> /\ Clean(arch[1])
      BY <3>2 DEF IInv
    <3>4. i = 1
      BY <3>1, <3>3
    <3> QED BY <3>1, <3>3, <3>4
  <2>2. Capacity \in Nat /\ Clean(val)
    BY KindIs DEF IInv
  <2>3. ASSUME NEW v, Clean(v)
        PROVE  /\ v = [len |-> v.len, items |-> v.items]
               /\ v.len \in Nat /\ v.len <= Capacity
               /\ Len(as_slice(v)) = v.len
               /\ \A i \in 1..v.len : as_slice(v)[i] = v.items[i - 1]
               /\ v.items = [i \in Slots |-> v.items[i]]
               /\ \A i \in Slots : i >= v.len => v.items[i] = Default
    <3>1. Shape(v) /\ v.items = [i \in Slots |-> v.items[i]]
      BY <2>3 DEF Clean, Shape
    <3>2. \A i \in Slots : i >= v.len => v.items[i] = Default
      BY <2>3 DEF Clean
    <3> QED BY <2>2, <3>1, <3>2, SliceIs
  <2>4. /\ a = [len |-> a.len, items |-> a.items]
        /\ a.len \in Nat /\ Len(as_slice(a)) = a.len
        /\ \A i \in 1..a.len : as_slice(a)[i] = a.items[i - 1]
        /\ a.items = [i \in Slots |-> a.items[i]]
        /\ \A i \in Slots : i >= a.len => a.items[i] = Default
    BY <2>1, <2>3
  <2>5. /\ val = [len |-> val.len, items |-> val.items]
        /\ val.len \in Nat /\ Len(as_slice(val)) = val.len
        /\ \A i \in 1..val.len : as_slice(val)[i] = val.items[i - 1]
        /\ val.items = [i \in Slots |-> val.items[i]]
        /\ \A i \in Slots : i >= val.len => val.items[i] = Default
    BY <2>2, <2>3
  <2>6. a.len = val.len
    BY <2>4, <2>5
  <2>7. ASSUME NEW i \in Slots PROVE a.items[i] = val.items[i]
    <3>1. i \in Nat
      BY <2>2 DEF Slots
    <3>2. CASE i < val.len
      <4>1. val.len \in Nat
        BY <2>5
      <4>2. i + 1 \in 1..val.len /\ (i + 1) - 1 = i
        BY <3>1, <3>2, <4>1
      <4>3. a.items[i] = as_slice(a)[i + 1]
        BY <2>4, <2>6, <4>2
      <4>4. val.items[i] = as_slice(val)[i + 1]
        BY <2>5, <4>2
      <4> QED BY <4>3, <4>4
    <3>3. CASE i >= val.len
      <4>1. a.items[i] = Default
        BY <2>4, <2>6, <3>3
      <4>2. val.items[i] = Default
        BY <2>5, <3>3
      <4> QED BY <4>1, <4>2
    <3>4. val.len \in Nat
      BY <2>5
    <3> QED BY <3>1, <3>2, <3>3, <3>4
  <2>8. a.items = [i \in Slots |-> a.items[i]] /\ val.items = [i \in Slots |-> val.items[i]]
    BY <2>4, <2>5
  <2>9. a.items = val.items
    BY <2>7, <2>8, Zenon
  <2>10. a = [len |-> a.len, items |-> a.items] /\ val = [len |-> val.len, items |-> val.items]
    BY <2>4, <2>5
  <2> QED BY <2>6, <2>9, <2>10, Zenon
<1> QED BY <1>1, CleanSlots, PTL

\* For any capacities, elements, keys and characters, and any encoding whose
\* bytes order as the characters: the slots are the bounded sequence, text,
\* map or optional value, call by call, as long as the vectors, maps and
\* options loaded are archives these types wrote.
THEOREM ImplementsValue == Spec => ImplementsBoundedValue
<1>1. Init => Abstract!Init
  BY InitStep
<1>2. IInv /\ [Next]_vars => [Abstract!Next]_(Abstract!vars)
  BY NextStep, StutterStep
<1> QED BY <1>1, <1>2, CleanSlots, PTL DEF Spec, ImplementsBoundedValue, Abstract!Spec
=============================================================================
