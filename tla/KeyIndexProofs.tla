
------------------------- MODULE KeyIndexProofs -------------------------
(***************************************************************************)
(* Every kind of key keeps the laws of OrderedKeyEncoding, at every width  *)
(* and capacity and with any number of bytes: an encoding fits, compares   *)
(* as its key does, decodes to it, and nothing else decodes to it.  A kind *)
(* that is made of others keeps them if those do.                          *)
(***************************************************************************)
EXTENDS KeyIndex, EncodedIndexProofs

\* A set of naturals that has 0 and, with each number, the next is Nat.
LEMMA NaturalsFrom ==
  ASSUME NEW T \in SUBSET Nat, 0 \in T, \A n \in T : n + 1 \in T
  PROVE  T = Nat
<1> DEFINE U == Nat \ T
<1>1. CASE U = {}
  BY <1>1
<1>2. CASE U # {}
  <2>1. PICK x \in U : \A y \in U : <<y, x>> \notin OpToRel(<, Nat)
    BY <1>2, WFMin, NatLessThanWellFounded
  <2>2. x - 1 \in T /\ x # 0
    <3>1. x \in Nat /\ x # 0
      OBVIOUS
    <3>2. x - 1 \in Nat /\ <<x - 1, x>> \in OpToRel(<, Nat)
      BY <3>1 DEF OpToRel
    <3> QED BY <2>1, <3>1, <3>2
  <2> QED BY <2>2
<1> QED BY <1>1, <1>2

\* What FlattenSeq's recursion asks of its values.
FlatAt(g, seqs, i) == IF i = 1 THEN seqs[i] ELSE g[i - 1] \o seqs[i]
Flattens(g, seqs) == g = [i \in 1..Len(seqs) |-> FlatAt(g, seqs, i)]

\* The recursion has a solution, however long the sequence.
LEMMA FlattenDefined ==
  ASSUME NEW S, NEW seqs \in Seq(S)
  PROVE  Flattens(CHOOSE g : Flattens(g, seqs), seqs)
<1> DEFINE L == 1..Len(seqs)
           T == {n \in Nat : \E g : \A i \in L : i <= n => g[i] = FlatAt(g, seqs, i)}
<1>1. 0 \in T
  BY LenProperties
<1>2. ASSUME NEW n \in T PROVE n + 1 \in T
  <2>1. PICK g : \A i \in L : i <= n => g[i] = FlatAt(g, seqs, i)
    OBVIOUS
  <2> DEFINE h == [i \in L |-> FlatAt(g, seqs, i)]
  <2>2. \A i \in L : i <= n => h[i] = g[i]
    BY <2>1
  <2>3. ASSUME NEW i \in L, i <= n + 1 PROVE h[i] = FlatAt(h, seqs, i)
    <3>1. h[i] = FlatAt(g, seqs, i)
      OBVIOUS
    <3>2. CASE i = 1
      BY <3>1, <3>2 DEF FlatAt
    <3>3. CASE i # 1
      <4>1. i - 1 \in L /\ i - 1 <= n
        BY <2>3, <3>3, LenProperties
      <4>2. h[i - 1] = g[i - 1]
        BY <2>2, <4>1
      <4> HIDE DEF h
      <4> QED BY <3>1, <3>3, <4>2 DEF FlatAt
    <3> QED BY <3>2, <3>3
  <2>4. \E f : \A i \in L : i <= n + 1 => f[i] = FlatAt(f, seqs, i)
    <3> HIDE DEF h
    <3> QED BY <2>3
  <2> HIDE DEF L
  <2> QED BY <2>4
<1>3. T = Nat
  <2> HIDE DEF T
  <2>1. T \in SUBSET Nat
    BY DEF T
  <2> QED BY <1>1, <1>2, <2>1, NaturalsFrom
<1>4. Len(seqs) \in T
  BY <1>3, LenProperties
<1>5. PICK g : \A i \in L : g[i] = FlatAt(g, seqs, i)
  <2>1. PICK g : \A i \in L : i <= Len(seqs) => g[i] = FlatAt(g, seqs, i)
    BY <1>4
  <2> QED BY <2>1, LenProperties
<1>6. \E f : Flattens(f, seqs)
  <2> DEFINE h == [i \in L |-> g[i]]
  <2>1. ASSUME NEW i \in L PROVE h[i] = FlatAt(h, seqs, i)
    <3>1. i # 1 => i - 1 \in L
      BY LenProperties
    <3>2. i # 1 => h[i - 1] = g[i - 1]
      BY <3>1
    <3> QED BY <1>5, <3>2 DEF FlatAt
  <2>2. h = [i \in L |-> h[i]]
    OBVIOUS
  <2> HIDE DEF h
  <2>3. h = [i \in L |-> FlatAt(h, seqs, i)]
    BY <2>1, <2>2
  <2> QED BY <2>3 DEF Flattens
<1> QED BY <1>6

\* One more sequence comes after the others.
LEMMA FlattenStep ==
  ASSUME NEW S, NEW seqs \in Seq(Seq(S))
  PROVE  /\ seqs = <<>> => FlattenSeq(seqs) = <<>>
         /\ FlattenSeq(seqs) \in Seq(S)
         /\ \A last \in Seq(S) :
              FlattenSeq(Append(seqs, last)) = FlattenSeq(seqs) \o last
<1> DEFINE F(s) == CHOOSE g : Flattens(g, s)
<1>1. \A s \in Seq(Seq(S)) : Len(s) # 0 => FlattenSeq(s) = F(s)[Len(s)]
  BY DEF FlattenSeq, Flattens, FlatAt
<1>2. \A s \in Seq(Seq(S)) : \A i \in 1..Len(s) : F(s)[i] = FlatAt(F(s), s, i)
  <2>1. ASSUME NEW s \in Seq(Seq(S)) PROVE \A i \in 1..Len(s) : F(s)[i] = FlatAt(F(s), s, i)
    <3> DEFINE g == F(s)
    <3>1. Flattens(g, s)
      BY FlattenDefined
    <3> HIDE DEF g
    <3>2. \A i \in 1..Len(s) : g[i] = FlatAt(g, s, i)
      BY <3>1 DEF Flattens
    <3> QED BY <3>2 DEF g
  <2> QED BY <2>1
<1>3. seqs = <<>> => FlattenSeq(seqs) = <<>>
  BY DEF FlattenSeq
<1>4. \A s \in Seq(Seq(S)) : \A i \in 1..Len(s) : F(s)[i] \in Seq(S)
  <2> SUFFICES ASSUME NEW s \in Seq(Seq(S)) PROVE \A i \in 1..Len(s) : F(s)[i] \in Seq(S)
    OBVIOUS
  <2> DEFINE g == F(s)
             T == {n \in Nat : n + 1 \in 1..Len(s) => g[n + 1] \in Seq(S)}
  <2>1. \A i \in 1..Len(s) : g[i] = FlatAt(g, s, i) /\ s[i] \in Seq(S)
    BY <1>2
  <2> HIDE DEF g
  <2>2. 0 \in T
    <3>1. 1 \in 1..Len(s) => g[1] \in Seq(S)
      BY <2>1 DEF FlatAt
    <3> QED BY <3>1
  <2>3. ASSUME NEW n \in T PROVE n + 1 \in T
    <3>1. ASSUME n + 2 \in 1..Len(s) PROVE g[n + 2] \in Seq(S)
      <4>1. n + 1 \in 1..Len(s) /\ n + 2 # 1 /\ (n + 2) - 1 = n + 1
        BY <3>1, LenProperties
      <4>2. g[n + 1] \in Seq(S)
        BY <4>1
      <4>3. g[n + 2] = g[n + 1] \o s[n + 2] /\ s[n + 2] \in Seq(S)
        <5>1. g[n + 2] = FlatAt(g, s, n + 2) /\ s[n + 2] \in Seq(S)
          BY <2>1, <3>1
        <5>2. FlatAt(g, s, n + 2) = g[(n + 2) - 1] \o s[n + 2]
          BY <4>1 DEF FlatAt
        <5>3. g[(n + 2) - 1] = g[n + 1]
          BY <4>1
        <5> QED BY <5>1, <5>2, <5>3
      <4> QED BY <4>2, <4>3, ConcatProperties
    <3> QED BY <3>1
  <2>4. T = Nat
    <3> HIDE DEF T
    <3>1. T \in SUBSET Nat
      BY DEF T
    <3> QED BY <2>2, <2>3, <3>1, NaturalsFrom
  <2>5. ASSUME NEW i \in 1..Len(s) PROVE g[i] \in Seq(S)
    <3>1. i - 1 \in Nat /\ i - 1 + 1 = i
      BY LenProperties
    <3>2. \A n \in Nat : n \in T
      BY <2>4
    <3> QED BY <3>1, <3>2
  <2> QED BY <2>5 DEF g
<1>5. FlattenSeq(seqs) \in Seq(S)
  <2>1. CASE Len(seqs) = 0
    <3>1. seqs = <<>>
      BY <2>1, EmptySeq
    <3> QED BY <1>3, <3>1, EmptySeq
  <2>2. CASE Len(seqs) # 0
    <3>1. Len(seqs) \in 1..Len(seqs)
      BY <2>2, LenProperties
    <3> HIDE DEF F
    <3> QED BY <1>1, <1>4, <2>2, <3>1
  <2> QED BY <2>1, <2>2
<1>6. ASSUME NEW last \in Seq(S)
      PROVE  FlattenSeq(Append(seqs, last)) = FlattenSeq(seqs) \o last
  <2> DEFINE t == Append(seqs, last)
             f == F(seqs)
             g == F(t)
  <2>1. /\ t \in Seq(Seq(S)) /\ Len(t) = Len(seqs) + 1 /\ Len(seqs) \in Nat
        /\ \A i \in 1..Len(seqs) : t[i] = seqs[i]
        /\ t[Len(seqs) + 1] = last
    BY AppendProperties, LenProperties
  <2>2. /\ \A i \in 1..Len(seqs) : f[i] = FlatAt(f, seqs, i)
        /\ \A i \in 1..Len(t) : g[i] = FlatAt(g, t, i)
    BY <1>2, <2>1
  <2>3. /\ FlattenSeq(t) = g[Len(t)]
        /\ Len(seqs) # 0 => FlattenSeq(seqs) = f[Len(seqs)]
    <3> HIDE DEF F
    <3>1. t \in Seq(Seq(S)) /\ Len(t) # 0
      BY <2>1
    <3> HIDE DEF t
    <3> QED BY <1>1, <3>1
  <2> HIDE DEF F, t, f, g
  <2> DEFINE T == {n \in Nat : n + 1 \in 1..Len(seqs) => g[n + 1] = f[n + 1]}
  <2>4. 0 \in T
    BY <2>1, <2>2 DEF FlatAt
  <2>5. ASSUME NEW n \in T PROVE n + 1 \in T
    <3>1. ASSUME n + 2 \in 1..Len(seqs) PROVE g[n + 2] = f[n + 2]
      <4>1. n + 1 \in 1..Len(seqs) /\ n + 2 # 1 /\ (n + 2) - 1 = n + 1 /\ n + 2 \in 1..Len(t)
        BY <2>1, <3>1
      <4>2. g[n + 1] = f[n + 1] /\ t[n + 2] = seqs[n + 2]
        BY <2>1, <3>1, <4>1
      <4> QED BY <2>2, <3>1, <4>1, <4>2 DEF FlatAt
    <3> QED BY <3>1
  <2>6. T = Nat
    <3> HIDE DEF T
    <3>1. T \in SUBSET Nat
      BY DEF T
    <3> QED BY <2>4, <2>5, <3>1, NaturalsFrom
  <2>7. CASE Len(seqs) = 0
    <3>1. FlattenSeq(seqs) = <<>>
      BY <1>3, <2>7, EmptySeq
    <3>2. g[1] = last
      BY <2>1, <2>2, <2>7 DEF FlatAt
    <3>3. <<>> \o last = last
      BY ConcatEmptySeq
    <3> QED BY <2>1, <2>3, <2>7, <3>1, <3>2, <3>3 DEF t
  <2>8. CASE Len(seqs) # 0
    <3>1. Len(seqs) - 1 \in Nat /\ Len(seqs) - 1 + 1 = Len(seqs) /\ Len(seqs) \in 1..Len(seqs)
      BY <2>1, <2>8
    <3>2. g[Len(seqs)] = f[Len(seqs)]
      <4>1. \A n \in Nat : n \in T
        BY <2>6
      <4> QED BY <3>1, <4>1
    <3>3. g[Len(seqs) + 1] = g[Len(seqs)] \o last
      <4>1. Len(seqs) + 1 \in 1..Len(t) /\ Len(seqs) + 1 # 1 /\ (Len(seqs) + 1) - 1 = Len(seqs)
        BY <2>1, <2>8
      <4>2. g[Len(seqs) + 1] = FlatAt(g, t, Len(seqs) + 1)
        BY <2>2, <4>1
      <4> QED BY <2>1, <4>1, <4>2 DEF FlatAt
    <3> QED BY <2>1, <2>3, <2>8, <3>2, <3>3 DEF t
  <2> QED BY <2>7, <2>8
<1> QED BY <1>3, <1>5, <1>6

\* Bytes are numbers, and so is the largest.
LEMMA ByteIs ==
  /\ Base \in Nat /\ Base > 2 /\ FF \in Nat /\ FF > 1
  /\ Byte \subseteq Nat /\ TextByte \subseteq Byte /\ 0 \in TextByte /\ 1 \in TextByte
  /\ FF \in Byte /\ FF \notin TextByte
BY KeyAssumption DEF FF, Byte, TextByte

\* Byte strings are in a strict order in which any two are comparable.
LEMMA BytesCompared ==
  ASSUME NEW s \in Seq(Byte), NEW t \in Seq(Byte)
  PROVE  /\ ~memcmp(s, s)
         /\ memcmp(s, t) => ~memcmp(t, s)
         /\ s = t \/ memcmp(s, t) \/ memcmp(t, s)
<1>1. s \in Seq(Nat) /\ t \in Seq(Nat)
  BY AreNumbers, ByteIs
<1> QED BY <1>1, MemcmpIs


\* A function on the naturals may be defined by its first value and by what
\* each step makes of the one before.
Recurs(X) ==
  \A a \in X : \A step \in [Nat -> [X -> X]] :
    \E f \in [Nat -> X] : f[0] = a /\ \A n \in Nat : f[n + 1] = step[n + 1][f[n]]

\* Every such function exists.
LEMMA Recursion == \A X : Recurs(X)
<1> SUFFICES ASSUME NEW X, NEW a \in X, NEW step \in [Nat -> [X -> X]]
             PROVE  \E f \in [Nat -> X] : /\ f[0] = a
                                          /\ \A n \in Nat : f[n + 1] = step[n + 1][f[n]]
  BY DEF Recurs
<1> DEFINE Upto(g, n) == /\ g \in [Nat -> X] /\ g[0] = a
                         /\ \A i \in Nat : i < n => g[i + 1] = step[i + 1][g[i]]
           T == {n \in Nat : \E g : Upto(g, n)}
<1>1. 0 \in T
  <2> DEFINE g == [n \in Nat |-> a]
  <2>1. Upto(g, 0)
    OBVIOUS
  <2> HIDE DEF Upto, g
  <2> QED BY <2>1
<1>2. ASSUME NEW n \in T PROVE n + 1 \in T
  <2>1. PICK g : Upto(g, n)
    OBVIOUS
  <2> DEFINE h == [i \in Nat |-> IF i = n + 1 THEN step[n + 1][g[n]] ELSE g[i]]
  <2>2. h \in [Nat -> X]
    BY <2>1
  <2>3. h[0] = a /\ h[n + 1] = step[n + 1][g[n]] /\ \A i \in Nat : i <= n => h[i] = g[i]
    BY <2>1
  <2>4. \A i \in Nat : i < n + 1 => h[i + 1] = step[i + 1][h[i]]
    <3> HIDE DEF h
    <3>1. ASSUME NEW i \in Nat, i < n PROVE h[i + 1] = step[i + 1][h[i]]
      BY <2>1, <2>3, <3>1
    <3>2. h[n + 1] = step[n + 1][h[n]]
      BY <2>3
    <3> QED BY <3>1, <3>2
  <2>5. Upto(h, n + 1)
    <3> HIDE DEF h
    <3> QED BY <2>2, <2>3, <2>4
  <2> HIDE DEF Upto, h
  <2> QED BY <2>5
<1>3. T = Nat
  <2> HIDE DEF T
  <2>1. T \in SUBSET Nat
    BY DEF T
  <2> QED BY <1>1, <1>2, <2>1, NaturalsFrom
<1> DEFINE G(n) == CHOOSE g : Upto(g, n)
           f == [n \in Nat |-> G(n)[n]]
<1>4. \A n \in Nat : Upto(G(n), n)
  <2> HIDE DEF Upto
  <2>1. \A n \in Nat : n \in T
    BY <1>3
  <2> QED BY <2>1
\* Two that reach n agree at n.
<1>5. \A n \in Nat : \A g, h : Upto(g, n) /\ Upto(h, n) => g[n] = h[n]
  <2> DEFINE A == {n \in Nat : \A g, h : Upto(g, n) /\ Upto(h, n) => g[n] = h[n]}
  <2>1. 0 \in A
    OBVIOUS
  <2>2. ASSUME NEW n \in A PROVE n + 1 \in A
    <3> SUFFICES ASSUME NEW g, NEW h, Upto(g, n + 1), Upto(h, n + 1)
                 PROVE  g[n + 1] = h[n + 1]
      OBVIOUS
    <3>1. Upto(g, n) /\ Upto(h, n)
      OBVIOUS
    <3>2. g[n] = h[n]
      <4> HIDE DEF Upto
      <4> QED BY <3>1
    <3>3. g[n + 1] = step[n + 1][g[n]] /\ h[n + 1] = step[n + 1][h[n]]
      OBVIOUS
    <3> QED BY <3>2, <3>3
  <2>3. A = Nat
    <3> HIDE DEF A
    <3>1. A \in SUBSET Nat
      BY DEF A
    <3> QED BY <2>1, <2>2, <3>1, NaturalsFrom
  <2>4. \A n \in Nat : n \in A
    BY <2>3
  <2> HIDE DEF Upto
  <2> QED BY <2>4
<1>6. f \in [Nat -> X] /\ f[0] = a
  <2> HIDE DEF G
  <2>1. \A n \in Nat : G(n) \in [Nat -> X] /\ G(n)[0] = a
    BY <1>4
  <2> QED BY <2>1
<1>7. ASSUME NEW n \in Nat PROVE f[n + 1] = step[n + 1][f[n]]
  <2> HIDE DEF G
  <2>1. Upto(G(n + 1), n + 1)
    <3>1. n + 1 \in Nat
      OBVIOUS
    <3> HIDE DEF Upto
    <3> QED BY <1>4, <3>1
  <2>2. Upto(G(n + 1), n) /\ G(n + 1)[n + 1] = step[n + 1][G(n + 1)[n]]
    BY <2>1
  <2> HIDE DEF Upto
  <2>3. G(n + 1)[n] = G(n)[n]
    BY <1>4, <1>5, <2>2
  <2> QED BY <2>2, <2>3
<1> HIDE DEF f
<1> QED BY <1>6, <1>7

\* All but the last of a sequence, and the last.
LEMMA LastApart ==
  ASSUME NEW S, NEW s \in Seq(S), NEW n \in Nat, Len(s) = n + 1
  PROVE  \E r \in Seq(S) : \E c \in S : s = Append(r, c) /\ Len(r) = n
<1> DEFINE r == [i \in 1..n |-> s[i]]
<1>1. s[n + 1] \in S /\ \A i \in 1..n : s[i] \in S
  BY ElementOfSeq
<1>2. r \in Seq(S) /\ Len(r) = n
  BY <1>1
<1> HIDE DEF r
<1>3. /\ Append(r, s[n + 1]) \in Seq(S) /\ Len(Append(r, s[n + 1])) = n + 1
      /\ \A i \in 1..n : Append(r, s[n + 1])[i] = r[i]
      /\ Append(r, s[n + 1])[n + 1] = s[n + 1]
  BY <1>1, <1>2, AppendProperties
<1>4. \A i \in 1..n : r[i] = s[i]
  BY DEF r
<1>5. \A i \in 1..(n + 1) : Append(r, s[n + 1])[i] = s[i]
  BY <1>3, <1>4
<1>6. Append(r, s[n + 1]) = s
  BY <1>3, <1>5, SeqEqual
<1> QED BY <1>1, <1>2, <1>6

\* Putting one part of the sequences after the other.
LEMMA FlattenConcat ==
  ASSUME NEW S, NEW s \in Seq(Seq(S)), NEW t \in Seq(Seq(S))
  PROVE  FlattenSeq(s \o t) = FlattenSeq(s) \o FlattenSeq(t)
<1>0. \A x, y, z \in Seq(Seq(S)) : (x \o y) \o z = x \o (y \o z)
  BY SMTT(60)
<1>00. \A x, y, z \in Seq(S) : (x \o y) \o z = x \o (y \o z)
  BY SMTT(60)
<1> DEFINE P(n) == \A u \in Seq(Seq(S)) :
                     Len(u) = n => FlattenSeq(s \o u) = FlattenSeq(s) \o FlattenSeq(u)
           T == {n \in Nat : P(n)}
<1>1. 0 \in T
  <2>1. ASSUME NEW u \in Seq(Seq(S)), Len(u) = 0
        PROVE  FlattenSeq(s \o u) = FlattenSeq(s) \o FlattenSeq(u)
    <3>1. u = <<>>
      BY <2>1, EmptySeq
    <3>2. FlattenSeq(u) = <<>> /\ FlattenSeq(s) \in Seq(S)
      BY <3>1, FlattenStep
    <3>3. s \o u = s /\ FlattenSeq(s) \o <<>> = FlattenSeq(s)
      BY <3>1, <3>2, ConcatEmptySeq
    <3> QED BY <3>2, <3>3
  <2> QED BY <2>1
<1>2. ASSUME NEW n \in T PROVE n + 1 \in T
  <2>1. ASSUME NEW u \in Seq(Seq(S)), Len(u) = n + 1
        PROVE  FlattenSeq(s \o u) = FlattenSeq(s) \o FlattenSeq(u)
    <3>1. PICK r \in Seq(Seq(S)) : \E c \in Seq(S) : u = Append(r, c) /\ Len(r) = n
      <4> HIDE DEF T
      <4>1. n \in Nat
        BY DEF T
      <4> QED BY <2>1, <4>1, LastApart
    <3>2. PICK c \in Seq(S) : u = Append(r, c) /\ Len(r) = n
      BY <3>1
    <3>3. FlattenSeq(s \o r) = FlattenSeq(s) \o FlattenSeq(r)
      BY <3>2
    <3> HIDE DEF P, T
    <3>4. s \o u = Append(s \o r, c) /\ s \o r \in Seq(Seq(S))
      <4>1. u = r \o <<c>> /\ <<c>> \in Seq(Seq(S)) /\ s \o r \in Seq(Seq(S))
        BY <3>2, AppendIsConcat, ConcatProperties
      <4>2. s \o (r \o <<c>>) = (s \o r) \o <<c>>
        BY <1>0, <4>1
      <4> QED BY <4>1, <4>2, AppendIsConcat
    <3>5. FlattenSeq(s \o u) = (FlattenSeq(s) \o FlattenSeq(r)) \o c
      <4>1. FlattenSeq(Append(s \o r, c)) = FlattenSeq(s \o r) \o c
        BY <3>4, FlattenStep, Zenon
      <4> QED BY <3>3, <3>4, <4>1, Zenon
    <3>6. FlattenSeq(u) = FlattenSeq(r) \o c
      BY <3>2, FlattenStep
    <3>7. FlattenSeq(s) \in Seq(S) /\ FlattenSeq(r) \in Seq(S)
      BY FlattenStep
    <3>8. (FlattenSeq(s) \o FlattenSeq(r)) \o c = FlattenSeq(s) \o (FlattenSeq(r) \o c)
      BY <1>00, <3>7
    <3> QED BY <3>5, <3>6, <3>8
  <2> QED BY <2>1
<1>3. T = Nat
  <2> HIDE DEF T
  <2>1. T \in SUBSET Nat
    BY DEF T
  <2> QED BY <1>1, <1>2, <2>1, NaturalsFrom
<1>4. Len(t) \in T
  <2> HIDE DEF T
  <2> QED BY <1>3, LenProperties
<1> QED BY <1>4

\* A sequence is its start, one of its elements and its rest.
LEMMA Parted ==
  ASSUME NEW S, NEW s \in Seq(S), NEW i \in 1..Len(s)
  PROVE  /\ SubSeq(s, 1, i - 1) \in Seq(S) /\ Len(SubSeq(s, 1, i - 1)) = i - 1
         /\ \A j \in 1..i - 1 : SubSeq(s, 1, i - 1)[j] = s[j]
         /\ SubSeq(s, i + 1, Len(s)) \in Seq(S) /\ Len(SubSeq(s, i + 1, Len(s))) = Len(s) - i
         /\ \A j \in 1..Len(s) - i : SubSeq(s, i + 1, Len(s))[j] = s[i + j]
         /\ s[i] \in S /\ SubSeq(s, 1, i) = Append(SubSeq(s, 1, i - 1), s[i])
         /\ s = (SubSeq(s, 1, i - 1) \o <<s[i]>>) \o SubSeq(s, i + 1, Len(s))
<1>0. \A x, y \in Seq(S) :
        /\ x \o y \in Seq(S) /\ Len(x \o y) = Len(x) + Len(y)
        /\ \A j \in 1..Len(x \o y) : (x \o y)[j] = IF j <= Len(x) THEN x[j] ELSE y[j - Len(x)]
  BY ConcatProperties
<1>1. Len(s) \in Nat /\ i \in Nat /\ i >= 1 /\ i <= Len(s) /\ \A j \in 1..Len(s) : s[j] \in S
  BY LenProperties, ElementOfSeq
<1> DEFINE a == SubSeq(s, 1, i - 1)
           b == SubSeq(s, i + 1, Len(s))
<1>2. a \in Seq(S) /\ Len(a) = i - 1 /\ \A j \in 1..i - 1 : a[j] = s[j]
  <2>1. \A j \in 1..(i - 1) : s[j] \in S
    BY <1>1
  <2> QED BY <1>1, <2>1, SubSeqProperties
<1>3. b \in Seq(S) /\ Len(b) = Len(s) - i /\ \A j \in 1..Len(s) - i : b[j] = s[i + j]
  <2>1. \A j \in (i + 1)..Len(s) : s[j] \in S
    BY <1>1
  <2>2. /\ b \in Seq(S)
        /\ Len(b) = IF i + 1 <= Len(s) THEN Len(s) - (i + 1) + 1 ELSE 0
        /\ \A j \in 1..(Len(s) - (i + 1) + 1) : b[j] = s[(i + 1) + j - 1]
    BY <1>1, <2>1, SubSeqProperties
  <2> HIDE DEF b
  <2> QED BY <1>1, <2>2
<1> HIDE DEF a, b
<1>4. /\ <<s[i]>> \in Seq(S) /\ Len(<<s[i]>>) = 1 /\ <<s[i]>>[1] = s[i]
  BY <1>1
<1>5. /\ a \o <<s[i]>> \in Seq(S) /\ Len(a \o <<s[i]>>) = i
      /\ \A j \in 1..i : (a \o <<s[i]>>)[j] = s[j]
  <2>0. PICK o \in Seq(S) : o = <<s[i]>> /\ Len(o) = 1 /\ o[1] = s[i]
    BY <1>4
  <2> DEFINE d == a \o <<s[i]>>
  <2>1. /\ d \in Seq(S) /\ Len(d) = Len(a) + 1
        /\ \A j \in 1..Len(d) : d[j] = IF j <= Len(a) THEN a[j] ELSE <<s[i]>>[j - Len(a)]
    <3>1. /\ a \o o \in Seq(S) /\ Len(a \o o) = Len(a) + Len(o)
          /\ \A j \in 1..Len(a \o o) : (a \o o)[j] = IF j <= Len(a) THEN a[j] ELSE o[j - Len(a)]
      BY <1>0, <1>2, <2>0
    <3> QED BY <2>0, <3>1
  <2> HIDE DEF d
  <2>2. Len(d) = i
    BY <1>1, <1>2, <2>1
  <2>3. ASSUME NEW j \in 1..i PROVE d[j] = s[j]
    <3>1. CASE j <= i - 1
      <4>1. j <= Len(a) /\ j \in 1..Len(d) /\ j \in 1..i - 1
        BY <1>1, <1>2, <2>2, <3>1
      <4> QED BY <1>2, <2>1, <4>1
    <3>2. CASE j = i
      <4>1. j - Len(a) = 1 /\ ~(j <= Len(a)) /\ j \in 1..Len(d)
        BY <1>1, <1>2, <2>2, <3>2
      <4> QED BY <1>4, <2>1, <3>2, <4>1
    <3> QED BY <1>1, <3>1, <3>2
  <2> QED BY <2>1, <2>2, <2>3 DEF d
<1>6. (a \o <<s[i]>>) \o b = s
  <2> DEFINE d == a \o <<s[i]>>
             e == d \o b
  <2>2. d \in Seq(S) /\ Len(d) = i /\ \A j \in 1..i : d[j] = s[j]
    BY <1>5
  <2> HIDE DEF d
  <2>1. /\ e \in Seq(S) /\ Len(e) = Len(d) + Len(b)
        /\ \A j \in 1..Len(e) : e[j] = IF j <= Len(d) THEN d[j] ELSE b[j - Len(d)]
    BY <1>0, <1>3, <2>2
  <2> HIDE DEF e
  <2>3. Len(e) = Len(s)
    BY <1>1, <1>3, <2>1, <2>2
  <2>4. ASSUME NEW j \in 1..Len(s) PROVE e[j] = s[j]
    <3>1. CASE j <= i
      BY <1>1, <2>1, <2>2, <2>3, <3>1
    <3>2. CASE ~(j <= i)
      <4>1. j - i \in 1..Len(s) - i /\ i + (j - i) = j
        BY <1>1, <3>2
      <4>2. e[j] = b[j - i]
        BY <2>1, <2>2, <2>3, <3>2
      <4> QED BY <1>3, <4>1, <4>2
    <3> QED BY <3>1, <3>2
  <2>5. e = s
    BY <2>1, <2>3, <2>4, SeqEqual
  <2> QED BY <2>5 DEF d, e
<1>7. SubSeq(s, 1, i) = Append(a, s[i])
  <2> DEFINE c == SubSeq(s, 1, i)
  <2>1. \A j \in 1..i : s[j] \in S
    BY <1>1
  <2>2. c \in Seq(S) /\ Len(c) = i /\ \A j \in 1..i : c[j] = s[j]
    BY <1>1, <2>1, SubSeqProperties
  <2> HIDE DEF c
  <2>3. c = a \o <<s[i]>>
    BY <1>5, <2>2, SeqEqual
  <2>4. Append(a, s[i]) = a \o <<s[i]>>
    BY <1>1, <1>2, AppendIsConcat
  <2> QED BY <2>3, <2>4 DEF c
<1> QED BY <1>1, <1>2, <1>3, <1>6, <1>7 DEF a, b

\* What is put together of several sequences: what comes before one of them,
\* that one, and what comes after.
LEMMA FlattenAround ==
  ASSUME NEW S, NEW s \in Seq(Seq(S)), NEW i \in 1..Len(s)
  PROVE  /\ FlattenSeq(SubSeq(s, 1, i - 1)) \in Seq(S)
         /\ FlattenSeq(SubSeq(s, i + 1, Len(s))) \in Seq(S)
         /\ FlattenSeq(SubSeq(s, 1, i)) = FlattenSeq(SubSeq(s, 1, i - 1)) \o s[i]
         /\ FlattenSeq(s) = FlattenSeq(SubSeq(s, 1, i - 1))
                              \o (s[i] \o FlattenSeq(SubSeq(s, i + 1, Len(s))))
<1>0. \A x, y, z \in Seq(S) : (x \o y) \o z = x \o (y \o z)
  BY SMTT(30)
<1> DEFINE a == SubSeq(s, 1, i - 1)
           b == SubSeq(s, i + 1, Len(s))
           c == s[i]
<1>1. /\ a \in Seq(Seq(S)) /\ b \in Seq(Seq(S)) /\ c \in Seq(S)
      /\ SubSeq(s, 1, i) = Append(a, c) /\ s = (a \o <<c>>) \o b
  BY Parted
<1> HIDE DEF a, b, c
<1>2. FlattenSeq(a) \in Seq(S) /\ FlattenSeq(b) \in Seq(S)
  BY <1>1, FlattenStep
<1>3. a \o <<c>> = Append(a, c) /\ a \o <<c>> \in Seq(Seq(S))
  BY <1>1, AppendIsConcat, AppendProperties
<1>4. FlattenSeq(a \o <<c>>) = FlattenSeq(a) \o c
  BY <1>1, <1>3, FlattenStep
<1>5. FlattenSeq(s) = (FlattenSeq(a) \o c) \o FlattenSeq(b)
  BY <1>1, <1>3, <1>4, FlattenConcat
<1>6. (FlattenSeq(a) \o c) \o FlattenSeq(b) = FlattenSeq(a) \o (c \o FlattenSeq(b))
  <2> DEFINE x == FlattenSeq(a)
             z == FlattenSeq(b)
  <2> HIDE DEF x, z
  <2>1. x \in Seq(S) /\ z \in Seq(S)
    BY <1>2 DEF x, z
  <2>2. (x \o c) \o z = x \o (c \o z)
    BY <1>0, <1>1, <2>1
  <2> QED BY <2>2 DEF x, z
<1> QED BY <1>1, <1>2, <1>3, <1>4, <1>5, <1>6 DEF a, b, c

----------------------------------------------------------------------------
(* Integers.                                                               *)

\* An integer is its last digit and the ones before.
LEMMA Divided ==
  ASSUME NEW n \in Nat
  PROVE  n \div Base \in Nat /\ n % Base \in Byte /\ n = (n \div Base) * Base + (n % Base)
BY ByteIs DEF Byte, FF

\* A product grows with its factors.
LEMMA Product ==
  ASSUME NEW m \in Nat
  PROVE  /\ \A a, b \in Nat : a <= b => a * m <= b * m
         /\ \A a, b \in Nat : m > 0 /\ a * m < b * m => a < b
         /\ \A a, b \in Nat : a * m \in Nat
<1>1. \A a, b \in Nat : a <= b => a * m <= b * m
  BY SMTT(30)
<1> QED BY <1>1, SMTT(30)

\* A number put together of a digit and the ones before gives both back.
LEMMA Apart ==
  ASSUME NEW n \in Nat, NEW d \in Byte
  PROVE  (n * Base + d) \div Base = n /\ (n * Base + d) % Base = d /\ n * Base + d \in Nat
BY ByteIs DEF Byte, FF

\* How many integers have so many bytes.
LEMMA FullIs ==
  /\ Full[0] = 1
  /\ \A w \in Nat : Full[w + 1] = Base * Full[w] /\ Full[w] \in Nat /\ Full[w] > 0
<1> DEFINE Solves(f) == f = [w \in Nat |-> IF w = 0 THEN 1 ELSE Base * f[w - 1]]
           step == [n \in Nat |-> [x \in Nat |-> Base * x]]
<1>1. step \in [Nat -> [Nat -> Nat]]
  <2>1. \A x \in Nat : Base * x \in Nat
    BY ByteIs, Product
  <2> QED BY <2>1
<1>2. PICK f \in [Nat -> Nat] : f[0] = 1 /\ \A n \in Nat : f[n + 1] = step[n + 1][f[n]]
  <2> HIDE DEF step
  <2>1. 1 \in Nat /\ Recurs(Nat)
    BY Recursion
  <2> QED BY <1>1, <2>1 DEF Recurs
<1>3. \A n \in Nat : f[n + 1] = Base * f[n]
  <2>1. \A n \in Nat : n + 1 \in Nat /\ f[n] \in Nat
    BY <1>2
  <2> QED BY <1>2, <2>1
<1>4. \A w \in Nat : f[w] = IF w = 0 THEN 1 ELSE Base * f[w - 1]
  <2>1. ASSUME NEW w \in Nat, w # 0 PROVE f[w] = Base * f[w - 1]
    <3>1. w - 1 \in Nat /\ (w - 1) + 1 = w
      BY <2>1
    <3>2. f[(w - 1) + 1] = Base * f[w - 1]
      BY <1>3, <3>1
    <3> QED BY <3>1, <3>2
  <2> QED BY <1>2, <2>1
<1>5. f = [w \in Nat |-> f[w]]
  BY <1>2
<1>6. Solves(f)
  BY <1>4, <1>5
<1>7. Full = CHOOSE g : Solves(g)
  BY DEF Full
<1> HIDE DEF step
<1>8. Solves(Full)
  <2> HIDE DEF Solves
  <2> QED BY <1>6, <1>7
<1>9. /\ Full[0] = 1
      /\ \A w \in Nat : Full[w + 1] = Base * Full[w]
  <2>1. \A w \in Nat : Full[w] = IF w = 0 THEN 1 ELSE Base * Full[w - 1]
    BY <1>8
  <2>2. ASSUME NEW w \in Nat PROVE Full[w + 1] = Base * Full[w]
    <3>1. w + 1 \in Nat /\ w + 1 # 0 /\ (w + 1) - 1 = w
      OBVIOUS
    <3>2. Full[w + 1] = Base * Full[(w + 1) - 1]
      BY <2>1, <3>1
    <3> QED BY <3>1, <3>2
  <2>3. Full[0] = 1
    BY <2>1
  <2> QED BY <2>2, <2>3
<1> DEFINE T == {n \in Nat : Full[n] \in Nat /\ Full[n] > 0}
<1>10. 0 \in T
  BY <1>9
<1>11. ASSUME NEW n \in T PROVE n + 1 \in T
  <2>1. Full[n + 1] = Base * Full[n] /\ Full[n] \in Nat /\ Full[n] > 0 /\ n \in Nat
    BY <1>9
  <2>2. Base * Full[n] \in Nat /\ Base * Full[n] > 0
    <3> DEFINE p == Full[n]
    <3> HIDE DEF p
    <3>1. p \in Nat /\ p > 0 => Base * p \in Nat /\ Base * p > 0
      BY ByteIs
    <3> QED BY <2>1, <3>1 DEF p
  <2> QED BY <2>1, <2>2
<1>12. T = Nat
  <2> HIDE DEF T
  <2>1. T \in SUBSET Nat
    BY DEF T
  <2> QED BY <1>10, <1>11, <2>1, NaturalsFrom
<1>13. \A w \in Nat : w \in T
  BY <1>12
<1> QED BY <1>9, <1>13

\* The digits of a number: shifted once for each byte behind the one read.
Shifts(f, n) == f = [k \in Nat |-> IF k = 0 THEN n ELSE f[k - 1] \div Base]
\* to_be_bytes is made of those digits, as many as the width.
LEMMA ToBytes ==
  ASSUME NEW n \in Nat, NEW w \in Nat
  PROVE  \E f \in [Nat -> Nat] :
           /\ f[0] = n /\ \A k \in Nat : f[k + 1] = f[k] \div Base
           /\ to_be_bytes(n, w) = [i \in 1..w |-> f[w - i] % Base]
           /\ to_be_bytes(n, w) \in Seq(Byte) /\ Len(to_be_bytes(n, w)) = w
<1> DEFINE step == [k \in Nat |-> [x \in Nat |-> x \div Base]]
           g == CHOOSE f : Shifts(f, n)
<1>1. step \in [Nat -> [Nat -> Nat]]
  <2>1. \A x \in Nat : x \div Base \in Nat
    BY Divided
  <2> QED BY <2>1
<1>2. PICK f \in [Nat -> Nat] : f[0] = n /\ \A k \in Nat : f[k + 1] = step[k + 1][f[k]]
  <2> HIDE DEF step
  <2>1. Recurs(Nat)
    BY Recursion
  <2> QED BY <1>1, <2>1 DEF Recurs
<1>3. \A k \in Nat : f[k + 1] = f[k] \div Base
  <2>1. \A k \in Nat : k + 1 \in Nat /\ f[k] \in Nat
    BY <1>2
  <2> QED BY <1>2, <2>1
<1>4. \A k \in Nat : f[k] = IF k = 0 THEN n ELSE f[k - 1] \div Base
  <2>1. ASSUME NEW k \in Nat, k # 0 PROVE f[k] = f[k - 1] \div Base
    <3>1. k - 1 \in Nat /\ (k - 1) + 1 = k
      BY <2>1
    <3>2. f[(k - 1) + 1] = f[k - 1] \div Base
      BY <1>3, <3>1
    <3> QED BY <3>1, <3>2
  <2> QED BY <1>2, <2>1
<1>5. Shifts(f, n)
  <2>1. f = [k \in Nat |-> f[k]]
    BY <1>2
  <2> QED BY <1>4, <2>1 DEF Shifts
<1>6. Shifts(g, n)
  BY <1>5
<1>7. to_be_bytes(n, w) = [i \in 1..w |-> g[w - i] % Base]
  BY DEF to_be_bytes, Shifts
<1> HIDE DEF g, step
<1>8. \A k \in Nat : g[k] = IF k = 0 THEN n ELSE g[k - 1] \div Base
  BY <1>6 DEF Shifts
<1>9. g[0] = n
  BY <1>8
<1>10. ASSUME NEW k \in Nat PROVE g[k + 1] = g[k] \div Base
  <2>1. k + 1 \in Nat /\ k + 1 # 0 /\ (k + 1) - 1 = k
    OBVIOUS
  <2>2. g[k + 1] = g[(k + 1) - 1] \div Base
    BY <1>8, <2>1
  <2> QED BY <2>1, <2>2
<1>11. g \in [Nat -> Nat]
  <2> DEFINE T == {k \in Nat : g[k] \in Nat}
  <2>1. 0 \in T
    BY <1>9
  <2>2. \A k \in T : k + 1 \in T
    BY <1>10, Divided
  <2>3. T = Nat
    <3> HIDE DEF T
    <3>1. T \in SUBSET Nat
      BY DEF T
    <3> QED BY <2>1, <2>2, <3>1, NaturalsFrom
  <2>4. \A k \in Nat : g[k] \in Nat
    <3>1. \A k \in Nat : k \in T
      BY <2>3
    <3> QED BY <3>1
  <2>5. g = [k \in Nat |-> g[k]]
    BY <1>6 DEF Shifts
  <2> QED BY <2>4, <2>5
<1>12. \A i \in 1..w : g[w - i] % Base \in Byte
  <2>1. \A i \in 1..w : w - i \in Nat
    OBVIOUS
  <2> QED BY <1>11, <2>1, Divided
<1>13. to_be_bytes(n, w) \in Seq(Byte) /\ Len(to_be_bytes(n, w)) = w
  BY <1>7, <1>12
<1> QED BY <1>7, <1>9, <1>10, <1>11, <1>13

\* The number that bytes stand for, from the front.
Sums(f, b) == f = [k \in 0..Len(b) |-> IF k = 0 THEN 0 ELSE f[k - 1] * Base + b[k]]
\* from_be_bytes adds them up.
LEMMA FromBytes ==
  ASSUME NEW b \in Seq(Byte)
  PROVE  \E f : /\ \A k \in 0..Len(b) : f[k] \in Nat
                /\ f[0] = 0 /\ \A k \in 1..Len(b) : f[k] = f[k - 1] * Base + b[k]
                /\ from_be_bytes(b) = f[Len(b)]
<1> DEFINE step == [k \in Nat |-> [x \in Nat |-> IF k \in 1..Len(b) THEN x * Base + b[k] ELSE 0]]
           g == CHOOSE f : Sums(f, b)
<1>0. Len(b) \in Nat /\ \A k \in 1..Len(b) : b[k] \in Byte
  BY LenProperties, ElementOfSeq
<1>1. step \in [Nat -> [Nat -> Nat]]
  <2>1. \A x \in Nat : \A d \in Byte : x * Base + d \in Nat
    BY Apart
  <2> QED BY <1>0, <2>1
<1>2. PICK f \in [Nat -> Nat] : f[0] = 0 /\ \A k \in Nat : f[k + 1] = step[k + 1][f[k]]
  <2> HIDE DEF step
  <2>1. 0 \in Nat /\ Recurs(Nat)
    BY Recursion
  <2> QED BY <1>1, <2>1 DEF Recurs
<1>3. \A k \in 1..Len(b) : f[k] = f[k - 1] * Base + b[k]
  <2>1. ASSUME NEW k \in 1..Len(b) PROVE f[k] = f[k - 1] * Base + b[k]
    <3>1. k - 1 \in Nat /\ (k - 1) + 1 = k /\ k \in Nat
      BY <1>0
    <3>2. f[(k - 1) + 1] = step[(k - 1) + 1][f[k - 1]] /\ f[k - 1] \in Nat
      BY <1>2, <3>1
    <3> QED BY <3>1, <3>2
  <2> QED BY <2>1
<1> DEFINE h == [k \in 0..Len(b) |-> f[k]]
<1>4. \A k \in 0..Len(b) : h[k] = IF k = 0 THEN 0 ELSE h[k - 1] * Base + b[k]
  <2>1. ASSUME NEW k \in 1..Len(b) PROVE h[k] = h[k - 1] * Base + b[k]
    <3>1. k - 1 \in 0..Len(b) /\ k \in 0..Len(b)
      BY <1>0
    <3> QED BY <1>3, <3>1
  <2>2. h[0] = 0
    BY <1>0, <1>2
  <2> HIDE DEF h
  <2> QED BY <1>0, <2>1, <2>2, SMTT(30)
<1>5. Sums(h, b)
  <2>1. h = [k \in 0..Len(b) |-> h[k]]
    OBVIOUS
  <2> HIDE DEF h
  <2> QED BY <1>4, <2>1 DEF Sums
<1>6. Sums(g, b)
  <2> HIDE DEF h
  <2> QED BY <1>5
<1>7. from_be_bytes(b) = g[Len(b)]
  BY DEF from_be_bytes, Sums
<1> HIDE DEF g, step, h
<1>8. \A k \in 0..Len(b) : g[k] = IF k = 0 THEN 0 ELSE g[k - 1] * Base + b[k]
  BY <1>6 DEF Sums
<1>9. g[0] = 0 /\ \A k \in 1..Len(b) : g[k] = g[k - 1] * Base + b[k]
  BY <1>0, <1>8
<1>10. \A k \in 0..Len(b) : g[k] \in Nat
  <2> DEFINE T == {k \in Nat : k \in 0..Len(b) => g[k] \in Nat}
  <2>1. 0 \in T
    BY <1>9
  <2>2. ASSUME NEW k \in T PROVE k + 1 \in T
    <3>1. ASSUME k + 1 \in 0..Len(b) PROVE g[k + 1] \in Nat
      <4>1. k \in 0..Len(b) /\ k + 1 \in 1..Len(b) /\ (k + 1) - 1 = k
        BY <1>0, <3>1
      <4>2. g[k + 1] = g[k] * Base + b[k + 1] /\ g[k] \in Nat
        BY <1>9, <4>1
      <4> QED BY <1>0, <4>1, <4>2, Apart
    <3> QED BY <3>1
  <2>3. T = Nat
    <3> HIDE DEF T
    <3>1. T \in SUBSET Nat
      BY DEF T
    <3> QED BY <2>1, <2>2, <3>1, NaturalsFrom
  <2>4. \A k \in Nat : k \in T
    BY <2>3
  <2> QED BY <1>0, <2>4
<1> QED BY <1>7, <1>9, <1>10

\* The bytes of an integer that fits give it back.
LEMMA BytesToNumber ==
  ASSUME NEW w \in Nat, NEW n \in 0..Full[w] - 1
  PROVE  from_be_bytes(to_be_bytes(n, w)) = n
<1> DEFINE b == to_be_bytes(n, w)
<1>1. n \in Nat /\ n < Full[w]
  BY FullIs
<1>2. PICK f \in [Nat -> Nat] :
        /\ f[0] = n /\ \A k \in Nat : f[k + 1] = f[k] \div Base
        /\ b = [i \in 1..w |-> f[w - i] % Base] /\ b \in Seq(Byte) /\ Len(b) = w
  BY <1>1, ToBytes
<1> HIDE DEF b
<1>3. PICK g : /\ \A k \in 0..w : g[k] \in Nat
               /\ g[0] = 0 /\ \A k \in 1..w : g[k] = g[k - 1] * Base + b[k]
               /\ from_be_bytes(b) = g[w]
  <2>1. \E g : /\ \A k \in 0..Len(b) : g[k] \in Nat
               /\ g[0] = 0 /\ \A k \in 1..Len(b) : g[k] = g[k - 1] * Base + b[k]
               /\ from_be_bytes(b) = g[Len(b)]
    BY <1>2, FromBytes
  <2> QED BY <1>2, <2>1
\* What is left after k shifts has w - k bytes.
<1>4. f[w] = 0
  <2> DEFINE T == {k \in Nat : k <= w => f[k] < Full[w - k]}
  <2>1. 0 \in T
    <3>1. w - 0 = w /\ f[0] < Full[w]
      BY <1>1, <1>2
    <3> QED BY <3>1
  <2>2. ASSUME NEW k \in T PROVE k + 1 \in T
    <3>1. ASSUME k + 1 <= w PROVE f[k + 1] < Full[w - (k + 1)]
      <4> DEFINE m == w - (k + 1)
                 q == f[k + 1]
                 F == Full[m]
      <4>1. k \in Nat /\ m \in Nat /\ m + 1 = w - k /\ k <= w
        BY <3>1
      <4>2. Full[w - k] = Base * F /\ F \in Nat
        <5> HIDE DEF m
        <5>1. Full[m + 1] = Base * Full[m] /\ Full[m] \in Nat
          BY <4>1, FullIs
        <5> QED BY <4>1, <5>1
      <4>3. f[k] < Base * F
        BY <4>1, <4>2
      <4>4. f[k] = q * Base + (f[k] % Base) /\ q \in Nat /\ f[k] % Base \in Nat /\ f[k] \in Nat
        <5>1. f[k] \in Nat /\ f[k + 1] = f[k] \div Base
          BY <1>2, <4>1
        <5> QED BY <5>1, Divided, ByteIs
      <4> HIDE DEF m, q, F
      <4>5. q * Base \in Nat /\ q * Base <= f[k]
        <5>1. q * Base \in Nat
          BY <4>4, ByteIs, Product
        <5> QED BY <4>4, <5>1
      <4>6. Base * F = F * Base /\ F * Base \in Nat
        BY <4>2, ByteIs, Product
      <4>7. q * Base < F * Base
        BY <4>3, <4>4, <4>5, <4>6
      <4>8. q < F
        BY <4>2, <4>4, <4>7, ByteIs, Product
      <4> QED BY <4>8 DEF q, F, m
    <3> QED BY <3>1
  <2>3. T = Nat
    <3> HIDE DEF T
    <3>1. T \in SUBSET Nat
      BY DEF T
    <3> QED BY <2>1, <2>2, <3>1, NaturalsFrom
  <2>4. w \in T
    BY <2>3
  <2>5. f[w] < Full[0]
    <3>1. w <= w /\ w - w = 0
      OBVIOUS
    <3> QED BY <2>4, <3>1
  <2>6. f[w] \in Nat /\ f[w] < 1
    BY <1>2, <2>5, FullIs
  <2> QED BY <2>6
\* So the bytes read so far are what is left after the other shifts.
<1> DEFINE T == {k \in Nat : k <= w => g[k] = f[w - k]}
<1>5. 0 \in T
  BY <1>3, <1>4
<1>6. ASSUME NEW k \in T PROVE k + 1 \in T
  <2>1. ASSUME k + 1 <= w PROVE g[k + 1] = f[w - (k + 1)]
    <3> DEFINE m == w - (k + 1)
    <3>1. k \in Nat /\ m \in Nat /\ m + 1 = w - k /\ k + 1 \in 1..w /\ (k + 1) - 1 = k
      BY <2>1
    <3>2. g[k + 1] = g[k] * Base + b[k + 1] /\ b[k + 1] = f[m] % Base
      BY <1>2, <1>3, <3>1
    <3>3. g[k] = f[m + 1]
      BY <2>1, <3>1
    <3> HIDE DEF m
    <3>4. f[m + 1] = f[m] \div Base /\ f[m] \in Nat
      BY <1>2, <3>1
    <3>5. f[m] = (f[m] \div Base) * Base + (f[m] % Base)
      BY <3>4, Divided
    <3>6. g[k + 1] = f[m]
      BY <3>2, <3>3, <3>4, <3>5
    <3> QED BY <3>6 DEF m
  <2> QED BY <2>1
<1>7. T = Nat
  <2> HIDE DEF T
  <2>1. T \in SUBSET Nat
    BY DEF T
  <2> QED BY <1>5, <1>6, <2>1, NaturalsFrom
<1>8. g[w] = n
  <2>1. w \in T
    BY <1>7
  <2>2. w <= w /\ w - w = 0
    OBVIOUS
  <2> QED BY <1>2, <2>1, <2>2
<1> QED BY <1>3, <1>8 DEF b

\* Bytes stand for a number that fits, whose bytes they are.
LEMMA NumberToBytes ==
  ASSUME NEW b \in Seq(Byte)
  PROVE  /\ from_be_bytes(b) \in 0..Full[Len(b)] - 1
         /\ to_be_bytes(from_be_bytes(b), Len(b)) = b
<1> DEFINE n == from_be_bytes(b)
           w == Len(b)
<1>1. w \in Nat /\ \A k \in 1..w : b[k] \in Byte
  BY LenProperties, ElementOfSeq
<1>2. PICK g : /\ \A k \in 0..w : g[k] \in Nat
               /\ g[0] = 0 /\ \A k \in 1..w : g[k] = g[k - 1] * Base + b[k]
               /\ n = g[w]
  BY FromBytes
<1>3. n \in Nat
  BY <1>1, <1>2
<1> HIDE DEF n, w
<1>4. PICK f \in [Nat -> Nat] :
        /\ f[0] = n /\ \A k \in Nat : f[k + 1] = f[k] \div Base
        /\ to_be_bytes(n, w) = [i \in 1..w |-> f[w - i] % Base]
        /\ to_be_bytes(n, w) \in Seq(Byte) /\ Len(to_be_bytes(n, w)) = w
  BY <1>1, <1>3, ToBytes
<1>5. \A k \in 0..w : g[k] < Full[k]
  <2> DEFINE T == {k \in Nat : k <= w => g[k] < Full[k]}
  <2>1. 0 \in T
    BY <1>2, FullIs
  <2>2. ASSUME NEW k \in T PROVE k + 1 \in T
    <3>1. ASSUME k + 1 <= w PROVE g[k + 1] < Full[k + 1]
      <4> DEFINE q == g[k]
                 F == Full[k]
                 d == b[k + 1]
      <4>1. k \in Nat /\ k \in 0..w /\ k + 1 \in 1..w /\ (k + 1) - 1 = k
        BY <1>1, <3>1
      <4>2. g[k + 1] = q * Base + d /\ Full[k + 1] = Base * F /\ q \in Nat /\ F \in Nat /\ d \in Byte
        BY <1>1, <1>2, <4>1, FullIs
      <4>3. q < F
        BY <3>1, <4>1
      <4> HIDE DEF q, F, d
      <4>4. q + 1 <= F /\ q + 1 \in Nat
        BY <4>2, <4>3
      <4>5. (q + 1) * Base <= F * Base
        BY <4>2, <4>4, ByteIs, Product
      <4>6. (q + 1) * Base = q * Base + Base /\ F * Base = Base * F
        BY <4>2, ByteIs
      <4>7. q * Base \in Nat /\ F * Base \in Nat /\ d \in Nat /\ d < Base
        BY <4>2, ByteIs, Product DEF Byte, FF
      <4>8. q * Base + d < Base * F
        BY <4>5, <4>6, <4>7, ByteIs
      <4> QED BY <4>2, <4>8
    <3> QED BY <3>1
  <2>3. T = Nat
    <3> HIDE DEF T
    <3>1. T \in SUBSET Nat
      BY DEF T
    <3> QED BY <2>1, <2>2, <3>1, NaturalsFrom
  <2>4. \A k \in Nat : k \in T
    BY <2>3
  <2> QED BY <1>1, <2>4
<1>6. n \in 0..Full[w] - 1
  <2>1. n < Full[w]
    <3>1. w \in 0..w
      BY <1>1
    <3> QED BY <1>2, <1>5, <3>1
  <2>2. Full[w] \in Nat
    BY <1>1, FullIs
  <2> QED BY <1>3, <2>1, <2>2
<1> DEFINE T == {k \in Nat : k <= w => f[k] = g[w - k]}
<1>7. 0 \in T
  BY <1>1, <1>2, <1>4
<1>8. ASSUME NEW k \in T PROVE k + 1 \in T /\ (k + 1 <= w => f[k] % Base = b[w - k])
  <2>1. ASSUME k + 1 <= w PROVE f[k + 1] = g[w - (k + 1)] /\ f[k] % Base = b[w - k]
    <3> DEFINE m == w - (k + 1)
    <3>1. k \in Nat /\ m \in 0..w /\ m + 1 = w - k /\ m + 1 \in 1..w /\ (m + 1) - 1 = m
      BY <1>1, <2>1
    <3>2. f[k] = g[m + 1] /\ f[k + 1] = f[k] \div Base
      <4>1. k <= w
        BY <1>1, <2>1, <3>1
      <4>2. f[k] = g[w - k]
        BY <4>1
      <4> QED BY <1>4, <3>1, <4>2
    <3> HIDE DEF m
    <3>3. g[m + 1] = g[m] * Base + b[m + 1] /\ g[m] \in Nat /\ b[m + 1] \in Byte
      BY <1>1, <1>2, <3>1
    <3>4. (g[m] * Base + b[m + 1]) \div Base = g[m] /\ (g[m] * Base + b[m + 1]) % Base = b[m + 1]
      BY <3>3, Apart
    <3>5. f[k + 1] = g[m] /\ f[k] % Base = b[m + 1]
      BY <3>2, <3>3, <3>4
    <3> QED BY <3>1, <3>5 DEF m
  <2> QED BY <2>1
<1>9. T = Nat
  <2> HIDE DEF T
  <2>1. T \in SUBSET Nat
    BY DEF T
  <2>2. \A k \in T : k + 1 \in T
    BY <1>8
  <2> QED BY <1>7, <2>1, <2>2, NaturalsFrom
<1>10. \A i \in 1..w : to_be_bytes(n, w)[i] = b[i]
  <2> SUFFICES ASSUME NEW i \in 1..w PROVE to_be_bytes(n, w)[i] = b[i]
    OBVIOUS
  <2>1. w - i \in Nat /\ (w - i) + 1 <= w /\ w - (w - i) = i
    BY <1>1
  <2>2. w - i \in T
    BY <1>9, <2>1
  <2> HIDE DEF T
  <2>3. f[w - i] % Base = b[i]
    BY <1>8, <2>1, <2>2
  <2> QED BY <1>4, <2>3
<1>11. to_be_bytes(n, w) = b
  <2>1. Len(b) = w
    BY DEF w
  <2> QED BY <1>1, <1>4, <1>10, <2>1, SeqEqual
<1> QED BY <1>6, <1>11 DEF n, w

----------------------------------------------------------------------------
(* Comparison of bytes that go on.                                         *)

\* One byte string after another.
LEMMA BytesJoined ==
  ASSUME NEW x \in Seq(Byte), NEW y \in Seq(Byte)
  PROVE  /\ x \o y \in Seq(Byte) /\ Len(x \o y) = Len(x) + Len(y)
         /\ \A j \in 1..Len(x) : (x \o y)[j] = x[j]
         /\ \A j \in 1..Len(y) : (x \o y)[Len(x) + j] = y[j]
BY Joined


\* Which two of three are joined first does not matter.
Assoc(x, y, z) == (x \o y) \o z = x \o (y \o z)
\* All byte strings may be joined in either order.
LEMMA Regroup ==
  \A x, y, z \in Seq(Byte) : Assoc(x, y, z)
<1>1. \A x, y, z \in Seq(Byte) : (x \o y) \o z = x \o (y \o z)
  BY SMTT(30)
<1> QED BY <1>1 DEF Assoc

\* Where the first difference is, the smaller byte decides, whatever follows.
LEMMA Decided ==
  ASSUME NEW b \in Seq(Byte), NEW c \in Seq(Byte), NEW x \in Seq(Byte), NEW y \in Seq(Byte),
         NEW i \in 1..Len(b), i <= Len(c), \A j \in 1..i - 1 : b[j] = c[j], b[i] < c[i]
  PROVE  memcmp(b \o x, c \o y)
<1> DEFINE B == b \o x
           C == c \o y
<1>1. Len(b) \in Nat /\ Len(c) \in Nat /\ Len(x) \in Nat /\ Len(y) \in Nat /\ i \in Nat
  BY LenProperties
<1>2. /\ Len(B) = Len(b) + Len(x) /\ Len(C) = Len(c) + Len(y)
      /\ \A j \in 1..Len(b) : B[j] = b[j]
      /\ \A j \in 1..Len(c) : C[j] = c[j]
  BY BytesJoined
<1> HIDE DEF B, C
<1>3. i \in 1..Len(C) /\ i <= Len(B) + 1 /\ B[i] < C[i]
  BY <1>1, <1>2
<1>4. \A j \in 1..i - 1 : B[j] = C[j]
  <2>1. \A j \in 1..i - 1 : j \in 1..Len(b) /\ j \in 1..Len(c)
    BY <1>1
  <2> QED BY <1>2, <2>1
<1> QED BY <1>3, <1>4 DEF memcmp, B, C

\* Bytes that differ in the first place compare so, whatever follows.
LEMMA DecidedAtOnce ==
  ASSUME NEW b \in Seq(Byte), NEW c \in Seq(Byte), NEW x \in Seq(Byte), NEW y \in Seq(Byte),
         1 \in 1..Len(b), Len(c) >= 1, b[1] < c[1]
  PROVE  memcmp(b \o x, c \o y)
<1>1. \A j \in 1..1 - 1 : b[j] = c[j]
  OBVIOUS
<1> QED BY <1>1, Decided

\* What comes before both does not matter.
LEMMA AfterSame ==
  ASSUME NEW s \in Seq(Byte), NEW b \in Seq(Byte), NEW c \in Seq(Byte), memcmp(b, c)
  PROVE  memcmp(s \o b, s \o c)
<1> DEFINE B == s \o b
           C == s \o c
<1>1. Len(s) \in Nat /\ Len(b) \in Nat /\ Len(c) \in Nat
  BY LenProperties
<1>2. /\ Len(B) = Len(s) + Len(b) /\ Len(C) = Len(s) + Len(c)
      /\ \A j \in 1..Len(s) : B[j] = s[j] /\ C[j] = s[j]
      /\ \A j \in 1..Len(b) : B[Len(s) + j] = b[j]
      /\ \A j \in 1..Len(c) : C[Len(s) + j] = c[j]
  BY BytesJoined
<1>3. PICK i \in 1..Len(c) : /\ i <= Len(b) + 1
                             /\ \A j \in 1..i - 1 : b[j] = c[j]
                             /\ i <= Len(b) => b[i] < c[i]
  BY DEF memcmp
<1> HIDE DEF B, C
<1> DEFINE k == Len(s) + i
<1>4. i \in Nat /\ k \in 1..Len(C) /\ k <= Len(B) + 1
  BY <1>1, <1>2, <1>3
<1>5. ASSUME k <= Len(B) PROVE B[k] < C[k]
  <2>1. i \in 1..Len(b)
    BY <1>1, <1>2, <1>4, <1>5
  <2> QED BY <1>2, <1>3, <2>1
<1>6. ASSUME NEW j \in 1..k - 1 PROVE B[j] = C[j]
  <2>1. CASE j <= Len(s)
    BY <1>1, <1>2, <2>1
  <2>2. CASE ~(j <= Len(s))
    <3> DEFINE m == j - Len(s)
    <3>1. m \in 1..i - 1 /\ m \in 1..Len(b) /\ m \in 1..Len(c) /\ j = Len(s) + m
      BY <1>1, <1>3, <1>4, <2>2
    <3> HIDE DEF m
    <3>2. B[Len(s) + m] = b[m] /\ C[Len(s) + m] = c[m] /\ b[m] = c[m]
      BY <1>2, <1>3, <3>1
    <3> QED BY <3>1, <3>2
  <2> QED BY <2>1, <2>2
<1> HIDE DEF k
<1> QED BY <1>4, <1>5, <1>6 DEF memcmp, B, C

\* A smaller first byte decides.
LEMMA Headed ==
  ASSUME NEW p \in Byte, NEW q \in Byte, p < q, NEW x \in Seq(Byte), NEW y \in Seq(Byte)
  PROVE  memcmp(<<p>> \o x, <<q>> \o y)
<1> DEFINE b == <<p>>
           c == <<q>>
<1>1. b \in Seq(Byte) /\ c \in Seq(Byte) /\ Len(b) = 1 /\ Len(c) = 1 /\ b[1] = p /\ c[1] = q
  OBVIOUS
<1> HIDE DEF b, c
<1>2. 1 \in 1..Len(b) /\ Len(c) >= 1 /\ b[1] < c[1]
  BY <1>1
<1>3. memcmp(b \o x, c \o y)
  BY <1>1, <1>2, DecidedAtOnce
<1> QED BY <1>3 DEF b, c

----------------------------------------------------------------------------
(* The laws.                                                               *)

\* What may follow an encoding: nothing, or a byte of F.
Continues(F) == {x \in Seq(Byte) : x = <<>> \/ x[1] \in F}

\* Decoding fails with one of KeyCodecError's words, or gives a value.
Errors == {"Truncated", "Malformed", "UnknownTag", "CapacityExceeded"}
Results(V) == {Fails(e) : e \in Errors} \cup {Ok(v, n) : v \in V, n \in Nat}

Shaped(k) ==
  /\ k.encode \in [k.values -> Seq(Byte)]
  /\ k.decode \in [Seq(Byte) -> Results(k.values)]
  /\ k.max \in Nat

\* A key buffer has room for every key.
Fits(k) == \A v \in k.values : Len(k.encode[v]) <= k.max

\* Any two keys are comparable, and their encodings compare as they do, with
\* whatever may follow.
Orders(k, F) ==
  /\ \A v, w \in k.values : v = w \/ <<v, w>> \in k.below \/ <<w, v>> \in k.below
  /\ \A v, w \in k.values :
       <<v, w>> \in k.below =>
         \A x, y \in Continues(F) : memcmp(k.encode[v] \o x, k.encode[w] \o y)

\* A key comes back from its encoding, of which all is used and no more.
RoundTrips(k, F) ==
  \A v \in k.values : \A x \in Continues(F) :
    k.decode[k.encode[v] \o x] = Ok(v, Len(k.encode[v]))

\* What decodes to a key begins with its encoding.
Canonical(k) ==
  \A b \in Seq(Byte) : \A v, n :
    k.decode[b] = Ok(v, n) =>
      v \in k.values /\ n \in 0..Len(b) /\ k.encode[v] = SubSeq(b, 1, n)

Laws(k, F) == Shaped(k) /\ Fits(k) /\ Orders(k, F) /\ RoundTrips(k, F) /\ Canonical(k)


\* Of two byte strings of a length, the one for the smaller number has the
\* smaller byte at the first place where they differ.
LEMMA NumberOrder ==
  ASSUME NEW b \in Seq(Byte), NEW c \in Seq(Byte), Len(b) = Len(c),
         from_be_bytes(b) < from_be_bytes(c)
  PROVE  \E i \in 1..Len(b) : (\A j \in 1..i - 1 : b[j] = c[j]) /\ b[i] < c[i]
<1> DEFINE w == Len(b)
<1>1. w \in Nat /\ \A k \in 1..w : b[k] \in Byte /\ c[k] \in Byte
  BY LenProperties, ElementOfSeq
<1>2. PICK f : /\ \A k \in 0..w : f[k] \in Nat
               /\ f[0] = 0 /\ \A k \in 1..w : f[k] = f[k - 1] * Base + b[k]
               /\ from_be_bytes(b) = f[w]
  BY FromBytes
<1>3. PICK g : /\ \A k \in 0..w : g[k] \in Nat
               /\ g[0] = 0 /\ \A k \in 1..w : g[k] = g[k - 1] * Base + c[k]
               /\ from_be_bytes(c) = g[w]
  <2>1. \E g : /\ \A k \in 0..Len(c) : g[k] \in Nat
               /\ g[0] = 0 /\ \A k \in 1..Len(c) : g[k] = g[k - 1] * Base + c[k]
               /\ from_be_bytes(c) = g[Len(c)]
    BY FromBytes
  <2> QED BY <2>1
<1> HIDE DEF w
<1> DEFINE Less == {k \in Nat : k <= w /\ f[k] < g[k]}
<1>4. PICK i \in Less : \A k \in Less : i <= k
  <2>1. w \in Less
    BY <1>1, <1>2, <1>3
  <2>2. Less \in SUBSET Nat
    OBVIOUS
  <2> HIDE DEF Less
  <2> QED BY <2>1, <2>2, LeastOf
<1>5. i \in 1..w /\ i - 1 \in 0..w /\ f[i] < g[i] /\ i - 1 \in Nat
  <2>1. i # 0
    BY <1>2, <1>3
  <2> QED BY <1>1, <2>1
\* The numbers read before that place are the same.
<1> DEFINE p == f[i - 1]
           q == g[i - 1]
<1>6. p \in Nat /\ q \in Nat /\ p >= q
  <2>1. i - 1 \notin Less
    BY <1>1, <1>4, <1>5
  <2> QED BY <1>1, <1>2, <1>3, <1>5, <2>1
<1>7. f[i] = p * Base + b[i] /\ g[i] = q * Base + c[i] /\ b[i] \in Byte /\ c[i] \in Byte
  BY <1>1, <1>2, <1>3, <1>5
<1> HIDE DEF p, q
<1>8. p = q /\ b[i] < c[i]
  <2>1. b[i] \in Nat /\ c[i] \in Nat /\ c[i] < Base /\ p * Base \in Nat /\ q * Base \in Nat
    BY <1>6, <1>7, ByteIs, Product DEF Byte, FF
  <2>2. ASSUME q < p PROVE FALSE
    <3>1. (q + 1) * Base <= p * Base
      <4>1. q + 1 \in Nat /\ q + 1 <= p
        BY <1>6, <2>2
      <4> QED BY <1>6, <4>1, ByteIs, Product
    <3>2. (q + 1) * Base = q * Base + Base
      BY <1>6, ByteIs
    <3> QED BY <1>5, <1>7, <2>1, <3>1, <3>2, ByteIs
  <2>3. p = q
    BY <1>6, <2>2
  <2> QED BY <1>5, <1>7, <2>1, <2>3
\* And so are the bytes.
<1> DEFINE T == {k \in Nat : k <= w => (f[k] = g[k] => \A j \in 1..k : b[j] = c[j])}
<1>9. 0 \in T
  OBVIOUS
<1>10. ASSUME NEW k \in T PROVE k + 1 \in T
  <2>1. ASSUME k + 1 <= w, f[k + 1] = g[k + 1], NEW j \in 1..k + 1 PROVE b[j] = c[j]
    <3>1. k \in Nat /\ k <= w /\ k \in 0..w /\ k + 1 \in 1..w /\ (k + 1) - 1 = k
      BY <1>1, <2>1
    <3>2. f[k + 1] = f[k] * Base + b[k + 1] /\ g[k + 1] = g[k] * Base + c[k + 1]
      BY <1>2, <1>3, <3>1
    <3>3. f[k] = g[k] /\ b[k + 1] = c[k + 1]
      <4>1. /\ (f[k] * Base + b[k + 1]) \div Base = f[k]
            /\ (f[k] * Base + b[k + 1]) % Base = b[k + 1]
        BY <1>1, <1>2, <3>1, Apart
      <4>2. /\ (g[k] * Base + c[k + 1]) \div Base = g[k]
            /\ (g[k] * Base + c[k + 1]) % Base = c[k + 1]
        BY <1>1, <1>3, <3>1, Apart
      <4> QED BY <2>1, <3>2, <4>1, <4>2
    <3>4. \A l \in 1..k : b[l] = c[l]
      BY <3>1, <3>3
    <3> QED BY <2>1, <3>1, <3>3, <3>4
  <2>2. k + 1 \in Nat
    OBVIOUS
  <2> QED BY <2>1, <2>2
<1>11. T = Nat
  <2> HIDE DEF T
  <2>1. T \in SUBSET Nat
    BY DEF T
  <2> QED BY <1>9, <1>10, <2>1, NaturalsFrom
<1>12. \A j \in 1..i - 1 : b[j] = c[j]
  <2>1. i - 1 \in T /\ i - 1 <= w
    BY <1>1, <1>5, <1>11
  <2>2. f[i - 1] = g[i - 1]
    BY <1>8 DEF p, q
  <2> QED BY <2>1, <2>2
<1> QED BY <1>5, <1>8, <1>12 DEF w

\* What decoding answers: a failure has no key, a success one key and length.
LEMMA Answers ==
  /\ \A v, n : Ok(v, n).res = "ok" /\ Ok(v, n).value = v /\ Ok(v, n).used = n
  /\ \A e : Fails(e).res = e
  /\ \A e \in Errors : e # "ok"
  /\ \A v, n, w, m : Ok(v, n) = Ok(w, m) => v = w /\ n = m
  /\ \A e \in Errors : \A v, n : Fails(e) # Ok(v, n)
BY DEF Ok, Fails, Errors

\* The beginning of bytes that go on.
LEMMA Beginning ==
  ASSUME NEW b \in Seq(Byte), NEW x \in Seq(Byte)
  PROVE  SubSeq(b \o x, 1, Len(b)) = b
<1>1. /\ b \o x \in Seq(Byte) /\ Len(b \o x) = Len(b) + Len(x)
      /\ \A j \in 1..Len(b) : (b \o x)[j] = b[j]
      /\ Len(b) \in Nat /\ Len(x) \in Nat
  BY BytesJoined, LenProperties
<1> DEFINE c == b \o x
           s == SubSeq(c, 1, Len(b))
<1> HIDE DEF c
<1>2. /\ c \in Seq(Byte) /\ Len(c) = Len(b) + Len(x)
      /\ \A j \in 1..Len(b) : c[j] = b[j]
  BY <1>1 DEF c
<1>3. \A j \in 1..Len(b) : c[1 + j - 1] \in Byte
  <2>1. \A j \in 1..Len(b) : b[j] \in Byte /\ 1 + j - 1 = j
    BY <1>1, ElementOfSeq
  <2> QED BY <1>2, <2>1
<1>4. s \in Seq(Byte) /\ Len(s) = Len(b) /\ \A j \in 1..Len(b) : s[j] = c[j]
  <2>1. \A j \in 1..Len(b) : 1 <= j /\ j <= Len(c)
    BY <1>1, <1>2
  <2> QED BY <1>1, <1>2, <2>1, SubSeqProperties
<1> HIDE DEF s
<1>5. \A j \in 1..Len(s) : s[j] = b[j]
  BY <1>2, <1>4
<1>6. s = b
  BY <1>4, <1>5, SeqEqual
<1> QED BY <1>6 DEF s, c

\* The leading bytes, if they are all there.
LEMMA Leading ==
  ASSUME NEW w \in Nat, NEW b \in Seq(Byte)
  PROVE  /\ Len(b) < w => leading(b, w) = Fails("Truncated")
         /\ w <= Len(b) => /\ leading(b, w) = Ok(SubSeq(b, 1, w), w)
                           /\ SubSeq(b, 1, w) \in Seq(Byte) /\ Len(SubSeq(b, 1, w)) = w
<1>1. Len(b) \in Nat
  BY LenProperties
<1>2. ASSUME w <= Len(b)
      PROVE  SubSeq(b, 1, w) \in Seq(Byte) /\ Len(SubSeq(b, 1, w)) = w
  <2>1. \A j \in 1..w : j \in 1..Len(b)
    BY <1>1, <1>2
  <2>2. \A j \in 1..w : b[j] \in Byte
    BY <2>1, ElementOfSeq
  <2> QED BY <1>1, <1>2, <2>2, SubSeqProperties
<1> QED BY <1>1, <1>2 DEF leading

\* A type of a fixed width: its encodings have that length, compare as the
\* values do, and are what the leading bytes are taken for.
LEMMA FixedWidth ==
  ASSUME NEW k, NEW w \in Nat,
         k.encode \in [k.values -> Seq(Byte)], k.max = w,
         DOMAIN k.decode = Seq(Byte),
         \A v \in k.values : Len(k.encode[v]) = w,
         \A v, u \in k.values : v = u \/ <<v, u>> \in k.below \/ <<u, v>> \in k.below,
         \A v, u \in k.values :
           <<v, u>> \in k.below =>
             \E i \in 1..w : /\ \A j \in 1..i - 1 : k.encode[v][j] = k.encode[u][j]
                             /\ k.encode[v][i] < k.encode[u][i],
         k.decode = [b \in Seq(Byte) |-> k.decode[b]],
         \A b \in Seq(Byte) : Len(b) < w => k.decode[b] = Fails("Truncated"),
         \A b \in Seq(Byte) :
           w <= Len(b) =>
             \/ k.decode[b] = Fails("Malformed") /\ \A v \in k.values : k.encode[v] # SubSeq(b, 1, w)
             \/ \E v \in k.values : k.decode[b] = Ok(v, w) /\ k.encode[v] = SubSeq(b, 1, w)
  PROVE  Laws(k, Byte)
<1>1. \A b \in Seq(Byte) : k.decode[b] \in Results(k.values)
  <2> SUFFICES ASSUME NEW b \in Seq(Byte) PROVE k.decode[b] \in Results(k.values)
    OBVIOUS
  <2>1. Len(b) \in Nat
    BY LenProperties
  <2>2. Fails("Truncated") \in Results(k.values) /\ Fails("Malformed") \in Results(k.values)
    BY DEF Results, Errors
  <2>3. \A v \in k.values : Ok(v, w) \in Results(k.values)
    BY DEF Results
  <2>4. Len(b) < w \/ w <= Len(b)
    BY <2>1
  <2> QED BY <2>2, <2>3, <2>4
<1>2. Shaped(k)
  BY <1>1 DEF Shaped
<1>3. Fits(k)
  BY DEF Fits
<1>4. ASSUME NEW v \in k.values, NEW u \in k.values, <<v, u>> \in k.below,
             NEW x \in Seq(Byte), NEW y \in Seq(Byte)
      PROVE  memcmp(k.encode[v] \o x, k.encode[u] \o y)
  <2> DEFINE b == k.encode[v]
             c == k.encode[u]
  <2>1. b \in Seq(Byte) /\ c \in Seq(Byte) /\ Len(b) = w /\ Len(c) = w
    OBVIOUS
  <2>2. PICK i \in 1..w : (\A j \in 1..i - 1 : b[j] = c[j]) /\ b[i] < c[i]
    BY <1>4
  <2> HIDE DEF b, c
  <2>3. i \in 1..Len(b) /\ i <= Len(c)
    BY <2>1
  <2>4. memcmp(b \o x, c \o y)
    BY <2>1, <2>2, <2>3, Decided
  <2> QED BY <2>4 DEF b, c
<1>5. Orders(k, Byte)
  <2>1. \A x \in Continues(Byte) : x \in Seq(Byte)
    BY DEF Continues
  <2>2. \A v, u \in k.values :
          <<v, u>> \in k.below =>
            \A x, y \in Continues(Byte) : memcmp(k.encode[v] \o x, k.encode[u] \o y)
    BY <1>4, <2>1
  <2>3. \A v, u \in k.values : v = u \/ <<v, u>> \in k.below \/ <<u, v>> \in k.below
    OBVIOUS
  <2> QED BY <2>2, <2>3 DEF Orders
<1>6. \A v, u \in k.values : k.encode[v] = k.encode[u] => v = u
  <2>1. \A v, u \in k.values : k.encode[v] = k.encode[u] => <<v, u>> \notin k.below
    <3> SUFFICES ASSUME NEW v \in k.values, NEW u \in k.values, k.encode[v] = k.encode[u],
                        <<v, u>> \in k.below
                 PROVE  FALSE
      OBVIOUS
    <3>1. PICK i \in 1..w : k.encode[v][i] < k.encode[v][i]
      OBVIOUS
    <3>2. k.encode[v] \in Seq(Byte) /\ i \in 1..Len(k.encode[v])
      OBVIOUS
    <3>3. k.encode[v][i] \in Nat
      BY <3>2, ElementOfSeq, ByteIs
    <3> QED BY <3>1, <3>3
  <2> QED BY <2>1
<1>7. ASSUME NEW v \in k.values, NEW x \in Seq(Byte)
      PROVE  k.decode[k.encode[v] \o x] = Ok(v, Len(k.encode[v]))
  <2> DEFINE b == k.encode[v]
             c == b \o x
  <2>1. b \in Seq(Byte) /\ Len(b) = w
    OBVIOUS
  <2> HIDE DEF b
  <2>2. c \in Seq(Byte) /\ Len(c) = w + Len(x) /\ Len(x) \in Nat /\ SubSeq(c, 1, w) = b
    <3>1. Len(c) = Len(b) + Len(x) /\ c \in Seq(Byte) /\ SubSeq(c, 1, Len(b)) = b
      BY <2>1, BytesJoined, Beginning
    <3> HIDE DEF c
    <3> QED BY <2>1, <3>1, LenProperties
  <2> HIDE DEF c
  <2>3. w <= Len(c)
    BY <2>2
  <2>4. k.encode[v] = SubSeq(c, 1, w)
    BY <2>2 DEF b
  <2>5. PICK u \in k.values : k.decode[c] = Ok(u, w) /\ k.encode[u] = SubSeq(c, 1, w)
    BY <2>2, <2>3, <2>4
  <2>6. u = v
    BY <1>6, <2>4, <2>5
  <2>7. k.decode[c] = Ok(v, Len(b))
    BY <2>1, <2>5, <2>6
  <2> QED BY <2>7 DEF b, c
<1>8. RoundTrips(k, Byte)
  BY <1>7 DEF RoundTrips, Continues
<1>9. ASSUME NEW b \in Seq(Byte), NEW v, NEW n, k.decode[b] = Ok(v, n)
      PROVE  v \in k.values /\ n \in 0..Len(b) /\ k.encode[v] = SubSeq(b, 1, n)
  <2>1. Len(b) \in Nat
    BY LenProperties
  <2>2. Fails("Truncated") # Ok(v, n) /\ Fails("Malformed") # Ok(v, n)
    BY Answers DEF Errors
  <2>3. w <= Len(b)
    BY <1>9, <2>1, <2>2
  <2>4. PICK u \in k.values : k.decode[b] = Ok(u, w) /\ k.encode[u] = SubSeq(b, 1, w)
    BY <1>9, <2>2, <2>3
  <2>5. u = v /\ n = w
    <3>1. Ok(u, w) = Ok(v, n)
      BY <1>9, <2>4
    <3> QED BY <3>1 DEF Ok
  <2> QED BY <2>1, <2>3, <2>4, <2>5
<1>10. Canonical(k)
  BY <1>9 DEF Canonical
<1> QED BY <1>2, <1>3, <1>5, <1>8, <1>10 DEF Laws

----------------------------------------------------------------------------
(* The kinds of a fixed width.                                             *)

\* The bytes of two integers compare as the integers do.
LEMMA IntegerBytes ==
  ASSUME NEW w \in Nat, NEW v \in 0..Full[w] - 1, NEW u \in 0..Full[w] - 1, v < u
  PROVE  \E i \in 1..w : /\ \A j \in 1..i - 1 : to_be_bytes(v, w)[j] = to_be_bytes(u, w)[j]
                         /\ to_be_bytes(v, w)[i] < to_be_bytes(u, w)[i]
<1> DEFINE b == to_be_bytes(v, w)
           c == to_be_bytes(u, w)
<1>1. v \in Nat /\ u \in Nat
  OBVIOUS
<1>2. b \in Seq(Byte) /\ Len(b) = w /\ c \in Seq(Byte) /\ Len(c) = w
  BY <1>1, ToBytes
<1>3. from_be_bytes(b) = v /\ from_be_bytes(c) = u
  BY BytesToNumber
<1> HIDE DEF b, c
<1>4. \E i \in 1..Len(b) : (\A j \in 1..i - 1 : b[j] = c[j]) /\ b[i] < c[i]
  BY <1>2, <1>3, NumberOrder
<1>5. \E i \in 1..w : (\A j \in 1..i - 1 : b[j] = c[j]) /\ b[i] < c[i]
  BY <1>2, <1>4
<1> QED BY <1>5 DEF b, c

\* What the leading bytes stand for, if they are all there.
LEMMA DecodeUnsigned ==
  ASSUME NEW w \in Nat, NEW b \in Seq(Byte)
  PROVE  /\ Len(b) < w => decode_unsigned(b, w) = Fails("Truncated")
         /\ w <= Len(b) => \E n \in 0..Full[w] - 1 : /\ decode_unsigned(b, w) = Ok(n, w)
                                                    /\ to_be_bytes(n, w) = SubSeq(b, 1, w)
<1>1. ASSUME Len(b) < w PROVE decode_unsigned(b, w) = Fails("Truncated")
  <2>1. leading(b, w) = Fails("Truncated")
    BY <1>1, Leading
  <2>2. Fails("Truncated").res # "ok"
    BY DEF Fails
  <2> QED BY <2>1, <2>2 DEF decode_unsigned
<1>2. ASSUME w <= Len(b)
      PROVE  \E n \in 0..Full[w] - 1 : /\ decode_unsigned(b, w) = Ok(n, w)
                                       /\ to_be_bytes(n, w) = SubSeq(b, 1, w)
  <2> DEFINE s == SubSeq(b, 1, w)
  <2>1. leading(b, w) = Ok(s, w) /\ s \in Seq(Byte) /\ Len(s) = w
    BY <1>2, Leading
  <2>2. Ok(s, w).res = "ok" /\ Ok(s, w).value = s
    BY DEF Ok
  <2> HIDE DEF s
  <2>3. decode_unsigned(b, w) = Ok(from_be_bytes(s), w)
    BY <2>1, <2>2 DEF decode_unsigned
  <2>4. /\ from_be_bytes(s) \in 0..Full[Len(s)] - 1
        /\ to_be_bytes(from_be_bytes(s), Len(s)) = s
    BY <2>1, NumberToBytes
  <2>5. \E n \in 0..Full[w] - 1 : decode_unsigned(b, w) = Ok(n, w) /\ to_be_bytes(n, w) = s
    BY <2>1, <2>3, <2>4
  <2> QED BY <2>5 DEF s
<1> QED BY <1>1, <1>2

\* Unsigned integers: big-endian bytes (impl_unsigned).
THEOREM UnsignedLawful == \A w \in Nat : Laws(unsigned(w), Byte)
<1> SUFFICES ASSUME NEW w \in Nat PROVE Laws(unsigned(w), Byte)
  OBVIOUS
<1> DEFINE V == 0..Full[w] - 1
           k == unsigned(w)
<1>1. /\ k.values = V /\ k.below = Ascending(V) /\ k.max = w
      /\ k.encode = [v \in V |-> to_be_bytes(v, w)]
      /\ k.decode = [b \in Seq(Byte) |-> decode_unsigned(b, w)]
  BY DEF unsigned
<1>2. \A v \in V : v \in Nat
  OBVIOUS
<1>3. \A v \in V : to_be_bytes(v, w) \in Seq(Byte) /\ Len(to_be_bytes(v, w)) = w
  BY <1>2, ToBytes
<1>4. \A v, u \in V : <<v, u>> \in Ascending(V) <=> v < u
  BY DEF Ascending
<1>5. \A v, u \in V : v < u =>
        \E i \in 1..w : /\ \A j \in 1..i - 1 : to_be_bytes(v, w)[j] = to_be_bytes(u, w)[j]
                        /\ to_be_bytes(v, w)[i] < to_be_bytes(u, w)[i]
  BY IntegerBytes
<1>6. \A v, u \in V : v = u \/ v < u \/ u < v
  BY <1>2
<1>7. /\ \A b \in Seq(Byte) : Len(b) < w => decode_unsigned(b, w) = Fails("Truncated")
      /\ \A b \in Seq(Byte) :
           w <= Len(b) => \E n \in V : /\ decode_unsigned(b, w) = Ok(n, w)
                                       /\ to_be_bytes(n, w) = SubSeq(b, 1, w)
  BY DecodeUnsigned
<1> HIDE DEF V, k
<1>8. k.encode \in [k.values -> Seq(Byte)] /\ \A v \in k.values : Len(k.encode[v]) = w
  BY <1>1, <1>3
<1>9. \A v, u \in k.values : v = u \/ <<v, u>> \in k.below \/ <<u, v>> \in k.below
  <2> DEFINE B == Ascending(V)
  <2>1. \A v, u \in V : v = u \/ <<v, u>> \in B \/ <<u, v>> \in B
    <3> SUFFICES ASSUME NEW v \in V, NEW u \in V PROVE v = u \/ <<v, u>> \in B \/ <<u, v>> \in B
      OBVIOUS
    <3>1. v = u \/ v < u \/ u < v
      BY <1>6
    <3>2. (<<v, u>> \in B <=> v < u) /\ (<<u, v>> \in B <=> u < v)
      BY <1>4
    <3> QED BY <3>1, <3>2
  <2>2. k.values = V /\ k.below = B
    BY <1>1
  <2> HIDE DEF B
  <2> QED BY <2>1, <2>2
<1>10. \A v, u \in k.values :
         <<v, u>> \in k.below =>
           \E i \in 1..w : /\ \A j \in 1..i - 1 : k.encode[v][j] = k.encode[u][j]
                           /\ k.encode[v][i] < k.encode[u][i]
  BY <1>1, <1>4, <1>5
<1>11. /\ DOMAIN k.decode = Seq(Byte) /\ k.decode = [b \in Seq(Byte) |-> k.decode[b]]
       /\ \A b \in Seq(Byte) : Len(b) < w => k.decode[b] = Fails("Truncated")
  BY <1>1, <1>7
<1>12. \A b \in Seq(Byte) :
         w <= Len(b) => \E v \in k.values : k.decode[b] = Ok(v, w) /\ k.encode[v] = SubSeq(b, 1, w)
  BY <1>1, <1>7
<1>13. Laws(k, Byte)
  BY <1>1, <1>8, <1>9, <1>10, <1>11, <1>12, FixedWidth
<1> QED BY <1>13 DEF k

\* Half of the integers are below the sign.
LEMMA HalfIs ==
  ASSUME NEW w \in Nat \ {0}
  PROVE  Half(w) \in Nat /\ Full[w] = Half(w) + Half(w) /\ Full[w] \in Nat
<1>1. w - 1 \in Nat /\ (w - 1) + 1 = w
  OBVIOUS
<1>2. Full[w] = Base * Full[w - 1] /\ Full[w - 1] \in Nat
  <2>1. Full[(w - 1) + 1] = Base * Full[w - 1] /\ Full[w - 1] \in Nat
    BY <1>1, FullIs
  <2> QED BY <1>1, <2>1
<1>3. PICK h \in Nat : Base = 2 * h
  <2>1. Base \in Nat /\ Base % 2 = 0
    BY KeyAssumption
  <2>2. Base = 2 * (Base \div 2) /\ Base \div 2 \in Nat
    BY <2>1
  <2> QED BY <2>2
<1> DEFINE F == Full[w - 1]
<1>4. F \in Nat /\ h \in Nat /\ Full[w] = (2 * h) * F
  BY <1>2, <1>3
<1> HIDE DEF F
<1>5. (2 * h) * F = 2 * (h * F) /\ h * F \in Nat
  BY <1>4, SMTT(30)
<1> DEFINE p == h * F
<1>6. Full[w] = 2 * p /\ p \in Nat
  BY <1>4, <1>5
<1> HIDE DEF p
<1>7. (2 * p) \div 2 = p
  BY <1>6
<1>8. Half(w) = p
  BY <1>6, <1>7 DEF Half
<1> QED BY <1>6, <1>8

\* Flipping the sign bit moves the integers up by half of them.
LEMMA Flipped ==
  ASSUME NEW w \in Nat \ {0}, NEW v \in -Half(w)..Half(w) - 1
  PROVE  /\ flip(v, w) = v + Half(w) /\ flip(v, w) \in 0..Full[w] - 1
         /\ unflip(flip(v, w), w) = v
<1> DEFINE H == Half(w)
           F == Full[w]
<1>1. H \in Nat /\ F = H + H /\ F \in Nat /\ v \in -H..H - 1
  BY HalfIs
<1>2. flip(v, w) = (v + F + H) % F
  BY DEF flip
<1>3. \A u : unflip(u, w) = u - H
  BY DEF unflip
<1> HIDE DEF H, F
<1> DEFINE u == v + H
<1>4. u \in Nat /\ u < F /\ v + F + H = u + F /\ u - H = v /\ F > 0
  BY <1>1
<1> HIDE DEF u
<1>5. (u + F) % F = u
  BY <1>1, <1>4
<1>6. flip(v, w) = u /\ unflip(u, w) = v
  BY <1>2, <1>3, <1>4, <1>5
<1> QED BY <1>1, <1>4, <1>6 DEF u, H, F

\* Signed integers: the bytes of the flipped integer (impl_signed).
THEOREM SignedLawful == \A w \in Nat \ {0} : Laws(signed(w), Byte)
<1> SUFFICES ASSUME NEW w \in Nat \ {0} PROVE Laws(signed(w), Byte)
  OBVIOUS
<1> DEFINE H == Half(w)
           V == -Half(w)..Half(w) - 1
           k == signed(w)
<1>1. /\ k.values = V /\ k.below = Ascending(V) /\ k.max = w
      /\ k.encode = [v \in V |-> to_be_bytes(flip(v, w), w)]
      /\ k.decode = [b \in Seq(Byte) |-> decode_signed(b, w)]
  BY DEF signed
<1>2. H \in Nat /\ Full[w] = H + H /\ Full[w] \in Nat /\ V = -H..H - 1
  BY HalfIs
<1>3. /\ \A v \in V : flip(v, w) = v + H /\ flip(v, w) \in 0..Full[w] - 1
      /\ \A u : unflip(u, w) = u - H
  BY Flipped DEF unflip
<1>4. \A v \in V : /\ to_be_bytes(flip(v, w), w) \in Seq(Byte)
                   /\ Len(to_be_bytes(flip(v, w), w)) = w
  <2>1. \A n \in Nat : to_be_bytes(n, w) \in Seq(Byte) /\ Len(to_be_bytes(n, w)) = w
    BY ToBytes
  <2> QED BY <1>2, <1>3, <2>1
<1>5. \A v, u \in V : <<v, u>> \in Ascending(V) <=> v < u
  BY DEF Ascending
<1>6. ASSUME NEW v \in V, NEW u \in V, v < u
      PROVE  \E i \in 1..w :
               /\ \A j \in 1..i - 1 : to_be_bytes(flip(v, w), w)[j] = to_be_bytes(flip(u, w), w)[j]
               /\ to_be_bytes(flip(v, w), w)[i] < to_be_bytes(flip(u, w), w)[i]
  <2> DEFINE p == flip(v, w)
             q == flip(u, w)
  <2>1. p \in 0..Full[w] - 1 /\ q \in 0..Full[w] - 1 /\ p < q
    BY <1>2, <1>3, <1>6
  <2> HIDE DEF p, q
  <2>2. \E i \in 1..w : /\ \A j \in 1..i - 1 : to_be_bytes(p, w)[j] = to_be_bytes(q, w)[j]
                        /\ to_be_bytes(p, w)[i] < to_be_bytes(q, w)[i]
    BY <2>1, IntegerBytes
  <2> QED BY <2>2 DEF p, q
<1>7. \A v, u \in V : v = u \/ v < u \/ u < v
  BY <1>2
<1>8. ASSUME NEW b \in Seq(Byte)
      PROVE  /\ Len(b) < w => decode_signed(b, w) = Fails("Truncated")
             /\ w <= Len(b) => \E v \in V : /\ decode_signed(b, w) = Ok(v, w)
                                            /\ to_be_bytes(flip(v, w), w) = SubSeq(b, 1, w)
  <2>1. ASSUME Len(b) < w PROVE decode_signed(b, w) = Fails("Truncated")
    <3>1. decode_unsigned(b, w) = Fails("Truncated")
      BY <2>1, DecodeUnsigned
    <3>2. Fails("Truncated").res # "ok"
      BY DEF Fails
    <3> QED BY <3>1, <3>2 DEF decode_signed
  <2>2. ASSUME w <= Len(b)
        PROVE  \E v \in V : /\ decode_signed(b, w) = Ok(v, w)
                            /\ to_be_bytes(flip(v, w), w) = SubSeq(b, 1, w)
    <3>1. PICK n \in 0..Full[w] - 1 : /\ decode_unsigned(b, w) = Ok(n, w)
                                      /\ to_be_bytes(n, w) = SubSeq(b, 1, w)
      BY <2>2, DecodeUnsigned
    <3>2. Ok(n, w).res = "ok" /\ Ok(n, w).value = n
      BY DEF Ok
    <3>3. decode_signed(b, w) = Ok(n - H, w)
      BY <1>3, <3>1, <3>2 DEF decode_signed
    <3>4. n - H \in V
      BY <1>2
    <3>5. flip(n - H, w) = n
      <4>1. (n - H) + H = n
        BY <1>2
      <4> QED BY <1>3, <3>4, <4>1
    <3> QED BY <3>1, <3>3, <3>4, <3>5
  <2> QED BY <2>1, <2>2
<1> HIDE DEF V, k
<1>9. k.encode \in [k.values -> Seq(Byte)] /\ \A v \in k.values : Len(k.encode[v]) = w
  BY <1>1, <1>4
<1>10. \A v, u \in k.values : v = u \/ <<v, u>> \in k.below \/ <<u, v>> \in k.below
  <2> DEFINE B == Ascending(V)
  <2>1. \A v, u \in V : v = u \/ <<v, u>> \in B \/ <<u, v>> \in B
    <3> SUFFICES ASSUME NEW v \in V, NEW u \in V PROVE v = u \/ <<v, u>> \in B \/ <<u, v>> \in B
      OBVIOUS
    <3>1. v = u \/ v < u \/ u < v
      BY <1>7
    <3>2. (<<v, u>> \in B <=> v < u) /\ (<<u, v>> \in B <=> u < v)
      BY <1>5
    <3> QED BY <3>1, <3>2
  <2>2. k.values = V /\ k.below = B
    BY <1>1
  <2> HIDE DEF B
  <2> QED BY <2>1, <2>2
<1>11. \A v, u \in k.values :
         <<v, u>> \in k.below =>
           \E i \in 1..w : /\ \A j \in 1..i - 1 : k.encode[v][j] = k.encode[u][j]
                           /\ k.encode[v][i] < k.encode[u][i]
  BY <1>1, <1>5, <1>6
<1>12. /\ DOMAIN k.decode = Seq(Byte) /\ k.decode = [b \in Seq(Byte) |-> k.decode[b]]
       /\ \A b \in Seq(Byte) : Len(b) < w => k.decode[b] = Fails("Truncated")
  BY <1>1, <1>8
<1>13. \A b \in Seq(Byte) :
         w <= Len(b) => \E v \in k.values : k.decode[b] = Ok(v, w) /\ k.encode[v] = SubSeq(b, 1, w)
  BY <1>1, <1>8
<1>14. Laws(k, Byte)
  BY <1>1, <1>9, <1>10, <1>11, <1>12, <1>13, FixedWidth, ZenonT(30)
<1> QED BY <1>14 DEF k

\* Characters: the bytes of the code point (char).
THEOREM CharLawful == Laws(char, Byte)
<1> DEFINE w == CharWidth
           k == char
<1>1. /\ k.values = Chars /\ k.below = Ascending(Chars) /\ k.max = w
      /\ k.encode = [v \in Chars |-> to_be_bytes(v, w)]
      /\ k.decode = [b \in Seq(Byte) |-> decode_char(b)]
  BY DEF char
<1>2. w \in Nat /\ \A v \in Chars : v \in 0..Full[w] - 1 /\ v \in Nat
  BY KeyAssumption
<1>3. \A b : decode_char(b) =
               LET code == decode_unsigned(b, w)
               IN  IF code.res = "ok" /\ code.value \notin Chars THEN Fails("Malformed") ELSE code
  BY DEF decode_char
<1> HIDE DEF w, k
<1>4. \A v \in Chars : to_be_bytes(v, w) \in Seq(Byte) /\ Len(to_be_bytes(v, w)) = w
  BY <1>2, ToBytes
<1>5. \A v, u \in Chars : v < u =>
        \E i \in 1..w : /\ \A j \in 1..i - 1 : to_be_bytes(v, w)[j] = to_be_bytes(u, w)[j]
                        /\ to_be_bytes(v, w)[i] < to_be_bytes(u, w)[i]
  BY <1>2, IntegerBytes
<1>6. ASSUME NEW b \in Seq(Byte)
      PROVE  /\ Len(b) < w => decode_char(b) = Fails("Truncated")
             /\ w <= Len(b) =>
                  \/ /\ decode_char(b) = Fails("Malformed")
                     /\ \A v \in Chars : to_be_bytes(v, w) # SubSeq(b, 1, w)
                  \/ \E v \in Chars : /\ decode_char(b) = Ok(v, w)
                                      /\ to_be_bytes(v, w) = SubSeq(b, 1, w)
  <2>1. ASSUME Len(b) < w PROVE decode_char(b) = Fails("Truncated")
    <3>1. decode_unsigned(b, w) = Fails("Truncated")
      BY <1>2, <2>1, DecodeUnsigned
    <3>2. Fails("Truncated").res # "ok"
      BY DEF Fails
    <3> QED BY <1>3, <3>1, <3>2
  <2>2. ASSUME w <= Len(b)
        PROVE  \/ /\ decode_char(b) = Fails("Malformed")
                  /\ \A v \in Chars : to_be_bytes(v, w) # SubSeq(b, 1, w)
               \/ \E v \in Chars : /\ decode_char(b) = Ok(v, w)
                                   /\ to_be_bytes(v, w) = SubSeq(b, 1, w)
    <3>1. PICK n \in 0..Full[w] - 1 : /\ decode_unsigned(b, w) = Ok(n, w)
                                      /\ to_be_bytes(n, w) = SubSeq(b, 1, w)
      BY <1>2, <2>2, DecodeUnsigned
    <3>2. Ok(n, w).res = "ok" /\ Ok(n, w).value = n
      BY DEF Ok
    <3>3. CASE n \in Chars
      <4>1. decode_char(b) = Ok(n, w)
        BY <1>3, <3>1, <3>2, <3>3
      <4> QED BY <3>1, <3>3, <4>1
    <3>4. CASE n \notin Chars
      <4>1. decode_char(b) = Fails("Malformed")
        BY <1>3, <3>1, <3>2, <3>4
      <4>2. ASSUME NEW v \in Chars, to_be_bytes(v, w) = SubSeq(b, 1, w) PROVE FALSE
        <5>1. from_be_bytes(to_be_bytes(v, w)) = v
          BY <1>2, BytesToNumber
        <5>2. from_be_bytes(to_be_bytes(n, w)) = n
          BY <1>2, BytesToNumber
        <5> QED BY <3>1, <3>4, <4>2, <5>1, <5>2
      <4> QED BY <4>1, <4>2
    <3> QED BY <3>3, <3>4
  <2> QED BY <2>1, <2>2
<1>7. k.encode \in [k.values -> Seq(Byte)] /\ \A v \in k.values : Len(k.encode[v]) = w
  BY <1>1, <1>4
<1> DEFINE B == Ascending(Chars)
<1>8. \A v, u \in Chars : <<v, u>> \in B <=> v < u
  BY DEF Ascending
<1>9. \A v, u \in Chars : v = u \/ <<v, u>> \in B \/ <<u, v>> \in B
  <2> SUFFICES ASSUME NEW v \in Chars, NEW u \in Chars PROVE v = u \/ <<v, u>> \in B \/ <<u, v>> \in B
    OBVIOUS
  <2>1. v = u \/ v < u \/ u < v
    BY <1>2
  <2>2. (<<v, u>> \in B <=> v < u) /\ (<<u, v>> \in B <=> u < v)
    BY <1>8
  <2> QED BY <2>1, <2>2
<1>10. k.below = B
  BY <1>1
<1> HIDE DEF B
<1>11. \A v, u \in k.values : v = u \/ <<v, u>> \in k.below \/ <<u, v>> \in k.below
  BY <1>1, <1>9, <1>10
<1>12. \A v, u \in k.values :
         <<v, u>> \in k.below =>
           \E i \in 1..w : /\ \A j \in 1..i - 1 : k.encode[v][j] = k.encode[u][j]
                           /\ k.encode[v][i] < k.encode[u][i]
  BY <1>1, <1>5, <1>8, <1>10
<1>13. /\ DOMAIN k.decode = Seq(Byte) /\ k.decode = [b \in Seq(Byte) |-> k.decode[b]]
       /\ \A b \in Seq(Byte) : Len(b) < w => k.decode[b] = Fails("Truncated")
  BY <1>1, <1>6
<1>14. \A b \in Seq(Byte) :
         w <= Len(b) =>
           \/ k.decode[b] = Fails("Malformed") /\ \A v \in k.values : k.encode[v] # SubSeq(b, 1, w)
           \/ \E v \in k.values : k.decode[b] = Ok(v, w) /\ k.encode[v] = SubSeq(b, 1, w)
  BY <1>1, <1>6
<1>15. Laws(k, Byte)
  BY <1>1, <1>2, <1>7, <1>11, <1>12, <1>13, <1>14, FixedWidth
<1> QED BY <1>15 DEF k

\* Booleans: one byte, and no other than the two is taken for one (bool).
THEOREM BoolLawful == Laws(bool, Byte)
<1> DEFINE k == bool
<1>1. /\ k.values = BOOLEAN /\ k.below = {<<FALSE, TRUE>>} /\ k.max = 1
      /\ k.encode = [v \in BOOLEAN |-> <<IF v THEN 1 ELSE 0>>]
      /\ k.decode = [b \in Seq(Byte) |-> decode_bool(b)]
  BY DEF bool
<1> HIDE DEF k
<1>2. k.encode[TRUE] = <<1>> /\ k.encode[FALSE] = <<0>>
  BY <1>1
<1>3. 0 \in Byte /\ 1 \in Byte
  BY ByteIs
<1>4. k.encode \in [k.values -> Seq(Byte)] /\ \A v \in k.values : Len(k.encode[v]) = 1
  BY <1>1, <1>3
<1>5. \A v, u \in k.values : v = u \/ <<v, u>> \in k.below \/ <<u, v>> \in k.below
  BY <1>1
<1>6. \A v, u \in k.values :
        <<v, u>> \in k.below =>
          \E i \in 1..1 : /\ \A j \in 1..i - 1 : k.encode[v][j] = k.encode[u][j]
                          /\ k.encode[v][i] < k.encode[u][i]
  <2> SUFFICES ASSUME NEW v \in k.values, NEW u \in k.values, <<v, u>> \in k.below
               PROVE  /\ \A j \in 1..1 - 1 : k.encode[v][j] = k.encode[u][j]
                      /\ k.encode[v][1] < k.encode[u][1]
    OBVIOUS
  <2>1. v = FALSE /\ u = TRUE
    BY <1>1
  <2>2. k.encode[v][1] = 0 /\ k.encode[u][1] = 1
    <3>1. k.encode[v] = <<0>> /\ k.encode[u] = <<1>>
      BY <1>2, <2>1
    <3>2. <<0>>[1] = 0 /\ <<1>>[1] = 1
      OBVIOUS
    <3> QED BY <3>1, <3>2
  <2> QED BY <2>2
<1>7. /\ DOMAIN k.decode = Seq(Byte) /\ k.decode = [b \in Seq(Byte) |-> k.decode[b]]
  BY <1>1
<1>8. ASSUME NEW b \in Seq(Byte), Len(b) < 1 PROVE k.decode[b] = Fails("Truncated")
  <2>1. b = <<>>
    BY <1>8, LenProperties, EmptySeq
  <2> QED BY <1>1, <2>1 DEF decode_bool
<1>9. ASSUME NEW b \in Seq(Byte), 1 <= Len(b)
      PROVE  \/ k.decode[b] = Fails("Malformed") /\ \A v \in k.values : k.encode[v] # SubSeq(b, 1, 1)
             \/ \E v \in k.values : k.decode[b] = Ok(v, 1) /\ k.encode[v] = SubSeq(b, 1, 1)
  <2> DEFINE h == Head(b)
             s == SubSeq(b, 1, 1)
  <2>1. b # <<>> /\ Len(b) \in Nat
    BY <1>9, LenProperties
  <2>2. s = <<h>> /\ h \in Byte
    <3>1. b[1] \in Byte /\ h = b[1]
      BY <1>9, <2>1, ElementOfSeq
    <3>2. \A j \in 1..1 : b[j] \in Byte
      BY <3>1
    <3>3. s \in Seq(Byte) /\ Len(s) = 1 /\ s[1] = b[1]
      BY <1>9, <2>1, <3>2, SubSeqProperties
    <3> HIDE DEF s, h
    <3>4. s = <<s[1]>>
      BY <3>3
    <3> QED BY <3>1, <3>3, <3>4
  <2>3. k.decode[b] = decode_bool(b)
    BY <1>1
  <2>4. /\ h \in {0, 1} => decode_bool(b) = Ok(h = 1, 1)
        /\ h \notin {0, 1} => decode_bool(b) = Fails("Malformed")
    BY <2>1 DEF decode_bool
  <2> HIDE DEF s, h
  <2>5. CASE h = 0
    <3>1. decode_bool(b) = Ok(FALSE, 1)
      <4>1. (h = 1) = FALSE
        BY <2>5
      <4> QED BY <2>4, <2>5, <4>1
    <3> QED BY <1>1, <1>2, <2>2, <2>3, <2>5, <3>1 DEF s
  <2>6. CASE h = 1
    <3>1. decode_bool(b) = Ok(TRUE, 1)
      <4>1. (h = 1) = TRUE
        BY <2>6
      <4> QED BY <2>4, <2>6, <4>1
    <3> QED BY <1>1, <1>2, <2>2, <2>3, <2>6, <3>1 DEF s
  <2>7. CASE h \notin {0, 1}
    <3>1. \A v \in BOOLEAN : k.encode[v] # <<h>>
      <4>1. <<1>> # <<h>> /\ <<0>> # <<h>>
        BY <2>7
      <4> QED BY <1>2, <4>1
    <3> QED BY <1>1, <2>2, <2>3, <2>4, <2>7, <3>1 DEF s
  <2> QED BY <2>5, <2>6, <2>7
<1>10. Laws(k, Byte)
  BY <1>1, <1>4, <1>5, <1>6, <1>7, <1>8, <1>9, FixedWidth
<1> QED BY <1>10 DEF k

\* Arrays of bytes: themselves ([u8; N]).
THEOREM ByteArrayLawful == \A w \in Nat : Laws(byte_array(w), Byte)
<1> SUFFICES ASSUME NEW w \in Nat PROVE Laws(byte_array(w), Byte)
  OBVIOUS
<1> DEFINE k == byte_array(w)
           V == [1..w -> Byte]
           B == AscendingBytes(V)
<1>1. /\ k.values = V /\ k.below = B /\ k.max = w /\ k.encode = [v \in V |-> v]
      /\ k.decode = [b \in Seq(Byte) |-> leading(b, w)]
  BY DEF byte_array
<1>2. \A v : v \in V <=> v \in Seq(Byte) /\ Len(v) = w
  OBVIOUS
<1>3. \A v, u \in V : <<v, u>> \in B <=> memcmp(v, u)
  BY DEF AscendingBytes
<1> HIDE DEF k, V, B
<1>4. k.encode \in [k.values -> Seq(Byte)] /\ \A v \in k.values : Len(k.encode[v]) = w
  BY <1>1, <1>2
<1>5. \A v, u \in k.values : v = u \/ <<v, u>> \in k.below \/ <<u, v>> \in k.below
  <2>1. ASSUME NEW v \in V, NEW u \in V PROVE v = u \/ <<v, u>> \in B \/ <<u, v>> \in B
    <3>1. v \in Seq(Byte) /\ u \in Seq(Byte)
      BY <1>2
    <3>2. v = u \/ memcmp(v, u) \/ memcmp(u, v)
      BY <3>1, BytesCompared
    <3> QED BY <1>3, <3>2
  <2> QED BY <1>1, <2>1
<1>6. \A v, u \in k.values :
        <<v, u>> \in k.below =>
          \E i \in 1..w : /\ \A j \in 1..i - 1 : k.encode[v][j] = k.encode[u][j]
                          /\ k.encode[v][i] < k.encode[u][i]
  <2>1. ASSUME NEW v \in V, NEW u \in V, <<v, u>> \in B
        PROVE  \E i \in 1..w : (\A j \in 1..i - 1 : v[j] = u[j]) /\ v[i] < u[i]
    <3>1. Len(v) = w /\ Len(u) = w /\ memcmp(v, u)
      BY <1>2, <1>3, <2>1
    <3> QED BY <3>1 DEF memcmp
  <2>2. \A v \in V : k.encode[v] = v
    BY <1>1
  <2> QED BY <1>1, <2>1, <2>2
<1>7. /\ DOMAIN k.decode = Seq(Byte) /\ k.decode = [b \in Seq(Byte) |-> k.decode[b]]
      /\ \A b \in Seq(Byte) : Len(b) < w => k.decode[b] = Fails("Truncated")
  BY <1>1, Leading
<1>8. \A b \in Seq(Byte) :
        w <= Len(b) => \E v \in k.values : k.decode[b] = Ok(v, w) /\ k.encode[v] = SubSeq(b, 1, w)
  <2>1. ASSUME NEW b \in Seq(Byte), w <= Len(b)
        PROVE  \E v \in V : leading(b, w) = Ok(v, w) /\ v = SubSeq(b, 1, w)
    <3>1. leading(b, w) = Ok(SubSeq(b, 1, w), w) /\ SubSeq(b, 1, w) \in V
      BY <1>2, <2>1, Leading
    <3> QED BY <3>1
  <2> QED BY <1>1, <2>1
<1>9. Laws(k, Byte)
  BY <1>1, <1>4, <1>5, <1>6, <1>7, <1>8, FixedWidth
<1> QED BY <1>9 DEF k

----------------------------------------------------------------------------
(* Loops that read one thing after another.                                *)

\* Sequences of a bounded length.
LEMMA Bounded ==
  ASSUME NEW S, NEW n \in Nat
  PROVE  \A v : v \in BoundedSeq(S, n) <=> v \in Seq(S) /\ Len(v) <= n
<1>1. ASSUME NEW v \in BoundedSeq(S, n) PROVE v \in Seq(S) /\ Len(v) <= n
  <2>1. PICK m \in 0..n : v \in [1..m -> S]
    BY DEF BoundedSeq, SeqOf
  <2>2. m \in Nat /\ m <= n
    BY SMTT(30)
  <2> QED BY <2>1, <2>2
<1>2. ASSUME NEW v \in Seq(S), Len(v) <= n PROVE v \in BoundedSeq(S, n)
  <2>1. Len(v) \in 0..n /\ v \in [1..Len(v) -> S]
    BY <1>2, LenProperties
  <2> QED BY <2>1 DEF BoundedSeq, SeqOf
<1> QED BY <1>1, <1>2

\* The bytes from a position on.
LEMMA FromIs ==
  ASSUME NEW b \in Seq(Byte), NEW p \in 0..Len(b)
  PROVE  /\ From(b, p) \in Seq(Byte) /\ Len(From(b, p)) = Len(b) - p
         /\ \A j \in 1..Len(b) - p : From(b, p)[j] = b[p + j]
<1> DEFINE s == From(b, p)
<1>1. Len(b) \in Nat /\ p \in Nat /\ p <= Len(b) /\ s = SubSeq(b, p + 1, Len(b))
  BY LenProperties DEF From
<1>2. \A j \in p + 1..Len(b) : b[j] \in Byte
  BY <1>1, ElementOfSeq
<1>3. CASE p = Len(b)
  <2>1. p + 1 > Len(b)
    BY <1>1, <1>3
  <2>2. s = <<>>
    BY <1>1, <2>1
  <2>3. Len(b) - p = 0
    BY <1>1, <1>3
  <2> HIDE DEF s
  <2>4. s \in Seq(Byte) /\ Len(s) = 0 /\ 1..Len(b) - p = {}
    BY <2>2, <2>3
  <2>5. \A j \in 1..Len(b) - p : s[j] = b[p + j]
    BY <2>4
  <2> QED BY <2>3, <2>4, <2>5 DEF s
<1>4. CASE p < Len(b)
  <2> DEFINE i == p + 1
  <2>1. i \in Nat /\ i >= 1 /\ i <= Len(b) /\ s = SubSeq(b, i, Len(b))
    BY <1>1, <1>4
  <2>2. \A j \in i..Len(b) : b[j] \in Byte
    BY <1>2
  <2> HIDE DEF i, s
  <2>3. s \in Seq(Byte) /\ Len(s) = Len(b) - i + 1 /\ \A j \in 1..Len(b) - i + 1 : s[j] = b[i + j - 1]
    <3> DEFINE n == Len(b)
    <3>1. n \in Nat /\ i <= n /\ s = SubSeq(b, i, n) /\ \A j \in i..n : b[j] \in Byte
      BY <1>1, <2>1, <2>2
    <3> HIDE DEF n
    <3>2. SubSeq(b, i, n) \in Seq(Byte)
      BY <2>1, <3>1, SubSeqProperties
    <3>3. Len(SubSeq(b, i, n)) = n - i + 1
      BY <2>1, <3>1, SubSeqProperties
    <3>4. \A j \in 1..n - i + 1 : SubSeq(b, i, n)[j] = b[i + j - 1]
      BY <2>1, <3>1, SubSeqProperties
    <3> QED BY <3>1, <3>2, <3>3, <3>4 DEF n
  <2>4. Len(b) - i + 1 = Len(b) - p
    BY <1>1, <2>1 DEF i
  <2>5. \A j \in 1..Len(b) - p : i + j - 1 = p + j
    BY <1>1, <2>1 DEF i
  <2> QED BY <2>3, <2>4, <2>5 DEF s
<1> QED BY <1>1, <1>3, <1>4

\* Behind the first bytes stand the others.
LEMMA FromConcat ==
  ASSUME NEW b \in Seq(Byte), NEW x \in Seq(Byte)
  PROVE  Len(b) \in 0..Len(b \o x) /\ From(b \o x, Len(b)) = x
<1> DEFINE c == b \o x
           p == Len(b)
<1>1. /\ c \in Seq(Byte) /\ Len(c) = p + Len(x) /\ \A j \in 1..Len(x) : c[p + j] = x[j]
      /\ p \in Nat /\ Len(x) \in Nat
  BY BytesJoined, LenProperties
<1> HIDE DEF c, p
<1>2. p \in 0..Len(c) /\ Len(c) - p = Len(x)
  BY <1>1
<1>3. /\ From(c, p) \in Seq(Byte) /\ Len(From(c, p)) = Len(x)
      /\ \A j \in 1..Len(x) : From(c, p)[j] = c[p + j]
  <2>1. /\ From(c, p) \in Seq(Byte) /\ Len(From(c, p)) = Len(c) - p
        /\ \A j \in 1..Len(c) - p : From(c, p)[j] = c[p + j]
    BY <1>1, <1>2, FromIs
  <2> QED BY <1>2, <2>1
<1> DEFINE f == From(c, p)
<1> HIDE DEF f
<1>4. f \in Seq(Byte) /\ Len(f) = Len(x) /\ \A j \in 1..Len(f) : f[j] = x[j]
  BY <1>1, <1>3 DEF f
<1>5. f = x
  BY <1>4, SeqEqual
<1> QED BY <1>2, <1>5 DEF f, c, p

\* The beginning of bytes, with what comes next.
LEMMA BeginningGrows ==
  ASSUME NEW b \in Seq(Byte), NEW p \in 0..Len(b), NEW s \in Seq(Byte), p + Len(s) <= Len(b),
         \A j \in 1..Len(s) : b[p + j] = s[j]
  PROVE  /\ SubSeq(b, 1, p) \in Seq(Byte) /\ Len(SubSeq(b, 1, p)) = p
         /\ SubSeq(b, 1, p + Len(s)) = SubSeq(b, 1, p) \o s
<1> DEFINE n == p + Len(s)
           u == SubSeq(b, 1, p)
           v == SubSeq(b, 1, n)
<1>1. Len(b) \in Nat /\ Len(s) \in Nat /\ p \in Nat /\ p <= n /\ n <= Len(b) /\ n \in Nat
  BY LenProperties
<1>2. n = p + Len(s)
  OBVIOUS
<1> HIDE DEF n
<1>3. \A j \in 1..Len(b) : b[j] \in Byte
  BY ElementOfSeq
<1>4. u \in Seq(Byte) /\ Len(u) = p /\ \A j \in 1..p : u[j] = b[j]
  <2>1. \A j \in 1..p : b[j] \in Byte
    BY <1>1, <1>3
  <2> QED BY <1>1, <2>1, SubSeqProperties
<1>5. v \in Seq(Byte) /\ Len(v) = n /\ \A j \in 1..n : v[j] = b[j]
  <2>1. \A j \in 1..n : b[j] \in Byte
    BY <1>1, <1>3
  <2> QED BY <1>1, <2>1, SubSeqProperties
<1> HIDE DEF u, v
<1> DEFINE w == u \o s
<1>6. /\ w \in Seq(Byte) /\ Len(w) = n
      /\ \A j \in 1..p : w[j] = u[j]
      /\ \A j \in 1..Len(s) : w[p + j] = s[j]
  BY <1>2, <1>4, BytesJoined
<1> HIDE DEF w
<1>7. \A j \in 1..n : v[j] = w[j]
  <2> SUFFICES ASSUME NEW j \in 1..n PROVE v[j] = w[j]
    OBVIOUS
  <2>1. CASE j <= p
    <3>1. j \in 1..p
      BY <1>1, <2>1
    <3> QED BY <1>4, <1>5, <1>6, <3>1
  <2>2. CASE ~(j <= p)
    <3>1. j - p \in 1..Len(s) /\ p + (j - p) = j
      BY <1>1, <1>2, <2>2
    <3>2. b[p + (j - p)] = s[j - p] /\ w[p + (j - p)] = s[j - p]
      BY <1>6, <3>1
    <3> QED BY <1>5, <3>1, <3>2
  <2> QED BY <2>1, <2>2
<1>8. v = w
  BY <1>5, <1>6, <1>7, SeqEqual
<1> QED BY <1>4, <1>8 DEF u, v, w, n

\* One piece in the middle of others.
Around(p, q, r, z) ==
  /\ (p \o (q \o r)) \o z = p \o (q \o (r \o z))
  /\ r \o z \in Seq(Byte) /\ q \o (r \o z) \in Seq(Byte)

\* All byte strings may be regrouped around the middle.
LEMMA RegroupAround ==
  ASSUME NEW p \in Seq(Byte), NEW q \in Seq(Byte), NEW r \in Seq(Byte), NEW z \in Seq(Byte)
  PROVE  Around(p, q, r, z)
<1>1. PICK m \in Seq(Byte) : m = q \o r
  BY BytesJoined
<1>2. r \o z \in Seq(Byte)
  BY BytesJoined
<1>3. q \o (r \o z) \in Seq(Byte)
  BY <1>2, BytesJoined
<1>4. Assoc(p, m, z) /\ Assoc(q, r, z)
  BY Regroup
<1> QED BY <1>1, <1>2, <1>3, <1>4 DEF Around, Assoc

\* After the same beginning the next pieces decide, and those behind them.
LEMMA OrderAround ==
  ASSUME NEW p \in Seq(Byte), NEW q \in Seq(Byte), NEW r \in Seq(Byte), NEW x \in Seq(Byte),
         NEW u \in Seq(Byte), NEW v \in Seq(Byte), NEW y \in Seq(Byte),
         memcmp(q \o (r \o x), u \o (v \o y))
  PROVE  memcmp((p \o (q \o r)) \o x, (p \o (u \o v)) \o y)
<1>1. /\ (p \o (q \o r)) \o x = p \o (q \o (r \o x))
      /\ q \o (r \o x) \in Seq(Byte)
  <2>1. Around(p, q, r, x)
    BY RegroupAround
  <2> QED BY <2>1 DEF Around
<1>2. /\ (p \o (u \o v)) \o y = p \o (u \o (v \o y))
      /\ u \o (v \o y) \in Seq(Byte)
  <2>1. Around(p, u, v, y)
    BY RegroupAround
  <2> QED BY <2>1 DEF Around
<1>3. memcmp(p \o (q \o (r \o x)), p \o (u \o (v \o y)))
  BY <1>1, <1>2, AfterSame
<1> QED BY <1>1, <1>2, <1>3

\* An order that is decided behind a common beginning is that of the whole.
LEMMA OrderAtEnd ==
  ASSUME NEW p \in Seq(Byte), NEW x \in Seq(Byte),
         NEW u \in Seq(Byte), NEW v \in Seq(Byte), NEW y \in Seq(Byte),
         memcmp(x, u \o (v \o y))
  PROVE  memcmp(p \o x, (p \o (u \o v)) \o y)
<1>1. /\ (p \o (u \o v)) \o y = p \o (u \o (v \o y))
      /\ u \o (v \o y) \in Seq(Byte)
  <2>1. Around(p, u, v, y)
    BY RegroupAround
  <2> QED BY <2>1 DEF Around
<1>2. memcmp(p \o x, p \o (u \o (v \o y)))
  BY <1>1, AfterSame
<1> QED BY <1>1, <1>2

\* Where the first difference of two sequences of byte strings is decides.
LEMMA FlattenOrder ==
  ASSUME NEW s \in Seq(Seq(Byte)), NEW t \in Seq(Seq(Byte)), NEW x \in Seq(Byte), NEW y \in Seq(Byte),
         NEW i \in 1..Len(t), i <= Len(s) + 1, \A j \in 1..i - 1 : s[j] = t[j],
         i <= Len(s) =>
           memcmp(s[i] \o (FlattenSeq(SubSeq(s, i + 1, Len(s))) \o x),
                  t[i] \o (FlattenSeq(SubSeq(t, i + 1, Len(t))) \o y)),
         i = Len(s) + 1 => memcmp(x, t[i] \o (FlattenSeq(SubSeq(t, i + 1, Len(t))) \o y))
  PROVE  memcmp(FlattenSeq(s) \o x, FlattenSeq(t) \o y)
<1> DEFINE p == FlattenSeq(SubSeq(t, 1, i - 1))
           tt == FlattenSeq(SubSeq(t, i + 1, Len(t)))
           ss == FlattenSeq(SubSeq(s, i + 1, Len(s)))
<1>1. Len(s) \in Nat /\ Len(t) \in Nat
  BY LenProperties
<1>2. t[i] \in Seq(Byte)
  BY ElementOfSeq
<1>3. p \in Seq(Byte) /\ tt \in Seq(Byte) /\ FlattenSeq(t) = p \o (t[i] \o tt)
  BY FlattenAround
<1>5. CASE i <= Len(s)
  <2>1. i \in 1..Len(s)
    BY <1>1, <1>5
  <2>2. s[i] \in Seq(Byte) /\ ss \in Seq(Byte)
        /\ FlattenSeq(s) = FlattenSeq(SubSeq(s, 1, i - 1)) \o (s[i] \o ss)
    BY <2>1, ElementOfSeq, FlattenAround
  <2>3. SubSeq(s, 1, i - 1) = SubSeq(t, 1, i - 1)
    <3> DEFINE a == SubSeq(s, 1, i - 1)
               c == SubSeq(t, 1, i - 1)
    <3>1. a \in Seq(Seq(Byte)) /\ Len(a) = i - 1 /\ \A j \in 1..i - 1 : a[j] = s[j]
      BY <2>1, Parted
    <3>2. c \in Seq(Seq(Byte)) /\ Len(c) = i - 1 /\ \A j \in 1..i - 1 : c[j] = t[j]
      BY Parted
    <3> HIDE DEF a, c
    <3>3. \A j \in 1..Len(a) : a[j] = c[j]
      BY <3>1, <3>2
    <3>4. a = c
      BY <3>1, <3>2, <3>3, SeqEqual
    <3> QED BY <3>4 DEF a, c
  <2>4. FlattenSeq(s) = p \o (s[i] \o ss)
    BY <2>2, <2>3
  <2>5. memcmp(s[i] \o (ss \o x), t[i] \o (tt \o y))
    BY <1>5
  <2> HIDE DEF p, ss, tt
  <2>6. memcmp((p \o (s[i] \o ss)) \o x, (p \o (t[i] \o tt)) \o y)
    BY <1>2, <1>3, <2>2, <2>5, OrderAround
  <2> QED BY <1>3, <2>4, <2>6
<1>6. CASE i = Len(s) + 1
  <2>1. s = SubSeq(t, 1, i - 1)
    <3> DEFINE c == SubSeq(t, 1, i - 1)
    <3>1. c \in Seq(Seq(Byte)) /\ Len(c) = i - 1 /\ \A j \in 1..i - 1 : c[j] = t[j]
      BY Parted
    <3> HIDE DEF c
    <3>2. i - 1 = Len(s)
      BY <1>1, <1>6
    <3>3. \A j \in 1..Len(s) : s[j] = c[j]
      BY <3>1, <3>2
    <3>4. s = c
      BY <3>1, <3>2, <3>3, SeqEqual
    <3> QED BY <3>4 DEF c
  <2>2. FlattenSeq(s) = p
    BY <2>1
  <2>3. memcmp(x, t[i] \o (tt \o y))
    BY <1>6
  <2> HIDE DEF p, tt
  <2>4. memcmp(p \o x, (p \o (t[i] \o tt)) \o y)
    BY <1>2, <1>3, <2>3, OrderAtEnd
  <2> QED BY <1>3, <2>2, <2>4
<1> QED BY <1>1, <1>5, <1>6

\* Pieces of a bounded length put one after the other have a bounded length.
LEMMA FlattenBound ==
  ASSUME NEW S, NEW m \in Nat, NEW s \in Seq(Seq(S)), \A i \in 1..Len(s) : Len(s[i]) <= m
  PROVE  Len(FlattenSeq(s)) <= Len(s) * m
<1> DEFINE P(n) == \A u \in Seq(Seq(S)) :
                     Len(u) = n /\ (\A i \in 1..Len(u) : Len(u[i]) <= m) =>
                       Len(FlattenSeq(u)) <= n * m
           T == {n \in Nat : P(n)}
<1>1. 0 \in T
  <2>1. ASSUME NEW u \in Seq(Seq(S)), Len(u) = 0 PROVE Len(FlattenSeq(u)) <= 0 * m
    <3>1. u = <<>>
      BY <2>1, EmptySeq
    <3>2. FlattenSeq(u) = <<>>
      BY <3>1, FlattenStep
    <3> QED BY <3>2
  <2> QED BY <2>1
<1>2. ASSUME NEW n \in T PROVE n + 1 \in T
  <2>1. ASSUME NEW u \in Seq(Seq(S)), Len(u) = n + 1, \A i \in 1..Len(u) : Len(u[i]) <= m
        PROVE  Len(FlattenSeq(u)) <= (n + 1) * m
    <3>1. PICK r \in Seq(Seq(S)), c \in Seq(S) : u = Append(r, c) /\ Len(r) = n
      <4>1. n \in Nat
        OBVIOUS
      <4> QED BY <2>1, <4>1, LastApart
    <3>2. \A i \in 1..Len(r) : i \in 1..Len(u) /\ u[i] = r[i]
      BY <2>1, <3>1, AppendProperties
    <3>3. n + 1 \in 1..Len(u) /\ u[n + 1] = c
      BY <2>1, <3>1, AppendProperties
    <3>4. Len(c) <= m /\ \A i \in 1..Len(r) : Len(r[i]) <= m
      BY <2>1, <3>2, <3>3
    <3>5. P(n)
      OBVIOUS
    <3>6. Len(FlattenSeq(r)) <= n * m
      BY <3>1, <3>4, <3>5
    <3>7. FlattenSeq(u) = FlattenSeq(r) \o c /\ FlattenSeq(r) \in Seq(S)
      BY <3>1, FlattenStep
    <3>8. Len(FlattenSeq(u)) = Len(FlattenSeq(r)) + Len(c)
      BY <3>7, ConcatProperties
    <3>9. (n + 1) * m = n * m + m /\ n * m \in Nat
      BY SMTT(30)
    <3> QED BY <3>4, <3>6, <3>7, <3>8, <3>9, LenProperties
  <2>2. n + 1 \in Nat
    OBVIOUS
  <2> QED BY <2>1, <2>2
<1>3. T = Nat
  <2> HIDE DEF T
  <2>1. T \in SUBSET Nat
    BY DEF T
  <2> QED BY <1>1, <1>2, <2>1, NaturalsFrom
<1>4. Len(s) \in T
  BY <1>3, LenProperties
<1> QED BY <1>4

----------------------------------------------------------------------------
(* Text.                                                                   *)

\* The escaped bytes of a text, before its terminator.
Pieces(t) == [i \in DOMAIN t |-> escaped(t[i])]
Flat(t) == FlattenSeq(Pieces(t))

\* A byte of a text is written as itself, with FF behind it if it is a zero.
LEMMA Escaped ==
  ASSUME NEW b \in Byte
  PROVE  /\ escaped(b) \in Seq(Byte) /\ escaped(b)[1] = b
         /\ 1 \in 1..Len(escaped(b)) /\ Len(escaped(b)) >= 1 /\ Len(escaped(b)) <= 2
         /\ b = 0 => escaped(b) = <<0, FF>>
         /\ b # 0 => escaped(b) = <<b>>
<1>1. CASE b = 0
  <2>1. escaped(b) = <<0, FF>>
    BY <1>1 DEF escaped
  <2>2. 0 \in Byte /\ FF \in Byte
    BY ByteIs
  <2>3. <<0, FF>> \in Seq(Byte) /\ Len(<<0, FF>>) = 2 /\ <<0, FF>>[1] = 0
    BY <2>2
  <2>4. escaped(b) \in Seq(Byte) /\ Len(escaped(b)) = 2 /\ escaped(b)[1] = b
    BY <1>1, <2>1, <2>3
  <2>5. 1 \in 1..2 /\ 2 >= 1 /\ 2 <= 2
    OBVIOUS
  <2>6. /\ escaped(b) \in Seq(Byte) /\ escaped(b)[1] = b
        /\ 1 \in 1..Len(escaped(b)) /\ Len(escaped(b)) >= 1 /\ Len(escaped(b)) <= 2
    BY <2>4, <2>5
  <2> QED BY <1>1, <2>1, <2>6, Zenon
<1>2. CASE b # 0
  <2>1. escaped(b) = <<b>>
    BY <1>2 DEF escaped
  <2>2. <<b>> \in Seq(Byte) /\ Len(<<b>>) = 1 /\ <<b>>[1] = b
    OBVIOUS
  <2> QED BY <1>2, <2>1, <2>2
<1> QED BY <1>1, <1>2

\* The bytes of a text are its bytes' pieces one after the other and the terminator.
LEMMA TextPieces ==
  ASSUME NEW t \in Seq(Byte)
  PROVE  /\ Pieces(t) \in Seq(Seq(Byte)) /\ Len(Pieces(t)) = Len(t)
         /\ \A i \in 1..Len(t) : Pieces(t)[i] = escaped(t[i])
         /\ Flat(t) \in Seq(Byte)
         /\ escape(t) = Flat(t) \o <<0>>
<1>1. DOMAIN t = 1..Len(t) /\ Len(t) \in Nat
  BY LenProperties
<1>2. \A i \in 1..Len(t) : escaped(t[i]) \in Seq(Byte)
  BY ElementOfSeq, Escaped
<1>3. Pieces(t) = [i \in 1..Len(t) |-> escaped(t[i])]
  BY <1>1 DEF Pieces
<1>4. /\ Pieces(t) \in Seq(Seq(Byte)) /\ Len(Pieces(t)) = Len(t)
      /\ \A i \in 1..Len(t) : Pieces(t)[i] = escaped(t[i])
  BY <1>1, <1>2, <1>3
<1>5. Flat(t) \in Seq(Byte)
  BY <1>4, FlattenStep DEF Flat
<1>6. escape(t) = Flat(t) \o <<0>>
  BY DEF escape, Flat, Pieces
<1> QED BY <1>4, <1>5, <1>6

\* The bytes of a longer text end with those of its last byte.
LEMMA FlatAppend ==
  /\ Flat(<<>>) = <<>>
  /\ \A t \in Seq(Byte), c \in Byte : Flat(Append(t, c)) = Flat(t) \o escaped(c)
<1>1. Flat(<<>>) = <<>>
  <2>1. <<>> \in Seq(Byte) /\ Len(<<>>) = 0
    OBVIOUS
  <2>2. Pieces(<<>>) \in Seq(Seq(Byte)) /\ Len(Pieces(<<>>)) = 0
    BY <2>1, TextPieces
  <2>3. Pieces(<<>>) = <<>>
    BY <2>2, EmptySeq
  <2> QED BY <2>2, <2>3, FlattenStep DEF Flat
<1>2. ASSUME NEW t \in Seq(Byte), NEW c \in Byte PROVE Flat(Append(t, c)) = Flat(t) \o escaped(c)
  <2>1. PICK u \in Seq(Byte) : u = Append(t, c)
    BY AppendProperties
  <2>2. Len(u) = Len(t) + 1 /\ (\A i \in 1..Len(t) : u[i] = t[i]) /\ u[Len(t) + 1] = c /\ Len(t) \in Nat
    BY <2>1, AppendProperties, LenProperties
  <2>3. PICK p \in Seq(Seq(Byte)) : p = Pieces(t) /\ Len(p) = Len(t) /\ \A i \in 1..Len(t) : p[i] = escaped(t[i])
    BY TextPieces
  <2>4. PICK q \in Seq(Seq(Byte)) : q = Pieces(u) /\ Len(q) = Len(u) /\ \A i \in 1..Len(u) : q[i] = escaped(u[i])
    BY TextPieces
  <2>5. PICK e \in Seq(Byte) : e = escaped(c)
    BY Escaped
  <2>6. PICK r \in Seq(Seq(Byte)) : r = Append(p, e)
    BY AppendProperties
  <2>7. Len(r) = Len(t) + 1 /\ (\A i \in 1..Len(t) : r[i] = p[i]) /\ r[Len(t) + 1] = e
    BY <2>3, <2>6, AppendProperties
  <2>8. \A i \in 1..Len(q) : q[i] = r[i]
    <3> SUFFICES ASSUME NEW i \in 1..Len(t) + 1 PROVE q[i] = r[i]
      BY <2>2, <2>4
    <3>1. CASE i \in 1..Len(t)
      BY <2>2, <2>3, <2>4, <2>7, <3>1
    <3>2. CASE i = Len(t) + 1
      <4>1. i \in 1..Len(u)
        BY <2>2
      <4> QED BY <2>2, <2>4, <2>5, <2>7, <3>2, <4>1
    <3> QED BY <2>2, <3>1, <3>2
  <2>9. q = r
    BY <2>2, <2>4, <2>7, <2>8, SeqEqual
  <2>10. FlattenSeq(q) = FlattenSeq(p) \o e
    BY <2>6, <2>9, FlattenStep
  <2> QED BY <2>1, <2>3, <2>4, <2>5, <2>10 DEF Flat
<1> QED BY <1>1, <1>2

\* A text needs no more than two bytes for each of its own, and one.
LEMMA TextFits ==
  ASSUME NEW t \in Seq(Byte)
  PROVE  escape(t) \in Seq(Byte) /\ Len(escape(t)) = Len(Flat(t)) + 1 /\ Len(escape(t)) <= 2 * Len(t) + 1
<1>1. PICK p \in Seq(Seq(Byte)) : /\ p = Pieces(t) /\ Len(p) = Len(t)
                                  /\ \A i \in 1..Len(t) : p[i] = escaped(t[i])
  BY TextPieces
<1>2. \A i \in 1..Len(p) : Len(p[i]) <= 2
  <2> SUFFICES ASSUME NEW i \in 1..Len(t) PROVE Len(escaped(t[i])) <= 2
    BY <1>1
  <2>1. t[i] \in Byte
    BY ElementOfSeq
  <2> QED BY <2>1, Escaped
<1>3. Len(FlattenSeq(p)) <= Len(p) * 2
  BY <1>2, FlattenBound
<1>4. PICK f \in Seq(Byte) : f = Flat(t) /\ escape(t) = f \o <<0>>
  BY TextPieces
<1>5. <<0>> \in Seq(Byte) /\ Len(<<0>>) = 1
  BY ByteIs
<1>6. f \o <<0>> \in Seq(Byte) /\ Len(f \o <<0>>) = Len(f) + 1
  BY <1>5, BytesJoined
<1>7. Len(f) <= Len(t) * 2 /\ Len(f) \in Nat /\ Len(t) \in Nat
  BY <1>1, <1>3, <1>4, LenProperties DEF Flat
<1> QED BY <1>4, <1>6, <1>7

\* Escaped texts compare as the texts do, if no FF follows the one that ends.
LEMMA TextOrder ==
  ASSUME NEW t \in Seq(TextByte), NEW u \in Seq(TextByte), memcmp(t, u),
         NEW x \in Continues(Byte \ {FF}), NEW y \in Continues(Byte \ {FF})
  PROVE  memcmp(escape(t) \o x, escape(u) \o y)
<1>1. t \in Seq(Byte) /\ u \in Seq(Byte) /\ x \in Seq(Byte) /\ y \in Seq(Byte)
  <2>1. ASSUME NEW s \in Seq(TextByte) PROVE s \in Seq(Byte)
    <3>1. Len(s) \in Nat /\ s \in [1..Len(s) -> TextByte]
      BY LenProperties
    <3>2. s \in [1..Len(s) -> Byte]
      BY <3>1, ByteIs
    <3> QED BY <3>1, <3>2
  <2> QED BY <2>1 DEF Continues
<1>2. \A i \in 1..Len(t) : t[i] \in Byte /\ t[i] \in Nat
  BY <1>1, ElementOfSeq, ByteIs
<1>3. \A i \in 1..Len(u) : u[i] \in Byte /\ u[i] \in Nat
  BY <1>1, ElementOfSeq, ByteIs
<1>4. PICK p \in Seq(Seq(Byte)) : /\ p = Pieces(t) /\ Len(p) = Len(t)
                                  /\ \A i \in 1..Len(t) : p[i] = escaped(t[i])
  BY <1>1, TextPieces
<1>5. PICK q \in Seq(Seq(Byte)) : /\ q = Pieces(u) /\ Len(q) = Len(u)
                                  /\ \A i \in 1..Len(u) : q[i] = escaped(u[i])
  BY <1>1, TextPieces
<1>6. PICK i \in 1..Len(u) : /\ i <= Len(t) + 1 /\ \A j \in 1..i - 1 : t[j] = u[j]
                             /\ i <= Len(t) => t[i] < u[i]
  BY DEF memcmp
<1>7. Len(t) \in Nat /\ Len(u) \in Nat /\ i \in Nat
  BY <1>1, LenProperties
<1>8. PICK z \in Seq(Byte) : z = <<0>>
  <2>1. 0 \in Byte
    BY ByteIs
  <2>2. <<0>> \in Seq(Byte)
    BY <2>1
  <2> QED BY <2>2
<1>9. PICK X \in Seq(Byte) : X = z \o x
  BY <1>1, BytesJoined
<1>10. PICK Y \in Seq(Byte) : Y = z \o y
  BY <1>1, BytesJoined
<1>11. i \in 1..Len(q) /\ i <= Len(p) + 1 /\ \A j \in 1..i - 1 : p[j] = q[j]
  <2>1. \A j \in 1..i - 1 : j \in 1..Len(t) /\ j \in 1..Len(u)
    BY <1>6, <1>7
  <2> QED BY <1>4, <1>5, <1>6, <2>1
<1>12. PICK qq \in Seq(Byte) : qq = FlattenSeq(SubSeq(q, i + 1, Len(q)))
  BY <1>11, FlattenAround
<1>13. PICK Q \in Seq(Byte) : Q = qq \o Y
  BY BytesJoined
<1>14. PICK e \in Seq(Byte) : /\ e = escaped(u[i]) /\ Len(e) >= 1 /\ e[1] = u[i] /\ q[i] = e
                              /\ u[i] = 0 => e = <<0, FF>>
  BY <1>3, <1>5, Escaped
<1>15. ASSUME i <= Len(p)
       PROVE  memcmp(p[i] \o (FlattenSeq(SubSeq(p, i + 1, Len(p))) \o X), q[i] \o Q)
  <2>1. i \in 1..Len(p) /\ i \in 1..Len(t) /\ t[i] < u[i]
    BY <1>4, <1>6, <1>7, <1>15
  <2>2. PICK pp \in Seq(Byte) : pp = FlattenSeq(SubSeq(p, i + 1, Len(p)))
    BY <2>1, FlattenAround
  <2>3. PICK P \in Seq(Byte) : P = pp \o X
    BY BytesJoined
  <2>4. PICK d \in Seq(Byte) : d = escaped(t[i]) /\ 1 \in 1..Len(d) /\ d[1] = t[i] /\ p[i] = d
    BY <1>2, <1>4, <2>1, Escaped
  <2>5. 1 \in 1..Len(d) /\ Len(e) >= 1 /\ d[1] < e[1]
    BY <1>14, <2>1, <2>4
  <2>6. memcmp(d \o P, e \o Q)
    BY <2>5, DecidedAtOnce
  <2> QED BY <1>14, <2>2, <2>3, <2>4, <2>6
<1>16. ASSUME i = Len(p) + 1 PROVE memcmp(X, q[i] \o Q)
  <2>1. CASE u[i] # 0
    <3>1. PICK d \in Seq(Byte) : d = <<0>> /\ d = z
      BY <1>8
    <3>2. Len(d) = 1 /\ d[1] = 0 /\ u[i] > 0
      BY <1>3, <2>1, <3>1
    <3>3. 1 \in 1..Len(d) /\ Len(e) >= 1 /\ d[1] < e[1]
      BY <1>14, <3>2
    <3>4. memcmp(d \o x, e \o Q)
      BY <1>1, <3>3, DecidedAtOnce
    <3> QED BY <1>9, <1>14, <3>1, <3>4
  <2>2. CASE u[i] = 0
    <3>1. PICK f \in Seq(Byte) : f = <<FF>> /\ Len(f) = 1 /\ f[1] = FF
      <4>1. FF \in Byte
        BY ByteIs
      <4>2. <<FF>> \in Seq(Byte) /\ Len(<<FF>>) = 1 /\ <<FF>>[1] = FF
        BY <4>1
      <4> QED BY <4>2
    <3>2. PICK c \in Seq(Byte) : c = f \o Q /\ 1 \in 1..Len(c) /\ c[1] = FF
      <4>1. f \o Q \in Seq(Byte) /\ Len(f \o Q) = Len(f) + Len(Q) /\ \A j \in 1..Len(f) : (f \o Q)[j] = f[j]
        BY BytesJoined
      <4>2. Len(Q) \in Nat /\ 1 \in 1..Len(f)
        BY <3>1, LenProperties
      <4>3. 1 \in 1..Len(f \o Q) /\ (f \o Q)[1] = FF
        BY <3>1, <4>1, <4>2
      <4> QED BY <4>1, <4>3
    <3>3. 1 <= Len(x) => x[1] < FF
      <4>1. ASSUME 1 <= Len(x) PROVE x[1] < FF
        <5>1. x # <<>>
          BY <4>1
        <5>2. x[1] \in Byte \ {FF}
          BY <5>1 DEF Continues
        <5> QED BY <5>2, ByteIs DEF Byte, FF
      <4> QED BY <4>1
    <3>4. memcmp(x, c)
      <4>1. 1 <= Len(x) + 1 /\ \A j \in 1..1 - 1 : x[j] = c[j]
        BY <1>1, LenProperties
      <4> QED BY <3>2, <3>3, <4>1 DEF memcmp
    <3>5. memcmp(z \o x, z \o c)
      BY <1>1, <3>4, AfterSame
    <3>6. e = z \o f
      <4>1. <<0, FF>> = <<0>> \o <<FF>>
        OBVIOUS
      <4> QED BY <1>8, <1>14, <2>2, <3>1, <4>1
    <3>7. Assoc(z, f, Q)
      BY Regroup
    <3> QED BY <1>9, <1>14, <3>2, <3>5, <3>6, <3>7 DEF Assoc
  <2> QED BY <2>1, <2>2
<1>17. memcmp(FlattenSeq(p) \o X, FlattenSeq(q) \o Y)
  BY <1>11, <1>12, <1>13, <1>15, <1>16, FlattenOrder
<1>18. PICK ft \in Seq(Byte) : ft = FlattenSeq(p) /\ escape(t) = ft \o z
  BY <1>1, <1>4, <1>8, TextPieces DEF Flat
<1>19. PICK fu \in Seq(Byte) : fu = FlattenSeq(q) /\ escape(u) = fu \o z
  BY <1>1, <1>5, <1>8, TextPieces DEF Flat
<1>20. (ft \o z) \o x = ft \o (z \o x) /\ (fu \o z) \o y = fu \o (z \o y)
  <2>1. Assoc(ft, z, x) /\ Assoc(fu, z, y)
    BY <1>1, Regroup
  <2> QED BY <2>1 DEF Assoc
<1> QED BY <1>9, <1>10, <1>17, <1>18, <1>19, <1>20

\* What has been read so far, and how many bytes.
Reads(v, n) == [res |-> "reading", value |-> v, used |-> n]

\* What a reading, a success and a failure tell, and that they are told apart.
LEMMA Readings ==
  /\ Reading = Reads(<<>>, 0)
  /\ \A v, n : Reads(v, n).res = "reading" /\ Reads(v, n).value = v /\ Reads(v, n).used = n
  /\ \A v, n, x, k : Read(Reads(v, n), x, k) = Reads(Append(v, x), n + k)
  /\ \A v, n, w, m : Reads(v, n) = Reads(w, m) => v = w /\ n = m
  /\ \A v, n : Ok(v, n).res # "reading"
  /\ \A e \in Errors : Fails(e).res # "reading"
<1>1. \A v, n, x, k : Read(Reads(v, n), x, k) = Reads(Append(v, x), n + k)
  BY DEF Read, Reads
<1>2. \A v, n : Ok(v, n).res # "reading"
  BY DEF Ok
<1>3. \A e \in Errors : Fails(e).res # "reading"
  BY DEF Fails, Errors
<1> QED BY <1>1, <1>2, <1>3 DEF Reading, Reads

\* The loop that reads a text stays where its turns do.
ReadsText(f, b, cap) ==
  f = [n \in Nat |-> IF n = 0 THEN Reading
                     ELSE IF f[n - 1].res = "reading" THEN next_byte(b, cap, f[n - 1])
                     ELSE f[n - 1]]

TextLoops(b, cap, X) ==
  \E f \in [Nat -> X] :
    /\ f[0] = Reading
    /\ \A n \in Nat : f[n + 1] = IF f[n].res = "reading" THEN next_byte(b, cap, f[n]) ELSE f[n]
    /\ unescape(b, cap) = f[Len(b) + 1]

\* What every turn of the text's loop keeps holds when the loop has ended.
LEMMA TextLoop ==
  ASSUME NEW b, NEW cap, NEW X, Reading \in X,
         \A so \in X : so.res = "reading" => next_byte(b, cap, so) \in X
  PROVE  TextLoops(b, cap, X)
<1> DEFINE turn == [so \in X |-> IF so.res = "reading" THEN next_byte(b, cap, so) ELSE so]
           step == [n \in Nat |-> turn]
           g == CHOOSE f : ReadsText(f, b, cap)
<1>1. turn \in [X -> X] /\ \A so \in X : turn[so] = IF so.res = "reading" THEN next_byte(b, cap, so) ELSE so
  OBVIOUS
<1> HIDE DEF turn
<1>2. step \in [Nat -> [X -> X]] /\ \A n \in Nat : step[n] = turn
  BY <1>1
<1> HIDE DEF step
<1>3. PICK f \in [Nat -> X] : f[0] = Reading /\ \A n \in Nat : f[n + 1] = step[n + 1][f[n]]
  <2>1. Recurs(X)
    BY Recursion
  <2> QED BY <1>2, <2>1 DEF Recurs
<1>4. \A n \in Nat : f[n + 1] = IF f[n].res = "reading" THEN next_byte(b, cap, f[n]) ELSE f[n]
  <2> SUFFICES ASSUME NEW n \in Nat
               PROVE  f[n + 1] = IF f[n].res = "reading" THEN next_byte(b, cap, f[n]) ELSE f[n]
    OBVIOUS
  <2>1. n + 1 \in Nat /\ f[n] \in X /\ f[n + 1] = step[n + 1][f[n]]
    BY <1>3
  <2>2. f[n + 1] = turn[f[n]]
    BY <1>2, <2>1
  <2> QED BY <1>1, <2>1, <2>2
<1>5. ReadsText(f, b, cap)
  <2>1. ASSUME NEW n \in Nat, n # 0
        PROVE  f[n] = IF f[n - 1].res = "reading" THEN next_byte(b, cap, f[n - 1]) ELSE f[n - 1]
    <3>1. n - 1 \in Nat /\ (n - 1) + 1 = n
      BY <2>1
    <3>2. f[(n - 1) + 1] = IF f[n - 1].res = "reading" THEN next_byte(b, cap, f[n - 1]) ELSE f[n - 1]
      BY <1>4, <3>1
    <3> QED BY <3>1, <3>2
  <2>2. f = [n \in Nat |-> f[n]]
    BY <1>3
  <2>3. \A n \in Nat : f[n] = IF n = 0 THEN Reading
                              ELSE IF f[n - 1].res = "reading" THEN next_byte(b, cap, f[n - 1])
                              ELSE f[n - 1]
    BY <1>3, <2>1
  <2> QED BY <2>2, <2>3 DEF ReadsText
<1>6. ReadsText(g, b, cap)
  BY <1>5
<1>7. unescape(b, cap) = g[Len(b) + 1]
  BY DEF unescape, ReadsText
<1> HIDE DEF g
<1>8. g = f
  <2> DEFINE T == {n \in Nat : g[n] = f[n]}
  <2>0. \A n \in Nat : g[n] = IF n = 0 THEN Reading
                              ELSE IF g[n - 1].res = "reading" THEN next_byte(b, cap, g[n - 1])
                              ELSE g[n - 1]
    BY <1>6 DEF ReadsText
  <2>1. 0 \in T
    BY <1>3, <2>0
  <2>2. ASSUME NEW n \in T PROVE n + 1 \in T
    <3>1. n + 1 \in Nat /\ n + 1 # 0 /\ (n + 1) - 1 = n
      OBVIOUS
    <3>2. g[n + 1] = IF g[n].res = "reading" THEN next_byte(b, cap, g[n]) ELSE g[n]
      BY <2>0, <3>1
    <3>3. g[n] = f[n] /\ n \in Nat
      OBVIOUS
    <3> HIDE DEF T
    <3>4. g[n + 1] = f[n + 1]
      BY <1>4, <3>2, <3>3
    <3> QED BY <3>1, <3>4 DEF T
  <2>3. T = Nat
    <3> HIDE DEF T
    <3>1. T \in SUBSET Nat
      BY DEF T
    <3> QED BY <2>1, <2>2, <3>1, NaturalsFrom
  <2>4. \A n \in Nat : g[n] = f[n]
    BY <2>3
  <2>5. g = [n \in Nat |-> g[n]] /\ f = [n \in Nat |-> f[n]]
    BY <1>3, <1>6 DEF ReadsText
  <2> QED BY <2>4, <2>5
<1> QED BY <1>3, <1>4, <1>7, <1>8 DEF TextLoops

\* A byte of the text is read with its escape.
ReadsByte(b, cap, v, n, c, R) ==
  From(b, n) = escaped(c) \o R /\ Len(v) < cap =>
    next_byte(b, cap, Reads(v, n)) = Reads(Append(v, c), n + Len(escaped(c)))

\* A turn that stands before a byte's encoding reads that byte.
LEMMA ByteRead ==
  ASSUME NEW b \in Seq(Byte), NEW cap \in Nat, NEW v \in Seq(Byte), NEW n \in Nat,
         NEW c \in Byte, NEW R \in Seq(Byte)
  PROVE  ReadsByte(b, cap, v, n, c, R)
<1> SUFFICES ASSUME From(b, n) = escaped(c) \o R, Len(v) < cap
             PROVE  next_byte(b, cap, Reads(v, n)) = Reads(Append(v, c), n + Len(escaped(c)))
  BY DEF ReadsByte
<1>1. PICK e \in Seq(Byte) : /\ e = escaped(c) /\ e[1] = c /\ Len(e) >= 1 /\ 1 \in 1..Len(e)
                             /\ c = 0 => e = <<0, FF>>
                             /\ c # 0 => e = <<c>>
  BY Escaped
<1>2. PICK rest \in Seq(Byte) : rest = From(b, n) /\ rest = e \o R
  BY <1>1, BytesJoined
<1>3. /\ Len(rest) = Len(e) + Len(R) /\ \A j \in 1..Len(e) : rest[j] = e[j]
      /\ Len(e) \in Nat /\ Len(R) \in Nat
  BY <1>2, BytesJoined, LenProperties
<1>4. rest # <<>> /\ rest[1] = c
  <2>1. rest[1] = c /\ Len(rest) # 0
    BY <1>1, <1>3
  <2> QED BY <2>1
<1> DEFINE nul == Len(rest) > 1 /\ rest[1] = 0 /\ rest[2] = FF
<1>5. (c = 0 => nul /\ Len(e) = 2) /\ (c # 0 => ~nul /\ Len(e) = 1)
  <2>1. ASSUME c = 0 PROVE nul /\ Len(e) = 2
    <3>1. Len(e) = 2 /\ e[2] = FF
      BY <1>1, <2>1
    <3>2. 2 \in 1..Len(e)
      BY <3>1
    <3> QED BY <1>3, <1>4, <2>1, <3>1, <3>2
  <2>2. ASSUME c # 0 PROVE ~nul /\ Len(e) = 1
    BY <1>1, <1>4, <2>2
  <2> QED BY <2>1, <2>2
<1>6. Reads(v, n).value = v /\ Reads(v, n).used = n
  BY DEF Reads
<1>7. ~(Len(v) >= cap)
  BY LenProperties
<1>8. next_byte(b, cap, Reads(v, n)) = Read(Reads(v, n), rest[1], IF nul THEN 2 ELSE 1)
  <2>1. ~(rest[1] = 0 /\ ~nul)
    BY <1>4, <1>5
  <2> QED BY <1>2, <1>4, <1>6, <1>7, <2>1 DEF next_byte
<1> HIDE DEF nul
<1>9. (IF nul THEN 2 ELSE 1) = Len(e)
  BY <1>5
<1>10. next_byte(b, cap, Reads(v, n)) = Reads(Append(v, c), n + Len(e))
  <2>1. Read(Reads(v, n), c, Len(e)) = Reads(Append(v, c), n + Len(e))
    BY DEF Read, Reads
  <2>2. next_byte(b, cap, Reads(v, n)) = Read(Reads(v, n), c, Len(e))
    BY <1>4, <1>8, <1>9
  <2> QED BY <2>1, <2>2
<1> QED BY <1>1, <1>10

\* The terminator ends the text.
LEMMA EndRead ==
  ASSUME NEW b \in Seq(Byte), NEW cap \in Nat, NEW v \in Seq(TextByte), NEW n \in Nat,
         NEW x \in Continues(Byte \ {FF}), From(b, n) = << 0 >> \o x
  PROVE  next_byte(b, cap, Reads(v, n)) = Ok(v, n + 1)
<1>1. x \in Seq(Byte) /\ (x # <<>> => x[1] # FF)
  BY DEF Continues
<1>2. PICK z \in Seq(Byte) : z = <<0>> /\ Len(z) = 1 /\ z[1] = 0
  <2>1. 0 \in Byte
    BY ByteIs
  <2>2. <<0>> \in Seq(Byte) /\ Len(<<0>>) = 1 /\ <<0>>[1] = 0
    BY <2>1
  <2> QED BY <2>2
<1>3. PICK rest \in Seq(Byte) : rest = From(b, n) /\ rest = z \o x
  BY <1>1, <1>2, BytesJoined
<1>4. /\ Len(rest) = Len(z) + Len(x) /\ \A j \in 1..Len(z) : rest[j] = z[j]
      /\ \A j \in 1..Len(x) : rest[Len(z) + j] = x[j] /\ Len(x) \in Nat
  BY <1>1, <1>3, BytesJoined, LenProperties
<1>5. rest # <<>> /\ rest[1] = 0
  <2>1. 1 \in 1..Len(z) /\ Len(x) \in Nat
    BY <1>1, <1>2, LenProperties
  <2>2. rest[1] = 0 /\ Len(rest) # 0
    BY <1>2, <1>4, <2>1
  <2> QED BY <2>2
<1>6. ~(Len(rest) > 1 /\ rest[1] = 0 /\ rest[2] = FF)
  <2> SUFFICES ASSUME Len(rest) > 1 PROVE rest[2] # FF
    OBVIOUS
  <2>1. Len(x) \in Nat
    BY <1>1, LenProperties
  <2>2. 1 \in 1..Len(x) /\ Len(z) + 1 = 2 /\ x # <<>>
    BY <1>2, <1>4, <2>1
  <2> QED BY <1>1, <1>4, <2>2
<1>7. Reads(v, n).value = v /\ Reads(v, n).used = n
  BY DEF Reads
<1> QED BY <1>3, <1>5, <1>6, <1>7 DEF next_byte

\* What may have been read of bytes: the escapes of what was read are the bytes
\* used, and of a text that ended its terminator too.
TextSoFar(b, cap) ==
  {Reads(v, n) : v \in BoundedSeq(Byte, cap), n \in 0..Len(b)}
TextRead(b, cap) ==
  {so \in TextSoFar(b, cap) : Flat(so.value) = SubSeq(b, 1, so.used)}
TextDone(b, cap) ==
  {Fails(e) : e \in Errors}
    \cup {d \in {Ok(v, n) : v \in BoundedSeq(TextByte, cap), n \in 0..Len(b)} :
            escape(d.value) = SubSeq(b, 1, d.used)}

\* A turn of the text's loop ends it or goes on behind what it has read.
LEMMA TextTurns ==
  ASSUME NEW b \in Seq(Byte), NEW cap \in Nat, NEW so \in TextRead(b, cap)
  PROVE  \/ next_byte(b, cap, so) \in TextDone(b, cap)
         \/ next_byte(b, cap, so) \in TextRead(b, cap) /\ next_byte(b, cap, so).used > so.used
<1>1. PICK v \in BoundedSeq(Byte, cap), n \in 0..Len(b) :
        so = Reads(v, n) /\ Flat(v) = SubSeq(b, 1, n)
  <2>1. PICK v \in BoundedSeq(Byte, cap), n \in 0..Len(b) : so = Reads(v, n)
    BY DEF TextRead, TextSoFar
  <2>2. Flat(so.value) = SubSeq(b, 1, so.used)
    BY DEF TextRead
  <2> QED BY <2>1, <2>2, Readings
<1>2. v \in Seq(Byte) /\ Len(v) <= cap /\ Len(v) \in Nat /\ Len(b) \in Nat /\ n \in Nat
  BY Bounded, LenProperties
<1>3. PICK rest \in Seq(Byte) : /\ rest = From(b, n) /\ Len(rest) = Len(b) - n
                                /\ \A j \in 1..Len(b) - n : rest[j] = b[n + j]
  BY FromIs
<1>4. so.value = v /\ so.used = n
  BY <1>1, Readings
<1> DEFINE next == next_byte(b, cap, so)
           nul == Len(rest) > 1 /\ rest[1] = 0 /\ rest[2] = FF
<1>5. next = IF rest = <<>> THEN Fails("Truncated")
             ELSE IF rest[1] = 0 /\ ~nul
             THEN IF v \in Seq(TextByte) THEN Ok(v, n + 1) ELSE Fails("Malformed")
             ELSE IF Len(v) >= cap THEN Fails("CapacityExceeded")
             ELSE Read(so, rest[1], IF nul THEN 2 ELSE 1)
  BY <1>3, <1>4 DEF next_byte
<1>6. \A e \in Errors : Fails(e) \in TextDone(b, cap)
  BY DEF TextDone
<1>7. "Truncated" \in Errors /\ "Malformed" \in Errors /\ "CapacityExceeded" \in Errors
  BY DEF Errors
<1> HIDE DEF next
<1>8. CASE rest = <<>>
  <2>1. next = Fails("Truncated")
    BY <1>5, <1>8
  <2> QED BY <1>6, <1>7, <2>1 DEF next
<1>9. CASE rest # <<>>
  <2>1. n < Len(b) /\ 1 \in 1..Len(b) - n /\ rest[1] = b[n + 1] /\ rest[1] \in Byte
    <3>1. Len(rest) # 0
      BY <1>9, EmptySeq
    <3>2. 1 \in 1..Len(rest)
      BY <1>2, <1>3, <3>1
    <3>3. rest[1] \in Byte
      BY <3>2, ElementOfSeq
    <3> QED BY <1>2, <1>3, <3>1, <3>2, <3>3
  <2>2. CASE rest[1] = 0 /\ ~nul
    <3>1. CASE v \in Seq(TextByte)
      <4>1. next = Ok(v, n + 1)
        BY <1>5, <1>9, <2>2, <3>1
      <4>2. PICK z \in Seq(Byte) : z = <<0>> /\ Len(z) = 1 /\ z[1] = 0
        <5>1. 0 \in Byte
          BY ByteIs
        <5>2. <<0>> \in Seq(Byte) /\ Len(<<0>>) = 1 /\ <<0>>[1] = 0
          BY <5>1
        <5> QED BY <5>2
      <4>3. n + Len(z) <= Len(b) /\ \A j \in 1..Len(z) : b[n + j] = z[j]
        <5>1. \A j \in 1..1 : j = 1
          OBVIOUS
        <5>2. n + 1 <= Len(b) /\ b[n + 1] = z[1]
          BY <1>2, <2>1, <2>2, <4>2
        <5>3. \A j \in 1..Len(z) : b[n + j] = z[j]
          BY <4>2, <5>1, <5>2
        <5> QED BY <4>2, <5>2, <5>3
      <4>4. SubSeq(b, 1, n + Len(z)) = SubSeq(b, 1, n) \o z
        BY <4>3, BeginningGrows
      <4>5. escape(v) = SubSeq(b, 1, n + 1)
        BY <1>1, <1>2, <4>2, <4>4, TextPieces
      <4>6. v \in BoundedSeq(TextByte, cap) /\ n + 1 \in 0..Len(b)
        BY <1>2, <2>1, <3>1, Bounded
      <4>7. Ok(v, n + 1).value = v /\ Ok(v, n + 1).used = n + 1
        BY DEF Ok
      <4>8. next \in TextDone(b, cap)
        BY <4>1, <4>5, <4>6, <4>7 DEF TextDone
      <4> QED BY <4>8 DEF next
    <3>2. CASE v \notin Seq(TextByte)
      <4>1. next = Fails("Malformed")
        BY <1>5, <1>9, <2>2, <3>2
      <4> QED BY <1>6, <1>7, <4>1 DEF next
    <3> QED BY <3>1, <3>2
  <2>3. CASE ~(rest[1] = 0 /\ ~nul) /\ Len(v) >= cap
    <3>1. next = Fails("CapacityExceeded")
      BY <1>5, <1>9, <2>3
    <3> QED BY <1>6, <1>7, <3>1 DEF next
  <2>4. CASE ~(rest[1] = 0 /\ ~nul) /\ Len(v) < cap
    <3>1. PICK c \in Byte : c = rest[1]
      BY <2>1
    <3>2. PICK e \in Seq(Byte) : /\ e = escaped(c) /\ e[1] = c /\ Len(e) >= 1 /\ 1 \in 1..Len(e)
                                 /\ c = 0 => e = <<0, FF>>
                                 /\ c # 0 => e = <<c>>
      BY Escaped
    <3>3. (nul <=> c = 0) /\ Len(e) = (IF nul THEN 2 ELSE 1)
      <4>1. nul <=> c = 0
        BY <2>4, <3>1
      <4>2. c = 0 => Len(e) = 2
        BY <3>2
      <4>3. c # 0 => Len(e) = 1
        BY <3>2
      <4> HIDE DEF nul
      <4> QED BY <4>1, <4>2, <4>3
    <3>4. Len(rest) >= Len(e) /\ \A j \in 1..Len(e) : b[n + j] = e[j]
      <4>1. CASE nul
        <5>1. Len(e) = 2 /\ e = <<0, FF>> /\ rest[1] = 0 /\ rest[2] = FF /\ Len(rest) > 1
          BY <3>2, <3>3, <4>1
        <5>2. 2 \in 1..Len(b) - n /\ Len(rest) >= 2
          BY <1>2, <1>3, <5>1
        <5>3. b[n + 1] = e[1] /\ b[n + 2] = e[2]
          BY <1>3, <2>1, <5>1, <5>2
        <5>4. \A j \in 1..2 : j = 1 \/ j = 2
          OBVIOUS
        <5> QED BY <5>1, <5>2, <5>3, <5>4
      <4>2. CASE ~nul
        <5>1. Len(e) = 1 /\ e[1] = c
          BY <3>2, <3>3, <4>2
        <5>2. b[n + 1] = e[1] /\ Len(rest) >= 1
          BY <1>2, <1>3, <2>1, <3>1, <5>1
        <5>3. \A j \in 1..1 : j = 1
          OBVIOUS
        <5> QED BY <5>1, <5>2, <5>3
      <4> QED BY <4>1, <4>2
    <3>5. n + Len(e) <= Len(b) /\ Len(e) \in Nat
      BY <1>2, <1>3, <3>4, LenProperties
    <3>6. SubSeq(b, 1, n + Len(e)) = SubSeq(b, 1, n) \o e
      BY <3>4, <3>5, BeginningGrows
    <3>7. PICK w \in Seq(Byte) : w = Append(v, c) /\ Len(w) = Len(v) + 1
      BY <1>2, AppendProperties
    <3>8. Flat(w) = SubSeq(b, 1, n + Len(e))
      BY <1>1, <1>2, <3>2, <3>6, <3>7, FlatAppend
    <3>9. next = Reads(w, n + Len(e))
      <4>1. next = Read(so, c, Len(e))
        <5>1. ~(Len(v) >= cap)
          BY <1>2, <2>4
        <5> HIDE DEF nul
        <5> QED BY <1>5, <1>9, <2>4, <3>1, <3>3, <5>1
      <4>2. Read(so, c, Len(e)) = Reads(w, n + Len(e))
        BY <1>1, <3>7 DEF Read, Reads
      <4> QED BY <4>1, <4>2
    <3>10. w \in BoundedSeq(Byte, cap) /\ n + Len(e) \in 0..Len(b)
      <4>1. Len(w) <= cap
        BY <1>2, <2>4, <3>7
      <4> QED BY <1>2, <3>5, <4>1, Bounded
    <3>11. next.value = w /\ next.used = n + Len(e)
      BY <3>9 DEF Reads
    <3>12. next \in TextRead(b, cap)
      <4>1. next \in TextSoFar(b, cap)
        BY <3>9, <3>10 DEF TextSoFar
      <4> QED BY <3>8, <3>11, <4>1 DEF TextRead
    <3>13. next.used > so.used
      BY <1>2, <1>4, <3>2, <3>5, <3>11
    <3> QED BY <3>12, <3>13 DEF next
  <2>5. Len(v) >= cap \/ Len(v) < cap
    BY <1>2
  <2> QED BY <2>2, <2>3, <2>4, <2>5
<1> QED BY <1>8, <1>9

\* The loop never leaves what may have been read.
LEMMA TextRuns ==
  ASSUME NEW b \in Seq(Byte), NEW cap \in Nat, NEW X, X = TextRead(b, cap) \cup TextDone(b, cap)
  PROVE  /\ TextLoops(b, cap, X)
         /\ Reading \in TextRead(b, cap)
         /\ \A so \in TextDone(b, cap) : so.res # "reading"
         /\ \A so \in TextRead(b, cap) : so.res = "reading" /\ so.used \in 0..Len(b)
<1>0. Len(b) \in Nat
  BY LenProperties
<1>1. Reading \in TextRead(b, cap)
  <2>1. <<>> \in BoundedSeq(Byte, cap) /\ 0 \in 0..Len(b)
    <3>1. <<>> \in Seq(Byte) /\ Len(<<>>) <= cap
      OBVIOUS
    <3>2. <<>> \in BoundedSeq(Byte, cap)
      BY <3>1, Bounded
    <3> QED BY <1>0, <3>2
  <2>2. Reads(<<>>, 0) \in TextSoFar(b, cap)
    BY <2>1 DEF TextSoFar
  <2>3. SubSeq(b, 1, 0) = <<>>
    BY SubSeqEmpty
  <2> QED BY <2>2, <2>3, FlatAppend, Readings DEF TextRead
<1>2. \A so \in TextDone(b, cap) : so.res # "reading"
  BY Readings DEF TextDone
<1>3. \A so \in TextRead(b, cap) : so.res = "reading" /\ so.used \in 0..Len(b)
  BY Readings DEF TextRead, TextSoFar
<1>4. \A so \in X : so.res = "reading" => so \in TextRead(b, cap)
  BY <1>2
<1>5. \A so \in X : so.res = "reading" => next_byte(b, cap, so) \in X
  BY <1>4, TextTurns
<1>6. Reading \in X
  BY <1>1
<1>7. TextLoops(b, cap, X)
  BY <1>5, <1>6, TextLoop
<1> QED BY <1>1, <1>2, <1>3, <1>7

\* The loop ends, with a failure or a text whose encoding the bytes begin with.
LEMMA TextEnds ==
  ASSUME NEW b \in Seq(Byte), NEW cap \in Nat
  PROVE  unescape(b, cap) \in TextDone(b, cap)
<1>0. Len(b) \in Nat
  BY LenProperties
<1>x. PICK X : X = TextRead(b, cap) \cup TextDone(b, cap)
  OBVIOUS
<1>7. /\ TextLoops(b, cap, X)
      /\ Reading \in TextRead(b, cap)
      /\ \A so \in TextDone(b, cap) : so.res # "reading"
      /\ \A so \in TextRead(b, cap) : so.res = "reading" /\ so.used \in 0..Len(b)
  BY <1>x, TextRuns
<1>1. Reading \in TextRead(b, cap)
  BY <1>7
<1>2. \A so \in TextDone(b, cap) : so.res # "reading"
  BY <1>7
<1>3. \A so \in TextRead(b, cap) : so.res = "reading" /\ so.used \in 0..Len(b)
  BY <1>7
<1>8. PICK f \in [Nat -> X] :
        /\ f[0] = Reading
        /\ \A n \in Nat : f[n + 1] = IF f[n].res = "reading" THEN next_byte(b, cap, f[n]) ELSE f[n]
        /\ unescape(b, cap) = f[Len(b) + 1]
  BY <1>7 DEF TextLoops
<1> DEFINE T == {n \in Nat : f[n] \in TextDone(b, cap) \/ (f[n] \in TextRead(b, cap) /\ f[n].used >= n)}
<1>9. 0 \in T
  BY <1>1, <1>8 DEF Reading
<1>10. ASSUME NEW n \in T PROVE n + 1 \in T
  <2>1. CASE f[n] \in TextDone(b, cap)
    <3>1. f[n + 1] = f[n]
      BY <1>2, <1>8, <2>1
    <3> QED BY <2>1, <3>1
  <2>2. CASE f[n] \in TextRead(b, cap) /\ f[n].used >= n
    <3>1. f[n + 1] = next_byte(b, cap, f[n])
      BY <1>3, <1>8, <2>2
    <3>2. CASE next_byte(b, cap, f[n]) \in TextDone(b, cap)
      BY <3>1, <3>2
    <3>3. CASE next_byte(b, cap, f[n]) \in TextRead(b, cap) /\ next_byte(b, cap, f[n]).used > f[n].used
      <4>1. f[n].used \in Nat /\ f[n + 1].used \in Nat /\ n \in Nat
        BY <1>0, <1>3, <2>2, <3>1, <3>3
      <4>2. f[n + 1].used >= n + 1
        BY <2>2, <3>1, <3>3, <4>1
      <4> QED BY <3>1, <3>3, <4>2
    <3> QED BY <2>2, <3>2, <3>3, TextTurns
  <2> QED BY <2>1, <2>2
<1>11. T = Nat
  <2> HIDE DEF T
  <2>1. T \in SUBSET Nat
    BY DEF T
  <2> QED BY <1>9, <1>10, <2>1, NaturalsFrom
<1>12. Len(b) + 1 \in T
  BY <1>0, <1>11
<1>13. ~(f[Len(b) + 1] \in TextRead(b, cap) /\ f[Len(b) + 1].used >= Len(b) + 1)
  BY <1>0, <1>3
<1> QED BY <1>8, <1>12, <1>13

\* The first bytes of an escaped text are those of its beginning.
LEMMA FlatParts ==
  ASSUME NEW t \in Seq(Byte), NEW i \in 1..Len(t)
  PROVE  \E s \in Seq(Byte), R \in Seq(Byte) :
           /\ s = SubSeq(t, 1, i - 1) /\ Len(s) = i - 1
           /\ SubSeq(t, 1, i) = Append(s, t[i])
           /\ Flat(t) = Flat(s) \o (escaped(t[i]) \o R)
<1>1. Len(t) \in Nat /\ i \in Nat /\ i - 1 \in Nat
  BY LenProperties
<1>2. PICK s \in Seq(Byte) : /\ s = SubSeq(t, 1, i - 1) /\ Len(s) = i - 1
                             /\ \A j \in 1..i - 1 : s[j] = t[j]
                             /\ SubSeq(t, 1, i) = Append(s, t[i])
  <2>1. /\ SubSeq(t, 1, i - 1) \in Seq(Byte) /\ Len(SubSeq(t, 1, i - 1)) = i - 1
        /\ \A j \in 1..i - 1 : SubSeq(t, 1, i - 1)[j] = t[j]
        /\ SubSeq(t, 1, i) = Append(SubSeq(t, 1, i - 1), t[i])
    BY Parted
  <2> QED BY <2>1
<1>3. PICK p \in Seq(Seq(Byte)) : /\ p = Pieces(t) /\ Len(p) = Len(t)
                                  /\ \A j \in 1..Len(t) : p[j] = escaped(t[j])
  BY TextPieces
<1>4. PICK q \in Seq(Seq(Byte)) : /\ q = Pieces(s) /\ Len(q) = Len(s)
                                  /\ \A j \in 1..Len(s) : q[j] = escaped(s[j])
  BY TextPieces
<1>5. i \in 1..Len(p)
  BY <1>3
<1>6. PICK r \in Seq(Seq(Byte)) : r = SubSeq(p, 1, i - 1) /\ Len(r) = i - 1 /\ \A j \in 1..i - 1 : r[j] = p[j]
  <2>1. /\ SubSeq(p, 1, i - 1) \in Seq(Seq(Byte)) /\ Len(SubSeq(p, 1, i - 1)) = i - 1
        /\ \A j \in 1..i - 1 : SubSeq(p, 1, i - 1)[j] = p[j]
    BY <1>5, Parted
  <2> QED BY <2>1
<1>7. q = r
  <2>1. \A j \in 1..i - 1 : j \in 1..Len(t) /\ j \in 1..Len(s)
    BY <1>1, <1>2
  <2>2. \A j \in 1..Len(q) : q[j] = r[j]
    BY <1>2, <1>3, <1>4, <1>6, <2>1
  <2>3. Len(q) = Len(r)
    BY <1>2, <1>4, <1>6
  <2> QED BY <2>2, <2>3, SeqEqual
<1>8. PICK R \in Seq(Byte) : R = FlattenSeq(SubSeq(p, i + 1, Len(p)))
  BY <1>5, FlattenAround
<1>9. FlattenSeq(p) = FlattenSeq(SubSeq(p, 1, i - 1)) \o (p[i] \o FlattenSeq(SubSeq(p, i + 1, Len(p))))
  BY <1>5, FlattenAround
<1>10. Flat(t) = Flat(s) \o (escaped(t[i]) \o R)
  BY <1>3, <1>4, <1>6, <1>7, <1>8, <1>9 DEF Flat
<1> QED BY <1>2, <1>8, <1>10

\* A text comes back from its escaped bytes.
LEMMA TextReturns ==
  ASSUME NEW cap \in Nat, NEW t \in Seq(TextByte), Len(t) <= cap, NEW x \in Continues(Byte \ {FF})
  PROVE  unescape(escape(t) \o x, cap) = Ok(t, Len(escape(t)))
<1>1. t \in Seq(Byte) /\ x \in Seq(Byte) /\ Len(t) \in Nat
  <2>1. Len(t) \in Nat /\ t \in [1..Len(t) -> TextByte]
    BY LenProperties
  <2>2. t \in [1..Len(t) -> Byte]
    BY <2>1, ByteIs
  <2> QED BY <2>1, <2>2 DEF Continues
<1>2. PICK z \in Seq(Byte) : z = <<0>>
  <2>1. 0 \in Byte
    BY ByteIs
  <2>2. <<0>> \in Seq(Byte)
    BY <2>1
  <2> QED BY <2>2
<1>3. PICK y \in Seq(Byte) : y = z \o x
  BY <1>1, BytesJoined
<1>4. PICK ft \in Seq(Byte) : ft = Flat(t) /\ escape(t) = ft \o z
  BY <1>1, <1>2, TextPieces
<1>5. PICK b \in Seq(Byte) : b = escape(t) \o x /\ b = ft \o y
  <2>1. Assoc(ft, z, x)
    BY <1>1, Regroup
  <2>2. escape(t) \o x = ft \o y
    BY <1>3, <1>4, <2>1 DEF Assoc
  <2>3. ft \o y \in Seq(Byte)
    BY BytesJoined
  <2> QED BY <2>2, <2>3
<1>6. PICK X : X = TextRead(b, cap) \cup TextDone(b, cap)
  OBVIOUS
<1>7. /\ TextLoops(b, cap, X)
      /\ \A so \in TextDone(b, cap) : so.res # "reading"
  BY <1>6, TextRuns
<1>8. PICK f \in [Nat -> X] :
        /\ f[0] = Reading
        /\ \A n \in Nat : f[n + 1] = IF f[n].res = "reading" THEN next_byte(b, cap, f[n]) ELSE f[n]
        /\ unescape(b, cap) = f[Len(b) + 1]
  BY <1>7 DEF TextLoops
\* After n turns n bytes of the text are read.
<1> DEFINE T == {n \in Nat : n <= Len(t) => f[n] = Reads(SubSeq(t, 1, n), Len(Flat(SubSeq(t, 1, n))))}
<1>9. 0 \in T
  <2>1. SubSeq(t, 1, 0) = <<>>
    BY SubSeqEmpty
  <2>2. Len(Flat(<<>>)) = 0
    BY FlatAppend
  <2> QED BY <1>8, <2>1, <2>2, Readings
<1>10. ASSUME NEW n \in T PROVE n + 1 \in T
  <2>1. ASSUME n + 1 <= Len(t)
        PROVE  f[n + 1] = Reads(SubSeq(t, 1, n + 1), Len(Flat(SubSeq(t, 1, n + 1))))
    <3>1. PICK i \in 1..Len(t) : i = n + 1 /\ i - 1 = n /\ n \in Nat
      BY <1>1, <2>1
    <3>2. PICK s \in Seq(Byte), R \in Seq(Byte) :
            /\ s = SubSeq(t, 1, i - 1) /\ Len(s) = i - 1
            /\ SubSeq(t, 1, i) = Append(s, t[i])
            /\ Flat(t) = Flat(s) \o (escaped(t[i]) \o R)
      BY <1>1, FlatParts
    <3>3. PICK c \in Byte : c = t[i]
      BY <1>1, ElementOfSeq
    <3>4. PICK e \in Seq(Byte) : e = escaped(c)
      BY Escaped
    <3>5. PICK fs \in Seq(Byte) : fs = Flat(s)
      BY TextPieces
    <3>6. f[n] = Reads(s, Len(fs)) /\ Len(fs) \in Nat
      <4>1. f[n] = Reads(SubSeq(t, 1, n), Len(Flat(SubSeq(t, 1, n))))
        BY <1>1, <2>1, <3>1
      <4> QED BY <3>1, <3>2, <3>5, <4>1, LenProperties
    <3>7. PICK Q \in Seq(Byte) : Q = R \o y
      BY BytesJoined
    <3>8. b = fs \o (e \o Q) /\ e \o Q \in Seq(Byte)
      <4>1. Around(fs, e, R, y)
        BY RegroupAround
      <4> QED BY <1>4, <1>5, <3>2, <3>3, <3>4, <3>5, <3>7, <4>1 DEF Around
    <3>9. From(b, Len(fs)) = escaped(c) \o Q
      <4>1. From(fs \o (e \o Q), Len(fs)) = e \o Q
        BY <3>8, FromConcat
      <4> QED BY <3>4, <3>8, <4>1
    <3>10. Len(s) < cap
      BY <1>1, <2>1, <3>1, <3>2
    <3>11. next_byte(b, cap, Reads(s, Len(fs))) = Reads(Append(s, c), Len(fs) + Len(e))
      <4>1. next_byte(b, cap, Reads(s, Len(fs))) = Reads(Append(s, c), Len(fs) + Len(escaped(c)))
        <5>1. PICK l \in Nat : l = Len(fs)
          BY <3>6
        <5>2. From(b, l) = escaped(c) \o Q
          BY <3>9, <5>1
        <5>3. ReadsByte(b, cap, s, l, c, Q)
          BY ByteRead
        <5> QED BY <3>10, <5>1, <5>2, <5>3 DEF ReadsByte
      <4> QED BY <3>4, <4>1
    <3>12. f[n + 1] = Reads(Append(s, c), Len(fs) + Len(e))
      <4>1. f[n].res = "reading"
        BY <3>6, Readings
      <4>2. f[n + 1] = next_byte(b, cap, f[n])
        BY <1>8, <3>1, <4>1
      <4> QED BY <3>6, <3>11, <4>2
    <3>13. Flat(Append(s, c)) = fs \o e /\ Len(fs \o e) = Len(fs) + Len(e)
      BY <3>4, <3>5, FlatAppend, BytesJoined
    <3> QED BY <3>1, <3>2, <3>3, <3>12, <3>13
  <2>2. n + 1 \in Nat
    OBVIOUS
  <2> QED BY <2>1, <2>2
<1>11. T = Nat
  <2> HIDE DEF T
  <2>1. T \in SUBSET Nat
    BY DEF T
  <2> QED BY <1>9, <1>10, <2>1, NaturalsFrom
<1> HIDE DEF T
<1>21. \A n \in Nat : n <= Len(t) => f[n] = Reads(SubSeq(t, 1, n), Len(Flat(SubSeq(t, 1, n))))
  <2>1. \A n \in Nat : n \in T
    BY <1>11
  <2> QED BY <2>1 DEF T
<1>12. \A n \in 0..Len(t) : f[n].res = "reading"
  <2>1. ASSUME NEW n \in 0..Len(t) PROVE f[n].res = "reading"
    <3>1. n \in Nat /\ n <= Len(t)
      BY <1>1
    <3>2. f[n] = Reads(SubSeq(t, 1, n), Len(Flat(SubSeq(t, 1, n))))
      BY <1>21, <3>1
    <3> QED BY <3>2, Readings
  <2> QED BY <2>1
\* The next turn ends the text.
<1> DEFINE m == Len(t) + 1
           d == Ok(t, Len(escape(t)))
<1>13. f[m] = d
  <2>1. f[Len(t)] = Reads(t, Len(ft))
    <3>1. f[Len(t)] = Reads(SubSeq(t, 1, Len(t)), Len(Flat(SubSeq(t, 1, Len(t)))))
      BY <1>1, <1>21
    <3>2. SubSeq(t, 1, Len(t)) = t
      BY <1>1
    <3> QED BY <1>4, <3>1, <3>2
  <2>2. From(b, Len(ft)) = <<0>> \o x
    BY <1>2, <1>3, <1>5, FromConcat
  <2>3. Len(ft) \in Nat
    BY LenProperties
  <2>4. next_byte(b, cap, Reads(t, Len(ft))) = Ok(t, Len(ft) + 1)
    BY <2>2, <2>3, EndRead
  <2>5. Len(escape(t)) = Len(ft) + 1
    BY <1>1, <1>4, TextFits
  <2>6. f[Len(t)].res = "reading"
    BY <2>1, Readings
  <2>7. f[Len(t) + 1] = next_byte(b, cap, f[Len(t)])
    BY <1>1, <1>8, <2>6
  <2> QED BY <2>1, <2>4, <2>5, <2>7
<1>14. m \in Nat /\ Len(b) + 1 \in Nat /\ Len(b) + 1 > Len(t)
  <2>1. Len(b) \in Nat
    BY LenProperties
  <2>2. unescape(b, cap) \in TextDone(b, cap)
    BY TextEnds
  <2>3. f[Len(b) + 1].res # "reading"
    BY <1>7, <1>8, <2>2
  <2>4. Len(b) + 1 \notin 0..Len(t)
    BY <1>12, <2>3
  <2> QED BY <1>1, <2>1, <2>4
<1>15. d.res # "reading"
  BY Readings
<1> HIDE DEF m, d
<1> DEFINE S == {n \in Nat : f[m + n] = d}
<1>16. 0 \in S
  BY <1>13, <1>14
<1>17. ASSUME NEW n \in S PROVE n + 1 \in S
  <2>1. m + n \in Nat /\ f[m + n] = d /\ m + (n + 1) = (m + n) + 1
    BY <1>14
  <2>2. f[(m + n) + 1] = d
    BY <1>8, <1>15, <2>1
  <2> QED BY <2>1, <2>2
<1>18. S = Nat
  <2> HIDE DEF S
  <2>1. S \in SUBSET Nat
    BY DEF S
  <2> QED BY <1>16, <1>17, <2>1, NaturalsFrom
<1>19. \A n \in Nat : f[m + n] = d
  <2>1. \A n \in Nat : n \in S
    BY <1>18
  <2> QED BY <2>1
<1> HIDE DEF S
<1>20. f[Len(b) + 1] = d
  <2>1. Len(b) + 1 >= m
    BY <1>1, <1>14 DEF m
  <2>2. PICK n \in Nat : m + n = Len(b) + 1
    <3>1. (Len(b) + 1) - m \in Nat /\ m + ((Len(b) + 1) - m) = Len(b) + 1
      BY <1>14, <2>1
    <3> QED BY <3>1
  <2> QED BY <1>19, <2>2
<1> QED BY <1>5, <1>8, <1>20 DEF d

\* Text: escaped and ended (NbString), if no FF follows.
THEOREM TextLawful == \A cap \in Nat : Laws(string(cap), Byte \ {FF})
<1> SUFFICES ASSUME NEW cap \in Nat PROVE Laws(string(cap), Byte \ {FF})
  OBVIOUS
<1>1. PICK V : V = BoundedSeq(TextByte, cap)
  OBVIOUS
<1>2. PICK B : B = AscendingBytes(V)
  OBVIOUS
<1>3. PICK k : k = string(cap)
  OBVIOUS
<1>4. /\ k.values = V /\ k.below = B /\ k.max = 2 * cap + 1
      /\ k.encode = [v \in V |-> escape(v)]
      /\ k.decode = [b \in Seq(Byte) |-> unescape(b, cap)]
  BY <1>1, <1>2, <1>3 DEF string, max_text
<1>5. \A v \in V : v \in Seq(TextByte) /\ v \in Seq(Byte) /\ Len(v) <= cap /\ Len(v) \in Nat
  <2> SUFFICES ASSUME NEW v \in V
               PROVE  v \in Seq(TextByte) /\ v \in Seq(Byte) /\ Len(v) <= cap /\ Len(v) \in Nat
    OBVIOUS
  <2>1. v \in Seq(TextByte) /\ Len(v) <= cap
    BY <1>1, Bounded
  <2>2. Len(v) \in Nat /\ v \in [1..Len(v) -> TextByte]
    BY <2>1, LenProperties
  <2>3. v \in [1..Len(v) -> Byte]
    BY <2>2, ByteIs
  <2> QED BY <2>1, <2>2, <2>3
<1>6. \A v, w \in V : <<v, w>> \in B <=> memcmp(v, w)
  BY <1>2 DEF AscendingBytes
<1>7. ASSUME NEW b \in Seq(Byte)
      PROVE  \/ \E e \in Errors : unescape(b, cap) = Fails(e)
             \/ \E v \in V, n \in 0..Len(b) : unescape(b, cap) = Ok(v, n) /\ escape(v) = SubSeq(b, 1, n)
  <2>1. unescape(b, cap) \in TextDone(b, cap)
    BY TextEnds
  <2>2. CASE unescape(b, cap) \in {Fails(e) : e \in Errors}
    BY <2>2
  <2>3. CASE unescape(b, cap) \notin {Fails(e) : e \in Errors}
    <3>1. /\ unescape(b, cap) \in {Ok(v, n) : v \in V, n \in 0..Len(b)}
          /\ escape(unescape(b, cap).value) = SubSeq(b, 1, unescape(b, cap).used)
      BY <1>1, <2>1, <2>3 DEF TextDone
    <3>2. PICK v \in V, n \in 0..Len(b) : unescape(b, cap) = Ok(v, n)
      BY <3>1
    <3>3. Ok(v, n).value = v /\ Ok(v, n).used = n
      BY DEF Ok
    <3> QED BY <3>1, <3>2, <3>3
  <2> QED BY <2>2, <2>3
<1>8. Shaped(k)
  <2>1. \A v \in V : escape(v) \in Seq(Byte)
    BY <1>5, TextFits
  <2>2. ASSUME NEW b \in Seq(Byte) PROVE unescape(b, cap) \in Results(V)
    <3>1. Len(b) \in Nat
      BY LenProperties
    <3>2. \A n \in 0..Len(b) : n \in Nat
      BY <3>1
    <3> QED BY <1>7, <3>2 DEF Results
  <2>3. 2 * cap + 1 \in Nat
    OBVIOUS
  <2> QED BY <1>4, <2>1, <2>2, <2>3 DEF Shaped
<1>9. Fits(k)
  <2>1. ASSUME NEW v \in V PROVE Len(escape(v)) <= 2 * cap + 1
    <3>1. Len(escape(v)) <= 2 * Len(v) + 1 /\ escape(v) \in Seq(Byte)
      BY <1>5, TextFits
    <3>2. Len(v) <= cap /\ Len(v) \in Nat /\ Len(escape(v)) \in Nat
      BY <1>5, <3>1, LenProperties
    <3> QED BY <3>1, <3>2
  <2> QED BY <1>4, <2>1 DEF Fits
<1>10. Orders(k, Byte \ {FF})
  <2>1. ASSUME NEW v \in V, NEW w \in V PROVE v = w \/ <<v, w>> \in B \/ <<w, v>> \in B
    <3>1. v = w \/ memcmp(v, w) \/ memcmp(w, v)
      BY <1>5, BytesCompared
    <3> QED BY <1>6, <3>1
  <2>2. ASSUME NEW v \in V, NEW w \in V, <<v, w>> \in B,
               NEW x \in Continues(Byte \ {FF}), NEW y \in Continues(Byte \ {FF})
        PROVE  memcmp(escape(v) \o x, escape(w) \o y)
    BY <1>5, <1>6, <2>2, TextOrder
  <2> QED BY <1>4, <2>1, <2>2 DEF Orders
<1>11. RoundTrips(k, Byte \ {FF})
  <2>1. ASSUME NEW v \in V, NEW x \in Continues(Byte \ {FF})
        PROVE  /\ escape(v) \o x \in Seq(Byte)
               /\ unescape(escape(v) \o x, cap) = Ok(v, Len(escape(v)))
    <3>1. unescape(escape(v) \o x, cap) = Ok(v, Len(escape(v)))
      BY <1>5, TextReturns
    <3>2. PICK e \in Seq(Byte) : e = escape(v)
      BY <1>5, TextFits
    <3>3. x \in Seq(Byte)
      BY DEF Continues
    <3>4. e \o x \in Seq(Byte)
      BY <3>3, BytesJoined
    <3> QED BY <3>1, <3>2, <3>4
  <2> QED BY <1>4, <2>1 DEF RoundTrips
<1>12. Canonical(k)
  <2>1. ASSUME NEW b \in Seq(Byte), NEW v, NEW n, unescape(b, cap) = Ok(v, n)
        PROVE  v \in V /\ n \in 0..Len(b) /\ escape(v) = SubSeq(b, 1, n)
    <3>1. \A e \in Errors : Fails(e) # Ok(v, n)
      BY Answers
    <3>2. PICK w \in V, l \in 0..Len(b) : unescape(b, cap) = Ok(w, l) /\ escape(w) = SubSeq(b, 1, l)
      BY <1>7, <2>1, <3>1
    <3>3. w = v /\ l = n
      <4>1. Ok(w, l) = Ok(v, n)
        BY <2>1, <3>2
      <4> QED BY <4>1 DEF Ok
    <3> QED BY <3>2, <3>3
  <2> QED BY <1>4, <2>1 DEF Canonical
<1>13. Laws(k, Byte \ {FF})
  BY <1>8, <1>9, <1>10, <1>11, <1>12 DEF Laws
<1> QED BY <1>3, <1>13

----------------------------------------------------------------------------
(* Types made of others.                                                   *)

\* Sequences are comparable if their elements are, place by place.
LEMMA LexTotal ==
  ASSUME NEW U, NEW s \in Seq(U), NEW t \in Seq(U), NEW below,
         \A i \in Nat : i \in 1..Len(s) /\ i \in 1..Len(t) =>
           s[i] = t[i] \/ <<s[i], t[i]>> \in below[i] \/ <<t[i], s[i]>> \in below[i]
  PROVE  s = t \/ Lex(s, t, below) \/ Lex(t, s, below)
<1>1. \A u, v : Lex(u, v, below) <=>
        \E i \in 1..Len(v) : /\ i <= Len(u) + 1
                             /\ \A j \in 1..i - 1 : u[j] = v[j]
                             /\ i <= Len(u) => <<u[i], v[i]>> \in below[i]
  BY DEF Lex
<1>2. Len(s) \in Nat /\ Len(t) \in Nat
  BY LenProperties
<1> SUFFICES ASSUME s # t PROVE Lex(s, t, below) \/ Lex(t, s, below)
  OBVIOUS
<1> DEFINE D == {i \in Nat : /\ i \in 1..(Len(s) + 1) /\ i \in 1..(Len(t) + 1)
                             /\ i = Len(s) + 1 \/ i = Len(t) + 1 \/ s[i] # t[i]}
<1>3. D # {}
  <2>1. CASE Len(s) <= Len(t)
    <3>1. Len(s) + 1 \in D
      BY <1>2, <2>1
    <3> HIDE DEF D
    <3> QED BY <3>1
  <2>2. CASE Len(t) <= Len(s)
    <3>1. Len(t) + 1 \in D
      BY <1>2, <2>2
    <3> HIDE DEF D
    <3> QED BY <3>1
  <2> HIDE DEF D
  <2> QED BY <1>2, <2>1, <2>2
<1>4. PICK i \in D : \A j \in D : i <= j
  <2> HIDE DEF D
  <2>1. D \in SUBSET Nat
    BY DEF D
  <2> QED BY <1>3, <2>1, LeastOf
<1>5. \A j \in 1..i - 1 : j \in 1..Len(s) /\ j \in 1..Len(t) /\ s[j] = t[j]
  <2>1. ASSUME NEW j \in 1..i - 1 PROVE j \in 1..Len(s) /\ j \in 1..Len(t) /\ s[j] = t[j]
    <3>1. i \in Nat /\ j \in Nat /\ ~(i <= j) /\ i <= Len(s) + 1 /\ i <= Len(t) + 1
      BY <1>2
    <3>2. j \notin D
      BY <1>4, <3>1
    <3>3. j \in 1..Len(s) /\ j \in 1..Len(t)
      BY <1>2, <3>1
    <3> QED BY <1>2, <3>1, <3>2, <3>3
  <2> QED BY <2>1
<1>6. CASE i = Len(s) + 1 /\ i = Len(t) + 1
  <2>1. Len(s) = Len(t) /\ \A j \in 1..Len(s) : s[j] = t[j]
    BY <1>2, <1>5, <1>6
  <2> QED BY <2>1, SeqEqual
<1>7. CASE i \in 1..Len(t) /\ (i <= Len(s) => <<s[i], t[i]>> \in below[i])
  <2>1. i <= Len(s) + 1
    BY <1>2
  <2> QED BY <1>1, <1>5, <1>7, <2>1
<1>8. CASE i \in 1..Len(s) /\ (i <= Len(t) => <<t[i], s[i]>> \in below[i])
  <2>1. i <= Len(t) + 1
    BY <1>2
  <2>2. \A j \in 1..i - 1 : t[j] = s[j]
    BY <1>5
  <2> QED BY <1>1, <1>8, <2>1, <2>2
<1>9. i \in 1..Len(s) + 1 /\ i \in 1..Len(t) + 1 /\ (i = Len(s) + 1 \/ i = Len(t) + 1 \/ s[i] # t[i]) /\ i \in Nat
  OBVIOUS
<1> HIDE DEF D
<1>10. CASE i \in 1..Len(s) /\ i \in 1..Len(t)
  <2>1. s[i] # t[i]
    BY <1>2, <1>9, <1>10
  <2> QED BY <1>7, <1>8, <1>9, <1>10, <2>1
<1> QED BY <1>2, <1>6, <1>7, <1>8, <1>9, <1>10

\* Pieces put one after the other begin with the first.
LEMMA FlattenHead ==
  ASSUME NEW S, NEW s \in Seq(Seq(S)), s # <<>>
  PROVE  /\ FlattenSeq(s) = s[1] \o FlattenSeq(SubSeq(s, 2, Len(s))) /\ s[1] \in Seq(S)
         /\ FlattenSeq(SubSeq(s, 2, Len(s))) \in Seq(S)
<1>1. 1 \in 1..Len(s)
  BY LenProperties, EmptySeq
<1>2. /\ FlattenSeq(s) = FlattenSeq(SubSeq(s, 1, 1 - 1)) \o (s[1] \o FlattenSeq(SubSeq(s, 1 + 1, Len(s))))
      /\ FlattenSeq(SubSeq(s, 1 + 1, Len(s))) \in Seq(S)
  BY <1>1, FlattenAround
<1>3. s[1] \in Seq(S)
  BY <1>1, ElementOfSeq
<1>4. SubSeq(s, 1, 1 - 1) = <<>>
  BY SubSeqEmpty
<1>5. FlattenSeq(<<>>) = <<>>
  <2>1. <<>> \in Seq(Seq(S))
    OBVIOUS
  <2> QED BY <2>1, FlattenStep
<1>6. PICK r \in Seq(S) : r = FlattenSeq(SubSeq(s, 1 + 1, Len(s)))
  BY <1>2
<1>7. PICK c \in Seq(S) : c = s[1]
  BY <1>3
<1>8. <<>> \o (c \o r) = c \o r
  OBVIOUS
<1>9. 1 + 1 = 2
  OBVIOUS
<1> QED BY <1>2, <1>3, <1>4, <1>5, <1>6, <1>7, <1>8, <1>9

\* After marked pieces and something that begins with a zero stand a marker or
\* the zero.
LEMMA MarkedContinues ==
  ASSUME NEW F, 0 \in F, 1 \in F, NEW s \in Seq(Seq(Byte)),
         \A i \in 1..Len(s) : s[i] # <<>> /\ s[i][1] = 1,
         NEW y \in Seq(Byte), y # <<>>, y[1] = 0
  PROVE  FlattenSeq(s) \o y \in Continues(F)
<1>1. CASE s = <<>>
  <2>1. FlattenSeq(s) = <<>>
    BY <1>1, FlattenStep
  <2>2. <<>> \o y = y
    OBVIOUS
  <2> QED BY <2>1, <2>2 DEF Continues
<1>2. CASE s # <<>>
  <2>1. PICK c \in Seq(Byte), r \in Seq(Byte) : c = s[1] /\ FlattenSeq(s) = c \o r
    <3>1. /\ FlattenSeq(s) = s[1] \o FlattenSeq(SubSeq(s, 2, Len(s))) /\ s[1] \in Seq(Byte)
          /\ FlattenSeq(SubSeq(s, 2, Len(s))) \in Seq(Byte)
      BY <1>2, FlattenHead
    <3> QED BY <3>1
  <2>2. 1 \in 1..Len(s)
    BY <1>2, LenProperties, EmptySeq
  <2>3. c # <<>> /\ c[1] = 1
    BY <2>1, <2>2
  <2>4. 1 \in 1..Len(c)
    BY <2>3, LenProperties, EmptySeq
  <2>5. PICK w \in Seq(Byte) : w = r \o y
    BY BytesJoined
  <2>6. Assoc(c, r, y)
    BY Regroup
  <2>7. FlattenSeq(s) \o y = c \o w
    BY <2>1, <2>5, <2>6 DEF Assoc
  <2>8. c \o w \in Seq(Byte) /\ (c \o w)[1] = 1
    BY <2>3, <2>4, BytesJoined
  <2> QED BY <2>7, <2>8 DEF Continues
<1> QED BY <1>1, <1>2

\* A vector's bytes before its terminator: a marker and an element, each.
Marked(k, v) == [i \in DOMAIN v |-> <<1>> \o k.encode[v[i]]]
FlatVec(k, v) == FlattenSeq(Marked(k, v))
EncodedVec(k, v) == FlatVec(k, v) \o <<0>>

\* The terminator and the marker.
LEMMA OneByte ==
  /\ <<0>> \in Seq(Byte) /\ Len(<<0>>) = 1 /\ <<0>>[1] = 0
  /\ <<1>> \in Seq(Byte) /\ Len(<<1>>) = 1 /\ <<1>>[1] = 1
<1>1. 0 \in Byte /\ 1 \in Byte
  BY ByteIs
<1> QED BY <1>1

IsMarked(k, v) ==
  /\ Marked(k, v) \in Seq(Seq(Byte)) /\ Len(Marked(k, v)) = Len(v)
  /\ \A i \in 1..Len(v) : /\ Marked(k, v)[i] = <<1>> \o k.encode[v[i]]
                          /\ k.encode[v[i]] \in Seq(Byte)
                          /\ Marked(k, v)[i] \in Seq(Byte)
                          /\ Marked(k, v)[i] # <<>> /\ Marked(k, v)[i][1] = 1
                          /\ Len(Marked(k, v)[i]) = 1 + Len(k.encode[v[i]])
  /\ FlatVec(k, v) \in Seq(Byte)

\* A vector's pieces are its elements' encodings, each behind a marker.
LEMMA MarkedIs ==
  ASSUME NEW k, k.encode \in [k.values -> Seq(Byte)]
  PROVE  \A v \in Seq(k.values) : IsMarked(k, v)
<1> SUFFICES ASSUME NEW v \in Seq(k.values) PROVE IsMarked(k, v)
  OBVIOUS
<1>1. DOMAIN v = 1..Len(v) /\ Len(v) \in Nat
  BY LenProperties
<1>2. ASSUME NEW i \in 1..Len(v)
      PROVE  /\ k.encode[v[i]] \in Seq(Byte) /\ <<1>> \o k.encode[v[i]] \in Seq(Byte)
             /\ <<1>> \o k.encode[v[i]] # <<>> /\ (<<1>> \o k.encode[v[i]])[1] = 1
             /\ Len(<<1>> \o k.encode[v[i]]) = 1 + Len(k.encode[v[i]])
  <2>1. v[i] \in k.values
    BY ElementOfSeq
  <2>2. PICK e \in Seq(Byte) : e = k.encode[v[i]]
    BY <2>1
  <2>3. PICK o \in Seq(Byte) : o = <<1>> /\ Len(o) = 1 /\ o[1] = 1
    BY OneByte
  <2>4. o \o e \in Seq(Byte) /\ Len(o \o e) = Len(o) + Len(e) /\ \A j \in 1..Len(o) : (o \o e)[j] = o[j]
    BY BytesJoined
  <2>5. (o \o e)[1] = 1 /\ Len(o \o e) = 1 + Len(e) /\ Len(e) \in Nat
    BY <2>3, <2>4, LenProperties
  <2>6. o \o e # <<>>
    <3>1. Len(o \o e) # 0
      BY <2>5
    <3> QED BY <2>4, <3>1, EmptySeq
  <2> QED BY <2>2, <2>3, <2>4, <2>5, <2>6
<1>3. Marked(k, v) = [i \in 1..Len(v) |-> <<1>> \o k.encode[v[i]]]
  BY <1>1 DEF Marked
<1>4. \A i \in 1..Len(v) : Marked(k, v)[i] = <<1>> \o k.encode[v[i]]
  BY <1>3
<1>5. Marked(k, v) \in Seq(Seq(Byte)) /\ Len(Marked(k, v)) = Len(v)
  BY <1>1, <1>2, <1>3
<1>6. FlatVec(k, v) \in Seq(Byte)
  BY <1>5, FlattenStep DEF FlatVec
<1> QED BY <1>2, <1>4, <1>5, <1>6 DEF IsMarked

\* The bytes of a longer vector end with those of its last element.
LEMMA FlatVecAppend ==
  ASSUME NEW k, k.encode \in [k.values -> Seq(Byte)]
  PROVE  /\ FlatVec(k, <<>>) = <<>>
         /\ \A v \in Seq(k.values), c \in k.values :
              FlatVec(k, Append(v, c)) = FlatVec(k, v) \o (<<1>> \o k.encode[c])
<1>1. FlatVec(k, <<>>) = <<>>
  <2>1. <<>> \in Seq(k.values) /\ Len(<<>>) = 0
    OBVIOUS
  <2>2. Marked(k, <<>>) \in Seq(Seq(Byte)) /\ Len(Marked(k, <<>>)) = 0
    BY <2>1, MarkedIs DEF IsMarked
  <2>3. Marked(k, <<>>) = <<>>
    BY <2>2, EmptySeq
  <2> QED BY <2>2, <2>3, FlattenStep DEF FlatVec
<1>2. ASSUME NEW v \in Seq(k.values), NEW c \in k.values
      PROVE  FlatVec(k, Append(v, c)) = FlatVec(k, v) \o (<<1>> \o k.encode[c])
  <2>1. PICK u \in Seq(k.values) : u = Append(v, c)
    BY AppendProperties
  <2>2. Len(u) = Len(v) + 1 /\ (\A i \in 1..Len(v) : u[i] = v[i]) /\ u[Len(v) + 1] = c /\ Len(v) \in Nat
    BY <2>1, AppendProperties, LenProperties
  <2>3. PICK p \in Seq(Seq(Byte)) :
          p = Marked(k, v) /\ Len(p) = Len(v) /\ \A i \in 1..Len(v) : p[i] = <<1>> \o k.encode[v[i]]
    <3>1. IsMarked(k, v)
      BY MarkedIs
    <3> QED BY <3>1 DEF IsMarked
  <2>4. PICK q \in Seq(Seq(Byte)) :
          q = Marked(k, u) /\ Len(q) = Len(u) /\ \A i \in 1..Len(u) : q[i] = <<1>> \o k.encode[u[i]]
    <3>1. IsMarked(k, u)
      BY MarkedIs
    <3> QED BY <3>1 DEF IsMarked
  <2>5. PICK e \in Seq(Byte) : e = <<1>> \o k.encode[c]
    BY OneByte, BytesJoined
  <2>6. PICK r \in Seq(Seq(Byte)) : r = Append(p, e)
    BY AppendProperties
  <2>7. Len(r) = Len(v) + 1 /\ (\A i \in 1..Len(v) : r[i] = p[i]) /\ r[Len(v) + 1] = e
    BY <2>3, <2>6, AppendProperties
  <2>8. \A i \in 1..Len(q) : q[i] = r[i]
    <3> SUFFICES ASSUME NEW i \in 1..Len(v) + 1 PROVE q[i] = r[i]
      BY <2>2, <2>4
    <3>1. CASE i \in 1..Len(v)
      BY <2>2, <2>3, <2>4, <2>7, <3>1
    <3>2. CASE i = Len(v) + 1
      <4>1. i \in 1..Len(u)
        BY <2>2
      <4> QED BY <2>2, <2>4, <2>5, <2>7, <3>2, <4>1
    <3> QED BY <2>2, <3>1, <3>2
  <2>9. q = r
    BY <2>2, <2>4, <2>7, <2>8, SeqEqual
  <2>10. FlattenSeq(q) = FlattenSeq(p) \o e
    BY <2>6, <2>9, FlattenStep
  <2> QED BY <2>1, <2>3, <2>4, <2>5, <2>10 DEF FlatVec
<1> QED BY <1>1, <1>2

\* The loop that reads a vector stays where its turns do.
ReadsVec(k, f, b, cap) ==
  f = [n \in Nat |-> IF n = 0 THEN Reading
                     ELSE IF f[n - 1].res = "reading" THEN next_item(k, b, cap, f[n - 1])
                     ELSE f[n - 1]]

VecLoops(k, b, cap, X) ==
  \E f \in [Nat -> X] :
    /\ f[0] = Reading
    /\ \A n \in Nat : f[n + 1] = IF f[n].res = "reading" THEN next_item(k, b, cap, f[n]) ELSE f[n]
    /\ decode_vec(k, b, cap) = f[Len(b) + 1]

\* What every turn of the vector's loop keeps holds when the loop has ended.
LEMMA VecLoop ==
  ASSUME NEW k, NEW b, NEW cap, NEW X, Reading \in X,
         \A so \in X : so.res = "reading" => next_item(k, b, cap, so) \in X
  PROVE  VecLoops(k, b, cap, X)
<1> DEFINE turn == [so \in X |-> IF so.res = "reading" THEN next_item(k, b, cap, so) ELSE so]
           step == [n \in Nat |-> turn]
           g == CHOOSE f : ReadsVec(k, f, b, cap)
<1>1. turn \in [X -> X] /\ \A so \in X : turn[so] = IF so.res = "reading" THEN next_item(k, b, cap, so) ELSE so
  OBVIOUS
<1> HIDE DEF turn
<1>2. step \in [Nat -> [X -> X]] /\ \A n \in Nat : step[n] = turn
  BY <1>1
<1> HIDE DEF step
<1>3. PICK f \in [Nat -> X] : f[0] = Reading /\ \A n \in Nat : f[n + 1] = step[n + 1][f[n]]
  <2>1. Recurs(X)
    BY Recursion
  <2> QED BY <1>2, <2>1 DEF Recurs
<1>4. \A n \in Nat : f[n + 1] = IF f[n].res = "reading" THEN next_item(k, b, cap, f[n]) ELSE f[n]
  <2> SUFFICES ASSUME NEW n \in Nat
               PROVE  f[n + 1] = IF f[n].res = "reading" THEN next_item(k, b, cap, f[n]) ELSE f[n]
    OBVIOUS
  <2>1. n + 1 \in Nat /\ f[n] \in X /\ f[n + 1] = step[n + 1][f[n]]
    BY <1>3
  <2>2. f[n + 1] = turn[f[n]]
    BY <1>2, <2>1
  <2> QED BY <1>1, <2>1, <2>2
<1>5. ReadsVec(k, f, b, cap)
  <2>1. ASSUME NEW n \in Nat, n # 0
        PROVE  f[n] = IF f[n - 1].res = "reading" THEN next_item(k, b, cap, f[n - 1]) ELSE f[n - 1]
    <3>1. n - 1 \in Nat /\ (n - 1) + 1 = n
      BY <2>1
    <3>2. f[(n - 1) + 1] = IF f[n - 1].res = "reading" THEN next_item(k, b, cap, f[n - 1]) ELSE f[n - 1]
      BY <1>4, <3>1
    <3> QED BY <3>1, <3>2
  <2>2. f = [n \in Nat |-> f[n]]
    BY <1>3
  <2>3. \A n \in Nat : f[n] = IF n = 0 THEN Reading
                              ELSE IF f[n - 1].res = "reading" THEN next_item(k, b, cap, f[n - 1])
                              ELSE f[n - 1]
    BY <1>3, <2>1
  <2> QED BY <2>2, <2>3 DEF ReadsVec
<1>6. ReadsVec(k, g, b, cap)
  BY <1>5
<1>7. decode_vec(k, b, cap) = g[Len(b) + 1]
  BY DEF decode_vec, ReadsVec
<1> HIDE DEF g
<1>8. g = f
  <2> DEFINE T == {n \in Nat : g[n] = f[n]}
  <2>0. \A n \in Nat : g[n] = IF n = 0 THEN Reading
                              ELSE IF g[n - 1].res = "reading" THEN next_item(k, b, cap, g[n - 1])
                              ELSE g[n - 1]
    BY <1>6 DEF ReadsVec
  <2>1. 0 \in T
    BY <1>3, <2>0
  <2>2. ASSUME NEW n \in T PROVE n + 1 \in T
    <3>1. n + 1 \in Nat /\ n + 1 # 0 /\ (n + 1) - 1 = n
      OBVIOUS
    <3>2. g[n + 1] = IF g[n].res = "reading" THEN next_item(k, b, cap, g[n]) ELSE g[n]
      BY <2>0, <3>1
    <3>3. g[n] = f[n] /\ n \in Nat
      OBVIOUS
    <3> HIDE DEF T
    <3>4. g[n + 1] = f[n + 1]
      BY <1>4, <3>2, <3>3
    <3> QED BY <3>1, <3>4 DEF T
  <2>3. T = Nat
    <3> HIDE DEF T
    <3>1. T \in SUBSET Nat
      BY DEF T
    <3> QED BY <2>1, <2>2, <3>1, NaturalsFrom
  <2>4. \A n \in Nat : g[n] = f[n]
    BY <2>3
  <2>5. g = [n \in Nat |-> g[n]] /\ f = [n \in Nat |-> f[n]]
    BY <1>3, <1>6 DEF ReadsVec
  <2> QED BY <2>4, <2>5
<1> QED BY <1>3, <1>4, <1>7, <1>8 DEF VecLoops

\* An element is read with its marker.
ReadsItem(k, b, cap, v, n, c, R) ==
  From(b, n) = <<1>> \o (k.encode[c] \o R) /\ Len(v) < cap =>
    next_item(k, b, cap, Reads(v, n)) = Reads(Append(v, c), n + (1 + Len(k.encode[c])))

\* Behind the first bytes from a position on are the ones from further on.
Twice(b, n, e, R) ==
  From(b, n) = e \o R => n + Len(e) \in 0..Len(b) /\ From(b, n + Len(e)) = R

\* From any two positions.
LEMMA FromTwice ==
  ASSUME NEW b \in Seq(Byte), NEW n \in 0..Len(b), NEW e \in Seq(Byte), NEW R \in Seq(Byte)
  PROVE  Twice(b, n, e, R)
<1> SUFFICES ASSUME From(b, n) = e \o R
             PROVE  n + Len(e) \in 0..Len(b) /\ From(b, n + Len(e)) = R
  BY DEF Twice
<1>1. Len(b) \in Nat /\ n \in Nat /\ Len(e) \in Nat /\ Len(R) \in Nat /\ n <= Len(b)
  BY LenProperties
<1>2. PICK r \in Seq(Byte) : r = From(b, n) /\ Len(r) = Len(b) - n /\ \A j \in 1..Len(b) - n : r[j] = b[n + j]
  BY FromIs
<1>3. Len(r) = Len(e) + Len(R) /\ \A j \in 1..Len(R) : r[Len(e) + j] = R[j]
  BY <1>2, BytesJoined
<1>4. PICK m \in 0..Len(b) : m = n + Len(e)
  BY <1>1, <1>2, <1>3
<1>5. Len(b) - m = Len(R) /\ m \in Nat
  BY <1>1, <1>2, <1>3, <1>4
<1>6. PICK s \in Seq(Byte) : s = From(b, m) /\ Len(s) = Len(b) - m /\ \A j \in 1..Len(b) - m : s[j] = b[m + j]
  BY FromIs
<1>7. \A j \in 1..Len(s) : s[j] = R[j]
  <2> SUFFICES ASSUME NEW j \in 1..Len(R) PROVE s[j] = R[j]
    BY <1>5, <1>6
  <2>1. j \in Nat /\ Len(e) + j \in 1..Len(b) - n /\ m + j = n + (Len(e) + j)
    BY <1>1, <1>2, <1>3, <1>4
  <2>2. s[j] = b[m + j] /\ r[Len(e) + j] = b[n + (Len(e) + j)]
    BY <1>2, <1>5, <1>6, <2>1
  <2> QED BY <1>3, <2>1, <2>2
<1>8. s = R
  BY <1>5, <1>6, <1>7, SeqEqual
<1> QED BY <1>4, <1>6, <1>8

\* A turn that stands before an element's encoding reads that element.
LEMMA ItemRead ==
  ASSUME NEW k, NEW F, k.encode \in [k.values -> Seq(Byte)], RoundTrips(k, F),
         NEW b \in Seq(Byte), NEW cap \in Nat, NEW v \in Seq(k.values), NEW n \in 0..Len(b),
         NEW c \in k.values, NEW R \in Continues(F)
  PROVE  ReadsItem(k, b, cap, v, n, c, R)
<1> SUFFICES ASSUME From(b, n) = << 1 >> \o (k.encode[c] \o R), Len(v) < cap
             PROVE  next_item(k, b, cap, Reads(v, n))
                      = Reads(Append(v, c), n + (1 + Len(k.encode[c])))
  BY DEF ReadsItem
<1>1. R \in Seq(Byte)
  BY DEF Continues
<1>2. PICK e \in Seq(Byte) : e = k.encode[c]
  OBVIOUS
<1>3. PICK Q \in Seq(Byte) : Q = e \o R
  BY <1>1, BytesJoined
<1>4. PICK o \in Seq(Byte) : o = <<1>> /\ Len(o) = 1 /\ o[1] = 1
  BY OneByte
<1>5. PICK rest \in Seq(Byte) : rest = From(b, n) /\ rest = o \o Q
  <2>1. o \o Q \in Seq(Byte)
    BY BytesJoined
  <2> QED BY <1>2, <1>3, <1>4, <2>1
<1>6. rest # <<>> /\ rest[1] = 1
  <2>1. Len(rest) = Len(o) + Len(Q) /\ (\A j \in 1..Len(o) : rest[j] = o[j]) /\ Len(Q) \in Nat
    <3>1. Len(o \o Q) = Len(o) + Len(Q) /\ \A j \in 1..Len(o) : (o \o Q)[j] = o[j]
      BY BytesJoined
    <3> QED BY <1>5, <3>1, LenProperties
  <2>2. 1 \in 1..Len(o) /\ Len(rest) # 0
    BY <1>4, <2>1
  <2>3. rest # <<>>
    BY <2>2
  <2> QED BY <1>4, <2>1, <2>2, <2>3
<1>7. From(b, n + 1) = Q
  <2>1. From(b, n) = o \o Q
    BY <1>5
  <2>2. From(b, n + Len(o)) = Q
    <3>1. Twice(b, n, o, Q)
      BY FromTwice
    <3> QED BY <2>1, <3>1 DEF Twice
  <2> QED BY <1>4, <2>2
<1>8. k.decode[Q] = Ok(c, Len(e))
  BY <1>2, <1>3 DEF RoundTrips
<1>9. Reads(v, n).value = v /\ Reads(v, n).used = n
  BY DEF Reads
<1>10. Ok(c, Len(e)).res = "ok" /\ Ok(c, Len(e)).value = c /\ Ok(c, Len(e)).used = Len(e)
  BY DEF Ok
<1>11. Len(v) # cap
  BY LenProperties
<1>12. rest[1] # 0 /\ vec_marker(rest[1])
  BY <1>6 DEF vec_marker
<1>13. next_item(k, b, cap, Reads(v, n)) = Read(Reads(v, n), c, 1 + Len(e))
  BY <1>5, <1>6, <1>7, <1>8, <1>9, <1>10, <1>11, <1>12 DEF next_item
<1>14. Read(Reads(v, n), c, 1 + Len(e)) = Reads(Append(v, c), n + (1 + Len(e)))
  BY DEF Read, Reads
<1> QED BY <1>2, <1>13, <1>14

\* The terminator ends the vector.
ReadsEnd(k, b, cap, v, n, x) ==
  From(b, n) = <<0>> \o x => next_item(k, b, cap, Reads(v, n)) = Ok(v, n + 1)

\* A turn that stands before the terminator ends the vector.
LEMMA VecEndRead ==
  ASSUME NEW k, NEW b, NEW cap, NEW v, NEW n, NEW x \in Seq(Byte)
  PROVE  ReadsEnd(k, b, cap, v, n, x)
<1> SUFFICES ASSUME From(b, n) = << 0 >> \o x
             PROVE  next_item(k, b, cap, Reads(v, n)) = Ok(v, n + 1)
  BY DEF ReadsEnd
<1>1. PICK z \in Seq(Byte) : z = <<0>> /\ Len(z) = 1 /\ z[1] = 0
  BY OneByte
<1>2. PICK rest \in Seq(Byte) : rest = From(b, n) /\ rest = z \o x
  BY <1>1, BytesJoined
<1>3. rest # <<>> /\ rest[1] = 0
  <2>1. Len(rest) = Len(z) + Len(x) /\ (\A j \in 1..Len(z) : rest[j] = z[j]) /\ Len(x) \in Nat
    BY <1>2, BytesJoined, LenProperties
  <2>2. 1 \in 1..Len(z) /\ Len(rest) # 0
    BY <1>1, <2>1
  <2>3. rest # <<>>
    BY <2>2
  <2> QED BY <1>1, <2>1, <2>2, <2>3
<1>4. Reads(v, n).value = v /\ Reads(v, n).used = n
  BY DEF Reads
<1> QED BY <1>2, <1>3, <1>4 DEF next_item

\* The beginning of bytes, with what comes next.
Grows(b, n, s) ==
  n + Len(s) <= Len(b) /\ (\A j \in 1..Len(s) : b[n + j] = s[j]) =>
    SubSeq(b, 1, n + Len(s)) = SubSeq(b, 1, n) \o s
\* All beginnings grow so.
LEMMA BytesGrow ==
  ASSUME NEW b \in Seq(Byte), NEW n \in 0..Len(b), NEW s \in Seq(Byte)
  PROVE  Grows(b, n, s)
BY BeginningGrows DEF Grows

\* What may have been read of a vector's bytes.
VecSoFar(k, b, cap) ==
  {Reads(v, n) : v \in BoundedSeq(k.values, cap), n \in 0..Len(b)}
VecRead(k, b, cap) ==
  {so \in VecSoFar(k, b, cap) : FlatVec(k, so.value) = SubSeq(b, 1, so.used)}
VecDone(k, b, cap) ==
  {Fails(e) : e \in Errors}
    \cup {d \in {Ok(v, n) : v \in BoundedSeq(k.values, cap), n \in 0..Len(b)} :
            EncodedVec(k, d.value) = SubSeq(b, 1, d.used)}

\* A turn of the vector's loop ends it or goes on behind what it has read.
LEMMA VecTurns ==
  ASSUME NEW k, Shaped(k), Canonical(k), NEW b \in Seq(Byte), NEW cap \in Nat,
         NEW so \in VecRead(k, b, cap)
  PROVE  \/ next_item(k, b, cap, so) \in VecDone(k, b, cap)
         \/ /\ next_item(k, b, cap, so) \in VecRead(k, b, cap)
            /\ next_item(k, b, cap, so).used > so.used
<1>0. k.encode \in [k.values -> Seq(Byte)] /\ k.decode \in [Seq(Byte) -> Results(k.values)]
  BY DEF Shaped
<1>1. PICK v \in BoundedSeq(k.values, cap), n \in 0..Len(b) :
        so = Reads(v, n) /\ FlatVec(k, v) = SubSeq(b, 1, n)
  <2>1. PICK v \in BoundedSeq(k.values, cap), n \in 0..Len(b) : so = Reads(v, n)
    BY DEF VecRead, VecSoFar
  <2>2. FlatVec(k, so.value) = SubSeq(b, 1, so.used)
    BY DEF VecRead
  <2>3. so.value = v /\ so.used = n
    BY <2>1 DEF Reads
  <2> QED BY <2>1, <2>2, <2>3
<1>2. v \in Seq(k.values) /\ Len(v) <= cap /\ Len(v) \in Nat /\ Len(b) \in Nat /\ n \in Nat
  BY Bounded, LenProperties
<1>3. PICK rest \in Seq(Byte) : /\ rest = From(b, n) /\ Len(rest) = Len(b) - n
                                /\ \A j \in 1..Len(b) - n : rest[j] = b[n + j]
  BY FromIs
<1>4. so.value = v /\ so.used = n
  BY <1>1, Readings
<1>5. PICK item : item = k.decode[From(b, n + 1)]
  OBVIOUS
<1>6. PICK next : next = next_item(k, b, cap, so)
  OBVIOUS
<1>7. next = IF rest = <<>> THEN Fails("Truncated")
             ELSE IF rest[1] = 0 THEN Ok(v, n + 1)
             ELSE IF ~vec_marker(rest[1]) THEN Fails("Malformed")
             ELSE IF item.res # "ok" THEN item
             ELSE IF Len(v) = cap THEN Fails("CapacityExceeded")
             ELSE Read(so, item.value, 1 + item.used)
  BY <1>3, <1>4, <1>5, <1>6 DEF next_item
<1>8. \A e \in Errors : Fails(e) \in VecDone(k, b, cap)
  BY DEF VecDone
<1>9. "Truncated" \in Errors /\ "Malformed" \in Errors /\ "CapacityExceeded" \in Errors
  BY DEF Errors
<1>10. CASE rest = <<>>
  BY <1>6, <1>7, <1>8, <1>9, <1>10
<1>11. CASE rest # <<>>
  <2>1. n < Len(b) /\ 1 \in 1..Len(b) - n /\ rest[1] = b[n + 1] /\ rest[1] \in Byte
    <3>1. Len(rest) # 0
      BY <1>11, EmptySeq
    <3>2. 1 \in 1..Len(rest)
      BY <1>2, <1>3, <3>1
    <3>3. rest[1] \in Byte
      BY <3>2, ElementOfSeq
    <3> QED BY <1>2, <1>3, <3>1, <3>2, <3>3
  <2>2. CASE rest[1] = 0
    <3>1. next = Ok(v, n + 1)
      BY <1>7, <1>11, <2>2
    <3>2. PICK z \in Seq(Byte) : z = <<0>> /\ Len(z) = 1 /\ z[1] = 0
      BY OneByte
    <3>3. n + Len(z) <= Len(b) /\ \A j \in 1..Len(z) : b[n + j] = z[j]
      <4>1. \A j \in 1..1 : j = 1
        OBVIOUS
      <4>2. n + 1 <= Len(b) /\ b[n + 1] = z[1]
        BY <1>2, <2>1, <2>2, <3>2
      <4>3. \A j \in 1..Len(z) : b[n + j] = z[j]
        BY <3>2, <4>1, <4>2
      <4> QED BY <3>2, <4>2, <4>3
    <3>4. SubSeq(b, 1, n + Len(z)) = SubSeq(b, 1, n) \o z
      BY <3>3, BeginningGrows
    <3>5. EncodedVec(k, v) = SubSeq(b, 1, n + 1)
      BY <1>1, <3>2, <3>4 DEF EncodedVec
    <3>6. n + 1 \in 0..Len(b)
      BY <1>2, <2>1
    <3>7. Ok(v, n + 1).value = v /\ Ok(v, n + 1).used = n + 1
      BY DEF Ok
    <3>8. next \in VecDone(k, b, cap)
      BY <3>1, <3>5, <3>6, <3>7 DEF VecDone
    <3> QED BY <1>6, <3>8
  <2>3. CASE rest[1] # 0 /\ ~vec_marker(rest[1])
    BY <1>6, <1>7, <1>8, <1>9, <1>11, <2>3
  <2>4. CASE rest[1] # 0 /\ vec_marker(rest[1])
    <3>1. n + 1 \in 0..Len(b) /\ n + 1 \in Nat /\ rest[1] = 1
      BY <1>2, <2>1, <2>4 DEF vec_marker
    <3>2. PICK Q \in Seq(Byte) : Q = From(b, n + 1) /\ Len(Q) = Len(b) - (n + 1)
                                 /\ \A j \in 1..Len(b) - (n + 1) : Q[j] = b[(n + 1) + j]
      BY <3>1, FromIs
    <3>3. item = k.decode[Q] /\ item \in Results(k.values)
      BY <1>0, <1>5, <3>2
    <3>4. CASE item \in {Fails(e) : e \in Errors}
      <4>1. PICK e \in Errors : item = Fails(e)
        BY <3>4
      <4>2. item.res # "ok"
        BY <4>1, Answers
      <4>3. next = item
        BY <1>7, <1>11, <2>4, <4>2
      <4> QED BY <1>6, <1>8, <4>1, <4>3
    <3>5. CASE item \notin {Fails(e) : e \in Errors}
      <4>1. PICK c \in k.values, l \in Nat : item = Ok(c, l)
        <5>1. item \in {Ok(w, h) : w \in k.values, h \in Nat}
          BY <3>3, <3>5, SMTT(30) DEF Results
        <5> QED BY <5>1, SMTT(30)
      <4>2. item.res = "ok" /\ item.value = c /\ item.used = l
        BY <4>1 DEF Ok
      <4>3. l \in 0..Len(Q) /\ k.encode[c] = SubSeq(Q, 1, l)
        <5>1. k.decode[Q] = Ok(c, l)
          BY <3>3, <4>1
        <5> QED BY <5>1 DEF Canonical
      <4>4. CASE Len(v) = cap
        <5>1. next = Fails("CapacityExceeded")
          BY <1>7, <1>11, <2>4, <4>2, <4>4
        <5> QED BY <1>6, <1>8, <1>9, <5>1
      <4>5. CASE Len(v) # cap
        <5>1. PICK e \in Seq(Byte) : e = k.encode[c]
          BY <1>0
        <5>2. Len(e) = l /\ \A j \in 1..l : e[j] = Q[j]
          <6>1. \A j \in 1..l : Q[j] \in Byte
            <7>1. Len(Q) \in Nat
              BY LenProperties
            <7>2. \A j \in 1..l : j \in 1..Len(Q)
              BY <4>3, <7>1
            <7> QED BY <7>2, ElementOfSeq
          <6>2. Len(SubSeq(Q, 1, l)) = l /\ \A j \in 1..l : SubSeq(Q, 1, l)[j] = Q[j]
            BY <6>1, SubSeqProperties
          <6> QED BY <4>3, <5>1, <6>2
        <5>3. PICK o \in Seq(Byte) : o = <<1>> /\ Len(o) = 1 /\ o[1] = 1
          BY OneByte
        <5>4. PICK p \in Seq(Byte) : /\ p = o \o e /\ Len(p) = 1 + l
                                     /\ p[1] = 1 /\ \A j \in 1..l : p[1 + j] = e[j]
          <6>1. /\ o \o e \in Seq(Byte) /\ Len(o \o e) = Len(o) + Len(e)
                /\ \A j \in 1..Len(o) : (o \o e)[j] = o[j]
                /\ \A j \in 1..Len(e) : (o \o e)[Len(o) + j] = e[j]
            BY BytesJoined
          <6>2. 1 \in 1..Len(o)
            BY <5>3
          <6>3. (o \o e)[1] = 1 /\ Len(o \o e) = 1 + l /\ \A j \in 1..l : (o \o e)[1 + j] = e[j]
            BY <5>2, <5>3, <6>1, <6>2
          <6> QED BY <6>1, <6>3
        <5>5. n + Len(p) <= Len(b) /\ n + Len(p) \in 0..Len(b)
          <6>1. l <= Len(b) - (n + 1) /\ l \in Nat
            BY <3>2, <4>3
          <6>2. Len(p) = 1 + l /\ n \in Nat /\ Len(b) \in Nat
            BY <1>2, <5>4
          <6> QED BY <6>1, <6>2
        <5>6. \A j \in 1..Len(p) : b[n + j] = p[j]
          <6> SUFFICES ASSUME NEW j \in 1..1 + l PROVE b[n + j] = p[j]
            BY <5>4
          <6>1. CASE j = 1
            BY <2>1, <3>1, <5>4, <6>1
          <6>2. CASE j # 1
            <7>1. PICK i \in 1..l : j = 1 + i
              <8>1. j - 1 \in 1..l /\ j = 1 + (j - 1)
                BY <6>2
              <8> QED BY <8>1
            <7>2. i \in 1..Len(b) - (n + 1) /\ i \in Nat
              BY <1>2, <3>2, <4>3
            <7>3. Q[i] = b[(n + 1) + i] /\ p[1 + i] = e[i] /\ e[i] = Q[i]
              BY <3>2, <5>2, <5>4, <7>2
            <7>4. (n + 1) + i = n + j
              BY <1>2, <7>1, <7>2
            <7> QED BY <7>1, <7>3, <7>4
          <6> QED BY <6>1, <6>2
        <5>7. SubSeq(b, 1, n + Len(p)) = SubSeq(b, 1, n) \o p
          <6>1. n + Len(p) <= Len(b)
            BY <5>5
          <6>2. Grows(b, n, p)
            BY BytesGrow
          <6> QED BY <5>6, <6>1, <6>2 DEF Grows
        <5>8. PICK w \in Seq(k.values) : w = Append(v, c) /\ Len(w) = Len(v) + 1
          <6>1. Append(v, c) \in Seq(k.values) /\ Len(Append(v, c)) = Len(v) + 1
            BY <1>2, AppendProperties
          <6> QED BY <6>1
        <5>9. FlatVec(k, w) = SubSeq(b, 1, n + Len(p))
          <6>1. FlatVec(k, Append(v, c)) = FlatVec(k, v) \o (<<1>> \o k.encode[c])
            BY <1>0, <1>2, FlatVecAppend
          <6> QED BY <1>1, <5>1, <5>3, <5>4, <5>7, <5>8, <6>1
        <5>10. next = Reads(w, n + Len(p))
          <6>1. next = Read(so, c, 1 + l)
            BY <1>7, <1>11, <2>4, <4>2, <4>5
          <6>2. Read(so, c, 1 + l) = Reads(w, n + (1 + l))
            BY <1>1, <5>8 DEF Read, Reads
          <6> QED BY <5>4, <6>1, <6>2
        <5>11. w \in BoundedSeq(k.values, cap)
          <6>1. Len(w) <= cap
            BY <1>2, <4>5, <5>8
          <6> QED BY <6>1, Bounded
        <5>12. next.value = w /\ next.used = n + Len(p)
          BY <5>10 DEF Reads
        <5>13. next \in VecRead(k, b, cap)
          <6>1. next \in VecSoFar(k, b, cap)
            BY <5>5, <5>10, <5>11 DEF VecSoFar
          <6> QED BY <5>9, <5>12, <6>1 DEF VecRead
        <5>14. next.used > so.used
          BY <1>2, <1>4, <4>3, <5>4, <5>12
        <5> QED BY <1>6, <5>13, <5>14
      <4> QED BY <4>4, <4>5
    <3> QED BY <3>4, <3>5
  <2> QED BY <2>2, <2>3, <2>4
<1> QED BY <1>10, <1>11

\* What stands behind an element: a marker, or the terminator.
Behind(k, F, v, i, y) ==
  /\ FlattenSeq(SubSeq(Marked(k, v), i + 1, Len(Marked(k, v)))) \in Seq(Byte)
  /\ FlattenSeq(SubSeq(Marked(k, v), i + 1, Len(Marked(k, v)))) \o y \in Continues(F)

\* What comes after an element begins with the next marker or the terminator.
LEMMA StandsBehind ==
  ASSUME NEW k, k.encode \in [k.values -> Seq(Byte)], NEW F, 0 \in F, 1 \in F,
         NEW v \in Seq(k.values), NEW i \in 1..Len(v),
         NEW y \in Seq(Byte), y # <<>>, y[1] = 0
  PROVE  Behind(k, F, v, i, y)
<1>1. IsMarked(k, v)
  BY MarkedIs
<1>2. PICK p \in Seq(Seq(Byte)) : /\ p = Marked(k, v) /\ Len(p) = Len(v)
                                  /\ \A j \in 1..Len(v) : p[j] # <<>> /\ p[j][1] = 1
  BY <1>1 DEF IsMarked
<1>3. i \in 1..Len(p) /\ i \in Nat /\ Len(p) \in Nat
  BY <1>2, LenProperties
<1>4. PICK r \in Seq(Seq(Byte)) : /\ r = SubSeq(p, i + 1, Len(p)) /\ Len(r) = Len(p) - i
                                  /\ \A j \in 1..Len(p) - i : r[j] = p[i + j]
  <2>1. /\ SubSeq(p, i + 1, Len(p)) \in Seq(Seq(Byte)) /\ Len(SubSeq(p, i + 1, Len(p))) = Len(p) - i
        /\ \A j \in 1..Len(p) - i : SubSeq(p, i + 1, Len(p))[j] = p[i + j]
    BY <1>3, Parted
  <2> QED BY <2>1
<1>5. \A j \in 1..Len(r) : r[j] # <<>> /\ r[j][1] = 1
  <2> SUFFICES ASSUME NEW j \in 1..Len(p) - i PROVE r[j] # <<>> /\ r[j][1] = 1
    BY <1>4
  <2>1. i + j \in 1..Len(v)
    BY <1>2, <1>3
  <2> QED BY <1>2, <1>4, <2>1
<1>6. FlattenSeq(r) \o y \in Continues(F)
  BY <1>5, MarkedContinues
<1>7. FlattenSeq(r) \in Seq(Byte)
  BY FlattenStep
<1> QED BY <1>2, <1>4, <1>6, <1>7 DEF Behind

\* Vectors of elements in that order encode in that order.
LEMMA VecOrder ==
  ASSUME NEW k, NEW F, 0 \in F, 1 \in F, Shaped(k), Orders(k, F),
         NEW v \in Seq(k.values), NEW w \in Seq(k.values),
         NEW i \in 1..Len(w), i <= Len(v) + 1, \A j \in 1..i - 1 : v[j] = w[j],
         i <= Len(v) => <<v[i], w[i]>> \in k.below,
         NEW x \in Seq(Byte), NEW y \in Seq(Byte)
  PROVE  memcmp(EncodedVec(k, v) \o x, EncodedVec(k, w) \o y)
<1>0. k.encode \in [k.values -> Seq(Byte)]
  BY DEF Shaped
<1>1. IsMarked(k, v) /\ IsMarked(k, w)
  BY <1>0, MarkedIs
<1>2. PICK p \in Seq(Seq(Byte)) : /\ p = Marked(k, v) /\ Len(p) = Len(v)
                                  /\ \A j \in 1..Len(v) : p[j] = <<1>> \o k.encode[v[j]]
  BY <1>1 DEF IsMarked
<1>3. PICK q \in Seq(Seq(Byte)) : /\ q = Marked(k, w) /\ Len(q) = Len(w)
                                  /\ \A j \in 1..Len(w) : q[j] = <<1>> \o k.encode[w[j]]
  BY <1>1 DEF IsMarked
<1>4. Len(v) \in Nat /\ Len(w) \in Nat /\ i \in Nat
  BY LenProperties
<1>5. PICK z \in Seq(Byte) : z = <<0>> /\ Len(z) = 1 /\ z[1] = 0
  BY OneByte
<1>6. PICK o \in Seq(Byte) : o = <<1>>
  BY OneByte
<1>7. \A u \in Seq(Byte) : z \o u \in Seq(Byte) /\ z \o u # <<>> /\ (z \o u)[1] = 0
  <2> SUFFICES ASSUME NEW u \in Seq(Byte) PROVE z \o u \in Seq(Byte) /\ z \o u # <<>> /\ (z \o u)[1] = 0
    OBVIOUS
  <2>1. z \o u \in Seq(Byte) /\ Len(z \o u) = Len(z) + Len(u) /\ \A j \in 1..Len(z) : (z \o u)[j] = z[j]
    BY BytesJoined
  <2>2. Len(z \o u) # 0 /\ (z \o u)[1] = 0
    BY <1>5, <2>1, LenProperties
  <2> QED BY <2>1, <2>2, EmptySeq
<1>8. PICK X \in Seq(Byte) : X = z \o x /\ X # <<>> /\ X[1] = 0
  BY <1>7
<1>9. PICK Y \in Seq(Byte) : Y = z \o y /\ Y # <<>> /\ Y[1] = 0
  BY <1>7
<1>10. i \in 1..Len(q) /\ i <= Len(p) + 1 /\ \A j \in 1..i - 1 : p[j] = q[j]
  <2>1. \A j \in 1..i - 1 : j \in 1..Len(v) /\ j \in 1..Len(w)
    BY <1>4
  <2> QED BY <1>2, <1>3, <2>1
<1>11. PICK qq \in Seq(Byte), Q \in Continues(F) :
         qq = FlattenSeq(SubSeq(q, i + 1, Len(q))) /\ Q = qq \o Y
  <2>1. Behind(k, F, w, i, Y)
    BY <1>0, <1>9, StandsBehind
  <2> QED BY <1>3, <2>1 DEF Behind
<1>12. PICK e \in Seq(Byte) : e = k.encode[w[i]] /\ q[i] = o \o e /\ w[i] \in k.values
  <2>1. w[i] \in k.values
    BY ElementOfSeq
  <2> QED BY <1>0, <1>3, <1>6, <2>1
<1>13. PICK E \in Seq(Byte) : E = e \o Q /\ q[i] \o Q = o \o E
  <2>1. Q \in Seq(Byte)
    BY DEF Continues
  <2>2. Assoc(o, e, Q)
    BY <2>1, Regroup
  <2>3. e \o Q \in Seq(Byte)
    BY <2>1, BytesJoined
  <2> QED BY <1>12, <2>2, <2>3 DEF Assoc
<1>14. ASSUME i <= Len(p)
       PROVE  memcmp(p[i] \o (FlattenSeq(SubSeq(p, i + 1, Len(p))) \o X), q[i] \o Q)
  <2>1. i \in 1..Len(v) /\ <<v[i], w[i]>> \in k.below /\ v[i] \in k.values
    <3>1. i \in 1..Len(v)
      BY <1>2, <1>4, <1>14
    <3> QED BY <1>4, <3>1, ElementOfSeq
  <2>2. PICK pp \in Seq(Byte), P \in Continues(F) :
          pp = FlattenSeq(SubSeq(p, i + 1, Len(p))) /\ P = pp \o X
    <3>1. Behind(k, F, v, i, X)
      BY <1>0, <1>8, <2>1, StandsBehind
    <3> QED BY <1>2, <3>1 DEF Behind
  <2>3. PICK d \in Seq(Byte) : d = k.encode[v[i]] /\ p[i] = o \o d
    BY <1>0, <1>2, <1>6, <2>1
  <2>4. PICK D \in Seq(Byte) : D = d \o P /\ p[i] \o P = o \o D
    <3>1. P \in Seq(Byte)
      BY DEF Continues
    <3>2. Assoc(o, d, P)
      BY <3>1, Regroup, Zenon
    <3>3. d \o P \in Seq(Byte)
      BY <3>1, BytesJoined, SMTT(30)
    <3> QED BY <2>3, <3>2, <3>3 DEF Assoc
  <2>5. memcmp(D, E)
    BY <1>12, <1>13, <2>1, <2>3, <2>4 DEF Orders
  <2>6. memcmp(o \o D, o \o E)
    BY <2>5, AfterSame
  <2> QED BY <1>13, <2>2, <2>4, <2>6
<1>15. ASSUME i = Len(p) + 1 PROVE memcmp(X, q[i] \o Q)
  <2>1. 0 \in Byte /\ 1 \in Byte /\ 0 < 1
    BY ByteIs
  <2>2. memcmp(<<0>> \o x, <<1>> \o E)
    BY <2>1, Headed
  <2> QED BY <1>5, <1>6, <1>8, <1>13, <2>2
<1>16. memcmp(FlattenSeq(p) \o X, FlattenSeq(q) \o Y)
  BY <1>10, <1>11, <1>14, <1>15, FlattenOrder
<1>17. PICK fv \in Seq(Byte) : fv = FlattenSeq(p) /\ EncodedVec(k, v) = fv \o z
  BY <1>1, <1>2, <1>5 DEF IsMarked, EncodedVec, FlatVec
<1>18. PICK fw \in Seq(Byte) : fw = FlattenSeq(q) /\ EncodedVec(k, w) = fw \o z
  BY <1>1, <1>3, <1>5 DEF IsMarked, EncodedVec, FlatVec
<1>19. (fv \o z) \o x = fv \o (z \o x) /\ (fw \o z) \o y = fw \o (z \o y)
  <2>1. Assoc(fv, z, x) /\ Assoc(fw, z, y)
    BY Regroup
  <2> QED BY <2>1 DEF Assoc
<1> QED BY <1>8, <1>9, <1>16, <1>17, <1>18, <1>19

\* A vector needs no more than a marker and its bytes for each element, and one.
LEMMA VecFits ==
  ASSUME NEW k, Shaped(k), Fits(k), NEW v \in Seq(k.values)
  PROVE  /\ EncodedVec(k, v) \in Seq(Byte) /\ Len(EncodedVec(k, v)) = Len(FlatVec(k, v)) + 1
         /\ Len(EncodedVec(k, v)) <= Len(v) * (1 + k.max) + 1
<1>0. k.encode \in [k.values -> Seq(Byte)] /\ k.max \in Nat
  BY DEF Shaped
<1>1. IsMarked(k, v)
  BY <1>0, MarkedIs
<1>2. PICK p \in Seq(Seq(Byte)) : /\ p = Marked(k, v) /\ Len(p) = Len(v)
                                  /\ \A j \in 1..Len(v) : Len(p[j]) = 1 + Len(k.encode[v[j]])
  BY <1>1 DEF IsMarked
<1>3. PICK m \in Nat : m = 1 + k.max
  BY <1>0
<1>4. \A i \in 1..Len(p) : Len(p[i]) <= m
  <2> SUFFICES ASSUME NEW i \in 1..Len(v) PROVE Len(p[i]) <= m
    BY <1>2
  <2>1. v[i] \in k.values
    BY ElementOfSeq
  <2>2. Len(k.encode[v[i]]) <= k.max /\ Len(k.encode[v[i]]) \in Nat
    <3>1. k.encode[v[i]] \in Seq(Byte)
      BY <1>0, <2>1
    <3> QED BY <2>1, <3>1, LenProperties DEF Fits
  <2> QED BY <1>0, <1>2, <1>3, <2>2
<1>5. Len(FlattenSeq(p)) <= Len(p) * m
  BY <1>4, FlattenBound
<1>6. PICK f \in Seq(Byte) : f = FlatVec(k, v) /\ EncodedVec(k, v) = f \o <<0>>
  BY <1>1 DEF IsMarked, EncodedVec
<1>7. f \o <<0>> \in Seq(Byte) /\ Len(f \o <<0>>) = Len(f) + 1
  BY OneByte, BytesJoined
<1>8. Len(f) <= Len(v) * m
  BY <1>2, <1>5, <1>6 DEF FlatVec
<1>9. PICK a \in Nat : a = Len(v) * m
  BY LenProperties
<1>10. Len(f) + 1 <= a + 1
  BY <1>8, <1>9, LenProperties
<1> QED BY <1>3, <1>6, <1>7, <1>9, <1>10

\* The loop never leaves what may have been read.
LEMMA VecRuns ==
  ASSUME NEW k, Shaped(k), Canonical(k), NEW b \in Seq(Byte), NEW cap \in Nat,
         NEW X, X = VecRead(k, b, cap) \cup VecDone(k, b, cap)
  PROVE  /\ VecLoops(k, b, cap, X)
         /\ Reading \in VecRead(k, b, cap)
         /\ \A so \in VecDone(k, b, cap) : so.res # "reading"
         /\ \A so \in VecRead(k, b, cap) : so.res = "reading" /\ so.used \in 0..Len(b)
<1>0. Len(b) \in Nat
  BY LenProperties
<1>1. Reading \in VecRead(k, b, cap)
  <2>1. <<>> \in BoundedSeq(k.values, cap) /\ 0 \in 0..Len(b)
    <3>1. <<>> \in Seq(k.values) /\ Len(<<>>) <= cap
      OBVIOUS
    <3>2. <<>> \in BoundedSeq(k.values, cap)
      BY <3>1, Bounded
    <3> QED BY <1>0, <3>2
  <2>2. Reads(<<>>, 0) \in VecSoFar(k, b, cap)
    BY <2>1 DEF VecSoFar
  <2>3. SubSeq(b, 1, 0) = <<>>
    BY SubSeqEmpty
  <2>4. FlatVec(k, <<>>) = <<>>
    BY FlatVecAppend DEF Shaped
  <2> QED BY <2>2, <2>3, <2>4, Readings DEF VecRead
<1>2. \A so \in VecDone(k, b, cap) : so.res # "reading"
  BY Readings DEF VecDone
<1>3. \A so \in VecRead(k, b, cap) : so.res = "reading" /\ so.used \in 0..Len(b)
  BY Readings DEF VecRead, VecSoFar
<1>4. \A so \in X : so.res = "reading" => so \in VecRead(k, b, cap)
  BY <1>2
<1>5. \A so \in X : so.res = "reading" => next_item(k, b, cap, so) \in X
  BY <1>4, VecTurns
<1>6. Reading \in X
  BY <1>1
<1>7. VecLoops(k, b, cap, X)
  BY <1>5, <1>6, VecLoop
<1> QED BY <1>1, <1>2, <1>3, <1>7

\* The loop ends, with a failure or a vector whose encoding the bytes begin with.
LEMMA VecEnds ==
  ASSUME NEW k, Shaped(k), Canonical(k), NEW b \in Seq(Byte), NEW cap \in Nat
  PROVE  decode_vec(k, b, cap) \in VecDone(k, b, cap)
<1>0. Len(b) \in Nat
  BY LenProperties
<1>x. PICK X : X = VecRead(k, b, cap) \cup VecDone(k, b, cap)
  OBVIOUS
<1>7. /\ VecLoops(k, b, cap, X)
      /\ Reading \in VecRead(k, b, cap)
      /\ \A so \in VecDone(k, b, cap) : so.res # "reading"
      /\ \A so \in VecRead(k, b, cap) : so.res = "reading" /\ so.used \in 0..Len(b)
  BY <1>x, VecRuns
<1>1. Reading \in VecRead(k, b, cap)
  BY <1>7
<1>2. \A so \in VecDone(k, b, cap) : so.res # "reading"
  BY <1>7
<1>3. \A so \in VecRead(k, b, cap) : so.res = "reading" /\ so.used \in 0..Len(b)
  BY <1>7
<1>8. PICK f \in [Nat -> X] :
        /\ f[0] = Reading
        /\ \A n \in Nat : f[n + 1] = IF f[n].res = "reading" THEN next_item(k, b, cap, f[n]) ELSE f[n]
        /\ decode_vec(k, b, cap) = f[Len(b) + 1]
  BY <1>7 DEF VecLoops
<1> DEFINE T == {n \in Nat : f[n] \in VecDone(k, b, cap) \/ (f[n] \in VecRead(k, b, cap) /\ f[n].used >= n)}
<1>9. 0 \in T
  BY <1>1, <1>8 DEF Reading
<1>10. ASSUME NEW n \in T PROVE n + 1 \in T
  <2>1. CASE f[n] \in VecDone(k, b, cap)
    <3>1. f[n + 1] = f[n]
      BY <1>2, <1>8, <2>1
    <3> QED BY <2>1, <3>1
  <2>2. CASE f[n] \in VecRead(k, b, cap) /\ f[n].used >= n
    <3>1. f[n + 1] = next_item(k, b, cap, f[n])
      BY <1>3, <1>8, <2>2
    <3>2. CASE next_item(k, b, cap, f[n]) \in VecDone(k, b, cap)
      BY <3>1, <3>2
    <3>3. CASE next_item(k, b, cap, f[n]) \in VecRead(k, b, cap) /\ next_item(k, b, cap, f[n]).used > f[n].used
      <4>1. f[n].used \in Nat /\ f[n + 1].used \in Nat /\ n \in Nat
        BY <1>0, <1>3, <2>2, <3>1, <3>3
      <4>2. f[n + 1].used >= n + 1
        BY <2>2, <3>1, <3>3, <4>1
      <4> QED BY <3>1, <3>3, <4>2
    <3> QED BY <2>2, <3>2, <3>3, VecTurns
  <2> QED BY <2>1, <2>2
<1>11. T = Nat
  <2> HIDE DEF T
  <2>1. T \in SUBSET Nat
    BY DEF T
  <2> QED BY <1>9, <1>10, <2>1, NaturalsFrom
<1>12. Len(b) + 1 \in T
  BY <1>0, <1>11
<1>13. ~(f[Len(b) + 1] \in VecRead(k, b, cap) /\ f[Len(b) + 1].used >= Len(b) + 1)
  <2>1. ASSUME NEW so \in VecRead(k, b, cap) PROVE ~(so.used >= Len(b) + 1)
    BY <1>0, <1>3, SMTT(30)
  <2> QED BY <2>1, Zenon
<1> QED BY <1>8, <1>12, <1>13

\* A vector's bytes are those of its beginning, an element, and what stands behind.
HasParts(k, F, v, i, y) ==
  \E s \in Seq(k.values), R \in Continues(F) :
    /\ s = SubSeq(v, 1, i - 1) /\ Len(s) = i - 1
    /\ SubSeq(v, 1, i) = Append(s, v[i])
    /\ FlatVec(k, v) \o y = FlatVec(k, s) \o (<<1>> \o (k.encode[v[i]] \o R))

\* A vector's bytes are those before an element, its own and those after it.
LEMMA VecParts ==
  ASSUME NEW k, k.encode \in [k.values -> Seq(Byte)], NEW F, 0 \in F, 1 \in F,
         NEW v \in Seq(k.values), NEW i \in 1..Len(v), NEW y \in Seq(Byte), y # <<>>, y[1] = 0
  PROVE  HasParts(k, F, v, i, y)
<1>1. Len(v) \in Nat /\ i \in Nat /\ i - 1 \in Nat /\ v[i] \in k.values
  BY LenProperties, ElementOfSeq
<1>2. PICK s \in Seq(k.values) : /\ s = SubSeq(v, 1, i - 1) /\ Len(s) = i - 1
                                 /\ \A j \in 1..i - 1 : s[j] = v[j]
                                 /\ SubSeq(v, 1, i) = Append(s, v[i])
  <2>1. /\ SubSeq(v, 1, i - 1) \in Seq(k.values) /\ Len(SubSeq(v, 1, i - 1)) = i - 1
        /\ \A j \in 1..i - 1 : SubSeq(v, 1, i - 1)[j] = v[j]
        /\ SubSeq(v, 1, i) = Append(SubSeq(v, 1, i - 1), v[i])
    BY Parted, ZenonT(60)
  <2> QED BY <2>1
<1>3. PICK p \in Seq(Seq(Byte)) : /\ p = Marked(k, v) /\ Len(p) = Len(v)
                                  /\ \A j \in 1..Len(v) : p[j] = <<1>> \o k.encode[v[j]]
  <2>1. IsMarked(k, v)
    BY MarkedIs
  <2> QED BY <2>1 DEF IsMarked
<1>4. PICK q \in Seq(Seq(Byte)) : /\ q = Marked(k, s) /\ Len(q) = Len(s)
                                  /\ \A j \in 1..Len(s) : q[j] = <<1>> \o k.encode[s[j]]
  <2>1. IsMarked(k, s)
    BY MarkedIs
  <2> QED BY <2>1 DEF IsMarked
<1>5. i \in 1..Len(p)
  BY <1>3
<1>6. PICK r \in Seq(Seq(Byte)) : r = SubSeq(p, 1, i - 1) /\ Len(r) = i - 1 /\ \A j \in 1..i - 1 : r[j] = p[j]
  <2>1. /\ SubSeq(p, 1, i - 1) \in Seq(Seq(Byte)) /\ Len(SubSeq(p, 1, i - 1)) = i - 1
        /\ \A j \in 1..i - 1 : SubSeq(p, 1, i - 1)[j] = p[j]
    BY <1>5, Parted
  <2> QED BY <2>1
<1>7. q = r
  <2>1. \A j \in 1..i - 1 : j \in 1..Len(v) /\ j \in 1..Len(s)
    BY <1>1, <1>2
  <2>2. \A j \in 1..Len(q) : q[j] = r[j]
    <3> SUFFICES ASSUME NEW j \in 1..i - 1 PROVE q[j] = r[j]
      BY <1>2, <1>4
    <3>1. j \in 1..Len(v) /\ j \in 1..Len(s) /\ s[j] = v[j]
      BY <1>2, <2>1
    <3>2. q[j] = <<1>> \o k.encode[v[j]] /\ p[j] = <<1>> \o k.encode[v[j]]
      BY <1>3, <1>4, <3>1
    <3> QED BY <1>6, <3>2
  <2>3. Len(q) = Len(r)
    BY <1>2, <1>4, <1>6
  <2> QED BY <2>2, <2>3, SeqEqual
<1>8. PICK R0 \in Seq(Byte), R \in Continues(F) : R0 = FlattenSeq(SubSeq(p, i + 1, Len(p))) /\ R = R0 \o y
  <2>1. Behind(k, F, v, i, y)
    BY StandsBehind
  <2> QED BY <1>3, <2>1 DEF Behind
<1>9. FlattenSeq(p) = FlattenSeq(SubSeq(p, 1, i - 1)) \o (p[i] \o FlattenSeq(SubSeq(p, i + 1, Len(p))))
  BY <1>5, FlattenAround
<1>10. PICK fs \in Seq(Byte) : fs = FlatVec(k, s) /\ fs = FlattenSeq(q)
  <2>1. IsMarked(k, s)
    BY MarkedIs
  <2> QED BY <1>4, <2>1 DEF IsMarked, FlatVec
<1>11. PICK e \in Seq(Byte) : e = k.encode[v[i]]
  BY <1>1
<1>12. PICK o \in Seq(Byte) : o = <<1>>
  BY OneByte
<1>13. PICK c \in Seq(Byte) : c = o \o e /\ c = p[i]
  <2>1. o \o e \in Seq(Byte)
    BY BytesJoined
  <2> QED BY <1>3, <1>11, <1>12, <2>1
<1>14. FlatVec(k, v) = fs \o (c \o R0)
  BY <1>3, <1>6, <1>7, <1>8, <1>9, <1>10, <1>13 DEF FlatVec
<1>15. (fs \o (c \o R0)) \o y = fs \o (c \o R)
  <2>1. Around(fs, c, R0, y)
    BY RegroupAround
  <2> QED BY <1>8, <2>1 DEF Around
<1>16. c \o R = o \o (e \o R)
  <2>1. R \in Seq(Byte)
    BY DEF Continues
  <2>2. Assoc(o, e, R)
    BY <2>1, Regroup, Zenon
  <2> QED BY <1>13, <2>2 DEF Assoc
<1>17. FlatVec(k, v) \o y = FlatVec(k, s) \o (<<1>> \o (k.encode[v[i]] \o R))
  BY <1>10, <1>11, <1>12, <1>14, <1>15, <1>16
<1> QED BY <1>2, <1>8, <1>17 DEF HasParts

\* A vector comes back from its bytes.
LEMMA VecReturns ==
  ASSUME NEW k, NEW F, 0 \in F, 1 \in F, Laws(k, F),
         NEW cap \in Nat, NEW v \in Seq(k.values), Len(v) <= cap, NEW x \in Seq(Byte)
  PROVE  decode_vec(k, EncodedVec(k, v) \o x, cap) = Ok(v, Len(EncodedVec(k, v)))
<1>0. /\ Shaped(k) /\ Canonical(k) /\ RoundTrips(k, F) /\ Fits(k)
      /\ k.encode \in [k.values -> Seq(Byte)]
  BY DEF Laws, Shaped
<1>1. Len(v) \in Nat
  BY LenProperties
<1>2. PICK z \in Seq(Byte) : z = <<0>> /\ Len(z) = 1 /\ z[1] = 0
  BY OneByte
<1>3. PICK y \in Seq(Byte) : y = z \o x /\ y # <<>> /\ y[1] = 0
  <2>1. z \o x \in Seq(Byte) /\ Len(z \o x) = Len(z) + Len(x) /\ \A j \in 1..Len(z) : (z \o x)[j] = z[j]
    BY BytesJoined
  <2>2. Len(z \o x) # 0 /\ (z \o x)[1] = 0
    BY <1>2, <2>1, LenProperties
  <2> QED BY <2>1, <2>2, EmptySeq
<1>4. PICK fv \in Seq(Byte) : fv = FlatVec(k, v) /\ EncodedVec(k, v) = fv \o z
  <2>1. IsMarked(k, v)
    BY <1>0, MarkedIs
  <2> QED BY <1>2, <2>1 DEF IsMarked, EncodedVec
<1>5. PICK b \in Seq(Byte) : b = EncodedVec(k, v) \o x /\ b = fv \o y
  <2>1. Assoc(fv, z, x)
    BY Regroup
  <2>2. EncodedVec(k, v) \o x = fv \o y
    BY <1>3, <1>4, <2>1 DEF Assoc
  <2>3. fv \o y \in Seq(Byte)
    BY BytesJoined
  <2> QED BY <2>2, <2>3
<1>6. PICK X : X = VecRead(k, b, cap) \cup VecDone(k, b, cap)
  OBVIOUS
<1>7. /\ VecLoops(k, b, cap, X)
      /\ \A so \in VecDone(k, b, cap) : so.res # "reading"
  BY <1>0, <1>6, VecRuns
<1>8. PICK f \in [Nat -> X] :
        /\ f[0] = Reading
        /\ \A n \in Nat : f[n + 1] = IF f[n].res = "reading" THEN next_item(k, b, cap, f[n]) ELSE f[n]
        /\ decode_vec(k, b, cap) = f[Len(b) + 1]
  BY <1>7 DEF VecLoops
\* After n turns n elements are read.
<1> DEFINE T == {n \in Nat : n <= Len(v) => f[n] = Reads(SubSeq(v, 1, n), Len(FlatVec(k, SubSeq(v, 1, n))))}
<1>9. 0 \in T
  <2>1. SubSeq(v, 1, 0) = <<>>
    BY SubSeqEmpty
  <2>2. Len(FlatVec(k, <<>>)) = 0
    BY <1>0, FlatVecAppend
  <2> QED BY <1>8, <2>1, <2>2, Readings
<1>10. ASSUME NEW n \in T PROVE n + 1 \in T
  <2>1. ASSUME n + 1 <= Len(v)
        PROVE  f[n + 1] = Reads(SubSeq(v, 1, n + 1), Len(FlatVec(k, SubSeq(v, 1, n + 1))))
    <3>1. PICK i \in 1..Len(v) : i = n + 1 /\ i - 1 = n /\ n \in Nat
      BY <1>1, <2>1
    <3>2. PICK s \in Seq(k.values), R \in Continues(F) :
            /\ s = SubSeq(v, 1, i - 1) /\ Len(s) = i - 1
            /\ SubSeq(v, 1, i) = Append(s, v[i])
            /\ FlatVec(k, v) \o y = FlatVec(k, s) \o (<<1>> \o (k.encode[v[i]] \o R))
      <4>1. HasParts(k, F, v, i, y)
        BY <1>0, <1>3, VecParts
      <4> QED BY <4>1 DEF HasParts
    <3>3. PICK c \in k.values : c = v[i]
      BY <1>1, ElementOfSeq
    <3>4. PICK e \in Seq(Byte) : e = <<1>> \o k.encode[c] /\ Len(e) = 1 + Len(k.encode[c])
      <4>1. PICK d \in Seq(Byte) : d = k.encode[c]
        BY <1>0
      <4>2. <<1>> \o d \in Seq(Byte) /\ Len(<<1>> \o d) = 1 + Len(d)
        BY OneByte, BytesJoined
      <4> QED BY <4>1, <4>2
    <3>5. PICK fs \in Seq(Byte) : fs = FlatVec(k, s)
      <4>1. IsMarked(k, s)
        BY <1>0, MarkedIs
      <4> QED BY <4>1 DEF IsMarked
    <3>6. f[n] = Reads(s, Len(fs)) /\ Len(fs) \in Nat
      <4>1. f[n] = Reads(SubSeq(v, 1, n), Len(FlatVec(k, SubSeq(v, 1, n))))
        BY <1>1, <2>1, <3>1
      <4> QED BY <3>1, <3>2, <3>5, <4>1, LenProperties
    <3>7. PICK Q \in Seq(Byte) : Q = <<1>> \o (k.encode[c] \o R)
      <4>1. PICK d \in Seq(Byte) : d = k.encode[c]
        BY <1>0
      <4>2. R \in Seq(Byte)
        BY DEF Continues
      <4>3. d \o R \in Seq(Byte)
        BY <4>2, BytesJoined
      <4>4. <<1>> \o (d \o R) \in Seq(Byte)
        <5>1. PICK o \in Seq(Byte) : o = <<1>>
          BY OneByte
        <5>2. o \o (d \o R) \in Seq(Byte)
          BY <4>3, BytesJoined
        <5> QED BY <5>1, <5>2, Zenon
      <4> QED BY <4>1, <4>4
    <3>8. b = fs \o Q
      BY <1>4, <1>5, <3>2, <3>3, <3>5, <3>7
    <3>9. From(b, Len(fs)) = Q /\ Len(fs) \in 0..Len(b)
      <4>1. From(fs \o Q, Len(fs)) = Q /\ Len(fs) \in 0..Len(fs \o Q)
        BY FromConcat
      <4> QED BY <3>8, <4>1
    <3>10. Len(s) < cap
      BY <1>1, <2>1, <3>1, <3>2
    <3>11. next_item(k, b, cap, Reads(s, Len(fs))) = Reads(Append(s, c), Len(fs) + Len(e))
      <4>1. PICK l \in 0..Len(b) : l = Len(fs)
        BY <3>9
      <4>2. ReadsItem(k, b, cap, s, l, c, R)
        BY <1>0, ItemRead
      <4> QED BY <3>4, <3>7, <3>9, <3>10, <4>1, <4>2 DEF ReadsItem
    <3>12. f[n + 1] = Reads(Append(s, c), Len(fs) + Len(e))
      <4>1. f[n].res = "reading"
        BY <3>6, Readings
      <4>2. f[n + 1] = next_item(k, b, cap, f[n])
        BY <1>8, <3>1, <4>1
      <4> QED BY <3>6, <3>11, <4>2
    <3>13. FlatVec(k, Append(s, c)) = fs \o e /\ Len(fs \o e) = Len(fs) + Len(e)
      <4>1. FlatVec(k, Append(s, c)) = FlatVec(k, s) \o (<<1>> \o k.encode[c])
        BY <1>0, FlatVecAppend
      <4>2. Len(fs \o e) = Len(fs) + Len(e)
        BY BytesJoined
      <4> QED BY <3>4, <3>5, <4>1, <4>2
    <3> QED BY <3>1, <3>2, <3>3, <3>12, <3>13
  <2>2. n + 1 \in Nat
    OBVIOUS
  <2> QED BY <2>1, <2>2
<1>11. T = Nat
  <2> HIDE DEF T
  <2>1. T \in SUBSET Nat
    BY DEF T
  <2> QED BY <1>9, <1>10, <2>1, NaturalsFrom
<1> HIDE DEF T
<1>21. \A n \in Nat : n <= Len(v) => f[n] = Reads(SubSeq(v, 1, n), Len(FlatVec(k, SubSeq(v, 1, n))))
  <2>1. \A n \in Nat : n \in T
    BY <1>11
  <2> QED BY <2>1 DEF T
<1>12. \A n \in 0..Len(v) : f[n].res = "reading"
  <2>1. ASSUME NEW n \in 0..Len(v) PROVE f[n].res = "reading"
    <3>1. n \in Nat /\ n <= Len(v)
      BY <1>1
    <3>2. f[n] = Reads(SubSeq(v, 1, n), Len(FlatVec(k, SubSeq(v, 1, n))))
      BY <1>21, <3>1
    <3> QED BY <3>2, Readings
  <2> QED BY <2>1
\* The next turn ends the vector.
<1> DEFINE m == Len(v) + 1
           d == Ok(v, Len(EncodedVec(k, v)))
<1>13. f[m] = d
  <2>1. f[Len(v)] = Reads(v, Len(fv))
    <3>1. f[Len(v)] = Reads(SubSeq(v, 1, Len(v)), Len(FlatVec(k, SubSeq(v, 1, Len(v)))))
      BY <1>1, <1>21
    <3>2. SubSeq(v, 1, Len(v)) = v
      BY <1>1
    <3> QED BY <1>4, <3>1, <3>2
  <2>2. From(b, Len(fv)) = <<0>> \o x
    BY <1>2, <1>3, <1>5, FromConcat
  <2>4. next_item(k, b, cap, Reads(v, Len(fv))) = Ok(v, Len(fv) + 1)
    <3>1. ReadsEnd(k, b, cap, v, Len(fv), x)
      BY VecEndRead
    <3> QED BY <2>2, <3>1 DEF ReadsEnd
  <2>5. Len(EncodedVec(k, v)) = Len(fv) + 1
    BY <1>0, <1>4, VecFits
  <2>6. f[Len(v)].res = "reading"
    BY <2>1, Readings
  <2>7. f[Len(v) + 1] = next_item(k, b, cap, f[Len(v)])
    BY <1>1, <1>8, <2>6
  <2> QED BY <2>1, <2>4, <2>5, <2>7
<1>14. m \in Nat /\ Len(b) + 1 \in Nat /\ Len(b) + 1 > Len(v)
  <2>1. Len(b) \in Nat
    BY LenProperties
  <2>2. decode_vec(k, b, cap) \in VecDone(k, b, cap)
    BY <1>0, VecEnds
  <2>3. f[Len(b) + 1].res # "reading"
    BY <1>7, <1>8, <2>2
  <2>4. Len(b) + 1 \notin 0..Len(v)
    BY <1>12, <2>3
  <2> QED BY <1>1, <2>1, <2>4
<1>15. d.res # "reading"
  BY Readings
<1> HIDE DEF m, d
<1> DEFINE S == {n \in Nat : f[m + n] = d}
<1>16. 0 \in S
  BY <1>13, <1>14
<1>17. ASSUME NEW n \in S PROVE n + 1 \in S
  <2>1. m + n \in Nat /\ f[m + n] = d /\ m + (n + 1) = (m + n) + 1
    BY <1>14
  <2>2. f[(m + n) + 1] = d
    BY <1>8, <1>15, <2>1
  <2> QED BY <2>1, <2>2
<1>18. S = Nat
  <2> HIDE DEF S
  <2>1. S \in SUBSET Nat
    BY DEF S
  <2> QED BY <1>16, <1>17, <2>1, NaturalsFrom
<1>19. \A n \in Nat : f[m + n] = d
  <2>1. \A n \in Nat : n \in S
    BY <1>18
  <2> QED BY <2>1
<1> HIDE DEF S
<1>20. f[Len(b) + 1] = d
  <2>1. Len(b) + 1 >= m
    BY <1>1, <1>14 DEF m
  <2>2. PICK n \in Nat : m + n = Len(b) + 1
    <3>1. (Len(b) + 1) - m \in Nat /\ m + ((Len(b) + 1) - m) = Len(b) + 1
      BY <1>14, <2>1
    <3> QED BY <3>1
  <2> QED BY <1>19, <2>2
<1> QED BY <1>5, <1>8, <1>20 DEF d

\* Vectors: whatever their elements' implementation, if a marker and the
\* terminator may follow an element, it keeps the laws, and anything may follow.
THEOREM VecLawful ==
  ASSUME NEW k, NEW F, 0 \in F, 1 \in F, Laws(k, F), NEW cap \in Nat
  PROVE  Laws(vec(k, cap), Byte)
<1>0. /\ Shaped(k) /\ Fits(k) /\ Orders(k, F) /\ RoundTrips(k, F) /\ Canonical(k)
      /\ k.encode \in [k.values -> Seq(Byte)] /\ k.max \in Nat
  BY DEF Laws, Shaped
<1>1. PICK V : V = BoundedSeq(k.values, cap)
  OBVIOUS
<1>2. PICK L : L = {p \in V \X V : Lex(p[1], p[2], [i \in 1..cap |-> k.below])}
  OBVIOUS
<1>3. PICK t : t = vec(k, cap)
  OBVIOUS
<1>4. /\ t.values = V /\ t.below = L /\ t.max = cap * (1 + k.max) + 1
      /\ t.encode = [v \in V |-> EncodedVec(k, v)]
      /\ t.decode = [b \in Seq(Byte) |-> decode_vec(k, b, cap)]
  <2>1. \A v : EncodedVec(k, v) = FlattenSeq([i \in DOMAIN v |-> <<1>> \o k.encode[v[i]]]) \o <<0>>
    BY DEF EncodedVec, FlatVec, Marked
  <2> QED BY <1>1, <1>2, <1>3, <2>1 DEF vec
<1>5. \A v \in V : v \in Seq(k.values) /\ Len(v) <= cap /\ Len(v) \in Nat
  BY <1>1, Bounded, LenProperties
<1>6. \A v, w \in V : <<v, w>> \in L <=> Lex(v, w, [i \in 1..cap |-> k.below])
  BY <1>2
<1>7. ASSUME NEW b \in Seq(Byte)
      PROVE  \/ \E e \in Errors : decode_vec(k, b, cap) = Fails(e)
             \/ \E v \in V, n \in 0..Len(b) :
                  decode_vec(k, b, cap) = Ok(v, n) /\ EncodedVec(k, v) = SubSeq(b, 1, n)
  <2>1. decode_vec(k, b, cap) \in VecDone(k, b, cap)
    BY <1>0, VecEnds
  <2>2. CASE decode_vec(k, b, cap) \in {Fails(e) : e \in Errors}
    BY <2>2
  <2>3. CASE decode_vec(k, b, cap) \notin {Fails(e) : e \in Errors}
    <3>1. /\ decode_vec(k, b, cap) \in {Ok(v, n) : v \in V, n \in 0..Len(b)}
          /\ EncodedVec(k, decode_vec(k, b, cap).value) = SubSeq(b, 1, decode_vec(k, b, cap).used)
      BY <1>1, <2>1, <2>3 DEF VecDone
    <3>2. PICK v \in V, n \in 0..Len(b) : decode_vec(k, b, cap) = Ok(v, n)
      BY <3>1
    <3>3. Ok(v, n).value = v /\ Ok(v, n).used = n
      BY DEF Ok
    <3> QED BY <3>1, <3>2, <3>3
  <2> QED BY <2>2, <2>3
<1>8. Shaped(t)
  <2>1. \A v \in V : EncodedVec(k, v) \in Seq(Byte)
    BY <1>0, <1>5, VecFits
  <2>2. ASSUME NEW b \in Seq(Byte) PROVE decode_vec(k, b, cap) \in Results(V)
    <3>1. Len(b) \in Nat
      BY LenProperties
    <3>2. \A n \in 0..Len(b) : n \in Nat
      BY <3>1
    <3> QED BY <1>7, <3>2 DEF Results
  <2>3. cap * (1 + k.max) + 1 \in Nat
    <3>1. PICK m \in Nat : m = 1 + k.max
      BY <1>0
    <3>2. \A a, c \in Nat : a * c + 1 \in Nat
      BY SMTT(30)
    <3> QED BY <3>1, <3>2
  <2> QED BY <1>4, <2>1, <2>2, <2>3 DEF Shaped
<1>9. Fits(t)
  <2>1. ASSUME NEW v \in V PROVE Len(EncodedVec(k, v)) <= cap * (1 + k.max) + 1
    <3>1. EncodedVec(k, v) \in Seq(Byte) /\ Len(EncodedVec(k, v)) <= Len(v) * (1 + k.max) + 1
      BY <1>0, <1>5, VecFits
    <3>2. Len(v) <= cap /\ Len(v) \in Nat /\ Len(EncodedVec(k, v)) \in Nat
      BY <1>5, <3>1, LenProperties
    <3>3. PICK m \in Nat : m = 1 + k.max
      BY <1>0
    <3>4. \A a, c \in Nat : a <= c => a * m <= c * m /\ a * m \in Nat /\ c * m \in Nat
      BY SMTT(30)
    <3>5. Len(v) * m <= cap * m /\ Len(v) * m \in Nat /\ cap * m \in Nat
      BY <3>2, <3>4
    <3>6. PICK a \in Nat, c \in Nat : a = Len(v) * m /\ c = cap * m /\ a <= c
      BY <3>5
    <3>7. Len(EncodedVec(k, v)) <= a + 1
      BY <3>1, <3>3, <3>6
    <3>8. Len(EncodedVec(k, v)) <= c + 1
      BY <3>2, <3>6, <3>7
    <3> QED BY <3>3, <3>6, <3>8
  <2> QED BY <1>4, <2>1 DEF Fits
<1>10. Orders(t, Byte)
  <2>1. ASSUME NEW v \in V, NEW w \in V PROVE v = w \/ <<v, w>> \in L \/ <<w, v>> \in L
    <3>1. PICK B : B = [i \in 1..cap |-> k.below]
      OBVIOUS
    <3>2. ASSUME NEW i \in Nat, i \in 1..Len(v), i \in 1..Len(w)
          PROVE  v[i] = w[i] \/ <<v[i], w[i]>> \in B[i] \/ <<w[i], v[i]>> \in B[i]
      <4>1. i \in 1..cap
        BY <1>5, <3>2
      <4>2. B[i] = k.below
        BY <3>1, <4>1
      <4>3. v[i] \in k.values /\ w[i] \in k.values
        BY <1>5, <3>2, ElementOfSeq
      <4> QED BY <1>0, <4>2, <4>3 DEF Orders
    <3>3. v = w \/ Lex(v, w, B) \/ Lex(w, v, B)
      BY <1>5, <3>2, LexTotal
    <3> QED BY <1>6, <3>1, <3>3
  <2>2. ASSUME NEW v \in V, NEW w \in V, <<v, w>> \in L, NEW x \in Seq(Byte), NEW y \in Seq(Byte)
        PROVE  memcmp(EncodedVec(k, v) \o x, EncodedVec(k, w) \o y)
    <3>1. PICK i \in 1..Len(w) : /\ i <= Len(v) + 1
                                 /\ \A j \in 1..i - 1 : v[j] = w[j]
                                 /\ i <= Len(v) => <<v[i], w[i]>> \in [m \in 1..cap |-> k.below][i]
      BY <1>6, <2>2 DEF Lex
    <3>2. i \in 1..cap
      BY <1>5
    <3>3. i <= Len(v) => <<v[i], w[i]>> \in k.below
      BY <3>1, <3>2
    <3>4. v \in Seq(k.values) /\ w \in Seq(k.values)
      BY <1>5
    <3> QED BY <1>0, <3>1, <3>3, <3>4, VecOrder
  <2>3. \A x \in Continues(Byte) : x \in Seq(Byte)
    BY DEF Continues
  <2> QED BY <1>4, <2>1, <2>2, <2>3 DEF Orders
<1>11. RoundTrips(t, Byte)
  <2>1. ASSUME NEW v \in V, NEW x \in Seq(Byte)
        PROVE  /\ EncodedVec(k, v) \o x \in Seq(Byte)
               /\ decode_vec(k, EncodedVec(k, v) \o x, cap) = Ok(v, Len(EncodedVec(k, v)))
    <3>1. decode_vec(k, EncodedVec(k, v) \o x, cap) = Ok(v, Len(EncodedVec(k, v)))
      BY <1>5, VecReturns
    <3>2. PICK e \in Seq(Byte) : e = EncodedVec(k, v)
      BY <1>0, <1>5, VecFits
    <3>4. e \o x \in Seq(Byte)
      BY BytesJoined
    <3> QED BY <3>1, <3>2, <3>4
  <2>3. \A x \in Continues(Byte) : x \in Seq(Byte)
    BY DEF Continues
  <2> QED BY <1>4, <2>1, <2>3 DEF RoundTrips
<1>12. Canonical(t)
  <2>1. ASSUME NEW b \in Seq(Byte), NEW v, NEW n, decode_vec(k, b, cap) = Ok(v, n)
        PROVE  v \in V /\ n \in 0..Len(b) /\ EncodedVec(k, v) = SubSeq(b, 1, n)
    <3>1. \A e \in Errors : Fails(e) # Ok(v, n)
      BY Answers
    <3>2. PICK w \in V, l \in 0..Len(b) :
            decode_vec(k, b, cap) = Ok(w, l) /\ EncodedVec(k, w) = SubSeq(b, 1, l)
      BY <1>7, <2>1, <3>1
    <3>3. w = v /\ l = n
      <4>1. Ok(w, l) = Ok(v, n)
        BY <2>1, <3>2
      <4> QED BY <4>1 DEF Ok
    <3> QED BY <3>2, <3>3
  <2> QED BY <1>4, <2>1 DEF Canonical
<1>13. Laws(t, Byte)
  BY <1>8, <1>9, <1>10, <1>11, <1>12 DEF Laws
<1> QED BY <1>3, <1>13

----------------------------------------------------------------------------
(* Tuples.                                                                 *)

\* A function on the first numbers can be defined by what it is at the next.
Countable(N, X) ==
  \A a \in X, step \in [1..N -> [X -> X]] :
    \E g \in [0..N -> X] : g[0] = a /\ \A n \in 1..N : g[n] = step[n][g[n - 1]]

\* Every such function exists.
LEMMA Counted ==
  ASSUME NEW N \in Nat, NEW X
  PROVE  Countable(N, X)
<1> SUFFICES ASSUME NEW a \in X, NEW step \in [1..N -> [X -> X]]
             PROVE  \E g \in [0..N -> X] : g[0] = a /\ \A n \in 1..N : g[n] = step[n][g[n - 1]]
  BY DEF Countable
<1>1. PICK all \in [Nat -> [X -> X]] : \A n \in 1..N : all[n] = step[n]
  <2> DEFINE s == [n \in Nat |-> IF n \in 1..N THEN step[n] ELSE [x \in X |-> x]]
  <2>1. s \in [Nat -> [X -> X]] /\ \A n \in 1..N : s[n] = step[n]
    <3>1. \A n \in 1..N : n \in Nat
      OBVIOUS
    <3>2. [x \in X |-> x] \in [X -> X]
      OBVIOUS
    <3> QED BY <3>1, <3>2
  <2> QED BY <2>1
<1>2. PICK f \in [Nat -> X] : f[0] = a /\ \A n \in Nat : f[n + 1] = all[n + 1][f[n]]
  <2>1. Recurs(X)
    BY Recursion
  <2> QED BY <1>1, <2>1 DEF Recurs
<1>3. PICK g \in [0..N -> X] : \A n \in 0..N : g[n] = f[n]
  <2>1. [n \in 0..N |-> f[n]] \in [0..N -> X]
    BY <1>2
  <2> QED BY <2>1
<1>4. g[0] = a
  BY <1>2, <1>3
<1>5. ASSUME NEW n \in 1..N PROVE g[n] = step[n][g[n - 1]]
  <2>1. n - 1 \in Nat /\ n - 1 \in 0..N /\ n \in 0..N /\ (n - 1) + 1 = n
    OBVIOUS
  <2>2. f[(n - 1) + 1] = all[(n - 1) + 1][f[n - 1]]
    BY <1>2, <2>1
  <2> QED BY <1>1, <1>3, <2>1, <2>2
<1> QED BY <1>4, <1>5

\* The tuples with a value of each of the first n fields.
Anything(fields) == UNION {fields[i].values : i \in 1..Len(fields)}
Tuples(fields, n) ==
  {v \in Seq(Anything(fields)) : Len(v) = n /\ \A i \in 1..n : v[i] \in fields[i].values}

NextTuples(S, fields, n) == {Append(v, x) : v \in S, x \in fields[n].values}
TupleGrowth(fields, n) ==
  /\ Tuples(fields, n) = NextTuples(Tuples(fields, n - 1), fields, n)
  /\ \A v \in Tuples(fields, n - 1), x \in fields[n].values : Append(v, x) \in Tuples(fields, n)

\* The tuples of one more field are the shorter ones with a value of it.
LEMMA TupleGrows ==
  ASSUME NEW K, NEW fields \in Seq(K), NEW n \in 1..Len(fields)
  PROVE  TupleGrowth(fields, n)
<1>0. Len(fields) \in Nat /\ n \in Nat /\ n - 1 \in Nat /\ (n - 1) + 1 = n
  BY LenProperties
<1>1. ASSUME NEW v \in Tuples(fields, n - 1), NEW x \in fields[n].values
      PROVE  Append(v, x) \in Tuples(fields, n)
  <2>1. x \in Anything(fields)
    BY DEF Anything
  <2>2. v \in Seq(Anything(fields)) /\ Len(v) = n - 1 /\ \A i \in 1..n - 1 : v[i] \in fields[i].values
    BY DEF Tuples
  <2>3. PICK u \in Seq(Anything(fields)) : u = Append(v, x)
    BY <2>1, <2>2, AppendProperties
  <2>4. Len(u) = n /\ (\A i \in 1..n - 1 : u[i] = v[i]) /\ u[n] = x
    BY <1>0, <2>1, <2>2, <2>3, AppendProperties
  <2>5. \A i \in 1..n : u[i] \in fields[i].values
    <3> SUFFICES ASSUME NEW i \in 1..n PROVE u[i] \in fields[i].values
      OBVIOUS
    <3>1. CASE i = n
      BY <2>4, <3>1
    <3>2. CASE i # n
      <4>1. i \in 1..n - 1
        BY <1>0, <3>2
      <4> QED BY <2>2, <2>4, <4>1
    <3> QED BY <3>1, <3>2
  <2> QED BY <2>3, <2>4, <2>5 DEF Tuples
<1>2. ASSUME NEW u \in Tuples(fields, n)
      PROVE  \E v \in Tuples(fields, n - 1), x \in fields[n].values : u = Append(v, x)
  <2>1. u \in Seq(Anything(fields)) /\ Len(u) = n /\ \A i \in 1..n : u[i] \in fields[i].values
    BY DEF Tuples
  <2>2. PICK v \in Seq(Anything(fields)), x \in Anything(fields) : u = Append(v, x) /\ Len(v) = n - 1
    BY <1>0, <2>1, LastApart
  <2>3. (\A i \in 1..n - 1 : u[i] = v[i]) /\ u[n] = x
    BY <1>0, <2>2, AppendProperties
  <2>4. x \in fields[n].values
    BY <1>0, <2>1, <2>3
  <2>5. \A i \in 1..n - 1 : v[i] \in fields[i].values
    BY <1>0, <2>1, <2>3
  <2>6. v \in Tuples(fields, n - 1)
    BY <2>2, <2>5 DEF Tuples
  <2> QED BY <2>2, <2>4, <2>6
<1>3. ASSUME NEW u PROVE u \in Tuples(fields, n) <=> u \in NextTuples(Tuples(fields, n - 1), fields, n)
  <2>1. ASSUME u \in NextTuples(Tuples(fields, n - 1), fields, n) PROVE u \in Tuples(fields, n)
    <3>1. PICK v \in Tuples(fields, n - 1), x \in fields[n].values : u = Append(v, x)
      BY <2>1 DEF NextTuples
    <3> QED BY <1>1, <3>1
  <2>2. ASSUME u \in Tuples(fields, n) PROVE u \in NextTuples(Tuples(fields, n - 1), fields, n)
    BY <1>2, <2>2 DEF NextTuples
  <2> QED BY <2>1, <2>2
<1>4. Tuples(fields, n) = NextTuples(Tuples(fields, n - 1), fields, n)
  BY <1>3
<1> QED BY <1>1, <1>4 DEF TupleGrowth

\* Without fields there is one tuple.
LEMMA NoFields ==
  ASSUME NEW fields PROVE Tuples(fields, 0) = {<<>>}
<1>1. ASSUME NEW v \in Tuples(fields, 0) PROVE v = <<>>
  <2>1. v \in Seq(Anything(fields)) /\ Len(v) = 0
    BY DEF Tuples
  <2> QED BY <2>1, EmptySeq
<1>2. <<>> \in Tuples(fields, 0)
  <2>1. <<>> \in Seq(Anything(fields)) /\ Len(<<>>) = 0
    OBVIOUS
  <2> QED BY <2>1 DEF Tuples
<1> QED BY <1>1, <1>2

Builds(g, fields) ==
  g = [n \in 0..Len(fields) |->
         IF n = 0 THEN {<<>>} ELSE NextTuples(g[n - 1], fields, n)]

\* TupleValues counts up to the tuples of all fields.
LEMMA TuplesAre ==
  ASSUME NEW K, NEW fields \in Seq(K)
  PROVE  TupleValues(fields) = Tuples(fields, Len(fields))
<1> DEFINE c == CHOOSE g : Builds(g, fields)
<1>0. Len(fields) \in Nat
  BY LenProperties
<1>1. \E g : Builds(g, fields)
  <2>1. PICK g : g = [n \in 0..Len(fields) |-> Tuples(fields, n)]
    OBVIOUS
  <2>2. \A n \in 0..Len(fields) : g[n] = Tuples(fields, n)
    BY <2>1
  <2>3. ASSUME NEW n \in 0..Len(fields)
        PROVE  g[n] = IF n = 0 THEN {<<>>} ELSE NextTuples(g[n - 1], fields, n)
    <3>1. CASE n = 0
      BY <2>2, <3>1, NoFields
    <3>2. CASE n # 0
      <4>1. n \in 1..Len(fields) /\ n - 1 \in 0..Len(fields)
        BY <1>0, <3>2
      <4>2. g[n] = Tuples(fields, n) /\ g[n - 1] = Tuples(fields, n - 1)
        BY <2>2, <4>1
      <4>3. Tuples(fields, n) = NextTuples(Tuples(fields, n - 1), fields, n)
        BY <4>1, TupleGrows DEF TupleGrowth
      <4> QED BY <3>2, <4>2, <4>3
    <3> QED BY <3>1, <3>2
  <2>4. g = [n \in 0..Len(fields) |-> g[n]]
    BY <2>1
  <2>5. Builds(g, fields)
    BY <2>3, <2>4 DEF Builds
  <2> QED BY <2>5
<1>2. Builds(c, fields)
  BY <1>1
<1>3. TupleValues(fields) = c[Len(fields)]
  BY DEF TupleValues, Builds, NextTuples
<1> HIDE DEF c
<1>4. \A n \in 0..Len(fields) :
        c[n] = IF n = 0 THEN {<<>>} ELSE NextTuples(c[n - 1], fields, n)
  BY <1>2 DEF Builds
<1> DEFINE T == {n \in Nat : n <= Len(fields) => c[n] = Tuples(fields, n)}
<1>5. 0 \in T
  <2>1. 0 \in 0..Len(fields)
    BY <1>0
  <2>2. c[0] = {<<>>}
    BY <1>4, <2>1
  <2>3. Tuples(fields, 0) = {<<>>}
    BY NoFields
  <2> QED BY <2>2, <2>3
<1>6. ASSUME NEW n \in T PROVE n + 1 \in T
  <2>1. ASSUME n + 1 <= Len(fields) PROVE c[n + 1] = Tuples(fields, n + 1)
    <3>1. PICK m \in 1..Len(fields) : m = n + 1 /\ m - 1 = n /\ m # 0 /\ m \in 0..Len(fields)
      <4>1. n \in Nat
        OBVIOUS
      <4>2. n + 1 \in 1..Len(fields) /\ (n + 1) - 1 = n /\ n + 1 # 0 /\ n + 1 \in 0..Len(fields)
        BY <1>0, <2>1, <4>1
      <4> QED BY <4>2
    <3>2. c[n] = Tuples(fields, n)
      <4>1. n \in Nat
        OBVIOUS
      <4>2. n <= Len(fields)
        BY <1>0, <2>1, <4>1
      <4> QED BY <4>2
    <3>3. c[m] = NextTuples(c[m - 1], fields, m)
      BY <1>4, <3>1
    <3>4. Tuples(fields, m) = NextTuples(Tuples(fields, m - 1), fields, m)
      BY TupleGrows DEF TupleGrowth
    <3> QED BY <3>1, <3>2, <3>3, <3>4
  <2>2. n + 1 \in Nat
    OBVIOUS
  <2> QED BY <2>1, <2>2
<1>7. T = Nat
  <2> HIDE DEF T
  <2>1. T \in SUBSET Nat
    BY DEF T
  <2> QED BY <1>5, <1>6, <2>1, NaturalsFrom
<1>8. Len(fields) \in T
  BY <1>0, <1>7
<1>9. Len(fields) <= Len(fields)
  BY <1>0
<1> QED BY <1>3, <1>8, <1>9

\* The bytes of a tuple's fields.
Encodings(fields, v) == [i \in DOMAIN v |-> fields[i].encode[v[i]]]
FlatTuple(fields, v) == FlattenSeq(Encodings(fields, v))

ShapedFields(fields) == \A i \in 1..Len(fields) : Shaped(fields[i])

AreEncodings(fields, n, v) ==
  /\ Len(v) = n
  /\ Encodings(fields, v) \in Seq(Seq(Byte)) /\ Len(Encodings(fields, v)) = n
  /\ \A i \in 1..n : /\ v[i] \in fields[i].values
                     /\ Encodings(fields, v)[i] = fields[i].encode[v[i]]
                     /\ fields[i].encode[v[i]] \in Seq(Byte)
  /\ FlatTuple(fields, v) \in Seq(Byte)

\* A tuple's pieces are the encodings of its values, field by field.
LEMMA EncodingsAre ==
  ASSUME NEW K, NEW fields \in Seq(K), ShapedFields(fields),
         NEW n \in 0..Len(fields), NEW v \in Tuples(fields, n)
  PROVE  AreEncodings(fields, n, v)
<1>1. v \in Seq(Anything(fields)) /\ Len(v) = n /\ \A i \in 1..n : v[i] \in fields[i].values
  BY DEF Tuples
<1>2. DOMAIN v = 1..n /\ n \in Nat /\ n <= Len(fields) /\ Len(fields) \in Nat
  BY <1>1, LenProperties
<1>3. ASSUME NEW i \in 1..n PROVE fields[i].encode[v[i]] \in Seq(Byte)
  <2>1. i \in 1..Len(fields)
    BY <1>2
  <2>2. fields[i].encode \in [fields[i].values -> Seq(Byte)]
    BY <2>1 DEF ShapedFields, Shaped
  <2> QED BY <1>1, <2>2
<1>4. Encodings(fields, v) = [i \in 1..n |-> fields[i].encode[v[i]]]
  BY <1>2 DEF Encodings
<1>5. \A i \in 1..n : Encodings(fields, v)[i] = fields[i].encode[v[i]]
  BY <1>4
<1>6. Encodings(fields, v) \in Seq(Seq(Byte)) /\ Len(Encodings(fields, v)) = n
  <2>1. \A i \in 1..n : fields[i].encode[v[i]] \in Seq(Byte)
    BY <1>3
  <2>2. n \in Nat
    BY <1>2
  <2> QED BY <1>4, <2>1, <2>2
<1>7. FlatTuple(fields, v) \in Seq(Byte)
  BY <1>6, FlattenStep DEF FlatTuple
<1> QED BY <1>1, <1>3, <1>5, <1>6, <1>7 DEF AreEncodings

\* One more field.
TupleGrowsBy(fields, n, v, c) ==
  FlatTuple(fields, Append(v, c)) = FlatTuple(fields, v) \o fields[n].encode[c]

\* The bytes of a longer tuple end with those of its last field.
LEMMA FlatTupleAppend ==
  ASSUME NEW K, NEW fields \in Seq(K), ShapedFields(fields), NEW n \in 1..Len(fields),
         NEW v \in Tuples(fields, n - 1), NEW c \in fields[n].values
  PROVE  TupleGrowsBy(fields, n, v, c)
<1>0. Len(fields) \in Nat /\ n \in Nat /\ n - 1 \in 0..Len(fields) /\ n \in 0..Len(fields) /\ (n - 1) + 1 = n
  BY LenProperties
<1>1. PICK u \in Tuples(fields, n) : u = Append(v, c)
  <2>1. TupleGrowth(fields, n)
    BY TupleGrows
  <2> QED BY <2>1 DEF TupleGrowth
<1>2. AreEncodings(fields, n - 1, v) /\ AreEncodings(fields, n, u)
  BY <1>0, EncodingsAre
<1>3. PICK p \in Seq(Seq(Byte)) : /\ p = Encodings(fields, v) /\ Len(p) = n - 1
                                  /\ \A i \in 1..n - 1 : p[i] = fields[i].encode[v[i]]
  BY <1>2 DEF AreEncodings
<1>4. PICK q \in Seq(Seq(Byte)) : /\ q = Encodings(fields, u) /\ Len(q) = n
                                  /\ \A i \in 1..n : q[i] = fields[i].encode[u[i]]
  BY <1>2 DEF AreEncodings
<1>5. v \in Seq(Anything(fields)) /\ Len(v) = n - 1 /\ c \in Anything(fields)
  BY DEF Tuples, Anything
<1>6. (\A i \in 1..n - 1 : u[i] = v[i]) /\ u[n] = c
  <2>1. (\A i \in 1..Len(v) : Append(v, c)[i] = v[i]) /\ Append(v, c)[Len(v) + 1] = c
    BY <1>5, AppendProperties
  <2> QED BY <1>0, <1>1, <1>5, <2>1
<1>7. PICK e \in Seq(Byte) : e = fields[n].encode[c]
  <2>1. fields[n].encode \in [fields[n].values -> Seq(Byte)]
    BY DEF ShapedFields, Shaped
  <2> QED BY <2>1
<1>8. PICK r \in Seq(Seq(Byte)) : /\ r = Append(p, e) /\ Len(r) = n
                                  /\ (\A i \in 1..n - 1 : r[i] = p[i]) /\ r[n] = e
  <2>1. /\ Append(p, e) \in Seq(Seq(Byte)) /\ Len(Append(p, e)) = Len(p) + 1
        /\ (\A i \in 1..Len(p) : Append(p, e)[i] = p[i]) /\ Append(p, e)[Len(p) + 1] = e
    BY AppendProperties
  <2>2. Len(p) = n - 1 /\ Len(p) + 1 = n
    BY <1>0, <1>3
  <2> QED BY <2>1, <2>2
<1>9. \A i \in 1..n : q[i] = r[i]
  <2> SUFFICES ASSUME NEW i \in 1..n PROVE q[i] = r[i]
    OBVIOUS
  <2>1. CASE i = n
    BY <1>4, <1>6, <1>7, <1>8, <2>1
  <2>2. CASE i # n
    <3>1. i \in 1..n - 1
      BY <1>0, <2>2
    <3>2. u[i] = v[i] /\ r[i] = p[i]
      BY <1>6, <1>8, <3>1
    <3>3. q[i] = fields[i].encode[u[i]] /\ p[i] = fields[i].encode[v[i]]
      BY <1>3, <1>4, <3>1
    <3> QED BY <3>2, <3>3
  <2> QED BY <2>1, <2>2
<1>10. q = r
  BY <1>4, <1>8, <1>9, SeqEqual
<1>11. FlattenSeq(q) = FlattenSeq(p) \o e
  BY <1>8, <1>10, FlattenStep
<1> QED BY <1>1, <1>3, <1>4, <1>7, <1>11 DEF TupleGrowsBy, FlatTuple

\* From one piece on: that piece and what comes after it.
LEMMA FlattenFrom ==
  ASSUME NEW S, NEW s \in Seq(Seq(S)), NEW i \in 1..Len(s)
  PROVE  FlattenSeq(SubSeq(s, i, Len(s))) = s[i] \o FlattenSeq(SubSeq(s, i + 1, Len(s)))
<1>1. Len(s) \in Nat /\ i \in Nat /\ i >= 1 /\ i <= Len(s)
  BY LenProperties
<1>2. PICK w \in Seq(Seq(S)) : /\ w = SubSeq(s, i, Len(s)) /\ Len(w) = Len(s) - i + 1
                               /\ \A j \in 1..Len(s) - i + 1 : w[j] = s[i + j - 1]
  <2>1. PICK n \in Nat : n = Len(s)
    BY <1>1
  <2>2. \A j \in i..n : s[j] \in Seq(S)
    <3>1. \A j \in i..n : j \in 1..Len(s)
      BY <1>1, <2>1
    <3> QED BY <3>1, ElementOfSeq
  <2>3. SubSeq(s, i, n) \in Seq(Seq(S))
    BY <1>1, <2>1, <2>2, SubSeqProperties
  <2>4. Len(SubSeq(s, i, n)) = n - i + 1
    BY <1>1, <2>1, <2>2, SubSeqProperties
  <2>5. \A j \in 1..n - i + 1 : SubSeq(s, i, n)[j] = s[i + j - 1]
    BY <1>1, <2>1, <2>2, SubSeqProperties
  <2> QED BY <2>1, <2>3, <2>4, <2>5
<1>3. 1 \in 1..Len(w) /\ Len(w) - 1 = Len(s) - i /\ w # <<>>
  <2>1. 1 \in 1..Len(w) /\ Len(w) - 1 = Len(s) - i
    BY <1>1, <1>2
  <2>2. Len(w) # 0
    BY <2>1
  <2>3. w # <<>>
    BY <2>2
  <2> QED BY <2>1, <2>3
<1>4. PICK a \in Seq(Seq(S)) : /\ a = SubSeq(w, 1 + 1, Len(w)) /\ Len(a) = Len(s) - i
                               /\ \A j \in 1..Len(s) - i : a[j] = w[1 + j]
  <2>1. PICK k \in 1..Len(w) : k = 1
    BY <1>3
  <2>2. /\ SubSeq(w, k + 1, Len(w)) \in Seq(Seq(S)) /\ Len(SubSeq(w, k + 1, Len(w))) = Len(w) - k
        /\ \A j \in 1..Len(w) - k : SubSeq(w, k + 1, Len(w))[j] = w[k + j]
    BY Parted
  <2> QED BY <1>3, <2>1, <2>2
<1>5. PICK b \in Seq(Seq(S)) : /\ b = SubSeq(s, i + 1, Len(s)) /\ Len(b) = Len(s) - i
                               /\ \A j \in 1..Len(s) - i : b[j] = s[i + j]
  <2>1. /\ SubSeq(s, i + 1, Len(s)) \in Seq(Seq(S)) /\ Len(SubSeq(s, i + 1, Len(s))) = Len(s) - i
        /\ \A j \in 1..Len(s) - i : SubSeq(s, i + 1, Len(s))[j] = s[i + j]
    BY Parted
  <2> QED BY <2>1
<1>6. a = b
  <2>1. \A j \in 1..Len(a) : a[j] = b[j]
    <3> SUFFICES ASSUME NEW j \in 1..Len(s) - i PROVE a[j] = b[j]
      BY <1>4
    <3>1. 1 + j \in 1..Len(s) - i + 1 /\ i + (1 + j) - 1 = i + j
      BY <1>1
    <3>2. w[1 + j] = s[i + (1 + j) - 1]
      BY <1>2, <3>1
    <3> QED BY <1>4, <1>5, <3>1, <3>2
  <2> QED BY <1>4, <1>5, <2>1, SeqEqual
<1>7. w[1] = s[i]
  <2>1. 1 \in 1..Len(s) - i + 1 /\ i + 1 - 1 = i
    BY <1>1
  <2>2. w[1] = s[i + 1 - 1]
    BY <1>2, <2>1
  <2> QED BY <2>1, <2>2
<1>8. FlattenSeq(w) = w[1] \o FlattenSeq(SubSeq(w, 1 + 1, Len(w)))
  <2>1. FlattenSeq(w) = w[1] \o FlattenSeq(SubSeq(w, 2, Len(w)))
    BY <1>3, FlattenHead
  <2>2. 1 + 1 = 2
    OBVIOUS
  <2> QED BY <2>1, <2>2
<1> QED BY <1>2, <1>4, <1>5, <1>6, <1>7, <1>8

\* What a key's encoding, and what may follow it, may itself follow.
Follows(k, F, G) ==
  \A v \in k.values : \A x \in Continues(G) : k.encode[v] \o x \in Continues(F)

\* Each field may be followed by the next.  Fs[i] is what may follow field i.
Chained(fields, Fs) ==
  \A i \in 1..Len(fields) : Laws(fields[i], Fs[i]) /\ Follows(fields[i], Fs[i - 1], Fs[i])

\* What stands behind a field.
Rest(fields, v, i) ==
  FlattenSeq(SubSeq(Encodings(fields, v), i + 1, Len(Encodings(fields, v))))

MayStand(fields, Fs, v, x) ==
  \A i \in 0..Len(fields) :
    Rest(fields, v, i) \in Seq(Byte) /\ Rest(fields, v, i) \o x \in Continues(Fs[i])

\* Fields that may stand one after the other are of the right shape.
LEMMA ChainedShaped ==
  ASSUME NEW fields, NEW Fs, Chained(fields, Fs) PROVE ShapedFields(fields)
BY DEF Chained, Laws, ShapedFields

\* What comes after a field, up to the tuple's own end, is what may follow it.
LEMMA TupleRest ==
  ASSUME NEW K, NEW fields \in Seq(K), NEW Fs, Chained(fields, Fs),
         NEW v \in Tuples(fields, Len(fields)), NEW x \in Continues(Fs[Len(fields)])
  PROVE  MayStand(fields, Fs, v, x)
<1>0. PICK N \in Nat : N = Len(fields)
  BY LenProperties
<1>1. x \in Seq(Byte)
  BY DEF Continues
<1>2. PICK p \in Seq(Seq(Byte)) : /\ p = Encodings(fields, v) /\ Len(p) = N
                                  /\ \A i \in 1..N : /\ v[i] \in fields[i].values
                                                     /\ p[i] = fields[i].encode[v[i]]
  <2>1. N \in 0..Len(fields)
    BY <1>0
  <2>2. AreEncodings(fields, N, v)
    BY <1>0, <2>1, ChainedShaped, EncodingsAre
  <2> QED BY <2>2 DEF AreEncodings
<1> DEFINE P(i) == /\ FlattenSeq(SubSeq(p, i + 1, N)) \in Seq(Byte)
                   /\ FlattenSeq(SubSeq(p, i + 1, N)) \o x \in Continues(Fs[i])
           T == {m \in Nat : m <= N => P(N - m)}
<1>3. 0 \in T
  <2>1. N - 0 = N /\ N + 1 > N
    BY <1>0
  <2>2. SubSeq(p, N + 1, N) = <<>>
    BY <2>1, SubSeqEmpty
  <2>3. FlattenSeq(<<>>) = <<>>
    <3>1. <<>> \in Seq(Seq(Byte))
      OBVIOUS
    <3> QED BY <3>1, FlattenStep
  <2>4. <<>> \o x = x /\ <<>> \in Seq(Byte)
    BY <1>1
  <2>5. x \in Continues(Fs[N])
    BY <1>0
  <2>6. FlattenSeq(SubSeq(p, N + 1, N)) \in Seq(Byte)
    BY <2>2, <2>3, <2>4
  <2>7. FlattenSeq(SubSeq(p, N + 1, N)) \o x = x
    BY <2>2, <2>3, <2>4
  <2> QED BY <2>1, <2>5, <2>6, <2>7
<1>4. ASSUME NEW m \in T PROVE m + 1 \in T
  <2>1. ASSUME m + 1 <= N PROVE P(N - (m + 1))
    <3>1. m \in Nat /\ m <= N /\ P(N - m)
      <4>1. m \in Nat
        OBVIOUS
      <4>2. m <= N
        BY <2>1, <4>1
      <4> QED BY <4>1, <4>2
    <3>2. PICK i \in 1..N : i = N - m /\ N - (m + 1) = i - 1 /\ (i - 1) + 1 = i
      <4>1. N - m \in 1..N /\ N - (m + 1) = (N - m) - 1 /\ ((N - m) - 1) + 1 = N - m
        BY <2>1, <3>1
      <4> QED BY <4>1
    <3>3. PICK r \in Seq(Byte) : r = FlattenSeq(SubSeq(p, i + 1, N)) /\ r \o x \in Continues(Fs[i])
      BY <3>1, <3>2
    <3>4. PICK c \in Seq(Byte) : c = p[i] /\ c = fields[i].encode[v[i]]
      BY <1>2, <3>2, ElementOfSeq
    <3>5. FlattenSeq(SubSeq(p, i, N)) = c \o r
      BY <1>2, <3>3, <3>4, FlattenFrom
    <3>6. (c \o r) \o x = c \o (r \o x)
      <4>1. Assoc(c, r, x)
        BY <1>1, Regroup
      <4> QED BY <4>1 DEF Assoc
    <3>7. c \o (r \o x) \in Continues(Fs[i - 1])
      <4>1. i \in 1..Len(fields)
        BY <1>0
      <4>2. Follows(fields[i], Fs[i - 1], Fs[i])
        BY <4>1 DEF Chained
      <4>3. v[i] \in fields[i].values
        BY <1>2
      <4> QED BY <3>3, <3>4, <4>2, <4>3 DEF Follows
    <3>8. c \o r \in Seq(Byte)
      BY BytesJoined
    <3>9. FlattenSeq(SubSeq(p, (i - 1) + 1, N)) = c \o r
      BY <3>2, <3>5
    <3>10. P(i - 1)
      BY <3>6, <3>7, <3>8, <3>9
    <3> QED BY <3>2, <3>10
  <2>2. m + 1 \in Nat
    OBVIOUS
  <2> QED BY <2>1, <2>2
<1>5. T = Nat
  <2> HIDE DEF T
  <2>1. T \in SUBSET Nat
    BY DEF T
  <2> QED BY <1>3, <1>4, <2>1, NaturalsFrom
<1> HIDE DEF T
<1>6. \A m \in Nat : m <= N => P(N - m)
  <2>1. \A m \in Nat : m \in T
    BY <1>5
  <2> QED BY <2>1 DEF T
<1>7. ASSUME NEW i \in 0..N PROVE P(i)
  <2>1. N - i \in Nat /\ N - i <= N /\ N - (N - i) = i
    BY <1>0
  <2>2. P(N - (N - i))
    BY <1>6, <2>1
  <2> QED BY <2>1, <2>2
<1> HIDE DEF P
<1>8. ASSUME NEW i \in 0..Len(fields)
      PROVE  Rest(fields, v, i) \in Seq(Byte) /\ Rest(fields, v, i) \o x \in Continues(Fs[i])
  <2>1. P(i)
    BY <1>0, <1>7
  <2>2. Rest(fields, v, i) = FlattenSeq(SubSeq(p, i + 1, N))
    BY <1>2, SMTT(30) DEF Rest
  <2> QED BY <2>1, <2>2 DEF P
<1> QED BY <1>8 DEF MayStand

\* The bytes of a tuple around a field.
StandsAround(fields, n, v) ==
  \E s \in Tuples(fields, n - 1) :
    /\ s = SubSeq(v, 1, n - 1)
    /\ SubSeq(v, 1, n) = Append(s, v[n])
    /\ FlatTuple(fields, v) = FlatTuple(fields, s) \o (fields[n].encode[v[n]] \o Rest(fields, v, n))

\* A tuple's bytes are those before a field, its own and those after it.
LEMMA TupleAround ==
  ASSUME NEW K, NEW fields \in Seq(K), ShapedFields(fields),
         NEW v \in Tuples(fields, Len(fields)), NEW n \in 1..Len(fields)
  PROVE  StandsAround(fields, n, v)
<1>0. PICK N \in Nat : N = Len(fields) /\ N \in 0..Len(fields) /\ n - 1 \in 0..Len(fields) /\ n \in Nat
  BY LenProperties
<1>1. v \in Seq(Anything(fields)) /\ Len(v) = N /\ \A i \in 1..N : v[i] \in fields[i].values
  BY <1>0 DEF Tuples
<1>2. PICK s \in Seq(Anything(fields)) : /\ s = SubSeq(v, 1, n - 1) /\ Len(s) = n - 1
                                         /\ \A j \in 1..n - 1 : s[j] = v[j]
                                         /\ SubSeq(v, 1, n) = Append(s, v[n])
  <2>1. n \in 1..Len(v)
    BY <1>0, <1>1
  <2>2. /\ SubSeq(v, 1, n - 1) \in Seq(Anything(fields)) /\ Len(SubSeq(v, 1, n - 1)) = n - 1
        /\ \A j \in 1..n - 1 : SubSeq(v, 1, n - 1)[j] = v[j]
        /\ SubSeq(v, 1, n) = Append(SubSeq(v, 1, n - 1), v[n])
    BY <1>1, <2>1, Parted
  <2> QED BY <2>2
<1>3. s \in Tuples(fields, n - 1)
  <2>1. \A j \in 1..n - 1 : j \in 1..N
    BY <1>0
  <2> QED BY <1>1, <1>2, <2>1 DEF Tuples
<1>4. AreEncodings(fields, N, v) /\ AreEncodings(fields, n - 1, s)
  BY <1>0, <1>3, EncodingsAre
<1>5. PICK p \in Seq(Seq(Byte)) : /\ p = Encodings(fields, v) /\ Len(p) = N
                                  /\ \A i \in 1..N : p[i] = fields[i].encode[v[i]]
  BY <1>4 DEF AreEncodings
<1>6. PICK q \in Seq(Seq(Byte)) : /\ q = Encodings(fields, s) /\ Len(q) = n - 1
                                  /\ \A i \in 1..n - 1 : q[i] = fields[i].encode[s[i]]
  BY <1>4 DEF AreEncodings
<1>7. n \in 1..Len(p)
  BY <1>0, <1>5
<1>8. PICK r \in Seq(Seq(Byte)) : r = SubSeq(p, 1, n - 1) /\ Len(r) = n - 1 /\ \A j \in 1..n - 1 : r[j] = p[j]
  <2>1. /\ SubSeq(p, 1, n - 1) \in Seq(Seq(Byte)) /\ Len(SubSeq(p, 1, n - 1)) = n - 1
        /\ \A j \in 1..n - 1 : SubSeq(p, 1, n - 1)[j] = p[j]
    BY <1>7, Parted
  <2> QED BY <2>1
<1>9. q = r
  <2>1. \A j \in 1..Len(q) : q[j] = r[j]
    <3> SUFFICES ASSUME NEW j \in 1..n - 1 PROVE q[j] = r[j]
      BY <1>6
    <3>1. j \in 1..N /\ s[j] = v[j]
      BY <1>0, <1>2
    <3>2. q[j] = fields[j].encode[s[j]] /\ p[j] = fields[j].encode[v[j]]
      BY <1>5, <1>6, <3>1
    <3> QED BY <1>8, <3>1, <3>2
  <2> QED BY <1>6, <1>8, <2>1, SeqEqual
<1>10. FlattenSeq(p) = FlattenSeq(SubSeq(p, 1, n - 1)) \o (p[n] \o FlattenSeq(SubSeq(p, n + 1, Len(p))))
  BY <1>7, FlattenAround
<1>11. p[n] = fields[n].encode[v[n]]
  BY <1>5, <1>7
<1>12. FlatTuple(fields, v) = FlatTuple(fields, s) \o (fields[n].encode[v[n]] \o Rest(fields, v, n))
  BY <1>5, <1>6, <1>8, <1>9, <1>10, <1>11 DEF FlatTuple, Rest
<1> QED BY <1>2, <1>3, <1>12 DEF StandsAround

\* Tuples whose first different field is in that order encode in that order.
LEMMA TupleOrder ==
  ASSUME NEW K, NEW fields \in Seq(K), NEW Fs, Chained(fields, Fs),
         NEW v \in Tuples(fields, Len(fields)), NEW w \in Tuples(fields, Len(fields)),
         NEW i \in 1..Len(fields), \A j \in 1..i - 1 : v[j] = w[j],
         <<v[i], w[i]>> \in fields[i].below,
         NEW x \in Continues(Fs[Len(fields)]), NEW y \in Continues(Fs[Len(fields)])
  PROVE  memcmp(FlatTuple(fields, v) \o x, FlatTuple(fields, w) \o y)
<1>0. PICK N \in Nat : N = Len(fields) /\ N \in 0..Len(fields) /\ i \in 1..N /\ i \in Nat
  BY LenProperties
<1>1. x \in Seq(Byte) /\ y \in Seq(Byte)
  BY DEF Continues
<1>2. AreEncodings(fields, N, v) /\ AreEncodings(fields, N, w)
  BY <1>0, ChainedShaped, EncodingsAre
<1>3. PICK p \in Seq(Seq(Byte)) :
        /\ p = Encodings(fields, v) /\ Len(p) = N
        /\ \A j \in 1..N : p[j] = fields[j].encode[v[j]] /\ v[j] \in fields[j].values
  BY <1>2 DEF AreEncodings
<1>4. PICK q \in Seq(Seq(Byte)) :
        /\ q = Encodings(fields, w) /\ Len(q) = N
        /\ \A j \in 1..N : q[j] = fields[j].encode[w[j]] /\ w[j] \in fields[j].values
  BY <1>2 DEF AreEncodings
<1>5. MayStand(fields, Fs, v, x) /\ MayStand(fields, Fs, w, y)
  BY TupleRest
<1>6. i \in 0..Len(fields)
  BY <1>0
<1>7. PICK P \in Continues(Fs[i]) : P = FlattenSeq(SubSeq(p, i + 1, Len(p))) \o x
  BY <1>3, <1>5, <1>6 DEF MayStand, Rest
<1>8. PICK Q \in Continues(Fs[i]) : Q = FlattenSeq(SubSeq(q, i + 1, Len(q))) \o y
  BY <1>4, <1>5, <1>6 DEF MayStand, Rest
<1>9. memcmp(p[i] \o P, q[i] \o Q)
  <2>1. Orders(fields[i], Fs[i])
    BY DEF Chained, Laws
  <2>2. /\ v[i] \in fields[i].values /\ w[i] \in fields[i].values
        /\ p[i] = fields[i].encode[v[i]] /\ q[i] = fields[i].encode[w[i]]
    BY <1>0, <1>3, <1>4
  <2> QED BY <2>1, <2>2 DEF Orders
<1>10. \A j \in 1..i - 1 : p[j] = q[j]
  <2> SUFFICES ASSUME NEW j \in 1..i - 1 PROVE p[j] = q[j]
    OBVIOUS
  <2>1. j \in 1..N /\ v[j] = w[j]
    BY <1>0
  <2> QED BY <1>3, <1>4, <2>1
<1>11. i \in 1..Len(q) /\ i <= Len(p) + 1 /\ i # Len(p) + 1
  BY <1>0, <1>3, <1>4
<1>12. memcmp(FlattenSeq(p) \o x, FlattenSeq(q) \o y)
  BY <1>1, <1>7, <1>8, <1>9, <1>10, <1>11, FlattenOrder
<1> QED BY <1>3, <1>4, <1>12 DEF FlatTuple

\* The sum of the fields' lengths.
MaxSums(g, fields) ==
  g = [n \in 0..Len(fields) |-> IF n = 0 THEN 0 ELSE g[n - 1] + fields[n].max]

\* max_tuple adds up the fields' lengths.
LEMMA TupleMax ==
  ASSUME NEW K, NEW fields \in Seq(K), ShapedFields(fields)
  PROVE  \E g \in [0..Len(fields) -> Nat] :
           /\ g[0] = 0 /\ \A n \in 1..Len(fields) : g[n] = g[n - 1] + fields[n].max
           /\ max_tuple(fields) = g[Len(fields)]
<1>0. PICK N \in Nat : N = Len(fields)
  BY LenProperties
<1> DEFINE c == CHOOSE g : MaxSums(g, fields)
<1>1. PICK step \in [1..N -> [Nat -> Nat]] : \A n \in 1..N : \A a \in Nat : step[n][a] = a + fields[n].max
  <2> DEFINE s == [n \in 1..N |-> [a \in Nat |-> a + fields[n].max]]
  <2>1. \A n \in 1..N : fields[n].max \in Nat
    BY <1>0 DEF ShapedFields, Shaped
  <2>2. \A n \in 1..N : [a \in Nat |-> a + fields[n].max] \in [Nat -> Nat]
    BY <2>1
  <2>3. s \in [1..N -> [Nat -> Nat]] /\ \A n \in 1..N : \A a \in Nat : s[n][a] = a + fields[n].max
    BY <2>2
  <2> QED BY <2>3
<1>2. PICK f \in [0..N -> Nat] : f[0] = 0 /\ \A n \in 1..N : f[n] = step[n][f[n - 1]]
  <2>1. Countable(N, Nat)
    BY Counted
  <2>2. 0 \in Nat
    OBVIOUS
  <2> QED BY <1>1, <2>1, <2>2 DEF Countable
<1>3. \A n \in 1..N : f[n] = f[n - 1] + fields[n].max
  <2> SUFFICES ASSUME NEW n \in 1..N PROVE f[n] = f[n - 1] + fields[n].max
    OBVIOUS
  <2>1. n - 1 \in 0..N
    BY <1>0
  <2>2. f[n - 1] \in Nat
    BY <2>1
  <2> QED BY <1>1, <1>2, <2>2
<1>4. MaxSums(f, fields)
  <2>1. ASSUME NEW n \in 0..N PROVE f[n] = IF n = 0 THEN 0 ELSE f[n - 1] + fields[n].max
    <3>1. n # 0 => n \in 1..N
      BY <1>0
    <3>2. CASE n = 0
      BY <1>2, <3>2
    <3>3. CASE n # 0
      BY <1>3, <3>1, <3>3
    <3> QED BY <3>2, <3>3
  <2>2. f = [n \in 0..N |-> f[n]]
    OBVIOUS
  <2> QED BY <1>0, <2>1, <2>2 DEF MaxSums
<1>5. MaxSums(c, fields)
  BY <1>4
<1>6. max_tuple(fields) = c[N]
  BY <1>0 DEF max_tuple, MaxSums
<1> HIDE DEF c
<1>7. \A n \in 0..N : c[n] = IF n = 0 THEN 0 ELSE c[n - 1] + fields[n].max
  BY <1>0, <1>5 DEF MaxSums
<1> DEFINE T == {n \in Nat : n <= N => c[n] = f[n]}
<1>8. 0 \in T
  <2>1. 0 \in 0..N
    BY <1>0
  <2>2. c[0] = 0
    BY <1>7, <2>1
  <2> QED BY <1>2, <2>2
<1>9. ASSUME NEW n \in T PROVE n + 1 \in T
  <2>1. ASSUME n + 1 <= N PROVE c[n + 1] = f[n + 1]
    <3>1. n \in Nat
      OBVIOUS
    <3>2. n + 1 \in 0..N /\ n + 1 \in 1..N /\ n + 1 # 0 /\ (n + 1) - 1 = n /\ n <= N
      BY <1>0, <2>1, <3>1
    <3>3. c[n] = f[n]
      BY <3>2
    <3>4. c[n + 1] = c[n] + fields[n + 1].max
      BY <1>7, <3>2
    <3>5. f[n + 1] = f[n] + fields[n + 1].max
      BY <1>3, <3>2
    <3> QED BY <3>3, <3>4, <3>5
  <2>2. n + 1 \in Nat
    OBVIOUS
  <2> QED BY <2>1, <2>2
<1>10. T = Nat
  <2> HIDE DEF T
  <2>1. T \in SUBSET Nat
    BY DEF T
  <2> QED BY <1>8, <1>9, <2>1, NaturalsFrom
<1>11. c[N] = f[N]
  <2>1. N \in T
    BY <1>10
  <2>2. N <= N
    BY <1>0
  <2> QED BY <2>1, <2>2
<1> QED BY <1>0, <1>2, <1>3, <1>6, <1>11

\* No tuple is longer than that.
LEMMA TupleFits ==
  ASSUME NEW K, NEW fields \in Seq(K), ShapedFields(fields),
         \A i \in 1..Len(fields) : Fits(fields[i])
  PROVE  /\ max_tuple(fields) \in Nat
         /\ \A v \in Tuples(fields, Len(fields)) : Len(FlatTuple(fields, v)) <= max_tuple(fields)
<1>0. PICK N \in Nat : N = Len(fields)
  BY LenProperties
<1>1. PICK g \in [0..N -> Nat] : /\ g[0] = 0 /\ \A n \in 1..N : g[n] = g[n - 1] + fields[n].max
                                 /\ max_tuple(fields) = g[N]
  BY <1>0, TupleMax
<1> DEFINE Fit(n) == \A v \in Tuples(fields, n) : Len(FlatTuple(fields, v)) <= g[n]
           T == {n \in Nat : n <= N => Fit(n)}
<1>2. 0 \in T
  <2>1. ASSUME NEW v \in Tuples(fields, 0) PROVE Len(FlatTuple(fields, v)) <= g[0]
    <3>1. 0 \in 0..Len(fields)
      BY <1>0
    <3>2. AreEncodings(fields, 0, v)
      BY <3>1, EncodingsAre
    <3>3. Encodings(fields, v) = <<>>
      BY <3>2, EmptySeq DEF AreEncodings
    <3>4. FlattenSeq(<<>>) = <<>>
      <4>1. <<>> \in Seq(Seq(Byte))
        OBVIOUS
      <4> QED BY <4>1, FlattenStep
    <3>5. Len(FlatTuple(fields, v)) = 0
      BY <3>3, <3>4 DEF FlatTuple
    <3> QED BY <1>1, <3>5
  <2>2. Fit(0)
    BY <2>1
  <2> QED BY <2>2
<1>3. ASSUME NEW n \in T PROVE n + 1 \in T
  <2>1. ASSUME n + 1 <= N PROVE Fit(n + 1)
    <3>1. n \in Nat
      OBVIOUS
    <3>2. n <= N
      BY <1>0, <2>1, <3>1
    <3>3. Fit(n)
      BY <3>2
    <3>4. PICK m \in 1..N : m = n + 1 /\ m - 1 = n /\ m - 1 \in 0..N
      <4>1. n + 1 \in 1..N /\ (n + 1) - 1 = n /\ n \in 0..N
        BY <1>0, <2>1, <3>1
      <4> QED BY <4>1
    <3>5. ASSUME NEW v \in Tuples(fields, m) PROVE Len(FlatTuple(fields, v)) <= g[m]
      <4>0. m \in 1..Len(fields) /\ m - 1 \in 0..Len(fields)
        BY <1>0, <3>4
      <4>1. TupleGrowth(fields, m)
        BY <4>0, TupleGrows
      <4>2. PICK u \in Tuples(fields, m - 1), c \in fields[m].values : v = Append(u, c)
        <5>1. v \in NextTuples(Tuples(fields, m - 1), fields, m)
          BY <4>1 DEF TupleGrowth
        <5> QED BY <5>1 DEF NextTuples
      <4>3. TupleGrowsBy(fields, m, u, c)
        BY <4>0, FlatTupleAppend
      <4>4. AreEncodings(fields, m - 1, u)
        BY <4>0, EncodingsAre
      <4>5. PICK fu \in Seq(Byte) : fu = FlatTuple(fields, u)
        BY <4>4 DEF AreEncodings
      <4>6. PICK e \in Seq(Byte) : e = fields[m].encode[c]
        BY <4>0 DEF ShapedFields, Shaped
      <4>7. Len(FlatTuple(fields, v)) = Len(fu) + Len(e)
        <5>1. FlatTuple(fields, v) = fu \o e
          BY <4>2, <4>3, <4>5, <4>6 DEF TupleGrowsBy
        <5>2. Len(fu \o e) = Len(fu) + Len(e)
          BY BytesJoined
        <5> QED BY <5>1, <5>2
      <4>8. Len(e) <= fields[m].max /\ fields[m].max \in Nat
        BY <4>0, <4>6 DEF Fits, ShapedFields, Shaped
      <4>9. Len(fu) <= g[m - 1] /\ g[m - 1] \in Nat
        BY <1>1, <3>3, <3>4, <4>5
      <4>10. g[m] = g[m - 1] + fields[m].max
        BY <1>1
      <4>11. Len(fu) \in Nat /\ Len(e) \in Nat
        BY LenProperties
      <4> HIDE DEF FlatTuple
      <4> QED BY <4>7, <4>8, <4>9, <4>10, <4>11, SMTT(30)
    <3>6. Fit(m)
      BY <3>5
    <3> QED BY <3>4, <3>6
  <2>2. n + 1 \in Nat
    OBVIOUS
  <2> QED BY <2>1, <2>2
<1>4. T = Nat
  <2> HIDE DEF T
  <2>1. T \in SUBSET Nat
    BY DEF T
  <2> QED BY <1>2, <1>3, <2>1, NaturalsFrom
<1>5. Fit(N)
  <2>1. N \in T
    BY <1>4
  <2>2. N <= N
    BY <1>0
  <2> QED BY <2>1, <2>2
<1>6. g[N] \in Nat
  <2>1. N \in 0..N
    BY <1>0
  <2> QED BY <1>1, <2>1
<1> QED BY <1>0, <1>1, <1>5, <1>6

\* The next field fails, or is what the bytes there begin with.
TurnsField(k, b, v, l) ==
  \/ \E e \in Errors : next_field(k, b, Reads(v, l)) = Fails(e)
  \/ \E c \in k.values, m \in 0..Len(b) :
       /\ next_field(k, b, Reads(v, l)) = Reads(Append(v, c), m)
       /\ SubSeq(b, 1, m) = SubSeq(b, 1, l) \o k.encode[c]

\* A turn of the tuple's loop fails or goes on behind the field's encoding.
LEMMA FieldTurn ==
  ASSUME NEW k, Shaped(k), Canonical(k), NEW b \in Seq(Byte), NEW v, NEW l \in 0..Len(b)
  PROVE  TurnsField(k, b, v, l)
<1>0. k.encode \in [k.values -> Seq(Byte)] /\ k.decode \in [Seq(Byte) -> Results(k.values)]
  BY DEF Shaped
<1>1. Len(b) \in Nat /\ l \in Nat /\ l <= Len(b)
  BY LenProperties
<1>2. PICK Q \in Seq(Byte) : /\ Q = From(b, l) /\ Len(Q) = Len(b) - l
                             /\ \A j \in 1..Len(b) - l : Q[j] = b[l + j]
  BY FromIs
<1>3. PICK item : item = k.decode[Q] /\ item \in Results(k.values)
  BY <1>0
<1>4. Reads(v, l).value = v /\ Reads(v, l).used = l
  BY DEF Reads
<1>5. next_field(k, b, Reads(v, l))
        = IF item.res # "ok" THEN item ELSE Read(Reads(v, l), item.value, item.used)
  BY <1>2, <1>3, <1>4 DEF next_field
<1>6. CASE item \in {Fails(e) : e \in Errors}
  <2>1. PICK e \in Errors : item = Fails(e)
    BY <1>6
  <2>2. item.res # "ok"
    BY <2>1, Answers
  <2>3. next_field(k, b, Reads(v, l)) = Fails(e)
    BY <1>5, <2>1, <2>2
  <2> QED BY <2>3 DEF TurnsField
<1>7. CASE item \notin {Fails(e) : e \in Errors}
  <2>1. PICK c \in k.values, n \in Nat : item = Ok(c, n)
    BY <1>3, <1>7 DEF Results
  <2>2. item.res = "ok" /\ item.value = c /\ item.used = n
    BY <2>1 DEF Ok
  <2>3. n \in 0..Len(Q) /\ k.encode[c] = SubSeq(Q, 1, n)
    <3>1. k.decode[Q] = Ok(c, n)
      BY <1>3, <2>1
    <3> QED BY <3>1 DEF Canonical
  <2>4. PICK e \in Seq(Byte) : e = k.encode[c] /\ Len(e) = n /\ \A j \in 1..n : e[j] = Q[j]
    <3>1. \A j \in 1..n : Q[j] \in Byte
      <4>1. Len(Q) \in Nat
        BY LenProperties
      <4>2. \A j \in 1..n : j \in 1..Len(Q)
        BY <2>3, <4>1
      <4> QED BY <4>2, ElementOfSeq
    <3>2. Len(SubSeq(Q, 1, n)) = n /\ \A j \in 1..n : SubSeq(Q, 1, n)[j] = Q[j]
      BY <3>1, SubSeqProperties
    <3>3. k.encode[c] \in Seq(Byte)
      BY <1>0
    <3> QED BY <2>3, <3>2, <3>3
  <2>5. PICK m \in 0..Len(b) : m = l + n
    <3>1. n \in Nat /\ n <= Len(b) - l
      BY <1>1, <1>2, <2>3
    <3> QED BY <1>1, <3>1
  <2>6. SubSeq(b, 1, m) = SubSeq(b, 1, l) \o e
    <3>1. l + Len(e) <= Len(b)
      BY <1>1, <2>4, <2>5
    <3>2. \A j \in 1..Len(e) : b[l + j] = e[j]
      <4> SUFFICES ASSUME NEW j \in 1..n PROVE b[l + j] = e[j]
        BY <2>4
      <4>1. j \in 1..Len(b) - l
        BY <1>1, <2>5
      <4> QED BY <1>2, <2>4, <4>1
    <3>3. Grows(b, l, e)
      BY BytesGrow
    <3> QED BY <2>4, <2>5, <3>1, <3>2, <3>3 DEF Grows
  <2>7. next_field(k, b, Reads(v, l)) = Reads(Append(v, c), m)
    <3>1. next_field(k, b, Reads(v, l)) = Read(Reads(v, l), c, n)
      BY <1>5, <2>2
    <3>2. Read(Reads(v, l), c, n) = Reads(Append(v, c), l + n)
      BY DEF Read, Reads
    <3> QED BY <2>5, <3>1, <3>2
  <2> QED BY <2>4, <2>6, <2>7 DEF TurnsField
<1> QED BY <1>6, <1>7

\* What may have been read of n fields.
TupleRead(fields, n, b) ==
  {so \in {Reads(v, l) : v \in Tuples(fields, n), l \in 0..Len(b)} :
     FlatTuple(fields, so.value) = SubSeq(b, 1, so.used)}
Failures == {Fails(e) : e \in Errors}

\* A turn of the tuple's loop keeps that what was read is what was written.
LEMMA TupleTurn ==
  ASSUME NEW K, NEW fields \in Seq(K), ShapedFields(fields),
         \A i \in 1..Len(fields) : Canonical(fields[i]),
         NEW b \in Seq(Byte), NEW n \in 1..Len(fields), NEW so \in TupleRead(fields, n - 1, b)
  PROVE  next_field(fields[n], b, so) \in Failures \cup TupleRead(fields, n, b)
<1>1. PICK v \in Tuples(fields, n - 1), l \in 0..Len(b) :
        so = Reads(v, l) /\ FlatTuple(fields, v) = SubSeq(b, 1, l)
  <2>1. PICK v \in Tuples(fields, n - 1), l \in 0..Len(b) : so = Reads(v, l)
    BY DEF TupleRead
  <2>2. FlatTuple(fields, so.value) = SubSeq(b, 1, so.used)
    BY DEF TupleRead
  <2>3. so.value = v /\ so.used = l
    BY <2>1 DEF Reads
  <2> QED BY <2>1, <2>2, <2>3
<1>2. TurnsField(fields[n], b, v, l)
  <2>1. Shaped(fields[n]) /\ Canonical(fields[n])
    BY DEF ShapedFields
  <2> QED BY <2>1, FieldTurn
<1>3. CASE \E e \in Errors : next_field(fields[n], b, Reads(v, l)) = Fails(e)
  BY <1>1, <1>3 DEF Failures
<1>4. CASE \E c \in fields[n].values, m \in 0..Len(b) :
             /\ next_field(fields[n], b, Reads(v, l)) = Reads(Append(v, c), m)
             /\ SubSeq(b, 1, m) = SubSeq(b, 1, l) \o fields[n].encode[c]
  <2>1. PICK c \in fields[n].values, m \in 0..Len(b) :
          /\ next_field(fields[n], b, so) = Reads(Append(v, c), m)
          /\ SubSeq(b, 1, m) = SubSeq(b, 1, l) \o fields[n].encode[c]
    BY <1>1, <1>4
  <2>2. PICK u \in Tuples(fields, n) : u = Append(v, c)
    <3>1. TupleGrowth(fields, n)
      BY TupleGrows
    <3> QED BY <3>1 DEF TupleGrowth
  <2>3. FlatTuple(fields, u) = SubSeq(b, 1, m)
    <3>1. TupleGrowsBy(fields, n, v, c)
      BY FlatTupleAppend
    <3> QED BY <1>1, <2>1, <2>2, <3>1 DEF TupleGrowsBy
  <2>4. Reads(u, m).value = u /\ Reads(u, m).used = m
    BY DEF Reads
  <2>5. Reads(u, m) \in TupleRead(fields, n, b)
    BY <2>3, <2>4 DEF TupleRead
  <2> QED BY <2>1, <2>2, <2>5
<1> QED BY <1>2, <1>3, <1>4 DEF TurnsField

\* Turns that have read one of those values and stand at one of those places.
Standing(S, L) == {Reads(v, l) : v \in S, l \in L}
StandsThere(S, L) == \A v \in S, l \in L : Reads(v, l) \in Standing(S, L)

\* Being in the set is what it says.
LEMMA IsStanding ==
  ASSUME NEW S, NEW L PROVE StandsThere(S, L)
BY DEF StandsThere, Standing

\* The loop over the fields.
ReadsTuple(g, fields, b) ==
  g = [n \in 0..Len(fields) |->
         IF n = 0 THEN Reading
         ELSE IF g[n - 1].res = "reading" THEN next_field(fields[n], b, g[n - 1])
         ELSE g[n - 1]]

TupleRuns(fields, b) ==
  \E g : /\ g[0] = Reading
         /\ \A n \in 1..Len(fields) :
              g[n] = IF g[n - 1].res = "reading" THEN next_field(fields[n], b, g[n - 1])
                     ELSE g[n - 1]
         /\ decode_tuple(fields, b)
              = IF g[Len(fields)].res = "reading"
                THEN Ok(g[Len(fields)].value, g[Len(fields)].used) ELSE g[Len(fields)]

\* The tuple's loop keeps it to the last field.
LEMMA TupleLoop ==
  ASSUME NEW K, NEW fields \in Seq(K), ShapedFields(fields),
         \A i \in 1..Len(fields) : Canonical(fields[i]), NEW b \in Seq(Byte)
  PROVE  TupleRuns(fields, b)
<1>0. PICK N \in Nat : N = Len(fields)
  BY LenProperties
<1> DEFINE c == CHOOSE g : ReadsTuple(g, fields, b)
           X == Failures \cup Standing(Seq(Anything(fields)), 0..Len(b))
<1>01. StandsThere(Seq(Anything(fields)), 0..Len(b))
  BY IsStanding
<1>1. Reading \in X
  <2>1. <<>> \in Seq(Anything(fields))
    OBVIOUS
  <2>2. 0 \in 0..Len(b)
    BY LenProperties
  <2>3. Reads(<<>>, 0) \in Standing(Seq(Anything(fields)), 0..Len(b))
    BY <1>01, <2>1, <2>2 DEF StandsThere
  <2>4. Reading = Reads(<<>>, 0)
    BY DEF Reads, Reading
  <2> QED BY <2>3, <2>4
<1>2. ASSUME NEW n \in 1..N, NEW so \in X, so.res = "reading"
      PROVE  next_field(fields[n], b, so) \in X
  <2>1. so \notin Failures
    BY <1>2, Readings DEF Failures
  <2>2. PICK v \in Seq(Anything(fields)), l \in 0..Len(b) : so = Reads(v, l)
    BY <2>1 DEF Standing
  <2>3. n \in 1..Len(fields)
    BY <1>0
  <2>4. TurnsField(fields[n], b, v, l)
    <3>1. Shaped(fields[n]) /\ Canonical(fields[n])
      BY <2>3 DEF ShapedFields
    <3> QED BY <3>1, FieldTurn
  <2>5. CASE \E e \in Errors : next_field(fields[n], b, so) = Fails(e)
    BY <2>5 DEF Failures
  <2>6. CASE ~\E e \in Errors : next_field(fields[n], b, so) = Fails(e)
    <3>1. PICK d \in fields[n].values, m \in 0..Len(b) : next_field(fields[n], b, so) = Reads(Append(v, d), m)
      BY <2>2, <2>4, <2>6 DEF TurnsField
    <3>2. d \in Anything(fields)
      BY <2>3 DEF Anything
    <3>3. Append(v, d) \in Seq(Anything(fields))
      BY <3>2, AppendProperties
    <3>4. Reads(Append(v, d), m) \in Standing(Seq(Anything(fields)), 0..Len(b))
      BY <1>01, <3>3 DEF StandsThere
    <3> QED BY <3>1, <3>4
  <2> QED BY <2>5, <2>6
<1> HIDE DEF X
<1>3. PICK step \in [1..N -> [X -> X]] :
        \A n \in 1..N : \A so \in X :
          step[n][so] = IF so.res = "reading" THEN next_field(fields[n], b, so) ELSE so
  <2> DEFINE s == [n \in 1..N |->
                     [so \in X |-> IF so.res = "reading" THEN next_field(fields[n], b, so) ELSE so]]
  <2>1. \A n \in 1..N : [so \in X |-> IF so.res = "reading" THEN next_field(fields[n], b, so) ELSE so]
                           \in [X -> X]
    BY <1>2
  <2>2. s \in [1..N -> [X -> X]]
    BY <2>1
  <2>3. \A n \in 1..N : \A so \in X :
          s[n][so] = IF so.res = "reading" THEN next_field(fields[n], b, so) ELSE so
    OBVIOUS
  <2> QED BY <2>2, <2>3
<1>4. PICK f \in [0..N -> X] : f[0] = Reading /\ \A n \in 1..N : f[n] = step[n][f[n - 1]]
  <2>1. Countable(N, X)
    BY Counted
  <2> QED BY <1>1, <1>3, <2>1 DEF Countable
<1>5. \A n \in 1..N : f[n] = IF f[n - 1].res = "reading" THEN next_field(fields[n], b, f[n - 1]) ELSE f[n - 1]
  <2> SUFFICES ASSUME NEW n \in 1..N
               PROVE  f[n] = IF f[n - 1].res = "reading" THEN next_field(fields[n], b, f[n - 1]) ELSE f[n - 1]
    OBVIOUS
  <2>1. n - 1 \in 0..N
    BY <1>0
  <2>2. f[n - 1] \in X
    BY <2>1
  <2>3. f[n] = step[n][f[n - 1]]
    BY <1>4
  <2> QED BY <1>3, <2>2, <2>3
<1>6. ReadsTuple(f, fields, b)
  <2>1. \A n \in 0..N : f[n] = IF n = 0 THEN Reading
                               ELSE IF f[n - 1].res = "reading" THEN next_field(fields[n], b, f[n - 1])
                               ELSE f[n - 1]
    <3> SUFFICES ASSUME NEW n \in 0..N
                 PROVE  f[n] = IF n = 0 THEN Reading
                               ELSE IF f[n - 1].res = "reading" THEN next_field(fields[n], b, f[n - 1])
                               ELSE f[n - 1]
      OBVIOUS
    <3>1. n = 0 \/ n \in 1..N
      BY <1>0
    <3> QED BY <1>4, <1>5, <3>1
  <2>2. f = [n \in 0..N |-> f[n]]
    OBVIOUS
  <2> QED BY <1>0, <2>1, <2>2 DEF ReadsTuple
<1>7. ReadsTuple(c, fields, b)
  BY <1>6
<1>8. decode_tuple(fields, b) = IF c[N].res = "reading" THEN Ok(c[N].value, c[N].used) ELSE c[N]
  BY <1>0 DEF decode_tuple, ReadsTuple
<1> HIDE DEF c
<1>9. \A n \in 0..N : c[n] = IF n = 0 THEN Reading
                             ELSE IF c[n - 1].res = "reading" THEN next_field(fields[n], b, c[n - 1])
                             ELSE c[n - 1]
  BY <1>0, <1>7 DEF ReadsTuple
<1>10. c[0] = Reading
  <2>1. 0 \in 0..N
    BY <1>0
  <2> QED BY <1>9, <2>1
<1>11. \A n \in 1..N : c[n] = IF c[n - 1].res = "reading" THEN next_field(fields[n], b, c[n - 1]) ELSE c[n - 1]
  <2> SUFFICES ASSUME NEW n \in 1..N
               PROVE  c[n] = IF c[n - 1].res = "reading" THEN next_field(fields[n], b, c[n - 1]) ELSE c[n - 1]
    OBVIOUS
  <2>1. n \in 0..N /\ n # 0
    BY <1>0
  <2> QED BY <1>9, <2>1
<1> QED BY <1>0, <1>8, <1>10, <1>11 DEF TupleRuns

\* No fields have no bytes.
LEMMA NoFieldsNoBytes ==
  ASSUME NEW K, NEW fields \in Seq(K), ShapedFields(fields)
  PROVE  <<>> \in Tuples(fields, 0) /\ FlatTuple(fields, <<>>) = <<>>
<1>1. <<>> \in Tuples(fields, 0)
  BY NoFields
<1>2. 0 \in 0..Len(fields)
  BY LenProperties
<1>3. AreEncodings(fields, 0, <<>>)
  BY <1>1, <1>2, EncodingsAre
<1>4. Encodings(fields, <<>>) = <<>>
  BY <1>3, EmptySeq DEF AreEncodings
<1>5. FlattenSeq(<<>>) = <<>>
  <2>1. <<>> \in Seq(Seq(Byte))
    OBVIOUS
  <2> QED BY <2>1, FlattenStep
<1> QED BY <1>1, <1>4, <1>5 DEF FlatTuple

\* Decoding fails, or gives a tuple the bytes begin with.
TupleGiven(fields, b) ==
  \/ \E e \in Errors : decode_tuple(fields, b) = Fails(e)
  \/ \E v \in Tuples(fields, Len(fields)), n \in 0..Len(b) :
       decode_tuple(fields, b) = Ok(v, n) /\ FlatTuple(fields, v) = SubSeq(b, 1, n)

\* What decodes as a tuple is a tuple's encoding, and how far it goes.
LEMMA TupleEnds ==
  ASSUME NEW K, NEW fields \in Seq(K), ShapedFields(fields),
         \A i \in 1..Len(fields) : Canonical(fields[i]), NEW b \in Seq(Byte)
  PROVE  TupleGiven(fields, b)
<1>0. PICK N \in Nat : N = Len(fields)
  BY LenProperties
<1>1. PICK g : /\ g[0] = Reading
               /\ \A n \in 1..Len(fields) :
                    g[n] = IF g[n - 1].res = "reading" THEN next_field(fields[n], b, g[n - 1])
                           ELSE g[n - 1]
               /\ decode_tuple(fields, b)
                    = IF g[Len(fields)].res = "reading"
                      THEN Ok(g[Len(fields)].value, g[Len(fields)].used) ELSE g[Len(fields)]
  <2>1. TupleRuns(fields, b)
    BY TupleLoop
  <2> QED BY <2>1 DEF TupleRuns
<1>2. \A so \in Failures : so.res # "reading"
  BY Readings DEF Failures
<1>3. \A n : \A so \in TupleRead(fields, n, b) :
        \E v \in Tuples(fields, n), l \in 0..Len(b) :
          so = Reads(v, l) /\ so.value = v /\ so.used = l /\ so.res = "reading"
          /\ FlatTuple(fields, v) = SubSeq(b, 1, l)
  <2> SUFFICES ASSUME NEW n, NEW so \in TupleRead(fields, n, b)
               PROVE  \E v \in Tuples(fields, n), l \in 0..Len(b) :
                        so = Reads(v, l) /\ so.value = v /\ so.used = l /\ so.res = "reading"
                        /\ FlatTuple(fields, v) = SubSeq(b, 1, l)
    OBVIOUS
  <2>1. PICK v \in Tuples(fields, n), l \in 0..Len(b) : so = Reads(v, l)
    BY DEF TupleRead
  <2>2. FlatTuple(fields, so.value) = SubSeq(b, 1, so.used)
    BY DEF TupleRead
  <2>3. so.value = v /\ so.used = l /\ so.res = "reading"
    BY <2>1, Readings
  <2> QED BY <2>1, <2>2, <2>3
<1> DEFINE T == {n \in Nat : n <= N => g[n] \in Failures \cup TupleRead(fields, n, b)}
<1>4. 0 \in T
  <2>1. PICK v \in Tuples(fields, 0) : v = <<>> /\ FlatTuple(fields, v) = <<>>
    BY NoFieldsNoBytes
  <2>2. PICK l \in 0..Len(b) : l = 0
    BY LenProperties
  <2>3. SubSeq(b, 1, 0) = <<>>
    BY SubSeqEmpty
  <2>4. Reads(v, l).value = v /\ Reads(v, l).used = l
    BY Readings
  <2>5. FlatTuple(fields, v) = SubSeq(b, 1, l)
    BY <2>1, <2>2, <2>3
  <2>6. Reads(v, l) \in TupleRead(fields, 0, b)
    BY <2>4, <2>5 DEF TupleRead
  <2>7. g[0] = Reads(v, l)
    BY <1>1, <2>1, <2>2, Readings
  <2> QED BY <2>6, <2>7
<1>5. ASSUME NEW n \in T PROVE n + 1 \in T
  <2>1. ASSUME n + 1 <= N PROVE g[n + 1] \in Failures \cup TupleRead(fields, n + 1, b)
    <3>1. n \in Nat
      OBVIOUS
    <3>2. n <= N
      BY <1>0, <2>1, <3>1
    <3>3. g[n] \in Failures \cup TupleRead(fields, n, b)
      BY <3>2
    <3>4. PICK m \in 1..Len(fields) : m = n + 1 /\ m - 1 = n
      <4>1. n + 1 \in 1..Len(fields) /\ (n + 1) - 1 = n
        BY <1>0, <2>1, <3>1
      <4> QED BY <4>1
    <3>5. g[m] = IF g[m - 1].res = "reading" THEN next_field(fields[m], b, g[m - 1]) ELSE g[m - 1]
      BY <1>1
    <3>6. CASE g[m - 1] \in Failures
      BY <1>2, <3>4, <3>5, <3>6
    <3>7. CASE g[m - 1] \in TupleRead(fields, m - 1, b)
      <4>1. g[m - 1].res = "reading"
        BY <1>3, <3>7
      <4>2. next_field(fields[m], b, g[m - 1]) \in Failures \cup TupleRead(fields, m, b)
        BY <3>7, TupleTurn
      <4> QED BY <3>4, <3>5, <4>1, <4>2
    <3> QED BY <3>3, <3>4, <3>6, <3>7
  <2>2. n + 1 \in Nat
    OBVIOUS
  <2> QED BY <2>1, <2>2
<1>6. T = Nat
  <2> HIDE DEF T
  <2>1. T \in SUBSET Nat
    BY DEF T
  <2> QED BY <1>4, <1>5, <2>1, NaturalsFrom
<1>7. g[N] \in Failures \cup TupleRead(fields, N, b)
  <2>1. N \in T
    BY <1>6
  <2>2. N <= N
    BY <1>0
  <2> QED BY <2>1, <2>2
<1>8. CASE g[N] \in Failures
  <2>1. decode_tuple(fields, b) = g[N]
    BY <1>0, <1>1, <1>2, <1>8
  <2>2. PICK e \in Errors : g[N] = Fails(e)
    BY <1>8 DEF Failures
  <2> QED BY <2>1, <2>2 DEF TupleGiven
<1>9. CASE g[N] \in TupleRead(fields, N, b)
  <2>1. PICK v \in Tuples(fields, N), l \in 0..Len(b) :
          g[N] = Reads(v, l) /\ g[N].value = v /\ g[N].used = l /\ g[N].res = "reading"
          /\ FlatTuple(fields, v) = SubSeq(b, 1, l)
    BY <1>3, <1>9
  <2>2. decode_tuple(fields, b) = Ok(v, l)
    BY <1>0, <1>1, <2>1
  <2> QED BY <1>0, <2>1, <2>2 DEF TupleGiven
<1> QED BY <1>7, <1>8, <1>9

\* A tuple comes back from its bytes.
LEMMA TupleReturns ==
  ASSUME NEW K, NEW fields \in Seq(K), NEW Fs, Chained(fields, Fs),
         NEW v \in Tuples(fields, Len(fields)), NEW x \in Continues(Fs[Len(fields)])
  PROVE  /\ FlatTuple(fields, v) \o x \in Seq(Byte)
         /\ decode_tuple(fields, FlatTuple(fields, v) \o x) = Ok(v, Len(FlatTuple(fields, v)))
<1>0. PICK N \in Nat : N = Len(fields) /\ N \in 0..Len(fields)
  BY LenProperties
<1>1. /\ ShapedFields(fields)
      /\ \A i \in 1..Len(fields) : Canonical(fields[i]) /\ RoundTrips(fields[i], Fs[i])
  BY ChainedShaped DEF Chained, Laws
<1>2. x \in Seq(Byte)
  BY DEF Continues
<1>3. MayStand(fields, Fs, v, x)
  BY TupleRest
<1>4. v \in Seq(Anything(fields)) /\ Len(v) = N
  BY <1>0 DEF Tuples
<1>5. PICK fv \in Seq(Byte) : fv = FlatTuple(fields, v)
  <2>1. AreEncodings(fields, N, v)
    BY <1>0, <1>1, EncodingsAre
  <2> QED BY <2>1 DEF AreEncodings
<1>6. PICK b \in Seq(Byte) : b = fv \o x
  <2>1. fv \o x \in Seq(Byte)
    BY <1>2, BytesJoined
  <2> QED BY <2>1
<1>7. PICK g : /\ g[0] = Reading
               /\ \A n \in 1..Len(fields) :
                    g[n] = IF g[n - 1].res = "reading" THEN next_field(fields[n], b, g[n - 1])
                           ELSE g[n - 1]
               /\ decode_tuple(fields, b)
                    = IF g[Len(fields)].res = "reading"
                      THEN Ok(g[Len(fields)].value, g[Len(fields)].used) ELSE g[Len(fields)]
  <2>1. TupleRuns(fields, b)
    BY <1>1, TupleLoop
  <2> QED BY <2>1 DEF TupleRuns
\* After n turns n fields are read.
<1> DEFINE P(n) == g[n] = Reads(SubSeq(v, 1, n), Len(FlatTuple(fields, SubSeq(v, 1, n))))
           T == {n \in Nat : n <= N => P(n)}
<1>8. 0 \in T
  <2>1. SubSeq(v, 1, 0) = <<>>
    BY SubSeqEmpty
  <2>2. Len(FlatTuple(fields, <<>>)) = 0
    <3>1. FlatTuple(fields, <<>>) = <<>>
      BY <1>1, NoFieldsNoBytes
    <3> QED BY <3>1
  <2>3. g[0] = Reads(<<>>, 0)
    BY <1>7, Readings
  <2>4. P(0)
    BY <2>1, <2>2, <2>3
  <2> QED BY <2>4
<1>9. ASSUME NEW n \in T PROVE n + 1 \in T
  <2>1. ASSUME n + 1 <= N PROVE P(n + 1)
    <3>1. n \in Nat
      OBVIOUS
    <3>2. n <= N
      BY <1>0, <2>1, <3>1
    <3>3. P(n)
      BY <3>2
    <3>4. PICK m \in 1..Len(fields) : m = n + 1 /\ m - 1 = n /\ m \in 0..Len(fields) /\ m - 1 \in 0..Len(fields)
      <4>1. /\ n + 1 \in 1..Len(fields) /\ (n + 1) - 1 = n
            /\ n + 1 \in 0..Len(fields) /\ n \in 0..Len(fields)
        <5>1. n + 1 >= 1 /\ n + 1 <= Len(fields) /\ n <= Len(fields) /\ Len(fields) \in Nat
          BY <1>0, <2>1, <3>1, SMTT(30)
        <5> QED BY <3>1, <5>1
      <4> QED BY <4>1
    <3>5. PICK s \in Tuples(fields, m - 1) :
            /\ s = SubSeq(v, 1, m - 1)
            /\ SubSeq(v, 1, m) = Append(s, v[m])
            /\ FlatTuple(fields, v) = FlatTuple(fields, s) \o (fields[m].encode[v[m]] \o Rest(fields, v, m))
      <4>1. StandsAround(fields, m, v)
        BY <1>1, TupleAround
      <4> QED BY <4>1 DEF StandsAround
    <3>6. PICK c \in fields[m].values : c = v[m]
      <4>1. m \in 1..N
        BY <1>0
      <4> QED BY <1>0, <4>1 DEF Tuples
    <3>7. PICK e \in Seq(Byte) : e = fields[m].encode[c]
      BY <1>1 DEF ShapedFields, Shaped
    <3>8. PICK fs \in Seq(Byte) : fs = FlatTuple(fields, s)
      <4>1. AreEncodings(fields, m - 1, s)
        BY <1>1, <3>4, EncodingsAre
      <4> QED BY <4>1 DEF AreEncodings
    <3>9. PICK r \in Seq(Byte) : r = Rest(fields, v, m) /\ r \o x \in Continues(Fs[m])
      BY <1>3, <3>4 DEF MayStand
    <3>10. PICK R \in Continues(Fs[m]) : R = r \o x /\ R \in Seq(Byte)
      BY <3>9 DEF Continues
    <3>11. PICK Q \in Seq(Byte) : Q = e \o R
      <4>1. e \o R \in Seq(Byte)
        BY <3>10, BytesJoined
      <4> QED BY <4>1
    <3>12. b = fs \o Q
      <4>1. PICK er \in Seq(Byte) : er = e \o r
        <5>1. e \o r \in Seq(Byte)
          BY BytesJoined
        <5> QED BY <5>1
      <4>2. Assoc(fs, er, x)
        BY <1>2, Regroup, Zenon
      <4>3. Assoc(e, r, x)
        BY <1>2, Regroup, ZenonT(30)
      <4>4. fv = fs \o er
        BY <1>5, <3>5, <3>6, <3>7, <3>8, <3>9, <4>1
      <4>5. b = fs \o (er \o x)
        BY <1>6, <4>2, <4>4 DEF Assoc
      <4>6. er \o x = e \o R
        BY <3>10, <4>1, <4>3 DEF Assoc
      <4> QED BY <3>11, <4>5, <4>6
    <3>13. From(b, Len(fs)) = Q
      <4>1. From(fs \o Q, Len(fs)) = Q
        BY FromConcat
      <4> QED BY <3>12, <4>1
    <3>14. fields[m].decode[Q] = Ok(c, Len(e))
      <4>1. RoundTrips(fields[m], Fs[m])
        BY <1>1
      <4> QED BY <3>7, <3>11, <4>1 DEF RoundTrips
    <3>15. next_field(fields[m], b, Reads(s, Len(fs))) = Reads(Append(s, c), Len(fs) + Len(e))
      <4>1. Reads(s, Len(fs)).used = Len(fs)
        BY Readings
      <4>2. next_field(fields[m], b, Reads(s, Len(fs))) = Read(Reads(s, Len(fs)), c, Len(e))
        <5>1. Ok(c, Len(e)).res = "ok" /\ Ok(c, Len(e)).value = c /\ Ok(c, Len(e)).used = Len(e)
          BY Answers
        <5> QED BY <3>13, <3>14, <4>1, <5>1 DEF next_field
      <4>3. Read(Reads(s, Len(fs)), c, Len(e)) = Reads(Append(s, c), Len(fs) + Len(e))
        BY Readings
      <4> QED BY <4>2, <4>3
    <3>16. g[m] = Reads(Append(s, c), Len(fs) + Len(e))
      <4>1. g[m - 1] = Reads(s, Len(fs))
        BY <3>3, <3>4, <3>5, <3>8
      <4>2. g[m - 1].res = "reading"
        BY <4>1, Readings
      <4>3. g[m] = next_field(fields[m], b, g[m - 1])
        BY <1>7, <4>2
      <4> QED BY <3>15, <4>1, <4>3
    <3>17. Len(FlatTuple(fields, Append(s, c))) = Len(fs) + Len(e)
      <4>1. TupleGrowsBy(fields, m, s, c)
        BY <1>1, FlatTupleAppend
      <4>2. FlatTuple(fields, Append(s, c)) = fs \o e
        BY <3>7, <3>8, <4>1 DEF TupleGrowsBy
      <4>3. Len(fs \o e) = Len(fs) + Len(e)
        BY BytesJoined
      <4> QED BY <4>2, <4>3
    <3>18. P(m)
      BY <3>5, <3>6, <3>16, <3>17
    <3> QED BY <3>4, <3>18
  <2>2. n + 1 \in Nat
    OBVIOUS
  <2> QED BY <2>1, <2>2
<1>10. T = Nat
  <2> HIDE DEF T
  <2>1. T \in SUBSET Nat
    BY DEF T
  <2> QED BY <1>8, <1>9, <2>1, NaturalsFrom
<1>11. P(N)
  <2>1. N \in T
    BY <1>10
  <2>2. N <= N
    BY <1>0
  <2> QED BY <2>1, <2>2
<1>12. SubSeq(v, 1, N) = v
  BY <1>4
<1>13. decode_tuple(fields, b) = Ok(v, Len(fv))
  <2>1. g[N] = Reads(v, Len(fv))
    BY <1>5, <1>11, <1>12
  <2>2. g[N].res = "reading" /\ g[N].value = v /\ g[N].used = Len(fv)
    BY <2>1, Readings
  <2> QED BY <1>0, <1>7, <2>2
<1> QED BY <1>5, <1>6, <1>13

\* Tuples: each field may be followed by the next, then the tuple keeps the
\* laws, and what may follow its last field may follow it.
THEOREM TupleLawful ==
  ASSUME NEW K, NEW fields \in Seq(K), NEW Fs, Chained(fields, Fs)
  PROVE  Laws(tuple(fields), Fs[Len(fields)]) /\ Follows(tuple(fields), Fs[0], Fs[Len(fields)])
<1>0. PICK N \in Nat : N = Len(fields) /\ N \in 0..Len(fields)
  BY LenProperties
<1>1. /\ ShapedFields(fields)
      /\ \A i \in 1..Len(fields) : Canonical(fields[i]) /\ Fits(fields[i]) /\ Orders(fields[i], Fs[i])
  BY ChainedShaped DEF Chained, Laws
<1>2. PICK V : V = Tuples(fields, N) /\ V = TupleValues(fields)
  BY <1>0, TuplesAre
<1>3. PICK B : B = [i \in DOMAIN fields |-> fields[i].below] /\ \A i \in 1..N : B[i] = fields[i].below
  <2>1. PICK D : D = DOMAIN fields /\ D = 1..N
    BY <1>0, LenProperties
  <2>2. PICK B : B = [i \in D |-> fields[i].below]
    OBVIOUS
  <2>3. \A i \in 1..N : B[i] = fields[i].below
    BY <2>1, <2>2
  <2> QED BY <2>1, <2>2, <2>3
<1>4. PICK L : L = {p \in V \X V : Lex(p[1], p[2], B)}
  OBVIOUS
<1>5. PICK t : t = tuple(fields)
  OBVIOUS
<1>6. /\ t.values = V /\ t.below = L /\ t.max = max_tuple(fields)
      /\ t.encode = [v \in V |-> FlatTuple(fields, v)]
      /\ t.decode = [b \in Seq(Byte) |-> decode_tuple(fields, b)]
  <2>1. \A v : FlatTuple(fields, v) = FlattenSeq([i \in DOMAIN v |-> fields[i].encode[v[i]]])
    BY DEF FlatTuple, Encodings
  <2> QED BY <1>2, <1>3, <1>4, <1>5, <2>1 DEF tuple
<1>7. \A v \in V : /\ v \in Seq(Anything(fields)) /\ Len(v) = N
                   /\ \A i \in 1..N : v[i] \in fields[i].values
  BY <1>2 DEF Tuples
<1>8. ASSUME NEW v \in V PROVE FlatTuple(fields, v) \in Seq(Byte)
  <2>1. AreEncodings(fields, N, v)
    BY <1>0, <1>1, <1>2, EncodingsAre
  <2> QED BY <2>1 DEF AreEncodings
<1>9. ASSUME NEW b \in Seq(Byte)
      PROVE  \/ \E e \in Errors : decode_tuple(fields, b) = Fails(e)
             \/ \E v \in V, n \in 0..Len(b) :
                  decode_tuple(fields, b) = Ok(v, n) /\ FlatTuple(fields, v) = SubSeq(b, 1, n)
  <2>1. TupleGiven(fields, b)
    BY <1>1, TupleEnds
  <2> QED BY <1>0, <1>2, <2>1 DEF TupleGiven
<1>10. /\ max_tuple(fields) \in Nat
       /\ \A v \in V : Len(FlatTuple(fields, v)) <= max_tuple(fields)
  BY <1>0, <1>1, <1>2, TupleFits
<1>11. Shaped(t)
  <2>1. ASSUME NEW b \in Seq(Byte) PROVE decode_tuple(fields, b) \in Results(V)
    <3>1. Len(b) \in Nat
      BY LenProperties
    <3>2. \A n \in 0..Len(b) : n \in Nat
      BY <3>1
    <3> QED BY <1>9, <3>2 DEF Results
  <2> QED BY <1>6, <1>8, <1>10, <2>1 DEF Shaped
<1>12. Fits(t)
  BY <1>6, <1>10 DEF Fits
<1>13. Orders(t, Fs[N])
  <2>1. ASSUME NEW v \in V, NEW w \in V PROVE v = w \/ <<v, w>> \in L \/ <<w, v>> \in L
    <3>1. ASSUME NEW i \in Nat, i \in 1..Len(v), i \in 1..Len(w)
          PROVE  v[i] = w[i] \/ <<v[i], w[i]>> \in B[i] \/ <<w[i], v[i]>> \in B[i]
      <4>1. i \in 1..N /\ i \in 1..Len(fields)
        BY <1>0, <1>7, <3>1
      <4>2. B[i] = fields[i].below /\ v[i] \in fields[i].values /\ w[i] \in fields[i].values
        BY <1>3, <1>7, <4>1
      <4>3. Orders(fields[i], Fs[i])
        BY <1>1, <4>1
      <4> QED BY <4>2, <4>3 DEF Orders
    <3>2. v = w \/ Lex(v, w, B) \/ Lex(w, v, B)
      BY <1>7, <3>1, LexTotal
    <3> QED BY <1>4, <3>2
  <2>2. ASSUME NEW v \in V, NEW w \in V, <<v, w>> \in L,
               NEW x \in Continues(Fs[N]), NEW y \in Continues(Fs[N])
        PROVE  memcmp(FlatTuple(fields, v) \o x, FlatTuple(fields, w) \o y)
    <3>1. Lex(v, w, B)
      BY <1>4, <2>2
    <3>2. PICK i \in 1..Len(w) : /\ i <= Len(v) + 1
                                 /\ \A j \in 1..i - 1 : v[j] = w[j]
                                 /\ i <= Len(v) => <<v[i], w[i]>> \in B[i]
      BY <3>1 DEF Lex
    <3>3. i \in 1..N /\ i \in 1..Len(fields) /\ i <= Len(v)
      BY <1>0, <1>7
    <3>4. <<v[i], w[i]>> \in fields[i].below
      BY <1>3, <3>2, <3>3
    <3> QED BY <1>0, <1>2, <3>2, <3>3, <3>4, TupleOrder
  <2> QED BY <1>6, <2>1, <2>2 DEF Orders
<1>14. RoundTrips(t, Fs[N])
  <2>1. ASSUME NEW v \in V, NEW x \in Continues(Fs[N])
        PROVE  /\ FlatTuple(fields, v) \o x \in Seq(Byte)
               /\ decode_tuple(fields, FlatTuple(fields, v) \o x) = Ok(v, Len(FlatTuple(fields, v)))
    BY <1>0, <1>2, TupleReturns
  <2> QED BY <1>6, <2>1 DEF RoundTrips
<1>15. Canonical(t)
  <2>1. ASSUME NEW b \in Seq(Byte), NEW v, NEW n, decode_tuple(fields, b) = Ok(v, n)
        PROVE  v \in V /\ n \in 0..Len(b) /\ FlatTuple(fields, v) = SubSeq(b, 1, n)
    <3>1. \A e \in Errors : Fails(e) # Ok(v, n)
      BY Answers
    <3>2. PICK w \in V, l \in 0..Len(b) :
            decode_tuple(fields, b) = Ok(w, l) /\ FlatTuple(fields, w) = SubSeq(b, 1, l)
      BY <1>9, <2>1, <3>1
    <3>3. w = v /\ l = n
      <4>1. Ok(w, l) = Ok(v, n)
        BY <2>1, <3>2
      <4> QED BY <4>1 DEF Ok
    <3> QED BY <3>2, <3>3
  <2> QED BY <1>6, <2>1 DEF Canonical
<1>16. Laws(t, Fs[N])
  BY <1>11, <1>12, <1>13, <1>14, <1>15 DEF Laws
<1>17. Follows(t, Fs[0], Fs[N])
  <2>1. ASSUME NEW v \in V, NEW x \in Continues(Fs[N])
        PROVE  FlatTuple(fields, v) \o x \in Continues(Fs[0])
    <3>1. MayStand(fields, Fs, v, x)
      BY <1>0, <1>2, TupleRest
    <3>2. 0 \in 0..Len(fields)
      BY <1>0
    <3>3. Rest(fields, v, 0) \o x \in Continues(Fs[0])
      BY <3>1, <3>2 DEF MayStand
    <3>4. Rest(fields, v, 0) = FlatTuple(fields, v)
      <4>1. AreEncodings(fields, N, v)
        BY <1>0, <1>1, <1>2, EncodingsAre
      <4>2. PICK p \in Seq(Seq(Byte)) : p = Encodings(fields, v)
        BY <4>1 DEF AreEncodings
      <4>3. SubSeq(p, 0 + 1, Len(p)) = p
        OBVIOUS
      <4> QED BY <4>2, <4>3 DEF Rest, FlatTuple
    <3> QED BY <3>3, <3>4
  <2> QED BY <1>6, <2>1 DEF Follows
<1> QED BY <1>0, <1>5, <1>16, <1>17

----------------------------------------------------------------------------
(* What may follow a field.                                                *)

\* After a key's encoding anything may stand, as far as bytes go.
LEMMA BytesFollow ==
  ASSUME NEW k, Shaped(k), NEW G
  PROVE  Follows(k, Byte, G)
<1>1. ASSUME NEW v \in k.values, NEW x \in Continues(G)
      PROVE  k.encode[v] \o x \in Continues(Byte)
  <2>1. PICK e \in Seq(Byte) : e = k.encode[v]
    BY DEF Shaped
  <2>2. x \in Seq(Byte)
    BY DEF Continues
  <2>3. PICK y \in Seq(Byte) : y = e \o x
    BY <2>2, BytesJoined
  <2>4. y # <<>> => y[1] \in Byte
    <3>1. y # <<>> => 1 \in 1..Len(y)
      BY LenProperties, EmptySeq
    <3> QED BY <3>1, ElementOfSeq
  <2> QED BY <2>1, <2>3, <2>4 DEF Continues
<1> QED BY <1>1 DEF Follows

\* A kind whose encodings all begin with a byte of F may stand where one of F
\* is asked for.
LEMMA BeginnersFollow ==
  ASSUME NEW k, Shaped(k), NEW F, NEW G,
         \A v \in k.values : k.encode[v] # <<>> /\ k.encode[v][1] \in F
  PROVE  Follows(k, F, G)
<1>1. ASSUME NEW v \in k.values, NEW x \in Continues(G)
      PROVE  k.encode[v] \o x \in Continues(F)
  <2>1. PICK e \in Seq(Byte) : e = k.encode[v] /\ e # <<>> /\ e[1] \in F
    BY DEF Shaped
  <2>2. x \in Seq(Byte)
    BY DEF Continues
  <2>3. 1 \in 1..Len(e)
    BY <2>1, LenProperties, EmptySeq
  <2>4. e \o x \in Seq(Byte) /\ (e \o x)[1] = e[1]
    BY <2>2, <2>3, BytesJoined
  <2> QED BY <2>1, <2>4 DEF Continues
<1> QED BY <1>1 DEF Follows

\* What keeps the laws whatever of F follows keeps them if less may.
LEMMA LawfulBeforeLess ==
  ASSUME NEW k, NEW F, Laws(k, F), NEW G \in SUBSET F
  PROVE  Laws(k, G)
<1>1. \A x \in Continues(G) : x \in Continues(F)
  BY DEF Continues
<1>2. Shaped(k) /\ Fits(k) /\ Orders(k, F) /\ RoundTrips(k, F) /\ Canonical(k)
  BY DEF Laws
<1>3. Orders(k, G)
  BY <1>1, <1>2 DEF Orders
<1>4. RoundTrips(k, G)
  BY <1>1, <1>2 DEF RoundTrips
<1> QED BY <1>2, <1>3, <1>4 DEF Laws

----------------------------------------------------------------------------
(* Key enums.                                                              *)

\* One byte before others, and what is left without it.
AfterByte(t, s) ==
  /\ <<t>> \o s \in Seq(Byte) /\ Len(<<t>> \o s) = 1 + Len(s) /\ <<t>> \o s # <<>>
  /\ Head(<<t>> \o s) = t /\ Tail(<<t>> \o s) = s /\ (<<t>> \o s)[1] = t
\* All bytes are so told from what follows.
LEMMA IsAfterByte ==
  ASSUME NEW t \in Byte, NEW s \in Seq(Byte)
  PROVE  AfterByte(t, s)
<1>1. PICK o \in Seq(Byte) : o = <<t>> /\ Len(o) = 1 /\ o[1] = t
  <2>1. <<t>> \in Seq(Byte) /\ Len(<<t>>) = 1 /\ <<t>>[1] = t
    OBVIOUS
  <2> QED BY <2>1
<1>2. PICK b \in Seq(Byte) : /\ b = o \o s /\ Len(b) = 1 + Len(s) /\ b[1] = t
                             /\ \A j \in 1..Len(s) : b[1 + j] = s[j]
  <2>1. 1 \in 1..Len(o)
    BY <1>1
  <2>2. /\ o \o s \in Seq(Byte) /\ Len(o \o s) = Len(o) + Len(s)
        /\ \A j \in 1..Len(o) : (o \o s)[j] = o[j]
        /\ \A j \in 1..Len(s) : (o \o s)[Len(o) + j] = s[j]
    BY BytesJoined
  <2>3. o \o s \in Seq(Byte) /\ Len(o \o s) = 1 + Len(s) /\ (o \o s)[1] = t /\ \A j \in 1..Len(s) : (o \o s)[1 + j] = s[j]
    BY <1>1, <2>1, <2>2
  <2> QED BY <2>3
<1>3. Len(s) \in Nat /\ b # <<>>
  <2>1. Len(s) \in Nat
    BY LenProperties
  <2>2. Len(b) # 0
    BY <1>2, <2>1
  <2> QED BY <2>1, <2>2
<1>4. Head(b) = t
  BY <1>2, <1>3
<1>5. Tail(b) = s
  <2>1. /\ Tail(b) \in Seq(Byte) /\ Len(Tail(b)) = Len(b) - 1
        /\ \A j \in 1..Len(Tail(b)) : Tail(b)[j] = b[j + 1]
    BY <1>3, HeadTailProperties
  <2>2. Len(Tail(b)) = Len(s)
    BY <1>2, <1>3, <2>1
  <2>3. \A j \in 1..Len(Tail(b)) : Tail(b)[j] = s[j]
    BY <1>2, <1>3, <2>1, <2>2
  <2> QED BY <2>1, <2>2, <2>3, SeqEqual
<1> QED BY <1>1, <1>2, <1>3, <1>4, <1>5 DEF AfterByte

\* Bytes are their first and the others.
LEMMA HeadAndTail ==
  ASSUME NEW b \in Seq(Byte), b # <<>>
  PROVE  /\ Head(b) \in Byte /\ Tail(b) \in Seq(Byte) /\ Len(b) = 1 + Len(Tail(b))
         /\ \A n \in 0..Len(Tail(b)) :
              /\ 1 + n \in 0..Len(b)
              /\ SubSeq(b, 1, 1 + n) = <<Head(b)>> \o SubSeq(Tail(b), 1, n)
<1>1. /\ Head(b) \in Byte /\ Tail(b) \in Seq(Byte) /\ Len(Tail(b)) = Len(b) - 1
      /\ \A j \in 1..Len(Tail(b)) : Tail(b)[j] = b[j + 1]
  BY HeadTailProperties
<1>2. Len(b) \in Nat /\ Len(b) # 0 /\ Len(Tail(b)) \in Nat
  BY <1>1, LenProperties, EmptySeq
<1>3. Len(b) = 1 + Len(Tail(b))
  BY <1>1, <1>2
<1>4. PICK t \in Seq(Byte) : t = Tail(b)
  BY <1>1
<1>5. ASSUME NEW n \in 0..Len(t)
      PROVE  1 + n \in 0..Len(b) /\ SubSeq(b, 1, 1 + n) = <<Head(b)>> \o SubSeq(t, 1, n)
  <2>1. n \in Nat /\ 1 + n \in Nat /\ 1 + n <= Len(b) /\ n <= Len(t)
    BY <1>2, <1>3, <1>4
  <2>2. PICK u \in Seq(Byte) : u = SubSeq(t, 1, n) /\ Len(u) = n /\ \A j \in 1..n : u[j] = t[j]
    <3>1. \A j \in 1..n : t[j] \in Byte
      <4>1. \A j \in 1..n : j \in 1..Len(t)
        BY <1>2, <1>4
      <4> QED BY <4>1, ElementOfSeq
    <3>2. SubSeq(t, 1, n) \in Seq(Byte) /\ Len(SubSeq(t, 1, n)) = n /\ \A j \in 1..n : SubSeq(t, 1, n)[j] = t[j]
      BY <2>1, <3>1, SubSeqProperties
    <3> QED BY <3>2
  <2>3. PICK p \in 0..Len(b) : p = 1
    BY <1>2
  <2>4. p + Len(u) <= Len(b) /\ \A j \in 1..Len(u) : b[p + j] = u[j]
    <3>1. ASSUME NEW j \in 1..Len(u) PROVE b[p + j] = u[j]
      <4>1. j \in 1..Len(t) /\ 1 + j = j + 1
        BY <1>2, <1>4, <2>2
      <4> QED BY <1>1, <1>4, <2>2, <2>3, <4>1
    <3> QED BY <2>1, <2>2, <2>3, <3>1
  <2>5. Grows(b, p, u)
    BY BytesGrow
  <2>6. SubSeq(b, 1, 1 + n) = SubSeq(b, 1, 1) \o u
    BY <2>2, <2>3, <2>4, <2>5 DEF Grows
  <2>7. SubSeq(b, 1, 1) = <<Head(b)>>
    <3>1. 1 \in 1..Len(b) /\ b[1] = Head(b)
      BY <1>2
    <3>2. \A j \in 1..1 : j = 1 /\ b[j] \in Byte
      BY <1>1, <3>1
    <3>3. Len(SubSeq(b, 1, 1)) = 1 /\ SubSeq(b, 1, 1) \in Seq(Byte) /\ SubSeq(b, 1, 1)[1] = b[1]
      <4>1. 1 \in Nat /\ 1 \in 1..1
        OBVIOUS
      <4> QED BY <3>2, <4>1, SubSeqProperties
    <3>4. <<Head(b)>> \in Seq(Byte) /\ Len(<<Head(b)>>) = 1 /\ <<Head(b)>>[1] = Head(b)
      BY <1>1
    <3>5. PICK o \in Seq(Byte) : o = <<Head(b)>> /\ Len(o) = 1 /\ o[1] = Head(b)
      BY <3>4
    <3>6. PICK w \in Seq(Byte) : w = SubSeq(b, 1, 1) /\ Len(w) = 1 /\ w[1] = Head(b)
      BY <3>1, <3>3
    <3>7. \A j \in 1..Len(o) : o[j] = w[j]
      <4>1. \A j \in 1..1 : j = 1
        OBVIOUS
      <4> QED BY <3>5, <3>6, <4>1
    <3>8. o = w
      BY <3>5, <3>6, <3>7, SeqEqual
    <3> QED BY <3>5, <3>6, <3>8
  <2> QED BY <2>1, <2>2, <2>6, <2>7, <1>2
<1> QED BY <1>1, <1>3, <1>4, <1>5

\* The longest of the variants.
MaxRuns(g, variants) ==
  g = [n \in 0..Len(variants) |->
         IF n = 0 THEN 0 ELSE const_max(g[n - 1], variants[n].max)]

\* max_payload is the longest variant's length.
LEMMA MaxPayload ==
  ASSUME NEW K, NEW variants \in Seq(K), \A i \in 1..Len(variants) : variants[i].max \in Nat
  PROVE  /\ max_payload(variants) \in Nat
         /\ \A i \in 1..Len(variants) : variants[i].max <= max_payload(variants)
<1>0. PICK N \in Nat : N = Len(variants)
  BY LenProperties
<1>1. \A a, c \in Nat : const_max(a, c) \in Nat /\ a <= const_max(a, c) /\ c <= const_max(a, c)
  BY DEF const_max
<1> DEFINE c == CHOOSE g : MaxRuns(g, variants)
<1>2. PICK step \in [1..N -> [Nat -> Nat]] :
        \A n \in 1..N : \A a \in Nat : step[n][a] = const_max(a, variants[n].max)
  <2> DEFINE s == [n \in 1..N |-> [a \in Nat |-> const_max(a, variants[n].max)]]
  <2>1. \A n \in 1..N : [a \in Nat |-> const_max(a, variants[n].max)] \in [Nat -> Nat]
    BY <1>0, <1>1
  <2>2. s \in [1..N -> [Nat -> Nat]]
        /\ \A n \in 1..N : \A a \in Nat : s[n][a] = const_max(a, variants[n].max)
    BY <2>1
  <2> QED BY <2>2
<1>3. PICK f \in [0..N -> Nat] : f[0] = 0 /\ \A n \in 1..N : f[n] = step[n][f[n - 1]]
  <2>1. Countable(N, Nat)
    BY Counted
  <2>2. 0 \in Nat
    OBVIOUS
  <2> QED BY <1>2, <2>1, <2>2 DEF Countable
<1>4. \A n \in 1..N : n - 1 \in 0..N /\ f[n - 1] \in Nat /\ f[n] = const_max(f[n - 1], variants[n].max)
  <2> SUFFICES ASSUME NEW n \in 1..N
               PROVE  n - 1 \in 0..N /\ f[n - 1] \in Nat /\ f[n] = const_max(f[n - 1], variants[n].max)
    OBVIOUS
  <2>1. n - 1 \in 0..N
    BY <1>0
  <2>2. f[n - 1] \in Nat
    BY <2>1
  <2> QED BY <1>2, <1>3, <2>1, <2>2
<1>5. MaxRuns(f, variants)
  <2>1. \A n \in 0..N : f[n] = IF n = 0 THEN 0 ELSE const_max(f[n - 1], variants[n].max)
    BY <1>0, <1>3, <1>4
  <2>2. f = [n \in 0..N |-> f[n]]
    OBVIOUS
  <2> QED BY <1>0, <2>1, <2>2 DEF MaxRuns
<1>6. MaxRuns(c, variants)
  BY <1>5
<1>7. max_payload(variants) = c[N]
  BY <1>0 DEF max_payload, MaxRuns
<1> HIDE DEF c
<1>8. \A n \in 0..N : c[n] = IF n = 0 THEN 0 ELSE const_max(c[n - 1], variants[n].max)
  BY <1>0, <1>6 DEF MaxRuns
<1> DEFINE P(n) == c[n] \in Nat /\ \A i \in 1..n : variants[i].max <= c[n]
           T == {n \in Nat : n <= N => P(n)}
<1>9. 0 \in T
  <2>1. 0 \in 0..N
    BY <1>0
  <2>2. c[0] = 0
    BY <1>8, <2>1
  <2>3. P(0)
    BY <2>2
  <2> QED BY <2>3
<1>10. ASSUME NEW n \in T PROVE n + 1 \in T
  <2>1. ASSUME n + 1 <= N PROVE P(n + 1)
    <3>1. n \in Nat
      OBVIOUS
    <3>2. n <= N
      BY <1>0, <2>1, <3>1
    <3>3. P(n)
      BY <3>2
    <3>4. PICK m \in 1..N : m = n + 1 /\ m - 1 = n /\ m # 0 /\ m \in 0..N
      <4>1. n + 1 \in 1..N /\ (n + 1) - 1 = n /\ n + 1 # 0 /\ n + 1 \in 0..N
        BY <1>0, <2>1, <3>1
      <4> QED BY <4>1
    <3>5. c[m] = const_max(c[n], variants[m].max)
      BY <1>8, <3>4
    <3>6. c[n] \in Nat /\ variants[m].max \in Nat
      BY <1>0, <3>3
    <3>7. c[m] \in Nat /\ c[n] <= c[m] /\ variants[m].max <= c[m]
      BY <1>1, <3>5, <3>6
    <3>8. ASSUME NEW i \in 1..m PROVE variants[i].max <= c[m]
      <4>1. CASE i = m
        BY <3>7, <4>1
      <4>2. CASE i # m
        <5>1. i \in 1..n /\ i \in 1..N
          BY <1>0, <3>1, <3>4, <4>2
        <5>2. variants[i].max <= c[n] /\ variants[i].max \in Nat
          BY <1>0, <3>3, <5>1
        <5> HIDE DEF T
        <5>3. \A a, d, e \in Nat : a <= d /\ d <= e => a <= e
          OBVIOUS
        <5> QED BY <3>6, <3>7, <5>2, <5>3
      <4> QED BY <4>1, <4>2
    <3>9. P(m)
      BY <3>7, <3>8
    <3> QED BY <3>4, <3>9
  <2>2. n + 1 \in Nat
    OBVIOUS
  <2> QED BY <2>1, <2>2
<1>11. T = Nat
  <2> HIDE DEF T
  <2>1. T \in SUBSET Nat
    BY DEF T
  <2> QED BY <1>9, <1>10, <2>1, NaturalsFrom
<1>12. P(N)
  <2>1. N \in T
    <3> HIDE DEF T
    <3> QED BY <1>11
  <2>2. N <= N
    BY <1>0
  <2> QED BY <2>1, <2>2
<1> QED BY <1>0, <1>7, <1>12

\* A value of an enum: its variant's place, and a payload of the variant.
VariantValues(variants) ==
  UNION {{<<i - 1, p>> : p \in variants[i].values} : i \in DOMAIN variants}
EncodedVariant(variants, v) == <<v[1]>> \o variants[v[1] + 1].encode[v[2]]

IsVariant(variants, i, p) ==
  /\ <<i - 1, p>> \in VariantValues(variants)
  /\ EncodedVariant(variants, <<i - 1, p>>) = <<i - 1>> \o variants[i].encode[p]

\* The values of a key enum are the tags with their payloads.
LEMMA VariantsAre ==
  ASSUME NEW K, NEW variants \in Seq(K)
  PROVE  /\ \A i \in 1..Len(variants) : \A p \in variants[i].values : IsVariant(variants, i, p)
         /\ \A v \in VariantValues(variants) :
              \E i \in 1..Len(variants) : \E p \in variants[i].values : v = <<i - 1, p>>
<1>0. DOMAIN variants = 1..Len(variants) /\ Len(variants) \in Nat
  BY LenProperties
<1>1. ASSUME NEW i \in 1..Len(variants), NEW p \in variants[i].values
      PROVE  IsVariant(variants, i, p)
  <2>1. <<i - 1, p>> \in {<<i - 1, q>> : q \in variants[i].values}
    OBVIOUS
  <2>2. <<i - 1, p>> \in VariantValues(variants)
    BY <1>0, <2>1 DEF VariantValues
  <2>3. (i - 1) + 1 = i
    BY <1>0
  <2>4. <<i - 1, p>>[1] = i - 1 /\ <<i - 1, p>>[2] = p
    OBVIOUS
  <2> QED BY <2>2, <2>3, <2>4 DEF IsVariant, EncodedVariant
<1>2. ASSUME NEW v \in VariantValues(variants)
      PROVE  \E i \in 1..Len(variants) : \E p \in variants[i].values : v = <<i - 1, p>>
  <2>1. PICK i \in DOMAIN variants : v \in {<<i - 1, p>> : p \in variants[i].values}
    BY DEF VariantValues
  <2>2. PICK p \in variants[i].values : v = <<i - 1, p>>
    BY <2>1
  <2> QED BY <1>0, <2>1, <2>2
<1> QED BY <1>1, <1>2

\* What a key enum's decoding gives.
VariantGiven(variants, b) ==
  \/ \E e \in Errors : decode_variant(variants, b) = Fails(e)
  \/ \E v \in VariantValues(variants), n \in 0..Len(b) :
       decode_variant(variants, b) = Ok(v, n) /\ EncodedVariant(variants, v) = SubSeq(b, 1, n)

\* What decodes as a variant is its encoding, and how far it goes.
LEMMA VariantEnds ==
  ASSUME NEW K, NEW variants \in Seq(K), Len(variants) <= Base,
         \A i \in 1..Len(variants) : Shaped(variants[i]) /\ Canonical(variants[i]),
         NEW b \in Seq(Byte)
  PROVE  VariantGiven(variants, b)
<1>0. Len(variants) \in Nat /\ Byte = 0..Base - 1 /\ Base \in Nat
  BY LenProperties, ByteIs DEF Byte, FF
<1>9. CASE variants = <<>>
  <2>1. decode_variant(variants, b) = Fails("Malformed")
    BY <1>9 DEF decode_variant
  <2>2. "Malformed" \in Errors
    BY DEF Errors
  <2> QED BY <2>1, <2>2 DEF VariantGiven
<1>1. CASE variants # <<>> /\ b = <<>>
  <2>1. decode_variant(variants, b) = Fails("Truncated")
    BY <1>1 DEF decode_variant
  <2>2. "Truncated" \in Errors
    BY DEF Errors
  <2> QED BY <2>1, <2>2 DEF VariantGiven
<1>2. CASE variants # <<>> /\ b # <<>> /\ Head(b) >= Len(variants)
  <2>1. decode_variant(variants, b) = Fails("UnknownTag")
    BY <1>2 DEF decode_variant
  <2>2. "UnknownTag" \in Errors
    BY DEF Errors
  <2> QED BY <2>1, <2>2 DEF VariantGiven
<1>3. CASE variants # <<>> /\ b # <<>> /\ ~(Head(b) >= Len(variants))
  <2>1. PICK h \in Byte, t \in Seq(Byte) :
          /\ h = Head(b) /\ t = Tail(b) /\ Len(b) = 1 + Len(t)
          /\ \A n \in 0..Len(t) :
               1 + n \in 0..Len(b) /\ SubSeq(b, 1, 1 + n) = <<h>> \o SubSeq(t, 1, n)
    BY <1>3, HeadAndTail
  <2>2. PICK i \in 1..Len(variants) : i = h + 1 /\ i - 1 = h
    <3>1. h \in Nat /\ h < Len(variants)
      BY <1>0, <1>3, <2>1
    <3>2. h + 1 \in 1..Len(variants) /\ (h + 1) - 1 = h
      BY <1>0, <3>1
    <3> QED BY <3>2
  <2>3. PICK payload : payload = variants[i].decode[t]
    OBVIOUS
  <2>4. payload \in Results(variants[i].values)
    BY <2>3 DEF Shaped
  <2>5. decode_variant(variants, b)
          = IF payload.res # "ok" THEN payload ELSE Ok(<<h, payload.value>>, 1 + payload.used)
    BY <1>3, <2>1, <2>2, <2>3 DEF decode_variant
  <2>6. CASE \E e \in Errors : payload = Fails(e)
    <3>1. PICK e \in Errors : payload = Fails(e)
      BY <2>6
    <3>2. payload.res # "ok"
      BY <3>1, Answers
    <3> QED BY <2>5, <3>1, <3>2 DEF VariantGiven
  <2>7. CASE ~\E e \in Errors : payload = Fails(e)
    <3>1. PICK p \in variants[i].values, n \in Nat : payload = Ok(p, n)
      BY <2>4, <2>7 DEF Results
    <3>2. payload.res = "ok" /\ payload.value = p /\ payload.used = n
      BY <3>1, Answers
    <3>3. n \in 0..Len(t) /\ variants[i].encode[p] = SubSeq(t, 1, n)
      <4>1. variants[i].decode[t] = Ok(p, n)
        BY <2>3, <3>1
      <4> QED BY <4>1 DEF Canonical
    <3>4. PICK v \in VariantValues(variants) :
            v = <<h, p>> /\ EncodedVariant(variants, v) = <<h>> \o variants[i].encode[p]
      <4>1. IsVariant(variants, i, p)
        BY VariantsAre
      <4> QED BY <2>2, <4>1 DEF IsVariant
    <3>5. PICK m \in 0..Len(b) : m = 1 + n /\ SubSeq(b, 1, m) = <<h>> \o SubSeq(t, 1, n)
      BY <2>1, <3>3
    <3>6. decode_variant(variants, b) = Ok(v, m)
      BY <2>5, <3>2, <3>4, <3>5
    <3>7. EncodedVariant(variants, v) = SubSeq(b, 1, m)
      BY <3>3, <3>4, <3>5
    <3> QED BY <3>6, <3>7 DEF VariantGiven
  <2> QED BY <2>6, <2>7
<1> QED BY <1>1, <1>2, <1>3, <1>9

\* Key enums: no more variants than a byte has values, and each keeps the
\* laws, then the enum does.
THEOREM EnumLawful ==
  ASSUME NEW K, NEW variants \in Seq(K), Len(variants) <= Base,
         NEW F, \A i \in 1..Len(variants) : Laws(variants[i], F)
  PROVE  Laws(key_enum(variants), F)
<1>0. /\ Len(variants) \in Nat /\ Byte = 0..Base - 1 /\ Base \in Nat
      /\ \A i \in 1..Len(variants) : i - 1 \in Byte /\ i \in Nat /\ (i - 1) + 1 = i
  BY LenProperties, ByteIs DEF Byte, FF
<1>1. \A i \in 1..Len(variants) :
        /\ Shaped(variants[i]) /\ Fits(variants[i]) /\ Orders(variants[i], F)
        /\ RoundTrips(variants[i], F) /\ Canonical(variants[i])
  BY DEF Laws
<1>2. PICK V : V = VariantValues(variants)
  OBVIOUS
<1>3. PICK L : L = {p \in V \X V :
                      \/ p[1][1] < p[2][1]
                      \/ /\ p[1][1] = p[2][1]
                         /\ <<p[1][2], p[2][2]>> \in variants[p[1][1] + 1].below}
  OBVIOUS
<1>4. PICK t : t = key_enum(variants)
  OBVIOUS
<1>5. /\ t.values = V /\ t.below = L /\ t.max = 1 + max_payload(variants)
      /\ t.encode = [v \in V |-> EncodedVariant(variants, v)]
      /\ t.decode = [b \in Seq(Byte) |-> decode_variant(variants, b)]
  BY <1>2, <1>3, <1>4 DEF key_enum, VariantValues, EncodedVariant
<1>6. ASSUME NEW v \in V
      PROVE  \E i \in 1..Len(variants) : \E p \in variants[i].values :
               \E e \in Seq(Byte) :
                 /\ v = <<i - 1, p>> /\ v[1] = i - 1 /\ v[2] = p
                 /\ e = variants[i].encode[p] /\ EncodedVariant(variants, v) = <<i - 1>> \o e
  <2>1. PICK i \in 1..Len(variants) : \E p \in variants[i].values : v = <<i - 1, p>>
    BY <1>2, VariantsAre
  <2>2. PICK p \in variants[i].values : v = <<i - 1, p>>
    BY <2>1
  <2>3. IsVariant(variants, i, p)
    BY VariantsAre
  <2>4. PICK e \in Seq(Byte) : e = variants[i].encode[p]
    BY <1>1 DEF Shaped
  <2>5. EncodedVariant(variants, v) = <<i - 1>> \o e
    BY <2>2, <2>3, <2>4 DEF IsVariant
  <2>6. v[1] = i - 1 /\ v[2] = p
    BY <2>2
  <2> QED BY <2>2, <2>4, <2>5, <2>6
<1>7. /\ max_payload(variants) \in Nat
      /\ \A i \in 1..Len(variants) : variants[i].max <= max_payload(variants)
  <2>1. \A i \in 1..Len(variants) : variants[i].max \in Nat
    BY <1>1 DEF Shaped
  <2> QED BY <2>1, MaxPayload
<1>8. ASSUME NEW b \in Seq(Byte) PROVE VariantGiven(variants, b)
  BY <1>1, VariantEnds
<1>9. Shaped(t)
  <2>1. ASSUME NEW v \in V PROVE EncodedVariant(variants, v) \in Seq(Byte)
    <3>1. PICK i \in 1..Len(variants), e \in Seq(Byte) : EncodedVariant(variants, v) = <<i - 1>> \o e
      BY <1>6
    <3>2. AfterByte(i - 1, e)
      BY <1>0, IsAfterByte
    <3> QED BY <3>1, <3>2 DEF AfterByte
  <2>2. ASSUME NEW b \in Seq(Byte) PROVE decode_variant(variants, b) \in Results(V)
    <3>1. Len(b) \in Nat
      BY LenProperties
    <3>2. \A n \in 0..Len(b) : n \in Nat
      BY <3>1
    <3> QED BY <1>2, <1>8, <3>2 DEF Results, VariantGiven
  <2>3. 1 + max_payload(variants) \in Nat
    BY <1>7
  <2> QED BY <1>5, <2>1, <2>2, <2>3 DEF Shaped
<1>10. Fits(t)
  <2>1. ASSUME NEW v \in V PROVE Len(EncodedVariant(variants, v)) <= 1 + max_payload(variants)
    <3>1. PICK i \in 1..Len(variants) : \E p \in variants[i].values : \E e \in Seq(Byte) :
             e = variants[i].encode[p] /\ EncodedVariant(variants, v) = <<i - 1>> \o e
      BY <1>6
    <3>2. PICK p \in variants[i].values, e \in Seq(Byte) :
             e = variants[i].encode[p] /\ EncodedVariant(variants, v) = <<i - 1>> \o e
      BY <3>1
    <3>3. AfterByte(i - 1, e)
      BY <1>0, IsAfterByte
    <3>4. Len(EncodedVariant(variants, v)) = 1 + Len(e) /\ Len(e) \in Nat
      BY <3>2, <3>3, LenProperties DEF AfterByte
    <3>5. Len(e) <= variants[i].max /\ variants[i].max \in Nat
      BY <1>1, <3>2 DEF Fits, Shaped
    <3>6. variants[i].max <= max_payload(variants) /\ max_payload(variants) \in Nat
      BY <1>7
    <3> QED BY <3>4, <3>5, <3>6
  <2> QED BY <1>5, <2>1 DEF Fits
<1>11. Orders(t, F)
  <2>1. ASSUME NEW v \in V, NEW w \in V PROVE v = w \/ <<v, w>> \in L \/ <<w, v>> \in L
    <3>1. PICK i \in 1..Len(variants) : \E p \in variants[i].values : v = <<i - 1, p>> /\ v[1] = i - 1 /\ v[2] = p
      BY <1>6
    <3>2. PICK p \in variants[i].values : v = <<i - 1, p>> /\ v[1] = i - 1 /\ v[2] = p
      BY <3>1
    <3>3. PICK j \in 1..Len(variants) : \E q \in variants[j].values : w = <<j - 1, q>> /\ w[1] = j - 1 /\ w[2] = q
      BY <1>6
    <3>4. PICK q \in variants[j].values : w = <<j - 1, q>> /\ w[1] = j - 1 /\ w[2] = q
      BY <3>3
    <3>5. /\ <<v, w>> \in L <=> v[1] < w[1] \/ (v[1] = w[1] /\ <<v[2], w[2]>> \in variants[v[1] + 1].below)
          /\ <<w, v>> \in L <=> w[1] < v[1] \/ (w[1] = v[1] /\ <<w[2], v[2]>> \in variants[w[1] + 1].below)
      BY <1>3
    <3>6. CASE i = j
      <4>1. p = q \/ <<p, q>> \in variants[i].below \/ <<q, p>> \in variants[i].below
        BY <1>1, <3>6 DEF Orders
      <4> QED BY <1>0, <3>2, <3>4, <3>5, <3>6, <4>1
    <3>7. CASE i # j
      <4>1. v[1] < w[1] \/ w[1] < v[1]
        BY <1>0, <3>2, <3>4, <3>7
      <4> QED BY <3>5, <4>1
    <3> QED BY <3>6, <3>7
  <2>2. ASSUME NEW v \in V, NEW w \in V, <<v, w>> \in L, NEW x \in Continues(F), NEW y \in Continues(F)
        PROVE  memcmp(EncodedVariant(variants, v) \o x, EncodedVariant(variants, w) \o y)
    <3>0. x \in Seq(Byte) /\ y \in Seq(Byte)
      BY DEF Continues
    <3>1. PICK i \in 1..Len(variants) : \E p \in variants[i].values : \E e \in Seq(Byte) :
            /\ v[1] = i - 1 /\ v[2] = p
            /\ e = variants[i].encode[p] /\ EncodedVariant(variants, v) = <<i - 1>> \o e
      BY <1>6
    <3>2. PICK p \in variants[i].values, e \in Seq(Byte) :
            /\ v[1] = i - 1 /\ v[2] = p
            /\ e = variants[i].encode[p] /\ EncodedVariant(variants, v) = <<i - 1>> \o e
      BY <3>1
    <3>3. PICK j \in 1..Len(variants) : \E q \in variants[j].values : \E f \in Seq(Byte) :
            /\ w[1] = j - 1 /\ w[2] = q
            /\ f = variants[j].encode[q] /\ EncodedVariant(variants, w) = <<j - 1>> \o f
      BY <1>6
    <3>4. PICK q \in variants[j].values, f \in Seq(Byte) :
            /\ w[1] = j - 1 /\ w[2] = q
            /\ f = variants[j].encode[q] /\ EncodedVariant(variants, w) = <<j - 1>> \o f
      BY <3>3
    <3>5. PICK ex \in Seq(Byte) : ex = e \o x
      <4>1. e \o x \in Seq(Byte)
        BY <3>0, BytesJoined
      <4> QED BY <4>1
    <3>6. PICK fy \in Seq(Byte) : fy = f \o y
      <4>1. f \o y \in Seq(Byte)
        BY <3>0, BytesJoined
      <4> QED BY <4>1
    <3>7. PICK a \in Seq(Byte), c \in Seq(Byte) : a = <<i - 1>> /\ c = <<j - 1>>
      <4>1. <<i - 1>> \in Seq(Byte) /\ <<j - 1>> \in Seq(Byte)
        BY <1>0
      <4> QED BY <4>1
    <3>8. EncodedVariant(variants, v) \o x = a \o ex
      <4>1. Assoc(a, e, x)
        BY <3>0, Regroup, Zenon
      <4> QED BY <3>2, <3>5, <3>7, <4>1 DEF Assoc
    <3>9. EncodedVariant(variants, w) \o y = c \o fy
      <4>1. Assoc(c, f, y)
        BY <3>0, Regroup, Zenon
      <4> QED BY <3>4, <3>6, <3>7, <4>1 DEF Assoc
    <3>10. v[1] < w[1] \/ (v[1] = w[1] /\ <<v[2], w[2]>> \in variants[v[1] + 1].below)
      BY <1>3, <2>2
    <3>11. CASE i - 1 < j - 1
      <4>1. memcmp(a \o ex, c \o fy)
        BY <1>0, <3>7, <3>11, Headed
      <4> QED BY <3>8, <3>9, <4>1
    <3>12. CASE i = j /\ <<p, q>> \in variants[i].below
      <4>1. memcmp(e \o x, f \o y)
        BY <1>1, <3>2, <3>4, <3>12 DEF Orders
      <4>2. memcmp(a \o ex, a \o fy)
        BY <3>5, <3>6, <4>1, AfterSame
      <4> QED BY <3>7, <3>8, <3>9, <3>12, <4>2
    <3>13. i - 1 < j - 1 \/ (i = j /\ <<p, q>> \in variants[i].below)
      BY <1>0, <3>2, <3>4, <3>10
    <3> QED BY <3>11, <3>12, <3>13
  <2> QED BY <1>5, <2>1, <2>2 DEF Orders
<1>12. RoundTrips(t, F)
  <2>1. ASSUME NEW v \in V, NEW x \in Continues(F)
        PROVE  /\ EncodedVariant(variants, v) \o x \in Seq(Byte)
               /\ decode_variant(variants, EncodedVariant(variants, v) \o x)
                    = Ok(v, Len(EncodedVariant(variants, v)))
    <3>0. x \in Seq(Byte)
      BY DEF Continues
    <3>1. PICK i \in 1..Len(variants) : \E p \in variants[i].values : \E e \in Seq(Byte) :
            /\ v = <<i - 1, p>>
            /\ e = variants[i].encode[p] /\ EncodedVariant(variants, v) = <<i - 1>> \o e
      BY <1>6
    <3>2. PICK p \in variants[i].values, e \in Seq(Byte) :
            /\ v = <<i - 1, p>>
            /\ e = variants[i].encode[p] /\ EncodedVariant(variants, v) = <<i - 1>> \o e
      BY <3>1
    <3>3. PICK ex \in Seq(Byte) : ex = e \o x
      <4>1. e \o x \in Seq(Byte)
        BY <3>0, BytesJoined
      <4> QED BY <4>1
    <3>4. PICK b : b = EncodedVariant(variants, v) \o x /\ b = <<i - 1>> \o ex
      <4>1. PICK a \in Seq(Byte) : a = <<i - 1>>
        <5>1. <<i - 1>> \in Seq(Byte)
          BY <1>0
        <5> QED BY <5>1
      <4>2. Assoc(a, e, x)
        BY <3>0, Regroup
      <4> QED BY <3>2, <3>3, <4>1, <4>2 DEF Assoc
    <3>5. b \in Seq(Byte) /\ b # <<>> /\ Head(b) = i - 1 /\ Tail(b) = ex
      <4>1. AfterByte(i - 1, ex)
        BY <1>0, IsAfterByte
      <4> QED BY <3>4, <4>1 DEF AfterByte
    <3>6. Len(EncodedVariant(variants, v)) = 1 + Len(e)
      <4>1. AfterByte(i - 1, e)
        BY <1>0, IsAfterByte
      <4> QED BY <3>2, <4>1 DEF AfterByte
    <3>7. variants[i].decode[ex] = Ok(p, Len(e))
      BY <1>1, <3>2, <3>3 DEF RoundTrips
    <3>8. Ok(p, Len(e)).res = "ok" /\ Ok(p, Len(e)).value = p /\ Ok(p, Len(e)).used = Len(e)
      BY Answers
    <3>9. ~(Head(b) >= Len(variants)) /\ Head(b) + 1 = i /\ variants # <<>>
      <4>1. Len(variants) # 0
        BY <1>0
      <4>2. variants # <<>>
        BY <4>1, EmptySeq
      <4>3. ~(Head(b) >= Len(variants)) /\ Head(b) + 1 = i
        BY <1>0, <3>5
      <4> QED BY <4>2, <4>3
    <3>10. decode_variant(variants, b) = Ok(<<i - 1, p>>, 1 + Len(e))
      BY <3>5, <3>7, <3>8, <3>9 DEF decode_variant
    <3> QED BY <3>2, <3>4, <3>5, <3>6, <3>10
  <2> QED BY <1>5, <2>1 DEF RoundTrips
<1>13. Canonical(t)
  <2>1. ASSUME NEW b \in Seq(Byte), NEW v, NEW n, decode_variant(variants, b) = Ok(v, n)
        PROVE  v \in V /\ n \in 0..Len(b) /\ EncodedVariant(variants, v) = SubSeq(b, 1, n)
    <3>1. \A e \in Errors : Fails(e) # Ok(v, n)
      BY Answers
    <3>2. PICK w \in V, l \in 0..Len(b) :
            decode_variant(variants, b) = Ok(w, l) /\ EncodedVariant(variants, w) = SubSeq(b, 1, l)
      BY <1>2, <1>8, <2>1, <3>1 DEF VariantGiven
    <3>3. w = v /\ l = n
      <4>1. Ok(w, l) = Ok(v, n)
        BY <2>1, <3>2
      <4> QED BY <4>1 DEF Ok
    <3> QED BY <3>2, <3>3
  <2> QED BY <1>5, <2>1 DEF Canonical
<1> QED BY <1>4, <1>9, <1>10, <1>11, <1>12, <1>13 DEF Laws

\* A text's bytes begin with one of the text's or the terminator.
LEMMA TextBegins ==
  ASSUME NEW t \in Seq(TextByte)
  PROVE  escape(t) # <<>> /\ escape(t)[1] \in TextByte
<1>0. t \in Seq(Byte) /\ Len(t) \in Nat
  <2>1. PICK n \in Nat : n = Len(t)
    BY LenProperties
  <2>2. t \in [1..n -> TextByte]
    BY <2>1, LenProperties
  <2>3. t \in [1..n -> Byte]
    BY <2>2, ByteIs
  <2> QED BY <2>1, <2>3
<1>1. PICK p \in Seq(Seq(Byte)) : /\ p = Pieces(t) /\ Len(p) = Len(t)
                                  /\ \A i \in 1..Len(t) : p[i] = escaped(t[i])
  BY <1>0, TextPieces
<1>2. PICK o \in Seq(Byte) : o = <<0>> /\ Len(o) = 1 /\ o[1] = 0
  BY OneByte
<1>3. escape(t) = FlattenSeq(p) \o o
  BY <1>0, <1>1, <1>2, TextPieces DEF Flat
<1>4. CASE p = <<>>
  <2>1. FlattenSeq(p) = <<>>
    BY <1>4, FlattenStep
  <2>2. <<>> \o o = o
    OBVIOUS
  <2>3. escape(t) = <<0>>
    BY <1>2, <1>3, <2>1, <2>2
  <2> QED BY <2>3, ByteIs
<1>5. CASE p # <<>>
  <2>1. PICK c \in Seq(Byte), r \in Seq(Byte) : c = p[1] /\ FlattenSeq(p) = c \o r
    <3>1. /\ FlattenSeq(p) = p[1] \o FlattenSeq(SubSeq(p, 2, Len(p))) /\ p[1] \in Seq(Byte)
          /\ FlattenSeq(SubSeq(p, 2, Len(p))) \in Seq(Byte)
      BY <1>5, FlattenHead
    <3> QED BY <3>1
  <2>2. 1 \in 1..Len(t)
    <3>1. Len(p) # 0
      BY <1>5, EmptySeq
    <3> QED BY <1>0, <1>1, <3>1
  <2>3. PICK x \in TextByte : x = t[1]
    BY <2>2, ElementOfSeq
  <2>4. c[1] = x /\ 1 \in 1..Len(c)
    <3>1. x \in Byte
      BY ByteIs
    <3>2. c = escaped(x)
      BY <1>1, <2>1, <2>2, <2>3
    <3> QED BY <3>1, <3>2, Escaped
  <2>5. PICK w \in Seq(Byte) : w = r \o o
    <3>1. r \o o \in Seq(Byte)
      BY BytesJoined
    <3> QED BY <3>1
  <2>6. escape(t) = c \o w
    <3>1. Assoc(c, r, o)
      BY Regroup
    <3> QED BY <1>3, <2>1, <2>5, <3>1 DEF Assoc
  <2>7. /\ c \o w \in Seq(Byte) /\ (c \o w)[1] = x /\ Len(c \o w) = Len(c) + Len(w)
    BY <2>4, BytesJoined
  <2>8. Len(c \o w) # 0
    <3>1. Len(c) \in Nat /\ Len(w) \in Nat /\ Len(c) # 0
      BY <2>4, LenProperties
    <3> QED BY <2>7, <3>1
  <2>9. c \o w # <<>>
    BY <2>8
  <2> QED BY <2>6, <2>7, <2>9
<1> QED BY <1>4, <1>5

\* A bool, a vector and a text begin with no FF: they may stand behind a text.
THEOREM MayFollowText ==
  ASSUME NEW G
  PROVE  /\ Follows(bool, Byte \ {FF}, G)
         /\ \A cap \in Nat : Follows(string(cap), Byte \ {FF}, G)
         /\ \A k, F : \A cap \in Nat :
              Shaped(k) => Follows(vec(k, cap), Byte \ {FF}, G)
<1>0. PICK F : F = Byte \ {FF} /\ 0 \in F /\ 1 \in F /\ \A b \in TextByte : b \in F
  BY ByteIs, KeyAssumption DEF FF, Byte, TextByte
<1>1. Follows(bool, F, G)
  <2>1. Shaped(bool)
    BY BoolLawful DEF Laws
  <2>2. ASSUME NEW v \in bool.values PROVE bool.encode[v] # <<>> /\ bool.encode[v][1] \in F
    <3>1. v \in BOOLEAN /\ bool.encode[v] = <<IF v THEN 1 ELSE 0>>
      BY DEF bool
    <3> QED BY <1>0, <3>1
  <2> QED BY <2>1, <2>2, BeginnersFollow
<1>2. ASSUME NEW cap \in Nat PROVE Follows(string(cap), F, G)
  <2>1. Shaped(string(cap))
    BY TextLawful DEF Laws
  <2>2. PICK k : k = string(cap)
    OBVIOUS
  <2>3. k.values = BoundedSeq(TextByte, cap) /\ k.encode = [v \in BoundedSeq(TextByte, cap) |-> escape(v)]
    BY <2>2 DEF string
  <2>4. ASSUME NEW v \in k.values PROVE k.encode[v] # <<>> /\ k.encode[v][1] \in F
    <3>1. k.encode[v] = escape(v) /\ v \in Seq(TextByte)
      BY <2>3, Bounded
    <3> QED BY <1>0, <3>1, TextBegins
  <2> QED BY <2>1, <2>2, <2>4, BeginnersFollow
<1>3. ASSUME NEW k, Shaped(k), NEW cap \in Nat PROVE Follows(vec(k, cap), F, G)
  <2>1. PICK V : V = BoundedSeq(k.values, cap)
    OBVIOUS
  <2>2. PICK t : t = vec(k, cap)
    OBVIOUS
  <2>3. t.values = V /\ t.encode = [v \in V |-> EncodedVec(k, v)]
    <3>1. \A v : EncodedVec(k, v) = FlattenSeq([i \in DOMAIN v |-> <<1>> \o k.encode[v[i]]]) \o <<0>>
      BY DEF EncodedVec, FlatVec, Marked
    <3> QED BY <2>1, <2>2, <3>1 DEF vec
  <2>4. ASSUME NEW v \in V, NEW x \in Continues(G) PROVE EncodedVec(k, v) \o x \in Continues(F)
    <3>1. v \in Seq(k.values)
      BY <2>1, Bounded
    <3>2. IsMarked(k, v)
      <4>1. k.encode \in [k.values -> Seq(Byte)]
        BY <1>3 DEF Shaped
      <4> QED BY <3>1, <4>1, MarkedIs
    <3>3. PICK s \in Seq(Seq(Byte)) : s = Marked(k, v) /\ \A i \in 1..Len(s) : s[i] # <<>> /\ s[i][1] = 1
      BY <3>2 DEF IsMarked
    <3>4. x \in Seq(Byte)
      BY DEF Continues
    <3>5. PICK o \in Seq(Byte) : o = <<0>> /\ Len(o) = 1 /\ o[1] = 0
      BY OneByte
    <3>6. PICK y \in Seq(Byte) : y = o \o x /\ y # <<>> /\ y[1] = 0
      <4>1. o \o x \in Seq(Byte) /\ Len(o \o x) = 1 + Len(x) /\ (o \o x)[1] = 0
        <5>1. 1 \in 1..Len(o)
          BY <3>5
        <5> QED BY <3>4, <3>5, <5>1, BytesJoined
      <4>2. Len(o \o x) # 0
        BY <3>4, <4>1, LenProperties
      <4>3. o \o x # <<>>
        BY <4>2
      <4> QED BY <4>1, <4>3
    <3>7. FlattenSeq(s) \o y \in Continues(F)
      BY <1>0, <3>3, <3>6, MarkedContinues
    <3>8. PICK fs \in Seq(Byte) : fs = FlattenSeq(s)
      BY FlattenStep
    <3>9. EncodedVec(k, v) \o x = fs \o y
      <4>1. Assoc(fs, o, x)
        BY <3>4, Regroup
      <4> QED BY <3>3, <3>5, <3>6, <3>8, <4>1 DEF Assoc, EncodedVec, FlatVec
    <3> QED BY <3>7, <3>8, <3>9
  <2> QED BY <2>2, <2>3, <2>4 DEF Follows
<1> QED BY <1>0, <1>1, <1>2, <1>3

\* Two texts in one key, however long: what the laws of the parts give.
THEOREM TwoTextsLawful ==
  \A c, d \in Nat : Laws(tuple(<<string(c), string(d)>>), Byte \ {FF})
<1> SUFFICES ASSUME NEW c \in Nat, NEW d \in Nat
             PROVE  Laws(tuple(<<string(c), string(d)>>), Byte \ {FF})
  OBVIOUS
<1>1. PICK F : F = Byte \ {FF}
  OBVIOUS
<1>2. PICK fields \in Seq({string(c), string(d)}) :
        fields = <<string(c), string(d)>> /\ Len(fields) = 2
        /\ fields[1] = string(c) /\ fields[2] = string(d)
  <2>1. /\ <<string(c), string(d)>> \in Seq({string(c), string(d)})
        /\ Len(<<string(c), string(d)>>) = 2
    OBVIOUS
  <2>2. <<string(c), string(d)>>[1] = string(c) /\ <<string(c), string(d)>>[2] = string(d)
    OBVIOUS
  <2> QED BY <2>1, <2>2
<1>3. PICK Fs : Fs = [i \in 0..2 |-> F]
  OBVIOUS
<1>4. Chained(fields, Fs)
  <2> SUFFICES ASSUME NEW i \in 1..2
               PROVE  Laws(fields[i], Fs[i]) /\ Follows(fields[i], Fs[i - 1], Fs[i])
    BY <1>2 DEF Chained
  <2>1. Fs[i] = F /\ Fs[i - 1] = F
    BY <1>3
  <2>2. fields[i] = string(c) \/ fields[i] = string(d)
    BY <1>2
  <2>3. \A n \in Nat : Laws(string(n), F) /\ Follows(string(n), F, F)
    BY <1>1, TextLawful, MayFollowText
  <2> QED BY <2>1, <2>2, <2>3
<1>5. Laws(tuple(fields), Fs[Len(fields)])
  BY <1>4, TupleLawful
<1> QED BY <1>1, <1>2, <1>3, <1>5

----------------------------------------------------------------------------
(* All of them.                                                            *)

\* k is one of the code's implementations, made of members of K of a lower
\* rank.  F[k] says which bytes may come next: no FF after a text, the marker
\* and the terminator after an element, after a field what the next begins with.
BuiltFrom(K, rank, F, k) ==
  \/ k \in {char, bool} \cup {unsigned(w) : w \in Nat} \cup {byte_array(w) : w \in Nat}
  \/ \E w \in Nat \ {0} : k = signed(w)
  \/ FF \notin F[k] /\ \E cap \in Nat : k = string(cap)
  \/ \E of \in K, cap \in Nat :
       k = vec(of, cap) /\ rank[of] < rank[k] /\ 0 \in F[of] /\ 1 \in F[of]
  \/ \E fields \in Seq(K) : \E Fs \in [0..Len(fields) -> SUBSET Byte] :
       /\ k = tuple(fields) /\ Fs[Len(fields)] = F[k]
       /\ \A i \in 1..Len(fields) :
            /\ rank[fields[i]] < rank[k] /\ Fs[i] \subseteq F[fields[i]]
            /\ Follows(fields[i], Fs[i - 1], Fs[i])
  \/ \E variants \in Seq(K) :
       /\ k = key_enum(variants) /\ Len(variants) <= Base
       /\ \A i \in 1..Len(variants) :
            rank[variants[i]] < rank[k] /\ F[k] \subseteq F[variants[i]]

WellBuilt(K, rank, F) ==
  /\ rank \in [K -> Nat] /\ F \in [K -> SUBSET Byte]
  /\ \A k \in K : BuiltFrom(K, rank, F, k)

\* An implementation keeps the laws if all it may be made of do.
LEMMA BuiltLawful ==
  ASSUME NEW K, NEW rank, NEW F, F \in [K -> SUBSET Byte],
         NEW k \in K, BuiltFrom(K, rank, F, k),
         \A j \in K : rank[j] < rank[k] => Laws(j, F[j])
  PROVE  Laws(k, F[k])
<1>0. F[k] \in SUBSET Byte
  OBVIOUS
<1>1. Laws(k, Byte) => Laws(k, F[k])
  BY <1>0, LawfulBeforeLess
<1>2. CASE k \in {char, bool} \cup {unsigned(w) : w \in Nat} \cup {byte_array(w) : w \in Nat}
  BY <1>1, <1>2, CharLawful, BoolLawful, UnsignedLawful, ByteArrayLawful
<1>3. CASE \E w \in Nat \ {0} : k = signed(w)
  BY <1>1, <1>3, SignedLawful
<1>4. CASE FF \notin F[k] /\ \E cap \in Nat : k = string(cap)
  <2>1. Laws(k, Byte \ {FF})
    BY <1>4, TextLawful
  <2>2. F[k] \in SUBSET (Byte \ {FF})
    BY <1>0, <1>4
  <2> QED BY <2>1, <2>2, LawfulBeforeLess
<1>5. CASE \E of \in K, cap \in Nat :
             k = vec(of, cap) /\ rank[of] < rank[k] /\ 0 \in F[of] /\ 1 \in F[of]
  <2>1. PICK of \in K, cap \in Nat :
          k = vec(of, cap) /\ rank[of] < rank[k] /\ 0 \in F[of] /\ 1 \in F[of]
    BY <1>5
  <2>2. Laws(of, F[of])
    BY <2>1
  <2>3. Laws(vec(of, cap), Byte)
    BY <2>1, <2>2, VecLawful
  <2> QED BY <1>1, <2>1, <2>3
<1>6. CASE \E fields \in Seq(K) : \E Fs \in [0..Len(fields) -> SUBSET Byte] :
             /\ k = tuple(fields) /\ Fs[Len(fields)] = F[k]
             /\ \A i \in 1..Len(fields) :
                  /\ rank[fields[i]] < rank[k] /\ Fs[i] \subseteq F[fields[i]]
                  /\ Follows(fields[i], Fs[i - 1], Fs[i])
  <2>1. PICK fields \in Seq(K) : \E Fs \in [0..Len(fields) -> SUBSET Byte] :
          /\ k = tuple(fields) /\ Fs[Len(fields)] = F[k]
          /\ \A i \in 1..Len(fields) :
               /\ rank[fields[i]] < rank[k] /\ Fs[i] \subseteq F[fields[i]]
               /\ Follows(fields[i], Fs[i - 1], Fs[i])
    BY <1>6
  <2>2. PICK Fs \in [0..Len(fields) -> SUBSET Byte] :
          /\ k = tuple(fields) /\ Fs[Len(fields)] = F[k]
          /\ \A i \in 1..Len(fields) :
               /\ rank[fields[i]] < rank[k] /\ Fs[i] \subseteq F[fields[i]]
               /\ Follows(fields[i], Fs[i - 1], Fs[i])
    BY <2>1
  <2>3. Chained(fields, Fs)
    <3> SUFFICES ASSUME NEW i \in 1..Len(fields)
                 PROVE  Laws(fields[i], Fs[i]) /\ Follows(fields[i], Fs[i - 1], Fs[i])
      BY DEF Chained
    <3>1. PICK j \in K : j = fields[i]
      BY ElementOfSeq
    <3>2. Laws(j, F[j])
      BY <2>2, <3>1
    <3>3. Fs[i] \in SUBSET F[j]
      BY <2>2, <3>1
    <3>4. Laws(j, Fs[i])
      BY <3>2, <3>3, LawfulBeforeLess
    <3> QED BY <2>2, <3>1, <3>4
  <2>4. Laws(tuple(fields), Fs[Len(fields)])
    BY <2>3, TupleLawful
  <2> QED BY <2>2, <2>4
<1>7. CASE \E variants \in Seq(K) :
             /\ k = key_enum(variants) /\ Len(variants) <= Base
             /\ \A i \in 1..Len(variants) :
                  rank[variants[i]] < rank[k] /\ F[k] \subseteq F[variants[i]]
  <2>1. PICK variants \in Seq(K) :
          /\ k = key_enum(variants) /\ Len(variants) <= Base
          /\ \A i \in 1..Len(variants) :
               rank[variants[i]] < rank[k] /\ F[k] \subseteq F[variants[i]]
    BY <1>7
  <2>2. ASSUME NEW i \in 1..Len(variants) PROVE Laws(variants[i], F[k])
    <3>1. PICK j \in K : j = variants[i]
      BY ElementOfSeq
    <3>2. Laws(j, F[j])
      BY <2>1, <3>1
    <3>3. F[k] \in SUBSET F[j]
      BY <2>1, <3>1
    <3>4. Laws(j, F[k])
      BY <3>2, <3>3, LawfulBeforeLess
    <3> QED BY <3>1, <3>4
  <2>3. Laws(key_enum(variants), F[k])
    BY <2>1, <2>2, EnumLawful
  <2> QED BY <2>1, <2>3
<1> QED BY <1>2, <1>3, <1>4, <1>5, <1>6, <1>7 DEF BuiltFrom

\* Every key type that is put together of the code's implementations, however
\* deep, has an encoding that keeps the laws of OrderedKeyEncoding.
THEOREM WellBuiltLawful ==
  ASSUME NEW K, NEW rank, NEW F, WellBuilt(K, rank, F)
  PROVE  \A k \in K : Laws(k, F[k])
<1> DEFINE T == {n \in Nat : \A k \in K : rank[k] < n => Laws(k, F[k])}
<1>0. rank \in [K -> Nat] /\ F \in [K -> SUBSET Byte] /\ \A k \in K : BuiltFrom(K, rank, F, k)
  BY DEF WellBuilt
<1>1. 0 \in T
  <2>1. \A k \in K : ~(rank[k] < 0)
    BY <1>0
  <2> QED BY <2>1
<1>2. ASSUME NEW n \in T PROVE n + 1 \in T
  <2>1. n \in Nat /\ \A k \in K : rank[k] < n => Laws(k, F[k])
    OBVIOUS
  <2>2. ASSUME NEW k \in K, rank[k] < n + 1 PROVE Laws(k, F[k])
    <3>1. ASSUME NEW j \in K, rank[j] < rank[k] PROVE Laws(j, F[j])
      <4>1. rank[j] \in Nat /\ rank[k] \in Nat
        BY <1>0
      <4>2. rank[j] < n
        BY <2>1, <2>2, <3>1, <4>1
      <4> QED BY <2>1, <4>2
    <3>2. F \in [K -> SUBSET Byte] /\ BuiltFrom(K, rank, F, k)
      BY <1>0
    <3> QED BY <3>1, <3>2, BuiltLawful
  <2>3. n + 1 \in Nat
    BY <2>1
  <2> QED BY <2>2, <2>3
<1>3. T = Nat
  <2>1. T \in SUBSET Nat
    OBVIOUS
  <2> HIDE DEF T
  <2> QED BY <1>1, <1>2, <2>1, NaturalsFrom
<1>4. ASSUME NEW k \in K PROVE Laws(k, F[k])
  <2>1. PICK r \in Nat : r = rank[k]
    BY <1>0
  <2>2. r + 1 \in Nat /\ r < r + 1
    OBVIOUS
  <2>3. r + 1 \in T
    <3> HIDE DEF T
    <3> QED BY <1>3, <2>2
  <2> QED BY <2>1, <2>2, <2>3
<1> QED BY <1>4

----------------------------------------------------------------------------
(* The index over keys of such kinds.                                      *)

\* The implementation of every type of key keeps the laws.
LawfulKinds == \A ty \in Types : \E F : Laws(Impl(ty), F)

\* The implementation of every type of key is the code's, or made of the code's.
BuiltKinds ==
  \E K, rank, F : WellBuilt(K, rank, F) /\ \A ty \in Types : Impl(ty) \in K

\* And anything may follow a key: none ends in a text.
OpenKinds ==
  \E K, rank, F :
    /\ WellBuilt(K, rank, F)
    /\ \A ty \in Types : Impl(ty) \in K /\ F[Impl(ty)] = Byte

\* What is so made keeps the laws.
LEMMA BuiltKindsAreLawful ==
  /\ BuiltKinds => LawfulKinds
  /\ OpenKinds => \A ty \in Types : Laws(Impl(ty), Byte)
<1>1. ASSUME BuiltKinds PROVE LawfulKinds
  <2>1. PICK K, rank, F : WellBuilt(K, rank, F) /\ \A ty \in Types : Impl(ty) \in K
    BY <1>1 DEF BuiltKinds
  <2>2. \A k \in K : Laws(k, F[k])
    BY <2>1, WellBuiltLawful
  <2>3. ASSUME NEW ty \in Types PROVE \E G : Laws(Impl(ty), G)
    <3>1. Laws(Impl(ty), F[Impl(ty)])
      BY <2>1, <2>2
    <3> QED BY <3>1
  <2> QED BY <2>3 DEF LawfulKinds
<1>2. ASSUME OpenKinds PROVE \A ty \in Types : Laws(Impl(ty), Byte)
  <2>1. PICK K, rank, F : /\ WellBuilt(K, rank, F)
                          /\ \A ty \in Types : Impl(ty) \in K /\ F[Impl(ty)] = Byte
    BY <1>2 DEF OpenKinds
  <2>2. \A k \in K : Laws(k, F[k])
    BY <2>1, WellBuiltLawful
  <2> QED BY <2>1, <2>2
<1> QED BY <1>1, <1>2

\* What the index asks of a type follows from the laws of its implementation.
LEMMA AsTheIndexAsks ==
  ASSUME NEW ty \in Types, NEW F, Laws(Impl(ty), F)
  PROVE  Lawful(ty)
<1>1. PICK k : k = Impl(ty)
  OBVIOUS
<1>2. /\ Shaped(k) /\ Fits(k) /\ Orders(k, F) /\ RoundTrips(k, F)
      /\ k.encode \in [k.values -> Seq(Byte)] /\ k.max \in Nat
  BY <1>1 DEF Laws, Shaped
<1>3. /\ Octets = Byte /\ Values[ty] = k.values /\ MaxLen(ty) = k.max
      /\ \A v \in k.values :
           /\ Encode(ty, v) = encode_key_buf(k, v)
           /\ Encode(ty, v).res = "ok" =>
                Decode(ty, Encode(ty, v).value) = decode_exact(k, Encode(ty, v).value)
           /\ \A w \in k.values : Before(ty, v, w) <=> <<v, w>> \in k.below
  BY <1>1, KeyIndexAssumption DEF MAX_ENCODED_LEN, EncodeKey, DecodeKey, IsBelow, Below
<1>4. <<>> \in Continues(F)
  BY DEF Continues
<1>5. ASSUME NEW v \in k.values
      PROVE  /\ k.encode[v] \in Seq(Byte) /\ Len(k.encode[v]) <= k.max
             /\ Encode(ty, v) = Ok(k.encode[v], Len(k.encode[v]))
             /\ Decode(ty, Encode(ty, v).value) = Ok(v, Len(k.encode[v]))
             /\ k.encode[v] \o <<>> = k.encode[v]
  <2>1. PICK e \in Seq(Byte) : e = k.encode[v]
    BY <1>2
  <2>2. Len(e) <= k.max /\ Len(e) \in Nat
    BY <1>2, <2>1, LenProperties DEF Fits
  <2>3. Encode(ty, v) = Ok(e, Len(e))
    <3>1. ~(Len(e) > k.max)
      BY <1>2, <2>2
    <3> QED BY <1>3, <2>1, <3>1 DEF encode_key_buf, encode_into
  <2>4. Encode(ty, v).value = e
    BY <2>3, Answers
  <2>5. e \o <<>> = e
    OBVIOUS
  <2>6. k.decode[e] = Ok(v, Len(e))
    BY <1>2, <1>4, <2>1, <2>5 DEF RoundTrips
  <2>7. decode_exact(k, e) = Ok(v, Len(e))
    <3>1. Ok(v, Len(e)).used = Len(e)
      BY Answers
    <3> QED BY <2>6, <3>1 DEF decode_exact
  <2>8. Decode(ty, Encode(ty, v).value) = Ok(v, Len(e))
    <3>1. Encode(ty, v).res = "ok"
      BY <2>3, Answers
    <3> QED BY <1>3, <2>4, <2>7, <3>1
  <2> QED BY <2>1, <2>2, <2>3, <2>5, <2>8
<1>6. ASSUME NEW v \in k.values, NEW w \in k.values
      PROVE  <<v, w>> \in k.below <=> memcmp(k.encode[v], k.encode[w])
  <2>1. \A a, b \in k.values : <<a, b>> \in k.below => memcmp(k.encode[a], k.encode[b])
    <3> SUFFICES ASSUME NEW a \in k.values, NEW b \in k.values, <<a, b>> \in k.below
                 PROVE  memcmp(k.encode[a], k.encode[b])
      OBVIOUS
    <3>1. memcmp(k.encode[a] \o <<>>, k.encode[b] \o <<>>)
      BY <1>2, <1>4 DEF Orders
    <3> QED BY <1>5, <3>1
  <2>2. v = w \/ <<v, w>> \in k.below \/ <<w, v>> \in k.below
    BY <1>2 DEF Orders
  <2>3. PICK e \in Seq(Byte), f \in Seq(Byte) : e = k.encode[v] /\ f = k.encode[w]
    BY <1>2
  <2>4. ~memcmp(e, e) /\ (memcmp(e, f) => ~memcmp(f, e))
    BY BytesCompared
  <2> QED BY <2>1, <2>2, <2>3, <2>4
<1>7. ASSUME NEW v \in Values[ty]
      PROVE  /\ Encode(ty, v).res = "ok" /\ Encode(ty, v).value = k.encode[v]
             /\ Encode(ty, v).value \in Seq(Octets) /\ Len(Encode(ty, v).value) <= MaxLen(ty)
             /\ Decode(ty, Encode(ty, v).value).res = "ok"
             /\ Decode(ty, Encode(ty, v).value).value = v
  BY <1>3, <1>5, Answers
<1>8. ASSUME NEW v \in Values[ty], NEW w \in Values[ty]
      PROVE  Before(ty, v, w) <=> memcmp(Encode(ty, v).value, Encode(ty, w).value)
  <2>1. v \in k.values /\ w \in k.values
    BY <1>3
  <2>2. Before(ty, v, w) <=> <<v, w>> \in k.below
    BY <1>3, <2>1
  <2>3. Encode(ty, v).value = k.encode[v] /\ Encode(ty, w).value = k.encode[w]
    BY <1>7
  <2>4. <<v, w>> \in k.below <=> memcmp(k.encode[v], k.encode[w])
    BY <1>6, <2>1
  <2> QED BY <2>2, <2>3, <2>4
<1> QED BY <1>7, <1>8 DEF Lawful

\* Then the types of the index are lawful in the sense of EncodedIndexProofs.
LEMMA KindsAreLawful ==
  ASSUME LawfulKinds PROVE LawfulTypes
<1>1. ASSUME NEW ty \in Types PROVE Lawful(ty)
  <2>1. PICK F : Laws(Impl(ty), F)
    BY DEF LawfulKinds
  <2> QED BY <2>1, AsTheIndexAsks
<1> QED BY <1>1 DEF LawfulTypes

\* At every width, capacity and nesting of the key types: the type of the index
\* has lawful encodings.
THEOREM EncodingsAlwaysLawful ==
  ASSUME BuiltKinds
  PROVE  Spec => []EncodingsAreLawful
<1>0. LawfulTypes
  BY BuiltKindsAreLawful, KindsAreLawful
<1>1. InOrder => EncodingsAreLawful
  BY <1>0 DEF InOrder, EncodingsAreLawful, LawfulTypes
<1> QED BY <1>0, <1>1, AlwaysInOrder, PTL

\* For all such key types and bytes of every length: what decodes is the
\* encoding of what it decodes to.
THEOREM OnlyCanonicalBytes ==
  ASSUME BuiltKinds
  PROVE  Spec => []OnlyCanonicalBytesDecode
<1>0. LawfulKinds /\ LawfulTypes
  BY BuiltKindsAreLawful, KindsAreLawful
<1>1. ASSUME InOrder, NEW raw \in Raw, Impl(type).decode[raw].res = "ok"
      PROVE  /\ Impl(type).decode[raw].value \in Values[type]
             /\ Impl(type).encode[Impl(type).decode[raw].value]
                  = SubSeq(raw, 1, Impl(type).decode[raw].used)
  <2>1. type \in Types
    BY <1>1 DEF InOrder
  <2>2. PICK k : k = Impl(type)
    OBVIOUS
  <2>3. PICK F : Laws(k, F)
    BY <1>0, <2>1, <2>2 DEF LawfulKinds
  <2>4. Shaped(k) /\ Canonical(k)
    BY <2>3 DEF Laws
  <2>5. raw \in Seq(Byte)
    <3>1. MaxRaw \in Nat
      BY KeyIndexAssumption
    <3> QED BY <3>1, Bounded DEF Raw
  <2>6. k.decode[raw] \in Results(k.values)
    BY <2>4, <2>5 DEF Shaped
  <2>7. PICK v \in k.values, n \in Nat : k.decode[raw] = Ok(v, n)
    <3>1. \A e \in Errors : k.decode[raw] # Fails(e)
      BY <1>1, <2>2, Answers
    <3> QED BY <2>6, <3>1 DEF Results
  <2>8. k.encode[v] = SubSeq(raw, 1, n)
    BY <2>4, <2>5, <2>7 DEF Canonical
  <2>9. k.decode[raw].value = v /\ k.decode[raw].used = n
    BY <2>7, Answers
  <2>10. Values[type] = k.values
    BY <2>1, <2>2, KeyIndexAssumption
  <2> QED BY <2>2, <2>7, <2>8, <2>9, <2>10
<1>2. InOrder => OnlyCanonicalBytesDecode
  BY <1>1 DEF OnlyCanonicalBytesDecode
<1> QED BY <1>0, <1>2, AlwaysInOrder, PTL

\* For all such key types and any number of keys: the index of encodings, which
\* fit their buffers, is a set of typed keys in their own order.
THEOREM KeysInOrder ==
  ASSUME BuiltKinds
  PROVE  Spec => []TypeOK /\ []KeysFit /\ ImplementsSortedKeys
<1>0. LawfulTypes
  BY BuiltKindsAreLawful, KindsAreLawful
<1>1. Spec => []TypeOK
  BY <1>0, TypeCorrect
<1>2. Spec => []KeysFit
  BY <1>0, KeysAlwaysFit
<1>3. Spec => ImplementsSortedKeys
  BY <1>0, BytesStandForKeys, ZenonT(30)
<1> QED BY <1>1, <1>2, <1>3

\* Bytes that begin with others are those and a rest.
LEMMA PrefixRest ==
  ASSUME NEW b \in Seq(Byte), NEW c \in Seq(Byte), IsPrefix(b, c)
  PROVE  \E s \in Seq(Byte) : c = b \o s
<1>1. Len(b) \in Nat /\ Len(c) \in Nat /\ Len(b) <= Len(c)
  BY LenProperties DEF IsPrefix
<1>2. PICK n \in 0..Len(c) : n = Len(b)
  BY <1>1
<1>3. PICK s \in Seq(Byte) : /\ s = From(c, n) /\ Len(s) = Len(c) - n
                             /\ \A j \in 1..Len(c) - n : s[j] = c[n + j]
  BY FromIs
<1>4. n + Len(s) = Len(c)
  BY <1>1, <1>3
<1>5. n + Len(s) <= Len(c) /\ \A j \in 1..Len(s) : c[n + j] = s[j]
  BY <1>1, <1>3, <1>4
<1>6. Grows(c, n, s)
  BY BytesGrow
<1>7. SubSeq(c, 1, Len(c)) = SubSeq(c, 1, n) \o s
  BY <1>4, <1>5, <1>6 DEF Grows
<1>8. SubSeq(c, 1, Len(c)) = c /\ SubSeq(b, 1, Len(b)) = b
  OBVIOUS
<1>9. SubSeq(c, 1, n) = b
  BY <1>2, <1>8 DEF IsPrefix
<1> QED BY <1>7, <1>8, <1>9

\* Where anything may follow a key of each type, none begins with another: the
\* header of ordered.rs says so of all types, which the run KeyTuple refutes.
THEOREM KeysAreApart ==
  ASSUME OpenKinds
  PROVE  Spec => []PrefixFree
<1>0. \A ty \in Types : Laws(Impl(ty), Byte)
  BY BuiltKindsAreLawful
<1>1. LawfulKinds
  BY <1>0 DEF LawfulKinds
<1>2. LawfulTypes
  BY <1>1, KindsAreLawful
<1>3. ASSUME InOrder, NEW i \in DOMAIN index, NEW j \in DOMAIN index, i # j, IsPrefix(index[i], index[j])
      PROVE  FALSE
  <2>1. PICK k : k = Impl(type) /\ type \in Types /\ Laws(k, Byte)
    BY <1>0, <1>3 DEF InOrder
  <2>2. PICK b \in CodesOf(type), c \in CodesOf(type) : b = index[i] /\ c = index[j] /\ b # c
    <3>1. /\ Len(index) \in Nat /\ DOMAIN index = 1..Len(index)
          /\ \A n \in 1..Len(index) : index[n] \in CodesOf(type) /\ index[n] \in Seq(Octets)
      BY <1>2, <1>3, Held
    <3>2. memcmp(index[i], index[j]) \/ memcmp(index[j], index[i])
      BY <1>3, <3>1 DEF InOrder
    <3>3. ~memcmp(index[i], index[i])
      BY <3>1, Compared
    <3>4. index[i] # index[j]
      BY <3>2, <3>3
    <3> QED BY <3>1, <3>4
  <2>3. PICK v \in k.values, w \in k.values : b = k.encode[v] /\ c = k.encode[w]
    <3>1. /\ Values[type] = k.values
          /\ \A u \in k.values : Encode(type, u).value = k.encode[u]
      <4>1. \A u \in k.values : Encode(type, u) = encode_key_buf(k, u) /\ Lawful(type)
        BY <1>2, <2>1, KeyIndexAssumption DEF EncodeKey, LawfulTypes
      <4>2. Values[type] = k.values
        BY <2>1, KeyIndexAssumption
      <4>3. ASSUME NEW u \in k.values PROVE Encode(type, u).value = k.encode[u]
        <5>1. Encode(type, u).res = "ok"
          BY <4>1, <4>2 DEF Lawful
        <5>2. Encode(type, u) = Fails("BufferTooSmall") \/ Encode(type, u) = Ok(k.encode[u], Len(k.encode[u]))
          BY <4>1 DEF encode_key_buf, encode_into
        <5> QED BY <5>1, <5>2 DEF Fails, Ok
      <4> QED BY <4>2, <4>3
    <3> QED BY <2>2, <3>1 DEF CodesOf
  <2>4. PICK s \in Seq(Byte) : c = b \o s
    <3>1. b \in Seq(Byte) /\ c \in Seq(Byte)
      BY <2>1, <2>3 DEF Laws, Shaped
    <3> QED BY <1>3, <2>2, <3>1, PrefixRest
  <2>5. b \in Seq(Byte) /\ c \in Seq(Byte) /\ v # w /\ b \o <<>> = b /\ c \o <<>> = c
    <3>1. b \in Seq(Byte) /\ c \in Seq(Byte)
      BY <2>1, <2>3 DEF Laws, Shaped
    <3> QED BY <2>2, <2>3, <3>1
  <2>6. s \in Continues(Byte) /\ <<>> \in Continues(Byte)
    <3>1. s # <<>> => s[1] \in Byte
      <4>1. s # <<>> => 1 \in 1..Len(s)
        BY LenProperties, EmptySeq
      <4> QED BY <4>1, ElementOfSeq
    <3> QED BY <3>1 DEF Continues
  <2>7. <<v, w>> \in k.below \/ <<w, v>> \in k.below
    BY <2>1, <2>5 DEF Laws, Orders
  <2>8. memcmp(b \o s, c \o <<>>) \/ memcmp(c \o <<>>, b \o s)
    BY <2>1, <2>3, <2>6, <2>7 DEF Laws, Orders
  <2>9. ~memcmp(c, c)
    BY <2>5, BytesCompared
  <2> QED BY <2>4, <2>5, <2>8, <2>9
<1>4. InOrder => PrefixFree
  BY <1>3 DEF PrefixFree
<1> QED BY <1>2, <1>4, AlwaysInOrder, PTL
=============================================================================
