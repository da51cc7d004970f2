------------------------- MODULE EncodedIndexProofs -------------------------
(***************************************************************************)
(* An index that compares encodings as bytes and never decodes them to     *)
(* compare is a sorted set of the keys they encode, for every encoding     *)
(* that keeps the laws of OrderedKeyEncoding.                              *)
(*                                                                         *)
(* The invariant, InOrder, says that the index holds encodings of keys of  *)
(* its type, ascending.  An ascending index is parted by a key's place     *)
(* into what is below the key and what is not (Placed); so insertion,      *)
(* removal and scans, which go by that place, find and leave what they     *)
(* should.                                                                 *)
(***************************************************************************)
EXTENDS EncodedIndex, FiniteSetTheorems, SequenceTheorems, WellFoundedInduction, TLAPS

----------------------------------------------------------------------------
(* The order of byte strings.                                              *)

\* A set of naturals with a member has a least one.
LEMMA LeastOf ==
  ASSUME NEW T \in SUBSET Nat, T # {}
  PROVE  \E n \in T : \A m \in T : n <= m
<1>1. PICK x \in T : \A y \in T : <<y, x>> \notin OpToRel(<, Nat)
  BY WFMin, NatLessThanWellFounded
<1>2. \A y \in T : ~(y < x)
  <2>1. \A y \in T : y < x => <<y, x>> \in OpToRel(<, Nat)
    BY DEF OpToRel
  <2> QED BY <1>1, <2>1
<1> QED BY <1>2

\* Byte strings are compared up to where one ends or has the smaller byte: a
\* strict order in which any two are comparable.
LEMMA MemcmpIs ==
  ASSUME NEW s \in Seq(Nat), NEW t \in Seq(Nat)
  PROVE  /\ ~memcmp(s, s)
         /\ memcmp(s, t) => ~memcmp(t, s)
         /\ s = t \/ memcmp(s, t) \/ memcmp(t, s)
<1>1. \A u, v : memcmp(u, v) <=>
        \E i \in 1..Len(v) : /\ i <= Len(u) + 1
                             /\ \A j \in 1..i - 1 : u[j] = v[j]
                             /\ i <= Len(u) => u[i] < v[i]
  BY DEF memcmp
<1>2. /\ Len(s) \in Nat /\ \A i \in 1..Len(s) : s[i] \in Nat
      /\ Len(t) \in Nat /\ \A i \in 1..Len(t) : t[i] \in Nat
  BY LenProperties, ElementOfSeq
<1>3. ~memcmp(s, s)
  BY <1>1, <1>2
<1>4. ASSUME memcmp(s, t), memcmp(t, s) PROVE FALSE
  <2>1. PICK i \in 1..Len(t) : /\ i <= Len(s) + 1
                               /\ \A j \in 1..i - 1 : s[j] = t[j]
                               /\ i <= Len(s) => s[i] < t[i]
    BY <1>1, <1>4
  <2>2. PICK k \in 1..Len(s) : /\ k <= Len(t) + 1
                               /\ \A j \in 1..k - 1 : t[j] = s[j]
                               /\ k <= Len(t) => t[k] < s[k]
    BY <1>1, <1>4
  <2>3. i \in Nat /\ k \in Nat
    BY <1>2
  <2>4. CASE i < k
    <3>1. i <= Len(s) /\ i \in 1..k - 1
      BY <1>2, <2>3, <2>4
    <3> QED BY <1>2, <2>1, <2>2, <3>1, SMTT(30)
  <2>5. CASE k < i
    <3>1. k <= Len(t) /\ k \in 1..i - 1
      BY <1>2, <2>3, <2>5
    <3> QED BY <1>2, <2>1, <2>2, <3>1
  <2>6. CASE i = k
    BY <1>2, <2>1, <2>2, <2>6
  <2> QED BY <2>3, <2>4, <2>5, <2>6
<1>5. ASSUME s # t PROVE memcmp(s, t) \/ memcmp(t, s)
  <2> DEFINE D == {i \in Nat : /\ i \in 1..(Len(s) + 1) /\ i \in 1..(Len(t) + 1)
                               /\ i = Len(s) + 1 \/ i = Len(t) + 1 \/ s[i] # t[i]}
  <2>1. D # {}
    <3>1. CASE Len(s) <= Len(t)
      <4>1. Len(s) + 1 \in D
        BY <1>2, <3>1
      <4> HIDE DEF D
      <4> QED BY <4>1
    <3>2. CASE Len(t) <= Len(s)
      <4>1. Len(t) + 1 \in D
        BY <1>2, <3>2
      <4> HIDE DEF D
      <4> QED BY <4>1
    <3> HIDE DEF D
    <3> QED BY <1>2, <3>1, <3>2
  <2>2. PICK i \in D : \A j \in D : i <= j
    <3> HIDE DEF D
    <3>1. D \in SUBSET Nat
      BY DEF D
    <3> QED BY <2>1, <3>1, LeastOf
  <2>3. \A j \in 1..i - 1 : j \in 1..Len(s) /\ j \in 1..Len(t) /\ s[j] = t[j]
    <3>1. ASSUME NEW j \in 1..i - 1 PROVE j \in 1..Len(s) /\ j \in 1..Len(t) /\ s[j] = t[j]
      <4>1. i \in Nat /\ j \in Nat /\ ~(i <= j) /\ i <= Len(s) + 1 /\ i <= Len(t) + 1
        BY <1>2
      <4>2. j \notin D
        BY <2>2, <4>1
      <4>3. j \in 1..Len(s) /\ j \in 1..Len(t)
        BY <1>2, <4>1
      <4> QED BY <1>2, <4>1, <4>2, <4>3
    <3> QED BY <3>1
  <2>4. CASE i = Len(s) + 1 /\ i = Len(t) + 1
    <3>1. Len(s) = Len(t) /\ \A j \in 1..Len(s) : s[j] = t[j]
      BY <1>2, <2>3, <2>4
    <3> QED BY <1>5, <3>1, SeqEqual
  <2>5. CASE i <= Len(t) /\ (i <= Len(s) => s[i] < t[i])
    <3>1. i \in 1..Len(t) /\ i <= Len(s) + 1
      BY <1>2, <2>5
    <3> QED BY <1>1, <2>3, <2>5, <3>1
  <2>6. CASE i <= Len(s) /\ (i <= Len(t) => t[i] < s[i])
    <3>1. i \in 1..Len(s) /\ i <= Len(t) + 1
      BY <1>2, <2>6
    <3> QED BY <1>1, <2>3, <2>6, <3>1
  <2> QED BY <1>2, <2>4, <2>5, <2>6
<1> QED BY <1>3, <1>4, <1>5

\* Octets are numbers.
LEMMA AreNumbers ==
  ASSUME NEW S \in SUBSET Nat, NEW s \in Seq(S)
  PROVE  s \in Seq(Nat)
<1>1. PICK n \in Nat : n = Len(s)
  BY LenProperties
<1>2. s \in [1..n -> S]
  BY <1>1, LenProperties
<1>3. s \in [1..n -> Nat]
  BY <1>2
<1> QED BY <1>3

\* So are the encodings.
LEMMA Compared ==
  ASSUME NEW s \in Seq(Octets), NEW t \in Seq(Octets)
  PROVE  /\ ~memcmp(s, s)
         /\ memcmp(s, t) => ~memcmp(t, s)
         /\ s = t \/ memcmp(s, t) \/ memcmp(t, s)
<1>1. s \in Seq(Nat) /\ t \in Seq(Nat)
  BY AreNumbers, IndexAssumption
<1> QED BY <1>1, MemcmpIs

\* A byte string below a second, itself below a third, is below the third.
LEMMA ComparedOn ==
  ASSUME NEW s \in Seq(Octets), NEW t \in Seq(Octets), NEW u \in Seq(Octets),
         memcmp(s, t), memcmp(t, u)
  PROVE  memcmp(s, u)
<1>1. \A x, y : memcmp(x, y) <=>
        \E i \in 1..Len(y) : /\ i <= Len(x) + 1
                             /\ \A j \in 1..i - 1 : x[j] = y[j]
                             /\ i <= Len(x) => x[i] < y[i]
  BY DEF memcmp
<1>2. /\ Len(s) \in Nat /\ \A i \in 1..Len(s) : s[i] \in Nat
      /\ Len(t) \in Nat /\ \A i \in 1..Len(t) : t[i] \in Nat
      /\ Len(u) \in Nat /\ \A i \in 1..Len(u) : u[i] \in Nat
  BY LenProperties, ElementOfSeq, IndexAssumption
<1>3. PICK i \in 1..Len(t) : /\ i <= Len(s) + 1
                             /\ \A j \in 1..i - 1 : s[j] = t[j]
                             /\ i <= Len(s) => s[i] < t[i]
  BY <1>1
<1>4. PICK k \in 1..Len(u) : /\ k <= Len(t) + 1
                             /\ \A j \in 1..k - 1 : t[j] = u[j]
                             /\ k <= Len(t) => t[k] < u[k]
  BY <1>1
<1>5. i \in Nat /\ k \in Nat
  BY <1>2
<1>6. CASE i < k
  <2>1. i \in 1..Len(u) /\ i \in 1..k - 1
    BY <1>2, <1>4, <1>5, <1>6
  <2>2. \A j \in 1..i - 1 : s[j] = u[j]
    <3>1. \A j \in 1..i - 1 : j \in 1..k - 1
      BY <1>5, <1>6
    <3> QED BY <1>3, <1>4, <3>1
  <2>3. t[i] = u[i]
    BY <1>4, <2>1
  <2> QED BY <1>1, <1>3, <2>1, <2>2, <2>3
<1>7. CASE k < i
  <2>1. k \in 1..Len(t) /\ k <= Len(s) /\ k \in 1..i - 1
    BY <1>2, <1>3, <1>5, <1>7
  <2>2. \A j \in 1..k - 1 : s[j] = u[j]
    <3>1. \A j \in 1..k - 1 : j \in 1..i - 1
      BY <1>5, <1>7
    <3> QED BY <1>3, <1>4, <3>1
  <2>3. s[k] < u[k] /\ k <= Len(s) + 1
    <3>1. s[k] = t[k] /\ t[k] < u[k]
      BY <1>3, <1>4, <2>1
    <3> QED BY <1>2, <1>5, <2>1, <3>1
  <2> QED BY <1>1, <2>2, <2>3
<1>8. CASE i = k
  <2>1. \A j \in 1..i - 1 : s[j] = u[j]
    BY <1>3, <1>4, <1>8
  <2>2. i <= Len(s) => s[i] < u[i]
    <3>1. ASSUME i <= Len(s) PROVE s[i] < u[i]
      <4>1. s[i] < t[i] /\ t[i] < u[i]
        BY <1>3, <1>4, <1>8, <3>1
      <4>2. s[i] \in Nat /\ t[i] \in Nat /\ u[i] \in Nat
        BY <1>2, <1>5, <1>8, <3>1
      <4> QED BY <4>1, <4>2
    <3> QED BY <3>1
  <2> QED BY <1>1, <1>3, <1>8, <2>1, <2>2
<1> QED BY <1>5, <1>6, <1>7, <1>8

----------------------------------------------------------------------------
(* Sequences with an element more and one less.                            *)

\* Two sequences, one after the other.
LEMMA Joined ==
  ASSUME NEW S, NEW x \in Seq(S), NEW y \in Seq(S)
  PROVE  /\ x \o y \in Seq(S) /\ Len(x \o y) = Len(x) + Len(y)
         /\ \A j \in 1..Len(x) : (x \o y)[j] = x[j]
         /\ \A j \in 1..Len(y) : (x \o y)[Len(x) + j] = y[j]
<1>1. Len(x) \in Nat /\ Len(y) \in Nat
  BY LenProperties
<1>2. /\ x \o y \in Seq(S) /\ Len(x \o y) = Len(x) + Len(y)
      /\ \A j \in 1..(Len(x) + Len(y)) :
           (x \o y)[j] = IF j <= Len(x) THEN x[j] ELSE y[j - Len(x)]
  BY ConcatProperties
<1>3. \A j \in 1..Len(x) : (x \o y)[j] = x[j]
  BY <1>1, <1>2
<1>4. \A j \in 1..Len(y) : /\ Len(x) + j \in 1..(Len(x) + Len(y))
                           /\ ~(Len(x) + j <= Len(x)) /\ (Len(x) + j) - Len(x) = j
  BY <1>1
<1> QED BY <1>2, <1>3, <1>4

\* A sequence with one more element at a place.
LEMMA InsertedAt ==
  ASSUME NEW S, NEW s \in Seq(S), NEW e \in S, NEW i \in 1..(Len(s) + 1),
         NEW t \in Seq(S), Len(t) = Len(s) + 1,
         \A j \in 1..i - 1 : t[j] = s[j],
         t[i] = e,
         \A j \in i + 1..(Len(s) + 1) : t[j] = s[j - 1]
  PROVE  InsertAt(s, i, e) = t
<1> DEFINE a == SubSeq(s, 1, i - 1)
           b == <<e>>
           c == SubSeq(s, i, Len(s))
<1>1. Len(s) \in Nat /\ i \in Nat /\ \A j \in 1..Len(s) : s[j] \in S
  BY LenProperties, ElementOfSeq
<1>2. /\ a \in Seq(S) /\ Len(a) = i - 1
      /\ \A j \in 1..i - 1 : a[j] = s[j]
  BY <1>1
<1>3. b \in Seq(S) /\ Len(b) = 1 /\ b[1] = e
  OBVIOUS
<1>4. /\ c \in Seq(S) /\ Len(c) = (Len(s) - i) + 1
      /\ \A j \in 1..(Len(s) - i) + 1 : c[j] = s[(i + j) - 1]
  BY <1>1
<1>5. InsertAt(s, i, e) = (a \o b) \o c
  BY DEF InsertAt
<1> HIDE DEF a, b, c
<1> DEFINE ab == a \o b
<1>6. /\ ab \in Seq(S) /\ Len(ab) = i
      /\ \A j \in 1..i - 1 : ab[j] = s[j]
      /\ ab[i] = e
  <2>1. /\ ab \in Seq(S) /\ Len(ab) = Len(a) + Len(b)
        /\ \A j \in 1..Len(a) : ab[j] = a[j]
        /\ \A j \in 1..Len(b) : ab[Len(a) + j] = b[j]
    <3>1. a \in Seq(S) /\ b \in Seq(S)
      BY <1>2, <1>3
    <3> QED BY <3>1, Joined
  <2>2. Len(a) + 1 = i /\ 1 \in 1..Len(b) /\ Len(a) = i - 1
    BY <1>1, <1>2, <1>3
  <2> HIDE DEF ab
  <2> QED BY <1>2, <1>3, <2>1, <2>2
<1> HIDE DEF ab
<1>7. /\ ab \o c \in Seq(S) /\ Len(ab \o c) = Len(s) + 1
      /\ \A j \in 1..i : (ab \o c)[j] = ab[j]
      /\ \A j \in 1..(Len(s) - i) + 1 : (ab \o c)[i + j] = c[j]
  <2>1. i + ((Len(s) - i) + 1) = Len(s) + 1
    BY <1>1
  <2>2. Len(ab) = i /\ Len(c) = (Len(s) - i) + 1
    BY <1>4, <1>6
  <2> HIDE DEF ab
  <2>3. /\ ab \o c \in Seq(S) /\ Len(ab \o c) = Len(ab) + Len(c)
        /\ \A j \in 1..Len(ab) : (ab \o c)[j] = ab[j]
        /\ \A j \in 1..Len(c) : (ab \o c)[Len(ab) + j] = c[j]
    BY <1>4, <1>6, Joined
  <2> QED BY <2>1, <2>2, <2>3
<1>8. ASSUME NEW j \in 1..(Len(s) + 1) PROVE (ab \o c)[j] = t[j]
  <2>1. CASE j <= i - 1
    <3>1. j \in 1..i - 1 /\ j \in 1..i
      BY <1>1, <2>1
    <3> QED BY <1>6, <1>7, <3>1
  <2>2. CASE j = i
    <3>1. i \in 1..i
      BY <1>1
    <3> QED BY <1>6, <1>7, <2>2, <3>1
  <2>3. CASE j > i
    <3> DEFINE q == j - i
    <3>1. q \in 1..(Len(s) - i) + 1 /\ (i + q) - 1 = j - 1 /\ i + q = j /\ j \in i + 1..(Len(s) + 1)
      BY <1>1, <2>3
    <3> HIDE DEF q
    <3>2. (ab \o c)[i + q] = c[q]
      BY <1>7, <3>1
    <3>3. c[q] = s[(i + q) - 1]
      BY <1>4, <3>1
    <3>4. t[j] = s[j - 1]
      BY <3>1
    <3> QED BY <3>1, <3>2, <3>3, <3>4
  <2>4. j <= i - 1 \/ j = i \/ j > i
    BY <1>1
  <2> QED BY <2>1, <2>2, <2>3, <2>4
<1>9. ab \o c = t
  BY <1>7, <1>8, SeqEqual
<1> QED BY <1>5, <1>9 DEF ab

\* A sequence without one of its elements.
LEMMA RemovedAt ==
  ASSUME NEW S, NEW s \in Seq(S), NEW i \in 1..Len(s),
         NEW t \in Seq(S), Len(t) = Len(s) - 1,
         \A j \in 1..i - 1 : t[j] = s[j],
         \A j \in i..Len(s) - 1 : t[j] = s[j + 1]
  PROVE  RemoveAt(s, i) = t
<1> DEFINE a == SubSeq(s, 1, i - 1)
           c == SubSeq(s, i + 1, Len(s))
<1>1. Len(s) \in Nat /\ i \in Nat /\ \A j \in 1..Len(s) : s[j] \in S
  BY LenProperties, ElementOfSeq
<1>2. /\ a \in Seq(S) /\ Len(a) = i - 1
      /\ \A j \in 1..i - 1 : a[j] = s[j]
  BY <1>1
<1>3. /\ c \in Seq(S) /\ Len(c) = Len(s) - i
      /\ \A j \in 1..Len(s) - i : c[j] = s[i + j]
  BY <1>1
<1>4. RemoveAt(s, i) = a \o c
  BY DEF RemoveAt
<1> HIDE DEF a, c
<1>5. /\ a \o c \in Seq(S) /\ Len(a \o c) = Len(s) - 1
      /\ \A j \in 1..i - 1 : (a \o c)[j] = a[j]
      /\ \A j \in 1..Len(s) - i : (a \o c)[(i - 1) + j] = c[j]
  <2>1. (i - 1) + (Len(s) - i) = Len(s) - 1
    BY <1>1
  <2>2. Len(a) = i - 1 /\ Len(c) = Len(s) - i
    BY <1>2, <1>3
  <2>3. /\ a \o c \in Seq(S) /\ Len(a \o c) = Len(a) + Len(c)
        /\ \A j \in 1..Len(a) : (a \o c)[j] = a[j]
        /\ \A j \in 1..Len(c) : (a \o c)[Len(a) + j] = c[j]
    <3>1. a \in Seq(S) /\ c \in Seq(S)
      BY <1>2, <1>3
    <3> QED BY <3>1, Joined
  <2> QED BY <2>1, <2>2, <2>3
<1>6. ASSUME NEW j \in 1..Len(s) - 1 PROVE (a \o c)[j] = t[j]
  <2>1. CASE j <= i - 1
    <3>1. j \in 1..i - 1
      BY <1>1, <2>1
    <3> QED BY <1>2, <1>5, <3>1
  <2>2. CASE j >= i
    <3> DEFINE q == j - (i - 1)
    <3>1. q \in 1..Len(s) - i /\ i + q = j + 1 /\ (i - 1) + q = j /\ j \in i..Len(s) - 1
      BY <1>1, <2>2
    <3> HIDE DEF q
    <3>2. (a \o c)[(i - 1) + q] = c[q]
      BY <1>5, <3>1
    <3>3. c[q] = s[i + q]
      BY <1>3, <3>1
    <3>4. t[j] = s[j + 1]
      BY <3>1
    <3> QED BY <3>1, <3>2, <3>3, <3>4
  <2>3. j <= i - 1 \/ j >= i
    BY <1>1
  <2> QED BY <2>1, <2>2, <2>3
<1>7. a \o c = t
  BY <1>5, <1>6, SeqEqual
<1> QED BY <1>4, <1>7

----------------------------------------------------------------------------
(* Keys and their encodings, for lawful types.                             *)

\* The encodings of a type's keys, and the key each is the encoding of.
CodesOf(ty) == {Encode(ty, v).value : v \in Values[ty]}
KeyOf(ty, b) == Decoded[ty][b].value

\* Every key has its encoding and every encoding its key, in the same order.
LEMMA Codes ==
  ASSUME LawfulTypes, NEW ty \in Types
  PROVE  /\ \A v \in Values[ty] : /\ Encoded[ty][v] = Encode(ty, v)
                                  /\ Encoded[ty][v].res = "ok"
                                  /\ Encoded[ty][v].value \in CodesOf(ty)
                                  /\ KeyOf(ty, Encoded[ty][v].value) = v
         /\ \A b \in CodesOf(ty) : /\ b \in Seq(Octets) /\ Len(b) <= MaxLen(ty)
                                   /\ Decoded[ty][b].res = "ok"
                                   /\ KeyOf(ty, b) \in Values[ty]
                                   /\ Encoded[ty][KeyOf(ty, b)].value = b
         /\ \A b, c \in CodesOf(ty) :
              memcmp(b, c) <=> Before(ty, KeyOf(ty, b), KeyOf(ty, c))
<1>1. \A v \in Values[ty] :
        /\ Encode(ty, v).res = "ok"
        /\ Encode(ty, v).value \in Seq(Octets) /\ Len(Encode(ty, v).value) <= MaxLen(ty)
        /\ Decode(ty, Encode(ty, v).value).res = "ok"
        /\ Decode(ty, Encode(ty, v).value).value = v
        /\ \A w \in Values[ty] :
             Before(ty, v, w) <=> memcmp(Encode(ty, v).value, Encode(ty, w).value)
  BY DEF LawfulTypes, Lawful
<1>2. \A v \in Values[ty] : Encoded[ty][v] = Encode(ty, v)
  BY DEF Encoded
<1>3. CodesOf(ty) = {Encoded[ty][v].value : v \in Values[ty]}
  BY <1>2 DEF CodesOf
<1>4. \A b \in CodesOf(ty) : Decoded[ty][b] = Decode(ty, b)
  BY <1>3 DEF Decoded
<1>5. \A v \in Values[ty] : /\ Encode(ty, v).value \in CodesOf(ty)
                            /\ KeyOf(ty, Encode(ty, v).value) = v
  BY <1>1, <1>4 DEF CodesOf, KeyOf
<1>6. \A b \in CodesOf(ty) : \E v \in Values[ty] : b = Encode(ty, v).value
  BY DEF CodesOf
<1>7. \A b \in CodesOf(ty) : /\ b \in Seq(Octets) /\ Len(b) <= MaxLen(ty)
                             /\ Decoded[ty][b].res = "ok"
                             /\ KeyOf(ty, b) \in Values[ty]
                             /\ Encode(ty, KeyOf(ty, b)).value = b
  BY <1>1, <1>4, <1>5, <1>6
<1>8. \A b, c \in CodesOf(ty) : memcmp(b, c) <=> Before(ty, KeyOf(ty, b), KeyOf(ty, c))
  <2>1. ASSUME NEW b \in CodesOf(ty), NEW c \in CodesOf(ty)
        PROVE  memcmp(b, c) <=> Before(ty, KeyOf(ty, b), KeyOf(ty, c))
    <3>1. PICK v \in Values[ty] : b = Encode(ty, v).value /\ KeyOf(ty, b) = v
      BY <1>5, <1>6
    <3>2. PICK w \in Values[ty] : c = Encode(ty, w).value /\ KeyOf(ty, c) = w
      BY <1>5, <1>6
    <3> QED BY <1>1, <3>1, <3>2
  <2> QED BY <2>1
<1>9. \A v \in Values[ty] : /\ Encoded[ty][v] = Encode(ty, v)
                            /\ Encoded[ty][v].res = "ok"
                            /\ Encoded[ty][v].value \in CodesOf(ty)
                            /\ KeyOf(ty, Encoded[ty][v].value) = v
  BY <1>1, <1>2, <1>5
<1>10. \A b \in CodesOf(ty) : Encoded[ty][KeyOf(ty, b)].value = b
  BY <1>2, <1>7
<1> QED BY <1>7, <1>8, <1>9, <1>10

\* Between calls the index holds encodings of its type, ascending.
InOrder ==
  /\ type \in Types
  /\ index \in Seq(CodesOf(type))
  /\ \A i, j \in 1..Len(index) : i < j => memcmp(index[i], index[j])
  /\ ret.res \in {"none", "ok", "absent"}

\* The elements of an index.
LEMMA Held ==
  ASSUME LawfulTypes, InOrder
  PROVE  /\ Len(index) \in Nat /\ DOMAIN index = 1..Len(index)
         /\ \A i \in 1..Len(index) : index[i] \in CodesOf(type) /\ index[i] \in Seq(Octets)
<1>1. Len(index) \in Nat /\ DOMAIN index = 1..Len(index)
  BY LenProperties DEF InOrder
<1>2. \A i \in 1..Len(index) : index[i] \in CodesOf(type)
  BY ElementOfSeq DEF InOrder
<1> QED BY <1>1, <1>2, Codes DEF InOrder

\* The place of a key parts the index into what is below it and what is not.
LEMMA Placed ==
  ASSUME LawfulTypes, InOrder, NEW key \in CodesOf(type)
  PROVE  /\ place(key) \in 1..(Len(index) + 1)
         /\ \A i \in 1..Len(index) : memcmp(index[i], key) <=> i < place(key)
<1> DEFINE S == {i \in DOMAIN index : memcmp(index[i], key)}
           F == {i \in Nat : i \in 1..(Len(index) + 1) /\ i \notin S}
<1>1. /\ Len(index) \in Nat /\ DOMAIN index = 1..Len(index)
      /\ \A i \in 1..Len(index) : index[i] \in Seq(Octets)
  BY Held
<1>2. key \in Seq(Octets) /\ type \in Types
  BY Codes DEF InOrder
<1>3. F \in SUBSET Nat /\ Len(index) + 1 \in F
  BY <1>1
<1>4. PICK m \in F : \A n \in F : m <= n
  <2> HIDE DEF F
  <2> QED BY <1>3, LeastOf
<1>5. m \in 1..(Len(index) + 1) /\ m \notin S /\ m \in Nat
  OBVIOUS
<1>6. \A i \in 1..m - 1 : i \in S
  <2>1. ASSUME NEW i \in 1..m - 1 PROVE i \in S
    <3>1. i \in Nat /\ i \in 1..(Len(index) + 1) /\ ~(m <= i)
      BY <1>1, <1>5
    <3>2. i \notin F
      BY <1>4, <3>1
    <3> QED BY <3>1, <3>2
  <2> QED BY <2>1
<1>7. \A i \in S : i \in 1..m - 1
  <2>1. ASSUME NEW i \in S, ~(i < m) PROVE FALSE
    <3>1. i \in 1..Len(index) /\ memcmp(index[i], key) /\ i # m
      BY <1>1, <1>5
    <3>2. m \in 1..Len(index) /\ m < i
      BY <1>1, <1>5, <2>1, <3>1
    <3>3. memcmp(index[m], index[i])
      BY <3>1, <3>2 DEF InOrder
    <3>4. memcmp(index[m], key)
      BY <1>1, <1>2, <3>1, <3>2, <3>3, ComparedOn
    <3> QED BY <1>1, <1>5, <3>2, <3>4
  <2> QED BY <1>1, <1>5, <2>1
<1>8. S = 1..m - 1
  <2> HIDE DEF S
  <2> QED BY <1>6, <1>7
<1>9. place(key) = m
  <2>1. Cardinality(1..m - 1) = m - 1
    <3>1. 1 \in Int /\ m - 1 \in Int
      BY <1>5
    <3>2. Cardinality(1..m - 1) = IF 1 > m - 1 THEN 0 ELSE (m - 1) - 1 + 1
      BY <3>1, FS_Interval
    <3> QED BY <1>5, <3>2
  <2>2. place(key) = Cardinality(S) + 1
    BY DEF place
  <2> HIDE DEF S
  <2> QED BY <1>5, <1>8, <2>1, <2>2
<1>10. \A i \in 1..Len(index) : memcmp(index[i], key) <=> i < m
  <2>1. \A i \in 1..Len(index) : memcmp(index[i], key) <=> i \in S
    BY <1>1
  <2>2. \A i \in 1..Len(index) : i < m <=> i \in 1..m - 1
    BY <1>1, <1>5
  <2> HIDE DEF S
  <2> QED BY <1>8, <2>1, <2>2
<1> QED BY <1>5, <1>9, <1>10

\* An absent key goes in at its place, between those below and those above.
LEMMA Inserted ==
  ASSUME LawfulTypes, InOrder, NEW key \in CodesOf(type), key \notin Range(index)
  PROVE  LET t == InsertAt(index, place(key), key)
         IN  /\ t \in Seq(CodesOf(type)) /\ Len(t) = Len(index) + 1
             /\ \A i, j \in 1..Len(t) : i < j => memcmp(t[i], t[j])
             /\ {t[i] : i \in 1..Len(t)} = {index[i] : i \in 1..Len(index)} \cup {key}
<1> DEFINE S == CodesOf(type)
           n == Len(index)
           p == place(key)
           t == [j \in 1..n + 1 |-> IF j < p THEN index[j] ELSE IF j = p THEN key ELSE index[j - 1]]
<1>1. /\ n \in Nat /\ DOMAIN index = 1..n /\ index \in Seq(S)
      /\ \A i \in 1..n : index[i] \in S /\ index[i] \in Seq(Octets)
  BY Held DEF InOrder
<1>2. p \in 1..n + 1 /\ p \in Nat /\ \A i \in 1..n : memcmp(index[i], key) <=> i < p
  BY <1>1, Placed
<1>3. \A i \in 1..n : index[i] # key
  BY <1>1 DEF Range
<1>4. key \in Seq(Octets) /\ type \in Types
  BY Codes DEF InOrder
<1>5. \A i \in 1..n : i >= p => memcmp(key, index[i])
  <2>1. ASSUME NEW i \in 1..n, i >= p PROVE memcmp(key, index[i])
    <3>1. ~memcmp(index[i], key)
      BY <1>1, <1>2, <2>1
    <3> QED BY <1>1, <1>3, <1>4, <3>1, Compared
  <2> QED BY <2>1
<1>6. \A i, j \in 1..n : i < j => memcmp(index[i], index[j])
  BY DEF InOrder
<1> HIDE DEF S, n, p
<1>7. \A j \in 1..n + 1 : j < p => j \in 1..n
  BY <1>1, <1>2
<1>8. \A j \in 1..n + 1 : ~(j < p) /\ j # p => j - 1 \in 1..n /\ j - 1 >= p
  BY <1>1, <1>2
<1>9. \A j \in 1..n + 1 : t[j] = IF j < p THEN index[j] ELSE IF j = p THEN key ELSE index[j - 1]
  OBVIOUS
<1>10. t \in Seq(S) /\ Len(t) = n + 1
  <2>1. \A j \in 1..n + 1 : t[j] \in S
    BY <1>1, <1>7, <1>8, <1>9 DEF S
  <2>2. t \in [1..n + 1 -> S] /\ n + 1 \in Nat
    BY <1>1, <2>1
  <2> QED BY <2>2
<1> HIDE DEF t
<1>11. InsertAt(index, p, key) = t
  <2>1. \A j \in 1..p - 1 : t[j] = index[j]
    BY <1>1, <1>2, <1>9
  <2>2. t[p] = key
    BY <1>1, <1>2, <1>9
  <2>3. \A j \in p + 1..(n + 1) : t[j] = index[j - 1]
    BY <1>1, <1>2, <1>9
  <2>4. key \in S /\ Len(index) = n
    BY DEF S, n
  <2> QED BY <1>1, <1>2, <1>10, <2>1, <2>2, <2>3, <2>4, InsertedAt
<1>12. ASSUME NEW i \in 1..n + 1, NEW j \in 1..n + 1, i < j PROVE memcmp(t[i], t[j])
  <2>0. i \in Nat /\ j \in Nat
    BY <1>1
  <2>1. CASE j < p
    <3>1. i < p
      BY <1>2, <1>12, <2>0, <2>1
    <3>2. i \in 1..n /\ j \in 1..n
      BY <1>7, <2>1, <3>1
    <3> QED BY <1>6, <1>9, <1>12, <2>1, <3>1, <3>2
  <2>2. CASE j = p
    <3>1. i < p /\ ~(j < p)
      BY <1>2, <1>12, <2>0, <2>2
    <3> QED BY <1>2, <1>7, <1>9, <2>2, <3>1
  <2>3. CASE j > p /\ i < p
    <3>1. ~(j < p) /\ j # p /\ j - 1 \in 1..n /\ i \in 1..n /\ i < j - 1
      BY <1>1, <1>2, <2>0, <2>3
    <3> QED BY <1>6, <1>9, <2>3, <3>1
  <2>4. CASE j > p /\ i = p
    <3>1. ~(j < p) /\ j # p /\ ~(i < p)
      BY <1>2, <2>0, <2>4
    <3> QED BY <1>5, <1>8, <1>9, <2>4, <3>1
  <2>5. CASE j > p /\ i > p
    <3>1. ~(j < p) /\ j # p /\ ~(i < p) /\ i # p /\ i - 1 < j - 1
      BY <1>2, <1>12, <2>0, <2>5
    <3> QED BY <1>6, <1>8, <1>9, <3>1
  <2> QED BY <1>2, <2>0, <2>1, <2>2, <2>3, <2>4, <2>5
<1>13. {t[i] : i \in 1..n + 1} = {index[i] : i \in 1..n} \cup {key}
  <2>1. ASSUME NEW i \in 1..n + 1 PROVE t[i] \in {index[j] : j \in 1..n} \cup {key}
    BY <1>7, <1>8, <1>9
  <2>2. ASSUME NEW j \in 1..n PROVE index[j] \in {t[i] : i \in 1..n + 1}
    <3>1. CASE j < p
      <4>1. j \in 1..n + 1 /\ t[j] = index[j]
        BY <1>1, <1>9, <3>1
      <4> QED BY <4>1
    <3>2. CASE j >= p
      <4>1. j + 1 \in 1..n + 1 /\ ~(j + 1 < p) /\ j + 1 # p /\ (j + 1) - 1 = j
        BY <1>1, <1>2, <3>2
      <4>2. t[j + 1] = index[j]
        BY <1>9, <4>1
      <4> QED BY <4>1, <4>2
    <3> QED BY <1>1, <1>2, <3>1, <3>2
  <2>3. key \in {t[i] : i \in 1..n + 1}
    <3>1. t[p] = key /\ p \in 1..n + 1
      BY <1>1, <1>2, <1>9
    <3> QED BY <3>1
  <2> QED BY <2>1, <2>2, <2>3
<1>14. /\ t \in Seq(CodesOf(type)) /\ Len(t) = Len(index) + 1
       /\ \A i, j \in 1..Len(t) : i < j => memcmp(t[i], t[j])
       /\ {t[i] : i \in 1..Len(t)} = {index[i] : i \in 1..Len(index)} \cup {key}
  <2>1. t \in Seq(CodesOf(type)) /\ Len(t) = Len(index) + 1 /\ Len(t) = n + 1 /\ n = Len(index)
    BY <1>10 DEF S, n
  <2> QED BY <1>12, <1>13, <2>1
<1> QED BY <1>11, <1>14 DEF p

\* A present key is at its place, and goes from there.
LEMMA Removed ==
  ASSUME LawfulTypes, InOrder, NEW key \in Range(index)
  PROVE  LET t == RemoveAt(index, place(key))
         IN  /\ t \in Seq(CodesOf(type))
             /\ \A i, j \in 1..Len(t) : i < j => memcmp(t[i], t[j])
             /\ {t[i] : i \in 1..Len(t)} = {index[i] : i \in 1..Len(index)} \ {key}
<1> DEFINE S == CodesOf(type)
           n == Len(index)
           p == place(key)
           t == [j \in 1..n - 1 |-> IF j < p THEN index[j] ELSE index[j + 1]]
<1>1. /\ n \in Nat /\ DOMAIN index = 1..n /\ index \in Seq(S)
      /\ \A i \in 1..n : index[i] \in S /\ index[i] \in Seq(Octets)
  BY Held DEF InOrder
<1>2. PICK q \in 1..n : index[q] = key
  BY <1>1 DEF Range
<1>3. key \in S /\ key \in Seq(Octets) /\ n \in Nat
  BY <1>1, <1>2
<1>4. p \in 1..n + 1 /\ p \in Nat /\ \A i \in 1..n : memcmp(index[i], key) <=> i < p
  BY <1>1, <1>3, Placed
<1>5. \A i, j \in 1..n : i < j => memcmp(index[i], index[j])
  BY DEF InOrder
<1> HIDE DEF S, n, p
<1>6. \A i, j \in 1..n : index[i] = index[j] => i = j
  <2>1. ASSUME NEW i \in 1..n, NEW j \in 1..n, i < j PROVE index[i] # index[j]
    BY <1>1, <1>5, <2>1, Compared
  <2> QED BY <1>1, <2>1
<1>7. p = q
  <2>1. q \in Nat /\ q <= n
    BY <1>1
  <2>2. ~memcmp(index[q], key)
    BY <1>2, <1>3, Compared
  <2>3. ~(q < p)
    BY <1>4, <2>2
  <2>4. ~(p < q)
    <3>1. ASSUME p < q PROVE FALSE
      <4>1. p \in 1..n
        BY <1>1, <1>4, <2>1, <3>1
      <4>2. memcmp(index[p], key)
        BY <1>2, <1>5, <3>1, <4>1
      <4>3. p < p
        BY <1>4, <4>1, <4>2
      <4> QED BY <1>4, <4>3
    <3> QED BY <3>1
  <2> QED BY <1>4, <2>1, <2>3, <2>4
<1>8. p \in 1..n /\ index[p] = key /\ \A i \in 1..n : i # p => index[i] # key
  BY <1>2, <1>6, <1>7
<1>9. \A j \in 1..n - 1 : j \in 1..n /\ j + 1 \in 1..n /\ j \in Nat
  BY <1>1
<1>10. \A j \in 1..n - 1 : t[j] = IF j < p THEN index[j] ELSE index[j + 1]
  OBVIOUS
<1>11. t \in Seq(S) /\ Len(t) = n - 1
  <2>1. \A j \in 1..n - 1 : t[j] \in S
    BY <1>1, <1>9, <1>10
  <2>2. t \in [1..n - 1 -> S] /\ n - 1 \in Nat
    BY <1>1, <1>8, <2>1
  <2> QED BY <2>2
<1> HIDE DEF t
<1>12. RemoveAt(index, p) = t
  <2>1. \A j \in 1..p - 1 : t[j] = index[j]
    BY <1>1, <1>8, <1>10
  <2>2. \A j \in p..n - 1 : t[j] = index[j + 1]
    BY <1>1, <1>8, <1>10
  <2>3. Len(index) = n
    BY DEF n
  <2> QED BY <1>1, <1>8, <1>11, <2>1, <2>2, <2>3, RemovedAt
<1>13. ASSUME NEW i \in 1..n - 1, NEW j \in 1..n - 1, i < j PROVE memcmp(t[i], t[j])
  <2>1. i \in Nat /\ j \in Nat /\ i \in 1..n /\ j \in 1..n /\ i + 1 \in 1..n /\ j + 1 \in 1..n
    BY <1>9
  <2>2. CASE j < p
    <3>1. i < p
      BY <1>4, <1>13, <2>1, <2>2
    <3> QED BY <1>5, <1>10, <1>13, <2>1, <2>2, <3>1
  <2>3. CASE ~(j < p) /\ i < p
    <3>1. i < j + 1
      BY <1>13, <2>1
    <3> QED BY <1>5, <1>10, <2>1, <2>3, <3>1
  <2>4. CASE ~(j < p) /\ ~(i < p)
    <3>1. i + 1 < j + 1
      BY <1>13, <2>1
    <3> QED BY <1>5, <1>10, <2>1, <2>4, <3>1
  <2> QED BY <2>2, <2>3, <2>4
<1>14. {t[i] : i \in 1..n - 1} = {index[i] : i \in 1..n} \ {key}
  <2>1. ASSUME NEW i \in 1..n - 1 PROVE t[i] \in {index[j] : j \in 1..n} \ {key}
    <3>1. CASE i < p
      BY <1>4, <1>8, <1>9, <1>10, <3>1
    <3>2. CASE ~(i < p)
      <4>1. i + 1 \in 1..n /\ i + 1 # p
        BY <1>4, <1>9, <3>2
      <4> QED BY <1>8, <1>10, <3>2, <4>1
    <3> QED BY <3>1, <3>2
  <2>2. ASSUME NEW j \in 1..n, index[j] # key PROVE index[j] \in {t[i] : i \in 1..n - 1}
    <3>1. CASE j < p
      <4>1. j \in 1..n - 1 /\ t[j] = index[j]
        BY <1>1, <1>8, <1>10, <3>1
      <4> QED BY <4>1
    <3>2. CASE j > p
      <4>1. j - 1 \in 1..n - 1 /\ ~(j - 1 < p) /\ (j - 1) + 1 = j
        BY <1>1, <1>4, <1>8, <3>2
      <4>2. t[j - 1] = index[j]
        BY <1>10, <4>1
      <4> QED BY <4>1, <4>2
    <3>3. j # p
      BY <1>8, <2>2
    <3> QED BY <1>1, <1>4, <3>1, <3>2, <3>3
  <2> QED BY <2>1, <2>2
<1>15. /\ t \in Seq(CodesOf(type))
       /\ \A i, j \in 1..Len(t) : i < j => memcmp(t[i], t[j])
       /\ {t[i] : i \in 1..Len(t)} = {index[i] : i \in 1..Len(index)} \ {key}
  <2>1. t \in Seq(CodesOf(type)) /\ Len(t) = n - 1 /\ n = Len(index)
    BY <1>11 DEF S, n
  <2> QED BY <1>13, <1>14, <2>1
<1> QED BY <1>12, <1>15 DEF p

----------------------------------------------------------------------------
(* The calls.                                                              *)

\* The keys the index stands for, of an index and of the one there is.
KeysIn(t) == {Decoded[type][t[i]].value : i \in DOMAIN t}
KeysHeld == KeysIn(index)

\* An index stands for a key exactly when it holds its encoding.
LEMMA KeysAre ==
  ASSUME LawfulTypes, type \in Types, NEW t \in Seq(CodesOf(type))
  PROVE  /\ DOMAIN t = 1..Len(t) /\ Len(t) \in Nat
         /\ \A v : v \in KeysIn(t) <=> v \in Values[type] /\ Encoded[type][v].value \in Range(t)
<1>1. /\ DOMAIN t = 1..Len(t) /\ Len(t) \in Nat
      /\ \A i \in 1..Len(t) : t[i] \in CodesOf(type)
  BY LenProperties, ElementOfSeq
<1>2. \A i \in DOMAIN t : /\ Decoded[type][t[i]].value \in Values[type]
                          /\ Encoded[type][Decoded[type][t[i]].value].value = t[i]
  BY <1>1, Codes DEF KeyOf
<1>3. \A v \in Values[type] : Decoded[type][Encoded[type][v].value].value = v
  BY Codes DEF KeyOf
<1>4. ASSUME NEW v \in KeysIn(t) PROVE v \in Values[type] /\ Encoded[type][v].value \in Range(t)
  <2>1. PICK i \in DOMAIN t : v = Decoded[type][t[i]].value
    BY DEF KeysIn
  <2> QED BY <1>2, <2>1 DEF Range
<1>5. ASSUME NEW v \in Values[type], Encoded[type][v].value \in Range(t) PROVE v \in KeysIn(t)
  <2>1. PICK i \in DOMAIN t : Encoded[type][v].value = t[i]
    BY <1>5 DEF Range
  <2> QED BY <1>3, <2>1 DEF KeysIn
<1> QED BY <1>1, <1>4, <1>5

\* An index stands for no more keys than it has places.
LEMMA KeyCount ==
  ASSUME LawfulTypes, type \in Types, NEW t \in Seq(CodesOf(type))
  PROVE  Cardinality(KeysIn(t)) \in Nat /\ Cardinality(KeysIn(t)) <= Len(t)
<1> DEFINE f == [i \in 1..Len(t) |-> Decoded[type][t[i]].value]
<1>1. DOMAIN t = 1..Len(t) /\ Len(t) \in Nat
  BY KeysAre
<1>2. f \in [1..Len(t) -> KeysIn(t)]
  BY <1>1 DEF KeysIn
<1>3. \A v \in KeysIn(t) : \E i \in 1..Len(t) : f[i] = v
  BY <1>1 DEF KeysIn
<1>4. IsFiniteSet(1..Len(t)) /\ Cardinality(1..Len(t)) = Len(t)
  <2>1. 1 \in Int /\ Len(t) \in Int
    BY <1>1
  <2>2. /\ IsFiniteSet(1..Len(t))
        /\ Cardinality(1..Len(t)) = IF 1 > Len(t) THEN 0 ELSE Len(t) - 1 + 1
    BY <2>1, FS_Interval
  <2> QED BY <1>1, <2>2
<1> HIDE DEF f
<1>5. f \in Surjection(1..Len(t), KeysIn(t))
  BY <1>2, <1>3 DEF Surjection
<1>6. IsFiniteSet(KeysIn(t)) /\ Cardinality(KeysIn(t)) <= Cardinality(1..Len(t))
  BY <1>4, <1>5, FS_Surjection
<1> QED BY <1>4, <1>6, FS_CardinalityType

\* The abstract operators are those of this module.
LEMMA SameWords ==
  /\ \A S : Abstract!Cardinality(S) = Cardinality(S)
  /\ \A s : Abstract!Range(s) = Range(s)
  /\ \A on, res : Abstract!Says(on, res) = Says(on, res)
  /\ \A on, items : Abstract!Gives(on, items) = Gives(on, items)
<1>1. \A S : Abstract!Cardinality(S) = Cardinality(S)
  BY DEF Abstract!Cardinality, Cardinality
<1>2. \A s : Abstract!Range(s) = Range(s)
  BY DEF Abstract!Range, Range
<1>3. /\ \A on, res : Abstract!Says(on, res) = Says(on, res)
      /\ \A on, items : Abstract!Gives(on, items) = Gives(on, items)
  BY DEF Abstract!Says, Says, Abstract!Gives, Gives
<1> QED BY <1>1, <1>2, <1>3

\* An insertion adds its key, whether it was there or not.
LEMMA InsertStep ==
  ASSUME LawfulTypes, InOrder, NEW v \in Values[type], Insert(v)
  PROVE  InOrder' /\ ret'.on = <<v>> /\ Abstract!Insert(v)
<1> DEFINE key == Encoded[type][v].value
           t == InsertAt(index, place(key), key)
<1>1. type \in Types /\ index \in Seq(CodesOf(type)) /\ key \in CodesOf(type)
      /\ Encoded[type][v].res = "ok"
  BY Codes DEF InOrder
<1>2. /\ ret' = Says(<<v>>, "ok") /\ type' = type
      /\ index' = (IF key \in Range(index) THEN index ELSE t)
      /\ Len(index') <= MaxKeys
  BY <1>1 DEF Insert, key_buf
<1>3. /\ index' \in Seq(CodesOf(type))
      /\ \A i, j \in 1..Len(index') : i < j => memcmp(index'[i], index'[j])
      /\ Range(index') = Range(index) \cup {key}
  <2>1. CASE key \in Range(index)
    BY <1>1, <1>2, <2>1 DEF InOrder
  <2>2. CASE key \notin Range(index)
    <3> HIDE DEF key
    <3>1. /\ t \in Seq(CodesOf(type))
          /\ \A i, j \in 1..Len(t) : i < j => memcmp(t[i], t[j])
          /\ {t[i] : i \in 1..Len(t)} = {index[i] : i \in 1..Len(index)} \cup {key}
      BY <1>1, <2>2, Inserted
    <3> HIDE DEF t
    <3>2. \A s \in Seq(CodesOf(type)) : Range(s) = {s[i] : i \in 1..Len(s)}
      BY LenProperties DEF Range
    <3> QED BY <1>1, <1>2, <2>2, <3>1, <3>2
  <2> QED BY <2>1, <2>2
<1> HIDE DEF t
<1>4. InOrder'
  <2>1. ret'.res = "ok"
    BY <1>2 DEF Says
  <2>2. CodesOf(type)' = CodesOf(type)
    BY <1>2 DEF CodesOf
  <2>3. (\A i, j \in 1..Len(index) : i < j => memcmp(index[i], index[j]))'
    BY <1>3 DEF memcmp
  <2> QED BY <1>1, <1>2, <1>3, <2>1, <2>2, <2>3 DEF InOrder
<1>5. KeysIn(index') = KeysHeld \cup {v}
  <2>1. \A w : w \in KeysIn(index') <=>
          w \in Values[type] /\ Encoded[type][w].value \in Range(index')
    BY <1>1, <1>3, KeysAre
  <2>2. \A w : w \in KeysHeld <=>
          w \in Values[type] /\ Encoded[type][w].value \in Range(index)
    BY <1>1, KeysAre DEF KeysHeld
  <2>3. \A w \in Values[type] : Encoded[type][w].value = key => w = v
    <3>1. \A w \in Values[type] : KeyOf(type, Encoded[type][w].value) = w
      BY <1>1, Codes
    <3> QED BY <3>1
  <2> QED BY <1>3, <2>1, <2>2, <2>3
<1>6. Cardinality(KeysIn(index')) <= MaxKeys
  <2>1. /\ Cardinality(KeysIn(index')) \in Nat /\ Cardinality(KeysIn(index')) <= Len(index')
        /\ Len(index') \in Nat
    BY <1>1, <1>3, KeyCount, KeysAre
  <2> QED BY <1>2, <2>1, IndexAssumption
<1>7. KeysHeld' = KeysIn(index')
  BY <1>2 DEF KeysHeld, KeysIn
<1>8. ret'.on = <<v>>
  BY <1>2 DEF Says
<1>9. Abstract!Insert(v)
  <2>1. KeysHeld' = KeysHeld \cup {v} /\ Cardinality(KeysHeld') <= MaxKeys
    BY <1>5, <1>6, <1>7
  <2> QED BY <1>2, <2>1, SameWords DEF Abstract!Insert, KeysHeld, KeysIn
<1> QED BY <1>4, <1>8, <1>9

\* A deletion takes its key away, if it was there.
LEMMA DeleteStep ==
  ASSUME LawfulTypes, InOrder, NEW v \in Values[type], Delete(v)
  PROVE  InOrder' /\ ret'.on = <<v>> /\ Abstract!Delete(v)
<1> DEFINE key == Encoded[type][v].value
           t == RemoveAt(index, place(key))
<1>1. type \in Types /\ index \in Seq(CodesOf(type)) /\ key \in CodesOf(type)
  BY Codes DEF InOrder
<1>2. /\ type' = type
      /\ index' = (IF key \in Range(index) THEN t ELSE index)
      /\ ret' = Says(<<v>>, IF key \in Range(index) THEN "ok" ELSE "absent")
  BY DEF Delete, key_buf
<1>3. /\ index' \in Seq(CodesOf(type))
      /\ \A i, j \in 1..Len(index') : i < j => memcmp(index'[i], index'[j])
      /\ Range(index') = Range(index) \ {key}
  <2>1. CASE key \notin Range(index)
    BY <1>1, <1>2, <2>1 DEF InOrder
  <2>2. CASE key \in Range(index)
    <3> HIDE DEF key
    <3>1. /\ t \in Seq(CodesOf(type))
          /\ \A i, j \in 1..Len(t) : i < j => memcmp(t[i], t[j])
          /\ {t[i] : i \in 1..Len(t)} = {index[i] : i \in 1..Len(index)} \ {key}
      BY <2>2, Removed
    <3> HIDE DEF t
    <3>2. \A s \in Seq(CodesOf(type)) : Range(s) = {s[i] : i \in 1..Len(s)}
      BY LenProperties DEF Range
    <3> QED BY <1>1, <1>2, <2>2, <3>1, <3>2
  <2> QED BY <2>1, <2>2
<1> HIDE DEF t
<1>4. InOrder'
  <2>1. ret'.res \in {"ok", "absent"}
    BY <1>2 DEF Says
  <2>2. CodesOf(type)' = CodesOf(type)
    BY <1>2 DEF CodesOf
  <2>3. (\A i, j \in 1..Len(index) : i < j => memcmp(index[i], index[j]))'
    BY <1>3 DEF memcmp
  <2> QED BY <1>1, <1>2, <1>3, <2>1, <2>2, <2>3 DEF InOrder
<1>5. \A w : w \in KeysHeld <=>
        w \in Values[type] /\ Encoded[type][w].value \in Range(index)
  BY <1>1, KeysAre DEF KeysHeld
<1>6. KeysIn(index') = KeysHeld \ {v}
  <2>1. \A w : w \in KeysIn(index') <=>
          w \in Values[type] /\ Encoded[type][w].value \in Range(index')
    BY <1>1, <1>3, KeysAre
  <2>2. \A w \in Values[type] : Encoded[type][w].value = key => w = v
    <3>1. \A w \in Values[type] : KeyOf(type, Encoded[type][w].value) = w
      BY <1>1, Codes
    <3> QED BY <3>1
  <2> QED BY <1>3, <1>5, <2>1, <2>2
<1>7. KeysHeld' = KeysIn(index')
  BY <1>2 DEF KeysHeld, KeysIn
<1>8. ret'.on = <<v>>
  BY <1>2 DEF Says
<1>9. ret' = Says(<<v>>, IF v \in KeysHeld THEN "ok" ELSE "absent")
  BY <1>2, <1>5
<1>10. Abstract!Delete(v)
  <2>1. KeysHeld' = KeysHeld \ {v}
    BY <1>6, <1>7
  <2> QED BY <1>2, <1>9, <2>1, SameWords DEF Abstract!Delete, KeysHeld, KeysIn
<1> QED BY <1>4, <1>8, <1>10

\* A key stored as a value comes back as it was.
LEMMA RelateStep ==
  ASSUME LawfulTypes, InOrder, NEW v \in Values[type], Relate(v)
  PROVE  InOrder' /\ ret'.on = <<v>> /\ Abstract!Relate(v)
<1>1. type \in Types /\ Encoded[type][v].res = "ok"
      /\ Decoded[type][Encoded[type][v].value].res = "ok"
      /\ Decoded[type][Encoded[type][v].value].value = v
  BY Codes DEF InOrder, KeyOf
<1>2. ret' = Gives(<<v>>, <<v>>) /\ type' = type /\ index' = index
  BY <1>1 DEF Relate, key_buf
<1>3. InOrder'
  BY <1>2 DEF InOrder, Gives, CodesOf, memcmp
<1>4. KeysHeld' = KeysHeld
  BY <1>2 DEF KeysHeld, KeysIn
<1>5. Abstract!Relate(v)
  BY <1>2, <1>4, SameWords DEF Abstract!Relate, KeysHeld, KeysIn
<1>6. ret'.on = <<v>>
  BY <1>2 DEF Gives
<1> QED BY <1>3, <1>5, <1>6

\* A scan gives the keys from its bound on, in their own order.
LEMMA ScanStep ==
  ASSUME LawfulTypes, InOrder, NEW lo \in Values[type], Scan(lo)
  PROVE  InOrder' /\ ret'.on = <<lo>> /\ Abstract!Scan(lo)
<1> DEFINE from == Encoded[type][lo].value
           n == Len(index)
           p == place(from)
           found == SubSeq(index, p, n)
           rows == [i \in DOMAIN found |-> Decoded[type][found[i]]]
           items == [i \in DOMAIN rows |-> rows[i].value]
<1>1. /\ type \in Types /\ from \in CodesOf(type)
      /\ KeyOf(type, from) = lo
  BY Codes DEF InOrder
<1>2. /\ n \in Nat /\ DOMAIN index = 1..n
      /\ \A i \in 1..n : index[i] \in CodesOf(type)
  BY Held
<1>3. p \in 1..n + 1 /\ \A i \in 1..n : memcmp(index[i], from) <=> i < p
  <2> HIDE DEF from
  <2> QED BY <1>1, Placed
<1>4. /\ type' = type /\ index' = index
      /\ ret' = IF \E i \in DOMAIN rows : rows[i].res # "ok"
                THEN Says(<<lo>>, "decode_failed") ELSE Gives(<<lo>>, items)
  BY DEF Scan, key_buf
<1> HIDE DEF from, n, p
<1>5. /\ DOMAIN found = 1..(n + 1) - p
      /\ \A i \in 1..(n + 1) - p : found[i] = index[(p + i) - 1] /\ (p + i) - 1 \in 1..n
  <2>1. \A i \in p..n : index[i] \in CodesOf(type)
    BY <1>2, <1>3
  <2>2. p \in Int /\ n \in Int
    BY <1>2, <1>3
  <2>3. /\ found \in Seq(CodesOf(type))
        /\ Len(found) = IF p <= n THEN (n - p) + 1 ELSE 0
        /\ \A i \in 1..(n - p) + 1 : found[i] = index[(p + i) - 1]
    BY <2>1, <2>2, SubSeqProperties
  <2>4. Len(found) = (n + 1) - p /\ (n - p) + 1 = (n + 1) - p
    BY <1>2, <1>3, <2>3
  <2>5. DOMAIN found = 1..Len(found)
    BY <2>3, LenProperties
  <2>6. \A i \in 1..(n + 1) - p : (p + i) - 1 \in 1..n
    BY <1>2, <1>3
  <2> HIDE DEF found
  <2> QED BY <2>3, <2>4, <2>5, <2>6
<1> HIDE DEF found
<1>6. /\ DOMAIN rows = 1..(n + 1) - p
      /\ \A i \in 1..(n + 1) - p : rows[i] = Decoded[type][index[(p + i) - 1]]
  BY <1>5
<1> HIDE DEF rows
<1>7. /\ DOMAIN items = 1..(n + 1) - p
      /\ \A i \in 1..(n + 1) - p : items[i] = KeyOf(type, index[(p + i) - 1])
  BY <1>6 DEF KeyOf
<1> HIDE DEF items
<1>8. \A i \in DOMAIN rows : rows[i].res = "ok"
  BY <1>1, <1>2, <1>5, <1>6, Codes
<1>9. ret' = Gives(<<lo>>, items) /\ ret'.items = items /\ ret'.on = <<lo>> /\ ret'.res = "ok"
  BY <1>4, <1>8 DEF Gives
<1>10. InOrder'
  BY <1>4, <1>9 DEF InOrder, CodesOf, memcmp
<1>11. Range(items) = {v \in KeysHeld : ~Before(type, v, lo)}
  <2>1. \A i \in 1..n : i >= p <=> ~Before(type, KeyOf(type, index[i]), lo)
    <3>1. \A i \in 1..n : memcmp(index[i], from) <=> Before(type, KeyOf(type, index[i]), lo)
      BY <1>1, <1>2, Codes
    <3> QED BY <1>2, <1>3, <3>1
  <2>2. KeysHeld = {KeyOf(type, index[i]) : i \in 1..n}
    BY <1>2 DEF KeysHeld, KeysIn, KeyOf
  <2>3. ASSUME NEW i \in 1..(n + 1) - p
        PROVE  items[i] \in KeysHeld /\ ~Before(type, items[i], lo)
    <3> DEFINE j == (p + i) - 1
    <3>1. j \in 1..n /\ j >= p
      BY <1>2, <1>3
    <3>2. items[i] = KeyOf(type, index[j])
      BY <1>7
    <3> HIDE DEF j
    <3> QED BY <2>1, <2>2, <3>1, <3>2
  <2>4. ASSUME NEW v \in KeysHeld, ~Before(type, v, lo) PROVE v \in Range(items)
    <3>1. PICK j \in 1..n : v = KeyOf(type, index[j])
      BY <2>2
    <3>2. j >= p
      BY <2>1, <2>4, <3>1
    <3> DEFINE i == (j - p) + 1
    <3>3. i \in 1..(n + 1) - p /\ (p + i) - 1 = j
      BY <1>2, <1>3, <3>2
    <3> HIDE DEF i
    <3>4. items[i] = v
      BY <1>7, <3>1, <3>3
    <3> QED BY <1>7, <3>3, <3>4 DEF Range
  <2>5. Range(items) = {items[i] : i \in 1..(n + 1) - p}
    BY <1>7 DEF Range
  <2> HIDE DEF KeysHeld
  <2> QED BY <2>3, <2>4, <2>5
<1>12. ASSUME NEW i \in DOMAIN items, NEW j \in DOMAIN items, i < j
       PROVE  Before(type, items[i], items[j])
  <2> DEFINE k == (p + i) - 1
             l == (p + j) - 1
  <2>1. k \in 1..n /\ l \in 1..n /\ k < l
    BY <1>2, <1>3, <1>7, <1>12
  <2>2. items[i] = KeyOf(type, index[k]) /\ items[j] = KeyOf(type, index[l])
    BY <1>7
  <2> HIDE DEF k, l
  <2>3. memcmp(index[k], index[l])
    BY <2>1 DEF InOrder, n
  <2>4. index[k] \in CodesOf(type) /\ index[l] \in CodesOf(type)
    BY <1>2, <2>1
  <2> QED BY <1>1, <2>2, <2>3, <2>4, Codes
<1>13. KeysHeld' = KeysHeld
  BY <1>4 DEF KeysHeld, KeysIn
<1>14. Abstract!Scan(lo)
  <2>1. /\ ret' = Gives(<<lo>>, ret'.items)
        /\ Range(ret'.items) = {v \in KeysHeld : ~Before(type, v, lo)}
        /\ \A i, j \in DOMAIN ret'.items : i < j => Before(type, ret'.items[i], ret'.items[j])
    BY <1>9, <1>11, <1>12
  <2> QED BY <1>4, <1>13, <2>1, SameWords DEF Abstract!Scan, KeysHeld, KeysIn
<1> QED BY <1>9, <1>10, <1>14

----------------------------------------------------------------------------
(* Theorems.                                                               *)

\* The index starts empty.
LEMMA InitStep == Init => InOrder /\ Abstract!Init
<1> SUFFICES ASSUME Init PROVE InOrder /\ Abstract!Init
  OBVIOUS
<1>1. InOrder
  BY DEF Init, InOrder, Says
<1>2. {Decoded[type][index[i]].value : i \in DOMAIN index} = {}
  BY DEF Init
<1> QED BY <1>1, <1>2, SameWords DEF Init, Abstract!Init

\* Every call keeps the index in order and is the abstract call.
LEMMA NextStep ==
  ASSUME LawfulTypes, InOrder, [Next]_vars
  PROVE  InOrder' /\ [Abstract!Next]_(Abstract!vars)
<1>1. CASE Next
  <2>1. PICK v \in Values[type] : Insert(v) \/ Delete(v) \/ Scan(v) \/ Relate(v)
    BY <1>1 DEF Next
  <2>2. InOrder' /\ ret'.on = <<v>>
    BY <2>1, InsertStep, DeleteStep, ScanStep, RelateStep
  <2>3. Abstract!Insert(v) \/ Abstract!Delete(v) \/ Abstract!Scan(v) \/ Abstract!Relate(v)
    BY <2>1, InsertStep, DeleteStep, ScanStep, RelateStep
  <2> QED BY <2>2, <2>3 DEF Abstract!Next
<1>2. CASE UNCHANGED vars
  <2>1. type' = type /\ index' = index /\ ret' = ret
    BY <1>2 DEF vars
  <2>2. InOrder'
    BY <2>1 DEF InOrder, CodesOf, memcmp
  <2>3. UNCHANGED Abstract!vars
    BY <2>1 DEF Abstract!vars
  <2> QED BY <2>2, <2>3
<1> QED BY <1>1, <1>2

\* For lawful encodings the index always holds encodings of keys of its type
\* in ascending order, and no call is refused.
THEOREM AlwaysInOrder ==
  ASSUME LawfulTypes
  PROVE  Spec => []InOrder
<1>1. InOrder /\ [Next]_vars => InOrder'
  BY NextStep
<1> QED BY <1>1, InitStep, PTL DEF Spec

\* For every lawful encoding, type and number of keys: the index holds byte
\* strings that fit their buffer, strictly ascending.
THEOREM TypeCorrect ==
  ASSUME LawfulTypes
  PROVE  Spec => []TypeOK
<1>1. InOrder => TypeOK
  <2> SUFFICES ASSUME InOrder PROVE TypeOK
    OBVIOUS
  <2>1. /\ DOMAIN index = 1..Len(index)
        /\ \A i \in 1..Len(index) : index[i] \in CodesOf(type)
    BY Held
  <2>2. \A b \in CodesOf(type) : b \in Seq(Octets) /\ Len(b) <= MaxLen(type)
    BY Codes DEF InOrder
  <2> QED BY <2>1, <2>2 DEF TypeOK, InOrder
<1> QED BY <1>1, AlwaysInOrder, PTL

\* For every lawful encoding: no call is refused for room in a key buffer.
THEOREM KeysAlwaysFit ==
  ASSUME LawfulTypes
  PROVE  Spec => []KeysFit
<1>1. InOrder => KeysFit
  BY DEF InOrder, KeysFit
<1> QED BY <1>1, AlwaysInOrder, PTL

\* For every lawful encoding: comparing bytes and decoding what a scan finds
\* is a set of typed keys and their own order, call by call.
THEOREM BytesStandForKeys ==
  ASSUME LawfulTypes
  PROVE  Spec => ImplementsSortedKeys
<1>1. Init => Abstract!Init
  BY InitStep
<1>2. InOrder /\ [Next]_vars => [Abstract!Next]_(Abstract!vars)
  BY NextStep
<1> QED BY <1>1, <1>2, AlwaysInOrder, PTL DEF Spec, ImplementsSortedKeys, Abstract!Spec
=============================================================================
