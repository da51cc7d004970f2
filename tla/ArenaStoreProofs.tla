-------------------------- MODULE ArenaStoreProofs --------------------------
(***************************************************************************)
(* For every region, every set of tables, keys and values: the slabs of    *)
(* the arena backend stay sorted and within capacity, plain tables keep    *)
(* one record per key, and a refused call stages nothing.  The second half *)
(* shows that the arena backend implements the abstract store, for every   *)
(* region whose halves are equal: the sorted slab is the set of its        *)
(* records, and each call of the arena is the abstract store's call of     *)
(* that name with the same arguments.                                      *)
(***************************************************************************)
EXTENDS ArenaStore, TLAPS, WellFoundedInduction, SequenceTheorems, FiniteSetTheorems

\* What each slab satisfies by itself.
GoodSlab(s) ==
  /\ s \in Seq(Record)
  /\ Sorted(s)
  /\ OnePerKey(s)
  /\ Len(s) <= capacity_for(half)

----------------------------------------------------------------------------
(* First indices.                                                          *)

\* A set of natural numbers that is not empty has a least element, Min.
LEMMA LeastNatural ==
  ASSUME NEW T \in SUBSET Nat, T # {}
  PROVE  Min(T) \in T /\ \A y \in T : Min(T) <= y
<1> DEFINE R == {ss \in Nat \X Nat : ss[1] < ss[2]}
<1>1. IsWellFoundedOn(R, Nat)
  BY NatLessThanWellFounded DEF OpToRel
<1> HIDE DEF R
<1>2. PICK x \in T : \A y \in T : ~ (<<y, x>> \in R)
  BY <1>1, WFMin
<1>3. ASSUME NEW y \in T PROVE x <= y
  <2>1. x \in Nat /\ y \in Nat
    OBVIOUS
  <2>2. ~(y < x)
    BY <1>2, <2>1 DEF R
  <2> QED BY <2>1, <2>2
<1>4. \E z \in T : \A y \in T : z <= y
  BY <1>3
<1> QED BY <1>4, Zenon DEF Min

\* FirstIndex is the least index of the set, or the one past the slab.
LEMMA FirstIndexIsLeast ==
  ASSUME NEW s, NEW I, Len(s) \in Nat, I \subseteq 1..Len(s)
  PROVE  /\ FirstIndex(s, I) \in I \cup {Len(s) + 1}
         /\ FirstIndex(s, I) \in 1..Len(s) + 1
         /\ \A i \in I : FirstIndex(s, I) <= i
<1> DEFINE T == I \cup {Len(s) + 1}
<1>1. T \in SUBSET Nat
  <2>1. ASSUME NEW i \in T PROVE i \in Nat
    <3>1. CASE i \in I
      BY <3>1
    <3>2. CASE i = Len(s) + 1
      BY <3>2
    <3> QED BY <3>1, <3>2
  <2>2. \A i \in T : i \in Nat
    BY <2>1
  <2> HIDE DEF T
  <2> QED BY <2>2
<1>2. T # {}
  OBVIOUS
<1>3. Min(T) \in T /\ \A y \in T : Min(T) <= y
  BY <1>1, <1>2, LeastNatural
<1>4. FirstIndex(s, I) = Min(T)
  BY DEF FirstIndex
<1>5. Min(T) \in 1..Len(s) + 1
  <2>1. ASSUME NEW x \in T PROVE x \in 1..Len(s) + 1
    OBVIOUS
  <2> HIDE DEF T
  <2> QED BY <1>3, <2>1
<1> HIDE DEF T
<1>6. I \subseteq T
  BY DEF T
<1> QED BY <1>3, <1>4, <1>5, <1>6 DEF T

\* lower_bound splits the slab where the (name, key) prefix stops being less.
LEMMA LowerBound ==
  ASSUME NEW s, Len(s) \in Nat, NEW n, NEW k
  PROVE  /\ lower_bound(s, n, k) \in 1..Len(s) + 1
         /\ lower_bound(s, n, k) <= Len(s) => ~BeforeKey(s[lower_bound(s, n, k)], n, k)
         /\ \A m \in 1..lower_bound(s, n, k) - 1 : BeforeKey(s[m], n, k)
<1> DEFINE I == {i \in 1..Len(s) : ~BeforeKey(s[i], n, k)}
           lb == lower_bound(s, n, k)
<1>1. /\ lb \in I \cup {Len(s) + 1}
      /\ lb \in 1..Len(s) + 1
      /\ \A i \in I : lb <= i
  BY FirstIndexIsLeast DEF lower_bound
<1> HIDE DEF lb
<1>2. lb <= Len(s) => lb \in I
  BY <1>1
<1>3. \A m \in 1..lb - 1 : m \in 1..Len(s) /\ m \notin I
  BY <1>1
<1>4. /\ lb <= Len(s) => ~BeforeKey(s[lb], n, k)
      /\ \A m \in 1..lb - 1 : BeforeKey(s[m], n, k)
  BY <1>2, <1>3
<1> QED BY <1>1, <1>4 DEF lb

\* The same for the full (name, key, value) order.
LEMMA LowerBoundFull ==
  ASSUME NEW s, Len(s) \in Nat, NEW n, NEW k, NEW v
  PROVE  /\ lower_bound_full(s, n, k, v) \in 1..Len(s) + 1
         /\ lower_bound_full(s, n, k, v) <= Len(s)
              => ~BeforeFull(s[lower_bound_full(s, n, k, v)], n, k, v)
         /\ \A m \in 1..lower_bound_full(s, n, k, v) - 1 : BeforeFull(s[m], n, k, v)
<1> DEFINE I == {i \in 1..Len(s) : ~BeforeFull(s[i], n, k, v)}
           lb == lower_bound_full(s, n, k, v)
<1>1. /\ lb \in I \cup {Len(s) + 1}
      /\ lb \in 1..Len(s) + 1
      /\ \A i \in I : lb <= i
  BY FirstIndexIsLeast DEF lower_bound_full
<1> HIDE DEF lb
<1>2. lb <= Len(s) => lb \in I
  BY <1>1
<1>3. \A m \in 1..lb - 1 : m \in 1..Len(s) /\ m \notin I
  BY <1>1
<1>4. /\ lb <= Len(s) => ~BeforeFull(s[lb], n, k, v)
      /\ \A m \in 1..lb - 1 : BeforeFull(s[m], n, k, v)
  BY <1>2, <1>3
<1> QED BY <1>1, <1>4 DEF lb

----------------------------------------------------------------------------
(* The order of records, and what insertion and removal leave.             *)

LEMMA RecordFields ==
  ASSUME NEW r \in Record
  PROVE  r.name \in Nat /\ r.key \in Nat /\ r.val \in Nat
BY ArenaAssumption DEF Record, Names

\* The record order is transitive and irreflexive.
LEMMA RecordOrder ==
  ASSUME NEW r \in Record, NEW t \in Record, NEW u \in Record
  PROVE  /\ RecordBefore(r, t) /\ RecordBefore(t, u) => RecordBefore(r, u)
         /\ ~RecordBefore(r, r)
<1>1. /\ r.name \in Nat /\ r.key \in Nat /\ r.val \in Nat
      /\ t.name \in Nat /\ t.key \in Nat /\ t.val \in Nat
      /\ u.name \in Nat /\ u.key \in Nat /\ u.val \in Nat
  BY RecordFields
<1> QED BY <1>1 DEF RecordBefore, BeforeFull, BeforeKey

\* What lies at or after a record that is not before a key's records is not
\* before them either, and when that record is not among them, neither is it.
LEMMA NotBefore ==
  ASSUME NEW r \in Record, NEW t \in Record, NEW n \in Nat, NEW k \in Nat,
         r = t \/ RecordBefore(r, t),
         ~BeforeKey(r, n, k)
  PROVE  ~BeforeKey(t, n, k) /\ (~IsAt(r, n, k) => ~IsAt(t, n, k))
<1>1. /\ r.name \in Nat /\ r.key \in Nat /\ r.val \in Nat
      /\ t.name \in Nat /\ t.key \in Nat /\ t.val \in Nat
  BY RecordFields
<1> QED BY <1>1 DEF RecordBefore, BeforeFull, BeforeKey, IsAt

\* Removing a run of d records leaves a sorted slab of the other records.
LEMMA CutRecords ==
  ASSUME NEW s \in Seq(Record), NEW i \in 1..Len(s) + 1, NEW d \in Nat,
         i + d <= Len(s) + 1
  PROVE  /\ Cut(s, i, d) \in Seq(Record)
         /\ Len(Cut(s, i, d)) = Len(s) - d
         /\ \A j \in 1..Len(s) - d :
              Cut(s, i, d)[j] = IF j < i THEN s[j] ELSE s[j + d]
<1> DEFINE c == Cut(s, i, d)
<1>0. /\ Len(s) \in Nat
      /\ Len(s) - d \in Nat
      /\ \A j \in 1..Len(s) : s[j] \in Record
  OBVIOUS
<1>1. c = [j \in 1..Len(s) - d |-> IF j < i THEN s[j] ELSE s[j + d]]
  BY DEF Cut
<1> HIDE DEF c
<1>2. ASSUME NEW j \in 1..Len(s) - d
      PROVE  (IF j < i THEN s[j] ELSE s[j + d]) \in Record
  <2>1. j \in 1..Len(s) /\ j + d \in 1..Len(s)
    OBVIOUS
  <2> QED BY <1>0, <2>1
<1>3. c \in [1..Len(s) - d -> Record]
  BY <1>1, <1>2
<1>4. c \in Seq(Record)
  BY <1>0, <1>3
<1>5. Len(c) = Len(s) - d
  BY <1>0, <1>1, <1>4
<1> QED BY <1>1, <1>4, <1>5 DEF c

LEMMA CutGood ==
  ASSUME NEW s \in Seq(Record), NEW i \in 1..Len(s) + 1, NEW d \in Nat,
         i + d <= Len(s) + 1, Sorted(s), OnePerKey(s)
  PROVE  Sorted(Cut(s, i, d)) /\ OnePerKey(Cut(s, i, d))
<1> DEFINE c == Cut(s, i, d)
           at(j) == IF j < i THEN j ELSE j + d
<1>1. /\ Len(c) = Len(s) - d
      /\ \A j \in 1..Len(s) - d : c[j] = IF j < i THEN s[j] ELSE s[j + d]
  BY CutRecords
<1> HIDE DEF c
<1>2. \A j \in 1..Len(c) : c[j] = s[at(j)] /\ at(j) \in 1..Len(s)
  BY <1>1
<1>3. \A j, m \in 1..Len(c) : j < m => at(j) < at(m)
  BY <1>1
<1>4. \A j, m \in 1..Len(c) : at(j) = at(m) => j = m
  BY <1>1
<1> HIDE DEF at
<1>5. Sorted(c)
  BY <1>2, <1>3 DEF Sorted
<1>6. OnePerKey(c)
  BY <1>2, <1>4 DEF OnePerKey
<1> QED BY <1>5, <1>6 DEF c

\* Inserting a record between the records before it and those after it.
LEMMA InsertRecords ==
  ASSUME NEW s \in Seq(Record), NEW i \in 1..Len(s) + 1, NEW r \in Record
  PROVE  /\ InsertRecord(s, i, r) \in Seq(Record)
         /\ Len(InsertRecord(s, i, r)) = Len(s) + 1
         /\ \A j \in 1..Len(s) + 1 :
              InsertRecord(s, i, r)[j] =
                IF j < i THEN s[j] ELSE IF j = i THEN r ELSE s[j - 1]
<1> DEFINE c == InsertRecord(s, i, r)
<1>0. /\ Len(s) \in Nat
      /\ Len(s) + 1 \in Nat
      /\ \A j \in 1..Len(s) : s[j] \in Record
  OBVIOUS
<1>1. c = [j \in 1..Len(s) + 1 |->
             IF j < i THEN s[j] ELSE IF j = i THEN r ELSE s[j - 1]]
  BY DEF InsertRecord
<1> HIDE DEF c
<1>2. ASSUME NEW j \in 1..Len(s) + 1
      PROVE  (IF j < i THEN s[j] ELSE IF j = i THEN r ELSE s[j - 1]) \in Record
  <2>1. /\ j < i => j \in 1..Len(s)
        /\ ~(j < i) /\ j # i => j - 1 \in 1..Len(s)
    OBVIOUS
  <2> QED BY <1>0, <2>1
<1>3. c \in [1..Len(s) + 1 -> Record]
  BY <1>1, <1>2
<1>4. c \in Seq(Record)
  BY <1>0, <1>3
<1>5. Len(c) = Len(s) + 1
  BY <1>0, <1>1, <1>4
<1> QED BY <1>1, <1>4, <1>5 DEF c

LEMMA InsertGood ==
  ASSUME NEW s \in Seq(Record), NEW i \in 1..Len(s) + 1, NEW r \in Record,
         Sorted(s), OnePerKey(s),
         \A m \in 1..i - 1 : RecordBefore(s[m], r),
         \A m \in i..Len(s) : RecordBefore(r, s[m]),
         r.name \in PlainTables \ MultiTables =>
           \A m \in 1..Len(s) : ~IsAt(s[m], r.name, r.key)
  PROVE  Sorted(InsertRecord(s, i, r)) /\ OnePerKey(InsertRecord(s, i, r))
<1> DEFINE c == InsertRecord(s, i, r)
<1>1. /\ Len(c) = Len(s) + 1
      /\ \A j \in 1..Len(s) + 1 :
           c[j] = IF j < i THEN s[j] ELSE IF j = i THEN r ELSE s[j - 1]
  BY InsertRecords
<1> HIDE DEF c
<1> DEFINE at(j) == IF j < i THEN j ELSE j - 1
<1>2. /\ c[i] = r
      /\ \A j \in 1..Len(c) : j # i => c[j] = s[at(j)] /\ at(j) \in 1..Len(s)
  BY <1>1
<1>3. \A j, m \in 1..Len(c) : j < m /\ j # i /\ m # i => at(j) < at(m)
  BY <1>1
<1>4. \A j, m \in 1..Len(c) : j # i /\ m # i /\ at(j) = at(m) => j = m
  BY <1>1
<1>5. /\ \A j \in 1..Len(c) : j < i => at(j) \in 1..i - 1
      /\ \A j \in 1..Len(c) : i < j => at(j) \in i..Len(s)
  BY <1>1
<1>6. \A j, m \in 1..Len(c) : j < m => RecordBefore(c[j], c[m])
  <2> SUFFICES ASSUME NEW j \in 1..Len(c), NEW m \in 1..Len(c), j < m
               PROVE  RecordBefore(c[j], c[m])
    OBVIOUS
  <2>1. CASE j = i
    <3>1. m # i /\ i < m
      BY <2>1
    <3>2. c[m] = s[at(m)] /\ at(m) \in i..Len(s)
      BY <1>2, <1>5, <3>1
    <3> QED BY <1>2, <2>1, <3>2
  <2>2. CASE m = i
    <3>1. j # i /\ j < i
      BY <2>2
    <3>2. c[j] = s[at(j)] /\ at(j) \in 1..i - 1
      BY <1>2, <1>5, <3>1
    <3> QED BY <1>2, <2>2, <3>2
  <2>3. CASE j # i /\ m # i
    <3> HIDE DEF at
    <3> QED BY <1>2, <1>3, <2>3 DEF Sorted
  <2> QED BY <2>1, <2>2, <2>3
<1> HIDE DEF at
<1>7. OnePerKey(c)
  <2> SUFFICES ASSUME NEW j \in 1..Len(c), NEW m \in 1..Len(c),
                      c[j].name \in PlainTables \ MultiTables,
                      IsAt(c[m], c[j].name, c[j].key)
               PROVE  j = m
    BY DEF OnePerKey
  <2>1. CASE j = i /\ m # i
    BY <1>2, <2>1
  <2>2. CASE m = i /\ j # i
    BY <1>2, <2>2 DEF IsAt
  <2>3. CASE j # i /\ m # i
    BY <1>2, <1>4, <2>3 DEF OnePerKey
  <2> QED BY <2>1, <2>2, <2>3
<1> QED BY <1>6, <1>7 DEF c, Sorted

----------------------------------------------------------------------------
(* The slab operations.                                                    *)

\* A half of any length holds a natural number of records.
LEMMA CapacityIsNat ==
  ASSUME NEW bytes \in Nat
  PROVE  capacity_for(bytes) \in Nat
<1>1. CASE bytes < COUNT_HDR
  BY <1>1 DEF capacity_for
<1>2. CASE ~(bytes < COUNT_HDR)
  <2>1. /\ bytes - COUNT_HDR \in Nat
        /\ RECORD_SIZE \in Nat /\ RECORD_SIZE > 0
    BY <1>2, ArenaAssumption
  <2>2. ASSUME NEW a \in Nat, NEW b \in Nat, b > 0
        PROVE  a \div b \in Nat
    BY <2>2
  <2> QED BY <1>2, <2>1, <2>2 DEF capacity_for
<1> QED BY <1>1, <1>2

\* Removing the run of a key's records leaves a good slab without that key,
\* and the position of the run splits what is left around the key.
LEMMA RunRemoved ==
  ASSUME NEW s \in Seq(Record), Sorted(s), OnePerKey(s),
         NEW n \in Nat, NEW k \in Nat,
         NEW start, start = lower_bound(s, n, k),
         NEW t, t = RemoveRun(s, start, n, k)
  PROVE  /\ t \in Seq(Record)
         /\ Sorted(t)
         /\ OnePerKey(t)
         /\ Len(t) <= Len(s)
         /\ Len(t) = Len(s) => t = s
         /\ start \in 1..Len(t) + 1
         /\ \A m \in 1..start - 1 : BeforeKey(t[m], n, k)
         /\ \A m \in start..Len(t) : ~BeforeKey(t[m], n, k) /\ ~IsAt(t[m], n, k)
<1> DEFINE I == {i \in start..Len(s) : ~IsAt(s[i], n, k)}
           stop == FirstIndex(s, I)
           d == stop - start
<1>0. Len(s) \in Nat /\ \A j \in 1..Len(s) : s[j] \in Record
  OBVIOUS
<1>1. /\ start \in 1..Len(s) + 1
      /\ start <= Len(s) => ~BeforeKey(s[start], n, k)
      /\ \A m \in 1..start - 1 : BeforeKey(s[m], n, k)
  BY <1>0, LowerBound
<1>2. /\ stop \in I \cup {Len(s) + 1}
      /\ stop \in 1..Len(s) + 1
      /\ \A i \in I : stop <= i
  <2>1. I \subseteq 1..Len(s)
    BY <1>1
  <2> HIDE DEF I
  <2> QED BY <1>0, <2>1, FirstIndexIsLeast
<1>3. t = Cut(s, start, d)
  BY DEF RemoveRun
<1> HIDE DEF stop
<1>4. stop >= start /\ (stop <= Len(s) => ~IsAt(s[stop], n, k))
  BY <1>1, <1>2
<1>5. d \in Nat /\ start + d = stop /\ start + d <= Len(s) + 1
  BY <1>1, <1>2, <1>4
<1> HIDE DEF d, I
<1>6. /\ t \in Seq(Record)
      /\ Len(t) = Len(s) - d
      /\ \A j \in 1..Len(s) - d : t[j] = IF j < start THEN s[j] ELSE s[j + d]
  <2>1. start \in 1..Len(s) + 1 /\ d \in Nat /\ start + d <= Len(s) + 1
    BY <1>1, <1>5
  <2>2. /\ Cut(s, start, d) \in Seq(Record)
        /\ Len(Cut(s, start, d)) = Len(s) - d
        /\ \A j \in 1..Len(s) - d :
             Cut(s, start, d)[j] = IF j < start THEN s[j] ELSE s[j + d]
    BY <2>1, CutRecords
  <2> QED BY <1>3, <2>2
<1>7. Sorted(t) /\ OnePerKey(t)
  BY <1>1, <1>3, <1>5, CutGood
<1>8. Len(t) = Len(s) => t = s
  <2> SUFFICES ASSUME Len(t) = Len(s) PROVE t = s
    OBVIOUS
  <2>1. d = 0
    BY <1>0, <1>5, <1>6
  <2>2. \A j \in 1..Len(s) : t[j] = s[j]
    BY <1>0, <1>1, <1>6, <2>1
  <2> QED BY <1>6, <2>2, SeqEqual
<1>9. ASSUME NEW j \in stop..Len(s)
      PROVE  ~BeforeKey(s[j], n, k) /\ ~IsAt(s[j], n, k)
  <2>1. stop \in 1..Len(s) /\ start \in 1..Len(s) /\ j \in 1..Len(s)
    BY <1>0, <1>2, <1>4, <1>1
  <2>2. s[start] = s[stop] \/ RecordBefore(s[start], s[stop])
    BY <1>4, <2>1 DEF Sorted
  <2>3. s[stop] = s[j] \/ RecordBefore(s[stop], s[j])
    BY <2>1 DEF Sorted
  <2>4. /\ s[start] \in Record /\ s[stop] \in Record /\ s[j] \in Record
        /\ ~BeforeKey(s[start], n, k) /\ ~IsAt(s[stop], n, k)
    BY <1>0, <1>1, <1>4, <2>1
  <2>5. ~BeforeKey(s[stop], n, k)
    BY <2>2, <2>4, NotBefore
  <2> QED BY <2>3, <2>4, <2>5, NotBefore
<1>10. \A m \in 1..start - 1 : BeforeKey(t[m], n, k)
  BY <1>0, <1>1, <1>5, <1>6
<1>11. ASSUME NEW m \in start..Len(t)
       PROVE  ~BeforeKey(t[m], n, k) /\ ~IsAt(t[m], n, k)
  <2>1. m + d \in stop..Len(s) /\ t[m] = s[m + d]
    BY <1>0, <1>1, <1>2, <1>5, <1>6
  <2> QED BY <1>9, <2>1
<1>12. Len(t) <= Len(s) /\ start \in 1..Len(t) + 1
  BY <1>0, <1>1, <1>5, <1>6
<1> QED BY <1>6, <1>7, <1>8, <1>10, <1>11, <1>12

\* put_unique keeps a slab good, and stages nothing when it is refused: the
\* key's records are only missing when one was removed, which left room.
LEMMA PutUnique ==
  ASSUME NEW s, GoodSlab(s), capacity_for(half) \in Nat,
         NEW n \in PlainTables, NEW k \in Keys, NEW v \in Vals
  PROVE  /\ GoodSlab(put_unique(s, n, k, v).slab)
         /\ put_unique(s, n, k, v).ret \in {Ret("ok"), Ret("Capacity")}
         /\ put_unique(s, n, k, v).ret = Ret("Capacity") => put_unique(s, n, k, v).slab = s
<1> DEFINE start == lower_bound(s, n, k)
           t == RemoveRun(s, start, n, k)
           r == [name |-> n, key |-> k, val |-> v]
<1>0. /\ s \in Seq(Record) /\ Sorted(s) /\ OnePerKey(s)
      /\ Len(s) \in Nat /\ Len(s) <= capacity_for(half)
      /\ n \in Nat /\ k \in Nat /\ v \in Nat
      /\ r \in Record
      /\ r.name = n /\ r.key = k /\ r.val = v
  BY ArenaAssumption DEF GoodSlab, Record, Names
<1>1. put_unique(s, n, k, v) = insert_at(t, start, r)
  BY DEF put_unique
<1> HIDE DEF r, t
<1>2. /\ t \in Seq(Record) /\ Sorted(t) /\ OnePerKey(t)
      /\ Len(t) <= Len(s)
      /\ Len(t) = Len(s) => t = s
      /\ start \in 1..Len(t) + 1
      /\ \A m \in 1..start - 1 : BeforeKey(t[m], n, k)
      /\ \A m \in start..Len(t) : ~BeforeKey(t[m], n, k) /\ ~IsAt(t[m], n, k)
  BY <1>0, RunRemoved DEF t
<1> HIDE DEF start
<1>3. CASE Len(t) >= capacity_for(half)
  <2>1. Len(t) \in Nat
    BY <1>2
  <2>2. t = s
    BY <1>0, <1>2, <1>3, <2>1
  <2> QED BY <1>1, <1>3, <2>2 DEF insert_at
<1>4. CASE ~(Len(t) >= capacity_for(half))
  <2>0. Len(t) \in Nat /\ \A m \in 1..Len(t) : t[m] \in Record
    BY <1>2
  <2>1. insert_at(t, start, r) = [slab |-> InsertRecord(t, start, r), ret |-> Ret("ok")]
    BY <1>4 DEF insert_at
  <2>2. \A m \in 1..start - 1 : RecordBefore(t[m], r)
    BY <1>0, <1>2 DEF RecordBefore, BeforeFull
  <2>3. ASSUME NEW m \in start..Len(t) PROVE RecordBefore(r, t[m])
    <3>1. m \in 1..Len(t)
      BY <1>2, <2>0
    <3>2. t[m].name \in Nat /\ t[m].key \in Nat
      BY <2>0, <3>1, RecordFields
    <3> QED BY <1>0, <1>2, <3>2 DEF RecordBefore, BeforeFull, BeforeKey, IsAt
  <2>4. \A m \in 1..Len(t) : ~IsAt(t[m], r.name, r.key)
    <3> SUFFICES ASSUME NEW m \in 1..Len(t) PROVE ~IsAt(t[m], n, k)
      BY <1>0
    <3>1. CASE m < start
      <4>1. BeforeKey(t[m], n, k)
        BY <1>2, <2>0, <3>1
      <4>2. t[m].name \in Nat /\ t[m].key \in Nat
        BY <2>0, RecordFields
      <4> QED BY <1>0, <4>1, <4>2 DEF BeforeKey, IsAt
    <3>2. CASE ~(m < start)
      BY <1>2, <2>0, <3>2
    <3> QED BY <3>1, <3>2
  <2>5. Sorted(InsertRecord(t, start, r)) /\ OnePerKey(InsertRecord(t, start, r))
    BY <1>0, <1>2, <2>2, <2>3, <2>4, InsertGood
  <2>6. InsertRecord(t, start, r) \in Seq(Record) /\ Len(InsertRecord(t, start, r)) = Len(t) + 1
    BY <1>0, <1>2, InsertRecords
  <2>7. GoodSlab(InsertRecord(t, start, r))
    BY <1>4, <2>0, <2>5, <2>6 DEF GoodSlab
  <2>8. Ret("ok") # Ret("Capacity")
    BY DEF Ret
  <2> QED BY <1>1, <2>1, <2>7, <2>8
<1> QED BY <1>3, <1>4

\* put_multi keeps a slab good and stages nothing when it is refused.
LEMMA PutMulti ==
  ASSUME NEW s, GoodSlab(s), capacity_for(half) \in Nat,
         NEW n \in MultiTables, NEW k \in Keys, NEW v \in Vals
  PROVE  /\ GoodSlab(put_multi(s, n, k, v).slab)
         /\ put_multi(s, n, k, v).ret \in {Ret("ok"), Ret("Capacity")}
         /\ put_multi(s, n, k, v).ret = Ret("Capacity") => put_multi(s, n, k, v).slab = s
<1> DEFINE i == lower_bound_full(s, n, k, v)
           r == [name |-> n, key |-> k, val |-> v]
<1>0. /\ s \in Seq(Record) /\ Sorted(s) /\ OnePerKey(s)
      /\ Len(s) \in Nat /\ Len(s) <= capacity_for(half)
      /\ \A m \in 1..Len(s) : s[m] \in Record
  BY DEF GoodSlab
<1>n. /\ n \in Nat /\ k \in Nat /\ v \in Nat
      /\ r \in Record
      /\ r.name = n /\ r.key = k /\ r.val = v
  BY ArenaAssumption DEF Record, Names
<1>1. put_multi(s, n, k, v) = IF i <= Len(s) /\ s[i] = r
                               THEN [slab |-> s, ret |-> Ret("ok")]
                               ELSE insert_at(s, i, r)
  BY DEF put_multi
<1>2. /\ i \in 1..Len(s) + 1
      /\ i <= Len(s) => ~BeforeFull(s[i], n, k, v)
      /\ \A m \in 1..i - 1 : BeforeFull(s[m], n, k, v)
  BY <1>0, LowerBoundFull
<1>r. \A q \in Record : q.name = n /\ q.key = k /\ q.val = v => q = r
  BY DEF Record
<1> HIDE DEF i, r
<1>3. Ret("ok") # Ret("Capacity")
  BY DEF Ret
<1>4. CASE i <= Len(s) /\ s[i] = r
  BY <1>1, <1>3, <1>4
<1>5. CASE ~(i <= Len(s) /\ s[i] = r) /\ Len(s) >= capacity_for(half)
  BY <1>1, <1>5 DEF insert_at
<1>6. CASE ~(i <= Len(s) /\ s[i] = r) /\ ~(Len(s) >= capacity_for(half))
  <2>1. put_multi(s, n, k, v) = [slab |-> InsertRecord(s, i, r), ret |-> Ret("ok")]
    BY <1>1, <1>6 DEF insert_at
  <2>2. \A m \in 1..i - 1 : RecordBefore(s[m], r)
    BY <1>0, <1>n, <1>2 DEF RecordBefore
  <2>3. ASSUME NEW m \in i..Len(s) PROVE RecordBefore(r, s[m])
    <3>1. i \in 1..Len(s) /\ m \in 1..Len(s)
      BY <1>0, <1>2
    <3>2. /\ s[i] \in Record /\ s[m] \in Record
          /\ s[i].name \in Nat /\ s[i].key \in Nat /\ s[i].val \in Nat
      BY <1>0, <3>1, RecordFields
    <3>3. RecordBefore(r, s[i])
      <4>1. ~(s[i].name = n /\ s[i].key = k /\ s[i].val = v)
        BY <1>r, <1>6, <3>1, <3>2
      <4>2. ~BeforeFull(s[i], n, k, v)
        BY <1>2, <3>1
      <4> QED BY <1>n, <3>2, <4>1, <4>2 DEF RecordBefore, BeforeFull, BeforeKey
    <3>4. m = i \/ RecordBefore(s[i], s[m])
      BY <1>0, <3>1 DEF Sorted
    <3> QED BY <1>n, <3>2, <3>3, <3>4, RecordOrder
  <2>4. r.name \notin PlainTables \ MultiTables
    BY <1>n
  <2>5. Sorted(InsertRecord(s, i, r)) /\ OnePerKey(InsertRecord(s, i, r))
    BY <1>0, <1>n, <1>2, <2>2, <2>3, <2>4, InsertGood
  <2>6. InsertRecord(s, i, r) \in Seq(Record) /\ Len(InsertRecord(s, i, r)) = Len(s) + 1
    BY <1>0, <1>n, <1>2, InsertRecords
  <2>7. GoodSlab(InsertRecord(s, i, r))
    BY <1>0, <1>6, <2>5, <2>6 DEF GoodSlab
  <2> QED BY <1>3, <2>1, <2>7
<1> QED BY <1>4, <1>5, <1>6

\* remove_key and remove_pair keep a slab good.
LEMMA RemoveKey ==
  ASSUME NEW s, GoodSlab(s), capacity_for(half) \in Nat,
         NEW n \in Names, NEW k \in Keys
  PROVE  /\ GoodSlab(remove_key(s, n, k).slab)
         /\ remove_key(s, n, k).ret \in {Ret("removed"), Ret("absent")}
<1> DEFINE t == RemoveRun(s, lower_bound(s, n, k), n, k)
<1>0. /\ s \in Seq(Record) /\ Sorted(s) /\ OnePerKey(s)
      /\ Len(s) \in Nat /\ Len(s) <= capacity_for(half)
      /\ n \in Nat /\ k \in Nat
  BY ArenaAssumption DEF GoodSlab, Names
<1>1. t \in Seq(Record) /\ Sorted(t) /\ OnePerKey(t) /\ Len(t) <= Len(s)
  BY <1>0, RunRemoved
<1>2. remove_key(s, n, k).slab = t
  BY DEF remove_key
<1>3. remove_key(s, n, k).ret \in {Ret("removed"), Ret("absent")}
  BY DEF remove_key
<1> HIDE DEF t
<1>4. Len(t) \in Nat
  BY <1>1
<1> QED BY <1>0, <1>1, <1>2, <1>3, <1>4 DEF GoodSlab

LEMMA RemovePair ==
  ASSUME NEW s, GoodSlab(s), capacity_for(half) \in Nat,
         NEW n \in Names, NEW k \in Keys, NEW v \in Vals
  PROVE  /\ GoodSlab(remove_pair(s, n, k, v).slab)
         /\ remove_pair(s, n, k, v).ret \in {Ret("removed"), Ret("absent")}
<1> DEFINE i == lower_bound_full(s, n, k, v)
           hit == i <= Len(s) /\ s[i] = [name |-> n, key |-> k, val |-> v]
<1>0. /\ s \in Seq(Record) /\ Sorted(s) /\ OnePerKey(s)
      /\ Len(s) \in Nat /\ Len(s) <= capacity_for(half)
  BY DEF GoodSlab
<1>1. i \in 1..Len(s) + 1
  BY <1>0, LowerBoundFull
<1>2. remove_pair(s, n, k, v) = IF hit THEN [slab |-> RemoveRecord(s, i), ret |-> Ret("removed")]
                                       ELSE [slab |-> s, ret |-> Ret("absent")]
  BY DEF remove_pair
<1>3. CASE hit
  <2>1. i + 1 <= Len(s) + 1 /\ 1 \in Nat
    BY <1>0, <1>1, <1>3
  <2> HIDE DEF i
  <2>2. /\ RemoveRecord(s, i) \in Seq(Record)
        /\ Len(RemoveRecord(s, i)) = Len(s) - 1
    BY <1>0, <1>1, <2>1, CutRecords DEF RemoveRecord
  <2>3. Sorted(RemoveRecord(s, i)) /\ OnePerKey(RemoveRecord(s, i))
    BY <1>0, <1>1, <2>1, CutGood DEF RemoveRecord
  <2>4. GoodSlab(RemoveRecord(s, i))
    BY <1>0, <2>2, <2>3 DEF GoodSlab
  <2> QED BY <1>2, <1>3, <2>4
<1>4. CASE ~hit
  BY <1>2, <1>4
<1> QED BY <1>3, <1>4

----------------------------------------------------------------------------
(* The inductive invariant.                                                *)

Inv == TypeOK /\ GoodSlab(base) /\ GoodSlab(work)

\* The capacity of the open region, and the record an index of a slab holds.
LEMMA InvFacts ==
  ASSUME Inv
  PROVE  /\ bufLen \in Nat
         /\ capacity_for(half) \in Nat
         /\ Slab \in Seq(Record)
         /\ Len(Slab) \in Nat
         /\ \A i \in 1..Len(Slab) : Slab[i] \in Record
<1>1. bufLen \in Nat
  BY ArenaAssumption DEF Inv, TypeOK
<1>2. half \in Nat
  BY <1>1 DEF half
<1>3. capacity_for(half) \in Nat
  BY <1>2, CapacityIsNat
<1>4. Slab \in Seq(Record)
  BY DEF Inv, TypeOK, Slab
<1> HIDE DEF Slab
<1> QED BY <1>1, <1>3, <1>4

\* A slab without records is good in a region of any length.
LEMMA EmptyGood ==
  ASSUME capacity_for(half) \in Nat
  PROVE  GoodSlab(<<>>)
BY DEF GoodSlab, Sorted, OnePerKey

LEMMA InitInv == Init => Inv
<1> SUFFICES ASSUME Init PROVE Inv
  OBVIOUS
<1>1. half \in Nat
  BY DEF Init, half
<1>2. GoodSlab(<<>>)
  BY <1>1, CapacityIsNat, EmptyGood
<1>3. TypeOK
  BY DEF Init, TypeOK, NoCursor, Bounds, BoundSpec, Unbounded, Ret
<1> QED BY <1>2, <1>3 DEF Init, Inv

\* What a write call does to the invariant is what its operation does to the
\* staged slab.
LEMMA WriteOpInv ==
  ASSUME Inv, NEW STATE encodes, NEW STATE op, WriteOp(encodes, op),
         GoodSlab(op.slab), op.ret.row = NoRow
  PROVE  Inv'
<1>1. bufLen' = bufLen /\ base' = base /\ tx = "write"
  BY DEF WriteOp
<1>2. half' = half
  BY <1>1 DEF half
<1>3. GoodSlab(base)'
  BY <1>1, <1>2 DEF Inv, GoodSlab
<1>4. CASE ~encodes /\ ret' = Ret("TooLarge") /\ UNCHANGED <<tx, work, cursor>>
  <2>1. GoodSlab(work)'
    BY <1>2, <1>4 DEF Inv, GoodSlab
  <2>2. TypeOK'
    BY <1>1, <1>4 DEF Inv, TypeOK, Slab, Ret
  <2> QED BY <1>3, <2>1, <2>2 DEF Inv
<1>5. CASE EndTx("panic")
  <2>1. GoodSlab(work)'
    BY <1>2, <1>5, InvFacts, EmptyGood DEF EndTx, GoodSlab
  <2>2. TypeOK'
    BY <1>1, <1>5 DEF Inv, TypeOK, EndTx, NoCursor, Ret, Bounds, BoundSpec, Unbounded
  <2> QED BY <1>3, <2>1, <2>2 DEF Inv
<1>6. CASE ~cursor.open /\ work' = op.slab /\ ret' = op.ret /\ UNCHANGED <<tx, cursor>>
  <2>1. GoodSlab(work)'
    BY <1>2, <1>6 DEF GoodSlab
  <2>2. TypeOK'
    BY <1>1, <1>6, <2>1 DEF Inv, TypeOK, GoodSlab
  <2> QED BY <1>3, <2>1, <2>2 DEF Inv
<1> QED BY <1>4, <1>5, <1>6 DEF WriteOp

\* A call that only reads, or moves the iterator, keeps the invariant when
\* the cursor it leaves and the row it returns have their types.
LEMMA ReadOpInv ==
  ASSUME Inv, UNCHANGED <<tx, bufLen, base, work>>,
         cursor' \in [open: BOOLEAN, name: Names \cup {0}, lo: Bounds, hi: Bounds, idx: Nat],
         \/ cursor' = NoCursor
         \/ cursor'.open /\ tx \in {"read", "write"} /\ cursor'.idx \in 1..Len(Slab) + 1,
         ret'.row \in Record \cup {NoRow}
  PROVE  Inv'
<1>1. Slab' = Slab /\ half' = half
  BY DEF Slab, half
<1>2. GoodSlab(base)' /\ GoodSlab(work)'
  BY <1>1 DEF Inv, GoodSlab
<1>3. TypeOK'
  BY <1>1 DEF Inv, TypeOK
<1> QED BY <1>2, <1>3 DEF Inv

\* Where an iterator starts and where a step of it stops.
LEMMA CursorMoves ==
  ASSUME Inv
  PROVE  /\ \A n, lo : seed(Slab, n, lo) \in 1..Len(Slab) + 1
         /\ cursor.open => next_idx(Slab, cursor) \in 1..Len(Slab) + 1
<1>0. Len(Slab) \in Nat
  BY InvFacts
<1>1. ASSUME NEW n, NEW lo
      PROVE  seed(Slab, n, lo) \in 1..Len(Slab) + 1
  <2>1. lower_bound(Slab, n, lo.key) \in 1..Len(Slab) + 1
    BY <1>0, LowerBound
  <2>2. lower_bound_name(Slab, n) \in 1..Len(Slab) + 1
    <3> DEFINE I == {i \in 1..Len(Slab) : Slab[i].name >= n}
    <3>1. I \subseteq 1..Len(Slab)
      OBVIOUS
    <3>2. lower_bound_name(Slab, n) = FirstIndex(Slab, I)
      BY DEF lower_bound_name
    <3> HIDE DEF I
    <3> QED BY <1>0, <3>1, <3>2, FirstIndexIsLeast
  <2> QED BY <2>1, <2>2 DEF seed
<1>2. ASSUME cursor.open
      PROVE  next_idx(Slab, cursor) \in 1..Len(Slab) + 1
  <2> DEFINE I == {i \in cursor.idx..Len(Slab) : \/ Slab[i].name # cursor.name
                                                 \/ ~hi_ok(cursor.hi, Slab[i].key)
                                                 \/ lo_ok(cursor.lo, Slab[i].key)}
  <2>1. cursor.idx \in 1..Len(Slab) + 1
    BY <1>2 DEF Inv, TypeOK, NoCursor
  <2>2. I \subseteq 1..Len(Slab)
    BY <1>0, <2>1
  <2>3. next_idx(Slab, cursor) = FirstIndex(Slab, I)
    BY DEF next_idx
  <2> HIDE DEF I
  <2> QED BY <1>0, <2>2, <2>3, FirstIndexIsLeast
<1> QED BY <1>1, <1>2

LEMMA OpenCursorInv ==
  ASSUME Inv, NEW n \in Names, NEW lo \in Bounds, NEW hi \in Bounds, OpenCursor(n, lo, hi)
  PROVE  Inv'
<1>1. tx \in {"read", "write"} /\ UNCHANGED <<tx, bufLen, base, work>> /\ ~cursor.open
  BY DEF OpenCursor
<1>2. CASE UNCHANGED cursor /\ ret' = Ret("TooLarge")
  BY <1>1, <1>2, ReadOpInv DEF Inv, TypeOK, Ret
<1>3. CASE /\ cursor' = [open |-> TRUE, name |-> n, lo |-> lo, hi |-> hi,
                         idx |-> seed(Slab, n, lo)]
           /\ ret' = Ret("ok")
  <2>1. seed(Slab, n, lo) \in 1..Len(Slab) + 1
    BY CursorMoves
  <2>2. seed(Slab, n, lo) \in Nat
    BY <2>1, InvFacts
  <2>3. ret'.row \in Record \cup {NoRow}
    BY <1>3 DEF Ret
  <2>4. cursor' \in [open: BOOLEAN, name: Names \cup {0}, lo: Bounds, hi: Bounds, idx: Nat]
    BY <1>3, <2>2
  <2>5. cursor'.open /\ cursor'.idx \in 1..Len(Slab) + 1
    BY <1>3, <2>1
  <2> QED BY <1>1, <2>3, <2>4, <2>5, ReadOpInv
<1> QED BY <1>2, <1>3 DEF OpenCursor

\* Every step keeps the invariant.
LEMMA StepInv == Inv /\ [Next]_vars => Inv'
<1> SUFFICES ASSUME Inv, [Next]_vars PROVE Inv'
  OBVIOUS
<1>0. /\ capacity_for(half) \in Nat /\ Slab \in Seq(Record)
      /\ GoodSlab(base) /\ GoodSlab(work)
      /\ \A i \in 1..Len(Slab) : Slab[i] \in Record
  BY InvFacts DEF Inv
<1>1. ASSUME NEW len \in BufLens, Open(len) PROVE Inv'
  <2>1. CASE UNCHANGED <<tx, bufLen, base>> /\ ret' = Ret("BadResource")
    <3>1. UNCHANGED <<tx, bufLen, base, work, cursor>>
      BY <1>1, <2>1 DEF Open
    <3> QED BY <3>1, <2>1, ReadOpInv DEF Inv, TypeOK, Ret
  <2>2. CASE tx' = "idle" /\ bufLen' = len /\ base' = <<>> /\ ret' = Ret("ok")
    <3>1. tx = "closed" /\ work' = work /\ cursor' = cursor /\ work = <<>>
      BY <1>1 DEF Open, Inv, TypeOK
    <3>2. bufLen' \in Nat /\ half' \in Nat
      BY <2>2, ArenaAssumption DEF half
    <3>3. capacity_for(half') \in Nat
      BY <3>2, CapacityIsNat
    <3>4. GoodSlab(base)' /\ GoodSlab(work)'
      BY <2>2, <3>1, <3>3 DEF GoodSlab, Sorted, OnePerKey, capacity_for
    <3>5. cursor = NoCursor
      BY <3>1 DEF Inv, TypeOK
    <3>6. TypeOK'
      BY <2>2, <3>1, <3>5 DEF Inv, TypeOK, Ret
    <3> QED BY <3>4, <3>6 DEF Inv
  <2> QED BY <1>1, <2>1, <2>2 DEF Open
<1>2. CASE Close
  <2>1. /\ tx = "idle" /\ tx' = "closed" /\ bufLen' = 0 /\ base' = <<>> /\ ret' = Ret("ok")
        /\ work' = work /\ cursor' = cursor /\ work = <<>> /\ cursor = NoCursor
    BY <1>2 DEF Close, Inv, TypeOK
  <2>2. half' \in Nat
    BY <2>1 DEF half
  <2>3. capacity_for(half') \in Nat
    BY <2>2, CapacityIsNat
  <2>4. GoodSlab(base)' /\ GoodSlab(work)'
    BY <2>1, <2>3 DEF GoodSlab, Sorted, OnePerKey, capacity_for
  <2>5. TypeOK'
    BY <2>1 DEF Inv, TypeOK, Ret, NoCursor
  <2> QED BY <2>4, <2>5 DEF Inv
<1>3. CASE read_transaction
  <2>1. GoodSlab(base)' /\ GoodSlab(work)'
    BY <1>3 DEF read_transaction, Inv, GoodSlab, half
  <2>2. TypeOK'
    BY <1>3 DEF read_transaction, Inv, TypeOK, NoCursor, Ret
  <2> QED BY <2>1, <2>2 DEF Inv
<1>4. CASE write_transaction
  <2>1. half' = half /\ base' = base /\ (work' = work \/ work' = base)
    BY <1>4 DEF write_transaction, half
  <2>2. GoodSlab(base)' /\ GoodSlab(work)'
    BY <1>0, <2>1 DEF GoodSlab
  <2>3. tx = "idle" /\ cursor = NoCursor /\ cursor' = cursor
    BY <1>4 DEF write_transaction, Inv, TypeOK
  <2>4. /\ tx' \in {"idle", "write"} /\ bufLen' = bufLen
        /\ tx' # "write" => work' = <<>>
        /\ work' \in Seq(Record) /\ ret'.row = NoRow
    <3>1. tx = "idle" /\ bufLen' = bufLen /\ work = <<>> /\ base \in Seq(Record)
      BY <1>4, <2>3 DEF write_transaction, Inv, TypeOK
    <3>2. ret'.row = NoRow
      BY <1>4 DEF write_transaction, Ret
    <3>3. \/ tx' = tx /\ work' = work
          \/ tx' = "write" /\ work' = base
      BY <1>4 DEF write_transaction
    <3>4. <<>> \in Seq(Record)
      OBVIOUS
    <3>5. CASE tx' = tx /\ work' = work
      BY <3>1, <3>2, <3>4, <3>5
    <3>6. CASE tx' = "write" /\ work' = base
      BY <3>1, <3>2, <3>6
    <3> QED BY <3>3, <3>5, <3>6
  <2>5. TypeOK'
    BY <2>1, <2>3, <2>4 DEF Inv, TypeOK
  <2> QED BY <2>2, <2>5 DEF Inv
<1>5. CASE commit
  <2>1. half' = half /\ base' = work /\ work' = <<>>
    BY <1>5 DEF commit, half
  <2>2. GoodSlab(base)' /\ GoodSlab(work)'
    BY <1>0, <2>1, EmptyGood DEF GoodSlab
  <2>3. cursor = NoCursor /\ cursor' = cursor
    BY <1>5 DEF commit, Inv, TypeOK
  <2>4. TypeOK'
    BY <1>5, <2>3 DEF commit, Inv, TypeOK, Ret
  <2> QED BY <2>2, <2>4 DEF Inv
<1>6. CASE Drop
  <2>1. half' = half /\ base' = base /\ work' = <<>>
    BY <1>6 DEF Drop, EndTx, half
  <2>2. GoodSlab(base)' /\ GoodSlab(work)'
    BY <1>0, <2>1, EmptyGood DEF GoodSlab
  <2>3. TypeOK'
    BY <1>6 DEF Drop, EndTx, Inv, TypeOK, Ret, NoCursor, Bounds, BoundSpec, Unbounded
  <2> QED BY <2>2, <2>3 DEF Inv
<1>7. ASSUME NEW n \in PlainTables, NEW k \in Keys, NEW v \in Vals, insert_plain(n, k, v)
      PROVE  Inv'
  <2> DEFINE op == put_unique(work, n, k, v)
  <2>1. GoodSlab(op.slab) /\ op.ret \in {Ret("ok"), Ret("Capacity")}
    BY <1>0, PutUnique
  <2>2. op.ret.row = NoRow
    BY <2>1 DEF Ret
  <2>3. WriteOp(Encodes(k) /\ Serializes(v), op)
    BY <1>7 DEF insert_plain
  <2> HIDE DEF op
  <2> QED BY <2>1, <2>2, <2>3, WriteOpInv
<1>8. ASSUME NEW n \in MultiTables, NEW k \in Keys, NEW v \in Vals, insert_multi(n, k, v)
      PROVE  Inv'
  <2> DEFINE op == put_multi(work, n, k, v)
  <2>1. GoodSlab(op.slab) /\ op.ret \in {Ret("ok"), Ret("Capacity")}
    BY <1>0, PutMulti
  <2>2. op.ret.row = NoRow
    BY <2>1 DEF Ret
  <2>3. WriteOp(Encodes(k) /\ Serializes(v), op)
    BY <1>8 DEF insert_multi
  <2> HIDE DEF op
  <2> QED BY <2>1, <2>2, <2>3, WriteOpInv
<1>9. ASSUME NEW n \in MultiTables, NEW k \in Keys, NEW v \in Vals, remove_value(n, k, v)
      PROVE  Inv'
  <2> DEFINE op == remove_pair(work, n, k, v)
  <2>1. GoodSlab(op.slab) /\ op.ret \in {Ret("removed"), Ret("absent")}
    BY <1>0, RemovePair DEF Names
  <2>2. op.ret.row = NoRow
    BY <2>1 DEF Ret
  <2>3. WriteOp(Encodes(k) /\ Serializes(v), op)
    BY <1>9 DEF remove_value
  <2> HIDE DEF op
  <2> QED BY <2>1, <2>2, <2>3, WriteOpInv
<1>10. ASSUME NEW n \in Names, NEW k \in Keys, remove(n, k)
       PROVE  Inv'
  <2> DEFINE op == remove_key(work, n, k)
  <2>1. GoodSlab(op.slab) /\ op.ret \in {Ret("removed"), Ret("absent")}
    BY <1>0, RemoveKey
  <2>2. op.ret.row = NoRow
    BY <2>1 DEF Ret
  <2>3. WriteOp(Encodes(k), op)
    BY <1>10 DEF remove
  <2> HIDE DEF op
  <2> QED BY <2>1, <2>2, <2>3, WriteOpInv
<1>11. CASE remove_value_plain
  <2>1. UNCHANGED <<tx, bufLen, base, work, cursor>> /\ ret' = Ret("Unsupported")
    BY <1>11 DEF remove_value_plain
  <2> QED BY <2>1, ReadOpInv DEF Inv, TypeOK, Ret
<1>12. ASSUME NEW n \in Names, NEW k \in Keys, get(n, k)
       PROVE  Inv'
  <2> DEFINE i == lower_bound(Slab, n, k)
  <2>1. UNCHANGED <<tx, bufLen, base, work, cursor>>
    BY <1>12 DEF get
  <2>2. i \in 1..Len(Slab) + 1
    BY LowerBound, InvFacts
  <2>3. ret' = IF ~Encodes(k) THEN Ret("TooLarge")
               ELSE IF matches_name_key(Slab, i, n, k) THEN RetRow(Slab[i])
               ELSE Ret("absent")
    BY <1>12 DEF get
  <2> HIDE DEF i
  <2>4. matches_name_key(Slab, i, n, k) => Slab[i] \in Record
    BY <2>2, InvFacts DEF matches_name_key
  <2>5. ret'.row \in Record \cup {NoRow}
    BY <2>3, <2>4 DEF Ret, RetRow
  <2> QED BY <2>1, <2>5, ReadOpInv DEF Inv, TypeOK
<1>13. ASSUME NEW n \in Names, NEW k \in Keys, get_all(n, k)
       PROVE  Inv'
  <2>1. Exactly(k) \in Bounds
    BY DEF Exactly, Bounds
  <2> QED BY <1>13, <2>1, OpenCursorInv DEF get_all
<1>14. ASSUME NEW n \in Names, NEW scan \in ScanRanges, range(n, scan[1], scan[2])
       PROVE  Inv'
  <2>1. scan[1] \in Bounds /\ scan[2] \in Bounds
    BY ScanRangesAssumption DEF Bounds
  <2> QED BY <1>14, <2>1, OpenCursorInv DEF range
<1>15. CASE next
  <2> DEFINE i == next_idx(Slab, cursor)
  <2>1. cursor.open /\ UNCHANGED <<tx, bufLen, base, work>>
    BY <1>15 DEF next
  <2>2. i \in 1..Len(Slab) + 1
    BY <2>1, CursorMoves
  <2>3. \/ /\ Yields(Slab, cursor, i)
           /\ ret' = RetRow(Slab[i])
           /\ cursor' = [cursor EXCEPT !.idx = i + 1]
        \/ /\ ret' = Ret("end")
           /\ cursor' = [cursor EXCEPT !.idx = i]
    BY <1>15 DEF next
  <2>4. Yields(Slab, cursor, i) => i \in 1..Len(Slab)
    BY <2>2, InvFacts DEF Yields
  <2> HIDE DEF i
  <2>5. ret'.row \in Record \cup {NoRow}
    BY <2>3, <2>4, InvFacts DEF Ret, RetRow
  <2>6. /\ cursor \in [open: BOOLEAN, name: Names \cup {0}, lo: Bounds, hi: Bounds, idx: Nat]
        /\ tx \in {"read", "write"}
    BY <2>1 DEF Inv, TypeOK, NoCursor
  <2>7. PICK j \in Nat : j \in 1..Len(Slab) + 1 /\ cursor' = [cursor EXCEPT !.idx = j]
    <3>1. Len(Slab) \in Nat
      BY InvFacts
    <3>2. CASE Yields(Slab, cursor, i) /\ cursor' = [cursor EXCEPT !.idx = i + 1]
      <4>1. i + 1 \in Nat /\ i + 1 \in 1..Len(Slab) + 1
        BY <2>4, <3>1, <3>2
      <4> QED BY <3>2, <4>1
    <3>3. CASE cursor' = [cursor EXCEPT !.idx = i]
      <4>1. i \in Nat
        BY <2>2, <3>1
      <4> QED BY <2>2, <3>3, <4>1
    <3> QED BY <2>3, <3>2, <3>3
  <2>8. /\ cursor' \in [open: BOOLEAN, name: Names \cup {0}, lo: Bounds, hi: Bounds, idx: Nat]
        /\ cursor'.open /\ cursor'.idx \in 1..Len(Slab) + 1
    BY <2>1, <2>6, <2>7
  <2> QED BY <2>1, <2>5, <2>6, <2>8, ReadOpInv
<1>16. CASE DropCursor
  <2>1. UNCHANGED <<tx, bufLen, base, work>> /\ cursor' = NoCursor /\ ret' = Ret("ok")
    BY <1>16 DEF DropCursor
  <2>2. NoCursor \in [open: BOOLEAN, name: Names \cup {0}, lo: Bounds, hi: Bounds, idx: Nat]
    BY DEF NoCursor, Bounds, BoundSpec, Unbounded
  <2> QED BY <2>1, <2>2, ReadOpInv DEF Ret
<1>17. CASE UNCHANGED vars
  <2>1. UNCHANGED <<tx, bufLen, base, work, cursor, ret>>
    BY <1>17 DEF vars
  <2> QED BY <2>1, ReadOpInv DEF Inv, TypeOK
<1> QED BY <1>1, <1>2, <1>3, <1>4, <1>5, <1>6, <1>7, <1>8, <1>9, <1>10, <1>11, <1>12,
           <1>13, <1>14, <1>15, <1>16, <1>17 DEF Next

LEMMA SpecInv == Spec => []Inv
BY InitInv, StepInv, PTL DEF Spec

----------------------------------------------------------------------------
(* The theorems.                                                           *)

\* The state of the arena store keeps its types in every reachable state.
THEOREM TypeCorrect == Spec => []TypeOK
<1>1. Inv => TypeOK
  BY DEF Inv
<1> QED BY <1>1, SpecInv, PTL

\* Both slabs ascend strictly by (name, key, value) in every reachable state,
\* so each binary search of region.rs finds what it looks for.
THEOREM AlwaysSorted == Spec => []SlabsSorted
<1>1. Inv => SlabsSorted
  BY DEF Inv, GoodSlab, SlabsSorted
<1> QED BY <1>1, SpecInv, PTL

\* A plain table never holds two records of one key, in either slab.
THEOREM AlwaysSingle == Spec => []PlainTablesSingle
<1>1. Inv => PlainTablesSingle
  BY DEF Inv, GoodSlab, PlainTablesSingle
<1> QED BY <1>1, SpecInv, PTL

\* No slab outgrows its half of the region, so commit's copy cannot fail.
THEOREM AlwaysWithinCapacity == Spec => []WithinCapacity
<1>1. Inv => WithinCapacity
  BY DEF Inv, GoodSlab, WithinCapacity
<1> QED BY <1>1, SpecInv, PTL

\* A write call refused for capacity leaves the staged slab as it found it.
LEMMA WriteOpRefused ==
  ASSUME NEW STATE encodes, NEW STATE op, WriteOp(encodes, op),
         op.ret.res = "Capacity" => op.slab = work,
         op.ret.res \in {"ok", "Capacity", "removed", "absent"},
         ret'.res \in {"Capacity", "TooLarge", "Unsupported"}
  PROVE  work' = work
<1>1. CASE UNCHANGED <<tx, work, cursor>>
  BY <1>1
<1>2. CASE EndTx("panic")
  BY <1>2 DEF EndTx, Ret
<1>3. CASE work' = op.slab /\ ret' = op.ret
  BY <1>3
<1> QED BY <1>1, <1>2, <1>3 DEF WriteOp

LEMMA StepRefused ==
  Inv /\ [Next]_vars
    => [(ret'.res \in {"Capacity", "TooLarge", "Unsupported"}) => work' = work]_vars
<1> SUFFICES ASSUME Inv, Next, ret'.res \in {"Capacity", "TooLarge", "Unsupported"}
             PROVE  work' = work
  BY DEF vars
<1>0. GoodSlab(work) /\ capacity_for(half) \in Nat
  BY InvFacts DEF Inv
<1>1. ASSUME NEW n \in PlainTables, NEW k \in Keys, NEW v \in Vals, insert_plain(n, k, v)
      PROVE  work' = work
  <2> DEFINE op == put_unique(work, n, k, v)
  <2>1. op.ret \in {Ret("ok"), Ret("Capacity")} /\ (op.ret = Ret("Capacity") => op.slab = work)
    BY <1>0, PutUnique
  <2>2. WriteOp(Encodes(k) /\ Serializes(v), op)
    BY <1>1 DEF insert_plain
  <2> HIDE DEF op
  <2>3. op.ret.res \in {"ok", "Capacity"} /\ (op.ret.res = "Capacity" => op.slab = work)
    BY <2>1 DEF Ret
  <2> QED BY <2>2, <2>3, WriteOpRefused
<1>2. ASSUME NEW n \in MultiTables, NEW k \in Keys, NEW v \in Vals, insert_multi(n, k, v)
      PROVE  work' = work
  <2> DEFINE op == put_multi(work, n, k, v)
  <2>1. op.ret \in {Ret("ok"), Ret("Capacity")} /\ (op.ret = Ret("Capacity") => op.slab = work)
    BY <1>0, PutMulti
  <2>2. WriteOp(Encodes(k) /\ Serializes(v), op)
    BY <1>2 DEF insert_multi
  <2> HIDE DEF op
  <2>3. op.ret.res \in {"ok", "Capacity"} /\ (op.ret.res = "Capacity" => op.slab = work)
    BY <2>1 DEF Ret
  <2> QED BY <2>2, <2>3, WriteOpRefused
<1>3. ASSUME NEW n \in MultiTables, NEW k \in Keys, NEW v \in Vals, remove_value(n, k, v)
      PROVE  work' = work
  <2> DEFINE op == remove_pair(work, n, k, v)
  <2>1. op.ret \in {Ret("removed"), Ret("absent")}
    BY <1>0, RemovePair DEF Names
  <2>2. WriteOp(Encodes(k) /\ Serializes(v), op)
    BY <1>3 DEF remove_value
  <2> HIDE DEF op
  <2>3. op.ret.res \in {"removed", "absent"}
    BY <2>1 DEF Ret
  <2> QED BY <2>2, <2>3, WriteOpRefused
<1>4. ASSUME NEW n \in Names, NEW k \in Keys, remove(n, k)
      PROVE  work' = work
  <2> DEFINE op == remove_key(work, n, k)
  <2>1. op.ret \in {Ret("removed"), Ret("absent")}
    BY <1>0, RemoveKey
  <2>2. WriteOp(Encodes(k), op)
    BY <1>4 DEF remove
  <2> HIDE DEF op
  <2>3. op.ret.res \in {"removed", "absent"}
    BY <2>1 DEF Ret
  <2> QED BY <2>2, <2>3, WriteOpRefused
<1>5. ASSUME NEW n \in Names, NEW k \in Keys, get(n, k) \/ get_all(n, k)
      PROVE  work' = work
  BY <1>5 DEF get, get_all, OpenCursor
<1>6. ASSUME NEW n \in Names, NEW scan \in ScanRanges, range(n, scan[1], scan[2])
      PROVE  work' = work
  BY <1>6 DEF range, OpenCursor
<1>7. CASE write_transaction \/ commit \/ Drop
  BY <1>7 DEF write_transaction, commit, Drop, EndTx, Ret
<1>8. CASE Close \/ read_transaction \/ remove_value_plain \/ next \/ DropCursor
  BY <1>8 DEF Close, read_transaction, remove_value_plain, next, DropCursor
<1>9. CASE \E len \in BufLens : Open(len)
  BY <1>9 DEF Open
<1> QED BY <1>1, <1>2, <1>3, <1>4, <1>5, <1>6, <1>7, <1>8, <1>9 DEF Next

\* A call that returns Capacity, TooLarge or Unsupported stages nothing, on a
\* region of any length: put_unique's removal before its insertion is safe
\* because a key with a record to replace leaves room for the new one.
THEOREM RefusalsStageNothing == Spec => RefusedStagesNothing
BY SpecInv, StepRefused, PTL DEF Spec, RefusedStagesNothing

----------------------------------------------------------------------------
(* The slab as a set of rows: the refinement of TableStore.                *)

\* Where a live iterator stands: no record from its index on lies before its
\* low bound, so the first one past its high bound or its table ends the scan;
\* and a scan of a single key has that key for both bounds.
Ahead(s, c) ==
  /\ \A j \in c.idx..Len(s) :
       IF c.lo.kind = "Unbounded" THEN s[j].name >= c.name
       ELSE ~BeforeKey(s[j], c.name, c.lo.key)
  /\ c.hi.kind = "Exact" => c.lo = c.hi

CursorAhead == cursor.open => Ahead(Slab, cursor)

\* The halves of the open region are equal, so a write transaction can begin.
EvenRegion == bufLen - half = half

\* The regions open accepts split evenly, as its documentation asks of callers.
EvenBufLens == \A len \in BufLens : len >= 2 * COUNT_HDR => len - len \div 2 = len \div 2

MapInv == Inv /\ CursorAhead

\* Two variables of the abstract store under the refinement mapping.
Cap == IF tx = "closed" THEN 0 ELSE capacity_for(half)
Todo == IF cursor.open THEN Pending ELSE {}

----------------------------------------------------------------------------
(* The set of a slab's records.                                            *)

\* A sorted slab has as many rows as records.
LEMMA RowsCounted ==
  ASSUME NEW s \in Seq(Record), Sorted(s)
  PROVE  IsFiniteSet(RowsOf(s)) /\ Cardinality(RowsOf(s)) = Len(s)
<1> DEFINE f == [i \in 1..Len(s) |-> s[i]]
<1>1. Len(s) \in Nat /\ \A i \in 1..Len(s) : s[i] \in Record
  OBVIOUS
<1>2. \A i, j \in 1..Len(s) : s[i] = s[j] => i = j
  <2> SUFFICES ASSUME NEW i \in 1..Len(s), NEW j \in 1..Len(s), s[i] = s[j], i < j
               PROVE  FALSE
    OBVIOUS
  <2> QED BY <1>1, RecordOrder DEF Sorted
<1>3. f \in Bijection(1..Len(s), RowsOf(s))
  BY <1>2 DEF RowsOf, Bijection, Injection, Surjection, IsInjective
<1>4. ExistsBijection(1..Len(s), RowsOf(s))
  BY <1>3 DEF ExistsBijection
<1> QED BY <1>1, <1>4, FS_CountingElements, FS_NatBijection

\* Cutting a run leaves the rows that are not in the run.
LEMMA CutRows ==
  ASSUME NEW s \in Seq(Record), NEW i \in 1..Len(s) + 1, NEW d \in Nat,
         i + d <= Len(s) + 1
  PROVE  RowsOf(Cut(s, i, d)) = {s[j] : j \in 1..i - 1} \cup {s[j] : j \in i + d..Len(s)}
<1> DEFINE c == Cut(s, i, d)
<1>1. /\ Len(c) = Len(s) - d
      /\ \A j \in 1..Len(s) - d : c[j] = IF j < i THEN s[j] ELSE s[j + d]
  BY CutRecords
<1> HIDE DEF c
<1>2. ASSUME NEW j \in 1..Len(c)
      PROVE  c[j] \in {s[m] : m \in 1..i - 1} \cup {s[m] : m \in i + d..Len(s)}
  <2>1. CASE j < i
    BY <1>1, <2>1
  <2>2. CASE ~(j < i)
    <3>1. j + d \in i + d..Len(s) /\ c[j] = s[j + d]
      BY <1>1, <2>2
    <3> QED BY <3>1
  <2> QED BY <2>1, <2>2
<1>3. ASSUME NEW m \in 1..i - 1
      PROVE  s[m] \in RowsOf(c)
  <2>1. m \in 1..Len(c) /\ c[m] = s[m]
    BY <1>1
  <2> QED BY <2>1 DEF RowsOf
<1>4. ASSUME NEW m \in i + d..Len(s)
      PROVE  s[m] \in RowsOf(c)
  <2>1. m - d \in 1..Len(c) /\ c[m - d] = s[m]
    BY <1>1
  <2> QED BY <2>1 DEF RowsOf
<1>5. RowsOf(c) \subseteq {s[m] : m \in 1..i - 1} \cup {s[m] : m \in i + d..Len(s)}
  BY <1>2 DEF RowsOf
<1> QED BY <1>3, <1>4, <1>5 DEF c

\* Inserting a record adds its row.
LEMMA InsertRows ==
  ASSUME NEW s \in Seq(Record), NEW i \in 1..Len(s) + 1, NEW r \in Record
  PROVE  RowsOf(InsertRecord(s, i, r)) = RowsOf(s) \cup {r}
<1> DEFINE c == InsertRecord(s, i, r)
<1>0. Len(s) \in Nat /\ i \in Nat
  OBVIOUS
<1>1. /\ Len(c) = Len(s) + 1
      /\ \A j \in 1..Len(s) + 1 :
           c[j] = IF j < i THEN s[j] ELSE IF j = i THEN r ELSE s[j - 1]
  <2>1. /\ Len(InsertRecord(s, i, r)) = Len(s) + 1
        /\ \A j \in 1..Len(s) + 1 :
             InsertRecord(s, i, r)[j] =
               IF j < i THEN s[j] ELSE IF j = i THEN r ELSE s[j - 1]
    BY InsertRecords, SMTT(30)
  <2> QED BY <2>1
<1> HIDE DEF c
<1>2. ASSUME NEW j \in 1..Len(c)
      PROVE  c[j] \in RowsOf(s) \cup {r}
  <2>1. CASE j < i
    <3>1. j \in 1..Len(s) /\ c[j] = s[j]
      BY <1>1, <2>1
    <3> QED BY <3>1 DEF RowsOf
  <2>2. CASE j = i
    BY <1>1, <2>2
  <2>3. CASE j > i
    <3>1. j - 1 \in 1..Len(s) /\ c[j] = s[j - 1]
      BY <1>1, <2>3
    <3> QED BY <3>1 DEF RowsOf
  <2> QED BY <2>1, <2>2, <2>3
<1>3. ASSUME NEW m \in 1..Len(s)
      PROVE  s[m] \in RowsOf(c)
  <2>1. CASE m < i
    <3>1. m \in 1..Len(c) /\ c[m] = s[m]
      BY <1>1, <2>1
    <3> QED BY <3>1 DEF RowsOf
  <2>2. CASE ~(m < i)
    <3>1. m + 1 \in 1..Len(c) /\ c[m + 1] = s[m]
      BY <1>1, <2>2
    <3> QED BY <3>1 DEF RowsOf
  <2> QED BY <2>1, <2>2
<1>4. r \in RowsOf(c)
  <2>1. i \in 1..Len(c) /\ c[i] = r
    BY <1>1
  <2> QED BY <2>1 DEF RowsOf
<1>5. RowsOf(c) \subseteq RowsOf(s) \cup {r}
  BY <1>2 DEF RowsOf
<1>6. RowsOf(s) \subseteq RowsOf(c)
  BY <1>3 DEF RowsOf
<1> QED BY <1>4, <1>5, <1>6 DEF c

\* In a sorted slab a key's records begin at its lower bound, if there are any.
LEMMA KeyBegins ==
  ASSUME NEW s \in Seq(Record), Sorted(s), NEW n \in Nat, NEW k \in Nat,
         NEW start, start = lower_bound(s, n, k)
  PROVE  /\ start \in 1..Len(s) + 1
         /\ \A j \in 1..Len(s) : IsAt(s[j], n, k) => j >= start
         /\ matches_name_key(s, start, n, k) <=> \E j \in 1..Len(s) : IsAt(s[j], n, k)
<1>0. Len(s) \in Nat /\ \A j \in 1..Len(s) : s[j] \in Record
  OBVIOUS
<1>1. /\ start \in 1..Len(s) + 1
      /\ start <= Len(s) => ~BeforeKey(s[start], n, k)
      /\ \A m \in 1..start - 1 : BeforeKey(s[m], n, k)
  BY <1>0, LowerBound
<1>2. ASSUME NEW j \in 1..Len(s), IsAt(s[j], n, k)
      PROVE  j >= start /\ IsAt(s[start], n, k)
  <2>1. ~BeforeKey(s[j], n, k)
    <3>1. s[j].name \in Nat /\ s[j].key \in Nat
      BY <1>0, RecordFields
    <3> QED BY <1>2, <3>1 DEF BeforeKey, IsAt
  <2>2. j >= start
    BY <1>0, <1>1, <2>1
  <2>3. start \in 1..Len(s) /\ (s[start] = s[j] \/ RecordBefore(s[start], s[j]))
    BY <1>0, <1>1, <2>2 DEF Sorted
  <2>4. s[start] \in Record /\ s[j] \in Record /\ ~BeforeKey(s[start], n, k)
    BY <1>0, <1>1, <2>3
  <2> QED BY <1>2, <2>2, <2>3, <2>4, NotBefore
<1>3. matches_name_key(s, start, n, k) => \E j \in 1..Len(s) : IsAt(s[j], n, k)
  BY <1>0, <1>1 DEF matches_name_key
<1>4. (\E j \in 1..Len(s) : IsAt(s[j], n, k)) => matches_name_key(s, start, n, k)
  BY <1>0, <1>1, <1>2 DEF matches_name_key
<1> QED BY <1>1, <1>2, <1>3, <1>4

\* What the loop of put_unique and remove_key removes is all of the key's rows.
LEMMA RunRows ==
  ASSUME NEW s \in Seq(Record), Sorted(s), NEW n \in Nat, NEW k \in Nat,
         NEW start, start = lower_bound(s, n, k)
  PROVE  RowsOf(RemoveRun(s, start, n, k)) = {r \in RowsOf(s) : ~IsAt(r, n, k)}
<1> DEFINE I == {i \in start..Len(s) : ~IsAt(s[i], n, k)}
           stop == FirstIndex(s, I)
           d == stop - start
<1>0. Len(s) \in Nat /\ \A j \in 1..Len(s) : s[j] \in Record
  OBVIOUS
<1>1. /\ start \in 1..Len(s) + 1
      /\ start <= Len(s) => ~BeforeKey(s[start], n, k)
      /\ \A m \in 1..start - 1 : BeforeKey(s[m], n, k)
  BY <1>0, LowerBound
<1>2. /\ stop \in I \cup {Len(s) + 1}
      /\ stop \in 1..Len(s) + 1
      /\ \A i \in I : stop <= i
  <2>1. I \subseteq 1..Len(s)
    BY <1>1
  <2> HIDE DEF I
  <2> QED BY <1>0, <2>1, FirstIndexIsLeast
<1>3. RemoveRun(s, start, n, k) = Cut(s, start, d)
  BY DEF RemoveRun
<1> HIDE DEF stop
<1>4. stop >= start /\ (stop <= Len(s) => ~IsAt(s[stop], n, k))
  BY <1>1, <1>2
<1>5. \A m \in start..stop - 1 : IsAt(s[m], n, k)
  BY <1>0, <1>1, <1>2
<1>6. d \in Nat /\ start + d = stop /\ start + d <= Len(s) + 1
  BY <1>1, <1>2, <1>4
<1> HIDE DEF d, I
<1>7. RowsOf(Cut(s, start, d)) = {s[j] : j \in 1..start - 1} \cup {s[j] : j \in stop..Len(s)}
  BY <1>1, <1>6, CutRows
<1>8. ASSUME NEW j \in 1..start - 1 PROVE j \in 1..Len(s) /\ ~IsAt(s[j], n, k)
  <2>1. j \in 1..Len(s) /\ BeforeKey(s[j], n, k)
    BY <1>0, <1>1
  <2>2. s[j].name \in Nat /\ s[j].key \in Nat
    BY <1>0, <2>1, RecordFields
  <2> QED BY <2>1, <2>2 DEF BeforeKey, IsAt
<1>9. ASSUME NEW j \in stop..Len(s) PROVE j \in 1..Len(s) /\ ~IsAt(s[j], n, k)
  <2>1. stop \in 1..Len(s) /\ start \in 1..Len(s) /\ j \in 1..Len(s)
    BY <1>0, <1>2, <1>4, <1>1
  <2>2. s[start] = s[stop] \/ RecordBefore(s[start], s[stop])
    BY <1>4, <2>1 DEF Sorted
  <2>3. s[stop] = s[j] \/ RecordBefore(s[stop], s[j])
    BY <2>1 DEF Sorted
  <2>4. /\ s[start] \in Record /\ s[stop] \in Record /\ s[j] \in Record
        /\ ~BeforeKey(s[start], n, k) /\ ~IsAt(s[stop], n, k)
    BY <1>0, <1>1, <1>4, <2>1
  <2>5. ~BeforeKey(s[stop], n, k)
    BY <2>2, <2>4, NotBefore
  <2> QED BY <2>1, <2>3, <2>4, <2>5, NotBefore
<1>10. ASSUME NEW j \in 1..Len(s), ~IsAt(s[j], n, k)
       PROVE  j \in 1..start - 1 \/ j \in stop..Len(s)
  BY <1>0, <1>1, <1>2, <1>5, <1>10
<1> DEFINE t == RemoveRun(s, start, n, k)
<1>11. RowsOf(t) = {s[j] : j \in 1..start - 1} \cup {s[j] : j \in stop..Len(s)}
  BY <1>3, <1>7
<1> HIDE DEF t
<1>12. ASSUME NEW r \in RowsOf(t) PROVE r \in RowsOf(s) /\ ~IsAt(r, n, k)
  BY <1>8, <1>9, <1>11 DEF RowsOf
<1>13. ASSUME NEW r \in RowsOf(s), ~IsAt(r, n, k) PROVE r \in RowsOf(t)
  <2>1. PICK j \in 1..Len(s) : r = s[j]
    BY DEF RowsOf
  <2>2. j \in 1..start - 1 \/ j \in stop..Len(s)
    BY <1>10, <1>13, <2>1
  <2> QED BY <1>11, <2>1, <2>2
<1> QED BY <1>12, <1>13 DEF t

----------------------------------------------------------------------------
(* What the slab operations do to the rows.                                *)

\* The rows of another key.
Others(rows, n, k) == {r \in rows : ~IsAt(r, n, k)}

\* put_unique leaves the other keys' rows and the new one, when they fit, and
\* is refused when they do not.
LEMMA PutUniqueRows ==
  ASSUME NEW s, GoodSlab(s), capacity_for(half) \in Nat,
         NEW n \in PlainTables, NEW k \in Keys, NEW v \in Vals,
         NEW op, op = put_unique(s, n, k, v),
         NEW rows, rows = Others(RowsOf(s), n, k) \cup {[name |-> n, key |-> k, val |-> v]}
  PROVE  \/ /\ op.ret = Ret("ok")
            /\ RowsOf(op.slab) = rows
            /\ Cardinality(rows) <= capacity_for(half)
         \/ /\ op.ret = Ret("Capacity")
            /\ op.slab = s
            /\ Cardinality(rows) > capacity_for(half)
<1> DEFINE start == lower_bound(s, n, k)
           t == RemoveRun(s, start, n, k)
           r == [name |-> n, key |-> k, val |-> v]
<1>1. /\ s \in Seq(Record) /\ Sorted(s) /\ OnePerKey(s)
      /\ n \in Nat /\ k \in Nat
      /\ r \in Record /\ IsAt(r, n, k)
  BY ArenaAssumption DEF GoodSlab, Record, Names, IsAt
<1>2. op = insert_at(t, start, r) /\ rows = Others(RowsOf(s), n, k) \cup {r}
  BY DEF put_unique
<1> HIDE DEF r
<1>3. t \in Seq(Record) /\ Sorted(t) /\ start \in 1..Len(t) + 1
  BY <1>1, RunRemoved
<1>4. RowsOf(t) = Others(RowsOf(s), n, k)
  BY <1>1, RunRows DEF Others
<1> HIDE DEF t, start
<1>5. Len(t) \in Nat /\ IsFiniteSet(RowsOf(t)) /\ Cardinality(RowsOf(t)) = Len(t)
  BY <1>3, RowsCounted
<1>6. r \notin RowsOf(t)
  BY <1>1, <1>4 DEF Others
<1>7. Cardinality(rows) = Len(t) + 1
  <2>1. rows = RowsOf(t) \cup {r}
    BY <1>2, <1>4
  <2>2. Cardinality(RowsOf(t) \cup {r}) = Cardinality(RowsOf(t)) + 1
    BY <1>5, <1>6, FS_AddElement
  <2> QED BY <1>5, <2>1, <2>2
<1>8. CASE Len(t) >= capacity_for(half)
  <2>1. op.ret = Ret("Capacity")
    BY <1>2, <1>8 DEF insert_at
  <2>2. op.slab = s
    BY <2>1, PutUnique
  <2> QED BY <1>5, <1>7, <1>8, <2>1, <2>2
<1>9. CASE ~(Len(t) >= capacity_for(half))
  <2>1. op.ret = Ret("ok") /\ op.slab = InsertRecord(t, start, r)
    BY <1>2, <1>9 DEF insert_at
  <2>2. RowsOf(op.slab) = rows
    BY <1>1, <1>2, <1>3, <1>4, <2>1, InsertRows
  <2> QED BY <1>5, <1>7, <1>9, <2>1, <2>2
<1> QED BY <1>8, <1>9

\* In a sorted slab a record is at its lower bound, if it is anywhere.
LEMMA PairFound ==
  ASSUME NEW s \in Seq(Record), Sorted(s), NEW r \in Record,
         NEW i, i = lower_bound_full(s, r.name, r.key, r.val)
  PROVE  /\ i \in 1..Len(s) + 1
         /\ (i <= Len(s) /\ s[i] = r) <=> r \in RowsOf(s)
<1>0. Len(s) \in Nat /\ \A j \in 1..Len(s) : s[j] \in Record
  OBVIOUS
<1>1. /\ i \in 1..Len(s) + 1
      /\ i <= Len(s) => ~RecordBefore(s[i], r)
      /\ \A m \in 1..i - 1 : RecordBefore(s[m], r)
  BY <1>0, LowerBoundFull DEF RecordBefore
<1>2. ASSUME NEW j \in 1..Len(s), s[j] = r
      PROVE  i <= Len(s) /\ s[i] = r
  <2>1. ~RecordBefore(s[j], r)
    BY <1>2, RecordOrder
  <2>2. j >= i
    BY <1>0, <1>1, <2>1
  <2>3. i \in 1..Len(s) /\ (s[i] = s[j] \/ RecordBefore(s[i], s[j]))
    BY <1>0, <1>1, <2>2 DEF Sorted
  <2> QED BY <1>0, <1>1, <1>2, <2>3
<1> QED BY <1>0, <1>1, <1>2 DEF RowsOf

\* put_multi adds the row, unless it is there already or the slab is full.
LEMMA PutMultiRows ==
  ASSUME NEW s, GoodSlab(s), capacity_for(half) \in Nat,
         NEW n \in MultiTables, NEW k \in Keys, NEW v \in Vals,
         NEW op, op = put_multi(s, n, k, v),
         NEW rows, rows = RowsOf(s) \cup {[name |-> n, key |-> k, val |-> v]}
  PROVE  \/ /\ op.ret = Ret("ok")
            /\ RowsOf(op.slab) = rows
            /\ Cardinality(rows) <= capacity_for(half)
         \/ /\ op.ret = Ret("Capacity")
            /\ op.slab = s
            /\ Cardinality(rows) > capacity_for(half)
<1> DEFINE i == lower_bound_full(s, n, k, v)
           r == [name |-> n, key |-> k, val |-> v]
<1>1. /\ s \in Seq(Record) /\ Sorted(s) /\ Len(s) <= capacity_for(half)
      /\ r \in Record /\ r.name = n /\ r.key = k /\ r.val = v
  BY DEF GoodSlab, Record, Names
<1>2. /\ rows = RowsOf(s) \cup {r}
      /\ op = IF i <= Len(s) /\ s[i] = r THEN [slab |-> s, ret |-> Ret("ok")]
                                          ELSE insert_at(s, i, r)
  BY DEF put_multi
<1> HIDE DEF r
<1>3. i \in 1..Len(s) + 1 /\ ((i <= Len(s) /\ s[i] = r) <=> r \in RowsOf(s))
  BY <1>1, PairFound
<1> HIDE DEF i
<1>4. Len(s) \in Nat /\ IsFiniteSet(RowsOf(s)) /\ Cardinality(RowsOf(s)) = Len(s)
  BY <1>1, RowsCounted
<1>5. CASE r \in RowsOf(s)
  <2>1. op = [slab |-> s, ret |-> Ret("ok")]
    BY <1>2, <1>3, <1>5
  <2>2. op.slab = s /\ op.ret = Ret("ok")
    BY <2>1
  <2>3. rows = RowsOf(s)
    BY <1>2, <1>5
  <2>4. Cardinality(rows) = Len(s)
    BY <1>4, <2>3
  <2> QED BY <1>1, <2>2, <2>3, <2>4
<1>6. CASE r \notin RowsOf(s) /\ Len(s) >= capacity_for(half)
  <2>1. op = insert_at(s, i, r)
    BY <1>2, <1>3, <1>6
  <2>2. op = [slab |-> s, ret |-> Ret("Capacity")]
    BY <1>6, <2>1 DEF insert_at
  <2>3. Cardinality(rows) = Len(s) + 1
    BY <1>2, <1>4, <1>6, FS_AddElement
  <2> QED BY <1>4, <1>6, <2>2, <2>3
<1>7. CASE r \notin RowsOf(s) /\ ~(Len(s) >= capacity_for(half))
  <2>1. op = insert_at(s, i, r)
    BY <1>2, <1>3, <1>7
  <2>2. op = [slab |-> InsertRecord(s, i, r), ret |-> Ret("ok")]
    BY <1>7, <2>1 DEF insert_at
  <2>3. Cardinality(rows) = Len(s) + 1
    BY <1>2, <1>4, <1>7, FS_AddElement
  <2>4. RowsOf(op.slab) = rows
    BY <1>1, <1>2, <1>3, <2>2, InsertRows
  <2> QED BY <1>4, <1>7, <2>2, <2>3, <2>4
<1> QED BY <1>5, <1>6, <1>7

\* remove_key removes the key's rows and says whether there were any.
LEMMA RemoveKeyRows ==
  ASSUME NEW s, GoodSlab(s), NEW n \in Names, NEW k \in Keys,
         NEW op, op = remove_key(s, n, k)
  PROVE  /\ RowsOf(op.slab) = Others(RowsOf(s), n, k)
         /\ op.ret = Ret(IF \E r \in RowsOf(s) : IsAt(r, n, k) THEN "removed" ELSE "absent")
<1> DEFINE start == lower_bound(s, n, k)
<1>1. s \in Seq(Record) /\ Sorted(s) /\ n \in Nat /\ k \in Nat
  BY ArenaAssumption DEF GoodSlab, Names
<1>2. /\ op.slab = RemoveRun(s, start, n, k)
      /\ op.ret = Ret(IF matches_name_key(s, start, n, k) THEN "removed" ELSE "absent")
  BY DEF remove_key
<1>3. RowsOf(RemoveRun(s, start, n, k)) = Others(RowsOf(s), n, k)
  BY <1>1, RunRows DEF Others
<1>4. matches_name_key(s, start, n, k) <=> \E j \in 1..Len(s) : IsAt(s[j], n, k)
  BY <1>1, KeyBegins
<1>5. (\E j \in 1..Len(s) : IsAt(s[j], n, k)) <=> \E r \in RowsOf(s) : IsAt(r, n, k)
  BY DEF RowsOf
<1> HIDE DEF start
<1> QED BY <1>2, <1>3, <1>4, <1>5

\* remove_pair removes the row and says whether it was there.
LEMMA RemovePairRows ==
  ASSUME NEW s, GoodSlab(s), NEW n \in Names, NEW k \in Keys, NEW v \in Vals,
         NEW op, op = remove_pair(s, n, k, v),
         NEW r, r = [name |-> n, key |-> k, val |-> v]
  PROVE  /\ RowsOf(op.slab) = RowsOf(s) \ {r}
         /\ op.ret = Ret(IF r \in RowsOf(s) THEN "removed" ELSE "absent")
<1> DEFINE i == lower_bound_full(s, n, k, v)
<1>1. /\ s \in Seq(Record) /\ Sorted(s)
      /\ r \in Record /\ r.name = n /\ r.key = k /\ r.val = v
  BY DEF GoodSlab, Record, Names
<1>2. op = IF i <= Len(s) /\ s[i] = r THEN [slab |-> RemoveRecord(s, i), ret |-> Ret("removed")]
                                       ELSE [slab |-> s, ret |-> Ret("absent")]
  BY DEF remove_pair
<1>3. i \in 1..Len(s) + 1 /\ ((i <= Len(s) /\ s[i] = r) <=> r \in RowsOf(s))
  BY <1>1, PairFound
<1> HIDE DEF i
<1>4. CASE r \in RowsOf(s)
  <2>1. i \in 1..Len(s) /\ s[i] = r /\ 1 \in Nat /\ i + 1 <= Len(s) + 1
    BY <1>1, <1>3, <1>4
  <2>2. RowsOf(RemoveRecord(s, i)) = {s[j] : j \in 1..i - 1} \cup {s[j] : j \in i + 1..Len(s)}
    BY <1>1, <1>3, <2>1, CutRows DEF RemoveRecord
  <2>3. \A j \in 1..Len(s) : s[j] = s[i] => j = i
    BY <1>1, <2>1, RecordOrder DEF Sorted
  <2>4. ASSUME NEW q \in RowsOf(RemoveRecord(s, i)) PROVE q \in RowsOf(s) \ {r}
    <3>1. PICK j \in 1..Len(s) : q = s[j] /\ j # i
      BY <1>1, <2>1, <2>2
    <3> QED BY <2>1, <2>3, <3>1 DEF RowsOf
  <2>5. ASSUME NEW q \in RowsOf(s) \ {r} PROVE q \in RowsOf(RemoveRecord(s, i))
    <3>1. PICK j \in 1..Len(s) : q = s[j] /\ j # i
      BY <2>1 DEF RowsOf
    <3>2. j \in 1..i - 1 \/ j \in i + 1..Len(s)
      BY <1>1, <2>1, <3>1
    <3> QED BY <2>2, <3>1, <3>2
  <2>6. op = [slab |-> RemoveRecord(s, i), ret |-> Ret("removed")]
    BY <1>2, <2>1
  <2> QED BY <1>4, <2>4, <2>5, <2>6
<1>5. CASE r \notin RowsOf(s)
  <2>1. op = [slab |-> s, ret |-> Ret("absent")]
    BY <1>2, <1>3, <1>5
  <2> QED BY <1>5, <2>1
<1> QED BY <1>4, <1>5

----------------------------------------------------------------------------
(* What point reads and scans find.                                        *)

\* The rows a cursor still has before it, in the records from its index on.
Rest(s, c) ==
  {r \in {s[i] : i \in c.idx..Len(s)} :
     r.name = c.name /\ lo_ok(c.lo, r.key) /\ hi_ok(c.hi, r.key)}

Cursors == [open: BOOLEAN, name: Names \cup {0}, lo: Bounds, hi: Bounds, idx: Nat]

\* The fields of a cursor and of its bounds.
LEMMA CursorFields ==
  ASSUME NEW c \in Cursors
  PROVE  /\ c.name \in Nat /\ c.idx \in Nat
         /\ c.lo.key \in Nat /\ c.hi.key \in Nat
         /\ c.hi.kind \in {"Unbounded", "Exact", "Included", "Excluded"}
         /\ c.lo.kind \in {"Unbounded", "Exact", "Included", "Excluded"}
<1>1. \A n \in Names \cup {0} : n \in Nat
  BY ArenaAssumption DEF Names
<1>2. ASSUME NEW b \in Bounds
      PROVE  b.key \in Nat /\ b.kind \in {"Unbounded", "Exact", "Included", "Excluded"}
  <2>1. CASE b = Unbounded
    BY <2>1 DEF Unbounded
  <2>2. CASE b \in [kind: {"Included", "Excluded"}, key: Keys] \cup [kind: {"Exact"}, key: Keys]
    BY <2>2, ArenaAssumption
  <2> QED BY <2>1, <2>2 DEF Bounds, BoundSpec
<1>3. c.name \in Names \cup {0} /\ c.lo \in Bounds /\ c.hi \in Bounds /\ c.idx \in Nat
  BY DEF Cursors
<1> QED BY <1>1, <1>2, <1>3

\* The first of a table's rows, in the abstract order, is the one that comes
\* first in the slab.
LEMMA FirstRecord ==
  ASSUME NEW s \in Seq(Record), Sorted(s), NEW rows \in SUBSET RowsOf(s),
         NEW i \in 1..Len(s), s[i] \in rows,
         \A j \in 1..Len(s) : s[j] \in rows => j >= i /\ s[j].name = s[i].name
  PROVE  Abstract!First(rows) = s[i]
<1> DEFINE P(r) == \A q \in rows \ {r} : Abstract!RowBefore(r, q)
<1>1. Len(s) \in Nat /\ \A j \in 1..Len(s) : s[j] \in Record
  OBVIOUS
<1>2. ASSUME NEW q \in rows \ {s[i]}
      PROVE  Abstract!RowBefore(s[i], q)
  <2>1. PICK j \in 1..Len(s) : q = s[j]
    BY DEF RowsOf
  <2>2. i < j /\ s[j].name = s[i].name
    BY <2>1
  <2>3. RecordBefore(s[i], s[j])
    BY <2>2 DEF Sorted
  <2>4. s[i].name \in Nat /\ s[j].name \in Nat
    BY <1>1, RecordFields
  <2> QED BY <2>1, <2>2, <2>3, <2>4
        DEF RecordBefore, BeforeFull, BeforeKey, Abstract!RowBefore
<1>3. P(s[i])
  BY <1>2
<1>4. ASSUME NEW r \in rows, P(r)
      PROVE  r = s[i]
  <2>1. SUFFICES ASSUME r # s[i] PROVE FALSE
    OBVIOUS
  <2>2. Abstract!RowBefore(r, s[i]) /\ Abstract!RowBefore(s[i], r)
    BY <1>2, <1>4, <2>1
  <2>3. PICK j \in 1..Len(s) : r = s[j]
    BY DEF RowsOf
  <2>4. /\ r.key \in Nat /\ r.val \in Nat
        /\ s[i].key \in Nat /\ s[i].val \in Nat
    BY <1>1, <2>3, RecordFields
  <2> QED BY <2>2, <2>4 DEF Abstract!RowBefore
<1>5. Abstract!First(rows) = CHOOSE r \in rows : P(r)
  BY DEF Abstract!First
<1> HIDE DEF P
<1> QED BY <1>3, <1>4, <1>5

\* A point read finds the first of the key's rows, if the key has any.
LEMMA GetFinds ==
  ASSUME NEW s \in Seq(Record), Sorted(s), NEW n \in Nat, NEW k \in Nat,
         NEW i, i = lower_bound(s, n, k),
         NEW rows, rows = {r \in RowsOf(s) : IsAt(r, n, k)}
  PROVE  /\ matches_name_key(s, i, n, k) <=> rows # {}
         /\ matches_name_key(s, i, n, k) => Abstract!First(rows) = s[i]
<1>1. /\ i \in 1..Len(s) + 1
      /\ \A j \in 1..Len(s) : IsAt(s[j], n, k) => j >= i
      /\ matches_name_key(s, i, n, k) <=> \E j \in 1..Len(s) : IsAt(s[j], n, k)
  BY KeyBegins
<1>2. rows # {} <=> \E j \in 1..Len(s) : IsAt(s[j], n, k)
  BY DEF RowsOf
<1>3. ASSUME matches_name_key(s, i, n, k)
      PROVE  Abstract!First(rows) = s[i]
  <2>1. i \in 1..Len(s) /\ IsAt(s[i], n, k)
    BY <1>1, <1>3 DEF matches_name_key
  <2>2. rows \in SUBSET RowsOf(s) /\ s[i] \in rows
    BY <2>1 DEF RowsOf
  <2>3. \A j \in 1..Len(s) : s[j] \in rows => j >= i /\ s[j].name = s[i].name
    BY <1>1, <2>1 DEF IsAt
  <2> QED BY <2>1, <2>2, <2>3, FirstRecord
<1> QED BY <1>1, <1>2, <1>3

\* A new cursor has all the rows of its range before it.
LEMMA SeedRows ==
  ASSUME NEW s \in Seq(Record), Sorted(s), NEW n \in Names,
         NEW lo \in Bounds, NEW hi \in Bounds,
         lo.kind = "Exact" \/ hi.kind = "Exact" => lo = hi,
         NEW c, c = [open |-> TRUE, name |-> n, lo |-> lo, hi |-> hi, idx |-> seed(s, n, lo)],
         seed(s, n, lo) \in 1..Len(s) + 1
  PROVE  Ahead(s, c) /\ Rest(s, c) = Abstract!RowsIn(RowsOf(s), n, lo, hi)
<1>1. /\ Len(s) \in Nat
      /\ \A j \in 1..Len(s) : /\ s[j] \in Record /\ s[j].name \in Nat /\ s[j].key \in Nat
  BY RecordFields
<1>2. /\ c.open /\ c.name = n /\ c.lo = lo /\ c.hi = hi
      /\ c.idx = seed(s, n, lo) /\ c.idx \in 1..Len(s) + 1
  OBVIOUS
<1>3. c \in Cursors
  BY <1>1 DEF Cursors
<1>4. n \in Nat /\ lo.key \in Nat /\ hi.key \in Nat
  BY <1>2, <1>3, CursorFields
<1>r. ASSUME \A j \in 1..Len(s) :
               s[j].name = n /\ lo_ok(lo, s[j].key) /\ hi_ok(hi, s[j].key)
                 => j \in c.idx..Len(s)
      PROVE  Rest(s, c) = Abstract!RowsIn(RowsOf(s), n, lo, hi)
  <2>1. \A k : /\ lo_ok(lo, k) <=> Abstract!AboveLo(lo, k)
              /\ hi_ok(hi, k) <=> Abstract!BelowHi(hi, k)
    BY DEF lo_ok, hi_ok, Abstract!AboveLo, Abstract!BelowHi
  <2>2. ASSUME NEW r \in Rest(s, c) PROVE r \in Abstract!RowsIn(RowsOf(s), n, lo, hi)
    <3>1. PICK j \in c.idx..Len(s) : r = s[j]
      BY DEF Rest
    <3>2. r \in RowsOf(s)
      BY <1>1, <1>2, <3>1 DEF RowsOf
    <3>3. r.name = n /\ lo_ok(lo, r.key) /\ hi_ok(hi, r.key)
      BY <1>2 DEF Rest
    <3> QED BY <3>2, <3>3, Zenon
          DEF Abstract!RowsIn, lo_ok, hi_ok, Abstract!AboveLo, Abstract!BelowHi
  <2>3. ASSUME NEW r \in Abstract!RowsIn(RowsOf(s), n, lo, hi) PROVE r \in Rest(s, c)
    <3>1. PICK j \in 1..Len(s) : r = s[j]
      BY DEF Abstract!RowsIn, RowsOf
    <3>2. r.name = n /\ lo_ok(lo, r.key) /\ hi_ok(hi, r.key)
      BY <2>1 DEF Abstract!RowsIn
    <3>3. j \in c.idx..Len(s)
      BY <1>r, <3>1, <3>2
    <3> QED BY <1>2, <3>1, <3>2, <3>3 DEF Rest
  <2> QED BY <2>2, <2>3
<1>5. CASE lo.kind = "Unbounded"
  <2> DEFINE I == {i \in 1..Len(s) : s[i].name >= n}
  <2>1. c.idx = FirstIndex(s, I)
    BY <1>2, <1>5 DEF seed, lower_bound_name
  <2>2. I \subseteq 1..Len(s)
    OBVIOUS
  <2> HIDE DEF I
  <2>3. c.idx \in I \cup {Len(s) + 1} /\ \A i \in I : c.idx <= i
    <3>1. /\ FirstIndex(s, I) \in I \cup {Len(s) + 1}
          /\ \A i \in I : FirstIndex(s, I) <= i
      BY <1>1, <2>2, FirstIndexIsLeast
    <3> QED BY <2>1, <3>1
  <2>4. ASSUME NEW j \in c.idx..Len(s) PROVE s[j].name >= n
    <3>1. c.idx \in 1..Len(s) /\ j \in 1..Len(s)
      BY <1>1, <1>2
    <3>2. s[c.idx].name >= n
      BY <1>1, <2>3, <3>1 DEF I
    <3>3. j = c.idx \/ RecordBefore(s[c.idx], s[j])
      BY <1>1, <3>1 DEF Sorted
    <3> QED BY <1>1, <1>4, <3>1, <3>2, <3>3 DEF RecordBefore, BeforeFull, BeforeKey
  <2>5. ASSUME NEW j \in 1..Len(s), s[j].name = n PROVE j \in c.idx..Len(s)
    <3>1. j \in I
      BY <1>4, <2>5 DEF I
    <3> QED BY <1>1, <1>2, <2>3, <3>1
  <2>6. Ahead(s, c)
    BY <1>2, <1>5, <2>4 DEF Ahead
  <2>7. Rest(s, c) = Abstract!RowsIn(RowsOf(s), n, lo, hi)
    BY <1>r, <2>5
  <2> QED BY <2>6, <2>7
<1>6. CASE lo.kind # "Unbounded"
  <2>1. /\ c.idx = lower_bound(s, n, lo.key)
        /\ c.idx <= Len(s) => ~BeforeKey(s[c.idx], n, lo.key)
        /\ \A m \in 1..c.idx - 1 : BeforeKey(s[m], n, lo.key)
    BY <1>1, <1>2, <1>6, LowerBound DEF seed
  <2>2. ASSUME NEW j \in c.idx..Len(s) PROVE ~BeforeKey(s[j], n, lo.key)
    <3>1. c.idx \in 1..Len(s) /\ j \in 1..Len(s)
      BY <1>1, <1>2
    <3>2. s[c.idx] = s[j] \/ RecordBefore(s[c.idx], s[j])
      BY <1>1, <3>1 DEF Sorted
    <3> QED BY <1>1, <1>4, <2>1, <3>1, <3>2, NotBefore
  <2>3. ASSUME NEW j \in 1..Len(s), s[j].name = n, lo_ok(lo, s[j].key), hi_ok(hi, s[j].key)
        PROVE  j \in c.idx..Len(s)
    <3>1. ~BeforeKey(s[j], n, lo.key)
      <4>1. s[j].key >= lo.key
        BY <1>1, <1>3, <1>4, <1>6, <2>3 DEF lo_ok, hi_ok
      <4> QED BY <1>1, <1>4, <2>3, <4>1 DEF BeforeKey
    <3> QED BY <1>1, <1>2, <2>1, <3>1
  <2>4. Ahead(s, c)
    BY <1>2, <1>6, <2>2 DEF Ahead
  <2>5. Rest(s, c) = Abstract!RowsIn(RowsOf(s), n, lo, hi)
    BY <1>r, <2>3
  <2> QED BY <2>4, <2>5
<1> QED BY <1>5, <1>6

\* A step of an iterator yields the first row it has before it, or ends when
\* there is none: what it skips is below the range, and what stops it is above
\* the range or behind the table.
LEMMA NextRows ==
  ASSUME NEW s \in Seq(Record), Sorted(s), NEW c \in Cursors,
         c.idx \in 1..Len(s) + 1, Ahead(s, c),
         NEW i, i = next_idx(s, c)
  PROVE  /\ i \in c.idx..Len(s) + 1
         /\ Yields(s, c, i) =>
              /\ i \in 1..Len(s)
              /\ Rest(s, c) # {}
              /\ Abstract!First(Rest(s, c)) = s[i]
              /\ Rest(s, [c EXCEPT !.idx = i + 1]) = Rest(s, c) \ {s[i]}
         /\ ~Yields(s, c, i) => Rest(s, c) = {} /\ Rest(s, [c EXCEPT !.idx = i]) = {}
<1>1. /\ Len(s) \in Nat
      /\ \A j \in 1..Len(s) : s[j] \in Record /\ s[j].name \in Nat /\ s[j].key \in Nat
  BY RecordFields
<1>2. /\ c.name \in Nat /\ c.idx \in Nat
      /\ c.lo.key \in Nat /\ c.hi.key \in Nat
      /\ c.hi.kind \in {"Unbounded", "Exact", "Included", "Excluded"}
  BY CursorFields
<1> DEFINE stops(j) == s[j].name # c.name \/ ~hi_ok(c.hi, s[j].key) \/ lo_ok(c.lo, s[j].key)
           I == {j \in c.idx..Len(s) : stops(j)}
<1>3. i \in I \cup {Len(s) + 1} /\ \A j \in I : i <= j
  <2>1. I \subseteq 1..Len(s)
    BY <1>1
  <2>2. i = FirstIndex(s, I)
    BY DEF next_idx
  <2> HIDE DEF I
  <2>3. /\ FirstIndex(s, I) \in I \cup {Len(s) + 1}
        /\ \A j \in I : FirstIndex(s, I) <= j
    BY <1>1, <2>1, FirstIndexIsLeast
  <2> QED BY <2>2, <2>3
<1>4. i \in c.idx..Len(s) + 1 /\ (i <= Len(s) => i \in 1..Len(s) /\ stops(i))
  BY <1>1, <1>3
<1>5. ASSUME NEW j \in c.idx..i - 1
      PROVE  j \in 1..Len(s) /\ ~lo_ok(c.lo, s[j].key)
  <2>1. j \in c.idx..Len(s) /\ j \in 1..Len(s) /\ ~(i <= j)
    BY <1>1, <1>4
  <2>2. j \notin I
    BY <1>3, <2>1
  <2> QED BY <2>1, <2>2
<1> HIDE DEF I
<1>6. ASSUME Yields(s, c, i)
      PROVE  /\ i \in 1..Len(s)
             /\ Rest(s, c) # {}
             /\ Abstract!First(Rest(s, c)) = s[i]
             /\ Rest(s, [c EXCEPT !.idx = i + 1]) = Rest(s, c) \ {s[i]}
  <2>1. i \in 1..Len(s) /\ s[i].name = c.name /\ hi_ok(c.hi, s[i].key) /\ stops(i)
    BY <1>4, <1>6 DEF Yields
  <2>2. i \in c.idx..Len(s) /\ lo_ok(c.lo, s[i].key)
    BY <1>4, <2>1
  <2>3. s[i] \in Rest(s, c)
    BY <2>1, <2>2 DEF Rest
  <2>4. \A j \in 1..Len(s) : s[j] = s[i] => j = i
    BY <1>1, <2>1, RecordOrder DEF Sorted
  <2>5. ASSUME NEW r \in Rest(s, c)
        PROVE  \E j \in i..Len(s) : r = s[j] /\ r.name = c.name
    <3>1. PICK j \in c.idx..Len(s) : r = s[j]
      BY DEF Rest
    <3>2. r.name = c.name /\ lo_ok(c.lo, s[j].key)
      BY <3>1 DEF Rest
    <3>3. j \notin c.idx..i - 1
      BY <1>5, <3>2
    <3> QED BY <1>1, <1>4, <3>1, <3>2, <3>3
  <2>6. Rest(s, c) \in SUBSET RowsOf(s)
    BY <1>1, <2>1, <2>5 DEF RowsOf
  <2>7. \A j \in 1..Len(s) : s[j] \in Rest(s, c) => j >= i /\ s[j].name = s[i].name
    <3> SUFFICES ASSUME NEW j \in 1..Len(s), s[j] \in Rest(s, c)
                 PROVE  j >= i /\ s[j].name = s[i].name
      OBVIOUS
    <3>1. PICK m \in i..Len(s) : s[j] = s[m] /\ s[j].name = c.name
      BY <2>5
    <3>2. j = m
      BY <1>1, <2>1, <3>1, RecordOrder DEF Sorted
    <3> QED BY <2>1, <3>1, <3>2
  <2>8. Abstract!First(Rest(s, c)) = s[i]
    BY <2>1, <2>3, <2>6, <2>7, FirstRecord
  <2> DEFINE d == [c EXCEPT !.idx = i + 1]
  <2>9. d.idx = i + 1 /\ d.name = c.name /\ d.lo = c.lo /\ d.hi = c.hi
    BY DEF Cursors
  <2> HIDE DEF d
  <2>10. ASSUME NEW r \in Rest(s, d) PROVE r \in Rest(s, c) \ {s[i]}
    <3>1. PICK j \in i + 1..Len(s) : r = s[j]
      BY <2>9 DEF Rest
    <3>2. j \in c.idx..Len(s) /\ j \in 1..Len(s) /\ j # i
      BY <1>1, <1>4, <2>1, <3>1
    <3>3. r.name = c.name /\ lo_ok(c.lo, r.key) /\ hi_ok(c.hi, r.key)
      BY <2>9 DEF Rest
    <3>4. r # s[i]
      BY <2>4, <3>1, <3>2
    <3>5. r \in Rest(s, c)
      BY <3>1, <3>2, <3>3 DEF Rest
    <3> QED BY <3>4, <3>5
  <2>11. ASSUME NEW r \in Rest(s, c) \ {s[i]} PROVE r \in Rest(s, d)
    <3>1. PICK j \in i..Len(s) : r = s[j]
      BY <2>5
    <3>2. j \in i + 1..Len(s)
      BY <2>1, <3>1
    <3>3. r.name = c.name /\ lo_ok(c.lo, r.key) /\ hi_ok(c.hi, r.key)
      BY DEF Rest
    <3> QED BY <2>9, <3>1, <3>2, <3>3 DEF Rest
  <2>12. Rest(s, d) = Rest(s, c) \ {s[i]}
    BY <2>10, <2>11
  <2> QED BY <2>1, <2>3, <2>8, <2>12 DEF d
<1>7. ASSUME ~Yields(s, c, i)
      PROVE  Rest(s, c) = {} /\ Rest(s, [c EXCEPT !.idx = i]) = {}
  <2>1. ASSUME NEW j \in i..Len(s), s[j].name = c.name, hi_ok(c.hi, s[j].key)
        PROVE  FALSE
    <3>1. i \in 1..Len(s) /\ j \in 1..Len(s)
      BY <1>1, <1>4
    <3>2. s[i].name # c.name \/ ~hi_ok(c.hi, s[i].key)
      BY <1>7, <3>1 DEF Yields
    <3>3. \/ s[i].name < s[j].name
          \/ s[i].name = s[j].name /\ s[i].key <= s[j].key
      <4>1. i = j \/ RecordBefore(s[i], s[j])
        BY <1>1, <3>1 DEF Sorted
      <4> QED BY <1>1, <3>1, <4>1 DEF RecordBefore, BeforeFull, BeforeKey
    <3>4. s[i].name >= c.name
      <4>1. i \in c.idx..Len(s)
        BY <1>1, <1>4, <3>1
      <4> QED BY <1>1, <1>2, <3>1, <4>1 DEF Ahead, BeforeKey
    <3>5. s[i].name = c.name /\ ~hi_ok(c.hi, s[i].key) /\ s[i].key <= s[j].key
      BY <1>1, <1>2, <2>1, <3>1, <3>2, <3>3, <3>4
    <3>6. CASE c.hi.kind = "Exact"
      <4>1. c.lo = c.hi /\ ~BeforeKey(s[i], c.name, c.lo.key)
        BY <1>1, <1>4, <3>1, <3>6 DEF Ahead
      <4>2. s[i].key >= c.hi.key
        BY <1>1, <1>2, <3>1, <3>5, <4>1 DEF BeforeKey
      <4> QED BY <1>1, <1>2, <2>1, <3>1, <3>5, <3>6, <4>2 DEF hi_ok
    <3>7. CASE c.hi.kind # "Exact"
      BY <1>1, <1>2, <2>1, <3>1, <3>5, <3>7 DEF hi_ok
    <3> QED BY <3>6, <3>7
  <2>2. ASSUME NEW r \in Rest(s, c) PROVE FALSE
    <3>1. PICK j \in c.idx..Len(s) : r = s[j]
      BY DEF Rest
    <3>2. s[j].name = c.name /\ lo_ok(c.lo, s[j].key) /\ hi_ok(c.hi, s[j].key)
      BY <3>1 DEF Rest
    <3>3. j \notin c.idx..i - 1
      BY <1>5, <3>2
    <3>4. j \in i..Len(s)
      BY <1>1, <1>4, <3>1, <3>3
    <3> QED BY <2>1, <3>2, <3>4
  <2> DEFINE d == [c EXCEPT !.idx = i]
  <2>3. d.idx = i /\ d.name = c.name /\ d.hi = c.hi
    BY DEF Cursors
  <2> HIDE DEF d
  <2>4. ASSUME NEW r \in Rest(s, d) PROVE FALSE
    <3>1. PICK j \in i..Len(s) : r = s[j]
      BY <2>3 DEF Rest
    <3>2. s[j].name = c.name /\ hi_ok(c.hi, s[j].key)
      BY <2>3, <3>1 DEF Rest
    <3> QED BY <2>1, <3>1, <3>2
  <2>5. Rest(s, c) = {} /\ Rest(s, d) = {}
    BY <2>2, <2>4
  <2> QED BY <2>5 DEF d
<1> QED BY <1>4, <1>6, <1>7

----------------------------------------------------------------------------
(* The refinement mapping from one state to the next.                      *)

LEMMA NextViews ==
  /\ Abstract!vars = <<FALSE, tx, Cap, RowsOf(base), RowsOf(work), cursor.open, Todo, ret>>
  /\ Abstract!vars' = <<FALSE, tx', Cap', RowsOf(base'), RowsOf(work'), cursor'.open, Todo', ret'>>
BY DEF Abstract!vars, Cap, Todo, RowsOf

\* What the mapped capacity and the mapped scan depend on.
LEMMA NextCap ==
  /\ UNCHANGED <<tx, bufLen>> => Cap' = Cap
  /\ bufLen' = bufLen /\ tx # "closed" /\ tx' # "closed" => Cap' = Cap
  /\ tx' = "closed" => Cap' = 0
BY DEF Cap, capacity_for, half

LEMMA NextTodo ==
  /\ UNCHANGED <<tx, base, work, cursor>> => Todo' = Todo
  /\ ~cursor.open => Todo = {}
  /\ ~cursor'.open => Todo' = {}
BY DEF Todo, Pending, Slab

\* A live iterator's scan, and the rows a call of the transaction sees.
LEMMA TodoIsRest ==
  /\ cursor.open => Todo = Rest(Slab, cursor)
  /\ cursor'.open => Todo' = Rest(Slab', cursor')
  /\ Abstract!Visible = RowsOf(Slab)
<1>1. cursor.open => Todo = Rest(Slab, cursor)
  BY DEF Todo, Pending, Rest
<1>2. cursor'.open => Todo' = Rest(Slab', cursor')
  BY DEF Todo, Pending, Rest, lo_ok, hi_ok
<1>3. Abstract!Visible = RowsOf(Slab)
  BY DEF Abstract!Visible, RowsOf, Slab
<1> QED BY <1>1, <1>2, <1>3

\* A step that leaves the transaction, the slabs and the iterator alone.
Stays == UNCHANGED <<tx, bufLen, base, work, cursor>>

LEMMA StaysViews ==
  ASSUME Stays
  PROVE  /\ Slab' = Slab /\ Cap' = Cap /\ Todo' = Todo
         /\ MapInv => CursorAhead'
<1>1. Slab' = Slab /\ Cap' = Cap /\ Todo' = Todo
  BY NextCap, NextTodo DEF Stays, Slab
<1>2. MapInv => CursorAhead'
  BY <1>1 DEF Stays, MapInv, CursorAhead, Ahead, BeforeKey
<1> QED BY <1>1, <1>2

\* The facts about the slab that every step needs.
LEMMA MapFacts ==
  ASSUME MapInv
  PROVE  /\ Slab \in Seq(Record) /\ Sorted(Slab)
         /\ GoodSlab(work) /\ capacity_for(half) \in Nat
         /\ cursor \in Cursors
         /\ cursor.open => /\ tx \in {"read", "write"}
                           /\ cursor.idx \in 1..Len(Slab) + 1
                           /\ Ahead(Slab, cursor)
         /\ ~cursor.open => cursor = NoCursor
<1>1. Inv /\ CursorAhead
  BY DEF MapInv
<1>2. Slab \in Seq(Record) /\ capacity_for(half) \in Nat
  BY <1>1, InvFacts
<1>3. Sorted(Slab) /\ GoodSlab(work)
  BY <1>1 DEF Inv, GoodSlab, Slab
<1>4. cursor \in Cursors
  BY <1>1 DEF Inv, TypeOK, Cursors
<1>5. ~NoCursor.open
  BY DEF NoCursor
<1> QED BY <1>1, <1>2, <1>3, <1>4, <1>5 DEF Inv, TypeOK, CursorAhead

----------------------------------------------------------------------------
(* The calls.                                                              *)

\* A write call stages what its operation leaves, or is refused, or panics
\* because an iterator is alive.
LEMMA WriteOpViews ==
  ASSUME MapInv, NEW STATE encodes, NEW STATE op, WriteOp(encodes, op)
  PROVE  /\ tx = "write" /\ bufLen' = bufLen /\ base' = base
         /\ CursorAhead'
         /\ \/ ~encodes /\ ret' = Ret("TooLarge") /\ Stays
            \/ /\ ret' = Ret("panic") /\ tx' = "idle"
               /\ work' = <<>> /\ cursor' = NoCursor
            \/ /\ encodes /\ ~cursor.open /\ cursor' = cursor /\ tx' = tx
               /\ work' = op.slab /\ ret' = op.ret
<1>1. tx = "write" /\ bufLen' = bufLen /\ base' = base
  BY DEF WriteOp
<1>3. CASE ~encodes /\ ret' = Ret("TooLarge") /\ UNCHANGED <<tx, work, cursor>>
  <2>1. Stays
    BY <1>1, <1>3 DEF Stays
  <2> QED BY <1>1, <1>3, <2>1, StaysViews
<1>4. CASE encodes /\ cursor.open /\ EndTx("panic")
  BY <1>1, <1>4 DEF EndTx, NoCursor, CursorAhead
<1>5. CASE encodes /\ ~cursor.open /\ work' = op.slab /\ ret' = op.ret /\ UNCHANGED <<tx, cursor>>
  BY <1>1, <1>5 DEF CursorAhead
<1> QED BY <1>3, <1>4, <1>5 DEF WriteOp

\* The abstract store counts rows as the proofs do.
LEMMA SameCardinality == \A S : Abstract!Cardinality(S) = Cardinality(S)
BY DEF Abstract!Cardinality, Cardinality

\* The abstract store's answers to a panic and to a call that stages nothing.
LEMMA PanicMaps ==
  ASSUME tx = "write", UNCHANGED <<bufLen, base>>,
         tx' = "idle", work' = <<>>, cursor' = NoCursor, ret' = Ret("panic")
  PROVE  Abstract!Rollback(Abstract!Ret("panic"))
<1>1. RowsOf(work') = {} /\ Cap' = Cap /\ Todo' = {} /\ cursor'.open = FALSE
  BY NextCap, NextTodo DEF RowsOf, NoCursor
<1> QED BY <1>1, NextViews
        DEF Abstract!Rollback, Abstract!vars, Abstract!Ret, Abstract!NoRow, Ret, NoRow

LEMMA StageMaps ==
  ASSUME MapInv, NEW STATE encodes, NEW STATE op, WriteOp(encodes, op),
         NEW STATE rows, NEW STATE tooLarge, tooLarge \in BOOLEAN, tooLarge <=> ~encodes,
         \/ op.ret = Ret("ok") /\ RowsOf(op.slab) = rows /\ Cardinality(rows) <= capacity_for(half)
         \/ op.ret = Ret("Capacity") /\ op.slab = work /\ Cardinality(rows) > capacity_for(half)
  PROVE  /\ Abstract!Stage(rows, tooLarge) \/ Abstract!Rollback(Abstract!Ret("panic"))
         /\ CursorAhead'
<1>0. CursorAhead'
  BY WriteOpViews
<1>1. tx = "write" /\ bufLen' = bufLen /\ base' = base
  BY WriteOpViews
<1>2. CASE ~encodes /\ ret' = Ret("TooLarge") /\ Stays
  <2>1. Cap' = Cap /\ Todo' = Todo
    BY <1>2, StaysViews
  <2>2. Abstract!Refused(tooLarge)
    BY <1>2, <2>1, NextViews
       DEF Stays, Abstract!Refused, Abstract!vars, Abstract!Ret, Abstract!NoRow, Ret, NoRow
  <2>3. Abstract!Stage(rows, tooLarge)
    BY <1>1, <1>2, <2>1, <2>2, NextViews DEF Stays, Abstract!Stage, Abstract!vars
  <2> QED BY <1>0, <2>3
<1>3. CASE ret' = Ret("panic") /\ tx' = "idle" /\ work' = <<>> /\ cursor' = NoCursor
  BY <1>0, <1>1, <1>3, PanicMaps
<1>4. CASE /\ encodes /\ ~cursor.open /\ cursor' = cursor /\ tx' = tx
           /\ work' = op.slab /\ ret' = op.ret
  <2>1. Cap' = Cap /\ Todo' = {} /\ Todo = {} /\ Cap = capacity_for(half)
    BY <1>1, <1>4, NextCap, NextTodo DEF Cap
  <2>2. ~tooLarge
    BY <1>4
  <2>3. UNCHANGED <<tx, Cap, RowsOf(base), cursor.open, Todo>>
    BY <1>1, <1>4, <2>1, NextViews DEF Abstract!vars
  <2>4. ASSUME op.ret = Ret("ok"), RowsOf(op.slab) = rows, Cardinality(rows) <= capacity_for(half)
        PROVE  Abstract!Stage(rows, tooLarge)
    <3>1. ret' = Ret("ok") /\ RowsOf(work)' = rows /\ Cardinality(rows) <= Cap
      BY <1>4, <2>1, <2>4, NextViews DEF Abstract!vars
    <3> QED BY <1>1, <1>4, <2>2, <2>3, <3>1, SameCardinality
            DEF Abstract!Stage, Abstract!Ret, Abstract!NoRow, Ret, NoRow, Cap, Todo
  <2>5. ASSUME op.ret = Ret("Capacity"), op.slab = work, Cardinality(rows) > capacity_for(half)
        PROVE  Abstract!Stage(rows, tooLarge)
    <3>1. ret' = Ret("Capacity") /\ RowsOf(work)' = RowsOf(work) /\ Cardinality(rows) > Cap
      BY <1>4, <2>1, <2>5, NextViews DEF Abstract!vars
    <3> QED BY <1>1, <1>4, <2>2, <2>3, <3>1, SameCardinality
            DEF Abstract!Stage, Abstract!Ret, Abstract!NoRow, Ret, NoRow, Cap, Todo
  <2> QED BY <1>0, <2>4, <2>5
<1> QED BY <1>2, <1>3, <1>4, WriteOpViews

LEMMA UnstageMaps ==
  ASSUME MapInv, NEW STATE encodes, NEW STATE op, WriteOp(encodes, op),
         NEW STATE rows, NEW STATE tooLarge, tooLarge \in BOOLEAN, tooLarge <=> ~encodes,
         op.ret = Ret(IF rows \cap RowsOf(work) = {} THEN "absent" ELSE "removed"),
         RowsOf(op.slab) = RowsOf(work) \ rows
  PROVE  /\ Abstract!Unstage(rows, tooLarge) \/ Abstract!Rollback(Abstract!Ret("panic"))
         /\ CursorAhead'
<1>0. CursorAhead'
  BY WriteOpViews
<1>1. tx = "write" /\ bufLen' = bufLen /\ base' = base
  BY WriteOpViews
<1>2. CASE ~encodes /\ ret' = Ret("TooLarge") /\ Stays
  <2>1. Cap' = Cap /\ Todo' = Todo
    BY <1>2, StaysViews
  <2>2. Abstract!Refused(tooLarge)
    BY <1>2, <2>1, NextViews
       DEF Stays, Abstract!Refused, Abstract!vars, Abstract!Ret, Abstract!NoRow, Ret, NoRow
  <2>3. Abstract!Unstage(rows, tooLarge)
    BY <1>1, <1>2, <2>1, <2>2, NextViews DEF Stays, Abstract!Unstage, Abstract!vars
  <2> QED BY <1>0, <2>3
<1>3. CASE ret' = Ret("panic") /\ tx' = "idle" /\ work' = <<>> /\ cursor' = NoCursor
  BY <1>0, <1>1, <1>3, PanicMaps
<1>4. CASE /\ encodes /\ ~cursor.open /\ cursor' = cursor /\ tx' = tx
           /\ work' = op.slab /\ ret' = op.ret
  <2>1. Cap' = Cap /\ Todo' = {} /\ Todo = {}
    BY <1>1, <1>4, NextCap, NextTodo
  <2>2. UNCHANGED <<tx, Cap, RowsOf(base), cursor.open, Todo>>
    BY <1>1, <1>4, <2>1, NextViews DEF Abstract!vars
  <2>3. RowsOf(work)' = RowsOf(work) \ rows
    BY <1>4, NextViews DEF Abstract!vars
  <2>4. ret' = Abstract!Ret(IF rows \cap RowsOf(work) = {} THEN "absent" ELSE "removed")
    BY <1>4 DEF Ret, NoRow, Abstract!Ret, Abstract!NoRow
  <2>5. Abstract!Unstage(rows, tooLarge)
    BY <1>1, <1>4, <2>2, <2>3, <2>4 DEF Abstract!Unstage, Cap, Todo
  <2> QED BY <1>0, <2>5
<1> QED BY <1>2, <1>3, <1>4, WriteOpViews

LEMMA InsertPlainMaps ==
  ASSUME MapInv, NEW n \in PlainTables, NEW k \in Keys, NEW v \in Vals, insert_plain(n, k, v)
  PROVE  /\ Abstract!InsertPlain(n, k, v) \/ Abstract!Rollback(Abstract!Ret("panic"))
         /\ CursorAhead'
<1> DEFINE op == put_unique(work, n, k, v)
           rows == Others(RowsOf(work), n, k) \cup {[name |-> n, key |-> k, val |-> v]}
           encodes == Encodes(k) /\ Serializes(v)
           tooLarge == k \in BigKeys \/ v \in BigVals
<1>1. \/ op.ret = Ret("ok") /\ RowsOf(op.slab) = rows /\ Cardinality(rows) <= capacity_for(half)
      \/ op.ret = Ret("Capacity") /\ op.slab = work /\ Cardinality(rows) > capacity_for(half)
  BY MapFacts, PutUniqueRows
<1>2. WriteOp(encodes, op)
  BY DEF insert_plain
<1>3. tooLarge \in BOOLEAN /\ (tooLarge <=> ~encodes)
  BY DEF Encodes, Serializes
<1>4. rows = (RowsOf(work) \ Abstract!RowsAt(RowsOf(work), n, k))
               \cup {[name |-> n, key |-> k, val |-> v]}
  BY DEF Others, IsAt, Abstract!RowsAt
<1>5. Abstract!Stage(rows, tooLarge) => Abstract!InsertPlain(n, k, v)
  BY <1>4 DEF Abstract!InsertPlain
<1> HIDE DEF op, rows, encodes, tooLarge
<1> QED BY <1>1, <1>2, <1>3, <1>5, StageMaps

LEMMA InsertMultiMaps ==
  ASSUME MapInv, NEW n \in MultiTables, NEW k \in Keys, NEW v \in Vals, insert_multi(n, k, v)
  PROVE  /\ Abstract!InsertMulti(n, k, v) \/ Abstract!Rollback(Abstract!Ret("panic"))
         /\ CursorAhead'
<1> DEFINE op == put_multi(work, n, k, v)
           rows == RowsOf(work) \cup {[name |-> n, key |-> k, val |-> v]}
           encodes == Encodes(k) /\ Serializes(v)
           tooLarge == k \in BigKeys \/ v \in BigVals
<1>1. \/ op.ret = Ret("ok") /\ RowsOf(op.slab) = rows /\ Cardinality(rows) <= capacity_for(half)
      \/ op.ret = Ret("Capacity") /\ op.slab = work /\ Cardinality(rows) > capacity_for(half)
  BY MapFacts, PutMultiRows
<1>2. WriteOp(encodes, op)
  BY DEF insert_multi
<1>3. tooLarge \in BOOLEAN /\ (tooLarge <=> ~encodes)
  BY DEF Encodes, Serializes
<1>4. Abstract!Stage(rows, tooLarge) => Abstract!InsertMulti(n, k, v)
  BY DEF Abstract!InsertMulti
<1> HIDE DEF op, rows, encodes, tooLarge
<1> QED BY <1>1, <1>2, <1>3, <1>4, StageMaps

LEMMA RemoveMaps ==
  ASSUME MapInv, NEW n \in Names, NEW k \in Keys, remove(n, k)
  PROVE  /\ Abstract!Remove(n, k) \/ Abstract!Rollback(Abstract!Ret("panic"))
         /\ CursorAhead'
<1> DEFINE op == remove_key(work, n, k)
           rows == Abstract!RowsAt(RowsOf(work), n, k)
           encodes == Encodes(k)
           tooLarge == k \in BigKeys
<1>1. /\ RowsOf(op.slab) = Others(RowsOf(work), n, k)
      /\ op.ret = Ret(IF \E r \in RowsOf(work) : IsAt(r, n, k) THEN "removed" ELSE "absent")
  BY MapFacts, RemoveKeyRows
<1>2. Others(RowsOf(work), n, k) = RowsOf(work) \ rows
  BY DEF Others, IsAt, Abstract!RowsAt
<1>3. (\E r \in RowsOf(work) : IsAt(r, n, k)) <=> rows \cap RowsOf(work) # {}
  BY DEF IsAt, Abstract!RowsAt
<1>4. WriteOp(encodes, op)
  BY DEF remove
<1>5. tooLarge \in BOOLEAN /\ (tooLarge <=> ~encodes)
  BY DEF Encodes
<1>6. Abstract!Unstage(rows, tooLarge) => Abstract!Remove(n, k)
  BY DEF Abstract!Remove
<1> HIDE DEF op, rows, encodes, tooLarge
<1>7. op.ret = Ret(IF rows \cap RowsOf(work) = {} THEN "absent" ELSE "removed")
  BY <1>1, <1>3
<1> QED BY <1>1, <1>2, <1>4, <1>5, <1>6, <1>7, UnstageMaps

LEMMA RemoveValueMaps ==
  ASSUME MapInv, NEW n \in MultiTables, NEW k \in Keys, NEW v \in Vals, remove_value(n, k, v)
  PROVE  /\ Abstract!RemoveValue(n, k, v) \/ Abstract!Rollback(Abstract!Ret("panic"))
         /\ CursorAhead'
<1> DEFINE op == remove_pair(work, n, k, v)
           r == [name |-> n, key |-> k, val |-> v]
           encodes == Encodes(k) /\ Serializes(v)
           tooLarge == k \in BigKeys \/ v \in BigVals
<1>1. /\ RowsOf(op.slab) = RowsOf(work) \ {r}
      /\ op.ret = Ret(IF r \in RowsOf(work) THEN "removed" ELSE "absent")
  BY MapFacts, RemovePairRows DEF Names
<1>2. WriteOp(encodes, op)
  BY DEF remove_value
<1>3. tooLarge \in BOOLEAN /\ (tooLarge <=> ~encodes)
  BY DEF Encodes, Serializes
<1>4. Abstract!Unstage({r}, tooLarge) => Abstract!RemoveValue(n, k, v)
  BY DEF Abstract!RemoveValue
<1> HIDE DEF op, r, encodes, tooLarge
<1>5. op.ret = Ret(IF {r} \cap RowsOf(work) = {} THEN "absent" ELSE "removed")
  <2>1. r \in RowsOf(work) <=> {r} \cap RowsOf(work) # {}
    OBVIOUS
  <2> QED BY <1>1, <2>1
<1> QED BY <1>1, <1>2, <1>3, <1>4, <1>5, UnstageMaps

\* A point read answers with the key's first row.
LEMMA GetMaps ==
  ASSUME MapInv, NEW n \in Names, NEW k \in Keys, get(n, k)
  PROVE  Abstract!Get(n, k) /\ Stays
<1> DEFINE i == lower_bound(Slab, n, k)
           rows == Abstract!RowsAt(RowsOf(Slab), n, k)
<1>1. /\ tx \in {"read", "write"} /\ Stays
      /\ ret' = IF ~Encodes(k) THEN Ret("TooLarge")
                ELSE IF matches_name_key(Slab, i, n, k) THEN RetRow(Slab[i])
                ELSE Ret("absent")
  BY DEF get, Stays
<1>2. n \in Nat /\ k \in Nat
  BY ArenaAssumption DEF Names
<1>3. rows = {r \in RowsOf(Slab) : IsAt(r, n, k)}
  BY DEF Abstract!RowsAt, IsAt
<1>4. /\ matches_name_key(Slab, i, n, k) <=> rows # {}
      /\ matches_name_key(Slab, i, n, k) => Abstract!First(rows) = Slab[i]
  BY <1>2, <1>3, MapFacts, GetFinds
<1>5. rows = Abstract!RowsAt(Abstract!Visible, n, k)
  BY TodoIsRest
<1> HIDE DEF i, rows
<1>7. ret' = CASE k \in BigKeys -> Abstract!Ret("TooLarge")
               [] k \notin BigKeys /\ rows = {} -> Abstract!Ret("absent")
               [] OTHER -> Abstract!RetRow(Abstract!First(rows))
  <2>1. CASE k \in BigKeys
    BY <1>1, <2>1 DEF Encodes, Ret, NoRow, Abstract!Ret, Abstract!NoRow
  <2>2. CASE k \notin BigKeys /\ rows = {}
    BY <1>1, <1>4, <2>2 DEF Encodes, Ret, NoRow, Abstract!Ret, Abstract!NoRow
  <2>3. CASE k \notin BigKeys /\ rows # {}
    BY <1>1, <1>4, <2>3 DEF Encodes, RetRow, Abstract!RetRow
  <2> QED BY <2>1, <2>2, <2>3
<1>8. UNCHANGED <<tx, Cap, RowsOf(base), RowsOf(work), cursor.open, Todo>>
  BY <1>1, StaysViews, NextViews DEF Stays, Abstract!vars
<1> QED BY <1>1, <1>5, <1>7, <1>8 DEF Abstract!Get, Cap, Todo

\* A new iterator is to yield all the rows of its range.
LEMMA OpenCursorMaps ==
  ASSUME MapInv, NEW n \in Names, NEW lo \in Bounds, NEW hi \in Bounds,
         lo.kind = "Exact" \/ hi.kind = "Exact" => lo = hi,
         OpenCursor(n, lo, hi)
  PROVE  Abstract!Scan(n, lo, hi) /\ CursorAhead'
<1>1. tx \in {"read", "write"} /\ ~cursor.open /\ UNCHANGED <<tx, bufLen, base, work>>
  BY DEF OpenCursor
<1>2. UNCHANGED <<tx, Cap, RowsOf(base), RowsOf(work)>> /\ Slab' = Slab
  BY <1>1, NextCap, NextViews DEF Abstract!vars, Slab
<1>3. CASE ~(Encodes(lo.key) /\ Encodes(hi.key)) /\ ret' = Ret("TooLarge") /\ cursor' = cursor
  <2>1. UNCHANGED <<cursor.open, Todo>> /\ CursorAhead'
    BY <1>1, <1>3, NextTodo DEF CursorAhead
  <2>2. lo.key \in BigKeys \/ hi.key \in BigKeys
    BY <1>3 DEF Encodes
  <2>3. Abstract!Scan(n, lo, hi)
    BY <1>1, <1>2, <1>3, <2>1, <2>2
       DEF Abstract!Scan, Ret, NoRow, Abstract!Ret, Abstract!NoRow, Cap, Todo
  <2> QED BY <1>2, <2>1, <2>3
<1>4. CASE /\ Encodes(lo.key) /\ Encodes(hi.key) /\ ret' = Ret("ok")
           /\ cursor' = [open |-> TRUE, name |-> n, lo |-> lo, hi |-> hi,
                         idx |-> seed(Slab, n, lo)]
  <2>1. seed(Slab, n, lo) \in 1..Len(Slab) + 1
    BY CursorMoves DEF MapInv
  <2>2. Ahead(Slab, cursor') /\ Rest(Slab, cursor') = Abstract!RowsIn(RowsOf(Slab), n, lo, hi)
    BY <1>4, <2>1, MapFacts, SeedRows
  <2>3. cursor'.open = TRUE
    BY <1>4
  <2>4. Todo' = Abstract!RowsIn(Abstract!Visible, n, lo, hi)
    BY <1>2, <2>2, <2>3, TodoIsRest
  <2>5. CursorAhead'
    BY <1>2, <2>2, <2>3 DEF CursorAhead, Ahead, BeforeKey
  <2>6. ~(lo.key \in BigKeys \/ hi.key \in BigKeys)
    BY <1>4 DEF Encodes
  <2>7. ret' = Abstract!Ret("ok")
    BY <1>4 DEF Ret, NoRow, Abstract!Ret, Abstract!NoRow
  <2>8. Abstract!Scan(n, lo, hi)
    BY <1>1, <1>2, <2>3, <2>4, <2>6, <2>7 DEF Abstract!Scan, Cap, Todo
  <2> QED BY <1>2, <2>5, <2>8
<1> QED BY <1>3, <1>4 DEF OpenCursor

\* A step of the iterator yields the first row to come, or ends with none left.
LEMMA NextMaps ==
  ASSUME MapInv, next
  PROVE  Abstract!ScanNext /\ CursorAhead'
<1> DEFINE i == next_idx(Slab, cursor)
<1>1. cursor.open /\ UNCHANGED <<tx, bufLen, base, work>>
  BY DEF next
<1>2. UNCHANGED <<tx, Cap, RowsOf(base), RowsOf(work)>> /\ Slab' = Slab
  BY <1>1, NextCap, NextViews DEF Abstract!vars, Slab
<1>3. \/ /\ Yields(Slab, cursor, i)
         /\ ret' = RetRow(Slab[i])
         /\ cursor' = [cursor EXCEPT !.idx = i + 1]
      \/ /\ ~Yields(Slab, cursor, i)
         /\ ret' = Ret("end")
         /\ cursor' = [cursor EXCEPT !.idx = i]
  BY DEF next
<1>4. /\ Slab \in Seq(Record) /\ Sorted(Slab) /\ cursor \in Cursors
      /\ cursor.idx \in 1..Len(Slab) + 1 /\ Ahead(Slab, cursor)
  BY <1>1, MapFacts
<1>5. /\ i \in cursor.idx..Len(Slab) + 1
      /\ Yields(Slab, cursor, i) =>
           /\ i \in 1..Len(Slab)
           /\ Rest(Slab, cursor) # {}
           /\ Abstract!First(Rest(Slab, cursor)) = Slab[i]
           /\ Rest(Slab, [cursor EXCEPT !.idx = i + 1]) = Rest(Slab, cursor) \ {Slab[i]}
      /\ ~Yields(Slab, cursor, i) =>
           Rest(Slab, cursor) = {} /\ Rest(Slab, [cursor EXCEPT !.idx = i]) = {}
  BY <1>4, NextRows
<1> HIDE DEF i
<1>6. Todo = Rest(Slab, cursor)
  BY <1>1, TodoIsRest
<1>7. PICK j \in cursor.idx..Len(Slab) + 2 : cursor' = [cursor EXCEPT !.idx = j]
  <2>1. Len(Slab) \in Nat /\ cursor.idx \in Nat
    BY <1>4 DEF Cursors
  <2>2. i \in cursor.idx..Len(Slab) + 2 /\ i + 1 \in cursor.idx..Len(Slab) + 2
    BY <1>5, <2>1
  <2> QED BY <1>3, <2>2
<1>8. /\ cursor'.open = cursor.open /\ cursor'.idx = j
      /\ cursor'.name = cursor.name /\ cursor'.lo = cursor.lo /\ cursor'.hi = cursor.hi
  BY <1>4, <1>7 DEF Cursors
<1>9. CursorAhead'
  <2>1. \A m \in cursor'.idx..Len(Slab) : m \in cursor.idx..Len(Slab)
    BY <1>4, <1>7, <1>8 DEF Cursors
  <2>2. Ahead(Slab, cursor')
    BY <1>4, <1>8, <2>1 DEF Ahead
  <2> QED BY <1>2, <2>2 DEF CursorAhead, Ahead, BeforeKey
<1>10. Todo' = Rest(Slab, cursor')
  BY <1>1, <1>2, <1>8, TodoIsRest
<1>11. CASE /\ Yields(Slab, cursor, i)
            /\ ret' = RetRow(Slab[i])
            /\ cursor' = [cursor EXCEPT !.idx = i + 1]
  <2>1. Todo # {} /\ Todo' = Todo \ {Abstract!First(Todo)}
    BY <1>5, <1>6, <1>10, <1>11
  <2>2. ret' = Abstract!RetRow(Abstract!First(Todo))
    BY <1>5, <1>6, <1>11 DEF RetRow, Abstract!RetRow
  <2>3. Abstract!ScanNext
    BY <1>1, <1>2, <1>8, <2>1, <2>2 DEF Abstract!ScanNext, Cap, Todo
  <2> QED BY <1>2, <1>9, <2>3
<1>12. CASE /\ ~Yields(Slab, cursor, i)
            /\ ret' = Ret("end")
            /\ cursor' = [cursor EXCEPT !.idx = i]
  <2>1. Todo = {} /\ Todo' = Todo
    BY <1>5, <1>6, <1>10, <1>12
  <2>2. ret' = Abstract!Ret("end")
    BY <1>12 DEF Ret, NoRow, Abstract!Ret, Abstract!NoRow
  <2>3. Abstract!ScanNext
    BY <1>1, <1>2, <1>8, <2>1, <2>2 DEF Abstract!ScanNext, Cap, Todo
  <2> QED BY <1>2, <1>9, <2>3
<1> QED BY <1>3, <1>11, <1>12

\* The calls on the store and its transactions.
LEMMA OpenMaps ==
  ASSUME MapInv, NEW len \in BufLens, Open(len)
  PROVE  Abstract!Open(len) /\ CursorAhead'
<1>1. /\ tx = "closed" /\ work' = work /\ cursor' = cursor
      /\ base = <<>> /\ ~cursor.open
  BY DEF Open, MapInv, Inv, TypeOK, NoCursor
<1>2. CursorAhead' /\ UNCHANGED <<cursor.open, Todo, RowsOf(work)>>
  BY <1>1, NextTodo, NextViews DEF CursorAhead, Abstract!vars
<1>3. CASE /\ len < 2 * COUNT_HDR /\ ret' = Ret("BadResource")
           /\ UNCHANGED <<tx, bufLen, base>>
  <2>1. RegionCapacity(len) < 0
    BY <1>3 DEF RegionCapacity
  <2>2. UNCHANGED <<tx, Cap, RowsOf(base)>>
    BY <1>3, NextCap, NextViews DEF Abstract!vars
  <2>3. ret' = Abstract!Ret("BadResource")
    BY <1>3 DEF Ret, NoRow, Abstract!Ret, Abstract!NoRow
  <2>4. Abstract!Open(len)
    BY <1>1, <1>2, <2>1, <2>2, <2>3 DEF Abstract!Open, Cap, Todo
  <2> QED BY <1>2, <2>4
<1>4. CASE /\ ~(len < 2 * COUNT_HDR) /\ ret' = Ret("ok")
           /\ tx' = "idle" /\ bufLen' = len /\ base' = <<>>
  <2>1. half' = len \div 2 /\ half' \in Nat /\ len \in Nat
    BY <1>4, ArenaAssumption DEF half
  <2>2. RegionCapacity(len) = capacity_for(len \div 2)
    BY <1>4 DEF RegionCapacity
  <2>3. capacity_for(len \div 2) \in Nat
    BY <2>1, CapacityIsNat
  <2>4. Cap' = capacity_for(len \div 2)
    BY <1>4, <2>1 DEF Cap, capacity_for
  <2>5. RowsOf(base)' = RowsOf(base)
    BY <1>1, <1>4, NextViews DEF Abstract!vars
  <2>6. ret' = Abstract!Ret("ok")
    BY <1>4 DEF Ret, NoRow, Abstract!Ret, Abstract!NoRow
  <2>7. ~(RegionCapacity(len) < 0) /\ Cap' = RegionCapacity(len)
    BY <2>2, <2>3, <2>4
  <2>8. Abstract!Open(len)
    BY <1>1, <1>2, <1>4, <2>5, <2>6, <2>7 DEF Abstract!Open, Cap, Todo
  <2> QED BY <1>2, <2>8
<1> QED BY <1>1, <1>3, <1>4 DEF Open

\* A call that ends a transaction, or finds no iterator and opens none, has
\* nothing to yield before it and nothing after it.
LEMMA NoScan ==
  ASSUME ~cursor.open, ~cursor'.open
  PROVE  CursorAhead' /\ Todo = {} /\ Todo' = {}
BY NextTodo DEF CursorAhead

LEMMA StoreMaps ==
  ASSUME MapInv
  PROVE  /\ Close => Abstract!Close /\ CursorAhead'
         /\ read_transaction => Abstract!BeginRead /\ CursorAhead'
         /\ write_transaction => (EvenRegion => Abstract!BeginWrite) /\ CursorAhead'
         /\ commit => Abstract!Commit /\ CursorAhead'
         /\ Drop => Abstract!Rollback(Abstract!Ret("ok")) /\ CursorAhead'
<1>1. tx = "idle" => ~cursor.open /\ cursor.open = FALSE
  BY DEF MapInv, Inv, TypeOK, NoCursor
<1>2. Ret("ok") = Abstract!Ret("ok")
  BY DEF Ret, NoRow, Abstract!Ret, Abstract!NoRow
<1>3. RowsOf(<<>>) = {}
  BY DEF RowsOf
<1>4. ASSUME Close PROVE Abstract!Close /\ CursorAhead'
  <2>1. /\ tx = "idle" /\ tx' = "closed" /\ bufLen' = 0 /\ base' = <<>>
        /\ work' = work /\ cursor' = cursor /\ ret' = Ret("ok")
    BY <1>4 DEF Close
  <2>2. Cap' = 0 /\ RowsOf(base)' = {} /\ RowsOf(work)' = RowsOf(work)
    BY <1>3, <2>1, NextCap, NextViews DEF Abstract!vars
  <2>3. CursorAhead' /\ Todo' = Todo
    BY <1>1, <2>1, NoScan
  <2>4. Abstract!Close
    BY <1>2, <2>1, <2>2, <2>3 DEF Abstract!Close, Abstract!Surviving, Cap, Todo
  <2> QED BY <2>3, <2>4
<1>5. ASSUME read_transaction PROVE Abstract!BeginRead /\ CursorAhead'
  <2>1. /\ tx = "idle" /\ tx' = "read" /\ ret' = Ret("ok")
        /\ UNCHANGED <<bufLen, base, work, cursor>>
    BY <1>5 DEF read_transaction
  <2>2. UNCHANGED <<Cap, RowsOf(base), RowsOf(work)>>
    BY <2>1, NextCap, NextViews DEF Abstract!vars
  <2>3. CursorAhead' /\ Todo' = Todo
    BY <1>1, <2>1, NoScan
  <2>4. Abstract!BeginRead
    BY <1>2, <2>1, <2>2, <2>3 DEF Abstract!BeginRead, Cap, Todo
  <2> QED BY <2>1, <2>2, <2>3, <2>4
<1>6. ASSUME write_transaction PROVE (EvenRegion => Abstract!BeginWrite) /\ CursorAhead'
  <2>1. /\ tx = "idle" /\ cursor' = cursor
        /\ EvenRegion => /\ tx' = "write" /\ work' = base /\ ret' = Ret("ok")
                         /\ UNCHANGED <<bufLen, base>>
    BY <1>6 DEF write_transaction, EvenRegion
  <2>2. CursorAhead' /\ Todo' = Todo
    BY <1>1, <2>1, NoScan
  <2>3. ASSUME EvenRegion PROVE Abstract!BeginWrite
    <3>1. UNCHANGED <<Cap, RowsOf(base)>> /\ RowsOf(work)' = RowsOf(base)
      BY <2>1, <2>3, NextCap, NextViews DEF Abstract!vars
    <3> QED BY <1>2, <2>1, <2>2, <2>3, <3>1 DEF Abstract!BeginWrite, Cap, Todo
  <2> QED BY <2>2, <2>3
<1>7. ASSUME commit PROVE Abstract!Commit /\ CursorAhead'
  <2>1. /\ tx = "write" /\ ~cursor.open /\ tx' = "idle" /\ base' = work /\ work' = <<>>
        /\ ret' = Ret("ok") /\ UNCHANGED <<bufLen, cursor>>
    BY <1>7 DEF commit
  <2>2. /\ Cap' = Cap /\ RowsOf(base)' = RowsOf(work) /\ RowsOf(work)' = {}
    BY <1>3, <2>1, NextCap, NextViews DEF Abstract!vars
  <2>3. CursorAhead' /\ Todo' = Todo
    BY <2>1, NoScan
  <2>4. Abstract!Commit
    BY <1>2, <2>1, <2>2, <2>3 DEF Abstract!Commit, Cap, Todo
  <2> QED BY <2>2, <2>3, <2>4
<1>8. ASSUME Drop PROVE Abstract!Rollback(Abstract!Ret("ok")) /\ CursorAhead'
  <2>1. /\ tx \in {"read", "write"} /\ ~cursor.open /\ tx' = "idle" /\ work' = <<>>
        /\ cursor' = NoCursor /\ ret' = Ret("ok") /\ UNCHANGED <<bufLen, base>>
    BY <1>8 DEF Drop, EndTx
  <2>2. cursor'.open = FALSE /\ ~cursor'.open
    BY <2>1 DEF NoCursor
  <2>3. Cap' = Cap /\ RowsOf(base)' = RowsOf(base) /\ RowsOf(work)' = {}
    BY <1>3, <2>1, NextCap, NextViews DEF Abstract!vars
  <2>4. CursorAhead' /\ Todo' = {}
    BY <2>1, <2>2, NoScan
  <2>5. Abstract!Rollback(Abstract!Ret("ok"))
    BY <1>2, <2>1, <2>2, <2>3, <2>4 DEF Abstract!Rollback, Cap, Todo
  <2> QED BY <2>1, <2>3, <2>4, <2>5
<1> QED BY <1>4, <1>5, <1>6, <1>7, <1>8

LEMMA DropCursorMaps ==
  ASSUME MapInv, DropCursor
  PROVE  Abstract!EndScan /\ CursorAhead'
<1>1. /\ cursor.open /\ cursor' = NoCursor /\ ret' = Ret("ok")
      /\ UNCHANGED <<tx, bufLen, base, work>>
  BY DEF DropCursor
<1>2. cursor'.open = FALSE
  BY <1>1 DEF NoCursor
<1>3. UNCHANGED <<Cap, RowsOf(base), RowsOf(work)>>
  BY <1>1, NextCap, NextViews DEF Abstract!vars
<1>4. Todo' = {} /\ CursorAhead'
  BY <1>2, NextTodo DEF CursorAhead
<1>5. ret' = Abstract!Ret("ok")
  BY <1>1 DEF Ret, NoRow, Abstract!Ret, Abstract!NoRow
<1> QED BY <1>1, <1>2, <1>3, <1>4, <1>5 DEF Abstract!EndScan, Cap, Todo

\* remove_value on a plain table, and a step of nobody.
LEMMA IdleMaps ==
  ASSUME MapInv
  PROVE  /\ remove_value_plain => Abstract!RemoveValuePlain /\ CursorAhead'
         /\ UNCHANGED vars => UNCHANGED Abstract!vars /\ CursorAhead'
<1>1. ASSUME Stays
      PROVE  /\ UNCHANGED <<tx, Cap, RowsOf(base), RowsOf(work), cursor.open, Todo>>
             /\ CursorAhead'
  BY <1>1, StaysViews, NextViews DEF Stays, Abstract!vars
<1>2. Ret("Unsupported") = Abstract!Ret("Unsupported")
  BY DEF Ret, NoRow, Abstract!Ret, Abstract!NoRow
<1>3. ASSUME remove_value_plain
      PROVE  Abstract!RemoveValuePlain /\ CursorAhead'
  <2>1. Stays /\ tx = "write" /\ ret' = Ret("Unsupported")
    BY <1>3 DEF Stays, remove_value_plain
  <2>2. Abstract!RemoveValuePlain
    BY <1>1, <1>2, <2>1 DEF Abstract!RemoveValuePlain, Cap, Todo
  <2> QED BY <1>1, <2>1, <2>2
<1>4. ASSUME UNCHANGED vars
      PROVE  UNCHANGED Abstract!vars /\ CursorAhead'
  <2>1. Stays /\ ret' = ret
    BY <1>4 DEF Stays, vars
  <2>2. UNCHANGED Abstract!vars
    BY <1>1, <2>1, NextViews
  <2> QED BY <1>1, <2>1, <2>2
<1> QED BY <1>3, <1>4

----------------------------------------------------------------------------
(* The theorems.                                                           *)

LEMMA InitMaps == Init => Abstract!Init /\ MapInv /\ EvenRegion
<1> SUFFICES ASSUME Init PROVE Abstract!Init /\ MapInv /\ EvenRegion
  OBVIOUS
<1>1. /\ tx = "closed" /\ bufLen = 0 /\ base = <<>> /\ work = <<>>
      /\ cursor.open = FALSE /\ ret = Ret("none")
  BY DEF Init, NoCursor
<1>2. RowsOf(base) = {} /\ RowsOf(work) = {}
  BY <1>1 DEF RowsOf
<1>3. Abstract!Init
  BY <1>1, <1>2 DEF Abstract!Init, Abstract!Ret, Abstract!NoRow, Ret, NoRow
<1>4. MapInv /\ EvenRegion
  BY <1>1, InitInv DEF MapInv, CursorAhead, EvenRegion, half
<1> QED BY <1>3, <1>4

\* Only open and close change the region.
LEMMA StepEven ==
  ASSUME EvenBufLens, EvenRegion, [Next]_vars
  PROVE  EvenRegion'
<1>1. CASE bufLen' = bufLen
  BY <1>1 DEF EvenRegion, half
<1>2. CASE bufLen' = 0
  BY <1>2 DEF EvenRegion, half
<1>3. CASE \E len \in BufLens : Open(len)
  <2>1. PICK len \in BufLens : Open(len)
    BY <1>3
  <2>2. bufLen' = bufLen \/ (~(len < 2 * COUNT_HDR) /\ bufLen' = len)
    BY <2>1 DEF Open
  <2>3. len \in Nat /\ COUNT_HDR \in Nat
    BY ArenaAssumption
  <2> QED BY <1>1, <2>2, <2>3 DEF EvenBufLens, EvenRegion, half
<1> QED BY <1>1, <1>2, <1>3
        DEF Next, vars, Close, read_transaction, write_transaction, commit, Drop,
            WriteOp, insert_plain, insert_multi, remove, remove_value, remove_value_plain,
            get, OpenCursor, get_all, range, next, DropCursor

\* Every step keeps the invariant, and on an even region it is a step of the
\* abstract store, or none.
LEMMA StepMaps ==
  ASSUME MapInv, [Next]_vars
  PROVE  MapInv' /\ (EvenRegion => [Abstract!Next]_(Abstract!vars))
<1>0. Inv'
  BY StepInv DEF MapInv
<1> DEFINE Mapped(A) == A /\ CursorAhead'
<1>1. CASE \E len \in BufLens : Open(len)
  <2>1. PICK len \in BufLens : Open(len)
    BY <1>1
  <2>2. Mapped(Abstract!Open(len))
    BY <2>1, OpenMaps
  <2> QED BY <1>0, <2>2 DEF Abstract!Next, Abstract!Call, MapInv
<1>2. CASE Close
  <2>1. Mapped(Abstract!Close)
    BY <1>2, StoreMaps
  <2> QED BY <1>0, <2>1 DEF Abstract!Next, Abstract!Call, MapInv
<1>3. CASE read_transaction
  <2>1. Mapped(Abstract!BeginRead)
    BY <1>3, StoreMaps
  <2> QED BY <1>0, <2>1 DEF Abstract!Next, Abstract!Call, MapInv
<1>4. CASE write_transaction
  <2>1. Mapped(EvenRegion => Abstract!BeginWrite)
    BY <1>4, StoreMaps
  <2> QED BY <1>0, <2>1 DEF Abstract!Next, Abstract!Call, MapInv
<1>5. CASE commit
  <2>1. Mapped(Abstract!Commit)
    BY <1>5, StoreMaps
  <2> QED BY <1>0, <2>1 DEF Abstract!Next, Abstract!Call, MapInv
<1>6. CASE Drop
  <2>1. Mapped(Abstract!Rollback(Abstract!Ret("ok")))
    BY <1>6, StoreMaps
  <2> QED BY <1>0, <2>1 DEF Abstract!Next, Abstract!Call, MapInv
<1>7. CASE \E n \in PlainTables, k \in Keys, v \in Vals : insert_plain(n, k, v)
  <2>1. PICK n \in PlainTables, k \in Keys, v \in Vals : insert_plain(n, k, v)
    BY <1>7
  <2>2. Mapped(Abstract!InsertPlain(n, k, v) \/ Abstract!Rollback(Abstract!Ret("panic")))
    BY <2>1, InsertPlainMaps
  <2> QED BY <1>0, <2>2 DEF Abstract!Next, Abstract!Call, MapInv
<1>8. CASE \E n \in MultiTables, k \in Keys, v \in Vals : insert_multi(n, k, v)
  <2>1. PICK n \in MultiTables, k \in Keys, v \in Vals : insert_multi(n, k, v)
    BY <1>8
  <2>2. Mapped(Abstract!InsertMulti(n, k, v) \/ Abstract!Rollback(Abstract!Ret("panic")))
    BY <2>1, InsertMultiMaps
  <2> QED BY <1>0, <2>2 DEF Abstract!Next, Abstract!Call, MapInv
<1>9. CASE \E n \in MultiTables, k \in Keys, v \in Vals : remove_value(n, k, v)
  <2>1. PICK n \in MultiTables, k \in Keys, v \in Vals : remove_value(n, k, v)
    BY <1>9
  <2>2. Mapped(Abstract!RemoveValue(n, k, v) \/ Abstract!Rollback(Abstract!Ret("panic")))
    BY <2>1, RemoveValueMaps
  <2> QED BY <1>0, <2>2 DEF Abstract!Next, Abstract!Call, MapInv
<1>10. CASE remove_value_plain
  <2>1. Mapped(Abstract!RemoveValuePlain)
    BY <1>10, IdleMaps
  <2> QED BY <1>0, <2>1 DEF Abstract!Next, Abstract!Call, MapInv
<1>11. CASE \E n \in Names, k \in Keys : remove(n, k)
  <2>1. PICK n \in Names, k \in Keys : remove(n, k)
    BY <1>11
  <2>2. Mapped(Abstract!Remove(n, k) \/ Abstract!Rollback(Abstract!Ret("panic")))
    BY <2>1, RemoveMaps
  <2>3. n \in Abstract!Names
    BY <2>1 DEF Names, Abstract!Names
  <2> QED BY <1>0, <2>1, <2>2, <2>3 DEF Abstract!Next, Abstract!Call, MapInv
<1>12. CASE \E n \in Names, k \in Keys : get(n, k)
  <2>1. PICK n \in Names, k \in Keys : get(n, k)
    BY <1>12
  <2>2. Mapped(Abstract!Get(n, k))
    BY <2>1, GetMaps, StaysViews
  <2>3. n \in Abstract!Names
    BY <2>1 DEF Names, Abstract!Names
  <2> QED BY <1>0, <2>1, <2>2, <2>3 DEF Abstract!Next, Abstract!Call, MapInv
<1>13. CASE \E n \in Names, k \in Keys : get_all(n, k)
  <2>1. PICK n \in Names, k \in Keys : get_all(n, k)
    BY <1>13
  <2>2. Exactly(k) \in Bounds /\ Exactly(k) = Abstract!Exactly(k)
    BY DEF Exactly, Bounds, Abstract!Exactly
  <2>3. Mapped(Abstract!Scan(n, Abstract!Exactly(k), Abstract!Exactly(k)))
    BY <2>1, <2>2, OpenCursorMaps DEF get_all
  <2>4. n \in Abstract!Names
    BY <2>1 DEF Names, Abstract!Names
  <2> QED BY <1>0, <2>1, <2>3, <2>4 DEF Abstract!Next, Abstract!Call, MapInv
<1>14. CASE \E n \in Names, scan \in ScanRanges : range(n, scan[1], scan[2])
  <2>1. PICK n \in Names, scan \in ScanRanges : range(n, scan[1], scan[2])
    BY <1>14
  <2>2. /\ scan[1] \in Bounds /\ scan[2] \in Bounds
        /\ scan[1].kind # "Exact" /\ scan[2].kind # "Exact"
    BY ScanRangesAssumption DEF Bounds, BoundSpec, Unbounded
  <2>3. Mapped(Abstract!Scan(n, scan[1], scan[2]))
    BY <2>1, <2>2, OpenCursorMaps DEF range
  <2>4. n \in Abstract!Names
    BY <2>1 DEF Names, Abstract!Names
  <2> QED BY <1>0, <2>1, <2>3, <2>4 DEF Abstract!Next, Abstract!Call, MapInv
<1>15. CASE next
  <2>1. Mapped(Abstract!ScanNext)
    BY <1>15, NextMaps
  <2> QED BY <1>0, <2>1 DEF Abstract!Next, Abstract!Call, MapInv
<1>16. CASE DropCursor
  <2>1. Mapped(Abstract!EndScan)
    BY <1>16, DropCursorMaps
  <2> QED BY <1>0, <2>1 DEF Abstract!Next, Abstract!Call, MapInv
<1>17. CASE UNCHANGED vars
  <2>1. Mapped(UNCHANGED Abstract!vars)
    BY <1>17, IdleMaps
  <2> QED BY <1>0, <2>1 DEF MapInv
<1> QED BY <1>1, <1>2, <1>3, <1>4, <1>5, <1>6, <1>7, <1>8, <1>9, <1>10, <1>11, <1>12,
           <1>13, <1>14, <1>15, <1>16, <1>17 DEF Next

\* The arena backend implements the abstract store on every region whose halves
\* are equal: rows, refusals, scans one record at a time, commits, rollbacks and
\* the panic of a write under an iterator.  On an uneven region a write
\* transaction cannot begin at all.
THEOREM ArenaImplementsTableStore ==
  ASSUME EvenBufLens
  PROVE  Spec => ImplementsTableStore
<1>1. MapInv /\ EvenRegion /\ [Next]_vars
        => MapInv' /\ EvenRegion' /\ [Abstract!Next]_(Abstract!vars)
  BY StepMaps, StepEven
<1> QED BY <1>1, InitMaps, PTL DEF Spec, ImplementsTableStore, Abstract!Spec

\* What the mapped calls answer, and what a panic does not.
LEMMA CallsMap ==
  MapInv /\ [Next]_vars
    => [UNCHANGED <<tx, base, cursor>> =>
         \A n \in Names, k \in Keys \ BigKeys :
           /\ (ret'.res \in {"row", "absent"} /\ get(n, k)) => Abstract!Get(n, k)
           /\ (ret'.res \in {"removed", "absent"} /\ remove(n, k)) => Abstract!Remove(n, k)
           /\ \A v \in Vals \ BigVals :
                /\ (ret'.res = "ok" /\ n \in PlainTables /\ insert_plain(n, k, v))
                     => Abstract!InsertPlain(n, k, v)
                /\ (ret'.res = "ok" /\ n \in MultiTables /\ insert_multi(n, k, v))
                     => Abstract!InsertMulti(n, k, v)
                /\ (/\ ret'.res \in {"removed", "absent"}
                    /\ n \in MultiTables /\ remove_value(n, k, v))
                     => Abstract!RemoveValue(n, k, v)]_vars
<1> SUFFICES ASSUME MapInv, NEW n \in Names, NEW k \in Keys
             PROVE  /\ get(n, k) => Abstract!Get(n, k)
                    /\ (ret'.res # "panic" /\ remove(n, k)) => Abstract!Remove(n, k)
                    /\ \A v \in Vals :
                         /\ (ret'.res # "panic" /\ n \in PlainTables /\ insert_plain(n, k, v))
                              => Abstract!InsertPlain(n, k, v)
                         /\ (ret'.res # "panic" /\ n \in MultiTables /\ insert_multi(n, k, v))
                              => Abstract!InsertMulti(n, k, v)
                         /\ (ret'.res # "panic" /\ n \in MultiTables /\ remove_value(n, k, v))
                              => Abstract!RemoveValue(n, k, v)
  OBVIOUS
<1>1. Abstract!Rollback(Abstract!Ret("panic")) => ret'.res = "panic"
  BY DEF Abstract!Rollback, Abstract!Ret
<1>2. get(n, k) => Abstract!Get(n, k)
  BY GetMaps
<1>3. (ret'.res # "panic" /\ remove(n, k)) => Abstract!Remove(n, k)
  BY <1>1, RemoveMaps
<1>4. ASSUME NEW v \in Vals
      PROVE  /\ (ret'.res # "panic" /\ n \in PlainTables /\ insert_plain(n, k, v))
                  => Abstract!InsertPlain(n, k, v)
             /\ (ret'.res # "panic" /\ n \in MultiTables /\ insert_multi(n, k, v))
                  => Abstract!InsertMulti(n, k, v)
             /\ (ret'.res # "panic" /\ n \in MultiTables /\ remove_value(n, k, v))
                  => Abstract!RemoveValue(n, k, v)
  BY <1>1, InsertPlainMaps, InsertMultiMaps, RemoveValueMaps
<1> QED BY <1>2, <1>3, <1>4

\* A call acts on the table, key and value it was given, on a region of any
\* length: no binary search takes a neighbour's record for the key's.
THEOREM ArenaCallsActOnTheirArguments == Spec => CallsActOnTheirArguments
<1>1. MapInv /\ [Next]_vars => MapInv'
  BY StepMaps
<1> QED BY <1>1, InitMaps, CallsMap, PTL DEF Spec, CallsActOnTheirArguments
=============================================================================
