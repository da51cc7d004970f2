----------------------------- MODULE ArenaStore -----------------------------
(***************************************************************************)
(* The heap-free arena backend (databases/arena): a caller-supplied region *)
(* split in a base half, the committed slab, and a work half, the scratch  *)
(* of the write transaction.  A slab is a sequence of records kept sorted  *)
(* by (name, key, value); every table lives in the same slab.              *)
(*                                                                         *)
(* A byte string is its rank in byte order, a natural number.  The bytes   *)
(* of a slab past its live count are never read and are left out, as is    *)
(* the work half while no write transaction holds it.  One iterator is     *)
(* alive at a time; a live iterator of a write transaction holds a shared  *)
(* borrow of the work slab.                                                *)
(***************************************************************************)
EXTENDS Integers, Sequences, FiniteSets, FiniteSetsExt

CONSTANTS
  PlainTables,    \* names of the tables opened as plain tables
  MultiTables,    \* names of the tables opened as multimap tables
  Keys,           \* ordered-encoded keys
  Vals,           \* canonical value bytes
  BigKeys,        \* keys whose encoding exceeds KEY_MAX
  BigVals,        \* values larger than VAL_MAX
  ScanRanges,     \* the pairs of bounds callers scan with
  BufLens,        \* lengths of the regions a caller may pass to open
  COUNT_HDR,      \* bytes of a slab's live-count header
  RECORD_SIZE     \* bytes of one record

ASSUME ArenaAssumption ==
  /\ PlainTables \subseteq Nat \ {0}
  /\ MultiTables \subseteq Nat \ {0}
  /\ Keys \subseteq Nat \ {0}
  /\ Vals \subseteq Nat
  /\ BigKeys \subseteq Keys
  /\ BigVals \subseteq Vals
  /\ BufLens \subseteq Nat
  /\ COUNT_HDR \in Nat \ {0}
  /\ RECORD_SIZE \in Nat \ {0}

VARIABLES
  tx,             \* "closed", "idle", "read" or "write"
  bufLen,         \* length of the open store's region
  base,           \* the committed slab
  work,           \* the staged slab of the write transaction
  cursor,         \* the live iterator
  ret             \* what the last call returned

vars == <<tx, bufLen, base, work, cursor, ret>>

Names == PlainTables \cup MultiTables
Record == [name: Names, key: Keys, val: Vals]
NoRow == [name |-> 0, key |-> 0, val |-> 0]

Ret(r) == [res |-> r, row |-> NoRow]
RetRow(r) == [res |-> "row", row |-> r]

half == bufLen \div 2

capacity_for(bytes) ==
  IF bytes < COUNT_HDR THEN 0 ELSE (bytes - COUNT_HDR) \div RECORD_SIZE

----------------------------------------------------------------------------
(* The slab: region.rs.                                                    *)

\* cmp_name_key and cmp_full against a target, "less than".
BeforeKey(r, n, k) == r.name < n \/ (r.name = n /\ r.key < k)
BeforeFull(r, n, k, v) ==
  BeforeKey(r, n, k) \/ (r.name = n /\ r.key = k /\ r.val < v)
IsAt(r, n, k) == r.name = n /\ r.key = k

\* The first index in I, or the index past the last record when there is none.
FirstIndex(s, I) == Min(I \cup {Len(s) + 1})

\* Each is a binary search in the code.  On a sorted slab it ends at this index.
lower_bound(s, n, k) ==
  FirstIndex(s, {i \in 1..Len(s) : ~BeforeKey(s[i], n, k)})
lower_bound_full(s, n, k, v) ==
  FirstIndex(s, {i \in 1..Len(s) : ~BeforeFull(s[i], n, k, v)})
lower_bound_name(s, n) ==
  FirstIndex(s, {i \in 1..Len(s) : s[i].name >= n})

\* Mutant: the record found is not compared with the key.
matches_name_only(s, i, n, k) == i <= Len(s) /\ s[i].name = n

matches_name_key(s, i, n, k) == i <= Len(s) /\ IsAt(s[i], n, k)

InsertRecord(s, i, r) ==
  [j \in 1..Len(s) + 1 |-> IF j < i THEN s[j] ELSE IF j = i THEN r ELSE s[j - 1]]

\* s without the d records from index i on.
Cut(s, i, d) == [j \in 1..Len(s) - d |-> IF j < i THEN s[j] ELSE s[j + d]]

RemoveRecord(s, i) == Cut(s, i, 1)

\* What the loop "while a record at start matches, remove it" leaves.
RemoveRun(s, start, n, k) ==
  LET stop == FirstIndex(s, {i \in start..Len(s) : ~IsAt(s[i], n, k)})
  IN  Cut(s, start, stop - start)

\* A slab operation gives the slab it leaves and what it returns.

\* Mutant: one record too many is let in.
insert_at_off_by_one(s, i, r) ==
  IF Len(s) > capacity_for(half)
    THEN [slab |-> s, ret |-> Ret("Capacity")]
    ELSE [slab |-> InsertRecord(s, i, r), ret |-> Ret("ok")]

insert_at(s, i, r) ==
  IF Len(s) >= capacity_for(half)
    THEN [slab |-> s, ret |-> Ret("Capacity")]
    ELSE [slab |-> InsertRecord(s, i, r), ret |-> Ret("ok")]

\* Mutant: the run to replace is looked for in the full order.
put_unique_full_order(s, n, k, v) ==
  LET start == lower_bound_full(s, n, k, v)
  IN  insert_at(RemoveRun(s, start, n, k), start, [name |-> n, key |-> k, val |-> v])

\* Mutant: the capacity test counts the records before the removal.
put_unique_early_count(s, n, k, v) ==
  LET start == lower_bound(s, n, k)
      t == RemoveRun(s, start, n, k)
  IN  IF Len(s) >= capacity_for(half)
        THEN [slab |-> t, ret |-> Ret("Capacity")]
        ELSE insert_at(t, start, [name |-> n, key |-> k, val |-> v])

put_unique(s, n, k, v) ==
  LET start == lower_bound(s, n, k)
  IN  insert_at(RemoveRun(s, start, n, k), start, [name |-> n, key |-> k, val |-> v])

\* Mutant: the value goes before the key's other values, whatever it is.
put_multi_key_order(s, n, k, v) ==
  LET i == lower_bound(s, n, k)
      r == [name |-> n, key |-> k, val |-> v]
  IN  IF i <= Len(s) /\ s[i] = r
        THEN [slab |-> s, ret |-> Ret("ok")]
        ELSE insert_at(s, i, r)

put_multi(s, n, k, v) ==
  LET i == lower_bound_full(s, n, k, v)
      r == [name |-> n, key |-> k, val |-> v]
  IN  IF i <= Len(s) /\ s[i] = r
        THEN [slab |-> s, ret |-> Ret("ok")]
        ELSE insert_at(s, i, r)

remove_key(s, n, k) ==
  LET start == lower_bound(s, n, k)
  IN  [slab |-> RemoveRun(s, start, n, k),
       ret |-> Ret(IF matches_name_key(s, start, n, k) THEN "removed" ELSE "absent")]

remove_pair(s, n, k, v) ==
  LET i == lower_bound_full(s, n, k, v)
  IN  IF i <= Len(s) /\ s[i] = [name |-> n, key |-> k, val |-> v]
        THEN [slab |-> RemoveRecord(s, i), ret |-> Ret("removed")]
        ELSE [slab |-> s, ret |-> Ret("absent")]

----------------------------------------------------------------------------
(* Range bounds and the iterator: tables.rs.                               *)

Unbounded == [kind |-> "Unbounded", key |-> 0]
BoundSpec == [kind: {"Included", "Excluded"}, key: Keys] \cup {Unbounded}
ASSUME ScanRangesAssumption == ScanRanges \subseteq BoundSpec \X BoundSpec

Exactly(k) == [kind |-> "Exact", key |-> k]

lo_ok(lo, k) ==
  \/ lo.kind \in {"Unbounded", "Exact"}
  \/ lo.kind = "Included" /\ k >= lo.key
  \/ lo.kind = "Excluded" /\ k > lo.key

hi_ok(hi, k) ==
  \/ hi.kind = "Unbounded"
  \/ hi.kind = "Exact" /\ k = hi.key
  \/ hi.kind = "Included" /\ k <= hi.key
  \/ hi.kind = "Excluded" /\ k < hi.key

NoCursor == [open |-> FALSE, name |-> 0, lo |-> Unbounded, hi |-> Unbounded, idx |-> 0]

\* The slab the open transaction's tables read.
Slab == IF tx = "write" THEN work ELSE base

seed(s, n, lo) ==
  IF lo.kind = "Unbounded" THEN lower_bound_name(s, n) ELSE lower_bound(s, n, lo.key)

\* Where next_idx stops: past the slab or the table, past the high bound, or
\* at a record in the range.
next_idx(s, c) ==
  FirstIndex(s, {i \in c.idx..Len(s) : \/ s[i].name # c.name
                                      \/ ~hi_ok(c.hi, s[i].key)
                                      \/ lo_ok(c.lo, s[i].key)})

Yields(s, c, i) ==
  /\ i <= Len(s)
  /\ s[i].name = c.name
  /\ hi_ok(c.hi, s[i].key)

----------------------------------------------------------------------------
Init ==
  /\ tx = "closed"
  /\ bufLen = 0
  /\ base = <<>>
  /\ work = <<>>
  /\ cursor = NoCursor
  /\ ret = Ret("none")

Open(len) ==
  /\ tx = "closed"
  /\ UNCHANGED <<work, cursor>>
  /\ IF len < 2 * COUNT_HDR
       THEN /\ ret' = Ret("BadResource")
            /\ UNCHANGED <<tx, bufLen, base>>
       ELSE /\ tx' = "idle"
            /\ bufLen' = len
            /\ base' = <<>>
            /\ ret' = Ret("ok")

\* The store is dropped: the region goes back to its owner, and whatever it
\* held is overwritten by the next open.
Close ==
  /\ tx = "idle"
  /\ tx' = "closed"
  /\ bufLen' = 0
  /\ base' = <<>>
  /\ ret' = Ret("ok")
  /\ UNCHANGED <<work, cursor>>

read_transaction ==
  /\ tx = "idle"
  /\ tx' = "read"
  /\ ret' = Ret("ok")
  /\ UNCHANGED <<bufLen, base, work, cursor>>

\* Mutant: the work half is not seeded from the base half.
write_transaction_unseeded ==
  /\ tx = "idle"
  /\ tx' = "write"
  /\ ret' = Ret("ok")
  /\ UNCHANGED <<bufLen, base, work, cursor>>

\* work.copy_from_slice(base) panics when the halves differ in length.
write_transaction ==
  /\ tx = "idle"
  /\ UNCHANGED <<bufLen, base, cursor>>
  /\ IF bufLen - half # half
       THEN /\ ret' = Ret("length_mismatch")
            /\ UNCHANGED <<tx, work>>
       ELSE /\ tx' = "write"
            /\ work' = base
            /\ ret' = Ret("ok")

commit ==
  /\ tx = "write"
  /\ ~cursor.open
  /\ tx' = "idle"
  /\ base' = work
  /\ work' = <<>>
  /\ ret' = Ret("ok")
  /\ UNCHANGED <<bufLen, cursor>>

\* Mutant: an iterator outlives the transaction.
EndTx_keeps_cursor(r) ==
  /\ tx' = "idle"
  /\ work' = <<>>
  /\ ret' = Ret(r)
  /\ UNCHANGED cursor

\* Dropping the transaction object: base was never written.
EndTx(r) ==
  /\ tx' = "idle"
  /\ work' = <<>>
  /\ cursor' = NoCursor
  /\ ret' = Ret(r)

Drop ==
  /\ tx \in {"read", "write"}
  /\ ~cursor.open
  /\ EndTx("ok")
  /\ UNCHANGED <<bufLen, base>>

----------------------------------------------------------------------------
(* Table operations: each borrows the slab from its RefCell for the call.  *)

Encodes(k) == k \notin BigKeys
Serializes(v) == v \notin BigVals

\* An argument that does not encode is refused before the slab is borrowed.
\* The mutable borrow panics while an iterator of the transaction, opened
\* through another handle, is alive, and unwinding drops the transaction.
WriteOp(encodes, op) ==
  /\ tx = "write"
  /\ \/ /\ ~encodes
        /\ ret' = Ret("TooLarge")
        /\ UNCHANGED <<tx, work, cursor>>
     \/ /\ encodes /\ cursor.open
        /\ EndTx("panic")
     \/ /\ encodes /\ ~cursor.open
        /\ work' = op.slab
        /\ ret' = op.ret
        /\ UNCHANGED <<tx, cursor>>
  /\ UNCHANGED <<bufLen, base>>

insert_plain(n, k, v) ==
  WriteOp(Encodes(k) /\ Serializes(v), put_unique(work, n, k, v))

insert_multi(n, k, v) ==
  WriteOp(Encodes(k) /\ Serializes(v), put_multi(work, n, k, v))

remove(n, k) == WriteOp(Encodes(k), remove_key(work, n, k))

remove_value(n, k, v) ==
  WriteOp(Encodes(k) /\ Serializes(v), remove_pair(work, n, k, v))

remove_value_plain ==
  /\ tx = "write"
  /\ ret' = Ret("Unsupported")
  /\ UNCHANGED <<tx, bufLen, base, work, cursor>>

get(n, k) ==
  /\ tx \in {"read", "write"}
  /\ LET i == lower_bound(Slab, n, k)
     IN  ret' = IF ~Encodes(k) THEN Ret("TooLarge")
                ELSE IF matches_name_key(Slab, i, n, k) THEN RetRow(Slab[i])
                ELSE Ret("absent")
  /\ UNCHANGED <<tx, bufLen, base, work, cursor>>

OpenCursor(n, lo, hi) ==
  /\ tx \in {"read", "write"}
  /\ ~cursor.open
  /\ IF Encodes(lo.key) /\ Encodes(hi.key)
       THEN /\ cursor' = [open |-> TRUE, name |-> n, lo |-> lo, hi |-> hi,
                          idx |-> seed(Slab, n, lo)]
            /\ ret' = Ret("ok")
       ELSE /\ ret' = Ret("TooLarge")
            /\ UNCHANGED cursor
  /\ UNCHANGED <<tx, bufLen, base, work>>

get_all(n, k) == OpenCursor(n, Exactly(k), Exactly(k))
range(n, lo, hi) == OpenCursor(n, lo, hi)

next ==
  /\ cursor.open
  /\ LET i == next_idx(Slab, cursor)
     IN  IF Yields(Slab, cursor, i)
           THEN /\ ret' = RetRow(Slab[i])
                /\ cursor' = [cursor EXCEPT !.idx = i + 1]
           ELSE /\ ret' = Ret("end")
                /\ cursor' = [cursor EXCEPT !.idx = i]
  /\ UNCHANGED <<tx, bufLen, base, work>>

DropCursor ==
  /\ cursor.open
  /\ cursor' = NoCursor
  /\ ret' = Ret("ok")
  /\ UNCHANGED <<tx, bufLen, base, work>>

Next ==
  \/ \E len \in BufLens : Open(len)
  \/ Close
  \/ read_transaction
  \/ write_transaction
  \/ commit
  \/ Drop
  \/ \E n \in PlainTables, k \in Keys, v \in Vals : insert_plain(n, k, v)
  \/ \E n \in MultiTables, k \in Keys, v \in Vals :
       insert_multi(n, k, v) \/ remove_value(n, k, v)
  \/ remove_value_plain
  \/ \E n \in Names, k \in Keys : remove(n, k) \/ get(n, k) \/ get_all(n, k)
  \/ \E n \in Names, scan \in ScanRanges : range(n, scan[1], scan[2])
  \/ next
  \/ DropCursor

Spec == Init /\ [][Next]_vars

----------------------------------------------------------------------------
(* Properties.                                                             *)

Bounds == BoundSpec \cup [kind: {"Exact"}, key: Keys]

\* Every variable keeps its type, and what belongs to a transaction is gone
\* with it: no staged slab outside a write transaction, no live iterator
\* outside a transaction, no rows in a closed store.  A live iterator stays
\* within its slab or one past it.
TypeOK ==
  /\ tx \in {"closed", "idle", "read", "write"}
  /\ bufLen \in BufLens \cup {0}
  /\ base \in Seq(Record)
  /\ work \in Seq(Record)
  /\ cursor \in [open: BOOLEAN, name: Names \cup {0}, lo: Bounds, hi: Bounds, idx: Nat]
  /\ ret.row \in Record \cup {NoRow}
  /\ tx # "write" => work = <<>>
  /\ \/ cursor = NoCursor
     \/ cursor.open /\ tx \in {"read", "write"} /\ cursor.idx \in 1..Len(Slab) + 1
  /\ tx = "closed" => base = <<>>

RecordBefore(r, t) == BeforeFull(r, t.name, t.key, t.val)

Sorted(s) == \A i, j \in 1..Len(s) : i < j => RecordBefore(s[i], s[j])

\* The records of both slabs ascend strictly by (name, key, value), through
\* every insertion and removal in the middle: the binary searches and the
\* contiguous scans rest on it, and it makes a multimap a set of pairs.
SlabsSorted == Sorted(base) /\ Sorted(work)

OnePerKey(s) ==
  \A i, j \in 1..Len(s) :
    /\ s[i].name \in PlainTables \ MultiTables
    /\ IsAt(s[j], s[i].name, s[i].key)
    => i = j

\* A table that is only opened as a plain table holds one record per key:
\* put_unique replaces, whatever else shares the slab.
PlainTablesSingle == OnePerKey(base) /\ OnePerKey(work)

\* No slab outgrows the region's half, so commit can copy without failing
\* ("infallible: capacity was already enforced at insert time").
WithinCapacity ==
  /\ Len(base) <= capacity_for(half)
  /\ Len(work) <= capacity_for(half)

\* A refused call stages nothing: put_unique removes the key's records before
\* it inserts, so a Capacity error after the removal would lose them.
RefusedStagesNothing ==
  [][(ret'.res \in {"Capacity", "TooLarge", "Unsupported"}) => work' = work]_vars

----------------------------------------------------------------------------
(* The arena implements the abstract store.                                *)

RowsOf(s) == {s[i] : i \in 1..Len(s)}

\* The rows a live iterator has still to yield.
Pending ==
  {r \in {Slab[i] : i \in cursor.idx..Len(Slab)} :
     r.name = cursor.name /\ lo_ok(cursor.lo, r.key) /\ hi_ok(cursor.hi, r.key)}

RegionCapacity(len) == IF len < 2 * COUNT_HDR THEN -1 ELSE capacity_for(len \div 2)

Abstract == INSTANCE TableStore WITH
  durable <- FALSE,
  Resources <- BufLens,
  CapOf <- RegionCapacity,
  cap <- IF tx = "closed" THEN 0 ELSE capacity_for(half),
  committed <- RowsOf(base),
  staged <- RowsOf(work),
  scanning <- cursor.open,
  todo <- IF cursor.open THEN Pending ELSE {}

\* Every call of the arena returns and does what the abstract store's call
\* would: point operations, scans one record at a time, commit and rollback.
ImplementsTableStore == Abstract!Spec

\* A call acts on the table, the key and the value it was given: what it does to
\* the rows and what it answers is the abstract call's with the same arguments.
\* A neighbour's record is never taken for the key's.  (A call that is refused or
\* panics acts on nothing.)
CallsActOnTheirArguments ==
  [][UNCHANGED <<tx, base, cursor>> =>
       \A n \in Names, k \in Keys \ BigKeys :
         /\ (ret'.res \in {"row", "absent"} /\ get(n, k)) => Abstract!Get(n, k)
         /\ (ret'.res \in {"removed", "absent"} /\ remove(n, k)) => Abstract!Remove(n, k)
         /\ \A v \in Vals \ BigVals :
              /\ (ret'.res = "ok" /\ n \in PlainTables /\ insert_plain(n, k, v))
                   => Abstract!InsertPlain(n, k, v)
              /\ (ret'.res = "ok" /\ n \in MultiTables /\ insert_multi(n, k, v))
                   => Abstract!InsertMulti(n, k, v)
              /\ (/\ ret'.res \in {"removed", "absent"}
                  /\ n \in MultiTables /\ remove_value(n, k, v))
                   => Abstract!RemoveValue(n, k, v)]_vars
=============================================================================
