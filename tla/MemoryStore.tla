---------------------------- MODULE MemoryStore ----------------------------
(***************************************************************************)
(* The memory backend: one ordered map from (table name, encoded key) to   *)
(* the values kept there.  A read transaction clones the map, a write      *)
(* transaction stages into a clone that commit swaps in.                   *)
(***************************************************************************)
EXTENDS BackendCalls

\* The name with U+10FFFF appended, as a rank among the table names: the names
\* between a name and its fence are those that extend it, as the names of a
\* model's auxiliary tables extend that of its primary table.
CONSTANT NameFence

NoIter == [open |-> FALSE, table |-> 0, rows |-> <<>>]

Init ==
  /\ tx = "closed"
  /\ base = <<>>
  /\ work = <<>>
  /\ iter = NoIter
  /\ ret = Ret("none")

Slot(n, k) == IF <<n, k>> \in DOMAIN work THEN work[<<n, k>>] ELSE <<>>

RowsOf(map) ==
  UNION {{Row(p[1], p[2], v) : v \in Range(map[p])} : p \in DOMAIN map}

----------------------------------------------------------------------------
(* The store and its transactions.                                         *)

open ==
  /\ tx = "closed"
  /\ tx' = "idle"
  /\ base' = <<>>
  /\ ret' = Ret("ok")
  /\ UNCHANGED <<work, iter>>

\* Dropping the store, or the process that holds it, drops the map.
Gone(r) ==
  /\ tx' = "closed"
  /\ base' = <<>>
  /\ work' = <<>>
  /\ iter' = NoIter
  /\ ret' = Ret(r)

read_transaction ==
  /\ tx = "idle"
  /\ tx' = "read"
  /\ work' = base
  /\ ret' = Ret("ok")
  /\ UNCHANGED <<base, iter>>

write_transaction ==
  /\ tx = "idle"
  /\ tx' = "write"
  /\ work' = base
  /\ ret' = Ret("ok")
  /\ UNCHANGED <<base, iter>>

EndTx(r) ==
  /\ tx' = "idle"
  /\ work' = <<>>
  /\ iter' = NoIter
  /\ ret' = Ret(r)

commit == Writing /\ base' = work /\ EndTx("ok")

Drop(r) == Reading /\ EndTx(r) /\ UNCHANGED base

----------------------------------------------------------------------------
(* Table handles.                                                          *)

map_get(n, k) ==
  /\ Reading
  /\ Answers(IF Slot(n, k) = <<>> THEN Ret("absent")
                                  ELSE RetRow(Row(n, k, Slot(n, k)[1])))

\* The rows of the slots, one slot after the other.
Collected(slots) ==
  LET places == Sorted(UNION {{i} \X DOMAIN work[slots[i]] : i \in DOMAIN slots})
      row(slot, j) == Row(slot[1], slot[2], work[slot][j])
  IN  [m \in DOMAIN places |-> row(slots[places[m][1]], places[m][2])]

Iterate(n, rows) ==
  /\ Reading
  /\ ~iter.open
  /\ iter' = [open |-> TRUE, table |-> n, rows |-> rows]
  /\ ret' = Ret("ok")
  /\ UNCHANGED <<tx, base, work>>

map_get_all(n, k) == Iterate(n, [j \in DOMAIN Slot(n, k) |-> Row(n, k, Slot(n, k)[j])])

\* Mutant: an unbounded start is the map's own, not the table's.
range_start_of_map(n, lo) ==
  IF lo.kind = "Unbounded" THEN [kind |-> "Included", at |-> <<>>]
                           ELSE [kind |-> lo.kind, at |-> <<n, lo.key>>]

\* The bounds of one table in the map of all of them.
range_start(n, lo) ==
  IF lo.kind = "Unbounded" THEN [kind |-> "Included", at |-> <<n>>]
                           ELSE [kind |-> lo.kind, at |-> <<n, lo.key>>]
range_end(n, hi) ==
  IF hi.kind = "Unbounded" THEN [kind |-> "Excluded", at |-> <<NameFence[n]>>]
                           ELSE [kind |-> hi.kind, at |-> <<n, hi.key>>]

Found(n, lo, hi) == Collected(Within(DOMAIN work, range_start(n, lo), range_end(n, hi)))

map_range(n, lo, hi) == Iterate(n, Found(n, lo, hi))

\* What an iterator of table n makes of a collected row: another table's bytes
\* may or may not be a key and a value of this one.
Readings(n, row) ==
  IF row.name = n THEN {RetRow(row)} ELSE {RetRow(Row(n, row.key, row.val)), Ret("Decode")}

next ==
  /\ Scanning
  /\ IF iter.rows = <<>>
       THEN ret' = Ret("end") /\ UNCHANGED iter
       ELSE /\ ret' \in Readings(iter.table, Head(iter.rows))
            /\ iter' = [iter EXCEPT !.rows = Tail(@)]
  /\ UNCHANGED <<tx, base, work>>

EndScan ==
  /\ Scanning
  /\ iter' = NoIter
  /\ ret' = Ret("ok")
  /\ UNCHANGED <<tx, base, work>>

----------------------------------------------------------------------------
Stage(map, r) ==
  /\ Writing
  /\ work' = map
  /\ ret' = r
  /\ UNCHANGED <<tx, base, iter>>

Without(n, k) == Restrict(work, DOMAIN work \ {<<n, k>>})

\* The values of a slot once v is inserted.
Placed(n, slot, v) ==
  IF n \in PlainTables THEN <<v>>
  ELSE IF v \in Range(slot) THEN slot
  ELSE Ascending(Range(slot) \cup {v})

insert(n, k, v) == Stage(Put(work, <<n, k>>, Placed(n, Slot(n, k), v)), Ret("ok"))

remove(n, k) == Stage(Without(n, k), Removed(<<n, k>> \in DOMAIN work))

\* The values of a slot but v, in the order they had.
Kept(slot, v) ==
  LET places == Ascending({i \in DOMAIN slot : slot[i] # v})
  IN  [m \in DOMAIN places |-> slot[places[m]]]

\* Mutant: the slot of a key stays when its last value is removed.
remove_value_keeps_slot(n, k, v) ==
  \/ n \in PlainTables /\ Writing /\ Answers(Ret("Unsupported"))
  \/ n \in MultiTables /\ <<n, k>> \notin DOMAIN work /\ Writing /\ Answers(Ret("absent"))
  \/ /\ n \in MultiTables /\ <<n, k>> \in DOMAIN work
     /\ Stage(Put(work, <<n, k>>, Kept(Slot(n, k), v)), Removed(v \in Range(Slot(n, k))))

\* A slot that loses its last value goes.
remove_value(n, k, v) ==
  LET kept == Kept(Slot(n, k), v)
  IN  \/ n \in PlainTables /\ Writing /\ Answers(Ret("Unsupported"))
      \/ n \in MultiTables /\ <<n, k>> \notin DOMAIN work /\ Writing /\ Answers(Ret("absent"))
      \/ /\ n \in MultiTables /\ <<n, k>> \in DOMAIN work
         /\ Stage(IF kept = <<>> THEN Without(n, k) ELSE Put(work, <<n, k>>, kept),
                  Removed(v \in Range(Slot(n, k))))

----------------------------------------------------------------------------
Extensions(n) == {m \in Names : n < m /\ m < NameFence[n]}

\* The scans that end in their table: those with an upper bound, and all of a
\* table whose name no other extends.
FencedScans(n) == {scan \in ScanRanges : scan[2].kind = "Unbounded" => Extensions(n) = {}}

\* A table handle of a read transaction looks into the map the transaction
\* found, one of a write transaction into the map it stages.
Lookups(n) ==
  \/ \E k \in Keys : map_get(n, k) \/ map_get_all(n, k)
  \/ \E scan \in FencedScans(n) : map_range(n, scan[1], scan[2])

MemoryReadTable(n) == tx = "read" /\ Lookups(n)

MemoryWriteTable(n) ==
  \/ tx = "write" /\ Lookups(n)
  \/ \E k \in Keys :
       \/ remove(n, k)
       \/ \E v \in Vals : insert(n, k, v) \/ remove_value(n, k, v)

Next ==
  \/ open
  \/ tx = "idle" /\ Gone("ok")
  \/ tx # "closed" /\ Gone("crashed")
  \/ read_transaction
  \/ write_transaction
  \/ commit
  \/ \E r \in {"ok", "panic"} : Drop(r)
  \/ \E n \in Names : MemoryReadTable(n) \/ MemoryWriteTable(n)
  \/ next
  \/ EndScan

\* The other scans, which run on into the tables whose names extend this one's.
RunOn ==
  \E n \in Names : \E scan \in ScanRanges \ FencedScans(n) : map_range(n, scan[1], scan[2])

Spec == Init /\ [][Next]_<<tx, base, work, iter, ret>>

\* Every slot holds values, in strictly ascending order; a plain table's one.
MapOK(map) ==
  /\ DOMAIN map \subseteq Names \X Keys
  /\ \A p \in DOMAIN map :
       /\ map[p] \in Seq(Vals) \ {<<>>}
       /\ \A i, j \in 1..Len(map[p]) : i < j => map[p][i] < map[p][j]
       /\ p[1] \in PlainTables => Len(map[p]) = 1

TypeOK ==
  /\ MapOK(base)
  /\ MapOK(work)
  /\ iter.rows \in Seq([name : Names, key : Keys, val : Vals])
  /\ ~iter.open => iter = NoIter
=============================================================================
