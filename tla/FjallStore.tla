----------------------------- MODULE FjallStore -----------------------------
(***************************************************************************)
(* The fjall backend: one keyspace per table, an ordered map from byte     *)
(* keys to byte values.  A plain table maps the encoded key to the value;  *)
(* a multimap composes both into the key and stores an empty value, so     *)
(* that the values of a key are the entries its encoding is a prefix of.   *)
(* A byte key is a sequence of ranks: <<k>> or <<k, v>>.                   *)
(***************************************************************************)
EXTENDS BackendCalls

NoIter == [open |-> FALSE, table |-> 0, entries |-> <<>>]
NoTables == [n \in Names |-> <<>>]

Init ==
  /\ tx = "closed"
  /\ base = NoTables
  /\ work = NoTables
  /\ iter = NoIter
  /\ ret = Ret("none")

\* The row an entry of table n stands for.
Decoded(n, raw, value) ==
  Row(n, raw[1], IF n \in PlainTables THEN value[1] ELSE raw[2])

RowsOf(tables) ==
  UNION {{Decoded(n, raw, tables[n][raw]) : raw \in DOMAIN tables[n]} : n \in Names}

----------------------------------------------------------------------------
(* The store and its transactions.                                         *)

open ==
  /\ tx = "closed"
  /\ tx' = "idle"
  /\ ret' = Ret("ok")
  /\ UNCHANGED <<base, work, iter>>

\* The database keeps what was committed.
Gone(r) ==
  /\ tx' = "closed"
  /\ work' = NoTables
  /\ iter' = NoIter
  /\ ret' = Ret(r)
  /\ UNCHANGED base

read_transaction ==
  /\ tx = "idle"
  /\ tx' = "read"
  /\ work' = base
  /\ ret' = Ret("ok")
  /\ UNCHANGED <<base, iter>>

write_transaction ==
  /\ tx = "idle"
  /\ tx' = "write"
  /\ work' = base
  /\ ret' = Ret("ok")
  /\ UNCHANGED <<base, iter>>

EndTx(r) ==
  /\ tx' = "idle"
  /\ work' = NoTables
  /\ iter' = NoIter
  /\ ret' = Ret(r)

commit == Writing /\ base' = work /\ EndTx("ok")

Drop(r) == Reading /\ EndTx(r) /\ UNCHANGED base

----------------------------------------------------------------------------
(* Table handles.                                                          *)

\* Mutant: a prefix scan that stops before the last entry of the key.
prefix_short(n, k) ==
  LET found == Sorted({raw \in DOMAIN work[n] : raw[1] = k})
  IN  IF Len(found) > 1 THEN Front(found) ELSE found

\* Mutant: a seek that takes the first key at or after the one it looks for.
prefix_seek(n, k) ==
  LET after == {raw \in DOMAIN work[n] : raw[1] >= k}
  IN  Sorted({raw \in after : \A other \in after : raw[1] <= other[1]})

prefix(n, k) == Sorted({raw \in DOMAIN work[n] : IsPrefix(<<k>>, raw)})

\* Mutant: a bound that leaves its key out names the next key.
byte_bound_next(b) ==
  IF b.kind = "Excluded" THEN [kind |-> "Included", at |-> <<b.key + 1>>]
                         ELSE [kind |-> b.kind, at |-> <<b.key>>]

\* The bounds are encoded keys, and in a multimap never whole entries.
byte_bound(b) == [kind |-> b.kind, at |-> <<b.key>>]

Between(n, lo, hi) == Within(DOMAIN work[n], byte_bound(lo), byte_bound(hi))

\* The bounds that mean the same for composed keys as for the keys in them.
HalfOpen(lo, hi) == lo.kind # "Excluded" /\ hi.kind # "Included"

get_all_entries(n, k) ==
  IF n \in PlainTables THEN Between(n, Included(k), Included(k)) ELSE prefix(n, k)

get(n, k) ==
  /\ Reading
  /\ LET found == IF n \in MultiTables THEN prefix(n, k)
                  ELSE IF <<k>> \in DOMAIN work[n] THEN <<<<k>>>> ELSE <<>>
     IN  Answers(IF found = <<>> THEN Ret("absent")
                 ELSE RetRow(Decoded(n, found[1], work[n][found[1]])))

Iterate(n, raws) ==
  /\ Reading
  /\ ~iter.open
  /\ iter' = [open |-> TRUE, table |-> n,
              entries |-> [i \in DOMAIN raws |-> <<raws[i], work[n][raws[i]]>>]]
  /\ ret' = Ret("ok")
  /\ UNCHANGED <<tx, base, work>>

get_all(n, k) == Iterate(n, get_all_entries(n, k))

range(n, lo, hi) == Iterate(n, Between(n, lo, hi))

next ==
  /\ Scanning
  /\ IF iter.entries = <<>>
       THEN ret' = Ret("end") /\ UNCHANGED iter
       ELSE /\ ret' = RetRow(Decoded(iter.table, Head(iter.entries)[1], Head(iter.entries)[2]))
            /\ iter' = [iter EXCEPT !.entries = Tail(@)]
  /\ UNCHANGED <<tx, base, work>>

EndScan ==
  /\ Scanning
  /\ iter' = NoIter
  /\ ret' = Ret("ok")
  /\ UNCHANGED <<tx, base, work>>

----------------------------------------------------------------------------
Stage(n, table, r) ==
  /\ Writing
  /\ work' = [work EXCEPT ![n] = table]
  /\ ret' = r
  /\ UNCHANGED <<tx, base, iter>>

Without(n, raws) == Restrict(work[n], DOMAIN work[n] \ raws)

insert(n, k, v) ==
  Stage(n, IF n \in PlainTables THEN Put(work[n], <<k>>, <<v>>) ELSE Put(work[n], <<k, v>>, <<>>),
        Ret("ok"))

remove(n, k) ==
  LET doomed == IF n \in PlainTables THEN {<<k>>} ELSE Range(prefix(n, k))
  IN  Stage(n, Without(n, doomed), Removed(doomed \cap DOMAIN work[n] # {}))

\* TableWriteOps::remove_value refuses the tables that do not override it.
remove_value(n, k, v) ==
  \/ n \in PlainTables /\ Writing /\ Answers(Ret("Unsupported"))
  \/ /\ n \in MultiTables
     /\ Stage(n, Without(n, {<<k, v>>}), Removed(<<k, v>> \in DOMAIN work[n]))

----------------------------------------------------------------------------
\* Four kinds of table handle: on the snapshot of a read transaction or on the
\* staged data of a write transaction, for a plain table or a multimap.
Lookups(n, scans) ==
  \/ \E k \in Keys : get(n, k) \/ get_all(n, k)
  \/ \E scan \in scans : range(n, scan[1], scan[2])

\* The scans of a multimap whose bounds its entries respect.
MultimapScans == {scan \in ScanRanges : HalfOpen(scan[1], scan[2])}

Updates(n) ==
  \E k \in Keys :
    \/ remove(n, k)
    \/ \E v \in Vals : insert(n, k, v) \/ remove_value(n, k, v)

FjallReadTable == tx = "read" /\ \E n \in PlainTables : Lookups(n, ScanRanges)
FjallReadMultimapTable == tx = "read" /\ \E n \in MultiTables : Lookups(n, MultimapScans)
FjallWriteTable ==
  tx = "write" /\ \E n \in PlainTables : Lookups(n, ScanRanges) \/ Updates(n)
FjallWriteMultimapTable ==
  tx = "write" /\ \E n \in MultiTables : Lookups(n, MultimapScans) \/ Updates(n)

Next ==
  \/ open
  \/ tx = "idle" /\ Gone("ok")
  \/ tx # "closed" /\ Gone("crashed")
  \/ read_transaction
  \/ write_transaction
  \/ commit
  \/ \E r \in {"ok", "panic"} : Drop(r)
  \/ FjallReadTable \/ FjallReadMultimapTable
  \/ FjallWriteTable \/ FjallWriteMultimapTable
  \/ next
  \/ EndScan

Spec == Init /\ [][Next]_<<tx, base, work, iter, ret>>

\* A plain table's entries are key to value, a multimap's whole pairs.
TablesOK(tables) ==
  \A n \in Names : \A raw \in DOMAIN tables[n] :
    IF n \in PlainTables
      THEN raw \in {<<k>> : k \in Keys} /\ tables[n][raw] \in {<<v>> : v \in Vals}
      ELSE raw \in Keys \X Vals /\ tables[n][raw] = <<>>

TypeOK ==
  /\ TablesOK(base)
  /\ TablesOK(work)
  /\ ~iter.open => iter = NoIter
=============================================================================
