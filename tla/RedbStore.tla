----------------------------- MODULE RedbStore -----------------------------
(***************************************************************************)
(* The redb backend: tables that exist once a write transaction has opened *)
(* them, a plain one a map from keys to values, a multimap one from keys   *)
(* to sets of values.  Opening a table in a write transaction, to read or  *)
(* to write, creates it; in a read transaction it must exist.              *)
(***************************************************************************)
EXTENDS BackendCalls

\* The iterator of a multimap: the values left of the current key, and the
\* keys left with their values.  The iterator of a plain table has only rest.
NoIter == [open |-> FALSE, table |-> 0, current |-> <<>>, rest |-> <<>>]

Init ==
  /\ tx = "closed"
  /\ base = <<>>
  /\ work = <<>>
  /\ iter = NoIter
  /\ ret = Ret("none")

\* The values a table holds for a key, in ascending order.
ValuesAt(table, k) == IF k \in DOMAIN table THEN Ascending(table[k]) ELSE <<>>

RowsOf(tables) ==
  UNION {UNION {{Row(n, k, v) : v \in tables[n][k]} : k \in DOMAIN tables[n]} : n \in DOMAIN tables}

----------------------------------------------------------------------------
(* The store and its transactions.                                         *)

open ==
  /\ tx = "closed"
  /\ tx' = "idle"
  /\ ret' = Ret("ok")
  /\ UNCHANGED <<base, work, iter>>

\* The database file keeps what was committed.
Gone(r) ==
  /\ tx' = "closed"
  /\ work' = <<>>
  /\ iter' = NoIter
  /\ ret' = Ret(r)
  /\ UNCHANGED base

read_transaction ==
  /\ tx = "idle"
  /\ tx' = "read"
  /\ work' = base
  /\ ret' = Ret("ok")
  /\ UNCHANGED <<base, iter>>

write_transaction ==
  /\ tx = "idle"
  /\ tx' = "write"
  /\ work' = base
  /\ ret' = Ret("ok")
  /\ UNCHANGED <<base, iter>>

EndTx(r) ==
  /\ tx' = "idle"
  /\ work' = <<>>
  /\ iter' = NoIter
  /\ ret' = Ret(r)

commit == Writing /\ base' = work /\ EndTx("ok")

Drop(r) == Reading /\ EndTx(r) /\ UNCHANGED base

----------------------------------------------------------------------------
(* Table handles.                                                          *)

\* The table, made first where a write transaction opens it.
Opened(n) == IF n \in DOMAIN work THEN work ELSE Put(work, n, <<>>)

\* A call that reads table n through a handle it opens.
OnTable(n, found) ==
  \/ /\ tx = "read" /\ n \notin DOMAIN work
     /\ Answers(Ret("TableOpen"))
  \/ /\ tx = "write" \/ n \in DOMAIN work
     /\ work' = Opened(n)
     /\ found

get(n, k) ==
  /\ Reading
  /\ OnTable(n,
       LET values == ValuesAt(Opened(n)[n], k)
       IN  /\ ret' = IF values = <<>> THEN Ret("absent") ELSE RetRow(Row(n, k, values[1]))
           /\ UNCHANGED <<tx, base, iter>>)

Iterate(n, rows) ==
  /\ Reading
  /\ ~iter.open
  /\ OnTable(n, /\ iter' = [rows EXCEPT !.open = TRUE, !.table = n]
                /\ ret' = Ret("ok")
                /\ UNCHANGED <<tx, base>>)

\* The keys of table n between the bounds, each with its values.
Entries(n, lo, hi) ==
  LET table == Opened(n)[n]
      bound(b) == [kind |-> b.kind, at |-> <<b.key>>]
      found == Within({<<k>> : k \in DOMAIN table}, bound(lo), bound(hi))
  IN  [i \in DOMAIN found |-> <<found[i][1], ValuesAt(table, found[i][1])>>]

range(n, lo, hi) == Iterate(n, [NoIter EXCEPT !.rest = Entries(n, lo, hi)])

get_all(n, k) ==
  IF n \in PlainTables THEN range(n, Included(k), Included(k))
  ELSE Iterate(n, [NoIter EXCEPT !.current = <<k, ValuesAt(Opened(n)[n], k)>>])

\* The current key's next value; when it has none left, the next key's first.
next ==
  /\ Scanning
  /\ LET more == iter.current # <<>> /\ iter.current[2] # <<>>
         at   == IF more THEN iter.current ELSE Head(iter.rest)
     IN  IF more \/ iter.rest # <<>>
           THEN /\ ret' = RetRow(Row(iter.table, at[1], Head(at[2])))
                /\ iter' = [iter EXCEPT !.current = <<at[1], Tail(at[2])>>,
                                        !.rest = IF more THEN @ ELSE Tail(@)]
           ELSE /\ ret' = Ret("end")
                /\ UNCHANGED iter
  /\ UNCHANGED <<tx, base, work>>

EndScan ==
  /\ Scanning
  /\ iter' = NoIter
  /\ ret' = Ret("ok")
  /\ UNCHANGED <<tx, base, work>>

----------------------------------------------------------------------------
Stage(n, table, r) ==
  /\ Writing
  /\ work' = [Opened(n) EXCEPT ![n] = table]
  /\ ret' = r
  /\ UNCHANGED <<tx, base, iter>>

At(n, k) == Range(ValuesAt(Opened(n)[n], k))

\* A key whose last value goes, goes with it.
With(n, k, values) ==
  IF values = {} THEN Restrict(Opened(n)[n], DOMAIN Opened(n)[n] \ {k})
                 ELSE Put(Opened(n)[n], k, values)

insert(n, k, v) ==
  Stage(n, With(n, k, IF n \in PlainTables THEN {v} ELSE At(n, k) \cup {v}), Ret("ok"))

remove(n, k) == Stage(n, With(n, k, {}), Removed(At(n, k) # {}))

\* TableWriteOps::remove_value refuses the tables that do not override it.
remove_value(n, k, v) ==
  \/ n \in PlainTables /\ Stage(n, Opened(n)[n], Ret("Unsupported"))
  \/ n \in MultiTables /\ Stage(n, With(n, k, At(n, k) \ {v}), Removed(v \in At(n, k)))

----------------------------------------------------------------------------
\* Four kinds of table handle: of a read or a write transaction, for a plain
\* table or a multimap.
Lookups(n) ==
  \/ \E k \in Keys : get(n, k) \/ get_all(n, k)
  \/ \E scan \in ScanRanges : range(n, scan[1], scan[2])

Updates(n) ==
  \E k \in Keys :
    \/ remove(n, k)
    \/ \E v \in Vals : insert(n, k, v) \/ remove_value(n, k, v)

RedbReadTable == tx = "read" /\ \E n \in PlainTables : Lookups(n)
RedbReadMultimapTable == tx = "read" /\ \E n \in MultiTables : Lookups(n)
RedbWriteTable == tx = "write" /\ \E n \in PlainTables : Lookups(n) \/ Updates(n)
RedbWriteMultimapTable == tx = "write" /\ \E n \in MultiTables : Lookups(n) \/ Updates(n)

Next ==
  \/ open
  \/ tx = "idle" /\ Gone("ok")
  \/ tx # "closed" /\ Gone("crashed")
  \/ read_transaction
  \/ write_transaction
  \/ commit
  \/ \E r \in {"ok", "panic"} : Drop(r)
  \/ RedbReadTable \/ RedbReadMultimapTable
  \/ RedbWriteTable \/ RedbWriteMultimapTable
  \/ next
  \/ EndScan

Spec == Init /\ [][Next]_<<tx, base, work, iter, ret>>

\* Every key that is there has values; a plain table's key has one.
TablesOK(tables) ==
  /\ DOMAIN tables \subseteq Names
  /\ \A n \in DOMAIN tables : \A k \in DOMAIN tables[n] :
       /\ k \in Keys
       /\ tables[n][k] \in (SUBSET Vals) \ {{}}
       /\ n \in PlainTables => Cardinality(tables[n][k]) = 1

TypeOK ==
  /\ TablesOK(base)
  /\ TablesOK(work)
  /\ ~iter.open => iter = NoIter
=============================================================================
