------------------------------ MODULE Backends ------------------------------
(***************************************************************************)
(* The memory, fjall and redb backends behind the one interface the rest   *)
(* of the program uses.  "backend" says which of the three the store is;   *)
(* whichever it is, the abstract store of module TableStore describes it.  *)
(***************************************************************************)
EXTENDS BackendCalls

CONSTANT NameFence

\* A name's fence sorts after it, and after the names that extend it.
ASSUME FenceAssumption ==
  /\ NameFence \in [Names -> Nat]
  /\ \A n \in Names : n < NameFence[n]

VARIABLE backend

vars == <<backend, tx, base, work, iter, ret>>

Memory == INSTANCE MemoryStore
Fjall == INSTANCE FjallStore
Redb == INSTANCE RedbStore

Init ==
  \/ backend = "memory" /\ Memory!Init
  \/ backend = "fjall" /\ Fjall!Init
  \/ backend = "redb" /\ Redb!Init

Next ==
  /\ UNCHANGED backend
  /\ \/ backend = "memory" /\ Memory!Next
     \/ backend = "fjall" /\ Fjall!Next
     \/ backend = "redb" /\ Redb!Next

Spec == Init /\ [][Next]_vars

\* Callers that also scan, without an upper bound, a memory table whose name
\* others extend.
AnyScanNext ==
  \/ Next
  \/ backend = "memory" /\ Memory!RunOn /\ UNCHANGED backend

AnyScanSpec == Init /\ [][AnyScanNext]_vars

----------------------------------------------------------------------------
(* Properties.                                                             *)

\* Every backend keeps its bytes in the form its readers rely on: a memory
\* slot is never empty and its values strictly ascend, a fjall multimap entry
\* is a whole pair, a redb key has values, and plain tables keep one value.
TypeOK ==
  /\ backend \in {"memory", "fjall", "redb"}
  /\ tx \in {"closed", "idle", "read", "write"}
  /\ CASE backend = "memory" -> Memory!TypeOK
       [] backend = "fjall" -> Fjall!TypeOK
       [] backend = "redb" -> Redb!TypeOK

RowsOf(data) ==
  CASE backend = "memory" -> Memory!RowsOf(data)
    [] backend = "fjall" -> Fjall!RowsOf(data)
    [] backend = "redb" -> Redb!RowsOf(data)

Pending ==
  CASE backend = "memory" -> Range(iter.rows)
    [] backend = "fjall" ->
         {Fjall!Decoded(iter.table, e[1], e[2]) : e \in Range(iter.entries)}
    [] backend = "redb" ->
         UNION {{Row(iter.table, e[1], v) : v \in Range(e[2])} :
                  e \in Range(iter.rest) \cup ({iter.current} \ {<<>>})}

\* None of the three refuses a store or a row for want of room.
Roomy == Cardinality([name : Names, key : Keys, val : Vals])

Store == INSTANCE TableStore WITH
  durable <- backend # "memory",
  Resources <- {0},
  CapOf <- LAMBDA region : Roomy,
  BigKeys <- {},
  BigVals <- {},
  cap <- IF tx = "closed" THEN 0 ELSE Roomy,
  committed <- RowsOf(base),
  staged <- IF tx = "write" THEN RowsOf(work) ELSE {},
  scanning <- iter.open,
  todo <- IF iter.open THEN Pending ELSE {}

\* Whatever the backend, its calls answer and its rows change as the abstract
\* store's do: a plain insert overwrites, a multimap is a set, scans ascend and
\* stay in their table and bounds, a dropped transaction leaves nothing, and
\* only the persistent backends still have their rows after a restart.
ImplementsTableStore == Store!Spec

get(n, k) ==
  CASE backend = "memory" -> Memory!map_get(n, k)
    [] backend = "fjall" -> Fjall!get(n, k)
    [] backend = "redb" -> Redb!get(n, k)

insert(n, k, v) ==
  CASE backend = "memory" -> Memory!insert(n, k, v)
    [] backend = "fjall" -> Fjall!insert(n, k, v)
    [] backend = "redb" -> Redb!insert(n, k, v)

remove(n, k) ==
  CASE backend = "memory" -> Memory!remove(n, k)
    [] backend = "fjall" -> Fjall!remove(n, k)
    [] backend = "redb" -> Redb!remove(n, k)

remove_value(n, k, v) ==
  CASE backend = "memory" -> Memory!remove_value(n, k, v)
    [] backend = "fjall" -> Fjall!remove_value(n, k, v)
    [] backend = "redb" -> Redb!remove_value(n, k, v)

\* A call does to the rows what it was asked for with its own arguments, and
\* no other call's work: its table's, its key's and its value's rows and answer.
CallsActOnTheirArguments ==
  [][UNCHANGED <<tx, base, iter>> =>
       \A n \in Names, k \in Keys :
         /\ (ret'.res \in {"row", "absent", "NotFound"} /\ get(n, k))
              => Store!Get(n, k) \/ Store!NoSuchTable(n)
         /\ (ret'.res \in {"removed", "absent"} /\ remove(n, k)) => Store!Remove(n, k)
         /\ \A v \in Vals :
              /\ (ret'.res = "ok" /\ insert(n, k, v))
                   => IF n \in PlainTables THEN Store!InsertPlain(n, k, v)
                                           ELSE Store!InsertMulti(n, k, v)
              /\ (/\ ret'.res \in {"removed", "absent", "Unsupported"}
                  /\ remove_value(n, k, v))
                   => IF n \in PlainTables THEN Store!RemoveValuePlain
                                           ELSE Store!RemoveValue(n, k, v)]_vars

\* In a fjall multimap a bound is compared with whole entries, all of which sort
\* after the bare key: an inclusive upper bound leaves its key out and an
\* exclusive lower bound lets its key in.  Every other row is found or left out
\* as it should be.
BoundsMissOnlyTheirKey ==
  backend = "fjall" => \A n \in MultiTables, scan \in ScanRanges :
    LET lo == scan[1]
        hi == scan[2]
        found == {Fjall!Decoded(n, raw, <<>>) : raw \in Range(Fjall!Between(n, lo, hi))}
        meant == Store!RowsIn(RowsOf(work), n, lo, hi)
        at(b, kind) == IF b.kind = kind THEN Store!RowsAt(RowsOf(work), n, b.key) ELSE {}
    IN  found = (meant \cup at(lo, "Excluded")) \ at(hi, "Included")

\* In memory all tables share one map, and a scan without an upper bound ends at
\* its table's fence: it takes in, besides its own rows, every row of the tables
\* whose names extend its own, and no other; a scan with an upper bound stays in
\* its table.
FenceLetsInOnlyLongerNames ==
  backend = "memory" => \A n \in Names, scan \in ScanRanges :
    LET lo == scan[1]
        hi == scan[2]
        longer == {r \in RowsOf(work) : r.name \in Memory!Extensions(n)}
    IN  Range(Memory!Found(n, lo, hi)) =
          Store!RowsIn(RowsOf(work), n, lo, hi) \cup (IF hi.kind = "Unbounded" THEN longer ELSE {})

\* A scan of a memory table collects "all keys of this table", and no other's.
ScansStayInTheirTable ==
  backend = "memory" => \A r \in Range(iter.rows) : r.name = iter.table
=============================================================================
