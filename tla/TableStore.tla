----------------------------- MODULE TableStore -----------------------------
(***************************************************************************)
(* What every storage backend promises its callers, whatever it keeps its  *)
(* bytes in: a set of committed rows, at most one write transaction whose  *)
(* staged rows become the committed rows in one step or not at all, point  *)
(* operations that either do their whole work or nothing, and range scans  *)
(* that yield the rows in the range in ascending order, each once.         *)
(*                                                                         *)
(* The traits TableReadOps and TableWriteOps and the transaction traits    *)
(* of the repository state this interface; the arena backend (module       *)
(* ArenaStore) and the memory, fjall and redb backends (module Backends)   *)
(* are shown to implement it.  The committed rows of a durable store       *)
(* outlive its handle and its process; those of the others do not.  A byte *)
(* string (a table name, an encoded key, a serialised value) is its rank   *)
(* in byte order, a natural number.                                        *)
(***************************************************************************)
EXTENDS Integers, FiniteSets

CONSTANTS
  PlainTables,    \* names of the tables opened as plain tables
  MultiTables,    \* names of the tables opened as multimap tables
  Keys,           \* ordered-encoded keys
  Vals,           \* canonical value bytes
  BigKeys,        \* keys whose encoding exceeds the backend's key limit
  BigVals,        \* values whose encoding exceeds the backend's value limit
  ScanRanges,     \* the pairs of bounds callers scan with
  Resources       \* the regions a store may be opened on
CONSTANT CapOf(_) \* the rows a region has room for, or -1 for one it refuses

VARIABLES
  durable,        \* whether the committed rows survive a restart; fixed
  tx,             \* "closed", "idle", "read" or "write"
  cap,            \* how many rows the open store has room for
  committed,      \* the rows a new transaction finds
  staged,         \* the rows the open write transaction sees
  scanning,       \* whether an iterator of the transaction is alive
  todo,           \* the rows that iterator has still to yield
  ret             \* what the last call returned

vars == <<durable, tx, cap, committed, staged, scanning, todo, ret>>

Names == PlainTables \cup MultiTables
Row == [name: Names, key: Keys, val: Vals]
NoRow == [name |-> 0, key |-> 0, val |-> 0]

Ret(r) == [res |-> r, row |-> NoRow]
RetRow(r) == [res |-> "row", row |-> r]

\* Range bounds of a scan; "Exact" is get_all, the scan of a single key.
Exactly(k) == [kind |-> "Exact", key |-> k]

AboveLo(lo, k) ==
  \/ lo.kind \in {"Unbounded", "Exact"}
  \/ lo.kind = "Included" /\ k >= lo.key
  \/ lo.kind = "Excluded" /\ k > lo.key

BelowHi(hi, k) ==
  \/ hi.kind = "Unbounded"
  \/ hi.kind = "Exact" /\ k = hi.key
  \/ hi.kind = "Included" /\ k <= hi.key
  \/ hi.kind = "Excluded" /\ k < hi.key

\* The order of one table's rows: by key, then by value.
RowBefore(r, s) == r.key < s.key \/ (r.key = s.key /\ r.val < s.val)
First(rows) == CHOOSE r \in rows : \A s \in rows \ {r} : RowBefore(r, s)

RowsAt(rows, n, k) == {r \in rows : r.name = n /\ r.key = k}
RowsIn(rows, n, lo, hi) ==
  {r \in rows : r.name = n /\ AboveLo(lo, r.key) /\ BelowHi(hi, r.key)}

Visible == IF tx = "write" THEN staged ELSE committed

----------------------------------------------------------------------------
Init ==
  /\ durable \in BOOLEAN
  /\ tx = "closed"
  /\ cap = 0
  /\ committed = {}
  /\ staged = {}
  /\ scanning = FALSE
  /\ todo = {}
  /\ ret = Ret("none")

Open(region) ==
  /\ tx = "closed"
  /\ UNCHANGED <<staged, scanning, todo>>
  /\ IF CapOf(region) < 0
       THEN /\ ret' = Ret("BadResource")
            /\ UNCHANGED <<tx, cap, committed>>
       ELSE /\ tx' = "idle"
            /\ cap' = CapOf(region)
            /\ ret' = Ret("ok")
            /\ UNCHANGED committed

\* What is left when the store's handle is gone.
Surviving == IF durable THEN committed ELSE {}

Close ==
  /\ tx = "idle"
  /\ tx' = "closed"
  /\ cap' = 0
  /\ committed' = Surviving
  /\ ret' = Ret("ok")
  /\ UNCHANGED <<staged, scanning, todo>>

BeginRead ==
  /\ tx = "idle"
  /\ tx' = "read"
  /\ ret' = Ret("ok")
  /\ UNCHANGED <<cap, committed, staged, scanning, todo>>

BeginWrite ==
  /\ tx = "idle"
  /\ tx' = "write"
  /\ staged' = committed
  /\ ret' = Ret("ok")
  /\ UNCHANGED <<cap, committed, scanning, todo>>

Commit ==
  /\ tx = "write"
  /\ ~scanning
  /\ committed' = staged
  /\ staged' = {}
  /\ tx' = "idle"
  /\ ret' = Ret("ok")
  /\ UNCHANGED <<cap, scanning, todo>>

\* Dropping a transaction, by return or by unwinding, publishes nothing.
Rollback(r) ==
  /\ tx \in {"read", "write"}
  /\ staged' = {}
  /\ scanning' = FALSE
  /\ todo' = {}
  /\ tx' = "idle"
  /\ ret' = r
  /\ UNCHANGED <<cap, committed>>

\* The process dies, whatever it was doing.
Crash ==
  /\ tx # "closed"
  /\ tx' = "closed"
  /\ cap' = 0
  /\ committed' = Surviving
  /\ staged' = {}
  /\ scanning' = FALSE
  /\ todo' = {}
  /\ ret' = Ret("crashed")

----------------------------------------------------------------------------
\* A call whose arguments exceed a limit is refused.
Refused(tooLarge) ==
  /\ tooLarge
  /\ ret' = Ret("TooLarge")
  /\ UNCHANGED staged

\* A write that does not fit is refused and stages nothing.  No row changes
\* while an iterator is alive.
Stage(rows, tooLarge) ==
  /\ tx = "write"
  /\ \/ Refused(tooLarge)
     \/ /\ ~tooLarge /\ ~scanning
        /\ Cardinality(rows) > cap
        /\ ret' = Ret("Capacity")
        /\ UNCHANGED staged
     \/ /\ ~tooLarge /\ ~scanning
        /\ Cardinality(rows) <= cap
        /\ ret' = Ret("ok")
        /\ staged' = rows
  /\ UNCHANGED <<tx, cap, committed, scanning, todo>>

InsertPlain(n, k, v) ==
  Stage((staged \ RowsAt(staged, n, k)) \cup {[name |-> n, key |-> k, val |-> v]},
        k \in BigKeys \/ v \in BigVals)

InsertMulti(n, k, v) ==
  Stage(staged \cup {[name |-> n, key |-> k, val |-> v]}, k \in BigKeys \/ v \in BigVals)

Unstage(rows, tooLarge) ==
  /\ tx = "write"
  /\ \/ Refused(tooLarge)
     \/ /\ ~tooLarge /\ ~scanning
        /\ ret' = Ret(IF rows \cap staged = {} THEN "absent" ELSE "removed")
        /\ staged' = staged \ rows
  /\ UNCHANGED <<tx, cap, committed, scanning, todo>>

Remove(n, k) == Unstage(RowsAt(staged, n, k), k \in BigKeys)

RemoveValue(n, k, v) ==
  Unstage({[name |-> n, key |-> k, val |-> v]}, k \in BigKeys \/ v \in BigVals)

RemoveValuePlain ==
  /\ tx = "write"
  /\ ret' = Ret("Unsupported")
  /\ UNCHANGED <<tx, cap, committed, staged, scanning, todo>>

Get(n, k) ==
  /\ tx \in {"read", "write"}
  /\ ret' = CASE k \in BigKeys -> Ret("TooLarge")
              [] k \notin BigKeys /\ RowsAt(Visible, n, k) = {} -> Ret("absent")
              [] OTHER -> RetRow(First(RowsAt(Visible, n, k)))
  /\ UNCHANGED <<tx, cap, committed, staged, scanning, todo>>

\* A read transaction may refuse a table, but only one that holds no rows.
NoSuchTable(n) ==
  /\ tx = "read"
  /\ \A r \in committed : r.name # n
  /\ ret' = Ret("TableOpen")
  /\ UNCHANGED <<tx, cap, committed, staged, scanning, todo>>

----------------------------------------------------------------------------
Scan(n, lo, hi) ==
  /\ tx \in {"read", "write"}
  /\ ~scanning
  /\ UNCHANGED <<tx, cap, committed, staged>>
  /\ IF lo.key \in BigKeys \/ hi.key \in BigKeys
       THEN /\ ret' = Ret("TooLarge")
            /\ UNCHANGED <<scanning, todo>>
       ELSE /\ scanning' = TRUE
            /\ todo' = RowsIn(Visible, n, lo, hi)
            /\ ret' = Ret("ok")

ScanNext ==
  /\ scanning
  /\ IF todo = {}
       THEN /\ ret' = Ret("end")
            /\ UNCHANGED todo
       ELSE /\ ret' = RetRow(First(todo))
            /\ todo' = todo \ {First(todo)}
  /\ UNCHANGED <<tx, cap, committed, staged, scanning>>

EndScan ==
  /\ scanning
  /\ scanning' = FALSE
  /\ todo' = {}
  /\ ret' = Ret("ok")
  /\ UNCHANGED <<tx, cap, committed, staged>>

Call ==
  \/ \E region \in Resources : Open(region)
  \/ Close
  \/ Crash
  \/ BeginRead
  \/ BeginWrite
  \/ Commit
  \/ \E r \in {"ok", "panic"} : Rollback(Ret(r))
  \/ \E n \in PlainTables, k \in Keys, v \in Vals : InsertPlain(n, k, v)
  \/ \E n \in MultiTables, k \in Keys, v \in Vals :
       InsertMulti(n, k, v) \/ RemoveValue(n, k, v)
  \/ RemoveValuePlain
  \/ \E n \in Names, k \in Keys : Remove(n, k) \/ Get(n, k)
  \/ \E n \in Names : NoSuchTable(n)
  \/ \E n \in Names, scan \in ScanRanges : Scan(n, scan[1], scan[2])
  \/ \E n \in Names, k \in Keys : Scan(n, Exactly(k), Exactly(k))
  \/ ScanNext
  \/ EndScan

Next == UNCHANGED durable /\ Call

Spec == Init /\ [][Next]_vars
=============================================================================
