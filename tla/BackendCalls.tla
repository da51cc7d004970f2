---------------------------- MODULE BackendCalls ----------------------------
(***************************************************************************)
(* What the memory, fjall and redb backends share: the state of an open    *)
(* store and its transaction, the calls of the transaction traits, and how *)
(* their answers are told.  Each backend keeps its bytes its own way, so   *)
(* "base", "work" and "iter" hold different data in each of the three      *)
(* modules that extend this one.  A name, an encoded key and a value are   *)
(* ranks in byte order, from 1.                                            *)
(*                                                                         *)
(* A table handle lives for one call, or for as long as the iterator it    *)
(* gave. TableReadOps::Iter borrows its table and its transaction, so that *)
(* nothing is written through it or committed while the iterator is alive; *)
(* writes through another handle of the transaction meanwhile are left out *)
(* (no caller in the repository makes one; ArenaStore has them).           *)
(***************************************************************************)
EXTENDS Integers, FiniteSets, SequencesExt

CONSTANTS
  PlainTables,    \* names of the tables opened as plain tables
  MultiTables,    \* names of the tables opened as multimap tables
  Keys,           \* ordered-encoded keys
  Vals,           \* canonical value bytes
  ScanRanges      \* the pairs of bounds callers scan with, none inverted

ASSUME TablesAssumption ==
  /\ PlainTables \cup MultiTables \subseteq Nat \ {0}
  /\ PlainTables \cap MultiTables = {}
  /\ Keys \cup Vals \subseteq Nat \ {0}

VARIABLES
  tx,             \* "closed", "idle", "read" or "write"
  base,           \* what a new transaction finds
  work,           \* what the open transaction sees: a snapshot or staged data
  iter,           \* the iterator of the open transaction
  ret             \* what the last call returned

Names == PlainTables \cup MultiTables
NoRow == [name |-> 0, key |-> 0, val |-> 0]
Row(n, k, v) == [name |-> n, key |-> k, val |-> v]

Ret(r) == [res |-> r, row |-> NoRow]
RetRow(r) == [res |-> "row", row |-> r]
Removed(existed) == Ret(IF existed THEN "removed" ELSE "absent")

Unbounded == [kind |-> "Unbounded", key |-> 0]
Included(k) == [kind |-> "Included", key |-> k]
Excluded(k) == [kind |-> "Excluded", key |-> k]
Bounds == {Unbounded} \cup {Included(k) : k \in Keys} \cup {Excluded(k) : k \in Keys}

\* A range whose start lies past its end, or that leaves out both of the one
\* key it names.
Inverted(lo, hi) ==
  /\ lo.kind # "Unbounded" /\ hi.kind # "Unbounded"
  /\ \/ hi.key < lo.key
     \/ hi.key = lo.key /\ lo.kind = "Excluded" /\ hi.kind = "Excluded"

ASSUME ScanRangesAssumption ==
  /\ ScanRanges \subseteq Bounds \X Bounds
  /\ \A scan \in ScanRanges : ~Inverted(scan[1], scan[2])

\* x comes before y: sequences of ranks as concatenated byte strings, none of
\* whose parts is a prefix of another.
Before(x, y) ==
  \/ IsStrictPrefix(x, y)
  \/ \E i \in 1..Len(x) \cap 1..Len(y) :
       x[i] < y[i] /\ \A j \in 1..(i - 1) : x[j] = y[j]

\* The elements of S in the strict order R: before the n-th come n - 1 others.
InOrder(S, R) ==
  [n \in 1..Cardinality(S) |-> CHOOSE x \in S : Cardinality({y \in S : <<y, x>> \in R}) = n - 1]

Sorted(S) == InOrder(S, {p \in S \X S : Before(p[1], p[2])})
Ascending(S) == InOrder(S, {p \in S \X S : p[1] < p[2]})

\* The positions between two bounds, each [kind, at], in ascending order.
Within(keys, lo, hi) ==
  LET above(x) == \/ lo.kind = "Unbounded"
                  \/ Before(lo.at, x)
                  \/ lo.kind = "Included" /\ x = lo.at
      below(x) == \/ hi.kind = "Unbounded"
                  \/ Before(x, hi.at)
                  \/ hi.kind = "Included" /\ x = hi.at
  IN  Sorted({x \in keys : above(x) /\ below(x)})

\* map with the value of one key put in.
Put(map, key, value) ==
  [x \in DOMAIN map \cup {key} |-> IF x = key THEN value ELSE map[x]]

\* A call that only answers.
Answers(r) == ret' = r /\ UNCHANGED <<tx, base, work, iter>>

Reading == tx \in {"read", "write"}
Writing == tx = "write" /\ ~iter.open
Scanning == Reading /\ iter.open
=============================================================================
