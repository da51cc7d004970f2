---------------------------- MODULE MCArenaStore ----------------------------
(***************************************************************************)
(* A small instance of ArenaStore.  Table 1 is plain, table 2 a multimap.   *)
(* A header of 2 bytes and records of 3 keep the region lengths small:     *)
(* MCBufLens are one too short and one with room for two records in each   *)
(* half.  Key 3 and value 3 exceed the limits of a record.                 *)
(***************************************************************************)
EXTENDS ArenaStore

MCPlainTables == {1}
MCMultiTables == {2}
MCKeys == {1, 2, 3}
MCVals == {1, 2, 3}
MCBigKeys == {3}
MCBigVals == {3}
MCBufLens == {3, 16}

Included(k) == [kind |-> "Included", key |-> k]
Excluded(k) == [kind |-> "Excluded", key |-> k]
MCScanRanges ==
  {<<Unbounded, Unbounded>>, <<Excluded(1), Unbounded>>,
   <<Included(1), Excluded(2)>>, <<Unbounded, Included(3)>>}

----------------------------------------------------------------------------
(* The searches of region.rs as they are written, against the operators    *)
(* that say where they end.                                                *)

\* The loop "while lo < hi" of the two binary searches, on indices from 1.
RECURSIVE BinarySearch(_, _, _)
BinarySearch(lo, hi, before) ==
  IF lo >= hi THEN lo
  ELSE LET mid == lo + (hi - lo) \div 2
       IN  IF before[mid] THEN BinarySearch(mid + 1, hi, before)
                          ELSE BinarySearch(lo, mid, before)

SmallSlabs ==
  {s \in UNION {[1..m -> [name: {1, 2}, key: {1, 2}, val: {1, 2}]] : m \in 0..3} : Sorted(s)}

\* On every sorted slab of up to three records, the binary searches end where
\* lower_bound and lower_bound_full say.
ASSUME SearchesAgree ==
  \A s \in SmallSlabs, n \in {1, 2, 3}, k \in 0..3, v \in 0..3 :
    /\ BinarySearch(1, Len(s) + 1, [i \in 1..Len(s) |-> BeforeKey(s[i], n, k)])
         = lower_bound(s, n, k)
    /\ BinarySearch(1, Len(s) + 1, [i \in 1..Len(s) |-> BeforeFull(s[i], n, k, v)])
         = lower_bound_full(s, n, k, v)
=============================================================================
