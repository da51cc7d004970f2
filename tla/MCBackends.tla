----------------------------- MODULE MCBackends -----------------------------
(***************************************************************************)
(* A small instance of Backends: table 1 is plain, table 2 a multimap whose*)
(* name extends table 1's, as a model's Note_Relational_author does Note,  *)
(* so that the fences nest; every pair of bounds that is not inverted is   *)
(* scanned.  MCFewRows keeps the rows a write transaction finds and those  *)
(* it sees, counted together, at three: a key with two values beside       *)
(* another row, committed or staged.                                       *)
(***************************************************************************)
EXTENDS Backends

MCPlainTables == {1}
MCMultiTables == {2}
MCKeys == {1, 2}
MCVals == {1, 2}
MCNameFence == (1 :> 4) @@ (2 :> 3)

MCFewRows ==
  tx = "write" => Cardinality(RowsOf(base)) + Cardinality(RowsOf(work)) <= 3

MCBounds(k) == {Unbounded, Included(k), Excluded(k)}
MCScanRanges ==
  MCBounds(1) \X MCBounds(2) \cup {<<Included(2), Included(2)>>, <<Excluded(1), Included(1)>>}
=============================================================================
