----------------------------- MODULE SortedKeys -----------------------------
(***************************************************************************)
(* What an index over ordered keys promises: a set of typed values that a  *)
(* scan gives in the values' own order, whatever bytes stand for them.     *)
(***************************************************************************)
EXTENDS Sequences, SequencesExt

CONSTANTS
  Types,          \* the key types
  Values,         \* the keys of each type
  Below(_, _, _), \* their order
  MaxKeys         \* bound: keys held at once

VARIABLES
  type,           \* the key type of this index
  keys,           \* the keys held
  ret             \* what the last call was about and what it returned

vars == <<type, keys, ret>>

Says(on, res) == [on |-> on, res |-> res, items |-> <<>>]
Gives(on, items) == [on |-> on, res |-> "ok", items |-> items]

Init ==
  /\ type \in Types
  /\ keys = {}
  /\ ret = Says(<<>>, "none")

Insert(v) ==
  /\ keys' = keys \cup {v}
  /\ Cardinality(keys') <= MaxKeys
  /\ ret' = Says(<<v>>, "ok")
  /\ UNCHANGED type

Delete(v) ==
  /\ keys' = keys \ {v}
  /\ ret' = Says(<<v>>, IF v \in keys THEN "ok" ELSE "absent")
  /\ UNCHANGED type

\* The keys from lo on, in order.
Scan(lo) ==
  /\ UNCHANGED <<type, keys>>
  /\ ret' = Gives(<<lo>>, ret'.items)
  /\ Range(ret'.items) = {v \in keys : ~Below(type, v, lo)}
  /\ \A i, j \in DOMAIN ret'.items : i < j => Below(type, ret'.items[i], ret'.items[j])

\* A key kept as the value of a relational row comes back as it was.
Relate(v) ==
  /\ UNCHANGED <<type, keys>>
  /\ ret' = Gives(<<v>>, <<v>>)

\* Every answer says which key it was about; asking for that first spares a
\* checker the other keys.
Next ==
  \E v \in Values[type] :
    /\ ret'.on = <<v>>
    /\ Insert(v) \/ Delete(v) \/ Scan(v) \/ Relate(v)

Spec == Init /\ [][Next]_vars
=============================================================================
