---------------------------- MODULE EncodedIndex ----------------------------
(***************************************************************************)
(* An index over encoded keys, as every backend keeps one: the encodings   *)
(* in byte order, compared with memcmp and never decoded inside the        *)
(* comparison.  Callers insert, remove and scan typed keys and store a key *)
(* as the value of a relational row.                                       *)
(*                                                                         *)
(* The encodings are parameters here, OrderedKeyEncoding's methods, and    *)
(* their laws a formula: KeyIndex gives them those of OrderedKeys.         *)
(***************************************************************************)
EXTENDS ByteOrder, FiniteSets, SequencesExt

CONSTANTS
  Types,          \* the key types tried, one in each behaviour
  Values,         \* the keys of each type
  Before(_, _, _), \* their order
  Encode(_, _),   \* the encoding of a key of a type: [res, value]
  Decode(_, _),   \* what bytes decode to, all of them
  MaxLen(_),      \* how long an encoding may be
  Octets,         \* bytes
  MaxKeys         \* bound: keys held at once

ASSUME IndexAssumption == Octets \subseteq Nat /\ MaxKeys \in Nat

\* Encodings and what they decode to, each computed once.
Encoded == [ty \in Types |-> [v \in Values[ty] |-> Encode(ty, v)]]
Decoded ==
  [ty \in Types |-> [b \in {Encoded[ty][v].value : v \in Values[ty]} |-> Decode(ty, b)]]

VARIABLES
  type,           \* the key type of this index
  index,          \* encodings, in the order of their bytes
  ret             \* what the last call was about and what it returned

vars == <<type, index, ret>>

Says(on, res) == [on |-> on, res |-> res, items |-> <<>>]
Gives(on, items) == [on |-> on, res |-> "ok", items |-> items]

Init ==
  /\ type \in Types
  /\ index = <<>>
  /\ ret = Says(<<>>, "none")

key_buf(v) == Encoded[type][v]

\* Mutant: keys are kept in the order they come.
place_last(key) == Len(index) + 1
\* Where the key goes: before the first that is not below it.
place(key) == Cardinality({i \in DOMAIN index : memcmp(index[i], key)}) + 1

Insert(v) ==
  LET key == key_buf(v)
  IN  /\ IF key.res # "ok"
         THEN /\ ret' = Says(<<v>>, key.res)
              /\ UNCHANGED index
         ELSE /\ ret' = Says(<<v>>, "ok")
              /\ index' = IF key.value \in Range(index) THEN index
                          ELSE InsertAt(index, place(key.value), key.value)
      /\ Len(index') <= MaxKeys
      /\ UNCHANGED type

Delete(v) ==
  LET key == key_buf(v)
  IN  /\ IF key.value \in Range(index)
         THEN /\ index' = RemoveAt(index, place(key.value))
              /\ ret' = Says(<<v>>, "ok")
         ELSE /\ ret' = Says(<<v>>, "absent")
              /\ UNCHANGED index
      /\ UNCHANGED type

\* The stored keys from the place of lo on, decoded.
Scan(lo) ==
  LET found == SubSeq(index, place(key_buf(lo).value), Len(index))
      rows == [i \in DOMAIN found |-> Decoded[type][found[i]]]
  IN  /\ ret' = IF \E i \in DOMAIN rows : rows[i].res # "ok"
                THEN Says(<<lo>>, "decode_failed")
                ELSE Gives(<<lo>>, [i \in DOMAIN rows |-> rows[i].value])
      /\ UNCHANGED <<type, index>>

\* encode_rel_value stores the key as a fixed-capacity value of a relational
\* row, decode_rel_value reads it back.
Relate(v) ==
  LET stored == key_buf(v)
      key == Decoded[type][stored.value]
  IN  /\ ret' = CASE stored.res # "ok" -> Says(<<v>>, stored.res)
                  [] stored.res = "ok" /\ key.res # "ok" -> Says(<<v>>, key.res)
                  [] stored.res = "ok" /\ key.res = "ok" -> Gives(<<v>>, <<key.value>>)
      /\ UNCHANGED <<type, index>>

Next == \E v \in Values[type] : Insert(v) \/ Delete(v) \/ Scan(v) \/ Relate(v)

Spec == Init /\ [][Next]_vars
----------------------------------------------------------------------------
(* Properties. *)

\* Type invariant: the index holds byte strings that fit a key buffer of the
\* type, in strictly ascending byte order.
TypeOK ==
  /\ type \in Types
  /\ \A i \in DOMAIN index : index[i] \in Seq(Octets) /\ Len(index[i]) <= MaxLen(type)
  /\ \A i, j \in DOMAIN index : i < j => memcmp(index[i], index[j])

\* A key buffer of MaxLen bytes has room for every value of the type, nested
\* or not: no insertion, lookup or relational row is refused for room.
KeysFit == ret.res # "BufferTooSmall"

\* The laws an OrderedKeyEncoding promises for a type: a key fits its buffer,
\* comes back from it, and compares with another as the bytes do.
Lawful(ty) ==
  \A v \in Values[ty] :
    /\ Encode(ty, v).res = "ok"
    /\ Encode(ty, v).value \in Seq(Octets) /\ Len(Encode(ty, v).value) <= MaxLen(ty)
    /\ Decode(ty, Encode(ty, v).value).res = "ok"
    /\ Decode(ty, Encode(ty, v).value).value = v
    /\ \A w \in Values[ty] :
         Before(ty, v, w) <=> memcmp(Encode(ty, v).value, Encode(ty, w).value)
LawfulTypes == \A ty \in Types : Lawful(ty)

\* The index is the set of typed keys it stands for, and a scan gives them in
\* their own order: the order law and the round-trip law, at every call.
Abstract == INSTANCE SortedKeys WITH
  Below <- Before,
  keys <- {Decoded[type][index[i]].value : i \in DOMAIN index}
ImplementsSortedKeys == Abstract!Spec
=============================================================================
