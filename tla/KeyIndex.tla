------------------------------ MODULE KeyIndex ------------------------------
(***************************************************************************)
(* EncodedIndex with the encodings of OrderedKeys: an index over keys of   *)
(* the types the code has encodings for.                                   *)
(***************************************************************************)
EXTENDS EncodedIndex, OrderedKeys

CONSTANTS
  Impl(_),        \* the implementation for each type
  MaxRaw          \* bound: length of bytes that come from elsewhere

\* What EncodedIndex asks of a type, from its implementation.
Keys == [ty \in Types |-> Impl(ty).values]
Below == [ty \in Types |-> Impl(ty).below]
IsBelow(ty, v, w) == <<v, w>> \in Below[ty]
EncodeKey(ty, v) == encode_key_buf(Impl(ty), v)
DecodeKey(ty, bytes) == decode_exact(Impl(ty), bytes)
MAX_ENCODED_LEN(ty) == Impl(ty).max

\* EncodedIndex is about these.
ASSUME KeyIndexAssumption ==
  /\ Octets = Byte /\ MaxRaw \in Nat
  /\ \A ty \in Types :
       /\ Values[ty] = Impl(ty).values /\ MaxLen(ty) = MAX_ENCODED_LEN(ty)
       /\ \A v \in Values[ty] :
            /\ Encode(ty, v) = EncodeKey(ty, v)
            /\ Encode(ty, v).res = "ok" =>
                 Decode(ty, Encode(ty, v).value) = DecodeKey(ty, Encode(ty, v).value)
            /\ \A w \in Values[ty] : Before(ty, v, w) <=> IsBelow(ty, v, w)

Raw == BoundedSeq(Byte, MaxRaw)
----------------------------------------------------------------------------
(* Properties. *)

\* The encodings of every type tried keep the laws of OrderedKeyEncoding: the
\* hypothesis under which EncodedIndexProofs is about them.  No law reads the
\* state, so each type is asked once, before the first call.
EncodingsAreLawful == ret.res = "none" => Lawful(type)

\* Bytes from elsewhere that decode are the encoding of what they decode to:
\* no two byte strings stand for one key, and a length is never overstated.
\* Decoding reads no state either.
OnlyCanonicalBytesDecode ==
  ret.res = "none" =>
    \A raw \in Raw :
      LET d == Impl(type).decode[raw]
      IN  d.res = "ok" => /\ d.value \in Values[type]
                          /\ Impl(type).encode[d.value] = SubSeq(raw, 1, d.used)

\* No key of the index is the beginning of another, so keys can be put one
\* after the other and still be told apart (the header of ordered.rs).
PrefixFree ==
  \A i, j \in DOMAIN index : i # j => ~IsPrefix(index[i], index[j])
=============================================================================
