----------------------------- MODULE ByteOrder -----------------------------
(***************************************************************************)
(* How byte strings are compared, wherever a key's bytes are.              *)
(***************************************************************************)
EXTENDS Integers, Sequences

\* memcmp: at the first place they differ, b ends or has the smaller byte.
memcmp(b, c) ==
  \E i \in 1..Len(c) :
    /\ i <= Len(b) + 1
    /\ \A j \in 1..i - 1 : b[j] = c[j]
    /\ i <= Len(b) => b[i] < c[i]
=============================================================================
