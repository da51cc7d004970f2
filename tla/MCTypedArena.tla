---------------------------- MODULE MCTypedArena ----------------------------
(* Instances of TypedArena for model checking. *)
EXTENDS TypedArena, TLC

MCBuffers == {[len |-> 3, aligned |-> TRUE], [len |-> 3, aligned |-> FALSE],
              [len |-> 1, aligned |-> TRUE]}

\* The two values are interchangeable.
MCSymmetry == Permutations(Vals)
=============================================================================
