---------------------------- MODULE MCFixedValues ----------------------------
(* Instances of FixedValues for model checking. *)
EXTENDS FixedValues

\* NUL, a letter, and a character of two bytes.
MCUtf8(c) == CASE c = 0 -> <<0>>
               [] c = 1 -> <<1>>
               [] c = 2 -> <<2, 3>>

MCCaps == [vec |-> 3, map |-> 2, string |-> 3, option |-> 1]
=============================================================================
