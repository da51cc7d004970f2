---------------------------- MODULE MCModelStore ----------------------------
(***************************************************************************)
(* Small instances of ModelStore: two keys, two related keys, one topic.   *)
(* Key 1 has two versions, which differ in every field a re-insert can     *)
(* change but the indexed one; key 2 has a list in common with them.       *)
(***************************************************************************)
EXTENDS ModelStore

CONSTANTS none, t1, b0, b1, b2

MCPks == {1, 2}
MCSecs == {1, 2}
MCTargets == {1, 2}
MCBlobs == {b0, b1, b2}
MCTopics == {t1}

M(pk, sec, vec, opt, blob) == [pk |-> pk, sec |-> sec, vec |-> vec, opt |-> opt, blob |-> blob]

MCModels ==
  {M(1, 1, <<1, 2>>, 1, b1), M(1, 1, <<2>>, none, b2), M(2, 2, <<2>>, none, b1)}

All == [secondary |-> TRUE, relational |-> TRUE, subscriptions |-> TRUE, blob |-> TRUE]
MCPolicies == {All, [All EXCEPT !.secondary = FALSE, !.relational = FALSE, !.blob = FALSE]}
MCLayouts == Layout

\* Two models that share an indexed value, inserted with every index on.
MCSharedModels == {M(1, 1, <<>>, none, b1), M(2, 1, <<>>, none, b1)}
MCAllOnly == {All}
MCSharded == {[pure |-> FALSE, whole |-> FALSE]}

\* Two versions of a model whose lists ascend, in a pure layout.
MCVersions == {M(1, 1, <<1, 2>>, 1, b1), M(1, 1, <<2>>, none, b1)}
MCPure == {[pure |-> TRUE, whole |-> FALSE]}
=============================================================================
