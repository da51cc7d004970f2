-------------------------- MODULE MCSchemaRouting --------------------------
(***************************************************************************)
(* A small instance of SchemaRouting: a definition with two models and one *)
(* with one, a topic name that every level declares, and a topic list that  *)
(* names topics of every scope, whichever model is inserted.               *)
(***************************************************************************)
EXTENDS SchemaRouting, TLC

CONSTANTS x, y      \* the contents

MCDefinitions == {"D", "E"}
MCModelsOf == ("D" :> {"A", "B"}) @@ ("E" :> {"C"})
MCContents == {x, y}
MCSymmetry == Permutations(MCContents)
MCRepoTopics == <<"all">>
MCDefTopics == ("D" :> <<"all">>) @@ ("E" :> <<>>)
MCModelTopics == ("A" :> <<"all", "new">>) @@ ("B" :> <<"all">>) @@ ("C" :> <<>>)
MCTopicLists ==
  {<<>>, <<<<"all">>, <<"D", "all">>, <<"D", "A", "new">>, <<"D", "B", "all">>>>}

\* At most two records at a time, and three rows in all, or two once a call has
\* failed, a committed one counted twice.  A call may pass the bound, and is
\* checked, but nothing follows it.
MCFewCells ==
  LET cells == DOMAIN base \cup DOMAIN work
  IN  /\ Cardinality({c \in cells : c[2] = Primary}) <= 2
      /\ Cardinality(cells) + Cardinality(DOMAIN base) <= IF failed THEN 2 ELSE 3
=============================================================================
