----------------------------- MODULE ModelStore -----------------------------
(***************************************************************************)
(* One model's tables and the three calls the generated code orchestrates  *)
(* over them: orchestrate_insert, orchestrate_delete and orchestrate_get,  *)
(* inside the transactions of the store.                                   *)
(*                                                                         *)
(* The model has a primary key, a field with a secondary index, a list     *)
(* relation (NbVec), an optional relation (NbOption), a blob field and     *)
(* subscription topics.  A table is a function of its key, or a set of     *)
(* pairs for the multimap of the list relation, with the operations of     *)
(* TableStore.  The content hash of a model stands for the model itself    *)
(* (hashes do not collide), and a blob is one chunk.                       *)
(*                                                                         *)
(* A pure model strips its relations and its blob from the primary row.    *)
(* A whole-strategy blob holds the entire model, a field-strategy blob the *)
(* blob field.  The layout is fixed when the schema is compiled.           *)
(*                                                                         *)
(* Any table write may fail (capacity, encoding, I/O) and ends the call at *)
(* that write.  Callers pass such an error up, which drops the             *)
(* transaction.                                                            *)
(***************************************************************************)
EXTENDS Naturals, Sequences, FiniteSets

CONSTANTS
  Pks,            \* primary keys
  Secs,           \* values of the indexed field
  Targets,        \* primary keys of related models
  Blobs,          \* values of the blob field
  DefaultBlob,    \* the blob a stripped skeleton carries
  Topics,         \* the model's own subscription topics
  None,           \* stands for "no row" and for an absent optional relation
  Models,         \* the models callers insert
  Policies,       \* the insert policies callers use
  Layouts,        \* the layouts of the schemas considered
  CarefulCallers  \* whether callers keep to the inserts that RoundTrip allows

Model == [pk: Pks, sec: Secs, vec: Seq(Targets), opt: Targets \cup {None}, blob: Blobs]
Policy == [secondary: BOOLEAN, relational: BOOLEAN, subscriptions: BOOLEAN, blob: BOOLEAN]
Layout == [pure: BOOLEAN, whole: BOOLEAN]

ASSUME ModelAssumption ==
  /\ Targets \subseteq Nat
  /\ DefaultBlob \in Blobs
  /\ Models \subseteq Model
  /\ Policies \subseteq Policy
  /\ Layouts \subseteq Layout
  /\ CarefulCallers \in BOOLEAN
  /\ None \notin Pks \cup Secs \cup Targets \cup Blobs \cup Model

VARIABLES
  layout,         \* the schema's layout
  tx,             \* "idle", "read", "write" or "failed"
  committed,      \* the tables a new transaction finds
  staged,         \* the tables the open write transaction sees
  ret             \* what the last call returned: its result and, for a get, the model

vars == <<layout, tx, committed, staged, ret>>

Says(result) == [result |-> result, model |-> None]
Gives(model) == [result |-> "ok", model |-> model]

Tables ==
  [primary: [Pks -> Model \cup {None}],
   secondary: [Secs -> Pks \cup {None}],
   vec: SUBSET (Pks \X Targets),
   opt: [Pks -> Targets \cup {None}],
   subs: [Topics -> [Pks -> Models \cup {None}]],
   blob: [Pks -> Blobs \cup Models \cup {None}]]

NoRows ==
  [primary |-> [pk \in Pks |-> None],
   secondary |-> [s \in Secs |-> None],
   vec |-> {},
   opt |-> [pk \in Pks |-> None],
   subs |-> [topic \in Topics |-> [pk \in Pks |-> None]],
   blob |-> [pk \in Pks |-> None]]

----------------------------------------------------------------------------
(* The owners of the auxiliary tables: what an insert writes to each.      *)

Elements(s) == {s[i] : i \in 1..Len(s)}

Skeleton(m) ==
  IF layout.pure THEN [m EXCEPT !.vec = <<>>, !.opt = None, !.blob = DefaultBlob] ELSE m

primary_insert(t, m) == [t EXCEPT !.primary[m.pk] = Skeleton(m)]

secondary_insert(t, m) == [t EXCEPT !.secondary[m.sec] = m.pk]

\* The list relation adds a pair for each element and removes none.  The
\* optional relation is written only when present.
vec_insert(t, m, elems) == [t EXCEPT !.vec = @ \cup ({m.pk} \X elems)]

relational_insert(t, m) ==
  [vec_insert(t, m, Elements(m.vec)) EXCEPT !.opt[m.pk] = IF m.opt = None THEN @ ELSE m.opt]

subscription_insert(t, m, topics) ==
  [t EXCEPT !.subs =
     [topic \in Topics |-> IF topic \in topics THEN [@[topic] EXCEPT ![m.pk] = m] ELSE @[topic]]]

blob_insert(t, m) == [t EXCEPT !.blob[m.pk] = IF layout.whole THEN m ELSE m.blob]

\* The tables after each of the five steps of orchestrate_insert.
InsertSteps(t, m, P, topics) ==
  LET s1 == primary_insert(t, m)
      s2 == IF P.secondary THEN secondary_insert(s1, m) ELSE s1
      s3 == IF P.relational THEN relational_insert(s2, m) ELSE s2
      s4 == IF P.subscriptions THEN subscription_insert(s3, m, topics) ELSE s3
      s5 == IF P.blob THEN blob_insert(s4, m) ELSE s4
  IN  <<s1, s2, s3, s4, s5>>

\* The tables when the third or the fourth step ends between two of its writes.
PartialInserts(steps, m, P, topics) ==
  {vec_insert(steps[2], m, Elements(SubSeq(m.vec, 1, n))) :
     n \in IF P.relational THEN 1..Len(m.vec) ELSE {}}
  \cup {subscription_insert(steps[3], m, part) :
          part \in IF P.subscriptions THEN SUBSET topics ELSE {}}

----------------------------------------------------------------------------
(* What a delete removes, given the row it found under the key.            *)

primary_delete(t, pk) == [t EXCEPT !.primary[pk] = None]

\* Mutant: the index row stays.
secondary_delete_skipped(t, row) == t
secondary_delete(t, row) == [t EXCEPT !.secondary[row.sec] = None]

\* Mutants: one of the relations stays.
relational_delete_keeps_list(t, row) == [t EXCEPT !.opt[row.pk] = None]
relational_delete_keeps_optional(t, row) == [t EXCEPT !.vec = {p \in @ : p[1] # row.pk}]
relational_delete(t, row) ==
  [t EXCEPT !.vec = {p \in @ : p[1] # row.pk}, !.opt[row.pk] = None]

subscription_delete(t, pk) ==
  [t EXCEPT !.subs = [topic \in Topics |-> [@[topic] EXCEPT ![pk] = None]]]

blob_delete(t, pk) == [t EXCEPT !.blob[pk] = None]

DeleteSteps(t, pk) ==
  LET row == t.primary[pk]
      s1 == primary_delete(t, pk)
      s2 == secondary_delete(s1, row)
      s3 == relational_delete(s2, row)
      s4 == subscription_delete(s3, pk)
      s5 == blob_delete(s4, pk)
  IN  <<s1, s2, s3, s4, s5>>

----------------------------------------------------------------------------
(* What a get returns: the primary row, the blob over it, and for a pure   *)
(* model the relations over that.                                          *)

\* The elements of a finite set of numbers in ascending order.
InOrder(S) ==
  [i \in 1..Cardinality(S) |-> CHOOSE x \in S : Cardinality({y \in S : y < x}) = i - 1]

with_blob(t, pk, m) ==
  IF t.blob[pk] = None THEN m
  ELSE IF layout.whole THEN t.blob[pk]
  ELSE [m EXCEPT !.blob = t.blob[pk]]

with_relations(t, pk, m) ==
  IF layout.pure
    THEN [m EXCEPT !.vec = InOrder({x \in Targets : <<pk, x>> \in t.vec}),
                   !.opt = IF t.opt[pk] = None THEN @ ELSE t.opt[pk]]
    ELSE m

Hydrated(t, pk) ==
  IF t.primary[pk] = None THEN None
  ELSE with_relations(t, pk, with_blob(t, pk, t.primary[pk]))

----------------------------------------------------------------------------
Init ==
  /\ layout \in Layouts
  /\ tx = "idle"
  /\ committed = NoRows
  /\ staged = NoRows
  /\ ret = Says("none")

read_transaction ==
  /\ tx = "idle"
  /\ tx' = "read"
  /\ ret' = Says("ok")
  /\ UNCHANGED <<layout, committed, staged>>

write_transaction ==
  /\ tx = "idle"
  /\ tx' = "write"
  /\ staged' = committed
  /\ ret' = Says("ok")
  /\ UNCHANGED <<layout, committed>>

commit ==
  /\ tx = "write"
  /\ tx' = "idle"
  /\ committed' = staged
  /\ ret' = Says("ok")
  /\ UNCHANGED <<layout, staged>>

\* Mutant: the writes of a dropped transaction stay.
Drop_keeps_staged ==
  /\ tx # "idle"
  /\ tx' = "idle"
  /\ ret' = Says("ok")
  /\ UNCHANGED <<layout, committed, staged>>

Drop ==
  /\ tx # "idle"
  /\ tx' = "idle"
  /\ staged' = committed
  /\ ret' = Says("ok")
  /\ UNCHANGED <<layout, committed>>

\* Careful callers insert what a get can give back: a policy that writes the
\* tables a get reads, and for a pure model a key that is not live and a list
\* in the order its multimap yields it.
Ascending(s) == \A i, j \in 1..Len(s) : i < j => s[i] < s[j]
RoundTrip(m, P) ==
  IF layout.pure
    THEN P.blob /\ P.relational /\ Ascending(m.vec) /\ staged.primary[m.pk] = None
    ELSE P.blob \/ staged.blob[m.pk] = None

\* The call fails after some of its writes, or in the custom hook at its end.
Interrupted(partials) ==
  /\ tx' = "failed"
  /\ staged' \in partials
  /\ ret' = Says("Err")
  /\ UNCHANGED <<layout, committed>>

orchestrate_insert(m, P, topics) ==
  /\ tx = "write"
  /\ CarefulCallers => RoundTrip(m, P)
  /\ LET steps == InsertSteps(staged, m, P, topics)
     IN  \/ /\ staged' = steps[5]
            /\ ret' = Says("ok")
            /\ UNCHANGED <<layout, tx, committed>>
         \/ Interrupted({staged} \cup Elements(steps) \cup PartialInserts(steps, m, P, topics))

orchestrate_delete(pk) ==
  /\ tx = "write"
  /\ \/ /\ staged.primary[pk] = None
        /\ ret' = Says("UnknownAddress")
        /\ UNCHANGED <<layout, tx, committed, staged>>
     \/ /\ staged.primary[pk] # None
        /\ LET steps == DeleteSteps(staged, pk)
           IN  \/ /\ staged' = steps[5]
                  /\ ret' = Says("ok")
                  /\ UNCHANGED <<layout, tx, committed>>
               \/ Interrupted({staged} \cup Elements(steps))

orchestrate_get(pk) ==
  /\ tx \in {"read", "write"}
  /\ ret' = Gives(Hydrated(IF tx = "write" THEN staged ELSE committed, pk))
  /\ UNCHANGED <<layout, tx, committed, staged>>

Next ==
  \/ read_transaction
  \/ write_transaction
  \/ commit
  \/ Drop
  \/ \E m \in Models, P \in Policies, topics \in SUBSET Topics : orchestrate_insert(m, P, topics)
  \/ \E pk \in Pks : orchestrate_delete(pk) \/ orchestrate_get(pk)

Spec == Init /\ [][Next]_vars

----------------------------------------------------------------------------
(* Properties.                                                             *)

\* Every variable keeps its type, and tables outside a write transaction are
\* the committed ones.
TypeOK ==
  /\ layout \in Layouts
  /\ tx \in {"idle", "read", "write", "failed"}
  /\ committed \in Tables
  /\ staged \in Tables
  /\ tx \in {"idle", "read"} => staged = committed

\* No auxiliary row keyed by a primary key outlives the primary row: a key
\* that is deleted and used again never meets the relations, hashes or blob of
\* its former life.
NoOrphansIn(t) ==
  \A pk \in Pks : t.primary[pk] = None =>
    /\ \A x \in Targets : <<pk, x>> \notin t.vec
    /\ t.opt[pk] = None
    /\ \A topic \in Topics : t.subs[topic][pk] = None
    /\ t.blob[pk] = None

NoOrphans == NoOrphansIn(committed) /\ (tx = "write" => NoOrphansIn(staged))

\* The index of a field that is unique and immutable is exact: a row leads to
\* the live model with that value.  UniqueSec says which models have such a
\* value: no other key has it, and their key has no other.
UniqueSec(m) == \A n \in Models : (n.pk = m.pk) <=> (n.sec = m.sec)

ExactIn(t) ==
  \A m \in Models : UniqueSec(m) /\ t.secondary[m.sec] # None =>
    /\ t.secondary[m.sec] = m.pk
    /\ t.primary[m.pk] # None
    /\ t.primary[m.pk].sec = m.sec

UniqueIndexExact == ExactIn(committed) /\ (tx = "write" => ExactIn(staged))

\* Under callers that keep to RoundTrip, the six tables behave as one map of
\* models, in every layout and under every policy.
Map == INSTANCE ModelMap WITH
  published <- [pk \in Pks |-> Hydrated(committed, pk)],
  pending <- [pk \in Pks |-> Hydrated(IF tx = "write" THEN staged ELSE committed, pk)]

ImplementsModelMap == Map!Spec

\* What ARCHITECTURE.md says of the secondary tables ("index tables for
\* property lookups (multimap-friendly): query -> primary keys"): a lookup by
\* a live model's property leads to that model.  For callers who insert with
\* the index on.
LookupFindsModel ==
  \A pk \in Pks :
    committed.primary[pk] # None => committed.secondary[committed.primary[pk].sec] = pk

\* What the tests of the pure layout say ("get rehydrates to the full inserted
\* model"): a get right after an insert returns the inserted model.
GetReturnsInserted ==
  [][\A m \in Models, P \in Policies, topics \in SUBSET Topics :
       orchestrate_insert(m, P, topics) /\ ret' = Says("ok") => Hydrated(staged', m.pk) = m]_vars
=============================================================================
