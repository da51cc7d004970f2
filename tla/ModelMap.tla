------------------------------ MODULE ModelMap ------------------------------
(***************************************************************************)
(* What a model's table set promises: under a transaction, a map from      *)
(* primary keys to models.  An insert replaces the key's model, a delete   *)
(* of an absent key is refused, a get returns the model the last insert    *)
(* gave, a call that fails midway is followed by a rollback, and commit    *)
(* publishes everything the transaction did in one step.                   *)
(***************************************************************************)
CONSTANTS
  Pks,            \* primary keys
  Models,         \* the models callers insert, each a record with a field pk
  None            \* stands for "no model"

VARIABLES
  tx,             \* "idle", "read", "write" or "failed"
  published,      \* the map a new transaction finds
  pending,        \* the map the open write transaction sees
  ret             \* what the last call returned: its result and, for a get, the model

vars == <<tx, published, pending, ret>>

Says(result) == [result |-> result, model |-> None]
Gives(model) == [result |-> "ok", model |-> model]

Visible == IF tx = "write" THEN pending ELSE published

Init ==
  /\ tx = "idle"
  /\ published = [pk \in Pks |-> None]
  /\ pending = published
  /\ ret = Says("none")

Begin(kind) ==
  /\ tx = "idle"
  /\ tx' = kind
  /\ ret' = Says("ok")
  /\ UNCHANGED <<published, pending>>

Commit ==
  /\ tx = "write"
  /\ tx' = "idle"
  /\ published' = pending
  /\ ret' = Says("ok")
  /\ UNCHANGED pending

Drop ==
  /\ tx # "idle"
  /\ tx' = "idle"
  /\ pending' = published
  /\ ret' = Says("ok")
  /\ UNCHANGED published

Insert(m) ==
  /\ tx = "write"
  /\ pending' = [pending EXCEPT ![m.pk] = m]
  /\ ret' = Says("ok")
  /\ UNCHANGED <<tx, published>>

Delete(pk) ==
  /\ tx = "write"
  /\ UNCHANGED <<tx, published>>
  /\ \/ /\ pending[pk] = None
        /\ ret' = Says("UnknownAddress")
        /\ UNCHANGED pending
     \/ /\ pending[pk] # None
        /\ ret' = Says("ok")
        /\ pending' = [pending EXCEPT ![pk] = None]

\* A write call that fails leaves a transaction that can only be dropped.
Fail ==
  /\ tx = "write"
  /\ tx' = "failed"
  /\ pending' = published
  /\ ret' = Says("Err")
  /\ UNCHANGED published

Get(pk) ==
  /\ tx \in {"read", "write"}
  /\ ret' = Gives(Visible[pk])
  /\ UNCHANGED <<tx, published, pending>>

Next ==
  \/ \E kind \in {"read", "write"} : Begin(kind)
  \/ Commit
  \/ Drop
  \/ \E m \in Models : Insert(m)
  \/ Fail
  \/ \E pk \in Pks : Delete(pk) \/ Get(pk)

Spec == Init /\ [][Next]_vars
=============================================================================
