----------------------------- MODULE TopicBook -----------------------------
(***************************************************************************)
(* What the three-level schema promises its callers, in terms of paths.    *)
(* A scope is a path: <<>> the repository, <<d>> a definition, <<d, m>> a  *)
(* model; a record is the path <<d, m, id>>.  A cell of the book is        *)
(* <<scope, topic, key>> with the record's path below the scope as key;    *)
(* the records themselves are the cells of the topic Primary in their      *)
(* model's scope.  A topic asked for is named by the path of its scope and *)
(* its own name.                                                           *)
(***************************************************************************)
EXTENDS SequencesExt

CONSTANTS
  Records,        \* the paths of the records
  Contents,       \* what a record may hold; stands for its content hash too
  Primary,        \* the topic of the records themselves
  Own,            \* the paths of the topics the schema declares
  Asks            \* the sets of topic paths callers ask for

VARIABLES
  tx,             \* "idle" or "write"
  base,           \* the committed book, a partial function on cells
  work,           \* the book the open transaction sees
  ret             \* what the last call returned

vars == <<tx, base, work, ret>>

Init ==
  /\ tx = "idle"
  /\ base = <<>>
  /\ work = <<>>
  /\ ret = "none"

Begin ==
  /\ tx = "idle"
  /\ tx' = "write"
  /\ work' = base
  /\ ret' = "ok"
  /\ UNCHANGED base

Commit ==
  /\ tx = "write"
  /\ tx' = "idle"
  /\ base' = work
  /\ work' = <<>>
  /\ ret' = "ok"

Rollback ==
  /\ tx = "write"
  /\ tx' = "idle"
  /\ work' = <<>>
  /\ ret' = "ok"
  /\ UNCHANGED base

\* The cell of a record in the book of one of the scopes it lies in.
Cell(path, scope, topic) == <<scope, topic, SubSeq(path, Len(scope) + 1, Len(path))>>

\* The cells an insert fills: the record, and for every declared topic asked
\* for, the record's cell there, if the scope lies on the record's path and not
\* above the level the record was handed over at.
Filled(depth, path, ask) ==
  {Cell(path, Front(path), Primary)} \cup
  {Cell(path, Front(q), Last(q)) :
     q \in {p \in ask \cap Own : Len(Front(p)) >= depth /\ IsStrictPrefix(Front(p), path)}}

\* The cells a delete empties: the record and its model's topics, no others.
Emptied(path) == {c \in DOMAIN work : c[1] = Front(path) /\ c[3] = <<Last(path)>>}

\* A call that succeeds does all of its work; one that fails may have done any
\* part of it, and nothing else.
Done(all, r) == IF r = "ok" THEN {all} ELSE SUBSET all

Insert(depth, path, ask, content) ==
  LET filled == Filled(depth, path, ask)
  IN  /\ tx = "write"
      /\ \E r \in {"ok", "failed"} :
           /\ ret' = r
           /\ \E part \in Done(filled, r) :
                work' = [c \in DOMAIN work \cup part |-> IF c \in part THEN content ELSE work[c]]
      /\ UNCHANGED <<tx, base>>

Delete(path) ==
  /\ tx = "write"
  /\ \/ /\ Cell(path, Front(path), Primary) \in DOMAIN work
        /\ \E r \in {"ok", "failed"} :
             /\ ret' = r
             /\ \E part \in Done(Emptied(path), r) :
                  work' = Restrict(work, DOMAIN work \ part)
     \/ /\ Cell(path, Front(path), Primary) \notin DOMAIN work
        /\ ret' = "UnknownAddress"
        /\ UNCHANGED work
  /\ UNCHANGED <<tx, base>>

\* A delete whose address and key disagree.
Misrouted ==
  /\ tx = "write"
  /\ ret' = "WrongVariant"
  /\ UNCHANGED <<tx, base, work>>

Get(path) ==
  /\ LET cell == Cell(path, Front(path), Primary)
         book == IF tx = "write" THEN work ELSE base
     IN  ret' = IF cell \in DOMAIN book THEN book[cell] ELSE "absent"
  /\ UNCHANGED <<tx, base, work>>

Next ==
  \/ Begin
  \/ Commit
  \/ Rollback
  \/ \E depth \in 0..2, path \in Records, ask \in Asks, content \in Contents :
       Insert(depth, path, ask, content)
  \/ \E path \in Records : Delete(path) \/ Get(path)
  \/ Misrouted

Spec == Init /\ [][Next]_vars
=============================================================================
