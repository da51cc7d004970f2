---------------------------- MODULE ScopeStack ----------------------------
(***************************************************************************)
(* What the typed slot arenas promise: a stack of lists.  The bottom list  *)
(* is the arena, each list above it a scope opened on the one below, and   *)
(* only the top one can be used.  A list grows at its end while it has     *)
(* room, lends room to a scope and gets it back when the scope is dropped. *)
(* A token names a list, an epoch of it (the resets before it was minted)  *)
(* and a position, and is honoured by that list in that epoch only.        *)
(***************************************************************************)
EXTENDS Integers, Sequences, FiniteSets

CONSTANTS
  Vals,           \* archived values
  Torn,           \* what a failed serialization may leave
  Rooms,          \* the capacities of arenas
  Sizes,          \* the slot counts callers ask scopes and splits for
  MaxBrands,      \* bound: arenas and scopes made
  MaxResets       \* bound: resets of one list

VARIABLES
  lists,          \* the stack of [id, epoch, items, room, capacity]
  born,           \* how many arenas and scopes have been made
  tokens,         \* the tokens callers hold
  ret             \* what the last call returned

vars == <<lists, born, tokens, ret>>

Says(res) == [res |-> res, items |-> <<>>]
Gives(items) == [res |-> "ok", items |-> items]

Top == lists[Len(lists)]
ChangeTop(list) == lists' = [lists EXCEPT ![Len(lists)] = list]
NewList(room) ==
  [id |-> born + 1, epoch |-> 0, items |-> <<>>, room |-> room, capacity |-> room]

Init ==
  /\ lists = <<>>
  /\ born = 0
  /\ tokens = {}
  /\ ret = Says("none")

Open(room) ==
  /\ lists = <<>>
  /\ \/ /\ born < MaxBrands
        /\ lists' = <<NewList(room)>>
        /\ born' = born + 1
        /\ ret' = Says("ok")
     \/ /\ ret' \in {Says("Overflow"), Says("Misaligned"), Says("TooSmall")}
        /\ UNCHANGED <<lists, born>>
  /\ UNCHANGED tokens

\* The caller keeps a minted token or lets it go.
Keep(index) ==
  LET token == [id |-> Top.id, epoch |-> Top.epoch, index |-> index]
  IN  tokens' \in {tokens, tokens \cup {token}}

Alloc(v) ==
  /\ lists # <<>>
  /\ \/ /\ Top.room = 0
        /\ ret' = Says("Full")
        /\ UNCHANGED <<lists, tokens>>
     \/ /\ Top.room > 0
        /\ ret' = Says("SerializationFailed")
        /\ UNCHANGED <<lists, tokens>>
     \/ /\ Top.room > 0
        /\ ChangeTop([Top EXCEPT !.items = Append(@, v), !.room = @ - 1])
        /\ Keep(Len(Top.items))
        /\ ret' = Says("ok")
  /\ UNCHANGED born

CheckedIdx(n) ==
  /\ lists # <<>>
  /\ IF n < Len(Top.items)
       THEN Keep(n) /\ ret' = Says("ok")
       ELSE ret' = Says("OutOfRange") /\ UNCHANGED tokens
  /\ UNCHANGED <<lists, born>>

Verdict(t) ==
  CASE t.id # Top.id -> "ForeignArena"
    [] t.id = Top.id /\ t.epoch # Top.epoch -> "StaleToken"
    [] t.id = Top.id /\ t.epoch = Top.epoch /\ t.index >= Len(Top.items) -> "OutOfRange"
    [] OTHER -> "ok"

Get(t) ==
  /\ lists # <<>>
  /\ ret' = IF Verdict(t) = "ok" THEN Gives(<<Top.items[t.index + 1]>>) ELSE Says(Verdict(t))
  /\ UNCHANGED <<lists, born, tokens>>

Write(index, v) ==
  \/ /\ ret' = Says("ok")
     /\ ChangeTop([Top EXCEPT !.items[index + 1] = v])
  \/ /\ ret' = Says("SerializationFailed")
     /\ \E c \in {Torn, Top.items[index + 1]} : ChangeTop([Top EXCEPT !.items[index + 1] = c])

Overwrite(t, v) ==
  /\ lists # <<>>
  /\ \/ /\ Verdict(t) # "ok"
        /\ ret' = Says(Verdict(t))
        /\ UNCHANGED lists
     \/ Verdict(t) = "ok" /\ Write(t.index, v)
  /\ UNCHANGED <<born, tokens>>

\* The bottom list is also read and written by position.
GetConst(n) ==
  /\ Len(lists) = 1
  /\ ret' = IF n < Len(Top.items) THEN Gives(<<Top.items[n + 1]>>) ELSE Says("OutOfRange")
  /\ UNCHANGED <<lists, born, tokens>>

OverwriteConst(n, v) ==
  /\ Len(lists) = 1
  /\ \/ /\ n >= Len(Top.items)
        /\ ret' = Says("OutOfRange")
        /\ UNCHANGED lists
     \/ n < Len(Top.items) /\ Write(n, v)
  /\ UNCHANGED <<born, tokens>>

Reset ==
  /\ lists # <<>>
  /\ Top.epoch < MaxResets
  /\ ChangeTop([Top EXCEPT !.epoch = @ + 1, !.items = <<>>, !.room = Top.capacity])
  /\ ret' = Says("ok")
  /\ UNCHANGED <<born, tokens>>

\* Room a caller carves off comes back with the next reset.
Carve(n) ==
  /\ lists # <<>>
  /\ \/ /\ n > Top.room
        /\ ret' = Says("Full")
        /\ UNCHANGED lists
     \/ /\ n <= Top.room
        /\ ChangeTop([Top EXCEPT !.room = @ - n])
        /\ ret' = Says("ok")
  /\ UNCHANGED <<born, tokens>>

Push(n) ==
  /\ born < MaxBrands
  /\ lists' = Append([lists EXCEPT ![Len(lists)].room = @ - n], NewList(n))
  /\ born' = born + 1
  /\ ret' = Says("ok")
  /\ UNCHANGED tokens

Scope(n) ==
  /\ lists # <<>>
  /\ \/ /\ n > Top.room
        /\ ret' = Says("Full")
        /\ UNCHANGED <<lists, born, tokens>>
     \/ n <= Top.room /\ Push(n)

DynScope(n) ==
  /\ lists # <<>>
  /\ Push(IF n <= Top.room THEN n ELSE Top.room)

\* A dropped scope gives all it was lent back, and its tokens end with it.
Drop ==
  /\ lists # <<>>
  /\ LET below == Len(lists) - 1
     IN  lists' = [i \in 1..below |->
                     IF i = below THEN [lists[i] EXCEPT !.room = @ + Top.capacity] ELSE lists[i]]
  /\ tokens' = {t \in tokens : t.id # Top.id}
  /\ ret' = Says("ok")
  /\ UNCHANGED born

Next ==
  \/ \E room \in Rooms : Open(room)
  \/ \E v \in Vals : Alloc(v) \/ \E n \in Sizes : OverwriteConst(n, v)
  \/ \E n \in Sizes : CheckedIdx(n) \/ GetConst(n) \/ Carve(n) \/ Scope(n) \/ DynScope(n)
  \/ \E t \in tokens : Get(t) \/ \E v \in Vals : Overwrite(t, v)
  \/ Reset
  \/ Drop

Spec == Init /\ [][Next]_vars
=============================================================================
