---------------------------- MODULE TypedArena ----------------------------
(***************************************************************************)
(* The typed slot arenas: a TypedArena over a borrowed buffer and the      *)
(* scopes (ScopedArena, DynScopedArena) carved from it, one in the other.  *)
(* An open scope borrows its parent exclusively, so the live arenas are a  *)
(* stack and only the top one is used.                                     *)
(*                                                                         *)
(* A pointer is the index of a slot in the buffer.  An arena is its two    *)
(* halves, allocated (base, len) and unallocated (next, left), what it     *)
(* took from its parent, and its identity.  The halves meet,               *)
(* next = base + len, unless slots were carved off in between.             *)
(*                                                                         *)
(* A token is tied by its lifetime to the arena that minted it and may be  *)
(* used on any scope inside.  Token and arena carry "resets", which the    *)
(* code does not keep: it counts what the generation counts without        *)
(* wrapping.                                                               *)
(***************************************************************************)
EXTENDS Integers, Sequences, FiniteSets

CONSTANTS
  Vals,           \* archived values
  Zero,           \* a zeroed slot
  Torn,           \* what a failed serialization may leave
  Foreign,        \* what a caller writes to carved bytes
  Counts,         \* the COUNT parameters of the arenas made
  Sizes,          \* the slot counts callers ask scopes and splits for
  Memory,         \* how many slots the longest buffer has room for
  Buffers,        \* the buffers arenas are made over: length in slots, aligned
  U32,            \* 2^32
  Configs,        \* the lifecycle configurations: "Retain", "Zeroize"
  MaxBrands,      \* bound: arenas and scopes made
  MaxResets,      \* bound: resets of one arena
  MaxTokens,      \* bound: tokens a caller holds
  CarefulCallers  \* whether callers leave an arena alone once they split it

Contents == Vals \cup {Zero, Torn, Foreign}
Slots == 0..Memory - 1

ASSUME ArenaAssumption ==
  /\ Memory \in Nat
  /\ Counts \subseteq Nat
  /\ Sizes \subseteq Nat
  /\ Buffers \subseteq [len: 0..Memory, aligned: BOOLEAN]
  /\ U32 \in Nat \ {0}
  /\ Configs \subseteq {"Retain", "Zeroize"}
  /\ MaxBrands \in Nat
  /\ MaxResets \in Nat
  /\ MaxTokens \in Nat
  /\ CarefulCallers \in BOOLEAN
  /\ {Zero, Torn, Foreign} \cap Vals = {}

VARIABLES
  config,         \* the lifecycle configuration, a type parameter
  stack,          \* the live arenas, the one every other is carved from first
  slots,          \* the contents of the buffer
  brands,         \* brands minted so far
  tokens,         \* the tokens callers hold
  ret             \* what the last call returned

vars == <<config, stack, slots, brands, tokens, ret>>

Says(res) == [res |-> res, items |-> <<>>]
Gives(items) == [res |-> "ok", items |-> items]

Arena ==
  [base: Nat, len: Nat, next: Nat, left: Nat, capacity: Nat, taken: Nat,
   brand: Nat, generation: Nat, resets: Nat]
Token == [brand: Nat, generation: Nat, index: Nat, resets: Nat]

Top == stack[Len(stack)]
SetTop(a) == stack' = [stack EXCEPT ![Len(stack)] = a]

\* The counter starts at 1.
mint_brand == (1 + brands) % U32

NewArena(base, capacity, taken) ==
  [base |-> base, len |-> 0, next |-> base, left |-> capacity, capacity |-> capacity,
   taken |-> taken, brand |-> mint_brand, generation |-> 0, resets |-> 0]

Contiguous(a) == a.next = a.base + a.len
Usable == stack # <<>> /\ (CarefulCallers => Contiguous(Top))

----------------------------------------------------------------------------
(* The halves of one arena.                                                *)

advance(a) == [a EXCEPT !.len = @ + 1, !.next = @ + 1, !.left = @ - 1]
reset_to_start(a) == [a EXCEPT !.next = a.base, !.left = a.capacity, !.len = 0]
\* Mutant: the parent's free slots still begin where the child's do.
carve_keeps_next(a, n) == [a EXCEPT !.left = @ - n]
carve(a, n) == [a EXCEPT !.next = @ + n, !.left = @ - n]
\* Mutant: the parent's count is not restored.
uncarve_keeps_left(a, n) == [a EXCEPT !.next = @ - n]
uncarve(a, n) == [a EXCEPT !.next = @ - n, !.left = @ + n]

allocated(a) == {a.base + i : i \in 0..a.len - 1}
as_slice(a) == [i \in 1..a.len |-> slots[a.base + i - 1]]

\* Mutant: the policy is not run.
policy_skipped(a) == slots
\* ResetPolicy and DropPolicy: what they leave of the allocated slots.
policy(a) ==
  IF config = "Zeroize" THEN [s \in Slots |-> IF s \in allocated(a) THEN Zero ELSE slots[s]]
  ELSE slots

\* A pointer to slot s is accepted if the slot lies in the arena's region.
contains_slot(a, s) == s >= a.base /\ s + 1 <= a.base + a.capacity

from_trusted(index) ==
  [brand |-> Top.brand, generation |-> Top.generation, index |-> index, resets |-> Top.resets]

\* The caller keeps a minted token or lets it go.
Keep(index) ==
  /\ tokens' \in {tokens, tokens \cup {from_trusted(index)}}
  /\ Cardinality(tokens') <= MaxTokens

\* Mutant: a token of another arena passes.
check_token_any_brand(t) ==
  IF t.generation # Top.generation THEN "StaleToken"
  ELSE IF t.index >= Top.len THEN "OutOfRange"
  ELSE "ok"
check_token(t) ==
  IF t.brand # Top.brand THEN "ForeignArena"
  ELSE IF t.generation # Top.generation THEN "StaleToken"
  ELSE IF t.index >= Top.len THEN "OutOfRange"
  ELSE "ok"

----------------------------------------------------------------------------
Init ==
  /\ config \in Configs
  /\ stack = <<>>
  /\ slots = [s \in Slots |-> Zero]
  /\ brands = 0
  /\ tokens = {}
  /\ ret = Says("none")

new(count, buf) ==
  /\ stack = <<>>
  /\ \/ /\ count >= U32
        /\ ret' = Says("Overflow")
        /\ UNCHANGED <<stack, brands>>
     \/ /\ count < U32 /\ ~buf.aligned
        /\ ret' = Says("Misaligned")
        /\ UNCHANGED <<stack, brands>>
     \/ /\ count < U32 /\ buf.aligned /\ buf.len < count
        /\ ret' = Says("TooSmall")
        /\ UNCHANGED <<stack, brands>>
     \/ /\ count < U32 /\ buf.aligned /\ buf.len >= count
        /\ brands < MaxBrands
        /\ stack' = <<NewArena(0, count, 0)>>
        /\ brands' = brands + 1
        /\ ret' = Says("ok")
  /\ UNCHANGED <<config, slots, tokens>>

\* The value is serialized into the slot before the boundary moves.
alloc(v) ==
  /\ Usable
  /\ \/ /\ Top.left = 0
        /\ ret' = Says("Full")
        /\ UNCHANGED <<stack, slots, tokens>>
     \/ /\ Top.left > 0
        /\ slots' \in {slots, [slots EXCEPT ![Top.next] = Torn]}
        /\ ret' = Says("SerializationFailed")
        /\ UNCHANGED <<stack, tokens>>
     \/ /\ Top.left > 0
        /\ slots' = [slots EXCEPT ![Top.next] = v]
        /\ SetTop(advance(Top))
        /\ Keep(Top.len)
        /\ ret' = Says("ok")
  /\ UNCHANGED <<config, brands>>

checked_idx(n) ==
  /\ stack # <<>>
  /\ IF n >= Top.len
       THEN ret' = Says("OutOfRange") /\ UNCHANGED tokens
       ELSE Keep(n) /\ ret' = Says("ok")
  /\ UNCHANGED <<config, stack, slots, brands>>

get(t) ==
  /\ stack # <<>>
  /\ ret' = IF check_token(t) = "ok" THEN Gives(<<slots[Top.base + t.index]>>)
            ELSE Says(check_token(t))
  /\ UNCHANGED <<config, stack, slots, brands, tokens>>

\* A value is serialized into the slot; on failure any part of it may be.
WriteSlot(index, v) ==
  \/ /\ slots' = [slots EXCEPT ![Top.base + index] = v]
     /\ ret' = Says("ok")
  \/ /\ slots' \in {slots, [slots EXCEPT ![Top.base + index] = Torn]}
     /\ ret' = Says("SerializationFailed")

\* Also a write through get_mut.
overwrite(t, v) ==
  /\ stack # <<>>
  /\ \/ /\ check_token(t) # "ok"
        /\ ret' = Says(check_token(t))
        /\ UNCHANGED slots
     \/ check_token(t) = "ok" /\ WriteSlot(t.index, v)
  /\ UNCHANGED <<config, stack, brands, tokens>>

\* Access to the bottom arena by an index known at compile time, without a token.
get_const(n) ==
  /\ Len(stack) = 1
  /\ ret' = IF n < Top.len THEN Gives(<<slots[Top.base + n]>>) ELSE Says("OutOfRange")
  /\ UNCHANGED <<config, stack, slots, brands, tokens>>

overwrite_const(n, v) ==
  /\ Len(stack) = 1
  /\ \/ /\ n >= Top.len
        /\ ret' = Says("OutOfRange")
        /\ UNCHANGED slots
     \/ n < Top.len /\ WriteSlot(n, v)
  /\ UNCHANGED <<config, stack, brands, tokens>>

\* Mutant: the generation stays.
reset_keeps_generation ==
  /\ stack # <<>>
  /\ Top.resets < MaxResets
  /\ slots' = policy(Top)
  /\ SetTop([reset_to_start(Top) EXCEPT !.resets = @ + 1])
  /\ ret' = Says("ok")
  /\ UNCHANGED <<config, brands, tokens>>
reset ==
  /\ stack # <<>>
  /\ Top.resets < MaxResets
  /\ slots' = policy(Top)
  /\ SetTop([reset_to_start(Top) EXCEPT !.generation = (@ + 1) % U32, !.resets = @ + 1])
  /\ ret' = Says("ok")
  /\ UNCHANGED <<config, brands, tokens>>

\* Only the bottom arena can be split.  The caller may write to what it got.
split_unallocated_bytes(n) ==
  /\ Len(stack) = 1
  /\ \/ /\ n > Top.left
        /\ ret' = Says("Full")
        /\ UNCHANGED <<stack, slots>>
     \/ /\ n <= Top.left
        /\ SetTop(carve(Top, n))
        /\ slots' \in {slots, [s \in Slots |->
                                 IF s \in Top.next..Top.next + n - 1 THEN Foreign ELSE slots[s]]}
        /\ ret' = Says("ok")
  /\ UNCHANGED <<config, brands, tokens>>

\* The parent is carved and the child begins where the parent's free slots did.
OpenScope(n) ==
  /\ brands < MaxBrands
  /\ stack' = Append([stack EXCEPT ![Len(stack)] = carve(Top, n)], NewArena(Top.next, n, n))
  /\ brands' = brands + 1
  /\ ret' = Says("ok")
  /\ UNCHANGED <<config, slots, tokens>>

\* Mutant: the size is not checked.
scope_unchecked(n) == stack # <<>> /\ OpenScope(n)
scope(n) ==
  /\ stack # <<>>
  /\ \/ /\ n > Top.left
        /\ ret' = Says("Full")
        /\ UNCHANGED <<config, stack, slots, brands, tokens>>
     \/ n <= Top.left /\ OpenScope(n)

\* A runtime-sized scope is clamped to what is left.
dyn_scope(n) ==
  /\ stack # <<>>
  /\ OpenScope(IF n <= Top.left THEN n ELSE Top.left)

\* A token lives no longer than the arena that minted it.
drop ==
  /\ stack # <<>>
  /\ slots' = policy(Top)
  /\ LET below == Len(stack) - 1
     IN  stack' = [i \in 1..below |->
                     IF i = below THEN uncarve(stack[i], Top.taken) ELSE stack[i]]
  /\ tokens' = {t \in tokens : t.brand # Top.brand}
  /\ ret' = Says("ok")
  /\ UNCHANGED <<config, brands>>

Next ==
  \/ \E count \in Counts, buf \in Buffers : new(count, buf)
  \/ \E v \in Vals : alloc(v) \/ \E n \in Sizes : overwrite_const(n, v)
  \/ \E n \in Sizes : checked_idx(n) \/ get_const(n)
  \/ \E n \in Sizes : split_unallocated_bytes(n) \/ scope(n) \/ dyn_scope(n)
  \/ \E t \in tokens : get(t) \/ \E v \in Vals : overwrite(t, v)
  \/ reset
  \/ drop

Spec == Init /\ [][Next]_vars

----------------------------------------------------------------------------
(* Properties.                                                             *)

\* Every variable keeps its type.
TypeOK ==
  /\ config \in Configs
  /\ stack \in Seq(Arena)
  /\ slots \in [Slots -> Contents]
  /\ brands \in Nat
  /\ tokens \subseteq Token

\* The slot accounting of scopes: what an arena has left, allocated, lent and
\* carved adds up to its capacity, and each scope ends where the free slots of
\* its parent begin, so that its drop gives back exactly what it took.
Accounted(a) ==
  /\ a.base + a.len <= a.next
  /\ a.next + a.left = a.base + a.capacity

Nested ==
  /\ \A i \in 1..Len(stack) : Accounted(stack[i])
  /\ \A i \in 1..Len(stack) - 1 :
       /\ stack[i].next = stack[i + 1].base + stack[i + 1].capacity
       /\ stack[i].base + stack[i].len <= stack[i + 1].base
       /\ stack[i + 1].taken = stack[i + 1].capacity

\* No slot belongs to two live arenas, and no write can reach another arena's
\* slot: neither the next allocation of the top arena nor any pointer it
\* accepts is an allocated slot of an arena below.
NoAliasing ==
  /\ \A i, j \in 1..Len(stack) : i # j => allocated(stack[i]) \cap allocated(stack[j]) = {}
  /\ \A i \in 1..Len(stack) - 1 : \A s \in allocated(stack[i]) : ~contains_slot(Top, s)

\* A token is honoured by the arena that minted it and never after that arena
\* was reset, as long as the generation has not wrapped.
StaleTokensRefused ==
  stack # <<>> =>
    \A t \in tokens : check_token(t) = "ok" => t.brand = Top.brand /\ t.resets = Top.resets

\* With the zeroizing configuration, a slot outside the live arenas' allocated
\* slots holds no whole value of a caller.
ZeroizeLeavesNoValue ==
  config = "Zeroize" =>
    \A s \in Slots : slots[s] \in Vals => \E i \in 1..Len(stack) : s \in allocated(stack[i])

\* The lists and handles the arenas and tokens stand for.
Lists ==
  [i \in 1..Len(stack) |->
     [id |-> stack[i].brand, epoch |-> stack[i].resets, items |-> as_slice(stack[i]),
      room |-> stack[i].left, capacity |-> stack[i].capacity]]
Handles == {[id |-> t.brand, epoch |-> t.resets, index |-> t.index] : t \in tokens}

\* The arenas behave as a stack of lists, whatever the slots hold.
Scopes == INSTANCE ScopeStack WITH
  Rooms <- Counts, born <- brands, lists <- Lists, tokens <- Handles

ImplementsScopeStack == Scopes!Spec

\* What the doc of alloc says ("Bump-allocate the next slot by serializing
\* `val` directly into it"; its token is "the only handle to the newly
\* allocated slot"): the slot of the returned token holds the value.
AllocatedSlotHoldsValue ==
  [][\A v \in Vals :
       alloc(v) /\ ret' = Says("ok") => as_slice(Top)'[Len(as_slice(Top)')] = v]_vars
=============================================================================
