-------------------------- MODULE TypedArenaProofs --------------------------
(***************************************************************************)
(* For every buffer, capacity, nesting and order of calls: scopes give     *)
(* back the slots they took and share none, a token kept over a reset is   *)
(* refused until the generation wraps, and with the zeroizing              *)
(* configuration nothing stays behind in free slots.                       *)
(*                                                                         *)
(* So the arenas are a stack of lists: an allocation appends to its list   *)
(* and to no other, a scope borrows room and gives back what it borrowed,  *)
(* and a token is honoured by its list in its epoch only.                  *)
(***************************************************************************)
EXTENDS TypedArena, SequenceTheorems, TLAPS

\* Arena b lies in the slots arena a lent, behind those a allocated.
Inside(b, a) == a.base + a.len <= b.base /\ b.base + b.capacity <= a.next

\* What a stack of arenas satisfies: Nested, said of any two of them.
Chain(s) ==
  /\ s \in Seq(Arena)
  /\ \A i \in 1..Len(s) : Accounted(s[i])
  /\ \A i \in 1..Len(s) - 1 :
       /\ s[i].next = s[i + 1].base + s[i + 1].capacity
       /\ s[i + 1].taken = s[i + 1].capacity
  /\ \A i, j \in 1..Len(s) : i < j => Inside(s[j], s[i])

----------------------------------------------------------------------------
(* What a carve and its reverse do to the accounts of one arena.            *)

\* The fields of an arena are numbers.
LEMMA ArenaFields ==
  ASSUME NEW a \in Arena
  PROVE  /\ a.base \in Nat /\ a.len \in Nat /\ a.next \in Nat /\ a.left \in Nat
         /\ a.capacity \in Nat /\ a.taken \in Nat
         /\ a.brand \in Nat /\ a.generation \in Nat /\ a.resets \in Nat
BY DEF Arena

\* What a scope takes from its parent, and a split from its arena: the region stays
\* and the counts still add up, as long as no more is taken than is left.
LEMMA CarveAccounts ==
  ASSUME NEW a \in Arena, Accounted(a), NEW n \in Nat, n <= a.left
  PROVE  LET p == carve(a, n)
         IN  /\ p \in Arena /\ Accounted(p)
             /\ p.base = a.base /\ p.len = a.len /\ p.next = a.next + n
             /\ p.capacity = a.capacity /\ p.taken = a.taken
<1> DEFINE p == carve(a, n)
<1>1. p = [a EXCEPT !.next = a.next + n, !.left = a.left - n]
  BY DEF carve
<1>2. a.next + n \in Nat /\ a.left - n \in Nat
  BY DEF Arena
<1>3. p \in Arena
  BY <1>1, <1>2 DEF Arena
<1>4. /\ p.base = a.base /\ p.len = a.len /\ p.next = a.next + n /\ p.left = a.left - n
      /\ p.capacity = a.capacity /\ p.taken = a.taken
  BY <1>1 DEF Arena
<1> HIDE DEF p
<1>5. Accounted(p)
  BY <1>4 DEF Accounted, Arena
<1> QED BY <1>3, <1>4, <1>5 DEF p

\* What a dropped scope gives back to its parent: the counts add up again, as long
\* as the pointer does not go below what the parent allocated.
LEMMA UncarveAccounts ==
  ASSUME NEW a \in Arena, Accounted(a), NEW n \in Nat, a.base + a.len <= a.next - n
  PROVE  LET p == uncarve(a, n)
         IN  /\ p \in Arena /\ Accounted(p)
             /\ p.base = a.base /\ p.len = a.len /\ p.next = a.next - n
             /\ p.capacity = a.capacity /\ p.taken = a.taken
<1> DEFINE p == uncarve(a, n)
<1>1. p = [a EXCEPT !.next = a.next - n, !.left = a.left + n]
  BY DEF uncarve
<1>2. a.next - n \in Nat /\ a.left + n \in Nat
  BY DEF Arena
<1>3. p \in Arena
  BY <1>1, <1>2 DEF Arena
<1>4. /\ p.base = a.base /\ p.len = a.len /\ p.next = a.next - n /\ p.left = a.left + n
      /\ p.capacity = a.capacity /\ p.taken = a.taken
  BY <1>1 DEF Arena
<1> HIDE DEF p
<1>5. Accounted(p)
  BY <1>4 DEF Accounted, Arena
<1> QED BY <1>3, <1>4, <1>5 DEF p

----------------------------------------------------------------------------
(* The three ways a stack of arenas changes.                               *)

\* The top arena moves its boundary, carves or is reset: its region stays.
LEMMA ChainSetTop ==
  ASSUME NEW s, Chain(s), s # <<>>, NEW a \in Arena, Accounted(a),
         a.base = s[Len(s)].base, a.capacity = s[Len(s)].capacity, a.taken = s[Len(s)].taken
  PROVE  Chain([s EXCEPT ![Len(s)] = a])
<1> DEFINE t == [s EXCEPT ![Len(s)] = a]
<1>1. s \in Seq(Arena) /\ Len(s) \in Nat /\ Len(s) > 0
  BY DEF Chain
<1>2. t \in Seq(Arena) /\ Len(t) = Len(s)
  BY <1>1
<1>3. \A i \in 1..Len(s) : t[i] = IF i = Len(s) THEN a ELSE s[i]
  BY <1>1
<1>4. \A i \in 1..Len(s) :
        t[i].base = s[i].base /\ t[i].capacity = s[i].capacity /\ t[i].taken = s[i].taken
  BY <1>3
<1>5. \A i \in 1..Len(s) : i < Len(s) => t[i] = s[i]
  BY <1>3
<1> HIDE DEF t
<1>6. \A i \in 1..Len(t) : Accounted(t[i])
  BY <1>2, <1>3 DEF Chain
<1>7. ASSUME NEW i \in 1..Len(t) - 1
      PROVE  t[i].next = t[i + 1].base + t[i + 1].capacity /\ t[i + 1].taken = t[i + 1].capacity
  BY <1>1, <1>2, <1>4, <1>5, i \in 1..Len(s), i + 1 \in 1..Len(s), i < Len(s) DEF Chain
<1>8. ASSUME NEW i \in 1..Len(t), NEW j \in 1..Len(t), i < j
      PROVE  Inside(t[j], t[i])
  <2>1. t[i] = s[i] /\ t[j].base = s[j].base /\ t[j].capacity = s[j].capacity
    BY <1>1, <1>2, <1>4, <1>5, <1>8
  <2>2. Inside(s[j], s[i])
    BY <1>2, <1>8 DEF Chain
  <2> QED BY <2>1, <2>2 DEF Inside
<1>9. Chain(t)
  BY <1>2, <1>6, <1>7, <1>8 DEF Chain
<1> QED BY <1>9 DEF t

\* A scope of n slots is carved from the top arena and put on it.
LEMMA ChainPush ==
  ASSUME NEW s, Chain(s), s # <<>>, NEW n \in Nat, n <= s[Len(s)].left, NEW b \in Arena,
         b.base = s[Len(s)].next, b.len = 0, b.next = b.base,
         b.left = n, b.capacity = n, b.taken = n
  PROVE  Chain(Append([s EXCEPT ![Len(s)] = carve(s[Len(s)], n)], b))
<1> DEFINE top == s[Len(s)]
           p == carve(top, n)
           u == [s EXCEPT ![Len(s)] = p]
           t == Append(u, b)
<1>1. s \in Seq(Arena) /\ Len(s) \in Nat /\ Len(s) > 0 /\ top \in Arena /\ Accounted(top)
  BY DEF Chain
<1>2. /\ p \in Arena /\ p.base = top.base /\ p.capacity = top.capacity /\ p.taken = top.taken
      /\ p.len = top.len /\ p.next = top.next + n /\ Accounted(p)
  BY <1>1, CarveAccounts
<1>3. Chain(u)
  <2> HIDE DEF p
  <2> QED BY <1>1, <1>2, ChainSetTop
<1>4. u \in Seq(Arena) /\ Len(u) = Len(s) /\ u[Len(s)] = p
  BY <1>1, <1>2
<1> HIDE DEF p, u, top
<1>5. t \in Seq(Arena) /\ Len(t) = Len(s) + 1 /\ t[Len(s) + 1] = b
  BY <1>1, <1>4
<1>6. \A i \in 1..Len(s) : t[i] = u[i]
  BY <1>1, <1>4
<1>7. b.base = top.next /\ Accounted(b)
  BY DEF top, Accounted, Arena
<1> HIDE DEF t
<1>8. Inside(b, p) /\ p.next = b.base + b.capacity
  BY <1>1, <1>2, <1>7 DEF Inside, Accounted, Arena
<1>9. \A i \in 1..Len(t) : Accounted(t[i])
  BY <1>1, <1>3, <1>4, <1>5, <1>6, <1>7 DEF Chain
<1>10. ASSUME NEW i \in 1..Len(t) - 1
       PROVE  t[i].next = t[i + 1].base + t[i + 1].capacity /\ t[i + 1].taken = t[i + 1].capacity
  <2>1. CASE i = Len(s)
    BY <1>1, <1>4, <1>5, <1>6, <1>8, <2>1
  <2>2. CASE i < Len(s)
    BY <1>1, <1>3, <1>4, <1>5, <1>6, <2>2, i \in 1..Len(u) - 1, i \in 1..Len(s),
       i + 1 \in 1..Len(s) DEF Chain
  <2> QED BY <1>1, <1>5, <2>1, <2>2
<1>11. ASSUME NEW i \in 1..Len(t), NEW j \in 1..Len(t), i < j
       PROVE  Inside(t[j], t[i])
  <2>1. CASE j <= Len(s)
    BY <1>1, <1>3, <1>4, <1>5, <1>6, <1>11, <2>1 DEF Chain
  <2>2. CASE j = Len(s) + 1 /\ i = Len(s)
    BY <1>1, <1>4, <1>5, <1>6, <1>8, <2>2
  <2>3. CASE j = Len(s) + 1 /\ i < Len(s)
    <3>1. Inside(p, u[i]) /\ t[i] = u[i] /\ t[j] = b /\ u[i] \in Arena
      BY <1>1, <1>3, <1>4, <1>5, <1>6, <2>3 DEF Chain
    <3>2. p.base \in Nat /\ p.len \in Nat /\ p.capacity \in Nat /\ p.left \in Nat
      BY <1>2, ArenaFields
    <3>3. p.next + p.left = p.base + p.capacity
      BY <1>2 DEF Accounted
    <3>4. p.base + p.len <= b.base /\ p.next = b.base + b.capacity
      BY <1>8 DEF Inside
    <3>5. b.base \in Nat /\ b.capacity \in Nat
      BY ArenaFields
    <3>6. p.base + p.len <= b.base /\ b.base + b.capacity <= p.base + p.capacity
      BY <3>2, <3>3, <3>4, <3>5
    <3>7. u[i].base \in Nat /\ u[i].len \in Nat /\ u[i].next \in Nat
      BY <3>1, ArenaFields
    <3>8. u[i].base + u[i].len <= p.base /\ p.base + p.capacity <= u[i].next
      BY <3>1 DEF Inside
    <3>9. u[i].base + u[i].len <= b.base /\ b.base + b.capacity <= u[i].next
      <4>1. p.base <= b.base
        BY <3>6, <3>2, <3>5
      <4>2. u[i].base + u[i].len <= b.base
        <5> DEFINE x == u[i].base + u[i].len
        <5>1. x \in Nat /\ x <= p.base
          BY <3>7, <3>8
        <5> HIDE DEF x
        <5>2. x <= b.base
          BY <3>2, <3>5, <4>1, <5>1
        <5> QED BY <5>2 DEF x
      <4>3. b.base + b.capacity <= u[i].next
        <5> DEFINE x == b.base + b.capacity
                   y == p.base + p.capacity
        <5>1. x \in Nat
          BY <3>5
        <5>2. y \in Nat
          BY <3>2
        <5>3. x <= y
          BY <3>6
        <5>4. y <= u[i].next
          BY <3>8
        <5> HIDE DEF x, y
        <5>5. x <= u[i].next
          BY <3>7, <5>1, <5>2, <5>3, <5>4
        <5> QED BY <5>5 DEF x
      <4> QED BY <4>2, <4>3
    <3> QED BY <3>1, <3>9 DEF Inside
  <2> QED BY <1>1, <1>5, <1>11, <2>1, <2>2, <2>3
<1>12. Chain(t)
  BY <1>5, <1>9, <1>10, <1>11 DEF Chain
<1> QED BY <1>12 DEF t, u, p, top

\* The top arena is dropped and the one below has its slots again.
LEMMA ChainPop ==
  ASSUME NEW s, Chain(s), s # <<>>, NEW t,
         t = [i \in 1..Len(s) - 1 |->
                IF i = Len(s) - 1 THEN uncarve(s[i], s[Len(s)].taken) ELSE s[i]]
  PROVE  /\ Chain(t)
         /\ Len(t) = Len(s) - 1
         /\ \A i \in 1..Len(t) : t[i].base = s[i].base /\ t[i].len = s[i].len
<1> DEFINE n == Len(s) - 1
           top == s[Len(s)]
<1>1. s \in Seq(Arena) /\ n \in Nat /\ Len(s) = n + 1 /\ top \in Arena
  BY DEF Chain
<1>2. t = [i \in 1..n |-> IF i = n THEN uncarve(s[i], top.taken) ELSE s[i]]
  OBVIOUS
<1> HIDE DEF n, top
<1>3. \A i \in 1..n : s[i] \in Arena /\ Accounted(s[i])
  <2>1. \A i \in 1..n : i \in 1..Len(s)
    BY <1>1
  <2> QED BY <1>1, <2>1 DEF Chain
<1>4. n > 0 => /\ s[n].next = top.base + top.capacity /\ top.taken = top.capacity
               /\ Inside(top, s[n])
  <2> SUFFICES ASSUME n > 0
               PROVE  /\ s[n].next = top.base + top.capacity /\ top.taken = top.capacity
                      /\ Inside(top, s[n])
    OBVIOUS
  <2>1. n \in 1..Len(s) - 1 /\ n \in 1..Len(s) /\ n + 1 \in 1..Len(s) /\ s[n + 1] = top
    BY <1>1 DEF top
  <2>2. s[n].next = s[n + 1].base + s[n + 1].capacity /\ s[n + 1].taken = s[n + 1].capacity
    BY <2>1 DEF Chain
  <2>3. Inside(s[n + 1], s[n])
    BY <1>1, <2>1 DEF Chain
  <2> QED BY <2>1, <2>2, <2>3
<1>5. ASSUME NEW i \in 1..n
      PROVE  /\ t[i] \in Arena /\ Accounted(t[i])
             /\ t[i].base = s[i].base /\ t[i].len = s[i].len
             /\ t[i].capacity = s[i].capacity /\ t[i].taken = s[i].taken
             /\ t[i].next = IF i = n THEN top.base ELSE s[i].next
  <2>1. CASE i = n
    <3>1. t[i] = uncarve(s[n], top.taken) /\ s[n] \in Arena /\ Accounted(s[n])
      BY <1>1, <1>3, <1>2, <2>1
    <3>2. top.capacity \in Nat /\ top.base \in Nat /\ s[n].next - top.taken = top.base
      <4>1. s[n].next = top.base + top.capacity /\ top.taken = top.capacity
        BY <1>1, <1>4, <2>1
      <4>2. top.capacity \in Nat /\ top.base \in Nat
        BY <1>1, ArenaFields
      <4> QED BY <4>1, <4>2
    <3>3. s[n].base + s[n].len <= s[n].next - top.taken
      BY <1>1, <1>4, <2>1, <3>2 DEF Inside
    <3>4. top.taken \in Nat
      BY <1>1, ArenaFields
    <3> QED BY <2>1, <3>1, <3>2, <3>3, <3>4, UncarveAccounts
  <2>2. CASE i # n
    BY <1>1, <1>3, <1>2, <2>2
  <2> QED BY <2>1, <2>2
<1>6. t \in Seq(Arena) /\ Len(t) = n
  <2>1. t \in [1..n -> Arena]
    BY <1>1, <1>5, <1>2
  <2> QED BY <1>1, <2>1
<1>7. ASSUME NEW i \in 1..n - 1
      PROVE  t[i].next = t[i + 1].base + t[i + 1].capacity /\ t[i + 1].taken = t[i + 1].capacity
  <2>1. i \in 1..Len(s) - 1 /\ i \in 1..n /\ i + 1 \in 1..n /\ i # n
    BY <1>1
  <2>2. s[i].next = s[i + 1].base + s[i + 1].capacity /\ s[i + 1].taken = s[i + 1].capacity
    BY <2>1 DEF Chain
  <2> QED BY <1>5, <2>1, <2>2
<1>8. ASSUME NEW i \in 1..n, NEW j \in 1..n, i < j
      PROVE  Inside(t[j], t[i])
  <2>1. Inside(s[j], s[i])
    BY <1>1, <1>8 DEF Chain
  <2>2. i # n
    BY <1>1, <1>8
  <2> QED BY <1>5, <2>1, <2>2 DEF Inside
<1>9. Chain(t)
  BY <1>5, <1>6, <1>7, <1>8 DEF Chain
<1> QED BY <1>5, <1>6, <1>9 DEF n

----------------------------------------------------------------------------
(* The invariant.                                                          *)

\* Types and nesting depend on each other: a carve that took more than is left
\* would leave a negative count.
Inv == TypeOK /\ Chain(stack)

\* The arena calls reach is one whose counts add up.
LEMMA TopFacts ==
  ASSUME Inv, stack # <<>>
  PROVE  /\ Len(stack) \in Nat /\ Len(stack) > 0
         /\ Top \in Arena /\ Accounted(Top)
BY DEF Inv, Chain, Top

\* Brands are minted as numbers.
LEMMA NewBrand == TypeOK => mint_brand \in Nat
BY ArenaAssumption DEF mint_brand, TypeOK

\* SetTop of an arena with the region of the top one.
LEMMA SetTopInv ==
  ASSUME Inv, stack # <<>>, NEW a \in Arena, Accounted(a), SetTop(a),
         a.base = Top.base, a.capacity = Top.capacity, a.taken = Top.taken
  PROVE  Chain(stack')
<1>1. Chain(stack)
  BY DEF Inv
<1> QED BY <1>1, ChainSetTop DEF SetTop, Top

\* An allocation moves one slot from what is left to what is allocated.
LEMMA AdvanceAccounts ==
  ASSUME NEW a \in Arena, Accounted(a), a.left > 0
  PROVE  LET p == advance(a)
         IN  /\ p \in Arena /\ Accounted(p)
             /\ p.base = a.base /\ p.capacity = a.capacity /\ p.taken = a.taken
             /\ p.len = a.len + 1
<1> DEFINE p == advance(a)
<1>1. p = [a EXCEPT !.len = a.len + 1, !.next = a.next + 1, !.left = a.left - 1]
  BY DEF advance
<1>2. a.len + 1 \in Nat /\ a.next + 1 \in Nat /\ a.left - 1 \in Nat
  BY ArenaFields
<1>3. p \in Arena
  BY <1>1, <1>2 DEF Arena
<1>4. /\ p.base = a.base /\ p.capacity = a.capacity /\ p.taken = a.taken
      /\ p.len = a.len + 1 /\ p.next = a.next + 1 /\ p.left = a.left - 1
  BY <1>1 DEF Arena
<1> HIDE DEF p
<1>5. Accounted(p)
  BY <1>4, ArenaFields DEF Accounted
<1> QED BY <1>3, <1>4, <1>5 DEF p

\* A reset arena has its whole region left.
LEMMA ResetAccounts ==
  ASSUME NEW a \in Arena, NEW g \in Nat, NEW r \in Nat
  PROVE  LET p == [reset_to_start(a) EXCEPT !.generation = g, !.resets = r]
         IN  /\ p \in Arena /\ Accounted(p)
             /\ p.base = a.base /\ p.capacity = a.capacity /\ p.taken = a.taken
             /\ p.len = 0
<1> DEFINE p == [reset_to_start(a) EXCEPT !.generation = g, !.resets = r]
<1>1. p = [a EXCEPT !.next = a.base, !.left = a.capacity, !.len = 0,
                    !.generation = g, !.resets = r]
  BY DEF reset_to_start, Arena
<1>2. p \in Arena
  <2>1. a.base \in Nat /\ a.capacity \in Nat
    BY ArenaFields
  <2>2. ASSUME NEW x \in Nat, NEW y \in Nat
        PROVE  [a EXCEPT !.next = x, !.left = y, !.len = 0, !.generation = g, !.resets = r]
                 \in Arena
    BY DEF Arena
  <2> QED BY <1>1, <2>1, <2>2
<1>3. /\ p.base = a.base /\ p.capacity = a.capacity /\ p.taken = a.taken
      /\ p.len = 0 /\ p.next = a.base /\ p.left = a.capacity
  BY <1>1 DEF Arena
<1> HIDE DEF p
<1>4. Accounted(p)
  BY <1>3, ArenaFields DEF Accounted
<1> QED BY <1>2, <1>3, <1>4 DEF p

\* A token the caller may keep.
LEMMA KeepTypes ==
  ASSUME Inv, stack # <<>>, NEW n \in Nat, Keep(n)
  PROVE  tokens' \subseteq Token
<1>1. from_trusted(n) \in Token
  BY TopFacts, ArenaFields DEF from_trusted, Token
<1> QED BY <1>1 DEF Keep, Inv, TypeOK

\* What the safety policy leaves of the slots.
LEMMA PolicyTypes ==
  ASSUME Inv, NEW a
  PROVE  policy(a) \in [Slots -> Contents]
BY DEF policy, Inv, TypeOK, Contents

\* What an overwrite leaves of the slots.
LEMMA WriteSlotTypes ==
  ASSUME Inv, NEW n, NEW v \in Vals, WriteSlot(n, v)
  PROVE  slots' \in [Slots -> Contents]
BY DEF WriteSlot, Inv, TypeOK, Contents

\* There are no arenas at first.
LEMMA InitInv == Init => Inv
<1> SUFFICES ASSUME Init PROVE Inv
  OBVIOUS
<1>1. stack \in Seq(Arena) /\ Len(stack) = 0
  BY DEF Init
<1>2. Chain(stack)
  BY <1>1 DEF Chain
<1>3. TypeOK
  BY <1>1 DEF Init, TypeOK, Contents
<1> QED BY <1>2, <1>3 DEF Inv

----------------------------------------------------------------------------
(* The invariant, action by action.                                        *)

\* An arena over a whole buffer.
LEMMA NewInv ==
  ASSUME Inv, NEW count \in Counts, NEW buf \in Buffers, new(count, buf)
  PROVE  Inv'
<1>1. CASE UNCHANGED <<stack, brands>>
  BY <1>1 DEF new, Inv, TypeOK
<1>2. CASE stack' = <<NewArena(0, count, 0)>> /\ brands' = brands + 1
  <2> DEFINE a == NewArena(0, count, 0)
  <2>1. count \in Nat /\ mint_brand \in Nat
    BY NewBrand, ArenaAssumption DEF Inv
  <2>2. a \in Arena /\ Accounted(a)
    BY <2>1 DEF NewArena, Arena, Accounted
  <2> HIDE DEF a
  <2>3. stack' \in Seq(Arena) /\ Len(stack') = 1 /\ stack'[1] = a
    BY <1>2, <2>2 DEF a
  <2>4. Chain(stack')
    BY <2>2, <2>3 DEF Chain
  <2>5. TypeOK'
    BY <1>2, <2>3 DEF new, Inv, TypeOK
  <2> QED BY <2>4, <2>5 DEF Inv
<1> QED BY <1>1, <1>2 DEF new

\* An allocation, or one that ends early.
LEMMA AllocInv ==
  ASSUME Inv, NEW v \in Vals, alloc(v)
  PROVE  Inv'
<1>1. stack # <<>>
  BY DEF alloc, Usable
<1>2. CASE UNCHANGED <<stack, tokens>>
  BY <1>2 DEF alloc, Inv, TypeOK, Contents
<1>3. CASE /\ Top.left > 0 /\ slots' = [slots EXCEPT ![Top.next] = v]
           /\ SetTop(advance(Top)) /\ Keep(Top.len)
  <2>1. Chain(stack')
    <3> DEFINE p == advance(Top)
    <3>1. /\ p \in Arena /\ Accounted(p)
          /\ p.base = Top.base /\ p.capacity = Top.capacity /\ p.taken = Top.taken
      BY <1>1, <1>3, TopFacts, AdvanceAccounts
    <3> HIDE DEF p
    <3>2. SetTop(p)
      BY <1>3 DEF p
    <3> QED BY <1>1, <3>1, <3>2, SetTopInv
  <2>2. tokens' \subseteq Token
    BY <1>1, <1>3, TopFacts, ArenaFields, KeepTypes
  <2>3. slots' \in [Slots -> Contents]
    BY <1>3 DEF Inv, TypeOK, Contents
  <2>4. TypeOK'
    BY <2>1, <2>2, <2>3 DEF alloc, Inv, TypeOK, Chain
  <2> QED BY <2>1, <2>4 DEF Inv
<1> QED BY <1>2, <1>3 DEF alloc

\* A token taken of an index.
LEMMA CheckedIdxInv ==
  ASSUME Inv, NEW n \in Sizes, checked_idx(n)
  PROVE  Inv'
<1>1. n \in Nat
  BY ArenaAssumption
<1>2. tokens' \subseteq Token
  BY <1>1, KeepTypes DEF checked_idx, Inv, TypeOK
<1> QED BY <1>2 DEF checked_idx, Inv, TypeOK

\* A reset: its region stays, so scopes below are where they were.
LEMMA ResetInv == Inv /\ reset => Inv'
<1> SUFFICES ASSUME Inv, reset PROVE Inv'
  OBVIOUS
<1> DEFINE g == (Top.generation + 1) % U32
           r == Top.resets + 1
           p == [reset_to_start(Top) EXCEPT !.generation = g, !.resets = r]
<1>1. stack # <<>>
  BY DEF reset
<1>2. Top \in Arena
  BY <1>1, TopFacts
<1>3. SetTop(p)
  BY <1>2 DEF reset, reset_to_start, Arena
<1>4. g \in Nat /\ r \in Nat
  BY <1>2, ArenaFields, ArenaAssumption
<1> HIDE DEF g, r
<1>5. /\ p \in Arena /\ Accounted(p)
      /\ p.base = Top.base /\ p.capacity = Top.capacity /\ p.taken = Top.taken
  BY <1>2, <1>4, ResetAccounts
<1> HIDE DEF p
<1>6. Chain(stack')
  BY <1>1, <1>3, <1>5, SetTopInv
<1>7. slots' \in [Slots -> Contents]
  BY PolicyTypes DEF reset
<1>8. TypeOK'
  BY <1>6, <1>7 DEF reset, Inv, TypeOK, Chain
<1> QED BY <1>6, <1>8 DEF Inv

\* A split that hands the rest of the buffer out as bytes.
LEMMA SplitInv ==
  ASSUME Inv, NEW n \in Sizes, split_unallocated_bytes(n)
  PROVE  Inv'
<1>1. stack # <<>> /\ n \in Nat
  BY ArenaAssumption DEF split_unallocated_bytes, Inv, Chain
<1>2. CASE UNCHANGED <<stack, slots>>
  BY <1>2 DEF split_unallocated_bytes, Inv, TypeOK
<1>3. CASE /\ n <= Top.left /\ SetTop(carve(Top, n))
           /\ slots' \in {slots, [s \in Slots |->
                                    IF s \in Top.next..Top.next + n - 1 THEN Foreign ELSE slots[s]]}
  <2> DEFINE p == carve(Top, n)
  <2>1. /\ p \in Arena /\ Accounted(p)
        /\ p.base = Top.base /\ p.capacity = Top.capacity /\ p.taken = Top.taken
    BY <1>1, <1>3, TopFacts, CarveAccounts
  <2> HIDE DEF p
  <2>2. SetTop(p)
    BY <1>3 DEF p
  <2>3. Chain(stack')
    BY <1>1, <2>1, <2>2, SetTopInv
  <2>4. slots' \in [Slots -> Contents]
    BY <1>3 DEF Inv, TypeOK, Contents
  <2>5. TypeOK'
    BY <2>3, <2>4 DEF split_unallocated_bytes, Inv, TypeOK, Chain
  <2> QED BY <2>3, <2>5 DEF Inv
<1> QED BY <1>2, <1>3 DEF split_unallocated_bytes

\* What scope and dyn_scope share.
LEMMA OpenScopeInv ==
  ASSUME Inv, stack # <<>>, NEW n \in Nat, n <= Top.left, OpenScope(n)
  PROVE  Inv'
<1> DEFINE b == NewArena(Top.next, n, n)
<1>1. mint_brand \in Nat /\ Top \in Arena /\ Top.next \in Nat
  BY NewBrand, TopFacts, ArenaFields DEF Inv
<1>2. b \in Arena
  BY <1>1 DEF NewArena, Arena
<1>3. /\ b.base = Top.next /\ b.len = 0 /\ b.next = b.base
      /\ b.left = n /\ b.capacity = n /\ b.taken = n
  BY DEF NewArena
<1>4. stack' = Append([stack EXCEPT ![Len(stack)] = carve(stack[Len(stack)], n)], b)
  BY DEF OpenScope, Top
<1> HIDE DEF b
<1>5. Chain(stack')
  BY <1>2, <1>3, <1>4, ChainPush DEF Inv, Top
<1>6. TypeOK'
  BY <1>5 DEF OpenScope, Inv, TypeOK, Chain
<1> QED BY <1>5, <1>6 DEF Inv

\* A scope, of a constant or a computed number of slots.
LEMMA ScopeInv ==
  ASSUME Inv, NEW n \in Sizes, scope(n) \/ dyn_scope(n)
  PROVE  Inv'
<1>1. n \in Nat
  BY ArenaAssumption
<1>2. CASE UNCHANGED <<config, stack, slots, brands, tokens>>
  BY <1>2 DEF Inv, TypeOK
<1>3. CASE stack # <<>> /\ n <= Top.left /\ OpenScope(n)
  BY <1>1, <1>3, OpenScopeInv
<1>4. CASE dyn_scope(n)
  <2>1. stack # <<>>
    BY <1>4 DEF dyn_scope
  <2>2. Top.left \in Nat
    BY <2>1, TopFacts, ArenaFields
  <2>3. CASE n <= Top.left
    BY <1>1, <1>4, <2>1, <2>3, OpenScopeInv DEF dyn_scope
  <2>4. CASE ~(n <= Top.left)
    BY <1>4, <2>1, <2>2, <2>4, OpenScopeInv DEF dyn_scope
  <2> QED BY <2>3, <2>4
<1> QED BY <1>2, <1>3, <1>4 DEF scope

\* The end of a scope, or of the arena over the buffer.
LEMMA DropInv == Inv /\ drop => Inv'
<1> SUFFICES ASSUME Inv, drop PROVE Inv'
  OBVIOUS
<1>1. Chain(stack')
  BY ChainPop DEF drop, Inv, Top
<1>2. slots' \in [Slots -> Contents]
  BY PolicyTypes DEF drop
<1>3. TypeOK'
  BY <1>1, <1>2 DEF drop, Inv, TypeOK, Chain
<1> QED BY <1>1, <1>3 DEF Inv

\* The invariant is inductive.
LEMMA StepInv == Inv /\ [Next]_vars => Inv'
<1> SUFFICES ASSUME Inv, [Next]_vars PROVE Inv'
  OBVIOUS
<1>1. CASE \E count \in Counts, buf \in Buffers : new(count, buf)
  BY <1>1, NewInv
<1>2. CASE \E v \in Vals : alloc(v)
  BY <1>2, AllocInv
<1>3. CASE \E n \in Sizes : checked_idx(n)
  BY <1>3, CheckedIdxInv
<1>4. ASSUME NEW v \in Vals, NEW n \in Sizes, overwrite_const(n, v)
      PROVE  Inv'
  BY <1>4, WriteSlotTypes DEF overwrite_const, Inv, TypeOK
<1>5. ASSUME NEW n \in Sizes, get_const(n)
      PROVE  Inv'
  BY <1>5 DEF get_const, Inv, TypeOK
<1>6. CASE \E n \in Sizes : split_unallocated_bytes(n)
  BY <1>6, SplitInv
<1>7. CASE \E n \in Sizes : scope(n) \/ dyn_scope(n)
  BY <1>7, ScopeInv
<1>8. ASSUME NEW t \in tokens, get(t)
      PROVE  Inv'
  BY <1>8 DEF get, Inv, TypeOK
<1>9. ASSUME NEW t \in tokens, NEW v \in Vals, overwrite(t, v)
      PROVE  Inv'
  BY <1>9, WriteSlotTypes DEF overwrite, Inv, TypeOK
<1>10. CASE reset
  BY <1>10, ResetInv
<1>11. CASE drop
  BY <1>11, DropInv
<1>12. CASE UNCHANGED vars
  BY <1>12 DEF vars, Inv, TypeOK
<1> QED BY <1>1, <1>2, <1>3, <1>4, <1>5, <1>6, <1>7, <1>8, <1>9, <1>10, <1>11, <1>12 DEF Next

\* The invariant holds.
LEMMA SpecInv == Spec => []Inv
BY InitInv, StepInv, PTL DEF Spec

----------------------------------------------------------------------------
(* What tokens and arenas know of resets.                                  *)

\* As long as no arena is reset 2^32 times, a generation is a number of resets.
Counted ==
  /\ \A i \in 1..Len(stack) :
       stack[i].generation = stack[i].resets /\ stack[i].resets <= MaxResets
  /\ \A t \in tokens : t.generation = t.resets

\* SetTop of an arena that has counted its resets, and no new token.
LEMMA SetTopCounted ==
  ASSUME Inv, Counted, stack # <<>>, NEW a, SetTop(a),
         a.generation = a.resets, a.resets <= MaxResets
  PROVE  \A i \in 1..Len(stack') :
           stack'[i].generation = stack'[i].resets /\ stack'[i].resets <= MaxResets
<1>1. Len(stack') = Len(stack) /\ Len(stack) \in Nat
  BY DEF SetTop, Inv, Chain
<1>2. \A i \in 1..Len(stack) : stack'[i] = IF i = Len(stack) THEN a ELSE stack[i]
  BY DEF SetTop, Inv, Chain
<1> QED BY <1>1, <1>2 DEF Counted

\* The arena calls reach counts its resets.
LEMMA TopCounted ==
  ASSUME Inv, Counted, stack # <<>>
  PROVE  Top.generation = Top.resets /\ Top.resets <= MaxResets
BY TopFacts DEF Counted, Top

\* A token carries the count of the arena it was taken from.
LEMMA KeepCounted ==
  ASSUME Inv, Counted, stack # <<>>, NEW n, Keep(n)
  PROVE  \A t \in tokens' : t.generation = t.resets
<1>1. from_trusted(n).generation = from_trusted(n).resets
  BY TopCounted DEF from_trusted
<1> QED BY <1>1 DEF Keep, Counted

\* Generations go on counting resets: the step that would wrap one is out of bounds.
LEMMA StepCounted ==
  ASSUME MaxResets < U32, Inv, Counted, [Next]_vars
  PROVE  Counted'
<1>0. ASSUME UNCHANGED <<stack, tokens>> PROVE Counted'
  BY <1>0 DEF Counted
<1>1. ASSUME NEW count \in Counts, NEW buf \in Buffers, new(count, buf)
      PROVE  Counted'
  <2>1. CASE UNCHANGED <<stack, brands>>
    BY <1>0, <1>1, <2>1 DEF new
  <2>2. CASE stack' = <<NewArena(0, count, 0)>>
    <3>1. Len(stack') = 1 /\ stack'[1].generation = 0 /\ stack'[1].resets = 0
      BY <2>2 DEF NewArena
    <3> QED BY <1>1, <3>1, ArenaAssumption DEF new, Counted
  <2> QED BY <1>1, <2>1, <2>2 DEF new
<1>2. ASSUME NEW v \in Vals, alloc(v)
      PROVE  Counted'
  <2>1. CASE UNCHANGED <<stack, tokens>>
    BY <1>0, <2>1
  <2>2. CASE SetTop(advance(Top)) /\ Keep(Top.len)
    <3>1. stack # <<>>
      BY <1>2 DEF alloc, Usable
    <3>2. advance(Top).generation = Top.generation /\ advance(Top).resets = Top.resets
      BY <3>1, TopFacts DEF advance, Arena
    <3>3. \A t \in tokens' : t.generation = t.resets
      BY <2>2, <3>1, KeepCounted
    <3> QED BY <2>2, <3>1, <3>2, <3>3, TopCounted, SetTopCounted DEF Counted
  <2> QED BY <1>2, <2>1, <2>2 DEF alloc
<1>3. ASSUME NEW n \in Sizes, checked_idx(n)
      PROVE  Counted'
  BY <1>3, KeepCounted DEF checked_idx, Counted
<1>4. ASSUME NEW n \in Sizes, split_unallocated_bytes(n)
      PROVE  Counted'
  <2>1. CASE UNCHANGED <<stack, slots>>
    BY <1>0, <1>4, <2>1 DEF split_unallocated_bytes
  <2>2. CASE SetTop(carve(Top, n))
    <3>1. stack # <<>>
      BY <1>4 DEF split_unallocated_bytes, Inv, Chain
    <3>2. carve(Top, n).generation = Top.generation /\ carve(Top, n).resets = Top.resets
      BY <3>1, TopFacts DEF carve, Arena
    <3> QED BY <1>4, <2>2, <3>1, <3>2, TopCounted, SetTopCounted
          DEF Counted, split_unallocated_bytes
  <2> QED BY <1>4, <2>1, <2>2 DEF split_unallocated_bytes
<1>5. ASSUME NEW n, stack # <<>>, OpenScope(n)
      PROVE  Counted'
  <2> DEFINE u == [stack EXCEPT ![Len(stack)] = carve(Top, n)]
             b == NewArena(Top.next, n, n)
  <2>1. stack \in Seq(Arena) /\ Len(stack) \in Nat /\ stack' = Append(u, b)
    BY <1>5 DEF OpenScope, Inv, Chain
  <2>2. carve(Top, n).generation = Top.generation /\ carve(Top, n).resets = Top.resets
    BY <1>5, TopFacts DEF carve, Arena
  <2>3. Len(stack') = Len(stack) + 1 /\ stack'[Len(stack) + 1] = b
    BY <2>1
  <2>4. \A i \in 1..Len(stack) :
          stack'[i] = IF i = Len(stack) THEN carve(Top, n) ELSE stack[i]
    BY <2>1
  <2>5. b.generation = 0 /\ b.resets = 0
    BY DEF NewArena
  <2>6. ASSUME NEW i \in 1..Len(stack')
        PROVE  stack'[i].generation = stack'[i].resets /\ stack'[i].resets <= MaxResets
    <3>1. CASE i = Len(stack) + 1
      BY <2>3, <2>5, <3>1, ArenaAssumption
    <3>2. CASE i = Len(stack)
      BY <1>5, <2>1, <2>2, <2>4, <3>2, TopCounted
    <3>3. CASE i < Len(stack)
      BY <2>1, <2>4, <3>3 DEF Counted
    <3> QED BY <2>1, <2>3, <3>1, <3>2, <3>3
  <2> QED BY <1>5, <2>6 DEF OpenScope, Counted
<1>6. ASSUME NEW n \in Sizes, scope(n) \/ dyn_scope(n)
      PROVE  Counted'
  BY <1>0, <1>5, <1>6 DEF scope, dyn_scope
<1>7. CASE reset
  <2> DEFINE a == [reset_to_start(Top) EXCEPT !.generation = (@ + 1) % U32, !.resets = @ + 1]
  <2>1. stack # <<>> /\ SetTop(a) /\ Top.resets < MaxResets
    BY <1>7 DEF reset
  <2>2. Top \in Arena /\ Top.resets \in Nat
    BY <2>1, TopFacts, ArenaFields
  <2>3. a.generation = (Top.generation + 1) % U32 /\ a.resets = Top.resets + 1
    BY <2>2 DEF reset_to_start, Arena
  <2> HIDE DEF a
  <2>4. (Top.resets + 1) % U32 = Top.resets + 1
    BY <2>1, <2>2, ArenaAssumption
  <2>5. a.generation = a.resets /\ a.resets <= MaxResets
    BY <2>1, <2>2, <2>3, <2>4, TopCounted, ArenaAssumption
  <2> QED BY <1>7, <2>1, <2>5, SetTopCounted DEF Counted, reset
<1>8. CASE drop
  <2>1. ASSUME NEW i \in 1..Len(stack')
        PROVE  stack'[i].generation = stack[i].generation /\ stack'[i].resets = stack[i].resets
               /\ i \in 1..Len(stack)
    <3>1. stack \in Seq(Arena) /\ stack # <<>> /\ Len(stack) \in Nat
      BY <1>8 DEF drop, Inv, Chain
    <3>2. Len(stack') = Len(stack) - 1
      BY <1>8, ChainPop DEF drop, Inv, Top
    <3>3. i \in 1..Len(stack) - 1
      BY <3>2
    <3>4. stack'[i] = uncarve(stack[i], Top.taken) \/ stack'[i] = stack[i]
      BY <1>8, <3>3 DEF drop
    <3>5. stack[i] \in Arena
      BY <3>1, <3>3
    <3>6. ASSUME NEW x \in Arena, NEW k
          PROVE  uncarve(x, k).generation = x.generation /\ uncarve(x, k).resets = x.resets
      BY DEF uncarve, Arena
    <3> QED BY <3>1, <3>3, <3>4, <3>5, <3>6
  <2>2. tokens' \subseteq tokens
    BY <1>8 DEF drop
  <2> QED BY <2>1, <2>2 DEF Counted
<1>9. ASSUME NEW n \in Sizes, get_const(n) \/ \E v \in Vals : overwrite_const(n, v)
      PROVE  Counted'
  BY <1>0, <1>9 DEF get_const, overwrite_const
<1>10. ASSUME NEW t \in tokens, get(t) \/ \E v \in Vals : overwrite(t, v)
       PROVE  Counted'
  BY <1>0, <1>10 DEF get, overwrite
<1>11. CASE UNCHANGED vars
  BY <1>0, <1>11 DEF vars
<1> QED BY <1>1, <1>2, <1>3, <1>4, <1>6, <1>7, <1>8, <1>9, <1>10, <1>11 DEF Next

----------------------------------------------------------------------------
(* What is left in slots.                                                  *)

\* A slot of the allocated half of one of these arenas.
Owned(st, s) == \E i \in 1..Len(st) : s \in allocated(st[i])

Clean == \A s \in Slots : slots[s] \in Vals => Owned(stack, s)

\* With another arena at the top, a slot stays owned by those below, or by the
\* new top if that has it too; and the new top owns all of its own.
LEMMA SetTopOwned ==
  ASSUME NEW st \in Seq(Arena), st # <<>>, NEW a
  PROVE  LET new_st == [st EXCEPT ![Len(st)] = a]
         IN  /\ \A s : Owned(st, s) => Owned(new_st, s) \/ s \in allocated(st[Len(st)])
             /\ \A s \in allocated(a) : Owned(new_st, s)
<1> DEFINE new_st == [st EXCEPT ![Len(st)] = a]
<1>1. Len(new_st) = Len(st) /\ Len(st) \in 1..Len(st)
  OBVIOUS
<1>2. \A i \in 1..Len(st) : new_st[i] = IF i = Len(st) THEN a ELSE st[i]
  OBVIOUS
<1> HIDE DEF new_st
<1>3. ASSUME NEW s, Owned(st, s), s \notin allocated(st[Len(st)])
      PROVE  Owned(new_st, s)
  <2>1. PICK i \in 1..Len(st) : s \in allocated(st[i])
    BY <1>3 DEF Owned
  <2>2. i # Len(st)
    BY <1>3, <2>1
  <2>3. new_st[i] = st[i] /\ i \in 1..Len(new_st)
    BY <1>1, <1>2, <2>2
  <2> QED BY <2>1, <2>3 DEF Owned
<1>4. ASSUME NEW s \in allocated(a) PROVE Owned(new_st, s)
  <2>1. new_st[Len(st)] = a /\ Len(st) \in 1..Len(new_st)
    BY <1>1, <1>2
  <2> QED BY <2>1 DEF Owned
<1> QED BY <1>3, <1>4 DEF new_st

\* The top arena goes from one to the next, and what it had allocated stays so.
LEMMA GrowingTopOwned ==
  ASSUME NEW st \in Seq(Arena), st # <<>>, NEW a, allocated(st[Len(st)]) \subseteq allocated(a)
  PROVE  \A s : Owned(st, s) => Owned([st EXCEPT ![Len(st)] = a], s)
BY SetTopOwned

\* Every call leaves the slots of no live arena without a value: resets and drops
\* zero what they give up, and the rest only writes what the top arena owns.
LEMMA StepClean ==
  ASSUME CarefulCallers, config = "Zeroize", Inv, Clean, [Next]_vars
  PROVE  Clean'
<1>0. ASSUME UNCHANGED <<stack, slots>> PROVE Clean'
  BY <1>0 DEF Clean
<1>1. Torn \notin Vals /\ Zero \notin Vals /\ Foreign \notin Vals
  BY ArenaAssumption
<1>2. slots \in [Slots -> Contents] /\ stack \in Seq(Arena)
  BY DEF Inv, TypeOK, Chain
<1>3. ASSUME NEW n \in Nat, NEW v \in Vals, stack # <<>>, n < Top.len,
             WriteSlot(n, v), UNCHANGED stack
      PROVE  Clean'
  <2>1. Top.base + n \in allocated(Top)
    BY <1>3, TopFacts, ArenaFields DEF allocated
  <2>2. Owned(stack, Top.base + n)
    BY <1>3, <2>1, TopFacts DEF Owned, Top
  <2>3. \A s \in Slots : s # Top.base + n => (slots'[s] \in Vals => slots[s] \in Vals)
    BY <1>2, <1>3 DEF WriteSlot
  <2> QED BY <1>3, <2>2, <2>3 DEF Clean
<1>4. ASSUME NEW count \in Counts, NEW buf \in Buffers, new(count, buf)
      PROVE  Clean'
  <2>1. \A s \in Slots : slots[s] \notin Vals
    BY <1>4 DEF new, Clean, Owned
  <2> QED BY <1>4, <2>1 DEF new, Clean
<1>5. ASSUME NEW v \in Vals, alloc(v)
      PROVE  Clean'
  <2>1. stack # <<>> /\ Top.next = Top.base + Top.len
    BY <1>5 DEF alloc, Usable, Contiguous
  <2>2. CASE UNCHANGED stack /\ slots' \in {slots, [slots EXCEPT ![Top.next] = Torn]}
    <3>1. \A s \in Slots : slots'[s] \in Vals => slots[s] \in Vals
      BY <2>2, <1>1, <1>2
    <3> QED BY <2>2, <3>1 DEF Clean
  <2>3. CASE SetTop(advance(Top)) /\ slots' = [slots EXCEPT ![Top.next] = v] /\ Top.left > 0
    <3> DEFINE p == advance(Top)
    <3>1. p.base = Top.base /\ p.len = Top.len + 1
      BY <2>1, <2>3, TopFacts, AdvanceAccounts
    <3>2. Top.base \in Nat /\ Top.len \in Nat
      BY <2>1, TopFacts, ArenaFields
    <3>3. stack' = [stack EXCEPT ![Len(stack)] = p] /\ Top = stack[Len(stack)]
      BY <2>3 DEF SetTop, Top
    <3> HIDE DEF p
    <3>4. allocated(Top) \subseteq allocated(p) /\ Top.next \in allocated(p)
      BY <2>1, <3>1, <3>2 DEF allocated
    <3>5. \A s : Owned(stack, s) => Owned(stack', s)
      BY <1>2, <2>1, <3>3, <3>4, GrowingTopOwned
    <3>6. Owned(stack', Top.next)
      BY <1>2, <2>1, <3>3, <3>4, SetTopOwned
    <3>7. \A s \in Slots : s # Top.next => (slots'[s] \in Vals => slots[s] \in Vals)
      BY <2>3, <1>2
    <3> QED BY <3>5, <3>6, <3>7 DEF Clean
  <2> QED BY <1>5, <2>2, <2>3 DEF alloc
<1>6. ASSUME NEW n \in Sizes, split_unallocated_bytes(n)
      PROVE  Clean'
  <2>1. CASE UNCHANGED <<stack, slots>>
    BY <1>0, <2>1
  <2>2. CASE SetTop(carve(Top, n)) /\ \A s \in Slots : slots'[s] \in {slots[s], Foreign}
    <3> DEFINE p == carve(Top, n)
    <3>1. stack # <<>>
      BY <1>6 DEF split_unallocated_bytes, Inv, Chain
    <3>2. p.base = Top.base /\ p.len = Top.len
      BY <3>1, TopFacts DEF carve, Arena
    <3>3. stack' = [stack EXCEPT ![Len(stack)] = p] /\ Top = stack[Len(stack)]
      BY <2>2 DEF SetTop, Top
    <3> HIDE DEF p
    <3>4. \A s : Owned(stack, s) => Owned(stack', s)
      BY <1>2, <3>1, <3>2, <3>3, GrowingTopOwned DEF allocated
    <3> QED BY <1>1, <2>2, <3>4 DEF Clean
  <2>3. \/ UNCHANGED <<stack, slots>>
        \/ SetTop(carve(Top, n)) /\ \A s \in Slots : slots'[s] \in {slots[s], Foreign}
    BY <1>2, <1>6 DEF split_unallocated_bytes
  <2> QED BY <2>1, <2>2, <2>3
<1>7. ASSUME NEW n, stack # <<>>, OpenScope(n)
      PROVE  Clean'
  <2> DEFINE p == carve(Top, n)
             u == [stack EXCEPT ![Len(stack)] = p]
             b == NewArena(Top.next, n, n)
  <2>1. stack' = Append(u, b) /\ slots' = slots /\ Top = stack[Len(stack)]
    BY <1>7 DEF OpenScope, Top
  <2>2. p.base = Top.base /\ p.len = Top.len
    BY <1>7, TopFacts DEF carve, Arena
  <2>3. Len(u) \in Nat /\ Len(stack') = Len(u) + 1 /\ \A i \in 1..Len(u) : stack'[i] = u[i]
    BY <1>2, <2>1
  <2> HIDE DEF p, b
  <2>4. \A s : Owned(stack, s) => Owned(u, s)
    BY <1>2, <1>7, <2>1, <2>2, GrowingTopOwned DEF allocated
  <2> HIDE DEF u
  <2>5. \A s : Owned(u, s) => Owned(stack', s)
    BY <2>3 DEF Owned
  <2> QED BY <2>1, <2>4, <2>5 DEF Clean
<1>8. ASSUME NEW n \in Sizes, scope(n) \/ dyn_scope(n)
      PROVE  Clean'
  BY <1>0, <1>7, <1>8 DEF scope, dyn_scope
<1>9. CASE reset
  <2> DEFINE a == [reset_to_start(Top) EXCEPT !.generation = (@ + 1) % U32, !.resets = @ + 1]
  <2>1. stack # <<>> /\ SetTop(a) /\ slots' = policy(Top)
    BY <1>9 DEF reset
  <2>2. stack' = [stack EXCEPT ![Len(stack)] = a] /\ Top = stack[Len(stack)]
    BY <2>1 DEF SetTop, Top
  <2>3. \A s \in Slots : slots'[s] \in Vals => slots[s] \in Vals /\ s \notin allocated(Top)
    BY <1>1, <2>1 DEF policy
  <2> HIDE DEF a
  <2> QED BY <1>2, <2>1, <2>2, <2>3, SetTopOwned DEF Clean
<1>10. CASE drop
  <2>1. stack # <<>> /\ slots' = policy(Top)
    BY <1>10 DEF drop
  <2>2. /\ Len(stack') = Len(stack) - 1 /\ Len(stack) \in Nat
        /\ \A i \in 1..Len(stack') : stack'[i].base = stack[i].base /\ stack'[i].len = stack[i].len
    BY <1>2, <1>10, ChainPop DEF drop, Inv, Top
  <2>3. \A s \in Slots : slots'[s] \in Vals => slots[s] \in Vals /\ s \notin allocated(Top)
    BY <1>1, <2>1 DEF policy
  <2>4. ASSUME NEW s, Owned(stack, s), s \notin allocated(Top)
        PROVE  Owned(stack', s)
    <3>1. PICK i \in 1..Len(stack) : s \in allocated(stack[i])
      BY <2>4 DEF Owned
    <3>2. i # Len(stack)
      BY <2>4, <3>1 DEF Top
    <3>3. i \in 1..Len(stack')
      BY <2>2, <3>2
    <3>4. allocated(stack'[i]) = allocated(stack[i])
      BY <2>2, <3>3 DEF allocated
    <3> QED BY <3>1, <3>3, <3>4 DEF Owned
  <2> QED BY <2>3, <2>4 DEF Clean
<1>11. ASSUME NEW n \in Sizes, NEW v \in Vals, overwrite_const(n, v)
       PROVE  Clean'
  <2>1. n \in Nat /\ stack # <<>>
    BY <1>2, <1>11, ArenaAssumption DEF overwrite_const
  <2> QED BY <1>0, <1>3, <1>11, <2>1 DEF overwrite_const
<1>12. ASSUME NEW t \in tokens, NEW v \in Vals, overwrite(t, v)
       PROVE  Clean'
  <2>1. t.index \in Nat
    BY DEF Inv, TypeOK, Token
  <2>2. stack # <<>> /\ Top.len \in Nat
    BY <1>12, TopFacts, ArenaFields DEF overwrite
  <2>3. CASE UNCHANGED slots
    BY <1>0, <1>12, <2>3 DEF overwrite
  <2>4. CASE check_token(t) = "ok" /\ WriteSlot(t.index, v)
    <3>1. t.index < Top.len
      BY <2>1, <2>2, <2>4 DEF check_token
    <3> QED BY <1>3, <1>12, <2>1, <2>2, <2>4, <3>1 DEF overwrite
  <2> QED BY <1>12, <2>3, <2>4 DEF overwrite
<1>13. ASSUME NEW n \in Sizes, checked_idx(n) \/ get_const(n)
       PROVE  Clean'
  BY <1>0, <1>13 DEF checked_idx, get_const
<1>14. ASSUME NEW t \in tokens, get(t)
       PROVE  Clean'
  BY <1>0, <1>14 DEF get
<1>15. CASE UNCHANGED vars
  BY <1>0, <1>15 DEF vars
<1> QED
  BY <1>4, <1>5, <1>6, <1>8, <1>9, <1>10, <1>11, <1>12, <1>13, <1>14, <1>15 DEF Next

----------------------------------------------------------------------------
(* The theorems.                                                           *)

\* The state of the arenas keeps its types: no count of a carve, a drop or a
\* reset ever goes below zero.
THEOREM TypeCorrect == Spec => []TypeOK
<1>1. Inv => TypeOK
  BY DEF Inv
<1> QED BY <1>1, SpecInv, PTL

\* The slot accounting of scopes is exact, for any nesting, any sizes and any
\* order of allocations, splits, resets and drops: what drop adds back to the
\* parent's pointer and count is what scope took.
THEOREM AlwaysNested == Spec => []Nested
<1>1. Inv => Nested
  <2> SUFFICES ASSUME Inv PROVE Nested
    OBVIOUS
  <2>1. Len(stack) \in Nat
    BY DEF Inv, Chain
  <2>2. \A i \in 1..Len(stack) - 1 : stack[i].base + stack[i].len <= stack[i + 1].base
    <3>1. ASSUME NEW i \in 1..Len(stack) - 1
          PROVE  Inside(stack[i + 1], stack[i])
      BY <2>1 DEF Inv, Chain
    <3> QED BY <3>1 DEF Inside
  <2> QED BY <2>2 DEF Inv, Chain, Nested
<1> QED BY <1>1, SpecInv, PTL

\* No slot is in two live arenas, and no pointer the top arena accepts reaches
\* an allocated slot of an arena below it.
THEOREM NoSlotShared == Spec => []NoAliasing
<1>1. Inv => NoAliasing
  <2> SUFFICES ASSUME Inv PROVE NoAliasing
    OBVIOUS
  <2>1. ASSUME NEW i \in 1..Len(stack), NEW j \in 1..Len(stack), i < j
        PROVE  \A s \in allocated(stack[i]) : s \in Nat /\ s < stack[j].base
    <3>1. Inside(stack[j], stack[i]) /\ stack[i] \in Arena /\ stack[j] \in Arena
      BY <2>1 DEF Inv, Chain
    <3>2. stack[i].base \in Nat /\ stack[i].len \in Nat /\ stack[j].base \in Nat
      BY <3>1, ArenaFields
    <3>3. stack[i].base + stack[i].len <= stack[j].base
      BY <3>1 DEF Inside
    <3> QED BY <3>2, <3>3 DEF allocated
  <2>2. \A j \in 1..Len(stack) : \A s \in allocated(stack[j]) : s \in Nat /\ s >= stack[j].base
    <3>1. ASSUME NEW j \in 1..Len(stack) PROVE stack[j].base \in Nat /\ stack[j].len \in Nat
      BY ArenaFields DEF Inv, Chain
    <3> QED BY <3>1 DEF allocated
  <2>3. \A j \in 1..Len(stack) : stack[j].base \in Nat
    BY ArenaFields DEF Inv, Chain
  <2>4. ASSUME NEW i \in 1..Len(stack), NEW j \in 1..Len(stack), i # j
        PROVE  allocated(stack[i]) \cap allocated(stack[j]) = {}
    <3>1. CASE i < j
      BY <2>1, <2>2, <2>3, <3>1
    <3>2. CASE j < i
      BY <2>1, <2>2, <2>3, <3>2
    <3> QED BY <2>4, <3>1, <3>2
  <2>5. ASSUME NEW i \in 1..Len(stack) - 1, NEW s \in allocated(stack[i])
        PROVE  ~contains_slot(Top, s)
    <3>1. i \in 1..Len(stack) /\ Len(stack) \in 1..Len(stack) /\ i < Len(stack)
      BY DEF Inv, Chain
    <3>2. s \in Nat /\ s < Top.base /\ Top.base \in Nat
      BY <2>1, <2>3, <3>1 DEF Top
    <3> QED BY <3>2 DEF contains_slot
  <2> QED BY <2>4, <2>5 DEF NoAliasing
<1> QED BY <1>1, SpecInv, PTL

\* A token kept over a reset, or used on another arena, is refused, as long as
\* the generation has not wrapped.
THEOREM StaleTokensAlwaysRefused ==
  ASSUME MaxResets < U32
  PROVE  Spec => []StaleTokensRefused
<1>1. Init => Counted
  BY DEF Init, Counted
<1>2. Inv /\ Counted /\ [Next]_vars => Counted'
  BY StepCounted
<1>3. Inv /\ Counted => StaleTokensRefused
  <2> SUFFICES ASSUME Inv, Counted, stack # <<>>, NEW t \in tokens, check_token(t) = "ok"
               PROVE  t.brand = Top.brand /\ t.resets = Top.resets
    BY DEF StaleTokensRefused
  <2>1. t.brand = Top.brand /\ t.generation = Top.generation
    BY DEF check_token
  <2> QED BY <2>1, TopCounted DEF Counted
<1> QED BY <1>1, <1>2, <1>3, SpecInv, PTL DEF Spec

\* With the zeroizing configuration no value of a caller is left in a slot
\* outside the live arenas' allocated slots, for callers who leave an arena
\* alone once they split it.
THEOREM ZeroizeAlwaysClean ==
  ASSUME CarefulCallers
  PROVE  Spec => []ZeroizeLeavesNoValue
<1> DEFINE ZClean == config = "Zeroize" => Clean
<1>1. Init => ZClean
  BY ArenaAssumption DEF Init, Clean
<1>2. Inv /\ ZClean /\ [Next]_vars => ZClean'
  <2>1. [Next]_vars => config' = config
    BY DEF Next, vars, new, alloc, overwrite_const, checked_idx, get_const,
           split_unallocated_bytes, scope, dyn_scope, OpenScope, get, overwrite, reset, drop
  <2> QED BY <2>1, StepClean
<1>3. ZClean => ZeroizeLeavesNoValue
  BY DEF Clean, Owned, ZeroizeLeavesNoValue
<1> HIDE DEF ZClean
<1> QED BY <1>1, <1>2, <1>3, SpecInv, PTL DEF Spec

----------------------------------------------------------------------------
(* The stack of lists.                                                     *)

\* What the abstract stack sees of an arena, of a stack of them and of tokens.
Items(a, sl) == [i \in 1..a.len |-> sl[a.base + i - 1]]
ListOf(a, sl) ==
  [id |-> a.brand, epoch |-> a.resets, items |-> Items(a, sl), room |-> a.left,
   capacity |-> a.capacity]
ListsOf(st, sl) == [i \in 1..Len(st) |-> ListOf(st[i], sl)]
HandlesOf(ts) == {[id |-> t.brand, epoch |-> t.resets, index |-> t.index] : t \in ts}

\* A function with one value replaced.
Put(f, x, y) == [f EXCEPT ![x] = y]

\* Every arena lies in the buffer.
Fits(st) == \A i \in 1..Len(st) : st[i].base + st[i].capacity <= Memory

MapInv == Inv /\ Counted /\ Fits(stack)

\* No arena is made with a brand, and none reset to a generation, that wrapped.
NothingWraps == MaxBrands < U32 /\ MaxResets < U32

----------------------------------------------------------------------------
(* The items of one arena.                                                 *)

\* An arena in the buffer has one item per slot it allocated.
LEMMA ItemsRead ==
  ASSUME NEW a \in Arena, Accounted(a), a.base + a.capacity <= Memory,
         NEW sl \in [Slots -> Contents]
  PROVE  /\ Items(a, sl) \in Seq(Contents)
         /\ Len(Items(a, sl)) = a.len
         /\ \A i \in 1..a.len : Items(a, sl)[i] = sl[a.base + i - 1]
         /\ \A i \in 0..a.len - 1 : a.base + i \in Slots
<1>1. /\ a.base \in Nat /\ a.len \in Nat /\ a.next \in Nat /\ a.left \in Nat
      /\ a.capacity \in Nat /\ Memory \in Nat
  BY ArenaFields, ArenaAssumption
<1>2. a.base + a.len <= Memory
  BY <1>1 DEF Accounted
<1>3. \A i \in 0..a.len - 1 : a.base + i \in Slots
  BY <1>1, <1>2 DEF Slots
<1>4. ASSUME NEW i \in 1..a.len PROVE sl[a.base + i - 1] \in Contents
  <2>1. i - 1 \in 0..a.len - 1 /\ a.base + i - 1 = a.base + (i - 1)
    BY <1>1
  <2> QED BY <1>3, <2>1
<1>5. Items(a, sl) \in [1..a.len -> Contents]
  BY <1>4 DEF Items
<1>6. Items(a, sl) \in Seq(Contents) /\ Len(Items(a, sl)) = a.len
  BY <1>1, <1>5
<1> QED BY <1>3, <1>6 DEF Items

\* Writing the free slot behind an arena's items, and taking it, appends an item.
LEMMA ItemsAppend ==
  ASSUME NEW a \in Arena, Accounted(a), a.base + a.capacity <= Memory,
         NEW sl \in [Slots -> Contents], NEW v \in Contents,
         a.left > 0, Contiguous(a)
  PROVE  Items(advance(a), [sl EXCEPT ![a.next] = v]) = Append(Items(a, sl), v)
<1> DEFINE p == advance(a)
           sm == [sl EXCEPT ![a.next] = v]
<1>1. /\ a.base \in Nat /\ a.len \in Nat /\ a.next \in Nat /\ a.left \in Nat
      /\ a.capacity \in Nat /\ Memory \in Nat
      /\ a.next = a.base + a.len /\ a.next + a.left = a.base + a.capacity
  BY ArenaFields, ArenaAssumption DEF Contiguous, Accounted
<1>2. p \in Arena /\ Accounted(p) /\ p.base = a.base /\ p.capacity = a.capacity /\ p.len = a.len + 1
  BY AdvanceAccounts
<1>3. a.next \in Slots /\ sm \in [Slots -> Contents]
  BY <1>1 DEF Slots
<1> HIDE DEF p
<1>4. /\ Items(p, sm) \in Seq(Contents) /\ Len(Items(p, sm)) = a.len + 1
      /\ \A i \in 1..a.len + 1 : Items(p, sm)[i] = sm[a.base + i - 1]
  <2> HIDE DEF sm
  <2>1. p.base + p.capacity <= Memory
    BY <1>2
  <2>2. /\ Items(p, sm) \in Seq(Contents) /\ Len(Items(p, sm)) = p.len
        /\ \A i \in 1..p.len : Items(p, sm)[i] = sm[p.base + i - 1]
    BY <1>2, <1>3, <2>1, ItemsRead
  <2> QED BY <1>2, <2>2
<1>5. /\ Items(a, sl) \in Seq(Contents) /\ Len(Items(a, sl)) = a.len
      /\ \A i \in 1..a.len : Items(a, sl)[i] = sl[a.base + i - 1]
      /\ \A i \in 0..a.len - 1 : a.base + i \in Slots
  BY ItemsRead
<1> DEFINE q == Append(Items(a, sl), v)
<1>6. /\ q \in Seq(Contents) /\ Len(q) = a.len + 1
      /\ \A i \in 1..a.len : q[i] = Items(a, sl)[i]
      /\ q[a.len + 1] = v
  BY <1>5, AppendProperties
<1>7. ASSUME NEW i \in 1..a.len + 1 PROVE Items(p, sm)[i] = q[i]
  <2>1. CASE i = a.len + 1
    <3>1. a.base + i - 1 = a.next
      BY <1>1, <2>1
    <3>2. sm[a.next] = v
      BY <1>3
    <3> QED BY <1>4, <1>6, <2>1, <3>1, <3>2
  <2>2. CASE i # a.len + 1
    <3>1. i \in 1..a.len /\ i - 1 \in 0..a.len - 1 /\ a.base + i - 1 = a.base + (i - 1)
      BY <1>1, <2>2
    <3>2. a.base + i - 1 \in Slots /\ a.base + i - 1 # a.next
      BY <1>1, <1>5, <3>1
    <3>3. sm[a.base + i - 1] = sl[a.base + i - 1]
      BY <3>2
    <3> QED BY <1>4, <1>5, <1>6, <3>1, <3>3
  <2> QED BY <2>1, <2>2
<1> HIDE DEF q, sm
<1>8. Items(p, sm) = q
  BY <1>4, <1>6, <1>7, SeqEqual
<1> QED BY <1>8 DEF p, q, sm

\* Writing an allocated slot changes its item.
LEMMA ItemsWrite ==
  ASSUME NEW a \in Arena, Accounted(a), a.base + a.capacity <= Memory,
         NEW sl \in [Slots -> Contents], NEW c \in Contents, NEW n \in Nat, n < a.len
  PROVE  Items(a, Put(sl, a.base + n, c)) = Put(Items(a, sl), n + 1, c)
<1> DEFINE sm == [sl EXCEPT ![a.base + n] = c]
           q == [Items(a, sl) EXCEPT ![n + 1] = c]
<1>1. a.base \in Nat /\ a.len \in Nat
  BY ArenaFields
<1>2. sm \in [Slots -> Contents]
  OBVIOUS
<1>3. /\ Items(a, sm) \in Seq(Contents) /\ Len(Items(a, sm)) = a.len
      /\ \A i \in 1..a.len : Items(a, sm)[i] = sm[a.base + i - 1]
  BY <1>2, ItemsRead
<1>4. /\ Items(a, sl) \in Seq(Contents) /\ Len(Items(a, sl)) = a.len
      /\ \A i \in 1..a.len : Items(a, sl)[i] = sl[a.base + i - 1]
      /\ \A i \in 0..a.len - 1 : a.base + i \in Slots
  BY ItemsRead
<1>5. /\ q \in Seq(Contents) /\ Len(q) = a.len
      /\ \A i \in 1..a.len : q[i] = IF i = n + 1 THEN c ELSE Items(a, sl)[i]
  BY <1>4
<1>6. ASSUME NEW i \in 1..a.len PROVE Items(a, sm)[i] = q[i]
  <2>1. i - 1 \in 0..a.len - 1 /\ a.base + i - 1 = a.base + (i - 1)
    BY <1>1
  <2>2. a.base + i - 1 \in Slots /\ (a.base + i - 1 = a.base + n <=> i = n + 1)
    BY <1>1, <1>4, <2>1
  <2>3. sm[a.base + i - 1] = IF i = n + 1 THEN c ELSE sl[a.base + i - 1]
    BY <2>2
  <2> QED BY <1>3, <1>4, <1>5, <2>3
<1> HIDE DEF q, sm
<1>7. Items(a, sm) = q
  BY <1>3, <1>5, <1>6, SeqEqual
<1> QED BY <1>7 DEF q, sm, Put

----------------------------------------------------------------------------
(* The lists of a stack.                                                   *)

LEMMA ListsAre ==
  ASSUME NEW st, Len(st) \in Nat, NEW sl
  PROVE  /\ Len(ListsOf(st, sl)) = Len(st)
         /\ \A i \in 1..Len(st) : ListsOf(st, sl)[i] = ListOf(st[i], sl)
<1> DEFINE n == Len(st)
<1>1. ListsOf(st, sl) = [i \in 1..n |-> ListOf(st[i], sl)]
  BY DEF ListsOf
<1> HIDE DEF n
<1>2. n \in Nat
  BY DEF n
<1>3. Len(ListsOf(st, sl)) = n
  BY <1>1, <1>2
<1>4. \A i \in 1..n : ListsOf(st, sl)[i] = ListOf(st[i], sl)
  BY <1>1
<1> QED BY <1>3, <1>4 DEF n

LEMMA ListsTyped ==
  ASSUME NEW st, Len(st) \in Nat, NEW sl, NEW T,
         \A i \in 1..Len(st) : ListOf(st[i], sl) \in T
  PROVE  ListsOf(st, sl) \in Seq(T)
<1> DEFINE n == Len(st)
<1>1. ListsOf(st, sl) = [i \in 1..n |-> ListOf(st[i], sl)]
  BY DEF ListsOf
<1>2. n \in Nat /\ \A i \in 1..n : ListOf(st[i], sl) \in T
  OBVIOUS
<1> HIDE DEF n
<1>3. ListsOf(st, sl) \in [1..n -> T]
  BY <1>1, <1>2
<1> QED BY <1>2, <1>3

\* The slots an arena reads are its own.
LEMMA ItemsSame ==
  ASSUME NEW a \in Arena, NEW sl, NEW sm,
         \A s \in Nat : s < a.base + a.len => sm[s] = sl[s]
  PROVE  Items(a, sm) = Items(a, sl)
<1>1. a.base \in Nat /\ a.len \in Nat
  BY ArenaFields
<1>2. ASSUME NEW i \in 1..a.len PROVE sm[a.base + i - 1] = sl[a.base + i - 1]
  BY <1>1
<1> QED BY <1>2 DEF Items

\* Whatever happens in slots from the top arena's base on, the lists below stay.
LEMMA ListsBelow ==
  ASSUME NEW st, Chain(st), NEW sl, NEW sm,
         \A s \in Nat : s < st[Len(st)].base => sm[s] = sl[s],
         NEW i \in 1..Len(st) - 1
  PROVE  ListOf(st[i], sm) = ListOf(st[i], sl)
<1> DEFINE n == Len(st)
<1>1. st \in Seq(Arena) /\ n \in Nat /\ i \in 1..n /\ n \in 1..n /\ i < n
  BY DEF Chain
<1>2. Inside(st[n], st[i]) /\ st[i] \in Arena /\ st[n] \in Arena
  BY <1>1 DEF Chain
<1>3. st[i].base \in Nat /\ st[i].len \in Nat /\ st[n].base \in Nat
  BY <1>2, ArenaFields
<1>4. \A s \in Nat : s < st[i].base + st[i].len => sm[s] = sl[s]
  BY <1>2, <1>3 DEF Inside
<1>5. Items(st[i], sm) = Items(st[i], sl)
  BY <1>2, <1>4, ItemsSame
<1> QED BY <1>5 DEF ListOf

\* So they do when the top arena changes too.
LEMMA ListsSetTop ==
  ASSUME NEW st, Chain(st), st # <<>>, NEW a, NEW sl, NEW sm,
         \A s \in Nat : s < st[Len(st)].base => sm[s] = sl[s]
  PROVE  ListsOf(Put(st, Len(st), a), sm) = Put(ListsOf(st, sl), Len(st), ListOf(a, sm))
<1> DEFINE n == Len(st)
           u == [st EXCEPT ![n] = a]
<1>1. st \in Seq(Arena) /\ n \in Nat /\ n > 0
  BY DEF Chain
<1>2. Len(u) = n /\ \A i \in 1..n : u[i] = IF i = n THEN a ELSE st[i]
  BY <1>1
<1>3. \A i \in 1..n - 1 : ListOf(st[i], sm) = ListOf(st[i], sl)
  BY ListsBelow
<1> HIDE DEF u
<1>4. ListsOf(u, sm) = [i \in 1..n |-> IF i = n THEN ListOf(a, sm) ELSE ListOf(st[i], sl)]
  <2>1. ListsOf(u, sm) = [i \in 1..n |-> ListOf(u[i], sm)]
    BY <1>2 DEF ListsOf
  <2>2. \A i \in 1..n : ListOf(u[i], sm) = IF i = n THEN ListOf(a, sm) ELSE ListOf(st[i], sl)
    BY <1>1, <1>2, <1>3
  <2> QED BY <2>1, <2>2
<1>5. [ListsOf(st, sl) EXCEPT ![n] = ListOf(a, sm)]
        = [i \in 1..n |-> IF i = n THEN ListOf(a, sm) ELSE ListOf(st[i], sl)]
  BY DEF ListsOf
<1> QED BY <1>4, <1>5 DEF u, Put

\* And all stay when only slots behind the top arena's items change.
LEMMA ListsSame ==
  ASSUME NEW st, Chain(st), NEW sl, NEW sm,
         st # <<>> => \A s \in Nat : s < st[Len(st)].base + st[Len(st)].len => sm[s] = sl[s]
  PROVE  ListsOf(st, sm) = ListsOf(st, sl)
<1> DEFINE n == Len(st)
<1>1. st \in Seq(Arena) /\ n \in Nat
  BY DEF Chain
<1>2. ASSUME NEW i \in 1..n PROVE ListOf(st[i], sm) = ListOf(st[i], sl)
  <2>1. n \in 1..n /\ st[n] \in Arena /\ st # <<>>
    BY <1>1
  <2>2. st[n].base \in Nat /\ st[n].len \in Nat
    BY <2>1, ArenaFields
  <2>3. CASE i = n
    <3>1. Items(st[n], sm) = Items(st[n], sl)
      BY <2>1, ItemsSame
    <3> QED BY <2>3, <3>1 DEF ListOf
  <2>4. CASE i # n
    <3>1. i \in 1..n - 1
      BY <1>1, <2>4
    <3>2. \A s \in Nat : s < st[n].base => sm[s] = sl[s]
      BY <2>1, <2>2
    <3> QED BY <3>1, <3>2, ListsBelow
  <2> QED BY <2>3, <2>4
<1> QED BY <1>2 DEF ListsOf

\* A new arena on top adds a list.
LEMMA ListsPush ==
  ASSUME NEW st \in Seq(Arena), NEW b \in Arena, NEW sl
  PROVE  ListsOf(Append(st, b), sl) = Append(ListsOf(st, sl), ListOf(b, sl))
<1> DEFINE T == {ListOf(st[i], sl) : i \in 1..Len(st)} \cup {ListOf(b, sl)}
           u == Append(st, b)
           p == ListsOf(u, sl)
           q == Append(ListsOf(st, sl), ListOf(b, sl))
<1>1. /\ Len(st) \in Nat /\ Len(u) = Len(st) + 1 /\ u[Len(st) + 1] = b
      /\ \A i \in 1..Len(st) : u[i] = st[i]
  OBVIOUS
<1>2. /\ Len(ListsOf(st, sl)) = Len(st)
      /\ ListsOf(st, sl) \in Seq(T)
      /\ \A i \in 1..Len(st) : ListsOf(st, sl)[i] = ListOf(st[i], sl)
  <2>1. \A i \in 1..Len(st) : ListOf(st[i], sl) \in T
    OBVIOUS
  <2> HIDE DEF T
  <2>2. ListsOf(st, sl) \in Seq(T)
    BY <1>1, <2>1, ListsTyped
  <2> QED BY <1>1, <2>2, ListsAre
<1>3. ListOf(b, sl) \in T
  OBVIOUS
<1> HIDE DEF T, u
<1>4. /\ q \in Seq(T) /\ Len(q) = Len(st) + 1
      /\ \A i \in 1..Len(st) : q[i] = ListOf(st[i], sl)
      /\ q[Len(st) + 1] = ListOf(b, sl)
  BY <1>2, <1>3, AppendProperties
<1>5. /\ Len(p) = Len(st) + 1
      /\ \A i \in 1..Len(st) + 1 : p[i] = ListOf(u[i], sl)
  <2>1. Len(u) \in Nat
    BY <1>1
  <2>2. Len(ListsOf(u, sl)) = Len(u) /\ \A i \in 1..Len(u) : ListsOf(u, sl)[i] = ListOf(u[i], sl)
    BY <2>1, ListsAre
  <2> QED BY <1>1, <2>2
<1>6. \A i \in 1..Len(st) + 1 : p[i] = q[i]
  BY <1>1, <1>4, <1>5
<1>7. p \in Seq(T)
  <2>1. Len(u) \in Nat
    BY <1>1
  <2>2. \A i \in 1..Len(u) : ListOf(u[i], sl) \in T
    BY <1>1, <1>3 DEF T
  <2> QED BY <2>1, <2>2, ListsTyped
<1> HIDE DEF p, q
<1>8. p = q
  BY <1>4, <1>5, <1>6, <1>7, SeqEqual
<1> QED BY <1>8 DEF p, q, u

\* A stack without its top, whose parent has its slots back, and the same for lists.
Popped(st) ==
  [i \in 1..Len(st) - 1 |->
     IF i = Len(st) - 1 THEN uncarve(st[i], st[Len(st)].taken) ELSE st[i]]
Restored(L, k) ==
  [i \in 1..Len(L) - 1 |-> IF i = Len(L) - 1 THEN [L[i] EXCEPT !.room = @ + k] ELSE L[i]]

\* With the top arena gone, its parent's list has its room again.
LEMMA ListsDrop ==
  ASSUME NEW st, Chain(st), st # <<>>, NEW sl, NEW sm,
         \A s \in Nat : s < st[Len(st)].base => sm[s] = sl[s]
  PROVE  ListsOf(Popped(st), sm) = Restored(ListsOf(st, sl), st[Len(st)].capacity)
<1> DEFINE n == Len(st)
           k == st[n].capacity
           t == Popped(st)
<1>1. st \in Seq(Arena) /\ n \in Nat /\ n - 1 \in Nat
  BY DEF Chain
<1>2. Len(t) = n - 1 /\ \A i \in 1..n - 1 : t[i] = IF i = n - 1 THEN uncarve(st[i], st[n].taken) ELSE st[i]
  BY <1>1, ChainPop DEF Popped
<1> HIDE DEF t
<1>3. ASSUME NEW i \in 1..n - 1
      PROVE  /\ ListOf(st[i], sm) = ListOf(st[i], sl)
             /\ ListsOf(st, sl)[i] = ListOf(st[i], sl)
             /\ st[i] \in Arena
  BY <1>1, ListsBelow, ListsAre
<1>4. ASSUME NEW i \in 1..n - 1, i = n - 1
      PROVE  ListOf(t[i], sm) = [ListsOf(st, sl)[i] EXCEPT !.room = @ + k]
  <2>1. st[n].taken = k
    <3>1. i \in 1..Len(st) - 1 /\ n = i + 1
      BY <1>1, <1>4
    <3>2. st[i + 1].taken = st[i + 1].capacity
      BY <3>1 DEF Chain
    <3> QED BY <3>1, <3>2
  <2>2. t[i] = [st[i] EXCEPT !.next = @ - k, !.left = @ + k]
    BY <1>2, <1>4, <2>1 DEF uncarve
  <2>3. st[i] \in Arena
    BY <1>3
  <2> HIDE DEF k
  <2>4. /\ t[i].brand = st[i].brand /\ t[i].resets = st[i].resets
        /\ t[i].base = st[i].base /\ t[i].len = st[i].len
        /\ t[i].left = st[i].left + k /\ t[i].capacity = st[i].capacity
    BY <2>2, <2>3 DEF Arena
  <2>5. Items(t[i], sm) = Items(st[i], sm)
    BY <2>4 DEF Items
  <2>6. ListOf(t[i], sm) = [ListOf(st[i], sm) EXCEPT !.room = @ + k]
    BY <2>4, <2>5 DEF ListOf
  <2> QED BY <1>3, <2>6
<1>5. ASSUME NEW i \in 1..n - 1, i # n - 1
      PROVE  ListOf(t[i], sm) = ListsOf(st, sl)[i]
  BY <1>2, <1>3, <1>5
<1> HIDE DEF k
<1>6. ListsOf(t, sm) = [i \in 1..n - 1 |-> ListOf(t[i], sm)]
  BY <1>2 DEF ListsOf
<1>7. \A i \in 1..n - 1 :
        ListOf(t[i], sm) = IF i = n - 1 THEN [ListsOf(st, sl)[i] EXCEPT !.room = @ + k]
                           ELSE ListsOf(st, sl)[i]
  BY <1>4, <1>5
<1>8. ListsOf(t, sm)
        = [i \in 1..n - 1 |-> IF i = n - 1 THEN [ListsOf(st, sl)[i] EXCEPT !.room = @ + k]
                              ELSE ListsOf(st, sl)[i]]
  BY <1>6, <1>7
<1>9. Len(ListsOf(st, sl)) = n
  BY <1>1, ListsAre
<1>10. ListsOf(t, sm) = Restored(ListsOf(st, sl), k)
  BY <1>8, <1>9 DEF Restored
<1> QED BY <1>10 DEF k, t

----------------------------------------------------------------------------
(* Every arena lies in the buffer.                                         *)

\* The top arena moves, and its region stays.
LEMMA FitsSetTop ==
  ASSUME Inv, Fits(stack), stack # <<>>, NEW a, SetTop(a),
         a.base = Top.base, a.capacity = Top.capacity
  PROVE  Fits(stack')
<1>1. Len(stack') = Len(stack) /\ Len(stack) \in Nat
  BY DEF SetTop, Inv, Chain
<1>2. \A i \in 1..Len(stack) : stack'[i] = IF i = Len(stack) THEN a ELSE stack[i]
  BY DEF SetTop, Inv, Chain
<1> QED BY <1>1, <1>2 DEF Fits, Top

LEMMA FitsPush ==
  ASSUME Inv, Fits(stack), stack # <<>>, NEW n \in Nat, n <= Top.left, OpenScope(n)
  PROVE  Fits(stack')
<1> DEFINE p == carve(Top, n)
           u == [stack EXCEPT ![Len(stack)] = p]
           b == NewArena(Top.next, n, n)
<1>1. stack \in Seq(Arena) /\ Len(stack) \in Nat /\ Len(stack) > 0 /\ Top \in Arena /\ Accounted(Top)
  BY TopFacts DEF Inv, Chain
<1>2. stack' = Append(u, b)
  BY DEF OpenScope
<1>3. p.base = Top.base /\ p.capacity = Top.capacity
  BY <1>1, CarveAccounts
<1>4. b.base = Top.next /\ b.capacity = n
  BY DEF NewArena
<1> HIDE DEF p, b
<1>5. /\ Len(stack') = Len(stack) + 1 /\ stack'[Len(stack) + 1] = b
      /\ \A i \in 1..Len(stack) : stack'[i] = IF i = Len(stack) THEN p ELSE stack[i]
  BY <1>1, <1>2
<1>6. b.base + b.capacity <= Memory
  <2>1. Top.base + Top.capacity <= Memory
    BY <1>1 DEF Fits, Top
  <2>2. /\ Top.base \in Nat /\ Top.next \in Nat /\ Top.left \in Nat /\ Top.capacity \in Nat
        /\ Memory \in Nat /\ Top.next + Top.left = Top.base + Top.capacity
    BY <1>1, ArenaFields, ArenaAssumption DEF Accounted
  <2> QED BY <1>4, <2>1, <2>2
<1>7. ASSUME NEW i \in 1..Len(stack) + 1
      PROVE  stack'[i].base + stack'[i].capacity <= Memory
  BY <1>1, <1>3, <1>5, <1>6 DEF Fits, Top
<1> QED BY <1>5, <1>7 DEF Fits

LEMMA StepFits ==
  ASSUME Inv, Fits(stack), [Next]_vars
  PROVE  Fits(stack')
<1>0. ASSUME UNCHANGED stack PROVE Fits(stack')
  BY <1>0
<1>1. ASSUME NEW count \in Counts, NEW buf \in Buffers, new(count, buf)
      PROVE  Fits(stack')
  <2>1. CASE UNCHANGED <<stack, brands>>
    BY <1>0, <2>1
  <2>2. CASE stack' = <<NewArena(0, count, 0)>> /\ buf.len >= count
    <3>1. /\ Len(stack') = 1 /\ stack'[1].base = 0 /\ stack'[1].capacity = count
      BY <2>2 DEF NewArena
    <3>2. buf.len <= Memory /\ count <= Memory
      BY <2>2, ArenaAssumption
    <3>3. \A i \in 1..Len(stack') : i = 1
      BY <3>1
    <3>4. count \in Nat
      BY ArenaAssumption
    <3>5. 0 + count <= Memory
      BY <3>2, <3>4
    <3> QED BY <3>1, <3>3, <3>5 DEF Fits
  <2> QED BY <1>1, <2>1, <2>2 DEF new
<1>2. ASSUME NEW v \in Vals, alloc(v)
      PROVE  Fits(stack')
  <2>1. CASE UNCHANGED <<stack, tokens>>
    BY <1>0, <2>1
  <2>2. CASE SetTop(advance(Top)) /\ Top.left > 0
    <3>1. stack # <<>>
      BY <1>2 DEF alloc, Usable
    <3>2. advance(Top).base = Top.base /\ advance(Top).capacity = Top.capacity
      BY <2>2, <3>1, TopFacts, AdvanceAccounts
    <3> QED BY <2>2, <3>1, <3>2, FitsSetTop
  <2> QED BY <1>2, <2>1, <2>2 DEF alloc
<1>3. ASSUME NEW n \in Sizes, split_unallocated_bytes(n)
      PROVE  Fits(stack')
  <2>1. CASE UNCHANGED <<stack, slots>>
    BY <1>0, <2>1
  <2>2. CASE SetTop(carve(Top, n)) /\ n <= Top.left
    <3>1. stack # <<>> /\ n \in Nat
      BY <1>3, ArenaAssumption DEF split_unallocated_bytes, Inv, Chain
    <3>2. carve(Top, n).base = Top.base /\ carve(Top, n).capacity = Top.capacity
      BY <2>2, <3>1, TopFacts, CarveAccounts
    <3> QED BY <2>2, <3>1, <3>2, FitsSetTop
  <2> QED BY <1>3, <2>1, <2>2 DEF split_unallocated_bytes
<1>4. ASSUME NEW n \in Sizes, scope(n)
      PROVE  Fits(stack')
  <2>1. n \in Nat
    BY ArenaAssumption
  <2> QED BY <1>0, <1>4, <2>1, FitsPush DEF scope
<1>5. ASSUME NEW n \in Sizes, dyn_scope(n)
      PROVE  Fits(stack')
  <2> DEFINE m == IF n <= Top.left THEN n ELSE Top.left
  <2>1. stack # <<>> /\ OpenScope(m) /\ n \in Nat
    BY <1>5, ArenaAssumption DEF dyn_scope
  <2>2. Top.left \in Nat
    BY <2>1, TopFacts, ArenaFields
  <2>3. m \in Nat /\ m <= Top.left
    BY <2>1, <2>2
  <2> HIDE DEF m
  <2> QED BY <2>1, <2>3, FitsPush
<1>6. CASE reset
  <2> DEFINE a == [reset_to_start(Top) EXCEPT !.generation = (@ + 1) % U32, !.resets = @ + 1]
  <2>1. stack # <<>> /\ SetTop(a)
    BY <1>6 DEF reset
  <2>2. Top \in Arena
    BY <2>1, TopFacts
  <2>3. a.base = Top.base /\ a.capacity = Top.capacity
    BY <2>2 DEF reset_to_start, Arena
  <2> HIDE DEF a
  <2> QED BY <2>1, <2>3, FitsSetTop
<1>7. CASE drop
  <2>1. stack \in Seq(Arena) /\ stack # <<>> /\ Len(stack) \in Nat
    BY <1>7 DEF drop, Inv, Chain
  <2>2. Len(stack') = Len(stack) - 1
    BY <1>7, ChainPop DEF drop, Inv, Top
  <2>3. ASSUME NEW i \in 1..Len(stack')
        PROVE  stack'[i].base = stack[i].base /\ stack'[i].capacity = stack[i].capacity
               /\ i \in 1..Len(stack)
    <3>1. i \in 1..Len(stack) - 1
      BY <2>2
    <3>2. stack'[i] = uncarve(stack[i], Top.taken) \/ stack'[i] = stack[i]
      BY <1>7, <3>1 DEF drop
    <3>3. stack[i] \in Arena
      BY <2>1, <3>1
    <3>4. ASSUME NEW x \in Arena, NEW k
          PROVE  uncarve(x, k).base = x.base /\ uncarve(x, k).capacity = x.capacity
      BY DEF uncarve, Arena
    <3> QED BY <2>1, <3>1, <3>2, <3>3, <3>4
  <2> QED BY <2>3 DEF Fits
<1>8. ASSUME NEW n \in Sizes,
             \/ checked_idx(n) \/ get_const(n)
             \/ \E v \in Vals : overwrite_const(n, v)
      PROVE  Fits(stack')
  BY <1>0, <1>8 DEF checked_idx, get_const, overwrite_const
<1>9. ASSUME NEW t \in tokens, get(t) \/ \E v \in Vals : overwrite(t, v)
      PROVE  Fits(stack')
  BY <1>0, <1>9 DEF get, overwrite
<1>10. CASE UNCHANGED vars
  BY <1>0, <1>10 DEF vars
<1> QED BY <1>1, <1>2, <1>3, <1>4, <1>5, <1>6, <1>7, <1>8, <1>9, <1>10 DEF Next

----------------------------------------------------------------------------
(* What the abstract stack sees.                                           *)

LEMMA Views ==
  /\ Lists = ListsOf(stack, slots) /\ Handles = HandlesOf(tokens)
  /\ Lists' = ListsOf(stack', slots') /\ Handles' = HandlesOf(tokens')
<1>1. Lists = ListsOf(stack, slots) /\ Lists' = ListsOf(stack', slots')
  BY DEF Lists, ListsOf, ListOf, Items, as_slice
<1>2. Handles = HandlesOf(tokens) /\ Handles' = HandlesOf(tokens')
  BY DEF Handles, HandlesOf
<1> QED BY <1>1, <1>2

\* A step that leaves the arenas and what they allocated changes no list.
LEMMA SameLists ==
  ASSUME Inv, UNCHANGED stack,
         stack # <<>> => \A s \in Nat : s < Top.base + Top.len => slots'[s] = slots[s]
  PROVE  UNCHANGED Lists
<1>1. ListsOf(stack, slots') = ListsOf(stack, slots)
  BY ListsSame DEF Inv, Top
<1>2. Lists' = ListsOf(stack, slots')
  BY Views
<1> QED BY <1>1, <1>2, Views

\* The list a caller can use is that of the top arena.
LEMMA TopView ==
  ASSUME Inv, Fits(stack), stack # <<>>
  PROVE  /\ Lists # <<>> /\ Len(Lists) = Len(stack)
         /\ Scopes!Top = ListOf(Top, slots)
         /\ Scopes!Top.id = Top.brand /\ Scopes!Top.epoch = Top.resets
         /\ Scopes!Top.items = Items(Top, slots)
         /\ Scopes!Top.room = Top.left /\ Scopes!Top.capacity = Top.capacity
         /\ Items(Top, slots) \in Seq(Contents)
         /\ Len(Items(Top, slots)) = Top.len
         /\ \A i \in 1..Top.len : Items(Top, slots)[i] = slots[Top.base + i - 1]
         /\ Top.base + Top.capacity <= Memory
<1>1. Len(stack) \in Nat /\ Len(stack) > 0 /\ Top \in Arena /\ Accounted(Top)
  BY TopFacts
<1>2. Len(Lists) = Len(stack) /\ Lists[Len(stack)] = ListOf(Top, slots)
  <2>1. Len(ListsOf(stack, slots)) = Len(stack)
    BY <1>1, ListsAre
  <2>2. ListsOf(stack, slots)[Len(stack)] = ListOf(stack[Len(stack)], slots)
    BY <1>1, ListsAre
  <2> QED BY <2>1, <2>2, Views DEF Top
<1>3. Lists # <<>>
  BY <1>1, <1>2
<1>4. Scopes!Top = ListOf(Top, slots)
  BY <1>2 DEF Scopes!Top
<1>5. Top.base + Top.capacity <= Memory
  BY <1>1 DEF Fits, Top
<1>6. /\ Items(Top, slots) \in Seq(Contents) /\ Len(Items(Top, slots)) = Top.len
      /\ \A i \in 1..Top.len : Items(Top, slots)[i] = slots[Top.base + i - 1]
  BY <1>1, <1>5, ItemsRead DEF Inv, TypeOK
<1>7. /\ ListOf(Top, slots).id = Top.brand /\ ListOf(Top, slots).epoch = Top.resets
      /\ ListOf(Top, slots).items = Items(Top, slots)
      /\ ListOf(Top, slots).room = Top.left /\ ListOf(Top, slots).capacity = Top.capacity
  BY DEF ListOf
<1> QED BY <1>2, <1>3, <1>4, <1>5, <1>6, <1>7

\* Another top arena is another top list.
LEMMA ChangesTop ==
  ASSUME Inv, Fits(stack), stack # <<>>, NEW a, SetTop(a),
         \A s \in Nat : s < Top.base => slots'[s] = slots[s]
  PROVE  Scopes!ChangeTop(ListOf(a, slots'))
<1> DEFINE u == [stack EXCEPT ![Len(stack)] = a]
<1>1. ListsOf(u, slots') = [ListsOf(stack, slots) EXCEPT ![Len(stack)] = ListOf(a, slots')]
  BY ListsSetTop DEF Inv, Top, Put
<1>2. Len(Lists) = Len(stack)
  BY TopView
<1>3. stack' = u
  BY DEF SetTop
<1> HIDE DEF u
<1>4. Lists' = [Lists EXCEPT ![Len(Lists)] = ListOf(a, slots')]
  BY <1>1, <1>2, <1>3, Views
<1> QED BY <1>4 DEF Scopes!ChangeTop

\* What a token stands for.
HandleOf(t) == [id |-> t.brand, epoch |-> t.resets, index |-> t.index]

LEMMA HandlesHave ==
  ASSUME NEW t \in tokens
  PROVE  HandleOf(t) \in Handles
BY DEF HandleOf, Handles

LEMMA KeepView ==
  ASSUME Inv, Fits(stack), stack # <<>>, NEW n, Keep(n)
  PROVE  Scopes!Keep(n)
<1> DEFINE h == [id |-> Top.brand, epoch |-> Top.resets, index |-> n]
<1>1. CASE tokens' = tokens
  <2>1. Handles' = Handles
    BY <1>1, Views
  <2> QED BY <2>1 DEF Scopes!Keep
<1>2. CASE tokens' = tokens \cup {from_trusted(n)}
  <2>1. HandlesOf(tokens \cup {from_trusted(n)}) = HandlesOf(tokens) \cup {HandleOf(from_trusted(n))}
    BY DEF HandlesOf, HandleOf
  <2>2. HandleOf(from_trusted(n)) = h
    BY DEF HandleOf, from_trusted
  <2>3. Handles' = Handles \cup {h}
    BY <1>2, <2>1, <2>2, Views
  <2>4. h = [id |-> Scopes!Top.id, epoch |-> Scopes!Top.epoch, index |-> n]
    BY TopView
  <2> QED BY <2>3, <2>4 DEF Scopes!Keep
<1> QED BY <1>1, <1>2 DEF Keep

\* A token's check is the check of what it stands for, while generations count resets.
LEMMA SameVerdict ==
  ASSUME Inv, Fits(stack), Counted, stack # <<>>, NEW t \in tokens
  PROVE  Scopes!Verdict(HandleOf(t)) = check_token(t)
<1> DEFINE h == HandleOf(t)
<1>1. /\ h.id = t.brand /\ h.epoch = t.generation /\ h.index = t.index
  BY DEF HandleOf, Counted
<1>2. /\ Scopes!Top.id = Top.brand /\ Scopes!Top.epoch = Top.generation
      /\ Len(Scopes!Top.items) = Top.len
  BY TopView, TopCounted
<1>3. t.index \in Nat /\ Top.len \in Nat
  BY TopFacts, ArenaFields DEF Inv, TypeOK, Token
<1> HIDE DEF h
<1>4. Scopes!Verdict(h) = check_token(t)
  BY <1>1, <1>2, <1>3 DEF Scopes!Verdict, check_token
<1> QED BY <1>4 DEF h

\* The slots the live arenas allocated are in the buffer.
LEMMA BelowTop ==
  ASSUME Inv, Fits(stack), stack # <<>>, NEW s \in Nat, s < Top.base + Top.len
  PROVE  s \in Slots
<1>1. /\ Top.base \in Nat /\ Top.len \in Nat /\ Top.next \in Nat /\ Top.left \in Nat
      /\ Top.capacity \in Nat /\ Memory \in Nat
  BY TopFacts, ArenaFields, ArenaAssumption
<1>2. Top.base + Top.len <= Top.next /\ Top.next + Top.left = Top.base + Top.capacity
  BY TopFacts DEF Accounted
<1>3. Top.base + Top.capacity <= Memory
  BY TopView
<1> QED BY <1>1, <1>2, <1>3 DEF Slots

\* The policy leaves what lies below the arena it is run for.
LEMMA PolicyAbove ==
  ASSUME Inv, Fits(stack), stack # <<>>, NEW s \in Nat, s < Top.base
  PROVE  policy(Top)[s] = slots[s]
<1>1. Top.base \in Nat /\ Top.len \in Nat
  BY TopFacts, ArenaFields
<1>2. s \in Slots /\ s \notin allocated(Top)
  BY <1>1, BelowTop DEF allocated
<1> QED BY <1>2 DEF policy

----------------------------------------------------------------------------
(* The calls that read and write items.                                    *)

\* The contents of the buffer keep their type.
LEMMA SlotsTyped == Inv => slots \in [Slots -> Contents]
BY DEF Inv, TypeOK

\* A slot of the top arena is written: one item of the top list changes.
LEMMA WriteView ==
  ASSUME Inv, Fits(stack), stack # <<>>, UNCHANGED stack, NEW n \in Nat, n < Top.len,
         NEW c \in Contents, slots' = [slots EXCEPT ![Top.base + n] = c]
  PROVE  Scopes!ChangeTop([Scopes!Top EXCEPT !.items[n + 1] = c])
<1>1. Top \in Arena /\ Accounted(Top) /\ Top.base \in Nat /\ Top.len \in Nat
  BY TopFacts, ArenaFields
<1>2. ASSUME NEW s \in Nat, s < Top.base PROVE slots'[s] = slots[s]
  <2>1. s \in Slots /\ s # Top.base + n
    BY <1>1, <1>2, BelowTop
  <2> QED BY <2>1, SlotsTyped
<1>3. SetTop(Top)
  <2>1. stack \in Seq(Arena)
    BY DEF Inv, Chain
  <2>2. stack = [stack EXCEPT ![Len(stack)] = stack[Len(stack)]]
    BY <2>1
  <2> QED BY <2>2 DEF SetTop, Top
<1>4. Scopes!ChangeTop(ListOf(Top, slots'))
  BY <1>2, <1>3, ChangesTop
<1>5. Items(Top, slots') = [Items(Top, slots) EXCEPT ![n + 1] = c]
  <2>1. Top.base + Top.capacity <= Memory
    BY TopView
  <2>2. slots \in [Slots -> Contents]
    BY SlotsTyped
  <2>3. Items(Top, Put(slots, Top.base + n, c)) = Put(Items(Top, slots), n + 1, c)
    BY <1>1, <2>1, <2>2, ItemsWrite
  <2> QED BY <2>3 DEF Put
<1>6. ListOf(Top, slots') = [ListOf(Top, slots) EXCEPT !.items[n + 1] = c]
  BY <1>5 DEF ListOf
<1> QED BY <1>4, <1>6, TopView

\* A write through a token or by position, whole or torn.
LEMMA WriteSlotView ==
  ASSUME Inv, Fits(stack), stack # <<>>, UNCHANGED stack, NEW n \in Nat, n < Top.len,
         NEW v \in Vals, WriteSlot(n, v)
  PROVE  Scopes!Write(n, v)
<1>1. v \in Contents /\ Torn \in Contents
  BY DEF Contents
<1>2. CASE slots' = [slots EXCEPT ![Top.base + n] = v] /\ ret' = Says("ok")
  <2>1. Scopes!ChangeTop([Scopes!Top EXCEPT !.items[n + 1] = v])
    BY <1>1, <1>2, WriteView
  <2> QED BY <1>2, <2>1 DEF Scopes!Write, Scopes!Says, Says
<1>3. CASE slots' = [slots EXCEPT ![Top.base + n] = Torn] /\ ret' = Says("SerializationFailed")
  <2>1. Scopes!ChangeTop([Scopes!Top EXCEPT !.items[n + 1] = Torn])
    BY <1>1, <1>3, WriteView
  <2> QED BY <1>3, <2>1 DEF Scopes!Write, Scopes!Says, Says
<1>4. CASE slots' = slots /\ ret' = Says("SerializationFailed")
  <2> DEFINE c == slots[Top.base + n]
  <2>1. Top.base \in Nat /\ Top.len \in Nat
    BY TopFacts, ArenaFields
  <2>2. Scopes!Top.items[n + 1] = c
    <3>1. n + 1 \in 1..Top.len /\ Top.base + (n + 1) - 1 = Top.base + n
      BY <2>1
    <3> QED BY <3>1, TopView
  <2>3. c \in Contents
    <3>1. n \in 0..Top.len - 1
      BY <2>1
    <3>2. Top.base + n \in Slots
      BY <3>1, TopFacts, TopView, SlotsTyped, ItemsRead
    <3> QED BY <3>2, SlotsTyped
  <2>4. slots' = [slots EXCEPT ![Top.base + n] = c]
    BY <1>4, SlotsTyped
  <2> HIDE DEF c
  <2>5. Scopes!ChangeTop([Scopes!Top EXCEPT !.items[n + 1] = c])
    BY <2>3, <2>4, WriteView
  <2> QED BY <1>4, <2>2, <2>5 DEF Scopes!Write, Scopes!Says, Says
<1> QED BY <1>2, <1>3, <1>4 DEF WriteSlot

LEMMA OverwriteStep ==
  ASSUME MapInv, NEW t \in tokens, NEW v \in Vals, overwrite(t, v)
  PROVE  Scopes!Overwrite(HandleOf(t), v)
<1>1. Inv /\ Fits(stack) /\ Counted /\ stack # <<>>
  BY DEF MapInv, overwrite
<1>2. Lists # <<>> /\ Scopes!Verdict(HandleOf(t)) = check_token(t)
  BY <1>1, TopView, SameVerdict
<1>3. UNCHANGED <<brands, Handles>> /\ UNCHANGED stack
  BY Views DEF overwrite
<1>4. CASE check_token(t) # "ok" /\ ret' = Says(check_token(t)) /\ UNCHANGED slots
  <2>1. UNCHANGED Lists
    BY <1>3, <1>4, Views
  <2> QED BY <1>2, <1>3, <1>4, <2>1 DEF Scopes!Overwrite, Scopes!Says, Says
<1>5. CASE check_token(t) = "ok" /\ WriteSlot(t.index, v)
  <2>1. t.index \in Nat
    BY <1>1 DEF Inv, TypeOK, Token
  <2>2. t.index < Top.len
    BY <1>1, <1>5, <2>1, TopFacts, ArenaFields DEF check_token
  <2>3. Scopes!Write(t.index, v)
    BY <1>1, <1>3, <1>5, <2>1, <2>2, WriteSlotView
  <2>4. HandleOf(t).index = t.index
    BY DEF HandleOf
  <2> QED BY <1>2, <1>3, <1>5, <2>3, <2>4 DEF Scopes!Overwrite
<1> QED BY <1>4, <1>5 DEF overwrite

LEMMA OverwriteConstStep ==
  ASSUME MapInv, NEW n \in Sizes, NEW v \in Vals, overwrite_const(n, v)
  PROVE  Scopes!OverwriteConst(n, v)
<1>1. Inv /\ Fits(stack) /\ stack # <<>> /\ Len(stack) = 1
  BY DEF MapInv, overwrite_const
<1>2. Len(Lists) = 1 /\ Len(Scopes!Top.items) = Top.len /\ Top.len \in Nat /\ n \in Nat
  BY <1>1, TopView, TopFacts, ArenaFields, ArenaAssumption
<1>3. UNCHANGED <<brands, Handles>> /\ UNCHANGED stack
  BY Views DEF overwrite_const
<1>4. CASE n >= Top.len /\ ret' = Says("OutOfRange") /\ UNCHANGED slots
  <2>1. UNCHANGED Lists
    BY <1>3, <1>4, Views
  <2> QED BY <1>2, <1>3, <1>4, <2>1 DEF Scopes!OverwriteConst, Scopes!Says, Says
<1>5. CASE n < Top.len /\ WriteSlot(n, v)
  <2>1. Scopes!Write(n, v)
    BY <1>1, <1>2, <1>3, <1>5, WriteSlotView
  <2> QED BY <1>2, <1>3, <1>5, <2>1 DEF Scopes!OverwriteConst
<1> QED BY <1>4, <1>5 DEF overwrite_const

\* An item of the top list is its slot.
LEMMA ItemView ==
  ASSUME Inv, Fits(stack), stack # <<>>, NEW n \in Nat, n < Top.len
  PROVE  Scopes!Top.items[n + 1] = slots[Top.base + n]
<1>1. Top.base \in Nat /\ Top.len \in Nat
  BY TopFacts, ArenaFields
<1>2. n + 1 \in 1..Top.len /\ Top.base + (n + 1) - 1 = Top.base + n
  BY <1>1
<1> QED BY <1>2, TopView

LEMMA GetStep ==
  ASSUME MapInv, NEW t \in tokens, get(t)
  PROVE  Scopes!Get(HandleOf(t))
<1>1. Inv /\ Fits(stack) /\ Counted /\ stack # <<>>
  BY DEF MapInv, get
<1>2. Lists # <<>> /\ Scopes!Verdict(HandleOf(t)) = check_token(t)
  BY <1>1, TopView, SameVerdict
<1>3. UNCHANGED <<Lists, brands, Handles>>
  BY Views DEF get
<1>4. HandleOf(t).index = t.index
  BY DEF HandleOf
<1>5. CASE check_token(t) # "ok"
  <2>1. ret' = Says(check_token(t))
    BY <1>5 DEF get
  <2> QED BY <1>2, <1>3, <1>5, <2>1 DEF Scopes!Get, Scopes!Says, Says
<1>6. CASE check_token(t) = "ok"
  <2>1. t.index \in Nat
    BY <1>1 DEF Inv, TypeOK, Token
  <2>2. t.index < Top.len
    BY <1>1, <1>6, <2>1, TopFacts, ArenaFields DEF check_token
  <2>3. ret' = Gives(<<slots[Top.base + t.index]>>)
    BY <1>6 DEF get
  <2>4. Scopes!Top.items[t.index + 1] = slots[Top.base + t.index]
    BY <1>1, <2>1, <2>2, ItemView
  <2>5. ret' = Scopes!Gives(<<Scopes!Top.items[HandleOf(t).index + 1]>>)
    BY <1>4, <2>3, <2>4 DEF Gives, Scopes!Gives
  <2> QED BY <1>2, <1>3, <1>6, <2>5 DEF Scopes!Get
<1> QED BY <1>5, <1>6

LEMMA GetConstStep ==
  ASSUME MapInv, NEW n \in Sizes, get_const(n)
  PROVE  Scopes!GetConst(n)
<1>1. Inv /\ Fits(stack) /\ stack # <<>> /\ Len(stack) = 1
  BY DEF MapInv, get_const
<1>2. Len(Lists) = 1 /\ Len(Scopes!Top.items) = Top.len /\ n \in Nat
  BY <1>1, TopView, ArenaAssumption
<1>3. UNCHANGED <<Lists, brands, Handles>>
  BY Views DEF get_const
<1>4. n < Top.len => Scopes!Top.items[n + 1] = slots[Top.base + n]
  BY <1>1, <1>2, ItemView
<1> QED BY <1>2, <1>3, <1>4 DEF get_const, Scopes!GetConst, Gives, Scopes!Gives, Says, Scopes!Says

LEMMA CheckedIdxStep ==
  ASSUME MapInv, NEW n \in Sizes, checked_idx(n)
  PROVE  Scopes!CheckedIdx(n)
<1>1. Inv /\ Fits(stack) /\ stack # <<>>
  BY DEF MapInv, checked_idx
<1>2. Lists # <<>> /\ Len(Scopes!Top.items) = Top.len /\ Top.len \in Nat /\ n \in Nat
  BY <1>1, TopView, TopFacts, ArenaFields, ArenaAssumption
<1>3. UNCHANGED Lists /\ UNCHANGED brands
  BY Views DEF checked_idx
<1>4. CASE n >= Top.len
  <2>1. ret' = Says("OutOfRange") /\ UNCHANGED Handles /\ ~(n < Top.len)
    BY <1>2, <1>4, Views DEF checked_idx
  <2> QED BY <1>2, <1>3, <2>1 DEF Scopes!CheckedIdx, Scopes!Says, Says
<1>5. CASE ~(n >= Top.len)
  <2>1. ret' = Says("ok") /\ Keep(n) /\ n < Top.len
    BY <1>2, <1>5 DEF checked_idx
  <2>2. Scopes!Keep(n)
    BY <1>1, <2>1, KeepView
  <2> QED BY <1>2, <1>3, <2>1, <2>2 DEF Scopes!CheckedIdx, Scopes!Says, Says
<1> QED BY <1>4, <1>5

----------------------------------------------------------------------------
(* The calls that move the boundary.                                       *)

\* A value is written to the first free slot, and the boundary moves over it.
LEMMA AppendView ==
  ASSUME Inv, Fits(stack), stack # <<>>, Contiguous(Top), Top.left > 0, NEW v \in Vals,
         slots' = [slots EXCEPT ![Top.next] = v], SetTop(advance(Top))
  PROVE  Scopes!ChangeTop([Scopes!Top EXCEPT !.items = Append(@, v), !.room = @ - 1])
<1> DEFINE p == advance(Top)
<1>1. /\ Top \in Arena /\ Accounted(Top) /\ Top.base \in Nat /\ Top.len \in Nat
      /\ Top.left \in Nat /\ Top.next \in Nat
  BY TopFacts, ArenaFields
<1>2. ASSUME NEW s \in Nat, s < Top.base PROVE slots'[s] = slots[s]
  <2>1. s \in Slots /\ s # Top.next
    BY <1>1, <1>2, BelowTop DEF Contiguous
  <2> QED BY <2>1, SlotsTyped
<1>3. Scopes!ChangeTop(ListOf(p, slots'))
  BY <1>2, ChangesTop
<1>4. Items(p, slots') = Append(Items(Top, slots), v)
  BY <1>1, TopView, SlotsTyped, ItemsAppend DEF Contents
<1>5. /\ p.brand = Top.brand /\ p.resets = Top.resets /\ p.left = Top.left - 1
      /\ p.capacity = Top.capacity
  BY <1>1 DEF advance, Arena
<1> HIDE DEF p
<1>6. ListOf(p, slots')
        = [ListOf(Top, slots) EXCEPT !.items = Append(@, v), !.room = @ - 1]
  <2> DEFINE A == ListOf(Top, slots)
             q == Append(Items(Top, slots), v)
  <2>1. A.items = Items(Top, slots) /\ A.room = Top.left
    BY DEF ListOf
  <2>2. [A EXCEPT !.items = q, !.room = Top.left - 1] = ListOf(p, slots')
    <3> HIDE DEF q
    <3>1. Items(p, slots') = q
      BY <1>4 DEF q
    <3>2. ListOf(p, slots')
            = [id |-> Top.brand, epoch |-> Top.resets, items |-> q, room |-> Top.left - 1,
               capacity |-> Top.capacity]
      BY <1>5, <3>1 DEF ListOf
    <3> DEFINE k == Top.left - 1
    <3> HIDE DEF k
    <3>3. [A EXCEPT !.items = q, !.room = k]
            = [id |-> Top.brand, epoch |-> Top.resets, items |-> q, room |-> k,
               capacity |-> Top.capacity]
      <4> DEFINE B == [id |-> Top.brand, epoch |-> Top.resets, items |-> q,
                       room |-> Top.left, capacity |-> Top.capacity]
      <4>1. [A EXCEPT !.items = q, !.room = k] = [[A EXCEPT !.items = q] EXCEPT !.room = k]
        BY DEF ListOf
      <4>2. [A EXCEPT !.items = q] = B
        BY DEF ListOf
      <4>3. [B EXCEPT !.room = k]
              = [id |-> Top.brand, epoch |-> Top.resets, items |-> q, room |-> k,
                 capacity |-> Top.capacity]
        OBVIOUS
      <4> QED BY <4>1, <4>2, <4>3
    <3> QED BY <3>2, <3>3 DEF k
  <2> QED BY <2>1, <2>2, Zenon
<1>7. Scopes!Top = ListOf(Top, slots)
  BY TopView
<1> QED BY <1>3, <1>6, <1>7, Zenon

LEMMA AllocStep ==
  ASSUME CarefulCallers, MapInv, NEW v \in Vals, alloc(v)
  PROVE  Scopes!Alloc(v)
<1>1. Inv /\ Fits(stack) /\ stack # <<>> /\ Contiguous(Top)
  BY DEF MapInv, alloc, Usable
<1>2. /\ Top.base \in Nat /\ Top.len \in Nat /\ Top.left \in Nat /\ Top.next \in Nat
  BY <1>1, TopFacts, ArenaFields
<1>3. /\ Lists # <<>> /\ Scopes!Top.room = Top.left /\ Len(Scopes!Top.items) = Top.len
  BY <1>1, TopView
<1>4. UNCHANGED brands
  BY DEF alloc
<1>5. CASE Top.left = 0 /\ ret' = Says("Full") /\ UNCHANGED <<stack, slots, tokens>>
  <2>1. UNCHANGED <<Lists, Handles>>
    BY <1>5, Views
  <2> QED BY <1>3, <1>4, <1>5, <2>1 DEF Scopes!Alloc, Scopes!Says, Says
<1>6. CASE /\ Top.left > 0 /\ slots' \in {slots, [slots EXCEPT ![Top.next] = Torn]}
           /\ ret' = Says("SerializationFailed") /\ UNCHANGED <<stack, tokens>>
  <2>1. ASSUME NEW s \in Nat, s < Top.base + Top.len PROVE slots'[s] = slots[s]
    <3>1. s # Top.next
      BY <1>1, <1>2, <2>1 DEF Contiguous
    <3>2. s \in Slots
      BY <1>1, <2>1, BelowTop
    <3>3. slots \in [Slots -> Contents]
      BY <1>1, SlotsTyped
    <3> QED BY <1>6, <3>1, <3>2, <3>3
  <2>2. UNCHANGED Lists
    BY <1>1, <1>6, <2>1, SameLists
  <2>3. UNCHANGED Handles
    BY <1>6, Views
  <2> QED BY <1>3, <1>4, <1>6, <2>2, <2>3 DEF Scopes!Alloc, Scopes!Says, Says
<1>7. CASE /\ Top.left > 0 /\ slots' = [slots EXCEPT ![Top.next] = v]
           /\ SetTop(advance(Top)) /\ Keep(Top.len) /\ ret' = Says("ok")
  <2>1. Scopes!ChangeTop([Scopes!Top EXCEPT !.items = Append(@, v), !.room = @ - 1])
    BY <1>1, <1>7, AppendView
  <2>2. Scopes!Keep(Len(Scopes!Top.items))
    BY <1>1, <1>3, <1>7, KeepView
  <2> QED BY <1>3, <1>4, <1>7, <2>1, <2>2 DEF Scopes!Alloc, Scopes!Says, Says
<1> QED BY <1>5, <1>6, <1>7 DEF alloc

\* A carved arena lists less room and the same items.
LEMMA CarveView ==
  ASSUME Inv, Fits(stack), stack # <<>>, NEW sl, NEW n \in Nat, n <= Top.left,
         \A s \in Nat : s < Top.base + Top.len => sl[s] = slots[s]
  PROVE  ListOf(carve(Top, n), sl) = [Scopes!Top EXCEPT !.room = @ - n]
<1> DEFINE p == carve(Top, n)
<1>1. Top \in Arena /\ Accounted(Top)
  BY TopFacts
<1>2. /\ p.base = Top.base /\ p.len = Top.len /\ p.brand = Top.brand
      /\ p.resets = Top.resets /\ p.left = Top.left - n /\ p.capacity = Top.capacity
  BY <1>1 DEF carve, Arena
<1> HIDE DEF p
<1>3. Items(Top, sl) = Items(Top, slots)
  BY <1>1, ItemsSame
<1>4. Items(p, sl) = Items(Top, sl)
  BY <1>2 DEF Items
<1>5. ListOf(p, sl) = [ListOf(Top, slots) EXCEPT !.room = @ - n]
  BY <1>2, <1>3, <1>4 DEF ListOf
<1> QED BY <1>5, TopView DEF p

LEMMA SplitStep ==
  ASSUME MapInv, NEW n \in Sizes, split_unallocated_bytes(n)
  PROVE  Scopes!Carve(n)
<1>1. Inv /\ Fits(stack) /\ stack # <<>> /\ n \in Nat
  BY ArenaAssumption DEF MapInv, split_unallocated_bytes
<1>2. /\ Top.base \in Nat /\ Top.len \in Nat /\ Top.left \in Nat /\ Top.next \in Nat
      /\ Top.base + Top.len <= Top.next
  BY <1>1, TopFacts, ArenaFields DEF Accounted
<1>3. Lists # <<>> /\ Scopes!Top.room = Top.left
  BY <1>1, TopView
<1>4. UNCHANGED <<brands, Handles>>
  BY Views DEF split_unallocated_bytes
<1>5. CASE n > Top.left /\ ret' = Says("Full") /\ UNCHANGED <<stack, slots>>
  <2>1. UNCHANGED Lists
    BY <1>5, Views
  <2> QED BY <1>3, <1>4, <1>5, <2>1 DEF Scopes!Carve, Scopes!Says, Says
<1>6. CASE /\ n <= Top.left /\ SetTop(carve(Top, n)) /\ ret' = Says("ok")
           /\ slots' \in {slots, [s \in Slots |->
                                    IF s \in Top.next..Top.next + n - 1 THEN Foreign ELSE slots[s]]}
  <2>1. \A s \in Slots : s < Top.base + Top.len => slots'[s] = slots[s]
    BY <1>2, <1>6
  <2>2. \A s \in Nat : s < Top.base + Top.len => slots'[s] = slots[s]
    BY <1>1, <2>1, BelowTop
  <2>3. \A s \in Nat : s < Top.base => slots'[s] = slots[s]
    BY <1>2, <2>2
  <2>4. Scopes!ChangeTop(ListOf(carve(Top, n), slots'))
    BY <1>1, <1>6, <2>3, ChangesTop
  <2>5. ListOf(carve(Top, n), slots') = [Scopes!Top EXCEPT !.room = @ - n]
    BY <1>1, <1>6, <2>2, CarveView
  <2> QED BY <1>3, <1>4, <1>6, <2>4, <2>5 DEF Scopes!Carve, Scopes!Says, Says
<1> QED BY <1>5, <1>6 DEF split_unallocated_bytes

\* An arena over fresh slots is an empty list.
LEMMA NewView ==
  ASSUME Inv, MaxBrands < U32, brands < MaxBrands,
         NEW base \in Nat, NEW n \in Nat, NEW taken, NEW sl
  PROVE  ListOf(NewArena(base, n, taken), sl) = Scopes!NewList(n)
<1> DEFINE b == NewArena(base, n, taken)
<1>1. mint_brand = brands + 1
  BY ArenaAssumption DEF mint_brand, Inv, TypeOK
<1>2. /\ b.base = base /\ b.len = 0 /\ b.left = n /\ b.capacity = n
      /\ b.brand = brands + 1 /\ b.resets = 0
  BY <1>1 DEF NewArena
<1> HIDE DEF b
<1>3. Items(b, sl) = <<>>
  BY <1>2 DEF Items
<1> QED BY <1>2, <1>3 DEF ListOf, Scopes!NewList, b

LEMMA OpenScopeStep ==
  ASSUME MaxBrands < U32, MapInv, stack # <<>>, NEW n \in Nat, n <= Top.left, OpenScope(n)
  PROVE  Scopes!Push(n)
<1> DEFINE p == carve(Top, n)
           u == [stack EXCEPT ![Len(stack)] = p]
           b == NewArena(Top.next, n, n)
<1>1. Inv /\ Fits(stack) /\ stack \in Seq(Arena) /\ Len(stack) \in Nat /\ Len(stack) > 0
  BY DEF MapInv, Inv, Chain
<1>2. Top \in Arena /\ Accounted(Top) /\ Top.next \in Nat
  BY <1>1, TopFacts, ArenaFields
<1>3. b \in Arena /\ p \in Arena
  BY <1>1, <1>2, NewBrand, CarveAccounts DEF NewArena, Arena, Inv
<1>4. stack' = Append(u, b) /\ slots' = slots /\ brands < MaxBrands /\ brands' = brands + 1
  BY DEF OpenScope
<1>5. ListOf(b, slots) = Scopes!NewList(n)
  BY <1>1, <1>2, <1>4, NewView
<1>6. ListOf(p, slots) = [Scopes!Top EXCEPT !.room = @ - n]
  BY <1>1, CarveView
<1> HIDE DEF p, b
<1>7. u \in Seq(Arena)
  BY <1>1, <1>3
<1>8. ListsOf(Append(u, b), slots) = Append(ListsOf(u, slots), ListOf(b, slots))
  BY <1>3, <1>7, ListsPush
<1>9. ListsOf(u, slots) = [ListsOf(stack, slots) EXCEPT ![Len(stack)] = ListOf(p, slots)]
  <2>1. Chain(stack) /\ stack # <<>>
    BY <1>1 DEF Inv
  <2> HIDE DEF u
  <2>2. u = Put(stack, Len(stack), p)
    BY DEF Put, u
  <2>3. ListsOf(Put(stack, Len(stack), p), slots)
          = Put(ListsOf(stack, slots), Len(stack), ListOf(p, slots))
    BY <2>1, ListsSetTop
  <2> QED BY <2>2, <2>3 DEF Put
<1> HIDE DEF u
<1>10. Len(Lists) = Len(stack) /\ Scopes!Top = Lists[Len(Lists)]
  BY <1>1, TopView DEF Scopes!Top
<1>11. [Lists EXCEPT ![Len(Lists)] = [Scopes!Top EXCEPT !.room = @ - n]]
         = [Lists EXCEPT ![Len(Lists)].room = @ - n]
  BY <1>10
<1>12. Lists' = Append([Lists EXCEPT ![Len(Lists)].room = @ - n], Scopes!NewList(n))
  BY <1>4, <1>5, <1>6, <1>8, <1>9, <1>10, <1>11, Views
<1>13. UNCHANGED Handles /\ ret' = Scopes!Says("ok")
  BY Views DEF OpenScope, Says, Scopes!Says
<1> QED BY <1>4, <1>12, <1>13 DEF Scopes!Push

LEMMA ScopeStep ==
  ASSUME MaxBrands < U32, MapInv, NEW n \in Sizes, scope(n)
  PROVE  Scopes!Scope(n)
<1>1. Inv /\ Fits(stack) /\ stack # <<>> /\ n \in Nat
  BY ArenaAssumption DEF MapInv, scope
<1>2. Lists # <<>> /\ Scopes!Top.room = Top.left
  BY <1>1, TopView
<1>3. CASE /\ n > Top.left /\ ret' = Says("Full")
           /\ UNCHANGED <<config, stack, slots, brands, tokens>>
  <2>1. UNCHANGED <<Lists, brands, Handles>>
    BY <1>3, Views
  <2> QED BY <1>2, <1>3, <2>1 DEF Scopes!Scope, Scopes!Says, Says
<1>4. CASE n <= Top.left /\ OpenScope(n)
  <2>1. Scopes!Push(n)
    BY <1>1, <1>4, OpenScopeStep
  <2> QED BY <1>2, <1>4, <2>1 DEF Scopes!Scope
<1> QED BY <1>3, <1>4 DEF scope

LEMMA DynScopeStep ==
  ASSUME MaxBrands < U32, MapInv, NEW n \in Sizes, dyn_scope(n)
  PROVE  Scopes!DynScope(n)
<1> DEFINE m == IF n <= Top.left THEN n ELSE Top.left
<1>1. Inv /\ Fits(stack) /\ stack # <<>> /\ n \in Nat /\ OpenScope(m)
  BY ArenaAssumption DEF MapInv, dyn_scope
<1>2. Lists # <<>> /\ Scopes!Top.room = Top.left /\ Top.left \in Nat
  BY <1>1, TopView, TopFacts, ArenaFields
<1>3. m \in Nat /\ m <= Top.left /\ m = IF n <= Scopes!Top.room THEN n ELSE Scopes!Top.room
  BY <1>1, <1>2
<1> HIDE DEF m
<1>4. Scopes!Push(m)
  BY <1>1, <1>3, OpenScopeStep
<1> QED BY <1>2, <1>3, <1>4 DEF Scopes!DynScope

LEMMA NewStep ==
  ASSUME MaxBrands < U32, MapInv, NEW count \in Counts, NEW buf \in Buffers, new(count, buf)
  PROVE  Scopes!Open(count)
<1>1. Inv /\ stack = <<>> /\ count \in Nat
  BY ArenaAssumption DEF MapInv, new
<1>2. Lists = <<>>
  <2>1. Len(stack) \in Nat /\ Len(stack) = 0
    BY <1>1
  <2> QED BY <2>1, Views DEF ListsOf
<1>3. UNCHANGED Handles
  BY Views DEF new
<1>4. CASE /\ ret' \in {Says("Overflow"), Says("Misaligned"), Says("TooSmall")}
           /\ UNCHANGED <<stack, brands>>
  <2>1. UNCHANGED Lists
    BY <1>4, Views DEF new
  <2>2. ret' \in {Scopes!Says("Overflow"), Scopes!Says("Misaligned"), Scopes!Says("TooSmall")}
    BY <1>4 DEF Says, Scopes!Says
  <2> QED BY <1>2, <1>3, <1>4, <2>1, <2>2 DEF Scopes!Open
<1>5. CASE /\ brands < MaxBrands /\ stack' = <<NewArena(0, count, 0)>>
           /\ brands' = brands + 1 /\ ret' = Says("ok")
  <2> DEFINE b == NewArena(0, count, 0)
  <2>1. ListOf(b, slots') = Scopes!NewList(count)
    BY <1>1, <1>5, NewView
  <2> HIDE DEF b
  <2>2. Len(<<b>>) = 1 /\ <<b>>[1] = b
    OBVIOUS
  <2>3. ListsOf(<<b>>, slots') = [i \in 1..1 |-> ListOf(b, slots')]
    BY <2>2 DEF ListsOf
  <2>4. [i \in 1..1 |-> ListOf(b, slots')] = <<ListOf(b, slots')>>
    OBVIOUS
  <2>5. Lists' = <<Scopes!NewList(count)>>
    BY <1>5, <2>1, <2>3, <2>4, Views DEF b
  <2> QED BY <1>2, <1>3, <1>5, <2>5 DEF Scopes!Open, Scopes!Says, Says
<1> QED BY <1>4, <1>5 DEF new

\* A reset empties the top list, gives it all its room and begins its next epoch.
LEMMA ResetStep == MaxResets < U32 /\ MapInv /\ reset => Scopes!Reset
<1> SUFFICES ASSUME MaxResets < U32, MapInv, reset PROVE Scopes!Reset
  OBVIOUS
<1> DEFINE a == [reset_to_start(Top) EXCEPT !.generation = (@ + 1) % U32, !.resets = @ + 1]
<1>1. Inv /\ Fits(stack) /\ stack # <<>> /\ SetTop(a) /\ Top.resets < MaxResets
  BY DEF MapInv, reset
<1>2. Top \in Arena /\ Top.base \in Nat
  BY <1>1, TopFacts, ArenaFields
<1>3. /\ a.base = Top.base /\ a.len = 0 /\ a.left = Top.capacity /\ a.brand = Top.brand
      /\ a.resets = Top.resets + 1 /\ a.capacity = Top.capacity
  BY <1>2 DEF reset_to_start, Arena
<1> HIDE DEF a
<1>4. ASSUME NEW s \in Nat, s < Top.base PROVE slots'[s] = slots[s]
  BY <1>1, <1>2, <1>4, PolicyAbove DEF reset
<1>5. Scopes!ChangeTop(ListOf(a, slots'))
  BY <1>1, <1>4, ChangesTop
<1>6. Items(a, slots') = <<>>
  BY <1>3 DEF Items
<1>7. ListOf(a, slots')
        = [id |-> Top.brand, epoch |-> Top.resets + 1, items |-> <<>>, room |-> Top.capacity,
           capacity |-> Top.capacity]
  BY <1>3, <1>6 DEF ListOf
<1>8. [Scopes!Top EXCEPT !.epoch = @ + 1, !.items = <<>>, !.room = Scopes!Top.capacity]
        = [id |-> Top.brand, epoch |-> Top.resets + 1, items |-> <<>>, room |-> Top.capacity,
           capacity |-> Top.capacity]
  <2> DEFINE A == ListOf(Top, slots)
             e == Top.resets + 1
             B == [id |-> Top.brand, epoch |-> e, items |-> Items(Top, slots),
                   room |-> Top.left, capacity |-> Top.capacity]
             C == [id |-> Top.brand, epoch |-> e, items |-> <<>>,
                   room |-> Top.left, capacity |-> Top.capacity]
  <2>1. Scopes!Top = A
    BY <1>1, TopView
  <2>2. A.epoch = Top.resets /\ A.capacity = Top.capacity
    BY DEF ListOf
  <2>3. [A EXCEPT !.epoch = e, !.items = <<>>, !.room = Top.capacity]
          = [[[A EXCEPT !.epoch = e] EXCEPT !.items = <<>>] EXCEPT !.room = Top.capacity]
    BY DEF ListOf
  <2> HIDE DEF e
  <2>4. [A EXCEPT !.epoch = e] = B
    BY DEF ListOf
  <2>5. [B EXCEPT !.items = <<>>] = C
    OBVIOUS
  <2>6. [C EXCEPT !.room = Top.capacity]
          = [id |-> Top.brand, epoch |-> e, items |-> <<>>, room |-> Top.capacity,
             capacity |-> Top.capacity]
    OBVIOUS
  <2> HIDE DEF A, B, C
  <2>7. [A EXCEPT !.epoch = @ + 1, !.items = <<>>, !.room = A.capacity]
          = [A EXCEPT !.epoch = e, !.items = <<>>, !.room = Top.capacity]
    BY <2>2, Zenon DEF e
  <2> QED BY <2>1, <2>3, <2>4, <2>5, <2>6, <2>7 DEF e
<1>9. Scopes!Top.epoch = Top.resets /\ Lists # <<>>
  BY <1>1, TopView
<1>10. UNCHANGED <<brands, Handles>> /\ ret' = Scopes!Says("ok")
  BY Views DEF reset, Says, Scopes!Says
<1> QED BY <1>1, <1>5, <1>7, <1>8, <1>9, <1>10 DEF Scopes!Reset

\* A dropped arena leaves its parent's list with its room again, and no token.
LEMMA DropStep == MapInv /\ drop => Scopes!Drop
<1> SUFFICES ASSUME MapInv, drop PROVE Scopes!Drop
  OBVIOUS
<1> DEFINE n == Len(stack)
<1>1. Inv /\ Fits(stack) /\ stack # <<>> /\ Top.base \in Nat
  BY TopFacts, ArenaFields DEF MapInv, drop
<1>2. ASSUME NEW s \in Nat, s < Top.base PROVE slots'[s] = slots[s]
  BY <1>1, <1>2, PolicyAbove DEF drop
<1>3. stack' = Popped(stack)
  BY DEF drop, Top, Popped
<1>4. ListsOf(stack', slots') = Restored(ListsOf(stack, slots), stack[n].capacity)
  <2>1. Chain(stack) /\ \A s \in Nat : s < stack[Len(stack)].base => slots'[s] = slots[s]
    BY <1>1, <1>2 DEF Inv, Top
  <2>2. ListsOf(Popped(stack), slots') = Restored(ListsOf(stack, slots), stack[Len(stack)].capacity)
    BY <1>1, <2>1, ListsDrop
  <2> QED BY <1>3, <2>2
<1>5. Len(Lists) = n /\ Lists # <<>> /\ Scopes!Top.capacity = stack[n].capacity
      /\ Scopes!Top.id = Top.brand
  BY <1>1, TopView DEF Top
<1> HIDE DEF n
<1>6. Lists' = [i \in 1..Len(Lists) - 1 |->
                  IF i = Len(Lists) - 1 THEN [Lists[i] EXCEPT !.room = @ + Scopes!Top.capacity]
                  ELSE Lists[i]]
  BY <1>4, <1>5, Views DEF Restored
<1>7. Handles' = {t \in Handles : t.id # Scopes!Top.id}
  <2>1. tokens' = {t \in tokens : t.brand # Top.brand}
    BY DEF drop
  <2>2. ASSUME NEW h \in HandlesOf(tokens') PROVE h \in HandlesOf(tokens) /\ h.id # Top.brand
    BY <2>1 DEF HandlesOf
  <2>3. ASSUME NEW h \in HandlesOf(tokens), h.id # Top.brand PROVE h \in HandlesOf(tokens')
    BY <2>1, <2>3 DEF HandlesOf
  <2> QED BY <1>5, <2>2, <2>3, Views
<1>8. UNCHANGED brands /\ ret' = Scopes!Says("ok")
  BY DEF drop, Says, Scopes!Says
<1> QED BY <1>5, <1>6, <1>7, <1>8 DEF Scopes!Drop

----------------------------------------------------------------------------
(* The theorem.                                                            *)

\* The invariant of the mapping holds.
LEMMA MapInvHolds ==
  ASSUME MaxResets < U32
  PROVE  Spec => []MapInv
<1>1. Init => MapInv
  BY InitInv DEF Init, MapInv, Counted, Fits
<1>2. MapInv /\ [Next]_vars => MapInv'
  BY StepInv, StepCounted, StepFits DEF MapInv, Fits
<1> QED BY <1>1, <1>2, PTL DEF Spec

LEMMA StepMaps ==
  ASSUME CarefulCallers, MaxBrands < U32, MaxResets < U32, MapInv, [Next]_vars
  PROVE  [Scopes!Next]_Scopes!vars
<1>1. ASSUME NEW count \in Counts, NEW buf \in Buffers, new(count, buf)
      PROVE  Scopes!Next
  BY <1>1, NewStep DEF Scopes!Next
<1>2. ASSUME NEW v \in Vals, alloc(v) PROVE Scopes!Next
  BY <1>2, AllocStep DEF Scopes!Next
<1>3. ASSUME NEW v \in Vals, NEW n \in Sizes, overwrite_const(n, v) PROVE Scopes!Next
  BY <1>3, OverwriteConstStep DEF Scopes!Next
<1>4. ASSUME NEW n \in Sizes, checked_idx(n) PROVE Scopes!Next
  BY <1>4, CheckedIdxStep DEF Scopes!Next
<1>5. ASSUME NEW n \in Sizes, get_const(n) PROVE Scopes!Next
  BY <1>5, GetConstStep DEF Scopes!Next
<1>6. ASSUME NEW n \in Sizes, split_unallocated_bytes(n) PROVE Scopes!Next
  BY <1>6, SplitStep DEF Scopes!Next
<1>7. ASSUME NEW n \in Sizes, scope(n) PROVE Scopes!Next
  BY <1>7, ScopeStep DEF Scopes!Next
<1>8. ASSUME NEW n \in Sizes, dyn_scope(n) PROVE Scopes!Next
  BY <1>8, DynScopeStep DEF Scopes!Next
<1>9. ASSUME NEW t \in tokens, get(t) PROVE Scopes!Next
  BY <1>9, GetStep, HandlesHave DEF Scopes!Next
<1>10. ASSUME NEW t \in tokens, NEW v \in Vals, overwrite(t, v) PROVE Scopes!Next
  BY <1>10, OverwriteStep, HandlesHave DEF Scopes!Next
<1>11. CASE reset
  BY <1>11, ResetStep DEF Scopes!Next
<1>12. CASE drop
  BY <1>12, DropStep DEF Scopes!Next
<1>13. CASE UNCHANGED vars
  BY <1>13, Views DEF vars, Scopes!vars
<1> QED BY <1>1, <1>2, <1>3, <1>4, <1>5, <1>6, <1>7, <1>8, <1>9, <1>10, <1>11, <1>12, <1>13
        DEF Next

\* The typed slot arenas are a stack of lists, for every buffer, every capacity and
\* every nesting of scopes, and for callers who leave an arena alone once they split
\* it: each call of the code is the call of the abstract stack, with its result.
THEOREM ArenasImplementScopeStack ==
  ASSUME CarefulCallers, NothingWraps
  PROVE  Spec => ImplementsScopeStack
<1>0. MaxBrands < U32 /\ MaxResets < U32
  BY DEF NothingWraps
<1>1. Init => Scopes!Init
  <2> SUFFICES ASSUME Init PROVE Scopes!Init
    OBVIOUS
  <2>1. Lists = <<>>
    <3>1. Len(stack) = 0
      BY DEF Init
    <3> QED BY <3>1, Views DEF ListsOf
  <2>2. Handles = {}
    BY Views DEF Init, HandlesOf
  <2> QED BY <2>1, <2>2 DEF Init, Scopes!Init, Says, Scopes!Says
<1>2. MapInv /\ [Next]_vars => [Scopes!Next]_Scopes!vars
  BY <1>0, StepMaps
<1>3. Spec => []MapInv
  BY <1>0, MapInvHolds
<1> QED BY <1>1, <1>2, <1>3, PTL DEF Spec, Scopes!Spec, ImplementsScopeStack

\* The doc of alloc holds for callers who leave an arena alone once they split it: the
\* slot the returned token names holds the value.
THEOREM CarefulAllocHoldsValue ==
  ASSUME CarefulCallers
  PROVE  Spec => AllocatedSlotHoldsValue
<1>1. Inv /\ Fits(stack) /\ [Next]_vars
        => [\A v \in Vals :
              alloc(v) /\ ret' = Says("ok") => as_slice(Top)'[Len(as_slice(Top)')] = v]_vars
  <2> SUFFICES ASSUME Inv, Fits(stack), NEW v \in Vals, alloc(v), ret' = Says("ok")
               PROVE  as_slice(Top)'[Len(as_slice(Top)')] = v
    OBVIOUS
  <2> DEFINE p == advance(Top)
  <2>1. /\ stack # <<>> /\ Contiguous(Top) /\ Top.left > 0 /\ SetTop(p)
        /\ slots' = [slots EXCEPT ![Top.next] = v]
    BY DEF alloc, Usable, Says
  <2>2. Top \in Arena /\ Accounted(Top) /\ stack \in Seq(Arena)
    BY <2>1, TopFacts DEF Inv, Chain
  <2>3. Top' = p
    BY <2>1, <2>2 DEF SetTop, Top
  <2>4. Items(p, slots') = Append(Items(Top, slots), v)
    BY <2>1, <2>2, TopView, SlotsTyped, ItemsAppend DEF Contents
  <2>5. as_slice(Top)' = Items(p, slots')
    BY <2>3 DEF as_slice, Items
  <2>6. Items(Top, slots) \in Seq(Contents) /\ v \in Contents
    BY <2>1, TopView DEF Contents
  <2> QED BY <2>4, <2>5, <2>6
<1>2. Init => Fits(stack)
  BY DEF Init, Fits
<1>3. Inv /\ Fits(stack) /\ [Next]_vars => Fits(stack)'
  BY StepFits DEF Fits
<1> QED BY <1>1, <1>2, <1>3, SpecInv, PTL DEF Spec, AllocatedSlotHoldsValue
=============================================================================
