---------------------------- MODULE FixedValues ----------------------------
(***************************************************************************)
(* The fixed-capacity types NbVec, NbMap, NbString and NbOption: a length  *)
(* and as many slots as the capacity, of which the first len are live.  An *)
(* archive is the same slots as bytes.  An NbOption is one slot, its       *)
(* length the presence flag; an NbMap is an NbVec of <<key, value>>        *)
(* entries found by binary search.                                         *)
(*                                                                         *)
(* A slot that is not live holds the default, which a live one may hold    *)
(* too.  The text of a string is bytes: Utf8(c) are those of a character.  *)
(***************************************************************************)
EXTENDS Integers, Sequences, FiniteSets, SequencesExt

CONSTANTS
  Kinds,          \* the types tried, one in each behaviour
  Caps,           \* the capacity of each type
  Elems,          \* elements and a map's values, 0 the default
  Keys,           \* a map's keys, 0 the default
  Bytes,          \* bytes of text
  Chars,          \* characters
  Utf8(_),        \* their bytes
  MaxAsk          \* bound: indexes and lengths asked for

ASSUME FixedAssumption ==
  /\ Kinds \subseteq {"vec", "map", "string", "option"}
  /\ Caps \in [Kinds -> Nat]
  /\ "option" \in Kinds => Caps["option"] = 1
  /\ 0 \in Elems \cap Keys /\ Elems \cup Keys \subseteq Nat
  /\ MaxAsk \in Nat

\* As in UTF-8, no character's bytes begin another's, and two characters
\* compare as the first byte they differ in.
ASSUME Utf8Assumption ==
  /\ 0 \in Bytes /\ Bytes \cup Chars \subseteq Nat
  /\ \A c \in Chars : Utf8(c) \in Seq(Bytes) \ {<<>>}
  /\ \A c, d \in Chars : c < d =>
       \E i \in DOMAIN Utf8(c) \cap DOMAIN Utf8(d) :
         /\ Utf8(c)[i] < Utf8(d)[i]
         /\ \A j \in 1..i - 1 : Utf8(c)[j] = Utf8(d)[j]

VARIABLES
  kind,           \* the type
  val,            \* the value: [len, items]
  arch,           \* an archive, if any
  ret             \* what the last call returned

vars == <<kind, val, arch, ret>>

Says(res) == [res |-> res, items |-> <<>>]
Gives(items) == [res |-> "ok", items |-> items]

Capacity == Caps[kind]
Slots == 0..Capacity - 1
Default == IF kind = "map" THEN <<0, 0>> ELSE 0
Item == CASE kind = "map"               -> Keys \X Elems
          [] kind = "string"            -> Bytes
          [] kind \in {"vec", "option"} -> Elems

new == [len |-> 0, items |-> [i \in Slots |-> Default]]
as_slice(v) == [i \in 1..v.len |-> v.items[i - 1]]

Text(s) == FlattenSeq([i \in DOMAIN s |-> Utf8(s[i])])
\* The texts that fit a string, and those whose bytes these are.
Texts == LET longest == IF "string" \in Kinds THEN Caps["string"] ELSE 0
         IN  {s \in BoundedSeq(Chars, longest) : Len(Text(s)) <= longest}
TextOf == [bytes \in {Text(s) : s \in Texts} |-> CHOOSE s \in Texts : Text(s) = bytes]
from_utf8(bytes) == bytes \in DOMAIN TextOf

Init ==
  /\ kind \in Kinds
  /\ val = new
  /\ arch = <<>>
  /\ ret = Says("none")

Become(v, r) ==
  /\ val' = v
  /\ ret' = r
  /\ UNCHANGED <<kind, arch>>

Answer(r) == Become(val, r)

----------------------------------------------------------------------------
(* NbVec.                                                                  *)

\* v with x at position at, the later elements one slot to the right.
shifted_right(v, at, x) ==
  [len |-> v.len + 1,
   items |-> [i \in Slots |-> CASE i = at                -> x
                                [] i > at /\ i <= v.len  -> v.items[i - 1]
                                [] i < at \/ i > v.len   -> v.items[i]]]

\* Mutant: the slot left free at the end keeps its element.
shifted_left_keeps(v, at) ==
  [len |-> v.len - 1,
   items |-> [i \in Slots |-> IF i >= at /\ i < v.len - 1 THEN v.items[i + 1] ELSE v.items[i]]]
\* v without position at, the later elements one slot to the left.
shifted_left(v, at) ==
  [len |-> v.len - 1,
   items |-> [i \in Slots |-> CASE i >= at /\ i < v.len - 1 -> v.items[i + 1]
                                [] i = v.len - 1            -> Default
                                [] i < at \/ i >= v.len     -> v.items[i]]]

shortened(v, n) ==
  [len |-> n,
   items |-> [i \in Slots |-> IF i >= n /\ i < v.len THEN Default ELSE v.items[i]]]

try_from_slice(s) ==
  /\ kind = "vec"
  /\ IF Len(s) > Capacity THEN Answer(Says("Capacity"))
     ELSE Become([len |-> Len(s),
                  items |-> [i \in Slots |-> IF i < Len(s) THEN s[i + 1] ELSE Default]],
                 Says("ok"))

try_push(x) ==
  /\ kind = "vec"
  /\ IF val.len >= Capacity THEN Answer(Says("Capacity"))
     ELSE Become([len |-> val.len + 1, items |-> [val.items EXCEPT ![val.len] = x]],
                 Says("ok"))

pop ==
  /\ kind = "vec"
  /\ IF val.len = 0 THEN Answer(Says("None"))
     ELSE Become(shifted_left(val, val.len - 1), Gives(<<val.items[val.len - 1]>>))

remove(i) ==
  /\ kind = "vec"
  /\ IF i >= val.len THEN Answer(Says("None"))
     ELSE Become(shifted_left(val, i), Gives(<<val.items[i]>>))

try_insert(i, x) ==
  /\ kind = "vec"
  /\ IF val.len >= Capacity THEN Answer(Says("Capacity"))
     ELSE Become(shifted_right(val, IF i < val.len THEN i ELSE val.len, x), Says("ok"))

get_mut(i, x) ==
  /\ kind = "vec"
  /\ IF i >= val.len THEN Answer(Says("None"))
     ELSE Become([val EXCEPT !.items[i] = x], Says("ok"))

truncate(n) ==
  /\ kind = "vec"
  /\ Become(IF n >= val.len THEN val ELSE shortened(val, n), Says("ok"))

clear ==
  /\ kind \in {"vec", "map", "string"}
  /\ Become(shortened(val, 0), Says("ok"))

\* A map gives keys and values in turn.
iter ==
  /\ kind \in {"vec", "map"}
  /\ Answer(Gives(IF kind = "map" THEN FlattenSeq(as_slice(val)) ELSE as_slice(val)))

----------------------------------------------------------------------------
(* NbMap.                                                                  *)

\* Mutant: an absent key goes to the end.
binary_search_append(v, k) ==
  LET at == {i \in 0..v.len - 1 : v.items[i][1] = k}
  IN  [found |-> at # {}, pos |-> IF at = {} THEN v.len ELSE CHOOSE i \in at : TRUE]
\* Where the key is, or where it would go: halving the live slots, as long as
\* there are some.
binary_search(v, k) ==
  LET probe[span \in (0..Capacity) \X (0..Capacity)] ==
        LET lo == span[1]
            hi == span[2]
            mid == (lo + hi) \div 2
        IN  IF lo >= hi THEN [found |-> FALSE, pos |-> lo]
            ELSE IF v.items[mid][1] = k THEN [found |-> TRUE, pos |-> mid]
            ELSE IF v.items[mid][1] < k THEN probe[<<mid + 1, hi>>]
            ELSE probe[<<lo, mid>>]
  IN  probe[<<0, v.len>>]

map_get(v, k) ==
  LET at == binary_search(v, k)
  IN  IF at.found THEN Gives(<<v.items[at.pos][2]>>) ELSE Says("None")

map_try_insert(k, x) ==
  LET at == binary_search(val, k)
  IN  /\ kind = "map"
      /\ CASE at.found ->
                Become([val EXCEPT !.items[at.pos] = <<k, x>>], map_get(val, k))
           [] ~at.found /\ val.len >= Capacity -> Answer(Says("Capacity"))
           [] ~at.found /\ val.len < Capacity ->
                Become(shifted_right(val, at.pos, <<k, x>>), Says("None"))

get(k) == kind = "map" /\ Answer(map_get(val, k))

map_get_mut(k, x) ==
  LET at == binary_search(val, k)
  IN  /\ kind = "map"
      /\ IF at.found THEN Become([val EXCEPT !.items[at.pos] = <<k, x>>], Says("ok"))
         ELSE Answer(Says("None"))

map_remove(k) ==
  LET at == binary_search(val, k)
  IN  /\ kind = "map"
      /\ IF at.found THEN Become(shifted_left(val, at.pos), map_get(val, k))
         ELSE Answer(Says("None"))

----------------------------------------------------------------------------
(* NbString and NbOption.                                                  *)

try_push_str(s) ==
  LET bytes == Text(s)
      new_len == val.len + Len(bytes)
  IN  /\ kind = "string"
      /\ IF new_len > Capacity THEN Answer(Says("Capacity"))
         ELSE Become([len |-> new_len,
                      items |-> [i \in Slots |-> IF i >= val.len /\ i < new_len
                                                 THEN bytes[i - val.len + 1]
                                                 ELSE val.items[i]]],
                     Says("ok"))

as_option(v) == IF v.len = 1 THEN Gives(<<v.items[0]>>) ELSE Says("None")

replace(x) ==
  /\ kind = "option"
  /\ Become([len |-> 1, items |-> [val.items EXCEPT ![0] = x]], as_option(val))

take ==
  /\ kind = "option"
  /\ Become([len |-> 0, items |-> [val.items EXCEPT ![0] = Default]], as_option(val))

----------------------------------------------------------------------------
(* Archives.                                                               *)

resolve ==
  /\ arch' = <<val>>
  /\ ret' = Says("ok")
  /\ UNCHANGED <<kind, val>>

\* Mutant: the length is not compared with the capacity.
check_bytes_any_len(b) ==
  kind = "string" /\ b.len <= Capacity =>
    /\ from_utf8(as_slice(b))
    /\ \A i \in b.len..Capacity - 1 : b.items[i] = 0
\* The slots of NbVec, NbMap and NbOption are checked one by one, and every
\* value of a slot is an element.
check_bytes(b) ==
  /\ b.len <= Capacity
  /\ kind = "string" => /\ from_utf8(as_slice(b))
                        /\ \A i \in b.len..Capacity - 1 : b.items[i] = 0

\* Bytes of an archive's size, whoever wrote them: any length, any elements.
Foreign == [len: 0..Capacity + 1, items: [Slots -> Item]]

\* Those that are not a canonical value's only where check_bytes notices: in the
\* length, and in all of a string.  It reads neither what is behind the live
\* slots of the other types nor the order of a map's keys.
DefaultTail(b) == \A i \in Slots : i >= b.len => b.items[i] = Default
Ascending(b) == \A i, j \in 0..b.len - 1 : i < j => b.items[i][1] < b.items[j][1]
Canonical(b) == DefaultTail(b) /\ (kind = "map" => Ascending(b))
Written == {b \in Foreign : b.len <= Capacity /\ kind # "string" => Canonical(b)}

load(b) ==
  /\ arch = <<>>
  /\ IF check_bytes(b) THEN arch' = <<b>> /\ ret' = Says("ok")
     ELSE ret' = Says("Invalid") /\ UNCHANGED arch
  /\ UNCHANGED <<kind, val>>

deserialize ==
  /\ arch # <<>>
  /\ Become(arch[1], Says("ok"))

get_with(k) ==
  /\ kind = "map" /\ arch # <<>>
  /\ Answer(map_get(arch[1], k))

Less(x, y) ==
  IF kind = "map" THEN x[1] < y[1] \/ (x[1] = y[1] /\ x[2] < y[2]) ELSE x < y
slice_lt(s, t) ==
  \E i \in 1..Len(t) :
    /\ i <= Len(s) + 1
    /\ \A j \in 1..i - 1 : s[j] = t[j]
    /\ i <= Len(s) => Less(s[i], t[i])

\* Values and archives compare by their live slots.
cmp ==
  /\ arch # <<>>
  /\ LET v == as_slice(val)
         a == as_slice(arch[1])
     IN  Answer(Says(CASE slice_lt(v, a) -> "Less"
                       [] slice_lt(a, v) -> "Greater"
                       [] v = a          -> "Equal"))

\* What is loaded was written by these types, but for what check_bytes notices.
Next ==
  \/ \E s \in BoundedSeq(Elems, Capacity + 1) : try_from_slice(s)
  \/ \E x \in Elems : try_push(x) \/ replace(x)
  \/ pop \/ take \/ clear
  \/ \E i \in 0..MaxAsk : remove(i) \/ truncate(i)
  \/ \E i \in 0..MaxAsk, x \in Elems : try_insert(i, x) \/ get_mut(i, x)
  \/ \E s \in BoundedSeq(Chars, 2) : try_push_str(s)
  \/ \E k \in Keys, x \in Elems : map_try_insert(k, x) \/ map_get_mut(k, x)
  \/ \E k \in Keys : get(k) \/ map_remove(k) \/ get_with(k)
  \/ iter \/ resolve \/ deserialize \/ cmp
  \/ \E b \in Written : load(b)

Spec == Init /\ [][Next]_vars

\* What is loaded are any bytes.
AnyBytesNext == Next \/ \E b \in Foreign : load(b)

AnyBytesSpec == Init /\ [][AnyBytesNext]_vars
----------------------------------------------------------------------------
(* Properties. *)

\* Type invariant: what as_slice and as_str rely on without looking, whatever
\* bytes were loaded.
TypeOK ==
  \A v \in {val} \cup Range(arch) :
    /\ v.len \in 0..Capacity
    /\ v.items \in [Slots -> Item]
    /\ kind = "string" => from_utf8(as_slice(v))

\* Equal values are equal byte for byte, whatever calls led from the value
\* archived to the value now, and whichever of the archives these types write
\* was loaded in between (the canonical tail): no call leaves an element behind.
EqualValuesArchiveAlike ==
  \A a \in Range(arch) : as_slice(a) = as_slice(val) => a = val

\* The slots are a bounded sequence, text, map or optional value, as long as
\* what is loaded are archives these types wrote: no call loses, reorders or
\* truncates, a refused call changes nothing, and the order of the bytes of a
\* text is the order of its characters.
Content(v) ==
  CASE kind = "map"               -> [k \in {e[1] : e \in Range(as_slice(v))} |->
                                       (CHOOSE e \in Range(as_slice(v)) : e[1] = k)[2]]
    [] kind = "string"            -> TextOf[as_slice(v)]
    [] kind \in {"vec", "option"} -> as_slice(v)
Width(c) == Len(Utf8(c))
Abstract == INSTANCE BoundedValue WITH
  content <- Content(val),
  saved <- [i \in DOMAIN arch |-> Content(arch[i])]
ImplementsBoundedValue == Abstract!Spec
=============================================================================
