---------------------------- MODULE BoundedValue ----------------------------
(***************************************************************************)
(* What the fixed-capacity types promise: a bounded sequence ("vec"), a    *)
(* bounded text ("string"), a bounded map ("map") and an optional value    *)
(* ("option"), with an archived copy that can be compared with the value,  *)
(* searched, and read back.                                                *)
(***************************************************************************)
EXTENDS Integers, Sequences, FiniteSets, SequencesExt, FiniteSetsExt, Functions

CONSTANTS
  Kinds,          \* the types tried, one in each behaviour
  Caps,           \* the capacity of each type
  Elems,          \* elements and a map's values
  Keys,           \* a map's keys
  Chars,          \* characters
  Width(_),       \* the bytes of a character
  MaxAsk          \* bound: indexes and lengths asked for

VARIABLES
  kind,           \* the type
  content,        \* the value: a sequence, or a map's function
  saved,          \* the archived value, if any
  ret             \* what the last call returned

vars == <<kind, content, saved, ret>>

Says(res) == [res |-> res, items |-> <<>>]
Gives(items) == [res |-> "ok", items |-> items]

Capacity == Caps[kind]
\* The bytes of a text.
Size(s) ==
  LET upto[n \in 0..Len(s)] == IF n = 0 THEN 0 ELSE upto[n - 1] + Width(s[n])
  IN  upto[Len(s)]

\* A map's entries in the order of their keys: the n-th key has n up to it.
Entries(f) ==
  LET key(n) == CHOOSE k \in DOMAIN f : Cardinality({x \in DOMAIN f : x <= k}) = n
  IN  [n \in 1..Cardinality(DOMAIN f) |-> <<key(n), f[key(n)]>>]

Less(x, y) ==
  IF kind = "map" THEN x[1] < y[1] \/ (x[1] = y[1] /\ x[2] < y[2]) ELSE x < y
Precedes(s, t) ==
  \E i \in 1..Len(t) :
    /\ i <= Len(s) + 1
    /\ \A j \in 1..i - 1 : s[j] = t[j]
    /\ i <= Len(s) => Less(s[i], t[i])

Sequenced(c) == IF kind = "map" THEN Entries(c) ELSE c

Init ==
  /\ kind \in Kinds
  /\ content = <<>>
  /\ saved = <<>>
  /\ ret = Says("none")

Become(c, r) ==
  /\ content' = c
  /\ ret' = r
  /\ UNCHANGED <<kind, saved>>

Answer(r) == Become(content, r)

InsertOrRefuse(i, x) ==
  IF Len(content) = Capacity THEN Answer(Says("Capacity"))
  ELSE Become(InsertAt(content, i, x), Says("ok"))

TryFromSlice(s) ==
  /\ kind = "vec"
  /\ IF Len(s) > Capacity THEN Answer(Says("Capacity")) ELSE Become(s, Says("ok"))

TryPush(x) ==
  /\ kind = "vec"
  /\ InsertOrRefuse(Len(content) + 1, x)

Pop ==
  /\ kind = "vec"
  /\ IF content = <<>> THEN Answer(Says("None"))
     ELSE Become(Front(content), Gives(<<Last(content)>>))

RemoveFrom(i) ==
  /\ kind = "vec"
  /\ IF i >= Len(content) THEN Answer(Says("None"))
     ELSE Become(RemoveAt(content, i + 1), Gives(<<content[i + 1]>>))

TryInsert(i, x) ==
  /\ kind = "vec"
  /\ InsertOrRefuse((IF i < Len(content) THEN i ELSE Len(content)) + 1, x)

SetElement(i, x) ==
  /\ kind = "vec"
  /\ IF i >= Len(content) THEN Answer(Says("None"))
     ELSE Become([content EXCEPT ![i + 1] = x], Says("ok"))

Truncate(n) ==
  /\ kind = "vec"
  /\ Become(IF n < Len(content) THEN SubSeq(content, 1, n) ELSE content, Says("ok"))

Clear ==
  /\ kind \in {"vec", "map", "string"}
  /\ Become(<<>>, Says("ok"))

TryPushStr(s) ==
  /\ kind = "string"
  /\ IF Size(content) + Size(s) > Capacity
     THEN Answer(Says("Capacity"))
     ELSE Become(content \o s, Says("ok"))

MapInsert(k, v) ==
  /\ kind = "map"
  /\ CASE k \in DOMAIN content ->
            Become([content EXCEPT ![k] = v], Gives(<<content[k]>>))
       [] k \notin DOMAIN content /\ Cardinality(DOMAIN content) = Capacity ->
            Answer(Says("Capacity"))
       [] k \notin DOMAIN content /\ Cardinality(DOMAIN content) < Capacity ->
            Become([x \in DOMAIN content \cup {k} |-> IF x = k THEN v ELSE content[x]],
                   Says("None"))

Found(f, k) == IF k \in DOMAIN f THEN Gives(<<f[k]>>) ELSE Says("None")

MapGet(k) == kind = "map" /\ Answer(Found(content, k))

MapSet(k, v) ==
  /\ kind = "map"
  /\ IF k \in DOMAIN content THEN Become([content EXCEPT ![k] = v], Says("ok"))
     ELSE Answer(Says("None"))

MapRemove(k) ==
  /\ kind = "map"
  /\ Become(Restrict(content, DOMAIN content \ {k}), Found(content, k))

Iterate ==
  /\ kind \in {"map", "vec"}
  /\ Answer(Gives(IF kind = "map" THEN FlattenSeq(Entries(content)) ELSE content))

Replace(x) ==
  /\ kind = "option"
  /\ Become(<<x>>, IF content = <<>> THEN Says("None") ELSE Gives(content))

Take ==
  /\ kind = "option"
  /\ Become(<<>>, IF content = <<>> THEN Says("None") ELSE Gives(content))

SaveValue ==
  /\ saved' = <<content>>
  /\ ret' = Says("ok")
  /\ UNCHANGED <<kind, content>>

\* Bytes from elsewhere stand for some value or are refused.
Load ==
  /\ saved = <<>>
  /\ \/ /\ ret' = Says("ok")
        /\ \E c \in IF kind = "map" THEN UNION {[ks -> Elems] : ks \in SUBSET Keys}
                    ELSE BoundedSeq(IF kind = "string" THEN Chars ELSE Elems, Capacity) :
             saved' = <<c>>
     \/ ret' = Says("Invalid") /\ UNCHANGED saved
  /\ UNCHANGED <<kind, content>>

ReadBack ==
  /\ saved # <<>>
  /\ Become(saved[1], Says("ok"))

Search(k) ==
  /\ kind = "map" /\ saved # <<>>
  /\ Answer(Found(saved[1], k))

Compare ==
  /\ saved # <<>>
  /\ LET c == Sequenced(content)
         s == Sequenced(saved[1])
     IN  Answer(Says(CASE Precedes(c, s) -> "Less"
                       [] Precedes(s, c) -> "Greater"
                       [] c = s          -> "Equal"))

Next ==
  \/ \E s \in BoundedSeq(Elems, Capacity + 1) : TryFromSlice(s)
  \/ \E x \in Elems : TryPush(x) \/ Replace(x)
  \/ Pop \/ Take \/ Clear
  \/ \E i \in 0..MaxAsk : RemoveFrom(i) \/ Truncate(i)
  \/ \E i \in 0..MaxAsk, x \in Elems : TryInsert(i, x) \/ SetElement(i, x)
  \/ \E s \in BoundedSeq(Chars, 2) : TryPushStr(s)
  \/ \E k \in Keys, v \in Elems : MapInsert(k, v) \/ MapSet(k, v)
  \/ \E k \in Keys : MapGet(k) \/ MapRemove(k) \/ Search(k)
  \/ Iterate \/ SaveValue \/ Load \/ ReadBack \/ Compare

Spec == Init /\ [][Next]_vars
=============================================================================
