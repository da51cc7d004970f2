---------------------------- MODULE OrderedKeys ----------------------------
(***************************************************************************)
(* OrderedKeyEncoding, one implementation for each kind of key type.  An   *)
(* implementation is a record of the values of the type, the pairs of them *)
(* that are in ascending order, the encoding of a value, the decoding of   *)
(* bytes from the front, and the length an encoding may have.  The         *)
(* implementations for vectors, tuples and enums take those of their       *)
(* parts, as the generic ones do.                                          *)
(*                                                                         *)
(* A byte is a number below Base and FF, the largest, plays 0xFF; no text  *)
(* holds an FF, as in UTF-8.                                               *)
(***************************************************************************)
EXTENDS ByteOrder, SequencesExt

CONSTANTS
  Base,           \* how many values a byte has
  CharWidth,      \* bytes of a code point
  Chars           \* the code points that are characters

FF == Base - 1
Byte == 0..FF
TextByte == 0..FF - 1

\* How many integers have so many bytes.
Full[width \in Nat] == IF width = 0 THEN 1 ELSE Base * Full[width - 1]
Half(width) == Full[width] \div 2

ASSUME KeyAssumption ==
  /\ Base \in Nat \ {0, 1, 2}
  /\ Base % 2 = 0
  /\ CharWidth \in Nat
  /\ Chars \subseteq 0..Full[CharWidth] - 1

(* A failure, and a success that used that many bytes.                     *)
Fails(res) == [res |-> res, value |-> 0, used |-> 0]
Ok(value, used) == [res |-> "ok", value |-> value, used |-> used]

\* The bytes from a position on.
From(bytes, pos) == SubSeq(bytes, pos + 1, Len(bytes))

Ascending(S) == {p \in S \X S : p[1] < p[2]}
AscendingBytes(S) == {p \in S \X S : memcmp(p[1], p[2])}

\* s comes first: at the first place they differ it ends or has the smaller
\* element, in the order of that place.
Lex(s, t, below) ==
  \E i \in 1..Len(t) :
    /\ i <= Len(s) + 1
    /\ \A j \in 1..i - 1 : s[j] = t[j]
    /\ i <= Len(s) => <<s[i], t[i]>> \in below[i]

----------------------------------------------------------------------------
(* Integers and characters. *)

to_be_bytes(n, width) ==
  LET shifted[k \in Nat] == IF k = 0 THEN n ELSE shifted[k - 1] \div Base
  IN  [i \in 1..width |-> shifted[width - i] % Base]
from_be_bytes(bytes) ==
  LET upto[k \in 0..Len(bytes)] == IF k = 0 THEN 0 ELSE upto[k - 1] * Base + bytes[k]
  IN  upto[Len(bytes)]

\* Mutant: the sign bit is not flipped.
sign_not_flipped(n, width) == (n + Full[width]) % Full[width]
\* The integer as unsigned with its sign bit flipped, and back.
flip(n, width) == (n + Full[width] + Half(width)) % Full[width]
unflip(u, width) == u - Half(width)

\* Fixed-width types: the leading bytes, if they are all there.
leading(bytes, width) ==
  IF Len(bytes) < width THEN Fails("Truncated") ELSE Ok(SubSeq(bytes, 1, width), width)

decode_unsigned(bytes, width) ==
  LET be == leading(bytes, width)
  IN  IF be.res = "ok" THEN Ok(from_be_bytes(be.value), width) ELSE be

unsigned(width) ==
  [values |-> 0..Full[width] - 1,
   below  |-> Ascending(0..Full[width] - 1),
   encode |-> [v \in 0..Full[width] - 1 |-> to_be_bytes(v, width)],
   decode |-> [bytes \in Seq(Byte) |-> decode_unsigned(bytes, width)],
   max    |-> width]

decode_signed(bytes, width) ==
  LET flipped == decode_unsigned(bytes, width)
  IN  IF flipped.res = "ok" THEN Ok(unflip(flipped.value, width), width) ELSE flipped

signed(width) ==
  LET values == -Half(width)..Half(width) - 1
  IN  [values |-> values,
       below  |-> Ascending(values),
       encode |-> [v \in values |-> to_be_bytes(flip(v, width), width)],
       decode |-> [bytes \in Seq(Byte) |-> decode_signed(bytes, width)],
       max    |-> width]

decode_char(bytes) ==
  LET code == decode_unsigned(bytes, CharWidth)
  IN  IF code.res = "ok" /\ code.value \notin Chars THEN Fails("Malformed") ELSE code

char ==
  [values |-> Chars,
   below  |-> Ascending(Chars),
   encode |-> [v \in Chars |-> to_be_bytes(v, CharWidth)],
   decode |-> [bytes \in Seq(Byte) |-> decode_char(bytes)],
   max    |-> CharWidth]

decode_bool(bytes) ==
  CASE bytes = <<>>            -> Fails("Truncated")
    [] bytes # <<>> /\ Head(bytes) \in {0, 1}    -> Ok(Head(bytes) = 1, 1)
    [] bytes # <<>> /\ Head(bytes) \notin {0, 1} -> Fails("Malformed")

bool ==
  [values |-> BOOLEAN,
   below  |-> {<<FALSE, TRUE>>},
   encode |-> [v \in BOOLEAN |-> <<IF v THEN 1 ELSE 0>>],
   decode |-> [bytes \in Seq(Byte) |-> decode_bool(bytes)],
   max    |-> 1]

byte_array(width) ==
  LET values == [1..width -> Byte]
  IN  [values |-> values,
       below  |-> AscendingBytes(values),
       encode |-> [v \in values |-> v],
       decode |-> [bytes \in Seq(Byte) |-> leading(bytes, width)],
       max    |-> width]

----------------------------------------------------------------------------
(* Text. *)

\* Mutant: a zero in a text ends it.
escape_raw(text) == text \o <<0>>
escaped(b) == IF b = 0 THEN <<0, FF>> ELSE <<b>>
escape(text) == FlattenSeq([i \in DOMAIN text |-> escaped(text[i])]) \o <<0>>

\* Mutant: no room for escapes.
max_text_unescaped(cap) == cap + 1
max_text(cap) == 2 * cap + 1

\* Reading has begun: nothing read yet.
Reading == [res |-> "reading", value |-> <<>>, used |-> 0]
\* It has read one more thing and stands behind it.
Read(so, x, n) ==
  [res |-> "reading", value |-> Append(so.value, x), used |-> so.used + n]

\* One turn of the loop that reads a text.
next_byte(bytes, cap, so) ==
  LET rest == From(bytes, so.used)
      nul == Len(rest) > 1 /\ rest[1] = 0 /\ rest[2] = FF
  IN  IF rest = <<>> THEN Fails("Truncated")
      ELSE IF rest[1] = 0 /\ ~nul
      THEN IF so.value \in Seq(TextByte) THEN Ok(so.value, so.used + 1)
           ELSE Fails("Malformed")
      ELSE IF Len(so.value) >= cap THEN Fails("CapacityExceeded")
      ELSE Read(so, rest[1], IF nul THEN 2 ELSE 1)

\* Every turn but the last uses a byte.
unescape(bytes, cap) ==
  LET after[n \in Nat] ==
        IF n = 0 THEN Reading
        ELSE IF after[n - 1].res = "reading" THEN next_byte(bytes, cap, after[n - 1])
        ELSE after[n - 1]
  IN  after[Len(bytes) + 1]

string(cap) ==
  LET values == BoundedSeq(TextByte, cap)
  IN  [values |-> values,
       below  |-> AscendingBytes(values),
       encode |-> [v \in values |-> escape(v)],
       decode |-> [bytes \in Seq(Byte) |-> unescape(bytes, cap)],
       max    |-> max_text(cap)]

----------------------------------------------------------------------------
(* Types made of others. *)

\* Mutant: any marker but the terminator is taken for an element's.
vec_any_marker(b) == b # 0
vec_marker(b) == b = 1

\* One turn of the loop that reads a vector.
next_item(of, bytes, cap, so) ==
  LET rest == From(bytes, so.used)
      item == of.decode[From(bytes, so.used + 1)]
  IN  IF rest = <<>> THEN Fails("Truncated")
      ELSE IF rest[1] = 0 THEN Ok(so.value, so.used + 1)
      ELSE IF ~vec_marker(rest[1]) THEN Fails("Malformed")
      ELSE IF item.res # "ok" THEN item
      ELSE IF Len(so.value) = cap THEN Fails("CapacityExceeded")
      ELSE Read(so, item.value, 1 + item.used)

decode_vec(of, bytes, cap) ==
  LET after[n \in Nat] ==
        IF n = 0 THEN Reading
        ELSE IF after[n - 1].res = "reading" THEN next_item(of, bytes, cap, after[n - 1])
        ELSE after[n - 1]
  IN  after[Len(bytes) + 1]

vec(of, cap) ==
  LET values == BoundedSeq(of.values, cap)
  IN  [values |-> values,
       below  |-> {p \in values \X values : Lex(p[1], p[2], [i \in 1..cap |-> of.below])},
       encode |-> [v \in values |->
                     FlattenSeq([i \in DOMAIN v |-> <<1>> \o of.encode[v[i]]]) \o <<0>>],
       decode |-> [bytes \in Seq(Byte) |-> decode_vec(of, bytes, cap)],
       max    |-> cap * (1 + of.max) + 1]

\* The next field, if all before it could be read.
next_field(field, bytes, so) ==
  LET item == field.decode[From(bytes, so.used)]
  IN  IF item.res # "ok" THEN item ELSE Read(so, item.value, item.used)

decode_tuple(fields, bytes) ==
  LET after[n \in 0..Len(fields)] ==
        IF n = 0 THEN Reading
        ELSE IF after[n - 1].res = "reading" THEN next_field(fields[n], bytes, after[n - 1])
        ELSE after[n - 1]
      last == after[Len(fields)]
  IN  IF last.res = "reading" THEN Ok(last.value, last.used) ELSE last

\* One value of each field; a tuple without fields is ().
TupleValues(fields) ==
  LET values[n \in 0..Len(fields)] ==
        IF n = 0 THEN {<<>>}
        ELSE {Append(v, x) : v \in values[n - 1], x \in fields[n].values}
  IN  values[Len(fields)]

max_tuple(fields) ==
  LET max[n \in 0..Len(fields)] == IF n = 0 THEN 0 ELSE max[n - 1] + fields[n].max
  IN  max[Len(fields)]

tuple(fields) ==
  LET values == TupleValues(fields)
  IN  [values |-> values,
       below  |-> {p \in values \X values :
                     Lex(p[1], p[2], [i \in DOMAIN fields |-> fields[i].below])},
       encode |-> [v \in values |->
                     FlattenSeq([i \in DOMAIN v |-> fields[i].encode[v[i]]])],
       decode |-> [bytes \in Seq(Byte) |-> decode_tuple(fields, bytes)],
       max    |-> max_tuple(fields)]

const_max(a, b) == IF a > b THEN a ELSE b

max_payload(variants) ==
  LET max[n \in 0..Len(variants)] ==
        IF n = 0 THEN 0 ELSE const_max(max[n - 1], variants[n].max)
  IN  max[Len(variants)]

decode_variant(variants, bytes) ==
  LET payload == variants[Head(bytes) + 1].decode[Tail(bytes)]
  IN  IF variants = <<>> THEN Fails("Malformed")
      ELSE IF bytes = <<>> THEN Fails("Truncated")
      ELSE IF Head(bytes) >= Len(variants) THEN Fails("UnknownTag")
      ELSE IF payload.res # "ok" THEN payload
      ELSE Ok(<<Head(bytes), payload.value>>, 1 + payload.used)

\* A schema's key enum: a value is <<tag, payload>>, () the payload of a unit
\* variant.
key_enum(variants) ==
  LET values == UNION {{<<i - 1, p>> : p \in variants[i].values} : i \in DOMAIN variants}
  IN  [values |-> values,
       below  |-> {p \in values \X values :
                     \/ p[1][1] < p[2][1]
                     \/ /\ p[1][1] = p[2][1]
                        /\ <<p[1][2], p[2][2]>> \in variants[p[1][1] + 1].below},
       encode |-> [v \in values |-> <<v[1]>> \o variants[v[1] + 1].encode[v[2]]],
       decode |-> [bytes \in Seq(Byte) |-> decode_variant(variants, bytes)],
       max    |-> 1 + max_payload(variants)]

----------------------------------------------------------------------------
(* What every implementation gets from the trait. *)

encode_into(impl, v, room) ==
  LET bytes == impl.encode[v]
  IN  IF Len(bytes) > room THEN Fails("BufferTooSmall") ELSE Ok(bytes, Len(bytes))

\* A key buffer has max bytes.
encode_key_buf(impl, v) == encode_into(impl, v, impl.max)

decode_exact(impl, bytes) ==
  LET d == impl.decode[bytes]
  IN  IF d.res = "ok" /\ d.used # Len(bytes) THEN Fails("Malformed") ELSE d
=============================================================================
