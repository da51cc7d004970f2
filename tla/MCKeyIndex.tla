----------------------------- MODULE MCKeyIndex -----------------------------
(* Instances of KeyIndex for model checking. *)
EXTENDS KeyIndex

MCChars == {0, 2}

\* Every kind, alone and inside the others; a string is last in its key or
\* followed by a type no encoding of which begins with FF.
unit == tuple(<<>>)
MCImpl(ty) ==
  CASE ty = "i16"                   -> signed(2)
    [] ty = "char"                  -> char
    [] ty = "[u8; 1]"               -> byte_array(1)
    [] ty = "String<2>"             -> string(2)
    [] ty = "()"                    -> unit
    [] ty = "Vec<bool, 2>"          -> vec(bool, 2)
    [] ty = "Vec<String<1>, 1>"     -> vec(string(1), 1)
    [] ty = "Vec<(bool, i8), 1>"    -> vec(tuple(<<bool, signed(1)>>), 1)
    [] ty = "(String<0>, String<1>)" -> tuple(<<string(0), string(1)>>)
    [] ty = "(String<1>, char)"     -> tuple(<<string(1), char>>)
    [] ty = "(String<1>, Vec<(), 1>)" -> tuple(<<string(1), vec(unit, 1)>>)
    [] ty = "(Vec<bool, 1>, bool)"  -> tuple(<<vec(bool, 1), bool>>)
    [] ty = "(bool, String<1>, ())" -> tuple(<<bool, string(1), unit>>)
    [] ty = "enum"                  ->
         key_enum(<<unit, unsigned(1), key_enum(<<string(1), unit>>)>>)
    [] ty = "(String<1>, u8)"       -> tuple(<<string(1), unsigned(1)>>)

MCTypes ==
  {"i16", "char", "[u8; 1]", "String<2>", "()",
   "Vec<bool, 2>", "Vec<String<1>, 1>", "Vec<(bool, i8), 1>",
   "(String<0>, String<1>)", "(String<1>, char)", "(String<1>, Vec<(), 1>)",
   "(Vec<bool, 1>, bool)", "(bool, String<1>, ())", "enum"}

\* A string followed by an integer.
MCTextThenInteger == {"(String<1>, u8)"}

\* Looked up, where a constant replaced by a definition is computed at every use.
MCKeys == Keys
=============================================================================
