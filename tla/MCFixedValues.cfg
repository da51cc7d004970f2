SPECIFICATION Spec
CONSTANTS
  Kinds = {"vec", "map", "string", "option"}
  Caps <- MCCaps
  Elems = {0, 1}
  Keys = {0, 1, 2}
  Bytes = {0, 1, 2, 3}
  Chars = {0, 1, 2}
  Utf8 <- MCUtf8
  MaxAsk = 4
INVARIANT
  TypeOK
  EqualValuesArchiveAlike
PROPERTY
  ImplementsBoundedValue
