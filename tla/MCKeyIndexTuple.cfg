SPECIFICATION Spec
CONSTANTS
  Base = 4
  CharWidth = 1
  Chars <- MCChars
  Types <- MCTextThenInteger
  Values <- MCKeys
  Impl <- MCImpl
  Before <- IsBelow
  Encode <- EncodeKey
  Decode <- DecodeKey
  MaxLen <- MAX_ENCODED_LEN
  Octets <- Byte
  MaxKeys = 2
  MaxRaw = 5
INVARIANT
  PrefixFree
