SPECIFICATION ReadersSpec
CONSTANTS
  NL = NL
  COMMA = COMMA
  Char = {a, COMMA, NL}
  MaxLen = 6
  Contents <- AllTexts
  Sizes = {2, 3, 8}
  DEFAULT_SIZE = 3
INVARIANTS ReadersTypeOK NothingDropped RowIsItsLine
PROPERTIES ReadsLines IsASource EndIsFinal NullIsABlankLine ReadsToNull
