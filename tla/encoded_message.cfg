\* One object, every log message of up to four tokens, each also a query.
CONSTANTS
  MaxChar = 5
  Messages <- Messages4
  Interpreted <- Interpreted2
  Null = Null
SPECIFICATION QuerySpec
INVARIANTS
  TypeOK
  DecodesToMessage
  StringsDecodeToMessage
  AccessorsAgree
  AsciiQueryMatchesItsMessage
