\* Messages of up to four tokens, with text that is not ASCII.
CONSTANTS
  MaxChar = 5
  Messages <- Messages4
  Interpreted <- Interpreted2
  Null = Null
SPECIFICATION QuerySpec
INVARIANTS
  QueryMatchesItsMessage
