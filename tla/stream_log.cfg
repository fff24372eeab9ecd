\* One stream, of either kind, whose sink fails in every way, except that no
\* event the four-byte one has encoded is refused.
CONSTANTS
  f = f
  e = e
  Streams = {f, e}
  FourByteStreams = {f}
  LenientStreams = {e}
  Addresses = {1}
  Half = 2
  WriteFaults <- AllButLostEvents
  CloseMayFail = TRUE
  MaxConstructed = 1
  MaxRecords = 4
SPECIFICATION Spec
INVARIANTS
  TypeOK
  AcceptedDecodable
PROPERTIES
  ClosedStreamInert
  ImplementsIrLog
