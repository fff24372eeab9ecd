\* One stream of either kind whose sink may refuse writes.
CONSTANTS
  f = f
  e = e
  Streams = {f, e}
  FourByteStreams = {f}
  LenientStreams = {}
  Addresses = {1}
  Half = 2
  WriteFaults <- RefusedOnly
  CloseMayFail = FALSE
  MaxConstructed = 1
  MaxRecords = 3
SPECIFICATION Spec
INVARIANTS
  DeltaSincePreviousMessage
