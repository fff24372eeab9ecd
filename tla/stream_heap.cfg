\* Two streams of both kinds that share the native heap; one sink is lenient.
CONSTANTS
  f = f
  e = e
  Streams = {f, e}
  FourByteStreams = {f}
  LenientStreams = {e}
  Addresses = {1, 2}
  Half = 1
  WriteFaults <- AllFaults
  CloseMayFail = TRUE
  MaxConstructed = 2
  MaxRecords = 2
SPECIFICATION Spec
INVARIANTS
  HeapExact
  NativeStateLive
