\* Two streams whose sinks refuse writes for a while; the callers retry close().
CONSTANTS
  f = f
  e = e
  Streams = {f, e}
  FourByteStreams = {f}
  LenientStreams = {e}
  Addresses = {1, 2}
  Half = 1
  WriteFaults <- RefusedOnly
  CloseMayFail = FALSE
  MaxConstructed = 2
  MaxRecords = 2
SPECIFICATION FairSpec
PROPERTIES
  RetriedCloseReleases
