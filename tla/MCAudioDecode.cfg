CONSTANTS
  None = None
  Decoders = {d1, d2}
  Files <- SomeFiles
  CodecDelay = 2
  Hold = 3
  FlushLen = 2
SPECIFICATION FairSpec
INVARIANTS
  DecodesAll
  LibavReady
PROPERTY
  DecodeEnds
CHECK_DEADLOCK FALSE
