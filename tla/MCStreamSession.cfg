CONSTANTS
  MaxChunk = 6
  Frame = 2
  SearchBackMax = 20
  SearchBackPercent = 40
  Threshold = 1
  MaxSamples = 13
  Payloads <- SomePayloads
SPECIFICATION FairSpec
INVARIANTS
  Tiled
  BufferBounded
  FinalSaysAll
  FrameOrder
PROPERTIES
  StopEnds
  DrainEnds
CHECK_DEADLOCK FALSE
