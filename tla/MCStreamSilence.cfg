CONSTANTS
  MaxChunk = 10
  Frame = 2
  SearchBackMax = 20
  SearchBackPercent = 40
  Threshold = 1
  MaxSamples = 12
  Payloads <- SomePayloads
SPECIFICATION Spec
INVARIANT
  PartialsCutAtSilence
CHECK_DEADLOCK FALSE
