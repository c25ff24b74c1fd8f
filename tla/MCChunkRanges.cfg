CONSTANTS
  MaxChunk = 6
  Frame = 2
  SearchBackMax = 5
  SearchBackPercent = 67
  Threshold = 2
  MaxLen = 13
  Recordings <- AllRecordings
SPECIFICATION Spec
INVARIANTS
  Tiling
  CutsInSilence
  CutsWhereScanDoes
  NeverFarShort
PROPERTY
  AllSplit
CHECK_DEADLOCK FALSE
