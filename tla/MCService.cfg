SPECIFICATION FairSpec
CONSTANTS
  rec = rec
  live = live
  probe = probe
  None = None
  Clients <- Everyone
  Kind <- Kinds
  Presents <- Headers
  Configs <- SomeConfigs
  Trim <- Trimmed
  Parallel = 1
  MaxChunks = 2
INVARIANTS KeysEnforced OnlyStreamsCut
PROPERTY ShutdownEnds
CHECK_DEADLOCK FALSE
