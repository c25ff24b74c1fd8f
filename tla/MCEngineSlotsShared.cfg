CONSTANTS
  c1 = c1
  c2 = c2
  c3 = c3
  m1 = m1
  m2 = m2
  NoCall = NoCall
  Calls = {c1, c2}
  Models = {m1, m2}
  ModelOf <- Shared
  Parallel = 2
  HonorsAbort = {m1}
  Droppable = {c1, c2}
SPECIFICATION FairSpec
PROPERTY
  SessionPassedOn
