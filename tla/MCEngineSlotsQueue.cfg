CONSTANTS
  c1 = c1
  c2 = c2
  c3 = c3
  m1 = m1
  m2 = m2
  NoCall = NoCall
  Calls = {c1, c2, c3}
  Models = {m1, m2}
  ModelOf <- OneModel
  Parallel = 1
  HonorsAbort = {m1}
  Droppable = {c1, c2}
SPECIFICATION Spec
INVARIANT
  IInv
PROPERTY
  ServiceSpec
