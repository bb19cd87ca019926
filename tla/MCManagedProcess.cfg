SPECIFICATION Spec
CONSTANTS
  c1 = c1  c2 = c2  c3 = c3  i1 = i1  i2 = i2
  Calls = {c1, c2, c3}
  Notes = {}
  Recycles = {}
  Closes = {}
  Ids = {i1, i2}
  IdOf <- FirstApart
  Subprocesses = {g1, g2}
  NoProcess = NoProcess
  NoCall = NoCall
  Unencodable = {c2, c3}
  MayPause = TRUE
CHECK_DEADLOCK FALSE
SYMMETRY Symmetry
INVARIANTS
  TypeOK
  NobodyAwaitsTheDead
  RecyclingHasNoPending
  NoOrphanChild
  AnswerFromSameProcess
PROPERTY KeepsPromise
