SPECIFICATION FairSpec
CONSTANTS
  c1 = c1  c2 = c2  c3 = c3  i1 = i1  i2 = i2
  Calls = {c1}
  Notes = {n1}
  Recycles = {r1}
  Closes = {k1}
  Ids = {i1, i2}
  IdOf <- FirstApart
  Subprocesses = {g1, g2}
  NoProcess = NoProcess
  NoCall = NoCall
  Unencodable = {c1, n1}
  MayPause = FALSE
CHECK_DEADLOCK FALSE
PROPERTY EveryTaskEnds
