SPECIFICATION Spec
CONSTANTS
  c1 = c1
  c2 = c2
  Caller <- Callers
  r1 = r1
  r2 = r2
  i1 = i1
  i2 = i2
  i3 = i3
  Response = {r1, r2}
  Item = {i1, i2}
  KindOf <- MCKindOf
  Batch <- MCBatch
  NotADict = NotADict
  Foreign = Foreign
  NoFile = NoFile
  Nobody = Nobody
  MaxCalls = 4
  Faulty = TRUE
INVARIANTS
  ConsumedOnce
  AcceptedIsKept
  ArtifactsAgree
  RolledBackIsWhole
SYMMETRY Symmetry
CHECK_DEADLOCK FALSE
