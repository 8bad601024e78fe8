CONSTANTS
  h1 = h1
  h2 = h2
  r1 = r1
  s1 = s1
  s2 = s2
  t1 = t1
  c1 = c1
  c2 = c2
  p1 = p1
  amount = amount
  phase1 = phase1
  v1 = v1
  v2 = v2
  inhand = inhand
  Absent = Absent
  NoPath = NoPath
  NoRun = NoRun
  NoPlan = NoPlan
  NoResult = NoResult
  NoFact = NoFact
  Emptied = Emptied
  Torn = Torn
  NoProject = NoProject
  NoRecord = NoRecord
  Host <- TwoHosts
  Project <- Projects
  Field <- Fields
  Value <- Values
  Threshold <- Thresholds
  TopScore = 3
  Stage <- Phases
  Record <- Moves
  Run <- Runs
  Path <- Paths
  Content <- Contents
  Start <- Folders
  Input <- Inputs
  Extraction <- Readings
  Decision <- Decisions
  Correction <- Corrections
  MaxMishaps = 1
  MaxCalls = 5
SPECIFICATION Spec
SYMMETRY Symmetry
INVARIANT LedgersAreSound
INVARIANT RecordsAreTrue
INVARIANT RecordedUnlessSpoiled
INVARIANT LostOnlyToARace
PROPERTY HeldBackForGood
CHECK_DEADLOCK FALSE
