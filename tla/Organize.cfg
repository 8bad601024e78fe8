CONSTANTS
  h1 = h1
  h2 = h2
  r1 = r1
  r2 = r2
  c1 = c1
  c2 = c2
  s1 = s1
  s2 = s2
  t1 = t1
  t2 = t2
  NoPath = NoPath
  Skip = Skip
  NoHost = NoHost
  Host <- TwoHosts
  Run <- OneRun
  FileContent <- Contents
  SourcePath <- Sources
  ArchivePath <- Archives
  MaxEdits = 1
  Faulty = TRUE
SPECIFICATION Spec
SYMMETRY Symmetry
INVARIANT StillMayMove
INVARIANT LocationsAreTrue
PROPERTY NothingIsLost
PROPERTY ExecutedMeansThere
CHECK_DEADLOCK FALSE
