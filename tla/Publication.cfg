CONSTANTS
  p1 = p1
  p2 = p2
  r1 = r1
  Foreign = Foreign
  NoEntry = NoEntry
  Garbage = Garbage
  Publisher <- Publishers
  Restorer <- Restorers
  Faulty = TRUE
SPECIFICATION BackupAndRestore
SYMMETRY Symmetry
CHECK_DEADLOCK FALSE
INVARIANT PublishedIsWhole
INVARIANT VerdictsAreTrue
PROPERTY OthersAreSpared
