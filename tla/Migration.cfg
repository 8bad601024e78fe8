CONSTANTS
  r1 = r1
  r2 = r2
  w1 = w1
  u1 = u1
  Nobody = Nobody
  Runner <- TwoRunners
  Writer <- OneWriter
  Raw <- OneRaw
  Target <- TargetTwo
  RawRow <- ForeignRows
  MaxGen = 3
  MaxAttempts = 1
  Faulty = TRUE
SPECIFICATION FairSpec
CHECK_DEADLOCK FALSE
INVARIANT ExecutesOnFreshPoint
INVARIANT EveryMigrationIsRecoverable
INVARIANT AppliesOnCompleteHistory
PROPERTY BatchExcludesManagedCommits
PROPERTY CommandsEnd
