CONSTANTS
  read = read
  write = write
  typo = typo
  Call <- Calls
  Missing <- Unknown
  MaxRounds = 5
  DedupThreshold = 2
  RetryMax = 1
  Window = 1
  Budget = 8
  Cost <- Costs
SPECIFICATION FairSpec
INVARIANT ToolsRunBounded
INVARIANT TraceIsComplete
INVARIANT PlannerSeesGoalAndOutcome
PROPERTY RunEnds
CHECK_DEADLOCK FALSE
