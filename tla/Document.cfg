CONSTANTS
  r1 = r1
  r2 = r2
  f1 = f1
  f2 = f2
  bill = bill
  scan = scan
  Free = Free
  Gone = Gone
  Unit <- Calls
  File <- Files
  Content <- Contents
  Input <- Inputs
  Native <- Natives
  Scanned <- Scans
  Ready <- Readies
  Marked <- Contents
  Invoices <- Natives
  MaxEdits = 1
  Faulty = TRUE
SPECIFICATION Spec
CHECK_DEADLOCK FALSE
INVARIANT RunsAreWhole
INVARIANT OutcomeIsHonest
INVARIANT NothingIsHeld
PROPERTY CommitsAddUp
