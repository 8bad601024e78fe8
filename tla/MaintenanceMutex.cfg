CONSTANTS
  t1 = t1
  t2 = t2
  t3 = t3
  t4 = t4
  p1 = p1
  p2 = p2
  Nobody = Nobody
  Thread <- Threads
  Proc <- Procs
  Home <- HomeOf
  MaxDepth = 3
  MaxLeaks = 2
  UnlockFaults = TRUE
SPECIFICATION FairSpec
PROPERTY ImplementsLease
PROPERTY LeaseIsReturned
