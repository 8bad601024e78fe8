-------------------------------- MODULE Lease --------------------------------
(***************************************************************************)
(* What database_maintenance_lock promises: a lease that one thread holds   *)
(* at a time, reentrantly, and that dies with its process.                  *)
(***************************************************************************)
EXTENDS Naturals

CONSTANT Thread

VARIABLE held  \* how often each thread has entered

Init == held = [t \in Thread |-> 0]

Enter(t) ==
  /\ \A u \in Thread \ {t} : held[u] = 0
  /\ held' = [held EXCEPT ![t] = @ + 1]

Leave(t) ==
  /\ held[t] > 0
  /\ held' = [held EXCEPT ![t] = @ - 1]

\* Some threads end without leaving.
Vanish(gone) ==
  held' = [t \in Thread |-> IF t \in gone THEN 0 ELSE held[t]]

Next ==
  \/ \E t \in Thread : Enter(t) \/ Leave(t)
  \/ \E gone \in SUBSET Thread : Vanish(gone)

Spec == Init /\ [][Next]_held
=============================================================================
