------------------------- MODULE MCMaintenanceMutex -------------------------
(* Four threads in two processes.                                         *)
EXTENDS MaintenanceMutex, TLC

CONSTANTS t1, t2, t3, t4, p1, p2

Threads == {t1, t2, t3, t4}
Procs == {p1, p2}
HomeOf == (t1 :> p1) @@ (t2 :> p1) @@ (t3 :> p2) @@ (t4 :> p2)
=============================================================================
