----------------------------- MODULE UnitOfWork -----------------------------
(***************************************************************************)
(* SqliteUnitOfWork in write mode: a lease on the maintenance of the         *)
(* database, a connection, and one transaction.  Each of the calls it makes  *)
(* may raise, and its user may die.                                          *)
(***************************************************************************)
CONSTANTS
  Unit,
  Free    \* no unit holds the lease

ASSUME FreeAssumption == Free \notin Unit

VARIABLES
  state,   \* _UowState of each unit
  open,    \* the units whose connection is open
  lease,   \* the unit that holds the maintenance lease
  stored,  \* what the database durably holds
  staged   \* what the transaction of the lease's holder sees

uowVars == <<state, open, lease, stored, staged>>

UowState == {"NEW", "ACTIVE", "COMMITTED", "ROLLED_BACK", "CLOSED"}

UowInit(empty) ==
  /\ state = [u \in Unit |-> "NEW"]
  /\ open = {} /\ lease = Free
  /\ stored = empty /\ staged = empty

-----------------------------------------------------------------------------
\* __enter__: the lease, then the connection, then BEGIN IMMEDIATE.
Enter(u) ==
  /\ state[u] = "NEW" /\ lease = Free
  /\ state' = [state EXCEPT ![u] = "ACTIVE"]
  /\ open' = open \cup {u} /\ lease' = u
  /\ staged' = stored
  /\ UNCHANGED stored

\* The lease is not free in time, or the database cannot be opened or locked: the
\* connection is closed, the lease released and the unit as new as it was.
EnterFails(u) == state[u] = "NEW" /\ UNCHANGED uowVars

Stage(u, changed) ==
  /\ state[u] = "ACTIVE"
  /\ staged' = changed
  /\ UNCHANGED <<state, open, lease, stored>>

\* Mutant: the transaction is taken for committed once commit has been called.
CommitUnheard(u) ==
  /\ state[u] = "ACTIVE"
  /\ stored' \in {staged, stored}
  /\ state' = [state EXCEPT ![u] = "COMMITTED"]
  /\ UNCHANGED <<open, lease, staged>>

\* commit: the transaction only.  If it raises, the unit stays active.
CommitTransaction(u) ==
  /\ state[u] = "ACTIVE"
  /\ stored' = staged
  /\ state' = [state EXCEPT ![u] = "COMMITTED"]
  /\ UNCHANGED <<open, lease, staged>>

\* The rest of commit: closing and releasing are both tried, whichever raises.
CloseAndRelease(u) ==
  /\ open' = open \ {u}
  /\ lease' = IF lease = u THEN Free ELSE lease

Released(u) ==
  /\ state[u] = "COMMITTED" /\ u \in open
  /\ CloseAndRelease(u)
  /\ UNCHANGED <<state, stored, staged>>

\* Mutant: __exit__ raises what the rollback raised before it closes anything.
ExitEarly(u) ==
  /\ state[u] \in {"ACTIVE", "COMMITTED", "ROLLED_BACK"}
  /\ \/ CloseAndRelease(u)
     \/ state[u] = "ACTIVE" /\ UNCHANGED <<open, lease>>
  /\ state' = [state EXCEPT ![u] = "CLOSED"]
  /\ UNCHANGED <<stored, staged>>

\* __exit__: an active unit is rolled back; if that raises, closing the connection
\* ends its transaction all the same.
Exit(u) ==
  /\ state[u] \in {"ACTIVE", "COMMITTED", "ROLLED_BACK"}
  /\ CloseAndRelease(u)
  /\ state' = [state EXCEPT ![u] = "CLOSED"]
  /\ UNCHANGED <<stored, staged>>

\* The process dies: the system closes what it had open.
UnitDies(u) ==
  /\ state' = [state EXCEPT ![u] = "CLOSED"]
  /\ CloseAndRelease(u)
  /\ UNCHANGED <<stored, staged>>
=============================================================================
