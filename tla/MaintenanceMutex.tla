-------------------------- MODULE MaintenanceMutex --------------------------
(***************************************************************************)
(* _DatabaseMaintenanceMutex.hold: a reentrant thread lock per process and  *)
(* an advisory file lock between processes.  hold(t) passes through         *)
(* acquiring the thread lock, opening the lock file, locking it, the body   *)
(* and the way back; a nested hold of the same thread only counts.          *)
(***************************************************************************)
EXTENDS Naturals

CONSTANTS
  Thread,
  Proc,         \* processes
  Home,         \* the process of each thread
  MaxDepth,     \* bound: nesting of hold within a thread
  UnlockFaults, \* whether releasing the file lock may raise
  MaxLeaks,     \* bound: acquisitions left behind by such a release
  Nobody

ASSUME HomeAssumption == Home \in [Thread -> Proc]
ASSUME NobodyAssumption == Nobody \notin Thread
ASSUME MutexBoundAssumption ==
  MaxDepth \in Nat /\ UnlockFaults \in BOOLEAN /\ MaxLeaks \in Nat

VARIABLES
  owner,       \* owner of each process's RLock
  count,       \* recursion count of each process's RLock
  depth,       \* thread-local depth
  descriptor,  \* whether a thread has the lock file open
  fileLock,    \* thread whose descriptor holds the file lock
  pc           \* where each thread is in hold

vars == <<owner, count, depth, descriptor, fileLock, pc>>

TypeOK ==
  /\ owner \in [Proc -> Thread \cup {Nobody}]
  /\ count \in [Proc -> Nat]
  /\ depth \in [Thread -> Nat]
  /\ descriptor \in [Thread -> BOOLEAN]
  /\ fileLock \in Thread \cup {Nobody}
  /\ pc \in [Thread -> {"out", "opening", "locking", "body", "unlocking"}]

Init ==
  /\ owner = [p \in Proc |-> Nobody]
  /\ count = [p \in Proc |-> 0]
  /\ depth = [t \in Thread |-> 0]
  /\ descriptor = [t \in Thread |-> FALSE]
  /\ fileLock = Nobody
  /\ pc = [t \in Thread |-> "out"]

Goto(t, label) == pc' = [pc EXCEPT ![t] = label]

TakeThreadLock(t) ==
  /\ owner[Home[t]] \in {Nobody, t}
  /\ owner' = [owner EXCEPT ![Home[t]] = t]
  /\ count' = [count EXCEPT ![Home[t]] = @ + 1]

\* RLock.release: the lock is free again once every acquire is undone.
ReleaseThreadLock(t) ==
  /\ count' = [count EXCEPT ![Home[t]] = @ - 1]
  /\ owner' = [owner EXCEPT ![Home[t]] = IF count[Home[t]] = 1 THEN Nobody ELSE t]

\* The outermost hold of a thread.  A thread that times out here has changed
\* nothing.
EnterThread(t) ==
  /\ pc[t] = "out"
  /\ TakeThreadLock(t)
  /\ Goto(t, "opening")
  /\ UNCHANGED <<depth, descriptor, fileLock>>

\* A hold inside a hold.
EnterNested(t) ==
  /\ pc[t] = "body" /\ depth[t] < MaxDepth
  /\ TakeThreadLock(t)
  /\ depth' = [depth EXCEPT ![t] = @ + 1]
  /\ UNCHANGED <<descriptor, fileLock, pc>>

OpenLockFile(t) ==
  /\ pc[t] = "opening"
  /\ descriptor' = [descriptor EXCEPT ![t] = TRUE]
  /\ Goto(t, "locking")
  /\ UNCHANGED <<owner, count, depth, fileLock>>

\* Mutant: the file lock is not exclusive.
AcquireSharedFileLock(t) ==
  /\ pc[t] = "locking"
  /\ fileLock' = t
  /\ depth' = [depth EXCEPT ![t] = @ + 1]
  /\ Goto(t, "body")
  /\ UNCHANGED <<owner, count, descriptor>>

AcquireFileLock(t) ==
  /\ pc[t] = "locking" /\ fileLock = Nobody
  /\ fileLock' = t
  /\ depth' = [depth EXCEPT ![t] = @ + 1]
  /\ Goto(t, "body")
  /\ UNCHANGED <<owner, count, descriptor>>

\* The lock file cannot be opened, or stays locked until the deadline.
GiveUp(t) ==
  /\ \/ pc[t] = "opening"
     \/ pc[t] = "locking" /\ fileLock # Nobody
  /\ descriptor' = [descriptor EXCEPT ![t] = FALSE]
  /\ ReleaseThreadLock(t)
  /\ Goto(t, "out")
  /\ UNCHANGED <<depth, fileLock>>

LeaveNested(t) ==
  /\ pc[t] = "body" /\ depth[t] > 1
  /\ depth' = [depth EXCEPT ![t] = @ - 1]
  /\ ReleaseThreadLock(t)
  /\ UNCHANGED <<descriptor, fileLock, pc>>

\* Mutant: the outermost hold leaves like a nested one.
LeaveBodyLocked(t) ==
  /\ pc[t] = "body" /\ depth[t] = 1
  /\ depth' = [depth EXCEPT ![t] = 0]
  /\ ReleaseThreadLock(t)
  /\ Goto(t, "out")
  /\ UNCHANGED <<descriptor, fileLock>>

LeaveBody(t) ==
  /\ pc[t] = "body" /\ depth[t] = 1
  /\ depth' = [depth EXCEPT ![t] = 0]
  /\ Goto(t, "unlocking")
  /\ UNCHANGED <<owner, count, descriptor, fileLock>>

\* Closing the descriptor drops the file lock in any case.
CloseLockFile(t) ==
  /\ pc[t] = "unlocking"
  /\ fileLock' = Nobody
  /\ descriptor' = [descriptor EXCEPT ![t] = FALSE]
  /\ Goto(t, "out")
  /\ UNCHANGED depth

Unlock(t) == CloseLockFile(t) /\ ReleaseThreadLock(t)

\* An exception of _release_file_lock leaves the finally block before the
\* thread lock is released.  MaxLeaks bounds how often that piles up.
UnlockRaises(t) ==
  /\ UnlockFaults /\ count[Home[t]] <= MaxLeaks
  /\ CloseLockFile(t)
  /\ UNCHANGED <<owner, count>>

\* The process dies, and the system drops everything it held.
Kill(p) ==
  LET dead(t) == Home[t] = p
  IN /\ owner' = [owner EXCEPT ![p] = Nobody]
     /\ count' = [count EXCEPT ![p] = 0]
     /\ depth' = [t \in Thread |-> IF dead(t) THEN 0 ELSE depth[t]]
     /\ descriptor' = [t \in Thread |-> ~dead(t) /\ descriptor[t]]
     /\ fileLock' = IF fileLock \in Thread /\ dead(fileLock) THEN Nobody
                    ELSE fileLock
     /\ pc' = [t \in Thread |-> IF dead(t) THEN "out" ELSE pc[t]]

Step(t) ==
  \/ OpenLockFile(t) \/ AcquireFileLock(t) \/ GiveUp(t)
  \/ LeaveNested(t) \/ LeaveBody(t) \/ Unlock(t)

Next ==
  \/ \E t \in Thread :
       EnterThread(t) \/ EnterNested(t) \/ Step(t) \/ UnlockRaises(t)
  \/ \E p \in Proc : Kill(p)

Spec == Init /\ [][Next]_vars

\* A thread inside hold keeps running, and the body of every nested hold ends.
FairSpec == Spec /\ \A t \in Thread :
  /\ WF_vars(Step(t))
  /\ SF_vars(LeaveBody(t))
  /\ \A d \in 2..MaxDepth : SF_vars(depth[t] = d /\ LeaveNested(t))

-----------------------------------------------------------------------------
\* A thread in a body owns both locks, and its depth counts the thread lock.
MutexInv ==
  \A t \in Thread :
    /\ depth[t] > 0 <=> pc[t] = "body"
    /\ pc[t] # "out" => owner[Home[t]] = t
    /\ pc[t] # "out" => count[Home[t]] >= 1 /\ count[Home[t]] >= depth[t]
    /\ pc[t] \in {"body", "unlocking"} <=> fileLock = t

\* The lease is handed back.
LeaseIsReturned == \A t \in Thread : fileLock = t ~> fileLock # t

LeaseOf == INSTANCE Lease WITH held <- depth

\* The two locks together are the reentrant lease the docstring promises,
\* exclusive across threads and processes.
ImplementsLease == LeaseOf!Spec
=============================================================================
