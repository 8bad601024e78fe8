--------------------------- MODULE MigrationProofs ---------------------------
EXTENDS Migration, TLAPS

USE DEF store, locks, disk, batch, token, vars, Process

-----------------------------------------------------------------------------
(* Facts about schema states.                                              *)

\* The rows of a catalog's first n migrations.
Prefix(n) == [version : 1..n, digest : {"catalog"}]

LEMMA UsableRowsArePrefix ==
  ASSUME NEW r \in Runner, NEW state \in DbState, Usable(Status(r, state))
  PROVE  /\ Highest(state.rows) \in Nat
         /\ state.rows = Prefix(Highest(state.rows))
<1> DEFINE rows == state.rows
           n == Highest(rows)
<1>1. /\ n \in Nat
      /\ Versions(rows) = 1..n
      /\ MatchesCatalog(rows)
  BY DEF Usable, Status, InspectSchema, StatusFromApplied, Contiguous
<1>2. rows \subseteq Row
  BY DEF DbState
<1>3. rows \subseteq Prefix(n)
  BY <1>1, <1>2 DEF Row, Prefix, MatchesCatalog, Versions
<1>4. Prefix(n) \subseteq rows
  <2> SUFFICES ASSUME NEW x \in Prefix(n) PROVE x \in rows
    OBVIOUS
  <2>1. x.version \in Versions(rows)
    BY <1>1 DEF Prefix
  <2>2. PICK row \in rows : row.version = x.version
    BY <2>1 DEF Versions
  <2>3. row = x
    BY <2>2, <1>1, <1>2 DEF Row, Prefix, MatchesCatalog
  <2> QED BY <2>3
<1> QED BY <1>1, <1>3, <1>4

LEMMA NoStateIsUnusable ==
  ASSUME NEW r \in Runner PROVE ~Usable(Status(r, NoState))
BY DEF Usable, Status, InspectSchema, NoState

LEMMA DbStateUpdates ==
  ASSUME NEW state \in DbState
  PROVE  /\ [state EXCEPT !.ready = TRUE] \in DbState
         /\ [state EXCEPT !.managed = @ + 1] \in DbState
         /\ [state EXCEPT !.raw = @ + 1] \in DbState
         /\ \A rows \in SUBSET Row : [state EXCEPT !.rows = rows] \in DbState
         /\ state.rows \subseteq Row
         /\ state # NoState
<1>1. [state EXCEPT !.ready = TRUE] \in DbState
  BY DEF DbState
<1>2. [state EXCEPT !.managed = @ + 1] \in DbState
  BY DEF DbState
<1>3. [state EXCEPT !.raw = @ + 1] \in DbState
  BY DEF DbState
<1>4. \A rows \in SUBSET Row : [state EXCEPT !.rows = rows] \in DbState
  BY DEF DbState
<1>5. state.rows \subseteq Row /\ state # NoState
  BY DEF DbState, NoState
<1> QED BY <1>1, <1>2, <1>3, <1>4, <1>5

LEMMA NoPointIsNoPoint == NoPoint \notin Point
BY ProcessAssumption DEF NoPoint, Point

-----------------------------------------------------------------------------
(* Type correctness.                                                       *)

LEMMA StopType ==
  ASSUME TypeOK, NEW r \in Runner, NEW label \in RunnerPc, Stop(r, label)
  PROVE  TypeOK'
<1>1. pc' \in [Process -> RunnerPc \cup WriterPc]
  BY DEF TypeOK, Stop, Goto
<1>2. /\ \A q \in Runner : pc'[q] \in RunnerPc
      /\ \A w \in Writer : pc'[w] \in WriterPc
      /\ \A u \in Raw : pc'[u] \in RawPc
  BY ProcessAssumption DEF TypeOK, Stop, Goto
<1>3. /\ lease' \in Runner \cup Writer \cup {Nobody}
      /\ writeLock' \in Process \cup {Nobody}
  BY DEF TypeOK, Stop, ReleaseLocks
<1>4. /\ witness' \in [Runner -> Nat \cup {Closed}]
      /\ snap' \in [Runner -> DbState \cup {NoState}]
      /\ point' \in [Runner -> Point \cup {NoPoint}]
      /\ from' \in [Runner -> Nat] /\ next' \in [Runner -> Nat]
  BY DEF TypeOK, Stop
<1> QED BY <1>1, <1>2, <1>3, <1>4 DEF TypeOK, Stop

LEMMA RunnerStepType ==
  ASSUME TypeOK, NEW r \in Runner, RunnerStep(r)
  PROVE  TypeOK'
<1> USE ProcessAssumption DEF Goto
<1>1. CASE InspectCurrent(r) \/ PlanCurrent(r) \/ FinalInspect(r) \/ Refuse(r)
  BY <1>1, StopType
     DEF InspectCurrent, PlanCurrent, FinalInspect, Refuse, RunnerPc
<1>2. CASE InspectPending(r)
  BY <1>2 DEF TypeOK, InspectPending, RunnerPc
<1>3. CASE OpenWitness(r)
  BY <1>3 DEF TypeOK, OpenWitness, RunnerPc
<1>4. CASE CopySnapshot(r)
  BY <1>4 DEF TypeOK, CopySnapshot, RunnerPc
<1>5. CASE PublishPoint(r)
  <2>1. snap[r] \in DbState
    BY <1>5, NoStateIsUnusable DEF TypeOK, PublishPoint
  <2>2. [by |-> r, state |-> snap[r]] \in Point
    BY <2>1 DEF Point
  <2> QED BY <1>5, <2>2 DEF TypeOK, PublishPoint, RunnerPc
<1>6. CASE AuthorizePoint(r)
  BY <1>6 DEF TypeOK, AuthorizePoint, RunnerPc
<1>7. CASE AcquireLease(r)
  BY <1>7 DEF TypeOK, AcquireLease, RunnerPc
<1>8. CASE PlanBatch(r)
  <2>1. Highest(db.rows) \in Nat
    BY <1>8, UsableRowsArePrefix DEF TypeOK, PlanBatch, MayPlan, Usable
  <2> QED BY <1>8, <2>1 DEF TypeOK, PlanBatch, RunnerPc
<1>9. CASE BeginImmediate(r)
  BY <1>9 DEF TypeOK, BeginImmediate, RunnerPc
<1>10. CASE BeginBusy(r)
  BY <1>10 DEF TypeOK, BeginBusy, RunnerPc
<1>11. CASE PreflightSkip(r)
  BY <1>11 DEF TypeOK, PreflightSkip, Advance, RunnerPc
<1>12. CASE PreflightFirst(r)
  BY <1>12 DEF TypeOK, PreflightFirst, RunnerPc
<1>13. CASE PreflightRefresh(r)
  BY <1>13 DEF TypeOK, PreflightRefresh, RunnerPc
<1>14. CASE CommitMigration(r)
  <2> DEFINE row == [version |-> next[r], digest |-> "catalog"]
  <2>0. row \in Row
    BY DEF TypeOK, Row, Digest
  <2>1. db \in DbState /\ db.rows \cup {row} \in SUBSET Row
    BY <2>0 DEF TypeOK, DbState
  <2>2. db' \in DbState /\ gen' \in Nat
    <3>1. [db EXCEPT !.rows = db.rows \cup {row}] \in DbState
      BY <2>1, DbStateUpdates
    <3> QED BY <1>14, <3>1 DEF TypeOK, CommitMigration, Commit
  <2>3. [by |-> r, version |-> next[r], before |-> db]
          \in [by: Runner, version: Int, before: DbState]
    BY DEF TypeOK
  <2> QED BY <1>14, <2>2, <2>3 DEF TypeOK, CommitMigration, Advance, RunnerPc
<1>15. CASE RecheckSkip(r)
  BY <1>15 DEF TypeOK, RecheckSkip, Advance, RunnerPc
<1> QED
  BY <1>1, <1>2, <1>3, <1>4, <1>5, <1>6, <1>7, <1>8, <1>9, <1>10, <1>11,
     <1>12, <1>13, <1>14, <1>15 DEF RunnerStep

LEMMA CommandType ==
  ASSUME TypeOK, NEW r \in Runner,
         Initialize(r) \/ ExecuteError(r) \/ Fault(r) \/ Crash(r)
  PROVE  TypeOK'
<1> USE ProcessAssumption DEF Goto
<1>1. CASE Initialize(r)
  <2>1. [db EXCEPT !.ready = TRUE] \in DbState
    BY DbStateUpdates DEF TypeOK
  <2>2. CASE db.ready /\ UNCHANGED store
    BY <1>1, <2>2 DEF TypeOK, Initialize, RunnerPc
  <2>3. CASE Commit([db EXCEPT !.ready = TRUE])
    BY <1>1, <2>1, <2>3 DEF TypeOK, Initialize, Commit, RunnerPc
  <2> QED BY <1>1, <2>2, <2>3 DEF Initialize
<1>2. CASE ExecuteError(r)
  BY <1>2 DEF TypeOK, ExecuteError, RunnerPc
<1>3. CASE Fault(r) \/ Crash(r)
  BY <1>3, StopType DEF Fault, Crash, RunnerPc
<1> QED BY <1>1, <1>2, <1>3

LEMMA WriterStepType ==
  ASSUME TypeOK, NEW w \in Writer, WriterStep(w)
  PROVE  TypeOK'
<1> USE ProcessAssumption DEF Goto
<1>1. CASE EnterUnitOfWork(w)
  BY <1>1 DEF TypeOK, EnterUnitOfWork, WriterPc
<1>2. CASE BeginUnitOfWork(w)
  BY <1>2 DEF TypeOK, BeginUnitOfWork, WriterPc
<1>3. CASE CommitUnitOfWork(w)
  <2>1. [db EXCEPT !.managed = @ + 1] \in DbState
    BY DbStateUpdates DEF TypeOK
  <2>2. db' \in DbState /\ gen' \in Nat
    BY <1>3, <2>1 DEF TypeOK, CommitUnitOfWork, Commit
  <2> QED BY <1>3, <2>2 DEF TypeOK, CommitUnitOfWork, ReleaseLocks, WriterPc
<1>4. CASE LeaveUnitOfWork(w)
  BY <1>4 DEF TypeOK, LeaveUnitOfWork, ReleaseLocks, WriterPc
<1> QED BY <1>1, <1>2, <1>3, <1>4 DEF WriterStep

LEMMA RawStepType ==
  ASSUME TypeOK, NEW u \in Raw, RawStep(u)
  PROVE  TypeOK'
<1> USE ProcessAssumption DEF Goto
<1>1. CASE RawBegin(u)
  BY <1>1 DEF TypeOK, RawBegin, RawPc, WriterPc
<1>2. ASSUME RawEnd(u), db' \in DbState, gen' \in Nat PROVE TypeOK'
  BY <1>2 DEF TypeOK, RawEnd, RawPc, WriterPc
<1>3. CASE RawWrite(u)
  <2>1. [db EXCEPT !.raw = @ + 1] \in DbState
    BY DbStateUpdates DEF TypeOK
  <2> QED BY <1>2, <1>3, <2>1 DEF TypeOK, RawWrite, Commit
<1>4. CASE RawInsertRow(u)
  <2>1. PICK row \in RawRow :
          RawEnd(u) /\ Commit([db EXCEPT !.rows = @ \cup {row}])
    BY <1>4 DEF RawInsertRow
  <2>2. db \in DbState /\ db.rows \cup {row} \in SUBSET Row
    BY RawRowAssumption DEF TypeOK, DbState
  <2>3. [db EXCEPT !.rows = db.rows \cup {row}] \in DbState
    BY <2>2, DbStateUpdates
  <2> QED BY <1>2, <2>1, <2>3 DEF TypeOK, Commit
<1>5. CASE RawDeleteRow(u)
  <2>1. PICK row \in db.rows :
          RawEnd(u) /\ Commit([db EXCEPT !.rows = @ \ {row}])
    BY <1>5 DEF RawDeleteRow
  <2>2. db \in DbState /\ db.rows \ {row} \in SUBSET Row
    BY DEF TypeOK, DbState
  <2>3. [db EXCEPT !.rows = db.rows \ {row}] \in DbState
    BY <2>2, DbStateUpdates
  <2> QED BY <1>2, <2>1, <2>3 DEF TypeOK, Commit
<1>6. CASE RawRollback(u)
  BY <1>2, <1>6 DEF TypeOK, RawRollback
<1> QED BY <1>1, <1>3, <1>4, <1>5, <1>6 DEF RawStep

\* Every variable keeps its type, whatever the four kinds of actors do.
THEOREM TypeCorrect == Spec => []TypeOK
<1>1. Init => TypeOK
  BY RunnersAssumption, ProcessAssumption
     DEF Init, TypeOK, DbState, RunnerPc, WriterPc, RawPc, Closed, NoState, NoPoint
<1>2. TypeOK /\ [Next]_vars => TypeOK'
  <2> SUFFICES ASSUME TypeOK, [Next]_vars PROVE TypeOK'
    OBVIOUS
  <2>1. CASE \E p \in points : LosePoint(p)
    BY <2>1 DEF TypeOK, LosePoint
  <2>2. CASE UNCHANGED vars
    BY <2>2 DEF TypeOK
  <2> QED BY <2>1, <2>2, RunnerStepType, CommandType, WriterStepType,
            RawStepType DEF Next
<1> QED BY <1>1, <1>2, PTL DEF Spec

-----------------------------------------------------------------------------
(* The two locks.                                                          *)

Ended == {"idle", "done", "failed"}

LEMMA StopLocks ==
  ASSUME TypeOK, LockInv, NEW r \in Runner, NEW label \in Ended, Stop(r, label)
  PROVE  LockInv'
BY ProcessAssumption DEF TypeOK, LockInv, Stop, Goto, ReleaseLocks, Ended

LEMMA RunnerStepLocks ==
  ASSUME TypeOK, LockInv, NEW r \in Runner, RunnerStep(r)
  PROVE  LockInv'
<1> USE ProcessAssumption DEF Goto, TypeOK, LockInv
<1>1. CASE InspectCurrent(r) \/ PlanCurrent(r) \/ FinalInspect(r) \/ Refuse(r)
  BY <1>1, StopLocks
     DEF InspectCurrent, PlanCurrent, FinalInspect, Refuse, Ended
<1>2. CASE InspectPending(r)
  BY <1>2 DEF InspectPending
<1>3. CASE OpenWitness(r)
  BY <1>3 DEF OpenWitness
<1>4. CASE CopySnapshot(r)
  BY <1>4 DEF CopySnapshot
<1>5. CASE PublishPoint(r)
  BY <1>5 DEF PublishPoint
<1>6. CASE AuthorizePoint(r)
  BY <1>6 DEF AuthorizePoint
<1>7. CASE AcquireLease(r)
  BY <1>7 DEF AcquireLease
<1>8. CASE PlanBatch(r)
  BY <1>8 DEF PlanBatch
<1>9. CASE BeginImmediate(r)
  BY <1>9 DEF BeginImmediate
<1>10. CASE BeginBusy(r)
  BY <1>10 DEF BeginBusy
<1>11. CASE PreflightSkip(r)
  BY <1>11 DEF PreflightSkip, Advance
<1>12. CASE PreflightFirst(r)
  BY <1>12 DEF PreflightFirst
<1>13. CASE PreflightRefresh(r)
  BY <1>13 DEF PreflightRefresh
<1>14. CASE CommitMigration(r)
  BY <1>14 DEF CommitMigration, Advance
<1>15. CASE RecheckSkip(r)
  BY <1>15 DEF RecheckSkip, Advance
<1> QED
  BY <1>1, <1>2, <1>3, <1>4, <1>5, <1>6, <1>7, <1>8, <1>9, <1>10, <1>11,
     <1>12, <1>13, <1>14, <1>15 DEF RunnerStep

LEMMA LockStep ==
  ASSUME TypeOK, LockInv, [Next]_vars
  PROVE  LockInv'
<1> USE ProcessAssumption DEF Goto, TypeOK, LockInv
<1>1. ASSUME NEW r \in Runner, Initialize(r) PROVE LockInv'
  BY <1>1 DEF Initialize
<1>2. ASSUME NEW r \in Runner, ExecuteError(r) PROVE LockInv'
  BY <1>2 DEF ExecuteError
<1>3. ASSUME NEW r \in Runner, Fault(r) \/ Crash(r) PROVE LockInv'
  BY <1>3, StopLocks DEF Fault, Crash, Ended
<1>4. ASSUME NEW w \in Writer, WriterStep(w) PROVE LockInv'
  <2>1. CASE EnterUnitOfWork(w)
    BY <2>1 DEF EnterUnitOfWork
  <2>2. CASE BeginUnitOfWork(w)
    BY <2>2 DEF BeginUnitOfWork
  <2>3. CASE CommitUnitOfWork(w)
    BY <2>3 DEF CommitUnitOfWork, ReleaseLocks
  <2>4. CASE LeaveUnitOfWork(w)
    BY <2>4 DEF LeaveUnitOfWork, ReleaseLocks
  <2> QED BY <1>4, <2>1, <2>2, <2>3, <2>4 DEF WriterStep
<1>5. ASSUME NEW u \in Raw, RawStep(u) PROVE LockInv'
  <2>1. CASE RawBegin(u)
    BY <2>1 DEF RawBegin
  <2>2. CASE RawEnd(u)
    BY <2>2 DEF RawEnd
  <2> QED BY <1>5, <2>1, <2>2
          DEF RawStep, RawWrite, RawInsertRow, RawDeleteRow, RawRollback
<1>6. CASE \E p \in points : LosePoint(p)
  BY <1>6 DEF LosePoint
<1>7. CASE UNCHANGED vars
  BY <1>7
<1> QED BY <1>1, <1>2, <1>3, <1>4, <1>5, <1>6, <1>7, RunnerStepLocks DEF Next

-----------------------------------------------------------------------------
(* Witnesses.  A commit raises gen above every open witness, so a witness   *)
(* that is still fresh has seen the snapshot it vouches for become db.      *)

TokenOf(r) ==
  /\ witness[r] <= gen
  /\ pc[r] = "publish" /\ Fresh(r) => snap[r] = db
  /\ pc[r] \notin {"witness", "copy", "publish"} /\ Fresh(r) =>
       point[r].state = db
  /\ point[r] # NoPoint => point[r] \in Published /\ point[r].by = r

Commits == gen' = gen + 1

Keeps(r) ==
  /\ witness'[r] = witness[r] /\ point'[r] = point[r]
  /\ pc[r] = pc'[r] /\ snap'[r] = snap[r]

LEMMA CommitMakesStale ==
  ASSUME TypeOK, TokenInv, NEW r \in Runner,
         Commits, witness'[r] = witness[r]
  PROVE  witness'[r] <= gen' /\ ~Fresh(r)'
BY DEF TypeOK, TokenInv, Fresh, Closed, Commits

\* Nothing another process does can forge a fresh token.
LEMMA TokenOfOthers ==
  ASSUME TypeOK, TokenInv, NEW r \in Runner, Keeps(r),
         UNCHANGED store \/ Commits, Published \subseteq Published'
  PROVE  TokenOf(r)'
<1>1. CASE UNCHANGED store
  BY <1>1 DEF TokenInv, TokenOf, Keeps, Fresh
<1>2. CASE Commits
  BY <1>2, CommitMakesStale DEF TokenInv, TokenOf, Keeps
<1> QED BY <1>1, <1>2

\* A runner that moves on without touching its token.
LEMMA TokenOfMover ==
  ASSUME TypeOK, TokenInv, NEW r \in Runner,
         witness'[r] = witness[r], point'[r] = point[r],
         pc'[r] \notin {"publish"},
         pc[r] \notin {"witness", "copy", "publish"},
         UNCHANGED store \/ Commits, UNCHANGED disk
  PROVE  TokenOf(r)'
<1>1. CASE UNCHANGED store
  BY <1>1 DEF TokenInv, TokenOf, Fresh, Published
<1>2. CASE Commits
  BY <1>2, CommitMakesStale DEF TokenInv, TokenOf, Published
<1> QED BY <1>1, <1>2

LEMMA StopToken ==
  ASSUME TypeOK, TokenInv, NEW r \in Runner, NEW label \in Ended, Stop(r, label)
  PROVE  TokenInv'
<1>1. TokenOf(r)'
  BY DEF TypeOK, Stop, Goto, TokenOf, Fresh, Closed, Ended
<1>2. ASSUME NEW q \in Runner, q # r PROVE TokenOf(q)'
  BY <1>2, TokenOfOthers DEF TypeOK, Stop, Goto, Keeps, Published
<1> QED BY <1>1, <1>2 DEF TokenInv, TokenOf

LEMMA RunnerStepToken ==
  ASSUME TypeOK, TokenInv, NEW r \in Runner, RunnerStep(r)
  PROVE  TokenInv'
<1> SUFFICES ASSUME ~(InspectCurrent(r) \/ PlanCurrent(r) \/ FinalInspect(r)
                      \/ Refuse(r))
             PROVE  TokenInv'
  BY StopToken DEF InspectCurrent, PlanCurrent, FinalInspect, Refuse, Ended
<1>1. ASSUME NEW q \in Runner, q # r PROVE TokenOf(q)'
  <2>1. Keeps(q)
    BY <1>1 DEF TypeOK, Keeps, RunnerStep, Goto, Advance, InspectPending,
       OpenWitness, CopySnapshot, PublishPoint, AuthorizePoint, AcquireLease,
       PlanBatch, BeginImmediate, BeginBusy, PreflightSkip, PreflightFirst,
       PreflightRefresh, CommitMigration, RecheckSkip
  <2>2. /\ UNCHANGED store \/ Commits
        /\ Published \subseteq Published'
    BY DEF RunnerStep, Commits, Commit, Published, InspectPending,
       OpenWitness, CopySnapshot, PublishPoint, AuthorizePoint, AcquireLease,
       PlanBatch, BeginImmediate, BeginBusy, PreflightSkip, PreflightFirst,
       PreflightRefresh, CommitMigration, RecheckSkip
  <2> QED BY <2>1, <2>2, TokenOfOthers
<1>2. TokenOf(r)'
  <2>1. CASE OpenWitness(r)
    BY <2>1 DEF TypeOK, TokenInv, TokenOf, OpenWitness, Goto, Published
  <2>2. CASE CopySnapshot(r)
    BY <2>2 DEF TypeOK, TokenInv, TokenOf, CopySnapshot, Goto, Published
  <2>3. CASE PublishPoint(r)
    BY <2>3 DEF TypeOK, TokenInv, TokenOf, PublishPoint, Goto, Published, Fresh
  <2>4. CASE InspectPending(r)
    BY <2>4, TokenOfMover DEF TypeOK, InspectPending, Goto
  <2>5. CASE AuthorizePoint(r)
    BY <2>5, TokenOfMover DEF TypeOK, AuthorizePoint, Goto
  <2>6. CASE AcquireLease(r)
    BY <2>6, TokenOfMover DEF TypeOK, AcquireLease, Goto
  <2>7. CASE PlanBatch(r)
    BY <2>7, TokenOfMover DEF TypeOK, PlanBatch, Goto
  <2>8. CASE BeginImmediate(r)
    BY <2>8, TokenOfMover DEF TypeOK, BeginImmediate, Goto
  <2>9. CASE BeginBusy(r)
    BY <2>9, TokenOfMover DEF TypeOK, BeginBusy, Goto
  <2>10. CASE PreflightSkip(r)
    BY <2>10, TokenOfMover DEF TypeOK, PreflightSkip, Advance, Goto
  <2>11. CASE PreflightFirst(r)
    BY <2>11, TokenOfMover DEF TypeOK, PreflightFirst, Goto
  <2>12. CASE PreflightRefresh(r)
    BY <2>12, TokenOfMover DEF TypeOK, PreflightRefresh, Goto
  <2>13. CASE CommitMigration(r)
    BY <2>13, TokenOfMover
       DEF TypeOK, CommitMigration, Advance, Goto, Commit, Commits
  <2>14. CASE RecheckSkip(r)
    BY <2>14, TokenOfMover DEF TypeOK, RecheckSkip, Advance, Goto
  <2> QED BY <2>1, <2>2, <2>3, <2>4, <2>5, <2>6, <2>7, <2>8, <2>9, <2>10,
            <2>11, <2>12, <2>13, <2>14 DEF RunnerStep
<1> QED BY <1>1, <1>2 DEF TokenInv, TokenOf

LEMMA TokenStep ==
  ASSUME TypeOK, TokenInv, [Next]_vars
  PROVE  TokenInv'
<1>1. ASSUME NEW r \in Runner, Initialize(r) PROVE TokenInv'
  <2>1. UNCHANGED store \/ Commits
    BY <1>1 DEF Initialize, Commit, Commits
  <2>2. TokenOf(r)'
    BY <1>1, <2>1, TokenOfMover DEF TypeOK, Initialize, Goto
  <2>3. ASSUME NEW q \in Runner, q # r PROVE TokenOf(q)'
    BY <1>1, <2>1, <2>3, TokenOfOthers
       DEF TypeOK, Initialize, Goto, Keeps, Published
  <2> QED BY <2>2, <2>3 DEF TokenInv, TokenOf
<1>2. ASSUME NEW r \in Runner, ExecuteError(r) PROVE TokenInv'
  <2>1. TokenOf(r)'
    BY <1>2, TokenOfMover DEF TypeOK, ExecuteError, Goto
  <2>2. ASSUME NEW q \in Runner, q # r PROVE TokenOf(q)'
    BY <1>2, <2>2, TokenOfOthers
       DEF TypeOK, ExecuteError, Goto, Keeps, Published
  <2> QED BY <2>1, <2>2 DEF TokenInv, TokenOf
<1>3. ASSUME NEW r \in Runner, Fault(r) \/ Crash(r) PROVE TokenInv'
  BY <1>3, StopToken DEF Fault, Crash, Ended
<1>4. ASSUME NEW w \in Writer, WriterStep(w) PROVE TokenInv'
  <2>1. ASSUME NEW q \in Runner PROVE Keeps(q)
    BY <1>4, <2>1, ProcessAssumption
       DEF TypeOK, Keeps, WriterStep, EnterUnitOfWork, BeginUnitOfWork,
           CommitUnitOfWork, LeaveUnitOfWork, Goto
  <2>2. (UNCHANGED store \/ Commits) /\ UNCHANGED disk
    BY <1>4 DEF WriterStep, EnterUnitOfWork, BeginUnitOfWork,
           CommitUnitOfWork, LeaveUnitOfWork, Commit, Commits
  <2> QED BY <2>1, <2>2, TokenOfOthers DEF TokenInv, TokenOf, Published
<1>5. ASSUME NEW u \in Raw, RawStep(u) PROVE TokenInv'
  <2>1. ASSUME NEW q \in Runner PROVE Keeps(q)
    BY <1>5, <2>1, ProcessAssumption
       DEF TypeOK, Keeps, RawStep, RawBegin, RawWrite, RawInsertRow,
           RawDeleteRow, RawRollback, RawEnd, Goto
  <2>2. (UNCHANGED store \/ Commits) /\ UNCHANGED disk
    BY <1>5 DEF RawStep, RawBegin, RawWrite, RawInsertRow, RawDeleteRow,
           RawRollback, RawEnd, Commit, Commits
  <2> QED BY <2>1, <2>2, TokenOfOthers DEF TokenInv, TokenOf, Published
<1>6. CASE \E p \in points : LosePoint(p)
  BY <1>6, TokenOfOthers DEF TokenInv, TokenOf, LosePoint, Keeps, Published
<1>7. CASE UNCHANGED vars
  BY <1>7, TokenOfOthers DEF TokenInv, TokenOf, Keeps, Published
<1> QED BY <1>1, <1>2, <1>3, <1>4, <1>5, <1>6, <1>7, RunnerStepToken DEF Next

-----------------------------------------------------------------------------
(* Under the write lock.                                                   *)

LEMMA PublishedGrows ==
  ASSUME [Next]_vars PROVE Published \subseteq Published'
BY DEF Next, RunnerStep, WriterStep, RawStep, Published, Stop, Initialize,
   ExecuteError, Fault, Crash, InspectCurrent, PlanCurrent, FinalInspect,
   Refuse, InspectPending, OpenWitness, CopySnapshot, PublishPoint,
   AuthorizePoint, AcquireLease, PlanBatch, BeginImmediate, BeginBusy,
   PreflightSkip, PreflightFirst, PreflightRefresh, CommitMigration,
   RecheckSkip, EnterUnitOfWork, BeginUnitOfWork, CommitUnitOfWork,
   LeaveUnitOfWork, RawBegin, RawWrite, RawInsertRow, RawDeleteRow,
   RawRollback, RawEnd, LosePoint

LEMMA OnlyMigrationsAreRecorded ==
  ASSUME [Next]_vars
  PROVE  applied' = applied \/ \E r \in Runner : CommitMigration(r)
BY DEF Next, RunnerStep, WriterStep, RawStep, Stop, Initialize,
   ExecuteError, Fault, Crash, InspectCurrent, PlanCurrent, FinalInspect,
   Refuse, InspectPending, OpenWitness, CopySnapshot, PublishPoint,
   AuthorizePoint, AcquireLease, PlanBatch, BeginImmediate, BeginBusy,
   PreflightSkip, PreflightFirst, PreflightRefresh,
   RecheckSkip, EnterUnitOfWork, BeginUnitOfWork, CommitUnitOfWork,
   LeaveUnitOfWork, RawBegin, RawWrite, RawInsertRow, RawDeleteRow,
   RawRollback, RawEnd, LosePoint

\* What a runner that holds the write lock before and after a step may rely on.
Undisturbed(r) ==
  /\ writeLock = r /\ UNCHANGED store
  /\ next'[r] = next[r]
  /\ pc[r] = "preflight" => MayApply(r)
  /\ pc'[r] = "execute" =>
       /\ witness'[r] = witness[r] /\ point'[r] = point[r]
       /\ \/ pc[r] = "execute"
          \/ pc[r] \in {"preflight", "authorize"} /\ point[r] \in points /\ Fresh(r)

LEMMA OwnLockedStep ==
  ASSUME TypeOK, LockInv, NEW r \in Runner, RunnerStep(r),
         writeLock' = r, pc'[r] # "preflight"
  PROVE  Undisturbed(r)
<1> USE ProcessAssumption DEF Goto, TypeOK, LockInv, Undisturbed
<1>1. CASE InspectCurrent(r) \/ PlanCurrent(r) \/ FinalInspect(r) \/ Refuse(r)
  BY <1>1
     DEF InspectCurrent, PlanCurrent, FinalInspect, Refuse, Stop, ReleaseLocks
<1>2. CASE InspectPending(r)
  BY <1>2 DEF InspectPending
<1>3. CASE OpenWitness(r)
  BY <1>3 DEF OpenWitness
<1>4. CASE CopySnapshot(r)
  BY <1>4 DEF CopySnapshot
<1>5. CASE PublishPoint(r)
  BY <1>5 DEF PublishPoint
<1>6. CASE AuthorizePoint(r)
  BY <1>6 DEF AuthorizePoint, MayAuthorize
<1>7. CASE AcquireLease(r)
  BY <1>7 DEF AcquireLease
<1>8. CASE PlanBatch(r)
  BY <1>8 DEF PlanBatch
<1>9. CASE BeginImmediate(r)
  BY <1>9 DEF BeginImmediate
<1>10. CASE BeginBusy(r)
  BY <1>10 DEF BeginBusy
<1>11. CASE PreflightSkip(r)
  BY <1>11 DEF PreflightSkip, Advance
<1>12. CASE PreflightFirst(r)
  BY <1>12 DEF PreflightFirst, MayApplyFirst, TokenIsValid
<1>13. CASE PreflightRefresh(r)
  BY <1>13 DEF PreflightRefresh, MayRefresh
<1>14. CASE CommitMigration(r)
  BY <1>14 DEF CommitMigration
<1>15. CASE RecheckSkip(r)
  BY <1>15 DEF RecheckSkip, Advance
<1> QED
  BY <1>1, <1>2, <1>3, <1>4, <1>5, <1>6, <1>7, <1>8, <1>9, <1>10, <1>11,
     <1>12, <1>13, <1>14, <1>15 DEF RunnerStep

LEMMA OthersLockedStep ==
  ASSUME TypeOK, LockInv, NEW r \in Runner, NEW q \in Runner, q # r,
         RunnerStep(q), writeLock' = r, pc'[r] # "preflight"
  PROVE  Undisturbed(r)
<1> USE ProcessAssumption DEF Goto, TypeOK, LockInv, Undisturbed
<1>1. CASE InspectCurrent(q) \/ PlanCurrent(q) \/ FinalInspect(q) \/ Refuse(q)
  BY <1>1
     DEF InspectCurrent, PlanCurrent, FinalInspect, Refuse, Stop, ReleaseLocks
<1>2. CASE CommitMigration(q) \/ PreflightSkip(q) \/ RecheckSkip(q)
  BY <1>2 DEF CommitMigration, PreflightSkip, RecheckSkip, Advance
<1>3. CASE InspectPending(q) \/ OpenWitness(q) \/ CopySnapshot(q)
           \/ PublishPoint(q) \/ AuthorizePoint(q)
  BY <1>3 DEF InspectPending, OpenWitness, CopySnapshot, PublishPoint,
              AuthorizePoint
<1>4. CASE AcquireLease(q) \/ PlanBatch(q) \/ BeginImmediate(q)
           \/ BeginBusy(q) \/ PreflightFirst(q) \/ PreflightRefresh(q)
  BY <1>4 DEF AcquireLease, PlanBatch, BeginImmediate, BeginBusy,
              PreflightFirst, PreflightRefresh
<1> QED BY <1>1, <1>2, <1>3, <1>4 DEF RunnerStep

LEMMA LockedStep ==
  ASSUME TypeOK, LockInv, [Next]_vars, NEW r \in Runner,
         writeLock' = r, pc'[r] # "preflight"
  PROVE  Undisturbed(r)
<1> USE ProcessAssumption DEF Goto, TypeOK, LockInv, Undisturbed
<1>1. ASSUME NEW q \in Runner, Initialize(q) PROVE Undisturbed(r)
  BY <1>1 DEF Initialize
<1>2. ASSUME NEW q \in Runner, ExecuteError(q) PROVE Undisturbed(r)
  BY <1>2 DEF ExecuteError
<1>3. ASSUME NEW q \in Runner, Fault(q) \/ Crash(q) PROVE Undisturbed(r)
  BY <1>3 DEF Fault, Crash, Stop, ReleaseLocks
<1>4. ASSUME NEW w \in Writer, WriterStep(w) PROVE Undisturbed(r)
  BY <1>4 DEF WriterStep, EnterUnitOfWork, BeginUnitOfWork, CommitUnitOfWork,
              LeaveUnitOfWork, ReleaseLocks
<1>5. ASSUME NEW u \in Raw, RawStep(u) PROVE Undisturbed(r)
  BY <1>5 DEF RawStep, RawBegin, RawWrite, RawInsertRow, RawDeleteRow,
              RawRollback, RawEnd
<1>6. CASE \E p \in points : LosePoint(p)
  BY <1>6 DEF LosePoint
<1>7. CASE UNCHANGED vars
  BY <1>7
<1> QED BY <1>1, <1>2, <1>3, <1>4, <1>5, <1>6, <1>7, OwnLockedStep,
           OthersLockedStep DEF Next

-----------------------------------------------------------------------------
(* The safety theorems.                                                    *)

LEMMA HistoryStep ==
  ASSUME TypeOK, LockInv, HistoryInv, [Next]_vars
  PROVE  HistoryInv'
<1> SUFFICES ASSUME NEW r \in Runner, writeLock' = r, pc'[r] # "preflight"
             PROVE  MayApply(r)'
  BY DEF HistoryInv
<1>1. Undisturbed(r)
  BY LockedStep
<1>2. MayApply(r)
  BY <1>1 DEF Undisturbed, HistoryInv
<1> QED BY <1>1, <1>2 DEF Undisturbed, MayApply, Status

LEMMA ExecuteStep ==
  ASSUME TypeOK, LockInv, TokenInv, ExecutesOnFreshPoint, [Next]_vars
  PROVE  ExecutesOnFreshPoint'
<1> SUFFICES ASSUME NEW r \in Runner, pc'[r] = "execute"
             PROVE  /\ lease' = r /\ writeLock' = r
                    /\ Fresh(r)'
                    /\ point'[r] \in Published' /\ point'[r].state = db'
  BY DEF ExecutesOnFreshPoint, Fresh
<1>1. lease' = r /\ writeLock' = r
  BY LockStep DEF LockInv
<1>2. Undisturbed(r)
  BY <1>1, LockedStep
<1>3. /\ UNCHANGED store
      /\ witness'[r] = witness[r] /\ point'[r] = point[r]
  BY <1>2 DEF Undisturbed
<1>4. Fresh(r) /\ point[r] \in Published /\ point[r].state = db
  <2>1. CASE pc[r] = "execute"
    BY <2>1 DEF ExecutesOnFreshPoint
  <2>2. CASE pc[r] \in {"preflight", "authorize"} /\ point[r] \in points /\ Fresh(r)
    BY <2>2 DEF TokenInv, Published
  <2> QED BY <1>2, <2>1, <2>2 DEF Undisturbed
<1> QED BY <1>1, <1>3, <1>4, PublishedGrows DEF Fresh

LEMMA RecordStep ==
  ASSUME TypeOK, RecoveryInv, [Next]_vars
  PROVE  EveryMigrationIsRecoverable' /\ AppliesOnCompleteHistory'
<1>1. CASE applied' = applied
  BY <1>1, PublishedGrows
     DEF RecoveryInv, EveryMigrationIsRecoverable, AppliesOnCompleteHistory
<1>2. ASSUME NEW r \in Runner, CommitMigration(r)
      PROVE EveryMigrationIsRecoverable' /\ AppliesOnCompleteHistory'
  <2>1. applied' = applied \cup {[by |-> r, version |-> next[r], before |-> db]}
    BY <1>2 DEF CommitMigration
  <2>2. /\ writeLock = r
        /\ point[r] \in Published /\ point[r].state = db
    BY <1>2 DEF RecoveryInv, ExecutesOnFreshPoint, CommitMigration
  <2>3. point[r] # NoPoint
    BY <2>2, NoPointIsNoPoint DEF TypeOK, Published
  <2>4. point[r].by = r
    BY <2>3 DEF RecoveryInv, TokenInv
  <2>5. MayApply(r)
    BY <1>2, <2>2 DEF RecoveryInv, HistoryInv, CommitMigration
  <2>6. Usable(Status(r, db)) /\ Highest(db.rows) = next[r] - 1
    BY <2>5 DEF MayApply, Usable
  <2>7. db.rows = [version : 1..(next[r] - 1), digest : {"catalog"}]
    BY <2>6, UsableRowsArePrefix DEF TypeOK, Prefix
  <2>8. EveryMigrationIsRecoverable'
    BY <2>1, <2>2, <2>4, PublishedGrows
       DEF RecoveryInv, EveryMigrationIsRecoverable
  <2>9. AppliesOnCompleteHistory'
    <3> SUFFICES ASSUME NEW a \in applied'
                 PROVE  a.before.rows
                          = [version : 1..(a.version - 1), digest : {"catalog"}]
      BY DEF AppliesOnCompleteHistory
    <3>1. CASE a \in applied
      BY <3>1 DEF RecoveryInv, AppliesOnCompleteHistory
    <3>2. CASE a = [by |-> r, version |-> next[r], before |-> db]
      BY <3>2, <2>7
    <3> QED BY <2>1, <3>1, <3>2
  <2> QED BY <2>8, <2>9
<1> QED BY <1>1, <1>2, OnlyMigrationsAreRecorded

\* The inductive invariant: the locks' owners, what a witness vouches for, and
\* the history a migration is executed on.
THEOREM RecoveryCorrect == Spec => []RecoveryInv
<1>1. Init => RecoveryInv
  BY RunnersAssumption, ProcessAssumption
     DEF Init, RecoveryInv, LockInv, TokenInv, HistoryInv, Closed, Fresh,
         ExecutesOnFreshPoint, EveryMigrationIsRecoverable,
         AppliesOnCompleteHistory
<1>2. TypeOK /\ RecoveryInv /\ [Next]_vars => RecoveryInv'
  BY LockStep, TokenStep, HistoryStep, ExecuteStep, RecordStep
     DEF RecoveryInv
<1> QED BY <1>1, <1>2, TypeCorrect, PTL DEF Spec

\* Migration statements run only while the runner holds both locks and its
\* token names a published copy of exactly the committed database.
THEOREM FreshPointCorrect == Spec => []ExecutesOnFreshPoint
<1>1. RecoveryInv => ExecutesOnFreshPoint
  BY DEF RecoveryInv
<1> QED BY <1>1, RecoveryCorrect, PTL

\* Every migration a runner committed can be undone from a recovery point of
\* the state before it.
THEOREM RecoverableCorrect == Spec => []EveryMigrationIsRecoverable
<1>1. RecoveryInv => EveryMigrationIsRecoverable
  BY DEF RecoveryInv
<1> QED BY <1>1, RecoveryCorrect, PTL

\* Every migration a runner committed found the whole history before it.
THEOREM CompleteHistoryCorrect == Spec => []AppliesOnCompleteHistory
<1>1. RecoveryInv => AppliesOnCompleteHistory
  BY DEF RecoveryInv
<1> QED BY <1>1, RecoveryCorrect, PTL

\* While a runner is inside its batch, no managed writer commits and no other
\* runner applies a migration.
THEOREM BatchExclusionCorrect == Spec => BatchExcludesManagedCommits
<1> DEFINE Excluded ==
      \A r \in Runner : InBatch(r) /\ InBatch(r)' =>
        /\ db'.managed = db.managed
        /\ \A a \in applied' \ applied : a.by = r
<1>1. TypeOK /\ LockInv /\ [Next]_vars => Excluded
  <2> SUFFICES ASSUME TypeOK, LockInv, [Next]_vars,
                      NEW r \in Runner, next[r] # 0
               PROVE  /\ db'.managed = db.managed
                      /\ \A a \in applied' \ applied : a.by = r
    BY DEF InBatch
  <2>1. lease = r
    BY DEF LockInv
  <2>2. \A a \in applied' \ applied : a.by = r
    <3>1. ASSUME NEW q \in Runner, CommitMigration(q)
          PROVE  \A a \in applied' \ applied : a.by = r
      <4>1. q = r
        BY <3>1, <2>1 DEF CommitMigration, LockInv
      <4> QED BY <3>1, <4>1 DEF CommitMigration
    <3> QED BY <3>1, OnlyMigrationsAreRecorded
  <2>3. db'.managed = db.managed
    <3>1. ASSUME NEW w \in Writer, WriterStep(w) PROVE db' = db
      <4>1. ~CommitUnitOfWork(w)
        BY <2>1, ProcessAssumption DEF CommitUnitOfWork, LockInv
      <4> QED BY <3>1, <4>1
              DEF WriterStep, EnterUnitOfWork, BeginUnitOfWork, LeaveUnitOfWork
    <3>2. ASSUME NEW q \in Runner, Initialize(q) PROVE db'.managed = db.managed
      BY <3>2 DEF Initialize, Commit, TypeOK, DbState
    <3>3. ASSUME NEW q \in Runner, CommitMigration(q)
          PROVE  db'.managed = db.managed
      BY <3>3 DEF CommitMigration, Commit, TypeOK, DbState
    <3>4. ASSUME NEW u \in Raw, RawStep(u) PROVE db'.managed = db.managed
      BY <3>4 DEF RawStep, RawBegin, RawWrite, RawInsertRow, RawDeleteRow,
                  RawRollback, Commit, TypeOK, DbState
    <3>5. CASE \E q \in Runner : ~CommitMigration(q) /\
            (RunnerStep(q) \/ ExecuteError(q) \/ Fault(q) \/ Crash(q))
      BY <3>5 DEF RunnerStep, ExecuteError, Fault, Crash, Stop, InspectCurrent,
         PlanCurrent, FinalInspect, Refuse, InspectPending, OpenWitness,
         CopySnapshot, PublishPoint, AuthorizePoint, AcquireLease, PlanBatch,
         BeginImmediate, BeginBusy, PreflightSkip, PreflightFirst,
         PreflightRefresh, RecheckSkip
    <3>6. CASE \E p \in points : LosePoint(p)
      BY <3>6 DEF LosePoint
    <3>7. CASE UNCHANGED vars
      BY <3>7
    <3> QED BY <3>1, <3>2, <3>3, <3>4, <3>5, <3>6, <3>7 DEF Next
  <2> QED BY <2>2, <2>3
<1>2. RecoveryInv => LockInv
  BY DEF RecoveryInv
<1> QED BY <1>1, <1>2, TypeCorrect, RecoveryCorrect, PTL
        DEF Spec, BatchExcludesManagedCommits

\* The first n rows of a catalog are recognized as such.
LEMMA PrefixIsUsable ==
  ASSUME NEW target \in Nat, NEW n \in 0..target
  PROVE  /\ Highest(Prefix(n)) = n
         /\ InspectSchema("ready", Prefix(n), target)
              = IF n < target THEN "pending" ELSE "current"
<1>1. Versions(Prefix(n)) = 1..n
  <2>1. ASSUME NEW v \in 1..n PROVE v \in Versions(Prefix(n))
    <3>1. [version |-> v, digest |-> "catalog"] \in Prefix(n)
      BY DEF Prefix
    <3> QED BY <3>1 DEF Versions
  <2>2. ASSUME NEW row \in Prefix(n) PROVE row.version \in 1..n
    BY DEF Prefix
  <2> QED BY <2>1, <2>2 DEF Versions
<1>2. Highest(Prefix(n)) = n
  <2>1. CASE n = 0
    <3>1. Prefix(n) = {}
      BY <2>1 DEF Prefix
    <3> QED BY <3>1, <2>1 DEF Highest
  <2>2. CASE n > 0
    <3>1. Prefix(n) # {}
      BY <1>1, <2>2 DEF Versions
    <3>2. n \in 1..n /\ \A w \in 1..n : w <= n
      BY <2>2
    <3>3. \A v \in 1..n : (\A w \in 1..n : w <= v) => v = n
      BY <3>2
    <3> QED BY <1>1, <3>1, <3>2, <3>3 DEF Highest
  <2> QED BY <2>1, <2>2
<1>3. ValuesAreValid(Prefix(n)) /\ MatchesCatalog(Prefix(n))
  BY DEF ValuesAreValid, MatchesCatalog, Prefix
<1> QED BY <1>1, <1>2, <1>3 DEF InspectSchema, StatusFromApplied, Contiguous

\* What is usable never lies beyond the catalog, and is current at its end.
LEMMA UsableIsWithinTarget ==
  ASSUME NEW r \in Runner, NEW state \in DbState, Usable(Status(r, state))
  PROVE  /\ state.ready
         /\ Highest(state.rows) <= Target[r]
         /\ Status(r, state) = "current" => Highest(state.rows) = Target[r]
<1>1. Highest(state.rows) \in Nat /\ Target[r] \in Nat
  BY UsableRowsArePrefix, RunnersAssumption
<1> QED BY <1>1 DEF Usable, Status, InspectSchema, StatusFromApplied

\* inspect_database_schema calls a history usable exactly when it is a prefix
\* of the catalog, and current exactly when it is all of it.
THEOREM UsableMeansPrefixCorrect == Spec => []UsableMeansPrefix
<1>1. TypeOK => UsableMeansPrefix
  <2> SUFFICES ASSUME TypeOK, NEW r \in Runner
               PROVE  /\ Usable(Status(r, db)) <=>
                           \E n \in 0..Target[r] : db.ready /\ db.rows = Prefix(n)
                      /\ Status(r, db) = "current" <=>
                           db.ready /\ db.rows = Prefix(Target[r])
    BY DEF UsableMeansPrefix, Prefix
  <2>1. db \in DbState /\ Target[r] \in Nat
    BY RunnersAssumption DEF TypeOK
  <2>2. ASSUME Usable(Status(r, db))
        PROVE  /\ \E n \in 0..Target[r] : db.ready /\ db.rows = Prefix(n)
               /\ Status(r, db) = "current" => db.ready /\ db.rows = Prefix(Target[r])
    <3>1. Highest(db.rows) \in 0..Target[r]
      BY <2>1, <2>2, UsableRowsArePrefix, UsableIsWithinTarget
    <3> QED BY <2>1, <2>2, <3>1, UsableRowsArePrefix, UsableIsWithinTarget
  <2>3. ASSUME NEW n \in 0..Target[r], db.ready, db.rows = Prefix(n)
        PROVE  /\ Usable(Status(r, db))
               /\ n = Target[r] => Status(r, db) = "current"
    BY <2>1, <2>3, PrefixIsUsable DEF Status, Usable
  <2>4. Status(r, db) = "current" => Usable(Status(r, db))
    BY DEF Usable
  <2> QED BY <2>1, <2>2, <2>3, <2>4
<1> QED BY <1>1, TypeCorrect, PTL
=============================================================================
