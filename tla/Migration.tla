------------------------------ MODULE Migration ------------------------------
(***************************************************************************)
(* The SQLite kernel at work: migrate commands (runners), managed writers   *)
(* (SqliteUnitOfWork in write mode), unmanaged writers (raw connections,    *)
(* third-party tools, releases without the lease), and the recovery points  *)
(* the runners publish.                                                     *)
(*                                                                          *)
(* A commit replaces db and advances gen, the generation a connection sees  *)
(* through PRAGMA data_version.  Two locks order the actors: the            *)
(* cooperative maintenance lease, which unmanaged writers ignore, and       *)
(* SQLite's write lock, taken by BEGIN IMMEDIATE.                           *)
(***************************************************************************)
EXTENDS SchemaStatus, FiniteSets

CONSTANTS
  Runner,       \* processes running `migrate`
  Writer,       \* managed writers
  Raw,          \* unmanaged writers
  Target,       \* target version of each runner's catalog
  RawRow,       \* rows an unmanaged writer may put into _schema_migrations
  MaxGen,       \* bound: unmanaged and managed writers stop at this generation
  MaxAttempts,  \* bound: migrate commands per runner
  Faulty,       \* whether commands fail, processes die and files get lost
  Nobody        \* the holder of a free lock

ASSUME RunnersAssumption == Target \in [Runner -> Nat]

ASSUME ProcessAssumption ==
  /\ Runner \cap Writer = {} /\ Runner \cap Raw = {} /\ Writer \cap Raw = {}
  /\ Nobody \notin Runner \cup Writer \cup Raw

ASSUME RawRowAssumption == RawRow \subseteq Row

ASSUME BoundAssumption ==
  MaxGen \in Nat /\ MaxAttempts \in Nat /\ Faulty \in BOOLEAN

VARIABLES
  db,         \* committed contents of the database
  gen,        \* number of commits: the data generation
  lease,      \* holder of the maintenance lease
  writeLock,  \* connection owner inside BEGIN IMMEDIATE
  points,     \* recovery points whose artifacts are intact on disk
  lost,       \* recovery points an operator removed
  pc,         \* control state of every process
  attempts,   \* migrate commands a runner has started
  from,       \* _MigrationRecoverySession.initial_schema_version
  next,       \* version of the migration the runner's loop is at
  witness,    \* generation the runner's open witness expects
  snap,       \* staged snapshot, not yet published
  point,      \* recovery point the runner's token names
  applied     \* history: migrations committed by runners, with what they saw

store  == <<db, gen>>
locks  == <<lease, writeLock>>
disk   == <<points, lost>>
batch  == <<from, next>>
token  == <<witness, snap, point>>
vars   == <<store, locks, disk, pc, attempts, batch, token, applied>>

Process == Runner \cup Writer \cup Raw

\* Business data is told apart by who wrote it.
DbState == [ready: BOOLEAN, rows: SUBSET Row, managed: Nat, raw: Nat]

Closed  == -1
NoState == [ready |-> FALSE, rows |-> {}, managed |-> -1, raw |-> -1]
NoPoint == [by |-> Nobody, state |-> NoState]

Point == [by: Runner, state: DbState]

RunnerPc ==
  {"idle", "inspect", "witness", "copy", "publish", "authorize", "lease",
   "plan", "begin", "preflight", "execute", "recheck", "final", "done",
   "failed"}

WriterPc == {"idle", "leased", "active"}

RawPc == {"idle", "active"}

\* A runner's schema status of a database state.
Status(r, state) ==
  InspectSchema(IF state.ready THEN "ready" ELSE "absent", state.rows, Target[r])

TypeOK ==
  /\ db \in DbState
  /\ gen \in Nat
  /\ lease \in Runner \cup Writer \cup {Nobody}
  /\ writeLock \in Process \cup {Nobody}
  /\ points \subseteq Point
  /\ lost \subseteq Point
  /\ pc \in [Process -> RunnerPc \cup WriterPc]
  /\ \A r \in Runner : pc[r] \in RunnerPc
  /\ \A w \in Writer : pc[w] \in WriterPc
  /\ \A u \in Raw : pc[u] \in RawPc
  /\ attempts \in [Runner -> Nat]
  /\ from \in [Runner -> Nat]
  /\ next \in [Runner -> Nat]
  /\ witness \in [Runner -> Nat \cup {Closed}]
  /\ snap \in [Runner -> DbState \cup {NoState}]
  /\ point \in [Runner -> Point \cup {NoPoint}]
  /\ applied \subseteq [by: Runner, version: Int, before: DbState]

Init ==
  /\ db = [ready |-> FALSE, rows |-> {}, managed |-> 0, raw |-> 0]
  /\ gen = 0
  /\ lease = Nobody /\ writeLock = Nobody
  /\ points = {} /\ lost = {}
  /\ pc = [p \in Process |-> "idle"]
  /\ attempts = [r \in Runner |-> 0]
  /\ from = [r \in Runner |-> 0]
  /\ next = [r \in Runner |-> 0]
  /\ witness = [r \in Runner |-> Closed]
  /\ snap = [r \in Runner |-> NoState]
  /\ point = [r \in Runner |-> NoPoint]
  /\ applied = {}

-----------------------------------------------------------------------------
(* What several operations do.                                             *)

Commit(state) == db' = state /\ gen' = gen + 1

Goto(p, label) == pc' = [pc EXCEPT ![p] = label]

ReleaseLocks(p) ==
  /\ lease' = IF lease = p THEN Nobody ELSE lease
  /\ writeLock' = IF writeLock = p THEN Nobody ELSE writeLock

\* The command ends: its transaction is rolled back, its lease is released, its
\* witness connection is closed and its token is gone.
Stop(r, label) ==
  /\ Goto(r, label)
  /\ ReleaseLocks(r)
  /\ witness' = [witness EXCEPT ![r] = Closed]
  /\ snap' = [snap EXCEPT ![r] = NoState]
  /\ point' = [point EXCEPT ![r] = NoPoint]
  /\ from' = [from EXCEPT ![r] = 0]
  /\ next' = [next EXCEPT ![r] = 0]
  /\ UNCHANGED <<store, disk, attempts, applied>>

\* The loop goes on with the next migration of the catalog.
Advance(r) ==
  /\ next' = [next EXCEPT ![r] = @ + 1]
  /\ Goto(r, IF next[r] >= Target[r] THEN "final" ELSE "begin")

\* The token's artifacts still verify on disk and were taken at that version.
TokenIsValid(r, version) ==
  point[r] \in points /\ Highest(point[r].state.rows) = version

Fresh(r) == witness[r] = gen

-----------------------------------------------------------------------------
(* The migrate command up to the lease.                                    *)

\* initialize_database: CREATE TABLE IF NOT EXISTS, without the lease.
Initialize(r) ==
  /\ pc[r] \in {"idle", "done", "failed"} /\ attempts[r] < MaxAttempts
  /\ attempts' = [attempts EXCEPT ![r] = @ + 1]
  /\ Goto(r, "inspect")
  /\ \/ db.ready /\ UNCHANGED store
     \/ ~db.ready /\ writeLock = Nobody /\ Commit([db EXCEPT !.ready = TRUE])
  /\ UNCHANGED <<locks, disk, batch, token, applied>>

\* Nothing to do: the command ends without a backup and without the lease.
InspectCurrent(r) ==
  /\ pc[r] = "inspect" /\ Status(r, db) = "current"
  /\ Stop(r, "done")

InspectPending(r) ==
  /\ pc[r] = "inspect" /\ Status(r, db) = "pending"
  /\ Goto(r, "witness")
  /\ UNCHANGED <<store, locks, disk, attempts, batch, token, applied>>

\* _create_sqlite_backup opens the witness before it reads the source.
OpenWitness(r) ==
  /\ pc[r] = "witness" /\ Usable(Status(r, db))
  /\ Goto(r, "copy")
  /\ witness' = [witness EXCEPT ![r] = gen]
  /\ UNCHANGED <<store, locks, disk, attempts, batch, snap, point, applied>>

CopySnapshot(r) ==
  /\ pc[r] = "copy"
  /\ Goto(r, "publish")
  /\ snap' = [snap EXCEPT ![r] = db]
  /\ UNCHANGED <<store, locks, disk, attempts, batch, witness, point, applied>>

\* The snapshot's own schema goes into the manifest; the pair is published.
PublishPoint(r) ==
  /\ pc[r] = "publish" /\ Usable(Status(r, snap[r])) /\ Fresh(r)
  /\ LET p == [by |-> r, state |-> snap[r]]
     IN points' = points \cup {p} /\ point' = [point EXCEPT ![r] = p]
  /\ snap' = [snap EXCEPT ![r] = NoState]
  /\ Goto(r, "authorize")
  /\ UNCHANGED <<store, locks, lost, attempts, batch, witness, applied>>

\* authorize_migration_backup, and under the write lock the fresh revalidation
\* that ends _refresh_migration_backup_under_lock.
MayAuthorize(r) ==
  /\ point[r] \in points /\ Fresh(r) /\ Usable(Status(r, db))
  /\ Highest(db.rows) = Highest(point[r].state.rows)
  /\ writeLock = r => TokenIsValid(r, next[r] - 1)

AuthorizePoint(r) ==
  /\ pc[r] = "authorize" /\ MayAuthorize(r)
  /\ Goto(r, IF writeLock = r THEN "execute" ELSE "lease")
  /\ UNCHANGED <<store, locks, disk, attempts, batch, token, applied>>

-----------------------------------------------------------------------------
(* apply_pending_migrations.                                               *)

AcquireLease(r) ==
  /\ pc[r] = "lease" /\ lease = Nobody
  /\ lease' = r
  /\ Goto(r, "plan")
  /\ UNCHANGED <<store, writeLock, disk, attempts, batch, token, applied>>

PlanCurrent(r) ==
  /\ pc[r] = "plan" /\ Status(r, db) = "current"
  /\ Stop(r, "done")

\* The witness is not consulted here, only the versions and the artifacts.
MayPlan(r) == Status(r, db) = "pending" /\ TokenIsValid(r, Highest(db.rows))

PlanBatch(r) ==
  /\ pc[r] = "plan" /\ MayPlan(r)
  /\ from' = [from EXCEPT ![r] = Highest(db.rows)]
  /\ next' = [next EXCEPT ![r] = Highest(db.rows) + 1]
  /\ Goto(r, "begin")
  /\ UNCHANGED <<store, locks, disk, attempts, token, applied>>

BeginImmediate(r) ==
  /\ pc[r] = "begin" /\ writeLock = Nobody
  /\ writeLock' = r
  /\ Goto(r, "preflight")
  /\ UNCHANGED <<store, lease, disk, attempts, batch, token, applied>>

\* Mutant: BEGIN IMMEDIATE waits without a timeout.
BeginPatient(r) == FALSE

\* BEGIN IMMEDIATE runs into the busy timeout.
BeginBusy(r) ==
  /\ pc[r] = "begin" /\ writeLock \notin {Nobody, r}
  /\ Goto(r, "recheck")
  /\ UNCHANGED <<store, locks, disk, attempts, batch, token, applied>>

\* Somebody without the lease has applied this migration already.
MaySkip(r) == Usable(Status(r, db)) /\ Highest(db.rows) >= next[r]

MayApply(r) == Status(r, db) = "pending" /\ Highest(db.rows) = next[r] - 1

\* Mutant: the initial backup is validated, but not against later commits.
MayApplyFirstUnfenced(r) ==
  MayApply(r) /\ next[r] = from[r] + 1 /\ TokenIsValid(r, from[r])

\* The first migration relies on the backup authorized before the lease.
MayApplyFirst(r) ==
  /\ MayApply(r) /\ next[r] = from[r] + 1
  /\ TokenIsValid(r, from[r]) /\ Fresh(r)

\* Every later one takes a new recovery point under the write lock.
MayRefresh(r) ==
  MayApply(r) /\ next[r] # from[r] + 1 /\ point[r] \in points

PreflightSkip(r) ==
  /\ pc[r] = "preflight" /\ MaySkip(r)
  /\ Advance(r)
  /\ writeLock' = Nobody
  /\ UNCHANGED <<store, lease, disk, attempts, from, token, applied>>

PreflightFirst(r) ==
  /\ pc[r] = "preflight" /\ MayApplyFirst(r)
  /\ Goto(r, "execute")
  /\ UNCHANGED <<store, locks, disk, attempts, batch, token, applied>>

\* Mutant: later migrations reuse the backup taken before the batch.
PreflightReuse(r) ==
  /\ pc[r] = "preflight" /\ MayRefresh(r)
  /\ Goto(r, "execute")
  /\ UNCHANGED <<store, locks, disk, attempts, batch, token, applied>>

PreflightRefresh(r) ==
  /\ pc[r] = "preflight" /\ MayRefresh(r)
  /\ Goto(r, "witness")
  /\ UNCHANGED <<store, locks, disk, attempts, batch, token, applied>>

\* The statements, the row and the status check share one transaction.
CommitMigration(r) ==
  LET after == [db EXCEPT !.rows =
                  @ \cup {[version |-> next[r], digest |-> "catalog"]}]
  IN /\ pc[r] = "execute"
     /\ Usable(Status(r, after)) /\ Highest(after.rows) = next[r]
     /\ Commit(after)
     /\ applied' = applied \cup
          {[by |-> r, version |-> next[r], before |-> db]}
     /\ writeLock' = Nobody
     /\ Advance(r)
     /\ UNCHANGED <<lease, disk, attempts, from, token>>

\* A statement fails in SQLite: roll back, then look at the schema again.
ExecuteError(r) ==
  /\ Faulty /\ pc[r] = "execute"
  /\ writeLock' = Nobody
  /\ Goto(r, "recheck")
  /\ UNCHANGED <<store, lease, disk, attempts, batch, token, applied>>

RecheckSkip(r) ==
  /\ pc[r] = "recheck" /\ MaySkip(r)
  /\ Advance(r)
  /\ UNCHANGED <<store, locks, disk, attempts, from, token, applied>>

FinalInspect(r) ==
  /\ pc[r] = "final" /\ Status(r, db) = "current"
  /\ Stop(r, "done")

\* The checks that end a command, and the busy timeout of the lease.
Refused(r) ==
  \/ pc[r] \in {"inspect", "witness"} /\ ~Usable(Status(r, db))
  \/ pc[r] = "publish" /\ ~(Usable(Status(r, snap[r])) /\ Fresh(r))
  \/ pc[r] = "authorize" /\ ~MayAuthorize(r)
  \/ pc[r] = "lease" /\ lease # Nobody
  \/ pc[r] = "plan" /\ Status(r, db) # "current" /\ ~MayPlan(r)
  \/ pc[r] = "preflight"
     /\ ~(MaySkip(r) \/ MayApplyFirst(r) \/ MayRefresh(r))
  \/ pc[r] = "recheck" /\ ~MaySkip(r)
  \/ pc[r] = "final" /\ Status(r, db) # "current"

Refuse(r) == Refused(r) /\ Stop(r, "failed")

Running(r) == pc[r] \notin {"idle", "done", "failed"}

\* An I/O error anywhere, or the busy timeout of a schema read.
Fault(r) == Faulty /\ Running(r) /\ Stop(r, "failed")

\* The process dies; SQLite rolls back and the system releases the lease.
Crash(r) == Faulty /\ Running(r) /\ Stop(r, "idle")

RunnerStep(r) ==
  \/ InspectCurrent(r) \/ InspectPending(r)
  \/ OpenWitness(r) \/ CopySnapshot(r) \/ PublishPoint(r) \/ AuthorizePoint(r)
  \/ AcquireLease(r) \/ PlanCurrent(r) \/ PlanBatch(r)
  \/ BeginImmediate(r) \/ BeginBusy(r)
  \/ PreflightSkip(r) \/ PreflightFirst(r) \/ PreflightRefresh(r)
  \/ CommitMigration(r) \/ RecheckSkip(r)
  \/ FinalInspect(r) \/ Refuse(r)

-----------------------------------------------------------------------------
(* Managed writers: SqliteUnitOfWork(mode="write").                        *)

\* Mutant: a managed writer does not take the lease.
EnterWithoutLease(w) ==
  /\ pc[w] = "idle" /\ db.ready /\ gen < MaxGen
  /\ Goto(w, "leased")
  /\ UNCHANGED <<store, locks, disk, attempts, batch, token, applied>>

EnterUnitOfWork(w) ==
  /\ pc[w] = "idle" /\ lease = Nobody /\ db.ready /\ gen < MaxGen
  /\ lease' = w
  /\ Goto(w, "leased")
  /\ UNCHANGED <<store, writeLock, disk, attempts, batch, token, applied>>

BeginUnitOfWork(w) ==
  /\ pc[w] = "leased" /\ writeLock = Nobody
  /\ writeLock' = w
  /\ Goto(w, "active")
  /\ UNCHANGED <<store, lease, disk, attempts, batch, token, applied>>

CommitUnitOfWork(w) ==
  /\ pc[w] = "active"
  /\ Commit([db EXCEPT !.managed = @ + 1])
  /\ ReleaseLocks(w)
  /\ Goto(w, "idle")
  /\ UNCHANGED <<disk, attempts, batch, token, applied>>

\* Rollback, an exception, a busy BEGIN or the death of the process.
LeaveUnitOfWork(w) ==
  /\ pc[w] \in {"leased", "active"}
  /\ ReleaseLocks(w)
  /\ Goto(w, "idle")
  /\ UNCHANGED <<store, disk, attempts, batch, token, applied>>

WriterStep(w) ==
  \/ EnterUnitOfWork(w) \/ BeginUnitOfWork(w)
  \/ CommitUnitOfWork(w) \/ LeaveUnitOfWork(w)

-----------------------------------------------------------------------------
(* Unmanaged writers and the operator.                                     *)

RawBegin(u) ==
  /\ pc[u] = "idle" /\ writeLock = Nobody /\ db.ready /\ gen < MaxGen
  /\ writeLock' = u
  /\ Goto(u, "active")
  /\ UNCHANGED <<store, lease, disk, attempts, batch, token, applied>>

RawEnd(u) ==
  /\ pc[u] = "active"
  /\ writeLock' = Nobody
  /\ Goto(u, "idle")
  /\ UNCHANGED <<lease, disk, attempts, batch, token, applied>>

RawWrite(u) == RawEnd(u) /\ Commit([db EXCEPT !.raw = @ + 1])

\* Another release applies a migration, or an operator edits the history.
RawInsertRow(u) ==
  \E row \in RawRow :
    /\ row.version \notin Versions(db.rows)
    /\ RawEnd(u) /\ Commit([db EXCEPT !.rows = @ \cup {row}])

RawDeleteRow(u) ==
  \E row \in db.rows :
    RawEnd(u) /\ Commit([db EXCEPT !.rows = @ \ {row}])

RawRollback(u) == RawEnd(u) /\ UNCHANGED store

RawStep(u) ==
  \/ RawBegin(u) \/ RawWrite(u) \/ RawInsertRow(u)
  \/ RawDeleteRow(u) \/ RawRollback(u)

\* An operator clears the backup directory.
LosePoint(p) ==
  /\ Faulty
  /\ points' = points \ {p}
  /\ lost' = lost \cup {p}
  /\ UNCHANGED <<store, locks, pc, attempts, batch, token, applied>>

-----------------------------------------------------------------------------
Next ==
  \/ \E r \in Runner :
       Initialize(r) \/ RunnerStep(r) \/ ExecuteError(r) \/ Fault(r) \/ Crash(r)
  \/ \E w \in Writer : WriterStep(w)
  \/ \E u \in Raw : RawStep(u)
  \/ \E p \in points : LosePoint(p)

Spec == Init /\ [][Next]_vars

\* A started command keeps running.
Fairness == \A r \in Runner : WF_vars(RunnerStep(r))

FairSpec == Spec /\ Fairness

-----------------------------------------------------------------------------
(* Properties.                                                             *)

Published == points \cup lost

\* README: a migration starts only from a recovery point of the very state it
\* changes.  While its statements run, the runner holds both locks, its witness
\* has seen every commit, and its token names a published copy of db.
ExecutesOnFreshPoint ==
  \A r \in Runner : pc[r] = "execute" =>
    /\ lease = r /\ writeLock = r
    /\ Fresh(r)
    /\ point[r] \in Published /\ point[r].state = db

\* Every migration a runner ever committed left a published recovery point of
\* the state it started from: business data of managed and unmanaged writers
\* and the migrations before it.
EveryMigrationIsRecoverable ==
  \A a \in applied : \E p \in Published : p.by = a.by /\ p.state = a.before

\* Runners apply a migration only on top of all the earlier ones, whatever
\* unmanaged writers do to the history between two steps.
AppliesOnCompleteHistory ==
  \A a \in applied :
    a.before.rows = [version : 1..(a.version - 1), digest : {"catalog"}]

\* A database may be migrated or backed up only if its history is, row for row,
\* the first migrations of the catalog; it is current if it is all of them
\* (inspect_database_schema), whatever rows others put in or took away.
UsableMeansPrefix ==
  \A r \in Runner :
    LET prefix(n) == db.ready /\ db.rows = [version : 1..n, digest : {"catalog"}]
    IN /\ Usable(Status(r, db)) <=> \E n \in 0..Target[r] : prefix(n)
       /\ Status(r, db) = "current" <=> prefix(Target[r])

\* Who may hold which lock at which point of its program.
LockInv ==
  /\ \A r \in Runner :
       /\ pc[r] \in {"idle", "inspect", "lease", "done", "failed"} =>
            lease # r /\ writeLock # r
       /\ pc[r] \in {"plan", "begin", "recheck", "final"} =>
            lease = r /\ writeLock # r
       /\ pc[r] \in {"preflight", "execute"} => lease = r /\ writeLock = r
       /\ pc[r] \in {"witness", "copy", "publish", "authorize"} =>
            (lease = r <=> writeLock = r)
       /\ next[r] # 0 => lease = r
  /\ \A w \in Writer :
       /\ lease = w <=> pc[w] # "idle"
       /\ writeLock = w <=> pc[w] = "active"
  /\ \A u \in Raw : writeLock = u <=> pc[u] = "active"

\* What an open witness proves about a snapshot and about a token.
TokenInv ==
  \A r \in Runner :
    /\ witness[r] <= gen
    /\ pc[r] = "publish" /\ Fresh(r) => snap[r] = db
    /\ pc[r] \notin {"witness", "copy", "publish"} /\ Fresh(r) =>
         point[r].state = db
    /\ point[r] # NoPoint => point[r] \in Published /\ point[r].by = r

\* From the preflight to the commit the history is the one checked there.
HistoryInv ==
  \A r \in Runner :
    writeLock = r /\ pc[r] # "preflight" => MayApply(r)

\* The inductive invariant behind the four above.
RecoveryInv ==
  /\ LockInv /\ TokenInv /\ HistoryInv
  /\ ExecutesOnFreshPoint
  /\ EveryMigrationIsRecoverable
  /\ AppliesOnCompleteHistory

\* From the plan under the lease to the end of the command.
InBatch(r) == next[r] # 0

\* Managed writers and other runners wait for a whole batch: between two
\* migrations of one batch only unmanaged commits are possible.
BatchExcludesManagedCommits ==
  [][\A r \in Runner : InBatch(r) /\ InBatch(r)' =>
       /\ db'.managed = db.managed
       /\ \A a \in applied' \ applied : a.by = r]_vars

\* Every command ends, whatever the holders of the locks do.
CommandsEnd == \A r \in Runner : Running(r) ~> ~Running(r)

=============================================================================
