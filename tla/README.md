# A formal model of the project manager

TLA+ models of the parts of this repository whose correctness depends on the
order of steps: of several processes, of a process and the owner of the files it
works on, of a step and the failure or death that follows it. TLC checks them on
small instances; TLAPS proves the main results for every value of the constants.

    tlc -config Migration.cfg MCMigration.tla      # and so on, see "Runs"
    tlapm MigrationProofs.tla                      # and so on, see "Proofs"

Paths below are relative to the repository (`src/` in `PROJECT.json`).

## 1. The system and its components

The program keeps the documents of business projects in order. A user (or a
planner running an LLM) asks for work; documents are parsed, interpreted and
classified; decisions are reviewed by people; files are moved into an archive;
what became of them is recorded in SQLite, in JSON ledgers or in the artifacts
of a run. It runs as a command line program, as scripts, and inside agent hosts
that die and restart; several hosts and commands work on one database and one
directory tree at a time. It has no server of its own: exclusion comes from
SQLite's write lock, from advisory file locks, and from file system calls that
fail when a name exists.

| Component | State it keeps | Operations | What makes it correct |
|---|---|---|---|
| Maintenance lease (`infrastructure/database/sqlite/maintenance.py`) | a reentrant thread lock, a thread-local depth and a locked file per database | `hold` | one holder among all threads and processes; nothing stays behind a timeout, an exception or a death |
| Migration runner (`.../sqlite/migration_runner.py`, `schema.py`, `backup.py`) | `_schema_migrations`, the witness connection, the backup token | `initialize_database`, `apply_pending_migrations` | every migration starts on a complete history and from a recovery point of exactly the state it changes |
| Backup publication (`.../sqlite/backup.py`) | the backup, its manifest, a staging directory | `create_sqlite_backup` and its compensation | no manifest without its backup; nothing is overwritten; the verdict is what is on disk |
| Restore (`.../sqlite/restore.py`) | the bound backup, the staged and the published target | `verify_and_restore_sqlite` | only verified bytes reach a target that did not exist; failures withdraw it |
| Unit of work (`.../sqlite/unit_of_work.py`) | connection, transaction, lease | enter, commit, rollback, exit | one lease release per entry; a failed commit is never reported as done |
| File organizer (`agents/file_organizer`, `skills/file_organizer`, `infrastructure/file_organizer`) | documents, locations and items in SQLite; the folders | prepare, confirm or skip, archive | no file is lost; the database says where a document is |
| Loop engine (`common/loop_engine.py`) and planner (`planner.py`, `main.py`) | messages, call counts, tokens, trace | ask, run a tool, retry, refuse, stop | it ends, within its limits, with a true trace |
| Feedback on runs (`tools/data_cleaning_tools.py`) | decisions, events, candidates, queue of a run | `apply_feedback_decisions`, `apply_human_review` | the five artifacts agree; a decision counts once |
| Agent judgement exchange (`services/agent_judgement_gateway.py`) | request, response and receipt of a run | prepare, resume | a response is consumed once, and is the one that was checked |
| Document management agent (`agents/document_management`, `connectors/artifacts`, `skills/document_management`, `skills/file_organizer/document_parse.py`, `ocr`) | artifacts of a run, its rows, a unit of work | `prepare` | no artifact is rewritten; what the database has of a run is published and whole |
| Archive plan (`tools/data_cleaning_tools.py`, `agents/audit_agent.py`, `contracts/archive_gate_schema.py`) | queue, plan, audit, review and result of a run; the folders | `prepare_file_organization_run`, `review_run`, `apply_human_review`, `execute_archive_plan` | no file moves without the review and the audit it needs; results and records are true |
| Project ledger (`ledger/project_ledger.py`) | `project_ledger.json` and `archive_manifest.json` of a project | `apply_patch`, `record_archive_event` | no claim is dropped unsaid, the best one prevails, every move is recorded |
| PageIndex integration (`integrations/pageindex`) | index snapshots, commit markers, a lock | index, look up, publish, collect | a marker always names a whole snapshot; an answer is of the version and content it was asked for |
| Document parse skill (`skills/document_parse`) | the cache of the knowledge base: a marker and entries, without a lock | `parse`, `clear_cache` | what is served is true of what was read; clearing removes entries only; no failure passes for a classification |
| Interpreted runs (`tools/data_cleaning_tools.py`, `services/retrieval_service.py`, `services/document_interpretation.py`, `integrations/business_context`, `integrations/document_store/router.py`) | the directory of a run, private snapshots, a registration | `_prepare_interpreted_file_organization_run` | what enters a run has the bytes of its file; relations are borne out by the catalog; a plan answers every file |
| Business rules, contracts, governance, loop packages, scripts | none, or one call's | pure functions over one call's data | results within their contracts |

How they interact. The organizer and the document management agent write through
the unit of work, which takes the maintenance lease and then SQLite's write
lock; the migration runner takes the same lease around a whole batch and the
same write lock around each migration, so the two exclude one another, but
programs that know nothing of the lease meet the runner at the write lock only.
The runner publishes its recovery points through the backup publication. The
organizer moves files while it holds the write lock, but the owner of the
folders knows no lock at all. The loop engine calls planner and tools; tools
call the pipeline, the agents and the ledger. Feedback, judgement and archive
plans meet in the directory of a run, through its files. A restore reads the pair
a backup publishes, at a path others publish to. The document parse skill asks a
structure index, which PageIndex implements, and keeps what it is told in a cache.
An interpreted run reads each file once, through a document store, into a snapshot,
and passes what it reads to retrieval and to an interpreter it does not trust.

Hard behaviours: backups read before a lock and used under it; two-step
publications that a death cuts in half; a file moved before the database
commits; locks released by an exception; retries of what may have been done.
`PROJECT.json` lists each as a hazard, at its line, with the properties that
answer for it.

## 2. Modules

| Module | Models | Used by |
|---|---|---|
| `SchemaStatus` | `inspect_database_schema`: the classification of a history | `Migration` |
| `Migration` | migrate commands, managed and unmanaged writers, recovery points | `MCMigration`, `MigrationProofs` |
| `Lease` | abstract: a reentrant lease with one holder | `MaintenanceMutex` |
| `MaintenanceMutex` | `_DatabaseMaintenanceMutex.hold`; implements `Lease` | `MCMaintenanceMutex`, `MaintenanceProofs` |
| `BackupPublication` | the file system steps of `_create_sqlite_backup` | `RestorePublication` |
| `RestorePublication` | `verify_and_restore_sqlite`, beside the publishers | `MCRestorePublication`, `MaintenanceProofs` |
| `FileOrganization` | prepare, `execute_confirmed`, `ArchiveSkill.execute`, the folders | `MCFileOrganization`, `FilingProofs` |
| `LoopEngine` | `LoopEngine.run` | `MCLoopEngine`, `CallProofs` |
| `RunFeedback` | the directory of one run: judgement request and response, feedback, forms, human reviews | `MCRunFeedback`, `RunFeedbackProofs` |
| `ProjectLedger` | the ledger and the manifest of each project, and the steps of a call that writes them | `ArchivePlan` |
| `ArchivePlan` | prepare, audit, correct and execute a run; the folders; with `ProjectLedger` | `MCArchivePlan`, `ArchivePlanProofs` |
| `StructureIndex` | abstract: the port of a structure index | `PageIndexArtifacts` (refinement), `KnowledgeBase` |
| `PageIndexArtifacts` | the PageIndex client and its artifact store; implements `StructureIndex` | `MCPageIndexArtifacts`, `PageIndexProofs` |
| `KnowledgeBase` | the knowledge base of the document parser and its cache, over `StructureIndex` | `DocumentParse` |
| `DocumentParse` | `parse` with its three layers | `MCDocumentParse`, `FilingProofs` |
| `UnitOfWork` | `SqliteUnitOfWork` in write mode | `DocumentRun` |
| `FileParse` | operators: parsing one file, the OCR chain, facts and review of it | `DocumentRun` |
| `DocumentRun` | `DocumentManagementAgent.prepare` and the artifact store | `MCDocumentRun`, `DocumentRunProofs` |
| `CandidateRetrieval` | operators: catalog, retrieval, normalisation of a context | `DocumentInterpretation` |
| `DocumentInterpretation` | operators: what is asked of the interpreter and kept of its reply | `InterpretedRun` |
| `NativeExtraction` | operators: what is read out of one file, and by which engine | `InterpretedRun` |
| `InterpretedRun` | one call that prepares an interpreted run, and others at its files | `MCInterpretedRun`, `CallProofs` |

### Migration

`db` is what the database holds: whether the migration table exists, its rows,
and how much managed and unmanaged writers have committed. `gen` advances with
each commit and is what `PRAGMA data_version` lets an open connection, the
*witness*, notice. A command (`pc[r]`) initializes the table, inspects the
schema, opens its witness, copies the database, publishes the copy with its
manifest, has it authorized, takes the lease, plans the batch, and then per
migration begins a write transaction, repeats the checks, and commits; after the
first migration it takes a new recovery point under the write lock. `Refused`
collects the checks that end a command, `Fault` an error anywhere, `Crash` a
death. `RawStep` is somebody without the lease: another release, a tool, an
operator who inserts or deletes history rows. `LosePoint` clears backups away.

One step is a call the others can see between: each read of the database, each
lock, each publication. Hashing, SQL text and connection settings are left out;
what verification of a backup means, that its files are still those published,
is `point[r] \in points`. The backup directory is trusted, as the documentation
of `create_sqlite_backup` and `README.md:108` require: nobody forges a manifest.

`SchemaStatus` keeps the order of the tests in `schema.py`: a malformed row
hides a version that is too new, which hides a gap, which hides a foreign
checksum.

### MaintenanceMutex and Lease

The thread lock (`owner`, `count`) is per process, the file lock is one. A
thread passes through acquiring, opening, locking, the body, and back; it may
give up at each wait. `UnlockRaises` is the exception of `_release_file_lock`
in the `finally` block. `Kill` ends a process and everything it held. `Lease` is
what the docstring of `database_maintenance_lock` promises, and `LeaseOf` maps
the thread-local depth to it.

### BackupPublication

Every step of the publication that the file system can see, and its failure:
private files, a hard link per name, removal of the private files and of the
directory, the final look at both names, the compensation that removes the
manifest before the backup, and the `finally` block. A name holds its
publisher's file, a foreign one, or none (`NoEntry`), which is what comparing device and
inode tells apart.

### RestorePublication

A restore (`restore[r]`) checks the target, loads the manifest, binds the backup by a
hard link, verifies the bound file, copies it, verifies it again, links the copy to the
target, and tidies up in five steps; `RestoreTailFails` is a failure in one of them,
`Withdraw` takes the target back by identity, `Tidy` is the `finally` block. `StagingFails` is a
private directory that could neither be made usable nor removed again: the call does not know of
it, `Tidy` does not look for it, and it stays, empty, behind a plain failure. The path a restore
reads is that of `BackupPublication`, whose publishers run beside it. A file is known by
its maker: a publisher's backup is what its manifest describes until it decays.

### FileOrganization

`Prepare` is one transaction of `FileOrganizerAgent.prepare`; `Confirm` the first
transaction of `execute_confirmed`; `Check`, `Move` and `Record` are
`ArchiveSkill.execute` up to the move, the `os.replace`, and the commit, and `Reread` the hash of
the target between the last two, all under the write lock (`writer`); `Blocked`, `Busy` and `Reconcile` are its
answers when a check fails, the lock is not had, or something failed before or
after the move. `OwnerEdit` is the owner of the folders, who takes no lock and may come between any
two of them. A content stands for its hash
and for the document that is unique to it. `adrift` and `touched` are history: the documents
whose move was reported as not recorded, and the paths the owner has edited since the last
`Reread`. No guard reads them.

### LoopEngine

One action per way a round can go: refused by the time limit, failed planner,
over budget, answered, refused as a repetition, started; then the tool ends,
raises, or is missing. A call is its signature, a message its kind and its
round. `main.py` configures 15 rounds, two repetitions, two retries, a window
of three and 20000 tokens.

### RunFeedback

`run` is how far phase one got (claimed, failed, inputs saved, requests written);
`intact` whether the source files are still those of the input snapshot; `disk`
the artifacts. `interpretations` stands for the three collections made from a
response, `form` for the feedback form and the trace. A caller (`pc[c]`) resumes a
response (`Resume`, checks before the lock; `ResumeLocked`, those under it), or
applies a batch (`Apply`, `ApplyLocked`, then `Weigh` per entry, `Weighed`), and
either way ends in `_commit_feedback_transaction`: `Stage`, `Replace` per
artifact, `Commit`; or `ReplaceFails`, `Undo` per artifact, `Abort`. `Die` is the
death of a process, or an exception that is no `Exception`: both give the lock
back and roll nothing back. `WriteForm` and `HumanReview` write without the lock.

`lock` is the thread lock and the file lock together: both are keyed by the real
path of the run, and every path takes them in this order. `StateValid` is all of
the loading and replaying that precedes a batch. A decision names its item, its
choice, its id and the *snapshot* it was taken on: the item and the status of its
queue. Hashes are compared by what they cover. The runs are those of the agent
judgement exchange; the queue that `_prepare_interpreted_file_organization_run`
writes takes the same decisions, and has no response to be consumed.

### ArchivePlan and ProjectLedger

`ProjectLedger` has the two files of a project and the call each host is in
(`op[h]`): a call reads, changes its copy, empties a file, and fills it, for
`open(path, "w")` truncates before `json.dump` writes. Two calls that fill one file
may leave it `Torn`; a file that is `Emptied` or `Torn` raises where it is read.
`Reconciled` is `_reconcile_field`: which of a claim and a fact prevails, by score,
threshold and value. Claims are (value, score) pairs; names, timestamps, the
overview page and the decision log are left out.

`ArchivePlan` has the call of each host (`job[h]`) with its position in the files
or in the plan. `Prepare` probes all files and then reads one after the other:
`SkipFile`, `ReadUntrusted`, `ReadTrusted` with a ledger call, `Decide` for what
`_build_archive_action` makes of the decision; `FinishPrepare` writes queue and
plan. `Audit` reads the queue; `Correct`, `CorrectNothing` and `WriteReview` are
`apply_human_review`. `Execute` passes the gate and loads the run; each action is
`FindArchived`, `Block`, or `Check`, `Move`, `Recording`, with `CopyOnly` for a move
between file systems that stops half way and `RaiseUndecided` for a plan entry
without a target; `FinishExecute` writes the result. `Raise`, `Die` and `Edit` are
an exception, a death and the owner of the folders. What extraction and decision
rules may answer is a constant. `moves`, `raced` and `spoiled` are history: the
moves made, whether two hosts ever had one free target checked at the same time,
and the projects whose ledger calls overlapped or were cut off. They appear in no
guard. Runs with an intent registration are refused by the executor and left out.

### StructureIndex, PageIndexArtifacts and KnowledgeBase

`StructureIndex` is what its clients rely on: the first structure committed under a
content and a version is of them, and is the answer to everybody who asks. In
`PageIndexArtifacts` a call (`call[i]`) names its operation by the fingerprint the adapter
sees, pins the one the client sees, stages and hashes the source, looks for a committed
marker, runs the program, compares the fingerprint again, and publishes snapshot and
marker under the lock. `Collect` removes snapshots without a marker; any age, since the
grace period may be zero. `Upgrade`, `Unread` and `Edit` change the program, its
readability and the source. A fingerprint is a release: a program that is exchanged for
another and back between two looks is not told apart, in the code either.

`KnowledgeBase` uses the abstract index and not its implementation: that is what the
refinement is for. A query identifies the provider, hashes the document, looks into the
cache, asks the index, compares the identity again, and stores the structure in two
writes; nothing is locked. `Verify` is the layout check of `clear_cache`, in one step, and
`Unlink`, `RemoveDir`, `Unmark` what follows it. `Damage` is somebody else in the
directory.

### DocumentParse

Routing and executor give one of five ends or a text; `Known` scores the categories
against the structure as `query_kb` does; `Layered` is the choice among knowledge base,
rules and language model. A document is what the rules tell apart in it.

### UnitOfWork, FileParse and DocumentRun

`UnitOfWork` has the four states of `_UowState`, the connection and the lease. Every call
may raise: `EnterFails`, a commit that does not commit (the user's `Fails`), a close or
release that raises after it (`Close`), a rollback that raises (`Exit`, where closing the
connection ends the transaction all the same).

`DocumentRun` is one action per step of `prepare`: begin, create the run, and for each
file hash, read, record, publish two artifacts and record the item; then publish the run,
commit, close. `Parses` in `FileParse` is what a file can be parsed to, by a native parser
or by the first of the configured OCR providers that succeeds. A run has the identity of
its unit of work, a document that of its content: run ids are fresh, content hashes
unique. `Conflicts` is the `ArtifactConflictError` of a path that holds other bytes.

### CandidateRetrieval, DocumentInterpretation, NativeExtraction, InterpretedRun

`FindBusinessCandidates` is the retrieval service over the catalog: agreements make
candidates, a contradiction in an identifying field withholds them all. `Requestable`
is what a request may hold, `CompletePrepared` what is kept of a reply, which may be
anything. `ExtractDocument` is the choice of a reader by kind and, for pictures, of an
engine.

`InterpretedRun` follows `_prepare_interpreted_file_organization_run`: claim and register
the directory, then per file `Identify`, `Bind`, `Stat`, `Open`, `Read`, `Snapshot`,
`Extract`, `Judge`, then the review queue and six artifacts. A file is its inode, its
modification stamp and its content; `Edit`, `Replace`, `Remove` and `PutBack` are other
programs. An edit in place is taken to move the modification time, and a file that comes
anew to have an inode no file had before, as the code does: `Identity` is all it compares.

## 3. Runs

| Run | Instance | Properties | What it shows |
|---|---|---|---|
| `migration` | 2 runners, 1 managed and 1 unmanaged writer, 2 migrations, 3 commits by others, faults | `ExecutesOnFreshPoint` `EveryMigrationIsRecoverable` `AppliesOnCompleteHistory` `BatchExcludesManagedCommits` `CommandsEnd` | a migration runs only from a fresh published copy, on a whole history, excluded from managed writers; commands end |
| `mutex` | 4 threads in 2 processes, nesting 3, unlock faults | `ImplementsLease` `LeaseIsReturned` | two locks make one reentrant lease, and it comes back |
| `publication` | 2 publishers of one path, 1 restore that reads it, foreign files, decay, faults and deaths | `PublishedIsWhole` `VerdictsAreTrue` `OthersAreSpared` | no half pair is taken for a whole one; only a verified copy is seen at a target; nobody removes what is not theirs |
| `organize` | 2 hosts, 1 run, 2 documents, 2 source and 2 archive paths, 1 foreign edit, faults | `StillMayMove` `LocationsAreTrue` `NothingIsLost` `ExecutedMeansThere` | under the write lock no other call comes between check, move, re-read and record; what is recorded was read back, unless the owner edited it since |
| `loop` | 2 tools and a missing one, 5 rounds, 2 repetitions, 1 retry, window 1, 8 tokens | `ToolsRunBounded` `TraceIsComplete` `PlannerSeesGoalAndOutcome` `RunEnds` | every exit is within its limits, and every round is in the trace |
| `feedback` | 2 callers, 2 responses, 3 items, 4 calls, failures and deaths | `ConsumedOnce` `AcceptedIsKept` `ArtifactsAgree` `RolledBackIsWhole` | one response is consumed, accepted decisions stay, and a rollback restores all it touched |
| `archive` | 2 hosts, 1 run of 2 files with one target, 1 project with a derived stage fact, 5 calls, 1 mishap (edit, failure or death) | `LedgersAreSound` `RecordsAreTrue` `RecordedUnlessSpoiled` `LostOnlyToARace` `HeldBackForGood` | results and records are true, audits are obeyed; files and records are lost only where two calls overlap, one is cut off, or the owner edits |
| `archive_unreported` | 1 host, 2 calls, no mishap | `MovesAreReported` (violated) | a plan entry without a target ends the execution after files have moved, without a result |
| `pageindex` | 2 indexers, 1 collector, 2 contents, 2 releases, 2 structures per input, 2 calls, failures and deaths | `MarkerIsWhole` `ImplementsIndex` `CallsEnd` | two links are one commit of the abstract index, whoever dies or upgrades between them; no call waits for ever |
| `parse` | 2 parses, 1 clearing, 2 contents, 2 releases, 3 documents, 2 mishaps | `KnowledgeIsSound` `ClearSpares` `JudgementIsFounded` | an unlocked cache never contradicts its index; clearing removes entries only; a failure is no classification |
| `document` | 2 calls over 2 files, one given twice, 1 edit, failures and deaths | `RunsAreWhole` `OutcomeIsHonest` `NothingIsHeld` `CommitsAddUp` | what the database has of a run is published and whole; callers know what happened; nothing stays held; a commit adds its own run to what the others left |
| `interpretation` | 2 files, 2 contents, 2 records, 5 sets of engines, 41 replies, 2 edits, failures and a death | `RelationsAreTraced` `PlanAnswersEveryFile` `BoundToItsBytes` | bytes, relations and plan of an interpreted run are what they claim |

Each property of a passing run has a mutant in `PROJECT.json`: a change of the
model, as a plausible bug would make it, under which the run finds the property
violated. The mutated forms stand in the modules above the definition they
replace.

### Bounds

Unbounded in the code, bounded in the runs: commits by others (`MaxGen`), calls
(`MaxCalls`, `MaxQueries`, `MaxClears`), commands per runner (`MaxAttempts`), nesting
(`MaxDepth`), leaked acquisitions (`MaxLeaks`), foreign edits (`MaxEdits`), releases of the
indexing program (`MaxVersion`), and upgrades, edits, damages, failures and deaths
together (`MaxMishaps`). They suffice because what the
properties tell apart happens within them: two migrations give a batch a first
and a later one, which the code treats differently; three foreign commits put one
before the backup, between backup and lock, and between the migrations; of two
commands one meets what the other left, dead or not, which is what a retry
meets; two publishers, hosts, parses and
processes are the fewest that can collide, and no action involves three; depth
three has an outermost, a middle and an innermost hold; four calls are a resume, a
second one that competes or a form, and two batches; the six batches of `feedback` are one
per way an entry is accepted or turned down; five calls prepare a run, correct it and
execute it on two hosts at once, with a retry to follow; two files with one target
give a move one that competes, before and after it; five rounds leave a window of one round
behind, use up a repetition and meet every exit; two releases are one the call saw and one it
did not; two queries are one that fills the cache and one that is served from it, a mishap
before and one after; two edits take a file away and put it back, or exchange it twice. Symmetry is
used where the members of a set are interchangeable and no liveness is checked. For what is
proved the bounds do not matter.

`MaxItems` is a limit of the code (256 entries in a review queue). In the instance it is 4,
which two files do not exceed; an overflow raises before anything is saved, like
a failed write does. No record of the instance has an amount: one with an amount makes
`Requestable` false, which the long text does too.

Deadlock is not checked where the program really stops: a loop that has ended,
runners without commands left, calls that are done.

### Fairness

`Migration!FairSpec`: a started command keeps running; it never waits without a
busy timeout, so the fairness is weak and names no lock. Writers, operators and
faults are never obliged. `MaintenanceMutex!FairSpec`: a thread inside `hold` keeps
running and the body of a hold ends (strongly fair, because nested holds are
between). `LoopEngine!FairSpec`: one thread; the planner and the tools return or
raise, which their own time limits provide. `PageIndexArtifacts!FairSpec`: a call keeps
running, since the program it starts has a time limit, and whoever holds the lock gives it back
(collectors end, calls persist or fail). Acquiring the lock is strongly fair: the code retries
until its own time limit, and the model leaves that limit to `Fails`, which is not obliged;
`CallsEnd` therefore says that nobody is locked out, not how long the wait is.

## 4. Proofs

| Module | Theorem | For every |
|---|---|---|
| `MigrationProofs` | `TypeCorrect`, `RecoveryCorrect`, `FreshPointCorrect`, `RecoverableCorrect`, `CompleteHistoryCorrect`, `BatchExclusionCorrect`, `UsableMeansPrefixCorrect` | set of runners, managed and unmanaged writers, catalog per runner, rows others may insert, number of commits |
| `MaintenanceProofs` | `MutexCorrect`, `ImplementsLeaseCorrect` | set of threads and processes, nesting, leaks |
| | `PublishedIsWholeCorrect`, `VerdictsAreTrueCorrect`, `OthersAreSparedCorrect` | set of publishers and restorers, with and without failures |
| `FilingProofs` | `TypeCorrect`, `StillMayMoveCorrect`, `NothingIsLostCorrect`, `SettledStaysCorrect`, `ExecutedCorrect`, `LocationsCorrect` | set of hosts, runs, documents and paths, number of edits |
| | `KnowledgeIsSoundCorrect`, `JudgementIsFoundedCorrect`, `ClearSparesCorrect`, `ParseUsesIndex` | set of parsers, clearers, contents, documents and categories, whatever nodes a structure has and whatever a language model answers, number of releases, queries, clearings and mishaps |
| `CallProofs` | `TypeCorrect`, `ToolsRunBoundedCorrect`, `TraceIsCompleteCorrect`, `PlannerSeesCorrect` | planner, tools, costs and limits |
| | `FilesAreReadTruly`, `RelationsAreTracedCorrect`, `PlanAnswersEveryFileCorrect`, `BoundToItsBytesCorrect` | list of files, contents, catalog, engines and replies of the interpreter, number of edits, with and without failures |
| `RunFeedbackProofs` | `TypeCorrect`, `ConsumedOnceCorrect`, `AcceptedIsKeptCorrect`, `DecisionsCountOnceCorrect`, `ArtifactsAgreeCorrect`, `RolledBackIsWholeCorrect` | set of callers, responses, items and batches, number of calls |
| `ArchivePlanProofs` | `TypeCorrect`, `LedgersAreSoundCorrect`, `RecordsAreTrueCorrect`, `ReviewIsAskedCorrect`, `HeldBackForGoodCorrect`, `LostOnlyToARaceCorrect`, `RecordedUnlessSpoiledCorrect` | set of hosts, runs, files, projects, fields, values and thresholds, whatever extraction and decision rules answer, number of calls and mishaps |
| `PageIndexProofs` | `TypeCorrect`, `MarkerIsWholeCorrect`, `ImplementsIndexCorrect` | set of indexers, collectors, contents and outcomes of the program, number of releases, calls and mishaps |
| `DocumentRunProofs` | `TypeCorrect`, `NothingIsHeldCorrect`, `OutcomeIsHonestCorrect`, `CommitsAddUpCorrect`, `RunsAreWholeCorrect` | set of calls, files and contents, lists of files with repetitions, installed OCR providers, number of edits, with and without failures |

`MaintenanceProofs`, `FilingProofs` and `CallProofs` each extend two components. The two share no
name, and each theorem is of the specification of one of them (`Spec` of the first;
`BackupAndRestore`, `ParseSpec`, `RunSpec` of the second): what stands together is what belongs
together, and no proof uses the other component.

A `TypeOK` is not among the properties of a run: it is proved as `TypeCorrect` where its module
has proofs, and describes the state for the reader elsewhere. `SettledStays`,
`DecisionsCountOnce`, `ReviewIsAsked` and `UsableMeansPrefix` are proved and no longer run. The
inductive invariants (`RecoveryInv`, `MutexInv`, `MaintenanceInv`, `QueryInv`, `RunInv`, `Inv`)
are stronger than what the runs check. The proofs assume only what the modules assume of their
constants: that kinds of processes are disjoint, that a call is given at least one file, that a
null value is none of the others, that bounds are natural numbers and the window is positive, that
the inode of a file which was there before a call is none that a later file gets, and of the reply
of an interpreter the types alone.

*Migration.* That a migration executes on a fresh recovery point is not inductive:
it needs who holds which lock at which step (`LockInv`); that an open witness
which has seen no commit vouches for the snapshot and the token (`TokenInv`);
and that under the write lock the history stays the one checked (`HistoryInv`).
`RecoveryInv` is their conjunction with the three properties; each conjunct has a
lemma with one step per action. The batch exclusion follows from `LockInv`: both
kinds of commit need the lease. `UsableMeansPrefixCorrect` rests on two lemmas
about the classification, one in each direction.

*MaintenanceMutex.* `MutexInv` says what a thread at each step owns. It gives
that two threads are never in a body at once, which is the guard of
`Lease!Enter`. Every other step leaves the depth alone or is `Leave` or `Vanish`.

*BackupPublication and RestorePublication.* `MaintenanceInv` says of each publisher which of the
two names it holds at the step it is at (`LinksOf`) and what it may come to report (`ReportOf`):
after a manifest was linked the backup of the same publisher is there until the compensation has
taken the manifest away. Of a restorer it says that a copy which is about to be published was
compared with the manifest (`CopyOf`), from which step on the target may be its own (`TargetOf`),
and what private files are left (`LeftOf`): behind a plain failure
nothing but an empty directory the call could not remove. Decay disturbs none of this: what is copied is
compared after the copying. That others are spared is an action property of the same invariant: a
name that changes is that of the process which takes the step.

*FileOrganization.* `LockInv` ties the phase of a host to the write lock, the
item and, foreign edits apart, to all of `MayMove`. A move then finds the target
free, so that nothing is lost; a record finds its item confirmed; and of the
documents only the one being moved leaves its recorded location. A target that was re-read is the
document until the owner touches it, which is all that `ExecutedCorrect` claims of what is recorded.

*LoopEngine.* `LoopInv` adds to the types the books (`Books`: tokens and rounds
agree at every step) and a count of granted runs (`RunsGranted`): a signature
requested n times has been run at most n times the attempts, with the open job
counted by its attempt. `ViewInv` follows the messages through a round: they begin with the
opening and, from the second round on, end with what became of the round before, so that
trimming to a window of at least one round keeps both.

*KnowledgeBase and DocumentParse.* What a cache entry is true of is decided by the index, which
keeps what it has committed (`Grown`); `QueryInv` therefore needs of a query only what it saw and
asked: the version is not newer than the one the index answered for (`Asked`), and from the second
look at the identity on, which compares the two, what it stages or serves is what the index has
under its own key (`Holds`). The versions only go up, so that equality before and after pins the
one between. Everything else that happens in the directory leaves an entry, removes it or damages
it, none of which makes a query believe it (`AroundFrame`). For the judgement, a lemma gives the
range of `Score` and `Best`: that there is a first category with the best score is the
least-number principle (`LeastNat`), which follows from the library's theorem that the order of
the numbers is well founded. `ParseUsesIndex` shows that each step of the parser is one of the
abstract `StructureIndex`, or leaves it alone; with `ImplementsIndexCorrect` below it, which has
PageIndex implement the same port, parser and index fit.

*InterpretedRun.* `FileInv` is about the file being read. No two files at or aside of a path share
an inode, and no file has a stamp later than the last change (`InodesApart`); so a file that still
has the identity a call took before reading has the bytes it read (`ReadTruly`), whether it
stayed, was put back, or is aside at the moment. `BoundToItsBytes` follows at the last look.
`Gathered` counts what the call collects: each action so far answers its file by a failure or by
an intent with the entry, the manifest line and the extraction at the same place, and there is one
of them per failure or intent. `Saved` says that what is on disk are the first artifacts in their
order, and none before the last file is answered. `RelationsAreTraced` is inductive beside them,
because an entry only comes from `Trace`. The proof of `PlanAnswersEveryFile` failed for a call
without files: the code calls such a run `failed` (`data_cleaning_tools.py:2014`), and the
property now says so.

*RunFeedback.* `CallInv` says that the holder of the lock is the only caller in a
commit. `FeedInv` looks at a batch on its way: the history it writes has no item
twice and holds the history before, which holds all that was reported; the
decisions on disk are one of the two. `JudgeInv` looks at a response on its way:
none was consumed before, and what has been replaced is of this one. Whoever takes
the lock establishes them from the three properties, and a commit gives the
properties back from them; a step of somebody else writes only what they do not
mention (`Quiet`). That the artifacts agree needs all of a commit at once (`AgreeInv`): what
a call starts from agrees; of the artifacts of its commit, in their order, the first ones
are replaced and the rest are as before or restored; a death is harmless only while nothing
or everything is replaced; and the decisions it accepts are all on the open queue. The same
count of what was replaced shows that a rollback which is done has restored all of it.

*ArchivePlan.* The ledger is dealt with first: `Patched` and `Staged` keep a ledger
`Sound`, and `BooksInv` carries that through the copies of the calls under way, so
that it does not matter which of them is saved last. `JobInv` says what a call has
established where it is: a run is prepared by one host, whose plan nobody has yet;
an execution has reported, truly, on each action before the one it is at. A plan
that is there stays (`Steady`), so one lemma per kind of step (`JobFrame` and those
after it) serves all hosts. `FolderInv` is what a check still guarantees at the
move, edits and races apart. `RecordedUnlessSpoiled` needs two more conjuncts
(`AllInv`): on a project that is not spoiled there is at most one ledger call, and its
copy of the manifest has all that the file has (`CustodyInv`); and every move is that of
an action of its run's plan whose project is spoiled, has the record, or is to get it
from a call under way (`SavedInv`).

*PageIndexArtifacts.* `LockInv` says that one process at most has the artifact lock.
`Knows` says what a call knows where it is: the release it has pinned, whose number only
goes up, so that a structure made after pinning is of that release if the release is still
the one installed; and that a snapshot it has linked is there until its marker is, because
only the holder of the lock collects. A marker that is there stays the first one. For the
refinement, `Committed` reads the markers and `Requests` the calls; each action
has a lemma that names its image: the marker link is `Commit`, an answer `Succeed` or
`Refuse`, a death `Vanish`, a new call `Ask`, and the rest stutter (`StepMap`).

*DocumentRun.* `HoldInv` says that a call which writes has the lease, the connection and
an active unit of work, so that one call writes at a time. `OutcomeInv` says at each step
whether the tables have the run. The story a run tells is not inductive: `Written` adds
what a call that writes has published and staged of the files it is done with, `Place` what
it has of the present one, and `RowsTold` that each row of a document is told by some
`document.json`, but for the one that comes next. `Grows`, that what is published
stays, carries all this and the runs of others (`StoredInv`) through a step, so that there is
one lemma per action for the call that takes it and one for the rest (`AloneKept`). At the
commit, what is `Written` of all files is what `StoredInv` says of a run. `AddInv` says that the rows
a transaction sees are those of the database with what its own call has put over them; because only
the holder of the lease writes, they still are when it commits, and no row of another run is lost
(`CommitsAddUpCorrect`).

What only TLC checks: `CommandsEnd`, `LeaseIsReturned`, `RunEnds` and `CallsEnd`, which are
liveness under fairness and beyond the prover, and `MovesAreReported`, which is violated. Every
other property of a run is a theorem. Induction over data is out of reach as well: no proof here
says what a fold or a recursive function computes, and where one needs a number to exist it goes
through `LeastNat`.

## 5. Where code and text disagree

One is a run that TLC finds violated, and an entry under "findings":
`data_cleaning_tools.py:4610`: `os.path.exists(None)` ends an execution that has
moved files without a result, though `references/project_tools.md:529` has each
action that fails a check reported as blocked (`archive_unreported`).

More need no run. `repository.py:308`: a confirmed item that is confirmed again takes a new
target, the only record of an unfinished move. `loop_engine.py:134`: the window is counted in
messages, three per round; a refused round has two, after which it cuts a round in two.
`data_cleaning_tools.py:3811`: artifacts are replaced one by one and rolled back only by an
exception, though the design says a resume commits atomically; a death between two replacements
leaves a run that can neither be resumed nor was consumed. `maintenance.py:61`: an exception while
unlocking skips the release of the thread lock, which then stays taken in that process.
`archive.py:40`: `os.replace` overwrites a file that the owner saved after the check, though the
design forbids overwriting. An edit after the hash of
`archive.py:41` and before the commit is recorded as executed all the same, so that the recorded hash is
not that of the file. `restore.py:455` ignores that a private directory could not be removed: a
plain "restore verification failed" may leave an empty directory that nothing reports.
`repository.py:357` skips pending items only, while
`agents/file_organizer/agent.py:85` answers "skipped" for a confirmed one too.
`data_cleaning_tools.py:3174` looks into an entry of a batch before it is known to be an object:
with a history on disk, an entry that is none raises instead of being reported (`Raises`).
`apply_human_review` leaves `rule_candidates.json` in another schema, after which every batch for
that run is refused as `invalid_feedback_review_state`; `agents/audit_agent.py:142` recommends
that call. A form written while a resume commit is under way outlives its rollback, and its
presence makes the run "already consumed". `migrations/sqlite/README.md:13` says there is no
production migration; 0001 and 0002 exist. `README.md:97` says a migration fails closed whenever a
commit followed its backup; when that commit applied the migration itself it is skipped, and the
batch goes on with a new backup.

Of the archive plan and the ledger: `_reconcile_field` reports a candidate that has
the higher score but misses the threshold as one that "conflicts with higher or
equal confidence current fact". A second human correction has the score of the first,
is kept as a conflict only, and `apply_human_review` reports success. A claim that is
repeated becomes verified, below the threshold too. `review_decisions.json` is
written when every decision failed, and then satisfies the review check. The gate
passes without `audit_review.json` and does not look at `audit_verdict`, though
`docs/file_organization_l3_loop.md:3` has an audit in the loop. A run without a
judgement request can be given no feedback, so that a pending audit holds it back
for good. A second execution overwrites `archive_result.json`, in which what was
archived is now blocked. A torn ledger blocks its project until it is repaired.

Of document runs: two inputs with equal bytes, or one file given twice, have one document and one
path, and the second publication raises `ArtifactConflictError`, which rolls the whole run back,
though `agents/document_management/AGENT.md:5` promises a result for each input. A file that has
gone is hashed to "" and ends the batch. A PDF of which an engine could not read some pages is a
success without them. Artifacts of a run that was rolled back are never removed.

Of the document parse skill: the temporary file of a query that died makes every later
`clear_cache` refuse. `SKILL.md:117` has the language model asked only if both layers before it
fail; `parse.py` asks it when the rules are of medium confidence too, and a model that cannot be
reached then replaces a medium confidence by a low one, and success by `needs_review`.

Of interpreted runs: a file that goes between the look at it and its snapshot raises an `OSError`
nobody catches, and the batch is lost. The conflicts of a retrieval and its
`STRUCTURE_INDEX_FAILED` never pass `normalize_business_context`, so that the whole context
becomes `SCHEMA_INVALID`. Amounts are texts in a catalog and numbers in a candidate, so that a
record with one is never interpreted. A segment is cut at 4000 characters and may have 4096 bytes:
a Chinese text beyond some 1365 characters is never interpreted. A reply that is itself "blocked"
becomes `SCHEMA_INVALID` and loses its reason. Files with equal bytes share their extracted
artifact and the identity of their intent. More than 256 review items raise, and the run is lost.
A death between the making of the directory and its registration leaves a directory nobody knows.
An OCR engine that succeeds with an empty text keeps the later ones from being asked, and
Tesseract calls a PDF a success of which it recognised no page.

## 6. Not modelled

- *Planner and entry point.* `LoopEngine` is checked, and proved, for a planner that may answer anything,
  which includes `planner.py`; what that planner makes of the wording of an observation is left out, with its prompts, configuration and HTTP.
- *Migration catalog.* Loading is a check of names, checksums and SQL text, without state; contiguous versions are an assumption of `SchemaStatus`.
- *Business rules, opportunity and CRM tools.* Scoring tables, regular expressions and conversions over one call's data. `ArchivePlan` takes their
  decisions as any value they may give; the gate itself is modelled.
- *Adversarial verification, goal validation, loop packages, skill policies, governance.* Judgements about finished artifacts, without state.
- *Scripts and bootstrap.* Wiring and command lines.

Of the modelled parts are left out: runs of the archive with an intent registration, which the
executor refuses; the overview page and the decision log of a ledger; `apply_feedback_form`,
`generate_candidate_tests` and the ledger entries of a human review; the schemas of the judgement
exchange; read units of work and connection settings; authorization tokens of backups beyond what
the runner uses; proposals and structure queries of the organizer; the readers behind the
executors; HTTP and prompts. Four branches are left out on which no property depends: the action `final_answer`,
which `loop_engine.py:401` does not count (no tool has that name); a retrieval service without
`.interpreter` (`data_cleaning_tools.py:1635`; the one that is wired has it); candidates with
ill-formed fields, which block like a long text (`document_interpretation.py:363`); and the diagnostic
for a media type that is not indexed (`retrieval_service.py:63`). `PROJECT.json` names the reason for each part.

The verification of a cache layout is one step in `KnowledgeBase`, and the look at a path and the
write of an artifact one step in `DocumentRun`, which is sound because no other call has its
paths. The age of a snapshot is left open, which is more than any grace period allows.

## 7. Plan

Every safety property the runs check is proved. What would add most from here:

1. that `UnitOfWork` keeps its promise to every caller, not to `DocumentRun` alone: one release of the lease per
   entry, and no failed commit that is reported as done, as theorems over its four states;
2. of `Migration`, that its runner and writers use the maintenance lease as `Lease` allows, so that the two
   proofs about the lease meet, as those about `StructureIndex` do;
3. of `NativeExtraction` and `CandidateRetrieval`, the lemmas a reader would want to cite: which engine answers, and that a contradiction
   withholds every candidate;
4. then the planner over `LoopEngine`, and registered runs once they can be executed.
