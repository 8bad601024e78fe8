---------------------------- MODULE ArchivePlan ----------------------------
(***************************************************************************)
(* The archive plan of a run that has no storage binding registry:           *)
(* prepare_file_organization_run reads files, patches the ledgers with what  *)
(* it trusts and writes a plan; an audit reads the run; a person corrects    *)
(* facts; execute_archive_plan passes the gate, moves file after file and    *)
(* records each in its project's ledger.  Hosts do this at the same time,    *)
(* fail and die; the owner of the folders edits files without asking.        *)
(* A run with an intent registration is refused and does not appear here.    *)
(***************************************************************************)
EXTENDS ProjectLedger, Sequences

CONSTANTS
  Run, Path, Content,
  Absent,      \* no file
  NoPath,      \* an undecided target
  NoRun, NoPlan, NoResult,
  Start,       \* what the folders hold at first
  Input,       \* the files each run is called for
  Extraction,  \* per file: the ledger and the trusted facts it may yield
  Decision,    \* per file: what evaluate_archive_decision may say of it
  Correction,  \* what a person may correct: a ledger and a patch
  MaxMishaps,  \* bound: deaths of hosts, failures of file operations, and
               \* what the owner of the folders changes on his own
  MaxCalls     \* bound: calls that hosts make

Advice  == {"unknown_project", "human_review_recommended", "undecided"}
Blocker == Advice \cup {"target_exists", "source_missing"}
Hard    == {"source_missing", "target_exists", "unknown_project"}

ASSUME PathAssumption ==
  /\ Absent \notin Content
  /\ NoPath \notin Path
  /\ Start \in [Path -> Content \cup {Absent}]
ASSUME RunAssumption ==
  /\ NoRun \notin Run
  /\ Input \in [Run -> Seq(Path)]
ASSUME RecordAssumption == Record = [run : Run, source : Path, target : Path]
ASSUME ReadingAssumption ==
  /\ \A p \in Path : \A e \in Extraction[p] :
       e.project \in Project /\ e.patch \in Patch
  /\ \A e \in Correction : e.project \in Project /\ e.patch \in Patch
  /\ \A p \in Path : \A d \in Decision[p] :
       /\ d.target \in Path \cup {NoPath} /\ d.home \in Project
       /\ d.advice \subseteq Advice
       /\ d.target = NoPath => "undecided" \in d.advice
ASSUME BoundAssumption == MaxMishaps \in Nat /\ MaxCalls \in Nat

Action ==
  [source : Path, target : Path \cup {NoPath}, home : Project,
   blockers : SUBSET Blocker, archived : BOOLEAN]

Outcome == {"archived", "already_archived", "blocked"}

ASSUME NoPlanAssumption ==
  NoPlan \notin Seq(Action) /\ NoResult \notin Seq(Outcome)

VARIABLES
  disk,      \* what each path holds
  started,   \* the runs that have a directory
  queue,     \* review_queue.json: whether an item of it requires feedback
  plan,      \* planned_archive_actions.json
  audit,     \* audit_review.json: whether required feedback is pending
  reviewed,  \* runs that have a review_decisions.json
  result,    \* archive_result.json
  job,       \* the call each host is in
  edits, failures, calls,
  moves,     \* history: the moves that were made
  raced,     \* history: two hosts had one free target checked at once
  spoiled    \* history: projects whose ledger calls overlapped or were cut off

runFiles == <<started, queue, plan, audit, reviewed, result>>
history  == <<moves, raced, spoiled>>
counters == <<edits, failures, calls>>
vars     == <<disk, runFiles, job, counters, history, ledgerVars>>

\* A call prepares (reading, patching, deciding one file after the other),
\* corrects, or executes (executing, checked, moved, recording one action after
\* the other).  It has the position n and what it has built or reported.
Job ==
  [at : {"idle", "reading", "patching", "deciding", "correcting", "corrected",
         "executing", "checked", "moved", "recording"},
   run : Run \cup {NoRun}, n : Nat,
   ready : SUBSET Nat, built : Seq(Action),
   cleared : BOOLEAN, out : Seq(Outcome)]

NoJob ==
  [at |-> "idle", run |-> NoRun, n |-> 1, ready |-> {}, built |-> <<>>,
   cleared |-> FALSE, out |-> <<>>]

Preparing(h)  == job[h].at \in {"reading", "patching", "deciding"}
Correcting(h) == job[h].at \in {"correcting", "corrected"}
Executing(h)  == job[h].at \in {"executing", "checked", "moved", "recording"}

File(h)   == Input[job[h].run][job[h].n]
Acting(h) == plan[job[h].run][job[h].n]

TypeOK ==
  /\ LedgerTypeOK
  /\ disk \in [Path -> Content \cup {Absent}]
  /\ started \in SUBSET Run
  /\ queue \in [Run -> {"none", "clear", "required"}]
  /\ plan \in [Run -> Seq(Action) \cup {NoPlan}]
  /\ audit \in [Run -> {"none", "clear", "pending"}]
  /\ reviewed \in SUBSET Run
  /\ result \in [Run -> Seq(Outcome) \cup {NoResult}]
  /\ job \in [Host -> Job]
  /\ \A h \in Host : job[h].at # "idle" => job[h].run \in Run
  /\ edits \in 0..MaxMishaps
  /\ failures \in 0..MaxMishaps
  /\ calls \in 0..MaxCalls
  /\ moves \in SUBSET Record
  /\ raced \in BOOLEAN
  /\ spoiled \in SUBSET Project

Init ==
  /\ LedgerInit
  /\ disk = Start
  /\ started = {}
  /\ queue = [r \in Run |-> "none"]
  /\ plan = [r \in Run |-> NoPlan]
  /\ audit = [r \in Run |-> "none"]
  /\ reviewed = {}
  /\ result = [r \in Run |-> NoResult]
  /\ job = [h \in Host |-> NoJob]
  /\ edits = 0 /\ failures = 0 /\ calls = 0
  /\ moves = {} /\ raced = FALSE /\ spoiled = {}

Begin(h) ==
  /\ job[h].at = "idle"
  /\ calls < MaxCalls /\ calls' = calls + 1
  /\ UNCHANGED <<edits, failures>>

Fail ==
  /\ edits + failures < MaxMishaps /\ failures' = failures + 1
  /\ UNCHANGED <<edits, calls>>

Enter(h, at) == job' = [job EXCEPT ![h].at = at]

\* A ledger call on p begins while another is open.
Overlapping(h, p) == \E g \in Host \ {h} : op[g].project = p

Spoil(h, p) == spoiled' = IF Overlapping(h, p) THEN spoiled \cup {p} ELSE spoiled

-----------------------------------------------------------------------------
\* prepare_file_organization_run.

\* probe_readable_file on every file, before the first is read.
Probed(r) == {n \in DOMAIN Input[r] : disk[Input[r][n]] # Absent}

\* A new run has a new name, taken from the clock.
Prepare(h, r) ==
  /\ Begin(h) /\ r \notin started
  /\ started' = started \cup {r}
  /\ job' = [job EXCEPT ![h] = [NoJob EXCEPT
       !.at = "reading", !.run = r,
       !.ready = Probed(r)]]
  /\ UNCHANGED <<disk, queue, plan, audit, reviewed, result, history, ledgerVars>>

MoreFiles(h) == job[h].at = "reading" /\ job[h].n \in DOMAIN Input[job[h].run]

\* The file was not ready, or its extraction fails.
SkipFile(h) ==
  /\ MoreFiles(h)
  /\ IF job[h].n \in job[h].ready THEN Fail ELSE UNCHANGED counters
  /\ job' = [job EXCEPT ![h].n = @ + 1]
  /\ UNCHANGED <<disk, runFiles, history, ledgerVars>>

\* The extraction is not trusted, or no fact of it is accepted.
ReadUntrusted(h) ==
  /\ MoreFiles(h) /\ job[h].n \in job[h].ready
  /\ Enter(h, "deciding")
  /\ UNCHANGED <<disk, runFiles, counters, history, ledgerVars>>

ReadTrusted(h) ==
  /\ MoreFiles(h) /\ job[h].n \in job[h].ready
  /\ \E e \in Extraction[File(h)] :
       BeginPatch(h, e.project, e.patch) /\ Spoil(h, e.project)
  /\ Enter(h, "patching")
  /\ UNCHANGED <<disk, runFiles, counters, moves, raced>>

\* _build_archive_action.
Built(source, d) ==
  LET blockers ==
        d.advice
        \cup (IF d.target \in Path \ {source} /\ disk[d.target] # Absent
              THEN {"target_exists"} ELSE {})
        \cup (IF disk[source] = Absent THEN {"source_missing"} ELSE {})
  IN [source |-> source, target |-> d.target, home |-> d.home,
      blockers |-> blockers, archived |-> d.target = source /\ blockers = {}]

Decide(h) ==
  /\ job[h].at = "deciding"
  /\ \E d \in Decision[File(h)] :
       job' = [job EXCEPT ![h].at = "reading", ![h].n = @ + 1,
                          ![h].built = Append(@, Built(File(h), d))]
  /\ UNCHANGED <<disk, runFiles, counters, history, ledgerVars>>

\* _collect_review_items: a failed extraction and an action that is not ready
\* require feedback.
Required(r, built) ==
  \/ Len(built) # Len(Input[r])
  \/ \E n \in DOMAIN built : built[n].blockers # {}

\* The queue, then the plan; nothing reads one without the other in between but
\* an audit, which finds a run without a plan either way.  The verifier and the
\* judgement of the facts may add an item that requires feedback.
FinishPrepare(h) ==
  LET r == job[h].run
      built == job[h].built
  IN /\ job[h].at = "reading" /\ job[h].n \notin DOMAIN Input[r]
     /\ \E more \in BOOLEAN :
          queue' = [queue EXCEPT ![r] =
            IF Required(r, built) \/ more THEN "required" ELSE "clear"]
     /\ plan' = [plan EXCEPT ![r] = built]
     /\ job' = [job EXCEPT ![h] = NoJob]
     /\ UNCHANGED <<disk, started, audit, reviewed, result, counters, history, ledgerVars>>

\* AuditAgent.review_run: of a run that is being prepared it finds no queue, and
\* no item that requires feedback.
Audit(r) ==
  /\ r \in started
  /\ audit' = [audit EXCEPT ![r] =
       IF queue[r] = "required" THEN "pending" ELSE "clear"]
  /\ UNCHANGED <<disk, started, queue, plan, reviewed, result, job, counters, history, ledgerVars>>

-----------------------------------------------------------------------------
\* apply_human_review with the identifier of a run.

Correct(h, r) ==
  /\ Begin(h) /\ r \in started
  /\ \E e \in Correction :
       BeginPatch(h, e.project, e.patch) /\ Spoil(h, e.project)
  /\ job' = [job EXCEPT ![h] = [NoJob EXCEPT !.at = "correcting", !.run = r]]
  /\ UNCHANGED <<disk, runFiles, moves, raced>>

\* No decision names a project: each is a failed result, and is recorded.
CorrectNothing(h, r) ==
  /\ Begin(h) /\ r \in started
  /\ job' = [job EXCEPT ![h] = [NoJob EXCEPT !.at = "corrected", !.run = r]]
  /\ UNCHANGED <<disk, runFiles, history, ledgerVars>>

WriteReview(h) ==
  /\ job[h].at = "corrected"
  /\ reviewed' = reviewed \cup {job[h].run}
  /\ job' = [job EXCEPT ![h] = NoJob]
  /\ UNCHANGED <<disk, started, queue, plan, audit, result, counters, history, ledgerVars>>

-----------------------------------------------------------------------------
\* execute_archive_plan, confirmed.

\* Mutant: the gate does not ask for pending feedback.
GateAlwaysPasses(r) == audit[r] \in {"none", "clear", "pending"}

\* evaluate_archive_execution_gate: a run without an audit passes.
GatePasses(r) == audit[r] # "pending"

\* The run's files are read at once; a review that comes later does not count.
Execute(h, r) ==
  /\ Begin(h) /\ plan[r] # NoPlan
  /\ GatePasses(r)
  /\ job' = [job EXCEPT ![h] = [NoJob EXCEPT
       !.at = "executing", !.run = r, !.cleared = r \in reviewed]]
  /\ UNCHANGED <<disk, runFiles, history, ledgerVars>>

MoreActions(h) == job[h].at = "executing" /\ job[h].n \in DOMAIN plan[job[h].run]

\* What blocks an action before its target is looked at.
Stopped(h, a) ==
  \/ a.blockers \cap Hard # {}
  \/ "human_review_recommended" \in a.blockers /\ ~job[h].cleared
  \/ disk[a.source] = Absent

\* Mutant: the target is not checked for an existing file.
FreeOnPaper(a) == a.target \in Path

\* os.path.exists(target) is false.
Free(a) == a.target \in Path /\ disk[a.target] = Absent

Report(h, outcome) ==
  job' = [job EXCEPT ![h].at = "executing", ![h].n = @ + 1,
                     ![h].out = Append(@, outcome)]

FindArchived(h) ==
  /\ MoreActions(h) /\ Acting(h).archived
  /\ Report(h, "already_archived")
  /\ UNCHANGED <<disk, runFiles, counters, history, ledgerVars>>

\* One of the checks fails.
Block(h) ==
  /\ MoreActions(h) /\ ~Acting(h).archived
  /\ Stopped(h, Acting(h)) \/ (Acting(h).target # NoPath /\ ~Free(Acting(h)))
  /\ Report(h, "blocked")
  /\ UNCHANGED <<disk, runFiles, counters, history, ledgerVars>>

\* The directory of the target takes no file.
BlockUnwritable(h) ==
  /\ MoreActions(h) /\ ~Acting(h).archived
  /\ ~Stopped(h, Acting(h)) /\ Free(Acting(h))
  /\ Fail /\ Report(h, "blocked")
  /\ UNCHANGED <<disk, runFiles, history, ledgerVars>>

\* os.path.exists(None) raises: the call ends without a result.
RaiseUndecided(h) ==
  /\ MoreActions(h) /\ ~Acting(h).archived
  /\ ~Stopped(h, Acting(h)) /\ Acting(h).target = NoPath
  /\ job' = [job EXCEPT ![h] = NoJob]
  /\ UNCHANGED <<disk, runFiles, counters, history, ledgerVars>>

Check(h) ==
  /\ MoreActions(h) /\ ~Acting(h).archived
  /\ ~Stopped(h, Acting(h)) /\ Free(Acting(h))
  /\ Enter(h, "checked")
  /\ raced' = (raced \/ \E g \in Host \ {h} :
       job[g].at = "checked" /\ Acting(g).target = Acting(h).target)
  /\ UNCHANGED <<disk, runFiles, counters, moves, spoiled, ledgerVars>>

RecordOf(h) ==
  [run |-> job[h].run, source |-> Acting(h).source, target |-> Acting(h).target]

\* Mutant: a move whose source is gone is taken for made.
MoveIfThere(h) ==
  /\ job[h].at = "checked"
  /\ IF disk[Acting(h).source] = Absent THEN UNCHANGED <<disk, moves>>
     ELSE /\ disk' = [disk EXCEPT ![Acting(h).target] = disk[Acting(h).source],
                                  ![Acting(h).source] = Absent]
          /\ moves' = moves \cup {RecordOf(h)}
  /\ Enter(h, "moved")
  /\ UNCHANGED <<runFiles, counters, raced, spoiled, ledgerVars>>

\* shutil.move replaces whatever the target has become.
Move(h) ==
  /\ job[h].at = "checked" /\ disk[Acting(h).source] # Absent
  /\ disk' = [disk EXCEPT ![Acting(h).target] = disk[Acting(h).source],
                          ![Acting(h).source] = Absent]
  /\ Enter(h, "moved")
  /\ moves' = moves \cup {RecordOf(h)}
  /\ UNCHANGED <<runFiles, counters, raced, spoiled, ledgerVars>>

\* Between file systems shutil.move copies and then deletes; the deletion fails.
CopyOnly(h) ==
  /\ Fail
  /\ job[h].at = "checked" /\ disk[Acting(h).source] # Absent
  /\ disk' = [disk EXCEPT ![Acting(h).target] = disk[Acting(h).source]]
  /\ job' = [job EXCEPT ![h] = NoJob]
  /\ UNCHANGED <<runFiles, history, ledgerVars>>

\* record_archive_event.
Recording(h) ==
  /\ job[h].at = "moved"
  /\ BeginRecord(h, Acting(h).home, RecordOf(h)) /\ Spoil(h, Acting(h).home)
  /\ Enter(h, "recording")
  /\ UNCHANGED <<disk, runFiles, counters, moves, raced>>

FinishExecute(h) ==
  LET r == job[h].run IN
  /\ job[h].at = "executing" /\ job[h].n \notin DOMAIN plan[r]
  /\ result' = [result EXCEPT ![r] = job[h].out]
  /\ job' = [job EXCEPT ![h] = NoJob]
  /\ UNCHANGED <<disk, started, queue, plan, audit, reviewed, counters, history, ledgerVars>>

-----------------------------------------------------------------------------
\* The ledger calls go on, and return into the call they were made from.
LedgerStep(h) ==
  /\ SaveStep(h)
  /\ UNCHANGED <<disk, runFiles, job, counters, history>>

LedgerReturn(h) ==
  /\ FillLedgerFile(h)
  /\ \/ job[h].at = "patching" /\ Enter(h, "deciding")
     \/ job[h].at = "correcting" /\ Enter(h, "corrected")
     \/ job[h].at = "recording" /\ Report(h, "archived")
  /\ UNCHANGED <<disk, runFiles, counters, history>>

\* What a host that leaves its call behind leaves unfinished.
Unfinished(h) ==
  {op[h].project} \cup (IF job[h].at = "moved" THEN {Acting(h).home} ELSE {})

Leave(h) ==
  /\ DropCall(h)
  /\ job' = [job EXCEPT ![h] = NoJob]
  /\ spoiled' = spoiled \cup (Unfinished(h) \cap Project)
  /\ UNCHANGED <<disk, runFiles, moves, raced>>

\* The file to move is gone, or a ledger or a manifest is not JSON: the call ends
\* with an exception.
Raise(h) ==
  /\ \/ job[h].at = "checked" /\ disk[Acting(h).source] = Absent
     \/ job[h].at = "moved" /\ ~Readable(ledger[Acting(h).home])
     \/ op[h].at = "loaded" /\ ~Readable(manifest[op[h].project])
     \/ /\ MoreFiles(h) /\ job[h].n \in job[h].ready
        /\ \E e \in Extraction[File(h)] : ~Readable(ledger[e.project])
  /\ Leave(h) /\ UNCHANGED counters

\* The process dies, or an operation on a file fails.
Die(h) == job[h].at # "idle" /\ Fail /\ Leave(h)

\* The owner of the folders puts a file somewhere, or takes one away.
Edit(p) ==
  /\ edits + failures < MaxMishaps
  /\ \E c \in (Content \cup {Absent}) \ {disk[p]} : disk' = [disk EXCEPT ![p] = c]
  /\ edits' = edits + 1
  /\ UNCHANGED <<runFiles, job, failures, calls, history, ledgerVars>>

HostStep(h) ==
  \/ \E r \in Run : Prepare(h, r) \/ Correct(h, r) \/ CorrectNothing(h, r) \/ Execute(h, r)
  \/ SkipFile(h) \/ ReadUntrusted(h) \/ ReadTrusted(h) \/ Decide(h) \/ FinishPrepare(h)
  \/ WriteReview(h)
  \/ FindArchived(h) \/ Block(h) \/ BlockUnwritable(h) \/ RaiseUndecided(h) \/ Check(h) \/ Move(h)
  \/ CopyOnly(h) \/ Recording(h) \/ FinishExecute(h)
  \/ LedgerStep(h) \/ LedgerReturn(h) \/ Raise(h) \/ Die(h)

Next ==
  \/ \E h \in Host : HostStep(h)
  \/ \E r \in Run : Audit(r)
  \/ \E p \in Path : Edit(p)

Spec == Init /\ [][Next]_vars

-----------------------------------------------------------------------------
\* The advice of a review is followed: an action it was advised for is made only
\* in a run that has its review decisions (execute_archive_plan's check of
\* has_human_review, across all of its calls on all hosts).
ReviewIsAsked ==
  \A m \in moves :
    \/ m.run \in reviewed
    \/ \E n \in DOMAIN plan[m.run] :
         LET a == plan[m.run][n] IN
         /\ a.source = m.source /\ a.target = m.target
         /\ "human_review_recommended" \notin a.blockers

\* What is reported is true, through torn files, lost updates and deaths.  A
\* result answers for every action of the plan, says archived only of a move that
\* was made, and already_archived only of a file that was planned at its place; a
\* manifest records moves that were made and nothing else (archive_result.json
\* and record_archive_event against the folders).
RecordsAreTrue ==
  /\ \A r \in Run : result[r] # NoResult =>
       /\ DOMAIN result[r] = DOMAIN plan[r]
       /\ \A n \in DOMAIN result[r] :
            LET a == plan[r][n] IN
            /\ result[r][n] = "archived" =>
                 [run |-> r, source |-> a.source, target |-> a.target] \in moves
            /\ result[r][n] = "already_archived" => a.archived
  /\ \A p \in Project : Readable(manifest[p]) => manifest[p].files \subseteq moves

\* A move is still to be recorded, or its record is in a copy a call will save.
InHand(p, m) ==
  \E h \in Host :
    \/ job[h].at = "moved" /\ RecordOf(h) = m
    \/ op[h].project = p /\ op[h].at = "loaded" /\ op[h].record = m
    \/ op[h].project = p /\ op[h].at \in {"appending", "filling_manifest"} /\ m \in op[h].files

\* Where no two ledger calls overlapped and none was cut off, every move is in
\* the manifest of its project (record_archive_event after shutil.move): these
\* are the only ways to lose a record.
RecordedUnlessSpoiled ==
  \A m \in moves : \E n \in DOMAIN plan[m.run] :
    LET a == plan[m.run][n] IN
    /\ a.source = m.source /\ a.target = m.target
    /\ \/ a.home \in spoiled
       \/ InHand(a.home, m)
       \/ Readable(manifest[a.home]) /\ m \in manifest[a.home].files

\* No file is lost unless its owner changed the folders or two hosts had checked
\* one free target at once: neither a half made move, nor an exception, nor an
\* execution that is repeated loses one.
LostOnlyToARace ==
  edits > 0 \/ raced \/
  \A p \in Path : Start[p] # Absent => \E q \in Path : disk[q] = Start[p]

\* A run is held back by its audit, and no call executes it.
HeldBack(r) ==
  audit[r] = "pending" /\ \A h \in Host : Executing(h) => job[h].run # r

\* Once the audit of a run asks for feedback and no call is under way, the run
\* moves no file any more: the gate holds against later audits, reviews and
\* executions, and a run without an intent registration can be given no feedback.
HeldBackForGood == [][\A r \in Run : HeldBack(r) => HeldBack(r)']_vars

\* A file that execute_archive_plan has moved is answered for: once no call is
\* executing its run, the run has a result (references/project_tools.md:529 has
\* every action that fails a check written to archive_result.json).
MovesAreReported ==
  \A m \in moves :
    \/ result[m.run] # NoResult
    \/ \E h \in Host : Executing(h) /\ job[h].run = m.run
=============================================================================
