----------------------------- MODULE RunFeedback -----------------------------
(***************************************************************************)
(* The directory of one registered run, from the agent judgement request to *)
(* the decisions people take on its review queue.                           *)
(*                                                                          *)
(* A response is consumed, and decisions are applied, under one lock (a     *)
(* thread lock and a file lock) by one procedure: stage every new artifact, *)
(* replace them one by one, and on an error put back what was replaced.     *)
(* Forms and human reviews are written without that lock.  Processes may    *)
(* die at any step; a death gives the file lock back.                       *)
(*                                                                          *)
(* An artifact is its content, or NoFile.  "interpretations" stands for the *)
(* three collections made from a response, "form" for the feedback form and *)
(* the trace written with it.                                               *)
(***************************************************************************)
EXTENDS Naturals, Sequences

CONSTANTS
  Caller,    \* threads and processes that work on the run
  Response,  \* the valid responses to its requests
  Item,      \* the items every response puts on the review queue
  KindOf,    \* what an item's decisions are candidates for
  Batch,     \* the feedback batches callers may hand in
  NotADict,  \* an entry of a batch that is no JSON object
  Foreign,   \* a rule candidate of a human review
  NoFile,
  Nobody,
  MaxCalls,  \* bound: calls over the life of the run
  Faulty     \* whether calls of the file system may fail and processes die

Status   == {"needs_review", "reviewed"}
Snapshot == [of : Response, status : Status]

\* What a batch may say: the decision carries the snapshot hash of the item
\* it was taken on, which covers the item and the status of its queue.
InBatch(b) == {b[i] : i \in DOMAIN b}
Entry    == UNION {InBatch(b) : b \in Batch}
Decision == {d \in Entry : d # NotADict /\ d.item \in Item}

Queue == [of : Response, received : SUBSET Decision]

ASSUME FeedbackAssumption ==
  /\ KindOf \in [Item -> {"rule", "test", "neither"}]
  /\ \A b \in Batch : b \in Seq(InBatch(b))
  /\ Nobody \notin Caller
  /\ Response \cap Batch = {}
  /\ NoFile \notin Response \cup Batch \cup Seq(Decision) \cup Queue
  /\ MaxCalls \in Nat /\ Faulty \in BOOLEAN

VARIABLES
  run,       \* how far the preparation of the run got
  intact,    \* whether the source files are those of the input snapshot
  disk,      \* the artifacts in the directory
  lock,      \* who holds the feedback lock of the run
  pc,
  arg,       \* the response or batch a caller works with
  todo,      \* entries of its batch not weighed yet
  work,      \* the decision history it is going to write
  before,    \* the artifacts when it read them, or staged the new ones
  replaced,  \* how many artifacts it has replaced
  calls,
  consumed,  \* history: responses reported as consumed
  kept,      \* history: decisions reported as accepted
  torn,      \* history: a replacement or a rollback was cut short
  reviewed   \* history: a human review wrote its rule candidates

commit == <<work, before, replaced>>
told   == <<consumed, kept, torn, reviewed>>
vars   == <<run, intact, disk, lock, pc, arg, todo, commit, calls, told>>

Name == {"interpretations", "queue", "form", "receipt",
         "decisions", "events", "rules", "tests"}

JudgementArtifacts == <<"interpretations", "queue", "form", "receipt">>

\* The review queue forgotten: its items stay open.
WithoutQueue == <<"decisions", "events", "rules", "tests">>

FeedbackArtifacts == <<"decisions", "events", "rules", "tests", "queue">>

Maybe(S) == S \cup {NoFile}
Disk ==
  [interpretations : Maybe(Response), receipt : Maybe(Response),
   form : Maybe(Snapshot),
   queue : Maybe(Queue),
   decisions : Maybe(Seq(Decision)), events : Maybe(Seq(Decision)),
   rules : Maybe(SUBSET (Decision \cup {Foreign})),
   tests : Maybe(SUBSET Decision)]

Empty == [n \in Name |-> NoFile]

Run     == {"absent", "claimed", "failed", "inputs", "requested"}
Holding == {"weighing", "staging", "replacing", "rolling"}
Pc      == Holding \cup {"idle", "resume", "apply", "forming"}

TypeOK ==
  /\ run \in Run /\ intact \in BOOLEAN
  /\ disk \in Disk
  /\ lock \in Caller \cup {Nobody}
  /\ pc \in [Caller -> Pc]
  /\ arg \in [Caller -> Response \cup Maybe(Batch)]
  /\ todo \in [Caller -> Seq(Entry)]
  /\ work \in [Caller -> Seq(Decision)]
  /\ before \in [Caller -> Disk]
  /\ replaced \in [Caller -> 0..5]
  /\ calls \in 0..MaxCalls
  /\ consumed \in SUBSET Response /\ kept \in SUBSET Decision
  /\ torn \in BOOLEAN /\ reviewed \in BOOLEAN

Init ==
  /\ run = "absent" /\ intact = TRUE
  /\ disk = Empty
  /\ lock = Nobody
  /\ pc = [c \in Caller |-> "idle"]
  /\ arg = [c \in Caller |-> NoFile]
  /\ todo = [c \in Caller |-> <<>>]
  /\ work = [c \in Caller |-> <<>>]
  /\ before = [c \in Caller |-> Empty]
  /\ replaced = [c \in Caller |-> 0]
  /\ calls = 0
  /\ consumed = {} /\ kept = {}
  /\ torn = FALSE /\ reviewed = FALSE

Goto(c, label) == pc' = [pc EXCEPT ![c] = label]

\* A call begins: the caller was idle, and the bound is not used up.
Call(c, label, with) ==
  /\ pc[c] = "idle" /\ calls < MaxCalls
  /\ calls' = calls + 1
  /\ arg' = [arg EXCEPT ![c] = with]
  /\ Goto(c, label)

\* A call ends.  What the caller worked with is forgotten.
Return(c) ==
  /\ Goto(c, "idle")
  /\ arg' = [arg EXCEPT ![c] = NoFile]
  /\ todo' = [todo EXCEPT ![c] = <<>>]
  /\ work' = [work EXCEPT ![c] = <<>>]
  /\ before' = [before EXCEPT ![c] = Empty]
  /\ replaced' = [replaced EXCEPT ![c] = 0]
  /\ lock' = IF lock = c THEN Nobody ELSE lock

-----------------------------------------------------------------------------
(* The state of the review, as read from disk.                             *)

History(d) == IF d.decisions = NoFile THEN <<>> ELSE d.decisions

QueueStatus(q) ==
  IF \A i \in Item : \E d \in q.received : d.item = i
  THEN "reviewed" ELSE "needs_review"

SnapshotOf(q) == [of |-> q.of, status |-> QueueStatus(q)]

\* One decision per feedback id and per item.
Distinct(h) ==
  \A i, j \in DOMAIN h : h[i].id = h[j].id \/ h[i].item = h[j].item => i = j

\* build_rule_candidates and build_parser_test_candidates: one candidate per
\* decision on an item of that kind.  Their order is that of the history.
Candidates(h, kind) == {d \in InBatch(h) : KindOf[d.item] = kind}

\* An artifact that may be absent as long as it would hold nothing.
Holds(file, content, nothing) ==
  file = content \/ (file = NoFile /\ content = nothing)

\* _load_feedback_history with its replay of the queue, _load_feedback_events
\* and _load_candidate_items: all five artifacts tell the same story.
StateValid(d) ==
  LET h == History(d) IN
  /\ \A i \in DOMAIN h : h[i].snap = [of |-> d.queue.of, status |-> "needs_review"]
  /\ Distinct(h)
  /\ d.queue.received = InBatch(h)
  /\ Holds(d.events, h, <<>>)
  /\ Holds(d.rules, Candidates(h, "rule"), {})
  /\ Holds(d.tests, Candidates(h, "test"), {})

-----------------------------------------------------------------------------
(* Preparation: nobody else knows the run before its requests are written.  *)

ClaimRun ==
  /\ run = "absent" /\ run' = "claimed"
  /\ UNCHANGED <<intact, disk, lock, pc, arg, todo, commit, calls, told>>

\* Manifest, extracted documents and input snapshot.
SaveInputs ==
  /\ run = "claimed" /\ run' = "inputs"
  /\ intact' = TRUE
  /\ UNCHANGED <<disk, lock, pc, arg, todo, commit, calls, told>>

\* The failure marker: no response is ever consumed for this run.
FailPreparation ==
  /\ run = "claimed" /\ run' = "failed"
  /\ UNCHANGED <<intact, disk, lock, pc, arg, todo, commit, calls, told>>

SaveRequests ==
  /\ run = "inputs" /\ run' = "requested"
  /\ UNCHANGED <<intact, disk, lock, pc, arg, todo, commit, calls, told>>

\* The owner of the source files changes them, or puts them back.
ChangeSource ==
  /\ run \in {"inputs", "requested"}
  /\ intact' = ~intact
  /\ UNCHANGED <<run, disk, lock, pc, arg, todo, commit, calls, told>>

-----------------------------------------------------------------------------
(* Consuming a response.                                                   *)

\* Everything that is checked before the lock is taken.
Resume(c, r) ==
  /\ run = "requested" /\ intact
  /\ Call(c, "resume", r)
  /\ UNCHANGED <<run, intact, disk, lock, todo, commit, told>>

\* A check that never refuses: any number of responses would be consumed.
NeverConsumed(d) == FALSE

AlreadyConsumed(d) == \E n \in Name : d[n] # NoFile

ResumeLocked(c) ==
  /\ pc[c] = "resume" /\ lock = Nobody
  /\ \/ /\ intact /\ ~AlreadyConsumed(disk)
        /\ lock' = c
        /\ Goto(c, "staging")
        /\ UNCHANGED <<arg, todo, commit>>
     \/ /\ ~intact \/ AlreadyConsumed(disk)
        /\ Return(c)
  /\ UNCHANGED <<run, intact, disk, calls, told>>

-----------------------------------------------------------------------------
(* Applying a batch of decisions.                                          *)

Apply(c, b) ==
  /\ run # "absent" /\ disk.queue # NoFile
  /\ Call(c, "apply", b)
  /\ UNCHANGED <<run, intact, disk, lock, todo, commit, told>>

\* _normalize_bound_feedback: a decision on an item of the queue, taken on
\* the queue as it is now or as it was when the item was decided.
Bound(d) ==
  /\ d \in Decision
  /\ \/ d.snap = SnapshotOf(disk.queue)
     \/ \E e \in InBatch(History(disk)) : e.item = d.item /\ e.snap = d.snap

\* Equal payload hashes: everything but the feedback id and the time.
SamePayload(d, e) ==
  d.item = e.item /\ d.choice = e.choice /\ d.snap = e.snap

Contradicted(b, d) ==
  \E e \in InBatch(b) : Bound(e) /\ e.item = d.item /\ ~SamePayload(d, e)

\* Normalizing looks into the entry for each decision there is already, before
\* it is known to be an object.
Raises(b) == NotADict \in InBatch(b) /\ History(disk) # <<>>

ApplyLocked(c) ==
  LET accept == disk.queue # NoFile /\ StateValid(disk) /\ ~Raises(arg[c])
  IN
  /\ pc[c] = "apply" /\ lock = Nobody
  /\ \/ /\ accept
        /\ lock' = c
        /\ work' = [work EXCEPT ![c] = History(disk)]
        /\ todo' = [todo EXCEPT ![c] = arg[c]]
        /\ Goto(c, "weighing")
        /\ UNCHANGED <<arg, before, replaced>>
     \/ /\ ~accept
        /\ Return(c)
  /\ UNCHANGED <<run, intact, disk, calls, told>>

\* A decision whose id or item is taken is a duplicate or a conflict.
Taken(h, d) == \E e \in InBatch(h) : e.id = d.id \/ e.item = d.item

Accepted(c, d) ==
  Bound(d) /\ ~Contradicted(arg[c], d) /\ ~Taken(work[c], d)

Weigh(c) ==
  /\ pc[c] = "weighing" /\ todo[c] # <<>>
  /\ LET d == Head(todo[c]) IN
       work' = IF Accepted(c, d) THEN [work EXCEPT ![c] = Append(@, d)] ELSE work
  /\ todo' = [todo EXCEPT ![c] = Tail(@)]
  /\ UNCHANGED <<run, intact, disk, lock, pc, arg, before, replaced, calls, told>>

\* Nothing accepted: the answer lists duplicates and errors only.
Weighed(c) ==
  /\ pc[c] = "weighing" /\ todo[c] = <<>>
  /\ \/ /\ work[c] = History(disk)
        /\ Return(c)
     \/ /\ work[c] # History(disk)
        /\ Goto(c, "staging")
        /\ UNCHANGED <<lock, arg, todo, commit>>
  /\ UNCHANGED <<run, intact, disk, calls, told>>

-----------------------------------------------------------------------------
(* _commit_feedback_transaction.                                           *)

Artifacts(c) == IF arg[c] \in Response THEN JudgementArtifacts ELSE FeedbackArtifacts

\* The new content of artifact n.
Content(c, n) ==
  CASE n \in {"interpretations", "receipt"} -> arg[c]
    [] n = "form"  -> [of |-> arg[c], status |-> "needs_review"]
    [] n = "queue" -> IF arg[c] \in Response
                      THEN [of |-> arg[c], received |-> {}]
                      ELSE [before[c].queue EXCEPT !.received = InBatch(work[c])]
    [] n = "rules" -> Candidates(work[c], "rule")
    [] n = "tests" -> Candidates(work[c], "test")
    [] OTHER       -> work[c]

\* Write every new artifact to a temporary file, and remember the old ones.
Stage(c) ==
  /\ pc[c] = "staging"
  /\ before' = [before EXCEPT ![c] = disk]
  /\ Goto(c, "replacing")
  /\ UNCHANGED <<run, intact, disk, lock, arg, todo, work, replaced, calls, told>>

Replace(c) ==
  /\ pc[c] = "replacing" /\ replaced[c] < Len(Artifacts(c))
  /\ LET n == Artifacts(c)[replaced[c] + 1] IN
       disk' = [disk EXCEPT ![n] = Content(c, n)]
  /\ replaced' = [replaced EXCEPT ![c] = @ + 1]
  /\ UNCHANGED <<run, intact, lock, pc, arg, todo, work, before, calls, told>>

\* Staging fails: there is nothing to roll back.
StageFails(c) ==
  /\ Faulty /\ pc[c] = "staging"
  /\ Return(c)
  /\ UNCHANGED <<run, intact, disk, calls, told>>

\* A replacement fails.  (Flushing the directory never does.)
ReplaceFails(c) ==
  /\ Faulty /\ pc[c] = "replacing" /\ replaced[c] < Len(Artifacts(c))
  /\ Goto(c, "rolling")
  /\ UNCHANGED <<run, intact, disk, lock, arg, todo, commit, calls, told>>

\* An artifact that was not there before is left alone.
RestoredIfThere(c, n) ==
  IF before[c][n] = NoFile THEN disk[n] ELSE before[c][n]

\* An artifact is removed even if it was there before.
Removed(c, n) == NoFile

\* What artifact n was before; it is removed when it was not there.
Restored(c, n) == before[c][n]

\* Roll back the last replacement.  That may fail too: the rollback goes on.
Undo(c) ==
  /\ pc[c] = "rolling" /\ replaced[c] > 0
  /\ LET n == Artifacts(c)[replaced[c]] IN
       \/ /\ disk' = [disk EXCEPT ![n] = Restored(c, n)]
          /\ UNCHANGED torn
       \/ Faulty /\ torn' = TRUE /\ UNCHANGED disk
  /\ replaced' = [replaced EXCEPT ![c] = @ - 1]
  /\ UNCHANGED <<run, intact, lock, pc, arg, todo, work, before, calls,
                 consumed, kept, reviewed>>

Abort(c) ==
  /\ pc[c] = "rolling" /\ replaced[c] = 0
  /\ Return(c)
  /\ UNCHANGED <<run, intact, disk, calls, told>>

\* The answer reports the response as consumed, or the decisions as accepted.
Commit(c) ==
  /\ pc[c] = "replacing" /\ replaced[c] = Len(Artifacts(c))
  /\ IF arg[c] \in Response
     THEN consumed' = consumed \cup {arg[c]} /\ UNCHANGED kept
     ELSE kept' = kept \cup InBatch(work[c]) /\ UNCHANGED consumed
  /\ Return(c)
  /\ UNCHANGED <<run, intact, disk, calls, torn, reviewed>>

\* The process dies, and the system releases the file it had locked.
Die(c) ==
  /\ Faulty /\ pc[c] # "idle"
  /\ torn' = (torn \/ /\ replaced[c] > 0
                      /\ pc[c] = "replacing" => replaced[c] < Len(Artifacts(c)))
  /\ Return(c)
  /\ UNCHANGED <<run, intact, disk, calls, consumed, kept, reviewed>>

-----------------------------------------------------------------------------
(* Writers that do not take the lock.                                      *)

\* prepare_feedback_form reads the queue ...
ReadQueue(c) ==
  /\ run # "absent" /\ disk.queue # NoFile
  /\ Call(c, "forming", NoFile)
  /\ before' = [before EXCEPT ![c] = disk]
  /\ UNCHANGED <<run, intact, disk, lock, todo, work, replaced, told>>

\* ... and writes the form of what it read.
WriteForm(c) ==
  /\ pc[c] = "forming"
  /\ disk' = [disk EXCEPT !.form = SnapshotOf(before[c].queue)]
  /\ Return(c)
  /\ UNCHANGED <<run, intact, calls, told>>

\* apply_human_review with the id of the run: its rule candidates, of another
\* schema, take the place of those of the feedback, if only by an empty list.
HumanReview ==
  /\ run # "absent" /\ calls < MaxCalls
  /\ calls' = calls + 1
  /\ \E items \in {{}, {Foreign}} : disk' = [disk EXCEPT !.rules = items]
  /\ reviewed' = TRUE
  /\ UNCHANGED <<run, intact, lock, pc, arg, todo, commit, consumed, kept, torn>>

-----------------------------------------------------------------------------

Prepare == ClaimRun \/ SaveInputs \/ FailPreparation \/ SaveRequests

Step(c) ==
  \/ \E r \in Response : Resume(c, r)
  \/ ResumeLocked(c)
  \/ \E b \in Batch : Apply(c, b)
  \/ ApplyLocked(c) \/ Weigh(c) \/ Weighed(c)
  \/ Stage(c) \/ StageFails(c) \/ Replace(c) \/ ReplaceFails(c)
  \/ Undo(c) \/ Abort(c) \/ Commit(c)
  \/ Die(c)
  \/ ReadQueue(c) \/ WriteForm(c)

Next == Prepare \/ ChangeSource \/ HumanReview \/ \E c \in Caller : Step(c)

Spec == Init /\ [][Next]_vars

-----------------------------------------------------------------------------
(* Properties.                                                             *)

\* A response reported as consumed is the one on disk: its interpretations,
\* its review queue and its receipt, whatever happens to the run later.  So no
\* second response is ever consumed (_complete_agent_judgement_responses).
ConsumedOnce ==
  \A r \in consumed :
    /\ disk.interpretations = r /\ disk.receipt = r
    /\ disk.queue # NoFile /\ disk.queue.of = r

\* A decision reported as accepted stays in the decisions of the run, through
\* the failures, rollbacks and deaths of other callers.
AcceptedIsKept == kept \subseteq InBatch(History(disk))

\* The decisions on disk never hold an item or a feedback id twice, not even
\* after a torn commit (_apply_feedback_decisions_locked).
DecisionsCountOnce == Distinct(History(disk))

\* Between calls the five artifacts agree with one another, so that the next
\* batch is not refused as invalid_feedback_review_state.  A death in a commit,
\* a failed rollback and a human review are what may break that.
ArtifactsAgree ==
  lock = Nobody /\ ~torn /\ ~reviewed =>
    IF disk.queue = NoFile
    THEN \A n \in {"decisions", "events", "rules", "tests"} : disk[n] = NoFile
    ELSE StateValid(disk)

\* A commit that has been rolled back has left no trace: what others write
\* without the lock apart, every artifact is what it was before.
RolledBackIsWhole ==
  \A c \in Caller :
    pc[c] = "rolling" /\ replaced[c] = 0 /\ ~torn =>
      \A i \in DOMAIN Artifacts(c) :
        LET n == Artifacts(c)[i] IN
        n # "form" /\ (n = "rules" => ~reviewed) =>
          disk[n] = before[c][n]

=============================================================================
