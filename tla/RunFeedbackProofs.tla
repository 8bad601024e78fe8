-------------------------- MODULE RunFeedbackProofs --------------------------
EXTENDS RunFeedback, TLAPS

\* What a caller works with at each step, and that it has the lock.
CallOf(c) ==
  /\ pc[c] \in Holding <=> lock = c
  /\ pc[c] = "resume" => arg[c] \in Response
  /\ pc[c] \in {"apply", "weighing"} => arg[c] \in Batch
  /\ pc[c] \in Holding => arg[c] \in Response \cup Batch
  /\ replaced[c] <= (IF arg[c] \in Response THEN 4 ELSE 5)
  /\ replaced[c] # 0 => pc[c] \in {"replacing", "rolling"}
  /\ pc[c] = "forming" => before[c].queue # NoFile

CallInv == \A c \in Caller : CallOf(c)

\* The artifacts as they were when the holder of the lock had not begun to
\* replace them.
Base(c) == IF pc[c] \in {"replacing", "rolling"} THEN before[c] ELSE disk

\* A batch on its way: the history it writes holds the one before, which
\* holds all that was reported; what it never replaces is as it was.
FeedOf(c) ==
  pc[c] \in Holding /\ arg[c] \notin Response =>
    /\ Distinct(work[c]) /\ Distinct(History(Base(c)))
    /\ InBatch(History(Base(c))) \subseteq InBatch(work[c])
    /\ kept \subseteq InBatch(History(Base(c)))
    /\ disk.decisions \in {Base(c).decisions, work[c]}
    /\ Base(c).queue # NoFile
    /\ disk.queue # NoFile /\ disk.queue.of = Base(c).queue.of
    /\ pc[c] = "replacing" /\ replaced[c] >= 1 => disk.decisions = work[c]

\* A response on its way: none was consumed before, and what has been
\* replaced is of this one.
JudgeOf(c) ==
  pc[c] \in Holding /\ arg[c] \in Response =>
    /\ consumed = {}
    /\ pc[c] = "replacing" /\ replaced[c] >= 1 => disk.interpretations = arg[c]
    /\ pc[c] = "replacing" /\ replaced[c] >= 2 =>
         disk.queue # NoFile /\ disk.queue.of = arg[c]
    /\ pc[c] = "replacing" /\ replaced[c] >= 4 => disk.receipt = arg[c]

FeedInv  == \A c \in Caller : FeedOf(c)
JudgeInv == \A c \in Caller : JudgeOf(c)

Safe == FeedInv /\ JudgeInv /\ ConsumedOnce /\ AcceptedIsKept /\ DecisionsCountOnce

Inv == TypeOK /\ CallInv /\ Safe

USE DEF Queue

LEMMA ArtifactCount ==
  ASSUME NEW c \in Caller
  PROVE  Len(Artifacts(c)) = IF arg[c] \in Response THEN 4 ELSE 5
BY DEF Artifacts, JudgementArtifacts, FeedbackArtifacts

\* The artifact that is replaced k-th.
LEMMA ArtifactNames ==
  ASSUME NEW c \in Caller, NEW k \in 1..Len(Artifacts(c))
  PROVE  /\ arg[c] \in Response =>
              /\ Len(Artifacts(c)) = 4 /\ k \in 1..4
              /\ k = 1 => Artifacts(c)[k] = "interpretations"
              /\ k = 2 => Artifacts(c)[k] = "queue"
              /\ k = 3 => Artifacts(c)[k] = "form"
              /\ k = 4 => Artifacts(c)[k] = "receipt"
         /\ arg[c] \notin Response =>
              /\ Len(Artifacts(c)) = 5 /\ k \in 1..5
              /\ k = 1 => Artifacts(c)[k] = "decisions"
              /\ k = 2 => Artifacts(c)[k] = "events"
              /\ k = 3 => Artifacts(c)[k] = "rules"
              /\ k = 4 => Artifacts(c)[k] = "tests"
              /\ k = 5 => Artifacts(c)[k] = "queue"
BY DEF Artifacts, JudgementArtifacts, FeedbackArtifacts

\* What may stand in artifact n.
TypeOf(n) ==
  CASE n \in {"interpretations", "receipt"} -> Maybe(Response)
    [] n = "form"  -> Maybe(Snapshot)
    [] n = "queue" -> Maybe(Queue)
    [] n = "rules" -> Maybe(SUBSET (Decision \cup {Foreign}))
    [] n = "tests" -> Maybe(SUBSET Decision)
    [] OTHER       -> Maybe(Seq(Decision))

\* Replacing one artifact by one of its type keeps the type of all.
LEMMA DiskExcept ==
  ASSUME NEW d \in Disk, NEW n \in Name, NEW v \in TypeOf(n)
  PROVE  [d EXCEPT ![n] = v] \in Disk
<1>1. CASE n = "interpretations"
  BY <1>1 DEF Disk, TypeOf
<1>2. CASE n = "queue"
  BY <1>2 DEF Disk, TypeOf
<1>3. CASE n = "form"
  BY <1>3 DEF Disk, TypeOf
<1>4. CASE n = "receipt"
  BY <1>4 DEF Disk, TypeOf
<1>5. CASE n = "decisions"
  BY <1>5 DEF Disk, TypeOf
<1>6. CASE n = "events"
  BY <1>6 DEF Disk, TypeOf
<1>7. CASE n = "rules"
  BY <1>7 DEF Disk, TypeOf
<1>8. CASE n = "tests"
  BY <1>8 DEF Disk, TypeOf
<1> QED
  BY <1>1, <1>2, <1>3, <1>4, <1>5, <1>6, <1>7, <1>8 DEF Name

\* Every artifact has its type.
LEMMA DiskParts ==
  ASSUME NEW d \in Disk, NEW n \in Name
  PROVE  d[n] \in TypeOf(n)
BY DEF Disk, Name, TypeOf

LEMMA EmptyType == Empty \in Disk
<1>1. Empty = [interpretations |-> NoFile, receipt |-> NoFile, form |-> NoFile,
               queue |-> NoFile, decisions |-> NoFile, events |-> NoFile,
               rules |-> NoFile, tests |-> NoFile]
  BY DEF Empty, Name
<1> QED
  BY <1>1 DEF Disk, Maybe

\* A history is a sequence of decisions, and what it holds are decisions.
LEMMA HistoryType ==
  /\ \A d \in Disk : History(d) \in Seq(Decision)
  /\ \A h \in Seq(Decision) : InBatch(h) \subseteq Decision
<1>1. ASSUME NEW d \in Disk
      PROVE  History(d) \in Seq(Decision)
  BY DEF History, Disk, Maybe
<1>2. ASSUME NEW h \in Seq(Decision)
      PROVE  InBatch(h) \subseteq Decision
  BY DEF InBatch
<1> QED BY <1>1, <1>2

LEMMA SnapshotType ==
  ASSUME NEW q \in Queue
  PROVE  SnapshotOf(q) \in Snapshot
BY DEF SnapshotOf, QueueStatus, Snapshot, Status

\* A call that ends forgets what its caller worked with.
LEMMA ReturnType ==
  ASSUME TypeOK, CallInv, NEW c \in Caller, Return(c)
  PROVE  /\ lock' \in Caller \cup {Nobody}
         /\ pc' \in [Caller -> Pc]
         /\ arg' \in [Caller -> Response \cup Maybe(Batch)]
         /\ todo' \in [Caller -> Seq(Entry)]
         /\ work' \in [Caller -> Seq(Decision)]
         /\ before' \in [Caller -> Disk]
         /\ replaced' \in [Caller -> 0..5]
BY EmptyType DEF TypeOK, Return, Goto, Pc, Maybe

LEMMA ReturnCall ==
  ASSUME TypeOK, CallInv, NEW c \in Caller, Return(c)
  PROVE  CallInv'
<1>1. pc' = [pc EXCEPT ![c] = "idle"] /\ replaced' = [replaced EXCEPT ![c] = 0]
      /\ arg' = [arg EXCEPT ![c] = NoFile] /\ before' = [before EXCEPT ![c] = Empty]
      /\ lock' = IF lock = c THEN Nobody ELSE lock
  BY DEF Return, Goto
<1>4. pc'[c] = "idle" /\ replaced'[c] = 0 /\ lock' # c
  BY <1>1, FeedbackAssumption DEF TypeOK
<1>5. ASSUME NEW e \in Caller, e # c
      PROVE  /\ pc'[e] = pc[e] /\ replaced'[e] = replaced[e] /\ arg'[e] = arg[e]
             /\ before'[e] = before[e]
             /\ (lock' = e) = (lock = e)
  BY <1>1, <1>5, FeedbackAssumption DEF TypeOK
<1>6. /\ pc'[c] \in Holding <=> lock' = c
      /\ pc'[c] \notin Holding \cup {"resume", "apply", "forming"}
  BY <1>4 DEF Holding
<1> SUFFICES ASSUME NEW e \in Caller
             PROVE  CallOf(e)'
  BY DEF CallInv
<1>7. CASE e = c
  BY <1>4, <1>6, <1>7 DEF CallOf
<1>8. CASE e # c
  BY <1>5, <1>8 DEF CallInv, CallOf
<1> QED BY <1>7, <1>8

\* What replaces artifact n has its type.
LEMMA ContentType ==
  ASSUME TypeOK, CallInv, FeedInv, NEW c \in Caller, pc[c] = "replacing",
         replaced[c] < Len(Artifacts(c))
  PROVE  LET n == Artifacts(c)[replaced[c] + 1] IN
           n \in Name /\ Content(c, n) \in TypeOf(n)
<1> DEFINE n == Artifacts(c)[replaced[c] + 1]
<1>0. replaced[c] \in 0..5
  BY DEF TypeOK
<1>1. replaced[c] + 1 \in 1..Len(Artifacts(c))
  <2>1. CASE arg[c] \in Response
    BY <1>0, <2>1, ArtifactCount
  <2>2. CASE arg[c] \notin Response
    BY <1>0, <2>2, ArtifactCount
  <2> QED BY <2>1, <2>2
<1>2. CASE arg[c] \in Response
  <2>1. n \in {"interpretations", "queue", "form", "receipt"}
    BY <1>1, <1>2, ArtifactNames
  <2> QED
    BY <1>2, <2>1 DEF Content, TypeOf, Name, Maybe, Snapshot, Status
<1>3. CASE arg[c] \notin Response
  <2>1. n \in {"decisions", "events", "rules", "tests", "queue"}
    BY <1>1, <1>3, ArtifactNames
  <2>2. work[c] \in Seq(Decision) /\ InBatch(work[c]) \subseteq Decision
    BY HistoryType DEF TypeOK
  <2>3. before[c].queue \in Queue
    BY <1>3 DEF TypeOK, FeedInv, FeedOf, Base, Disk, Maybe, Holding
  <2>4. [before[c].queue EXCEPT !.received = InBatch(work[c])] \in Queue
    BY <2>2, <2>3
  <2> QED
    BY <1>3, <2>1, <2>2, <2>4 DEF Content, Candidates, TypeOf, Name, Maybe
<1> QED BY <1>2, <1>3

\* Every step keeps the types and the stage of every call.
LEMMA CallStep ==
  ASSUME TypeOK, CallInv, FeedInv, [Next]_vars
  PROVE  TypeOK' /\ CallInv'
<1> USE FeedbackAssumption
<1>1. CASE Prepare \/ ChangeSource
  BY <1>1 DEF Prepare, ClaimRun, SaveInputs, FailPreparation, SaveRequests,
       ChangeSource, commit, told, TypeOK, CallInv, CallOf, Run
<1>2. CASE HumanReview
  <2>1. PICK items \in {{}, {Foreign}} : disk' = [disk EXCEPT !.rules = items]
    BY <1>2 DEF HumanReview
  <2>2. disk' \in Disk
    BY <2>1, DiskExcept DEF TypeOK, TypeOf, Name, Maybe
  <2> QED
    BY <1>2, <2>2 DEF HumanReview, commit, TypeOK, CallInv, CallOf
<1>3. ASSUME NEW c \in Caller, NEW r \in Response, Resume(c, r)
      PROVE  TypeOK' /\ CallInv'
  <2>1. TypeOK'
    BY <1>3 DEF Resume, Call, Goto, commit, told, TypeOK, Pc
  <2>2. CallInv'
    BY <1>3 DEF Resume, Call, Goto, commit, told, TypeOK, CallInv, CallOf, Holding
  <2> QED BY <2>1, <2>2
<1>4. ASSUME NEW c \in Caller, ResumeLocked(c)
      PROVE  TypeOK' /\ CallInv'
  <2>1. CASE Return(c)
    BY <1>4, <2>1, ReturnType, ReturnCall DEF ResumeLocked, told, TypeOK
  <2>2. CASE ~Return(c)
    <3>1. /\ pc[c] = "resume" /\ lock = Nobody /\ lock' = c
          /\ pc' = [pc EXCEPT ![c] = "staging"]
          /\ UNCHANGED <<run, intact, disk, arg, todo, work, before, replaced, calls,
                         consumed, kept, torn, reviewed>>
      BY <1>4, <2>2 DEF ResumeLocked, Goto, commit, told
    <3>2. TypeOK'
      BY <3>1 DEF TypeOK, Pc, Holding
    <3>3. CallInv'
      BY <3>1 DEF TypeOK, CallInv, CallOf, Holding
    <3> QED BY <3>2, <3>3
  <2> QED BY <2>1, <2>2
<1>5. ASSUME NEW c \in Caller, NEW b \in Batch, Apply(c, b)
      PROVE  TypeOK' /\ CallInv'
  <2>1. TypeOK'
    BY <1>5 DEF Apply, Call, Goto, commit, told, TypeOK, Pc, Maybe
  <2>2. CallInv'
    BY <1>5 DEF Apply, Call, Goto, commit, told, TypeOK, CallInv, CallOf, Holding
  <2> QED BY <2>1, <2>2
<1>6. ASSUME NEW c \in Caller, ApplyLocked(c)
      PROVE  TypeOK' /\ CallInv'
  <2>1. CASE Return(c)
    BY <1>6, <2>1, ReturnType, ReturnCall DEF ApplyLocked, told, TypeOK
  <2>2. CASE ~Return(c)
    <3>1. arg[c] \in Batch
      BY <1>6 DEF ApplyLocked, CallInv, CallOf
    <3>2. arg[c] \in Seq(InBatch(arg[c])) /\ InBatch(arg[c]) \subseteq Entry
      BY <3>1 DEF Entry
    <3>3. arg[c] \in Seq(Entry)
      BY <3>2
    <3>4. History(disk) \in Seq(Decision)
      BY HistoryType DEF TypeOK
    <3>5. /\ pc[c] = "apply" /\ lock = Nobody /\ lock' = c
          /\ pc' = [pc EXCEPT ![c] = "weighing"]
          /\ work' = [work EXCEPT ![c] = History(disk)]
          /\ todo' = [todo EXCEPT ![c] = arg[c]]
          /\ UNCHANGED <<run, intact, disk, arg, before, replaced, calls,
                         consumed, kept, torn, reviewed>>
      BY <1>6, <2>2 DEF ApplyLocked, Goto, told
    <3>6. TypeOK'
      BY <3>3, <3>4, <3>5 DEF TypeOK, Pc, Holding
    <3>7. CallInv'
      BY <3>1, <3>5 DEF TypeOK, CallInv, CallOf, Holding
    <3> QED BY <3>6, <3>7
  <2> QED BY <2>1, <2>2
<1>7. ASSUME NEW c \in Caller, Weigh(c)
      PROVE  TypeOK' /\ CallInv'
  <2> DEFINE d == Head(todo[c])
  <2>1. todo[c] \in Seq(Entry) /\ todo[c] # <<>> /\ work[c] \in Seq(Decision)
    BY <1>7 DEF Weigh, TypeOK
  <2>2. Tail(todo[c]) \in Seq(Entry)
    BY <2>1
  <2>3. Accepted(c, d) => Append(work[c], d) \in Seq(Decision)
    BY <2>1 DEF Accepted, Bound
  <2>4. work' \in [Caller -> Seq(Decision)]
    BY <1>7, <2>3 DEF Weigh, TypeOK
  <2>5. todo' \in [Caller -> Seq(Entry)]
    BY <1>7, <2>2 DEF Weigh, TypeOK
  <2> QED
    BY <1>7, <2>4, <2>5 DEF Weigh, told, TypeOK, CallInv, CallOf
<1>8. ASSUME NEW c \in Caller, Weighed(c)
      PROVE  TypeOK' /\ CallInv'
  <2>1. CASE Return(c)
    BY <1>8, <2>1, ReturnType, ReturnCall DEF Weighed, told, TypeOK
  <2>2. CASE ~Return(c)
    BY <1>8, <2>2 DEF Weighed, Goto, commit, told, TypeOK, CallInv, CallOf, Pc, Holding
  <2> QED BY <2>1, <2>2
<1>9. ASSUME NEW c \in Caller, Stage(c)
      PROVE  TypeOK' /\ CallInv'
  BY <1>9 DEF Stage, Goto, told, TypeOK, CallInv, CallOf, Pc, Holding
<1>10. ASSUME NEW c \in Caller, Replace(c)
       PROVE  TypeOK' /\ CallInv'
  <2>1. disk' \in Disk
    BY <1>10, ContentType, DiskExcept DEF Replace, TypeOK
  <2>2. replaced[c] \in 0..5 /\ replaced[c] < IF arg[c] \in Response THEN 4 ELSE 5
    BY <1>10, ArtifactCount DEF Replace, TypeOK
  <2>3. replaced' = [replaced EXCEPT ![c] = replaced[c] + 1]
    BY <1>10 DEF Replace
  <2>4. replaced' \in [Caller -> 0..5]
    BY <2>2, <2>3 DEF TypeOK
  <2>5. TypeOK'
    BY <1>10, <2>1, <2>4 DEF Replace, told, TypeOK
  <2>6. CallInv'
    BY <1>10, <2>2, <2>3 DEF Replace, TypeOK, CallInv, CallOf, Holding
  <2> QED BY <2>5, <2>6
<1>11. ASSUME NEW c \in Caller, StageFails(c) \/ Abort(c)
       PROVE  TypeOK' /\ CallInv'
  BY <1>11, ReturnType, ReturnCall DEF StageFails, Abort, told, TypeOK
<1>12. ASSUME NEW c \in Caller, ReplaceFails(c)
       PROVE  TypeOK' /\ CallInv'
  BY <1>12 DEF ReplaceFails, Goto, commit, told, TypeOK, CallInv, CallOf, Pc, Holding
<1>13. ASSUME NEW c \in Caller, Undo(c)
       PROVE  TypeOK' /\ CallInv'
  <2> DEFINE n == Artifacts(c)[replaced[c]]
  <2>1. replaced[c] \in 1..Len(Artifacts(c)) /\ replaced[c] \in 1..5
    <3>1. replaced[c] \in 0..5 /\ replaced[c] > 0
      BY <1>13 DEF Undo, TypeOK
    <3>2. replaced[c] <= IF arg[c] \in Response THEN 4 ELSE 5
      BY DEF CallInv, CallOf
    <3>3. CASE arg[c] \in Response
      <4>1. Len(Artifacts(c)) = 4 /\ replaced[c] <= 4
        BY <3>2, <3>3, ArtifactCount
      <4> HIDE DEF n
      <4> QED BY <3>1, <4>1
    <3>4. CASE arg[c] \notin Response
      <4>1. Len(Artifacts(c)) = 5 /\ replaced[c] <= 5
        BY <3>2, <3>4, ArtifactCount
      <4> HIDE DEF n
      <4> QED BY <3>1, <4>1
    <3> QED BY <3>3, <3>4
  <2>2. n \in Name
    BY <2>1, ArtifactNames DEF Name
  <2>3. before[c][n] \in TypeOf(n)
    BY <2>2, DiskParts DEF TypeOK
  <2>4. disk' \in Disk
    BY <1>13, <2>2, <2>3, DiskExcept DEF Undo, Restored, TypeOK
  <2>5. replaced' = [replaced EXCEPT ![c] = replaced[c] - 1]
    BY <1>13 DEF Undo
  <2>6. replaced' \in [Caller -> 0..5]
    BY <2>1, <2>5 DEF TypeOK
  <2>7. TypeOK'
    BY <1>13, <2>4, <2>6 DEF Undo, TypeOK
  <2>8. CallInv'
    BY <1>13, <2>1, <2>5 DEF Undo, TypeOK, CallInv, CallOf, Holding
  <2> QED BY <2>7, <2>8
<1>14. ASSUME NEW c \in Caller, Commit(c)
       PROVE  TypeOK' /\ CallInv'
  <2>1. InBatch(work[c]) \subseteq Decision
    BY HistoryType DEF TypeOK
  <2>2. consumed' \subseteq Response /\ kept' \subseteq Decision
    BY <1>14, <2>1 DEF Commit, TypeOK
  <2> QED
    BY <1>14, <2>2, ReturnType, ReturnCall DEF Commit, TypeOK
<1>15. ASSUME NEW c \in Caller, Die(c)
       PROVE  TypeOK' /\ CallInv'
  BY <1>15, ReturnType, ReturnCall DEF Die, TypeOK
<1>16. ASSUME NEW c \in Caller, ReadQueue(c)
       PROVE  TypeOK' /\ CallInv'
  <2>1. TypeOK'
    BY <1>16 DEF ReadQueue, Call, Goto, told, TypeOK, Pc, Maybe
  <2>2. CallInv'
    BY <1>16 DEF ReadQueue, Call, Goto, told, TypeOK, CallInv, CallOf, Holding
  <2> QED BY <2>1, <2>2
<1>17. ASSUME NEW c \in Caller, WriteForm(c)
       PROVE  TypeOK' /\ CallInv'
  <2>1. before[c].queue \in Queue
    BY <1>17 DEF WriteForm, TypeOK, CallInv, CallOf, Disk, Maybe
  <2>2. disk' \in Disk
    BY <1>17, <2>1, SnapshotType, DiskExcept DEF WriteForm, TypeOK, TypeOf, Name, Maybe
  <2> QED
    BY <1>17, <2>2, ReturnType, ReturnCall DEF WriteForm, told, TypeOK
<1>18. CASE UNCHANGED vars
  BY <1>18 DEF vars, commit, told, TypeOK, CallInv, CallOf
<1> QED
  BY <1>1, <1>2, <1>3, <1>4, <1>5, <1>6, <1>7, <1>8, <1>9, <1>10, <1>11, <1>12,
     <1>13, <1>14, <1>15, <1>16, <1>17, <1>18 DEF Next, Step

\* The lock is taken by one caller at a time: what its step does to a commit is
\* told by its own commit.
LEMMA Others ==
  ASSUME CallInv, NEW c \in Caller, lock \in {c, Nobody},
         \A e \in Caller : e # c => pc'[e] = pc[e],
         FeedOf(c)', JudgeOf(c)'
  PROVE  FeedInv' /\ JudgeInv'
<1>1. ASSUME NEW e \in Caller, e # c
      PROVE  pc'[e] \notin Holding
  BY <1>1, FeedbackAssumption DEF CallInv, CallOf
<1>2. FeedInv'
  BY <1>1 DEF FeedInv, FeedOf
<1>3. JudgeInv'
  BY <1>1 DEF JudgeInv, JudgeOf
<1> QED BY <1>2, <1>3

\* A step that changes neither the commits under way nor what they replace.
LEMMA Quiet ==
  ASSUME Safe, consumed' = consumed, kept' = kept,
         disk'.decisions = disk.decisions, disk'.queue = disk.queue,
         disk'.receipt = disk.receipt, disk'.interpretations = disk.interpretations,
         \A e \in Caller : pc'[e] \in Holding =>
            /\ pc'[e] = pc[e] /\ arg'[e] = arg[e] /\ work'[e] = work[e]
            /\ before'[e] = before[e] /\ replaced'[e] = replaced[e]
  PROVE  Safe'
<1>1. FeedInv'
  <2> SUFFICES ASSUME NEW e \in Caller
               PROVE  FeedOf(e)'
    BY DEF FeedInv
  <2>1. FeedOf(e)
    BY DEF Safe, FeedInv
  <2>2. CASE pc'[e] \in Holding
    BY <2>1, <2>2 DEF FeedOf, Base, History
  <2>3. CASE pc'[e] \notin Holding
    BY <2>3 DEF FeedOf
  <2> QED BY <2>2, <2>3
<1>2. JudgeInv'
  BY DEF Safe, JudgeInv, JudgeOf
<1>3. (ConsumedOnce /\ AcceptedIsKept /\ DecisionsCountOnce)'
  BY DEF Safe, ConsumedOnce, AcceptedIsKept, DecisionsCountOnce, History
<1> QED BY <1>1, <1>2, <1>3 DEF Safe

\* A call that ends without a word changes nothing of that.
LEMMA ReturnQuiet ==
  ASSUME TypeOK, Safe, NEW c \in Caller, Return(c),
         UNCHANGED <<disk, consumed, kept>>
  PROVE  Safe'
<1>1. /\ pc' = [pc EXCEPT ![c] = "idle"] /\ arg' = [arg EXCEPT ![c] = NoFile]
      /\ work' = [work EXCEPT ![c] = <<>>] /\ before' = [before EXCEPT ![c] = Empty]
      /\ replaced' = [replaced EXCEPT ![c] = 0]
  BY DEF Return, Goto
<1>2. ASSUME NEW e \in Caller, pc'[e] \in Holding
      PROVE  /\ pc'[e] = pc[e] /\ arg'[e] = arg[e] /\ work'[e] = work[e]
             /\ before'[e] = before[e] /\ replaced'[e] = replaced[e]
  BY <1>1, <1>2 DEF TypeOK, Holding
<1> QED BY <1>2, Quiet

\* Who takes the lock starts from artifacts that keep what was reported.
LEMMA LockStep ==
  ASSUME TypeOK, CallInv, Safe, NEW c \in Caller,
         ResumeLocked(c) \/ ApplyLocked(c), ~Return(c)
  PROVE  Safe'
<1> USE FeedbackAssumption
<1>1. /\ lock = Nobody /\ lock' = c /\ UNCHANGED <<disk, arg, before, replaced, consumed, kept>>
      /\ pc[c] \in {"resume", "apply"} /\ replaced[c] = 0
      /\ \A e \in Caller : e # c => pc'[e] = pc[e]
  BY DEF ResumeLocked, ApplyLocked, Goto, commit, told, TypeOK, CallInv, CallOf
<1>2. FeedOf(c)' /\ JudgeOf(c)'
  <2>1. CASE pc[c] = "resume"
    <3>1. pc'[c] = "staging" /\ arg'[c] \in Response /\ disk.receipt = NoFile
      BY <2>1 DEF ResumeLocked, ApplyLocked, Goto, AlreadyConsumed, Name, TypeOK,
           CallInv, CallOf
    <3>2. consumed = {}
      BY <3>1 DEF Safe, ConsumedOnce, TypeOK
    <3> QED
      BY <1>1, <3>1, <3>2 DEF FeedOf, JudgeOf
  <2>2. CASE pc[c] = "apply"
    <3>1. /\ pc'[c] = "weighing" /\ arg'[c] \in Batch /\ work'[c] = History(disk)
          /\ disk.queue # NoFile
      BY <2>2 DEF ResumeLocked, ApplyLocked, Goto, told, TypeOK, CallInv, CallOf
    <3>2. arg'[c] \notin Response
      BY <3>1
    <3> QED
      BY <1>1, <3>1, <3>2 DEF FeedOf, JudgeOf, Safe, Base, DecisionsCountOnce,
           AcceptedIsKept
  <2> QED BY <1>1, <2>1, <2>2
<1>3. FeedInv' /\ JudgeInv'
  BY <1>1, <1>2, Others
<1>4. (ConsumedOnce /\ AcceptedIsKept /\ DecisionsCountOnce)'
  BY <1>1 DEF Safe, ConsumedOnce, AcceptedIsKept, DecisionsCountOnce, History
<1> QED BY <1>3, <1>4 DEF Safe

\* A decision that is not taken may join the history.
LEMMA JoinsHistory ==
  ASSUME NEW h \in Seq(Decision), NEW d \in Decision, Distinct(h), ~Taken(h, d)
  PROVE  Distinct(Append(h, d)) /\ InBatch(h) \subseteq InBatch(Append(h, d))
<1> DEFINE g == Append(h, d)
<1>1. /\ DOMAIN g = 1..(Len(h) + 1) /\ DOMAIN h = 1..Len(h)
      /\ g[Len(h) + 1] = d /\ \A i \in 1..Len(h) : g[i] = h[i]
  OBVIOUS
<1> HIDE DEF g
<1>2. \A i \in 1..Len(h) : h[i].id # d.id /\ h[i].item # d.item
  BY <1>1 DEF Taken, InBatch
<1>3. InBatch(h) \subseteq InBatch(g)
  BY <1>1 DEF InBatch
<1>4. ASSUME NEW i \in DOMAIN g, NEW j \in DOMAIN g,
             g[i].id = g[j].id \/ g[i].item = g[j].item
      PROVE  i = j
  BY <1>1, <1>2, <1>4 DEF Distinct
<1>5. Distinct(g)
  BY <1>4 DEF Distinct
<1> QED BY <1>3, <1>5 DEF g

\* Weighing adds decisions to those there were, never one that is taken.
LEMMA WeighStep ==
  ASSUME TypeOK, CallInv, Safe, NEW c \in Caller, Weigh(c)
  PROVE  Safe'
<1> USE FeedbackAssumption
<1>1. /\ pc[c] = "weighing" /\ lock = c /\ work[c] \in Seq(Decision)
      /\ UNCHANGED <<disk, lock, pc, arg, before, replaced, consumed, kept>>
  BY DEF Weigh, told, TypeOK, CallInv, CallOf, Holding
<1>2. arg[c] \notin Response /\ FeedOf(c)
  BY <1>1 DEF CallInv, CallOf, Safe, FeedInv
<1>3. Distinct(work[c]) /\ Base(c) = disk
  BY <1>1, <1>2 DEF FeedOf, Holding, Base
<1>4. Distinct(work'[c]) /\ InBatch(work[c]) \subseteq InBatch(work'[c])
  <2> DEFINE d == Head(todo[c])
  <2>1. CASE Accepted(c, d)
    <3>1. work'[c] = Append(work[c], d)
      BY <2>1 DEF Weigh, TypeOK
    <3>2. d \in Decision /\ ~Taken(work[c], d)
      BY <2>1 DEF Accepted, Bound
    <3> HIDE DEF d
    <3> QED BY <1>1, <1>3, <3>1, <3>2, JoinsHistory
  <2>2. CASE ~Accepted(c, d)
    BY <1>3, <2>2 DEF Weigh
  <2> QED BY <2>1, <2>2
<1>5. FeedOf(c)' /\ JudgeOf(c)'
  BY <1>1, <1>2, <1>3, <1>4 DEF FeedOf, JudgeOf, Base, Holding
<1>6. FeedInv' /\ JudgeInv'
  BY <1>1, <1>5, Others
<1>7. (ConsumedOnce /\ AcceptedIsKept /\ DecisionsCountOnce)'
  BY <1>1 DEF Safe, ConsumedOnce, AcceptedIsKept, DecisionsCountOnce, History
<1> QED BY <1>6, <1>7 DEF Safe

\* Going on to stage, to replace or to roll back changes no artifact.
LEMMA StageStep ==
  ASSUME TypeOK, CallInv, Safe, NEW c \in Caller,
         (Weighed(c) /\ ~Return(c)) \/ Stage(c) \/ ReplaceFails(c)
  PROVE  Safe'
<1> USE FeedbackAssumption
<1>1. /\ pc[c] \in Holding /\ lock = c
      /\ UNCHANGED <<disk, lock, arg, work, replaced, consumed, kept>>
      /\ \A e \in Caller : e # c => pc'[e] = pc[e]
  BY DEF Weighed, Stage, ReplaceFails, Goto, commit, told, TypeOK, CallInv, CallOf, Holding
<1>2. FeedOf(c) /\ JudgeOf(c) /\ CallOf(c)
  BY DEF Safe, FeedInv, JudgeInv, CallInv
<1>3. /\ pc'[c] \in {"staging", "replacing", "rolling"}
      /\ pc'[c] = "replacing" => replaced[c] = 0
  BY <1>2 DEF Weighed, Stage, ReplaceFails, Goto, TypeOK, CallOf
<1>4. Base(c)' = Base(c)
  BY DEF Weighed, Stage, ReplaceFails, Goto, commit, TypeOK, Base
<1>5. FeedOf(c)' /\ JudgeOf(c)'
  BY <1>1, <1>2, <1>3, <1>4 DEF FeedOf, JudgeOf, History
<1>6. FeedInv' /\ JudgeInv'
  BY <1>1, <1>5, Others
<1>7. (ConsumedOnce /\ AcceptedIsKept /\ DecisionsCountOnce)'
  BY <1>1 DEF Safe, ConsumedOnce, AcceptedIsKept, DecisionsCountOnce, History
<1> QED BY <1>6, <1>7 DEF Safe

\* Replacing the artifacts of a batch: the old history or the new one is there.
LEMMA ReplaceFeedback ==
  ASSUME TypeOK, CallInv, Safe, NEW c \in Caller, Replace(c), arg[c] \notin Response
  PROVE  Safe'
<1> USE FeedbackAssumption
<1> DEFINE k == replaced[c] + 1
           n == Artifacts(c)[k]
<1>1. /\ pc[c] = "replacing" /\ lock = c /\ replaced'[c] = k
      /\ disk' = [disk EXCEPT ![n] = Content(c, n)]
      /\ UNCHANGED <<lock, pc, arg, work, before, consumed, kept>>
      /\ replaced[c] \in 0..5 /\ replaced[c] < Len(Artifacts(c))
  BY DEF Replace, told, TypeOK, CallInv, CallOf, Holding
<1>2. /\ k \in 1..5
      /\ k = 1 => n = "decisions"
      /\ k = 2 => n = "events"
      /\ k = 3 => n = "rules"
      /\ k = 4 => n = "tests"
      /\ k = 5 => n = "queue"
  <2>1. Len(Artifacts(c)) = 5
    BY ArtifactCount
  <2>2. k \in 1..Len(Artifacts(c))
    BY <1>1, <2>1
  <2> QED BY <2>1, <2>2, ArtifactNames
<1>3. FeedOf(c) /\ before[c] \in Disk /\ disk \in Disk /\ work[c] \in Seq(Decision)
  BY DEF Safe, FeedInv, TypeOK
<1>4. /\ Distinct(work[c]) /\ Distinct(History(before[c]))
      /\ InBatch(History(before[c])) \subseteq InBatch(work[c])
      /\ kept \subseteq InBatch(History(before[c]))
      /\ disk.decisions \in {before[c].decisions, work[c]}
      /\ before[c].queue # NoFile /\ disk.queue # NoFile
      /\ disk.queue.of = before[c].queue.of
      /\ replaced[c] >= 1 => disk.decisions = work[c]
  BY <1>1, <1>3 DEF FeedOf, Base, Holding
<1>5. disk'.interpretations = disk.interpretations /\ disk'.receipt = disk.receipt
  BY <1>1, <1>2, <1>3 DEF Disk
<1>6. disk'.decisions = work[c]
  <2>1. CASE k = 1
    BY <1>1, <1>2, <1>3, <2>1 DEF Disk, Content
  <2>2. CASE k # 1
    BY <1>1, <1>2, <1>3, <1>4, <2>2 DEF Disk
  <2> QED BY <2>1, <2>2
<1>7. disk'.queue # NoFile /\ disk'.queue.of = before[c].queue.of
  <2>1. CASE k = 5
    <3>1. before[c].queue \in Queue /\ InBatch(work[c]) \subseteq Decision
      BY <1>3, <1>4, HistoryType DEF Disk, Maybe
    <3>2. disk'.queue = [before[c].queue EXCEPT !.received = InBatch(work[c])]
      BY <1>1, <1>2, <1>3, <2>1 DEF Disk, Content
    <3>3. disk'.queue \in Queue /\ disk'.queue.of = before[c].queue.of
      BY <3>1, <3>2
    <3> QED BY <3>3
  <2>2. CASE k # 5
    BY <1>1, <1>2, <1>3, <1>4, <2>2 DEF Disk
  <2> QED BY <2>1, <2>2
<1> HIDE DEF k, n
<1>8. FeedOf(c)' /\ JudgeOf(c)'
  BY <1>1, <1>4, <1>6, <1>7 DEF FeedOf, JudgeOf, Base, History
<1>9. FeedInv' /\ JudgeInv'
  BY <1>1, <1>8, Others
<1>10. History(disk') = work[c]
  BY <1>3, <1>6 DEF History
<1>11. (ConsumedOnce /\ AcceptedIsKept /\ DecisionsCountOnce)'
  BY <1>1, <1>4, <1>5, <1>7, <1>10
     DEF Safe, ConsumedOnce, AcceptedIsKept, DecisionsCountOnce
<1> QED BY <1>9, <1>11 DEF Safe

\* Replacing the artifacts of a response: none was consumed, and decisions are
\* not touched.
LEMMA ReplaceJudgement ==
  ASSUME TypeOK, CallInv, Safe, NEW c \in Caller, Replace(c), arg[c] \in Response
  PROVE  Safe'
<1> USE FeedbackAssumption
<1> DEFINE k == replaced[c] + 1
           n == Artifacts(c)[k]
<1>1. /\ pc[c] = "replacing" /\ lock = c /\ replaced'[c] = k
      /\ disk' = [disk EXCEPT ![n] = Content(c, n)]
      /\ UNCHANGED <<lock, pc, arg, work, before, consumed, kept>>
      /\ replaced[c] \in 0..5 /\ replaced[c] < Len(Artifacts(c))
  BY DEF Replace, told, TypeOK, CallInv, CallOf, Holding
<1>2. /\ k \in 1..4
      /\ k = 1 => n = "interpretations"
      /\ k = 2 => n = "queue"
      /\ k = 3 => n = "form"
      /\ k = 4 => n = "receipt"
  <2>1. Len(Artifacts(c)) = 4
    BY ArtifactCount
  <2>2. k \in 1..Len(Artifacts(c))
    BY <1>1, <2>1
  <2> QED BY <2>1, <2>2, ArtifactNames
<1>3. JudgeOf(c) /\ disk \in Disk
  BY DEF Safe, JudgeInv, TypeOK
<1>4. /\ consumed = {}
      /\ replaced[c] >= 1 => disk.interpretations = arg[c]
      /\ replaced[c] >= 2 => disk.queue # NoFile /\ disk.queue.of = arg[c]
  BY <1>1, <1>3 DEF JudgeOf, Holding
<1>5. disk'.decisions = disk.decisions
  BY <1>1, <1>2, <1>3 DEF Disk
<1>6. disk'.interpretations = arg[c]
  <2>1. CASE k = 1
    BY <1>1, <1>2, <1>3, <2>1 DEF Disk, Content
  <2>2. CASE k # 1
    BY <1>1, <1>2, <1>3, <1>4, <2>2 DEF Disk
  <2> QED BY <2>1, <2>2
<1>7. k >= 2 => disk'.queue # NoFile /\ disk'.queue.of = arg[c]
  <2>1. CASE k = 2
    <3>1. disk'.queue = [of |-> arg[c], received |-> {}]
      BY <1>1, <1>2, <1>3, <2>1 DEF Disk, Content
    <3>2. disk'.queue \in Queue /\ disk'.queue.of = arg[c]
      BY <3>1
    <3> QED BY <3>2
  <2>2. CASE k # 2
    BY <1>1, <1>2, <1>3, <1>4, <2>2 DEF Disk
  <2> QED BY <2>1, <2>2
<1>8. k >= 4 => disk'.receipt = arg[c]
  BY <1>1, <1>2, <1>3 DEF Disk, Content
<1> HIDE DEF k, n
<1>9. FeedOf(c)' /\ JudgeOf(c)'
  BY <1>1, <1>4, <1>6, <1>7, <1>8 DEF FeedOf, JudgeOf
<1>10. FeedInv' /\ JudgeInv'
  BY <1>1, <1>9, Others
<1>11. (ConsumedOnce /\ AcceptedIsKept /\ DecisionsCountOnce)'
  BY <1>1, <1>4, <1>5 DEF Safe, ConsumedOnce, AcceptedIsKept, DecisionsCountOnce, History
<1> QED BY <1>10, <1>11 DEF Safe

\* A rollback, restored or cut short, leaves the old history or the new one.
LEMMA UndoStep ==
  ASSUME TypeOK, CallInv, Safe, NEW c \in Caller, Undo(c)
  PROVE  Safe'
<1> USE FeedbackAssumption
<1> DEFINE k == replaced[c]
           n == Artifacts(c)[k]
<1>1. /\ pc[c] = "rolling" /\ lock = c
      /\ disk' = [disk EXCEPT ![n] = before[c][n]] \/ disk' = disk
      /\ UNCHANGED <<lock, pc, arg, work, before, consumed, kept>>
  BY DEF Undo, Restored, TypeOK, CallInv, CallOf, Holding
<1>2. /\ replaced[c] \in 0..5 /\ replaced[c] > 0
      /\ replaced[c] <= (IF arg[c] \in Response THEN 4 ELSE 5)
  BY DEF Undo, TypeOK, CallInv, CallOf
<1>3. FeedOf(c) /\ JudgeOf(c) /\ before[c] \in Disk /\ disk \in Disk
  BY DEF Safe, FeedInv, JudgeInv, TypeOK
<1>4. CASE arg[c] \notin Response
  <2>1. Len(Artifacts(c)) = 5
    BY <1>4, ArtifactCount
  <2>2. k \in 1..Len(Artifacts(c)) /\ k \in 1..5
    <3> HIDE DEF n
    <3> QED BY <1>2, <1>4, <2>1
  <2>3. n \in {"decisions", "events", "rules", "tests", "queue"}
    <3>1. /\ k = 1 => n = "decisions"
          /\ k = 2 => n = "events"
          /\ k = 3 => n = "rules"
          /\ k = 4 => n = "tests"
          /\ k = 5 => n = "queue"
      BY <1>4, <2>2, ArtifactNames
    <3> HIDE DEF n
    <3> QED BY <2>2, <3>1
  <2> HIDE DEF k, n
  <2>4. /\ Distinct(work[c]) /\ Distinct(History(before[c]))
        /\ InBatch(History(before[c])) \subseteq InBatch(work[c])
        /\ kept \subseteq InBatch(History(before[c]))
        /\ disk.decisions \in {before[c].decisions, work[c]}
        /\ before[c].queue # NoFile /\ disk.queue # NoFile
        /\ disk.queue.of = before[c].queue.of
    BY <1>1, <1>3, <1>4 DEF FeedOf, Base, Holding
  <2>5. disk'.interpretations = disk.interpretations /\ disk'.receipt = disk.receipt
    BY <1>1, <1>3, <2>3 DEF Disk
  <2>6. disk'.decisions \in {before[c].decisions, work[c]}
    BY <1>1, <1>3, <2>3, <2>4 DEF Disk
  <2>7. disk'.queue # NoFile /\ disk'.queue.of = before[c].queue.of
    BY <1>1, <1>3, <2>3, <2>4 DEF Disk
  <2>8. FeedOf(c)' /\ JudgeOf(c)'
    BY <1>1, <1>4, <2>4, <2>6, <2>7 DEF FeedOf, JudgeOf, Base, History
  <2>9. FeedInv' /\ JudgeInv'
    BY <1>1, <2>8, Others
  <2>10. work[c] \in Seq(Decision)
    BY DEF TypeOK
  <2>11. History(disk') \in {History(before[c]), work[c]}
    BY <2>6, <2>10 DEF History
  <2>12. (ConsumedOnce /\ AcceptedIsKept /\ DecisionsCountOnce)'
    BY <1>1, <2>4, <2>5, <2>7, <2>11
       DEF Safe, ConsumedOnce, AcceptedIsKept, DecisionsCountOnce
  <2> QED BY <2>9, <2>12 DEF Safe
<1>5. CASE arg[c] \in Response
  <2>1. Len(Artifacts(c)) = 4
    BY <1>5, ArtifactCount
  <2>2. k \in 1..Len(Artifacts(c)) /\ k \in 1..4
    <3> HIDE DEF n
    <3> QED BY <1>2, <1>5, <2>1
  <2>3. n \in {"interpretations", "queue", "form", "receipt"}
    <3>1. /\ k = 1 => n = "interpretations"
          /\ k = 2 => n = "queue"
          /\ k = 3 => n = "form"
          /\ k = 4 => n = "receipt"
      BY <1>5, <2>2, ArtifactNames
    <3> HIDE DEF n
    <3> QED BY <2>2, <3>1
  <2> HIDE DEF k, n
  <2>4. consumed = {}
    BY <1>1, <1>3, <1>5 DEF JudgeOf, Holding
  <2>5. disk'.decisions = disk.decisions
    BY <1>1, <1>3, <2>3 DEF Disk
  <2>6. FeedOf(c)' /\ JudgeOf(c)'
    BY <1>1, <1>5, <2>4 DEF FeedOf, JudgeOf
  <2>7. FeedInv' /\ JudgeInv'
    BY <1>1, <2>6, Others
  <2>8. (ConsumedOnce /\ AcceptedIsKept /\ DecisionsCountOnce)'
    BY <1>1, <2>4, <2>5
       DEF Safe, ConsumedOnce, AcceptedIsKept, DecisionsCountOnce, History
  <2> QED BY <2>7, <2>8 DEF Safe
<1> QED BY <1>4, <1>5

\* What is reported at the end of a commit is what has been replaced.
LEMMA CommitStep ==
  ASSUME TypeOK, CallInv, Safe, NEW c \in Caller, Commit(c)
  PROVE  Safe'
<1> USE FeedbackAssumption
<1>1. /\ pc[c] = "replacing" /\ lock = c /\ disk' = disk
      /\ replaced[c] = Len(Artifacts(c)) /\ replaced[c] \in 0..5
      /\ pc'[c] = "idle" /\ \A e \in Caller : e # c => pc'[e] = pc[e]
  BY DEF Commit, Return, Goto, TypeOK, CallInv, CallOf, Holding
<1>2. FeedOf(c) /\ JudgeOf(c) /\ work[c] \in Seq(Decision)
  BY DEF Safe, FeedInv, JudgeInv, TypeOK
<1>3. FeedOf(c)' /\ JudgeOf(c)'
  BY <1>1 DEF FeedOf, JudgeOf, Holding
<1>4. FeedInv' /\ JudgeInv'
  BY <1>1, <1>3, Others
<1>5. CASE arg[c] \in Response
  <2>1. consumed' = consumed \cup {arg[c]} /\ kept' = kept
    BY <1>5 DEF Commit
  <2>2. replaced[c] = 4
    BY <1>1, <1>5, ArtifactCount
  <2>3. /\ consumed = {} /\ disk.interpretations = arg[c] /\ disk.receipt = arg[c]
        /\ disk.queue # NoFile /\ disk.queue.of = arg[c]
    BY <1>1, <1>2, <1>5, <2>2 DEF JudgeOf, Holding
  <2>4. (ConsumedOnce /\ AcceptedIsKept /\ DecisionsCountOnce)'
    BY <1>1, <2>1, <2>3
       DEF Safe, ConsumedOnce, AcceptedIsKept, DecisionsCountOnce, History
  <2> QED BY <1>4, <2>4 DEF Safe
<1>6. CASE arg[c] \notin Response
  <2>1. kept' = kept \cup InBatch(work[c]) /\ consumed' = consumed
    BY <1>6 DEF Commit
  <2>2. replaced[c] = 5
    BY <1>1, <1>6, ArtifactCount
  <2>3. /\ disk.decisions = work[c] /\ Distinct(work[c])
        /\ kept \subseteq InBatch(work[c])
    BY <1>1, <1>2, <1>6, <2>2 DEF FeedOf, Base, Holding
  <2>4. History(disk) = work[c]
    BY <1>2, <2>3 DEF History
  <2>5. (ConsumedOnce /\ AcceptedIsKept /\ DecisionsCountOnce)'
    BY <1>1, <2>1, <2>3, <2>4
       DEF Safe, ConsumedOnce, AcceptedIsKept, DecisionsCountOnce, History
  <2> QED BY <1>4, <2>5 DEF Safe
<1> QED BY <1>5, <1>6

\* The inductive invariant holds of a run nobody has prepared yet.
LEMMA InitInv == Init => Inv
<1> SUFFICES ASSUME Init PROVE Inv
  OBVIOUS
<1>1. TypeOK
  <2>1. <<>> \in Seq(Entry) /\ <<>> \in Seq(Decision)
    OBVIOUS
  <2>2. /\ disk \in Disk /\ before \in [Caller -> Disk]
        /\ todo \in [Caller -> Seq(Entry)] /\ work \in [Caller -> Seq(Decision)]
    BY <2>1, EmptyType DEF Init
  <2>3. /\ run \in Run /\ intact \in BOOLEAN /\ lock \in Caller \cup {Nobody}
        /\ pc \in [Caller -> Pc] /\ arg \in [Caller -> Response \cup Maybe(Batch)]
    BY DEF Init, Run, Pc, Maybe
  <2>4. replaced \in [Caller -> 0..5] /\ calls \in 0..MaxCalls
    BY FeedbackAssumption DEF Init
  <2> QED BY <2>2, <2>3, <2>4 DEF Init, TypeOK
<1>2. CallInv
  <2> SUFFICES ASSUME NEW c \in Caller
               PROVE  CallOf(c)
    BY DEF CallInv
  <2>1. pc[c] = "idle" /\ lock # c /\ replaced[c] = 0
    BY FeedbackAssumption DEF Init
  <2> QED BY <2>1 DEF CallOf, Holding
<1>3. FeedInv /\ JudgeInv
  BY DEF Init, FeedInv, FeedOf, JudgeInv, JudgeOf, Holding
<1>4. disk.decisions = NoFile
  BY DEF Init, Empty, Name
<1>5. ConsumedOnce /\ AcceptedIsKept /\ DecisionsCountOnce
  BY <1>4 DEF Init, ConsumedOnce, AcceptedIsKept, DecisionsCountOnce, History,
     Distinct
<1> QED BY <1>1, <1>2, <1>3, <1>5 DEF Inv, Safe

\* Every step keeps the inductive invariant.
LEMMA NextInv == Inv /\ [Next]_vars => Inv'
<1> SUFFICES ASSUME Inv, [Next]_vars PROVE Inv'
  OBVIOUS
<1> USE FeedbackAssumption
<1>1. TypeOK /\ CallInv /\ Safe /\ FeedInv
  BY DEF Inv, Safe
<1>2. TypeOK' /\ CallInv'
  BY <1>1, CallStep
<1>3. Safe'
  <2>1. CASE Prepare \/ ChangeSource \/ UNCHANGED vars
    BY <1>1, <2>1, Quiet DEF Prepare, ClaimRun, SaveInputs, FailPreparation,
         SaveRequests, ChangeSource, vars, commit, told
  <2>2. CASE HumanReview
    <3>1. PICK items \in {{}, {Foreign}} : disk' = [disk EXCEPT !.rules = items]
      BY <2>2 DEF HumanReview
    <3>2. /\ disk'.decisions = disk.decisions /\ disk'.queue = disk.queue
          /\ disk'.receipt = disk.receipt
          /\ disk'.interpretations = disk.interpretations
      BY <1>1, <3>1 DEF TypeOK, Disk
    <3> QED
      BY <1>1, <2>2, <3>2, Quiet DEF HumanReview, commit
  <2>3. ASSUME NEW c \in Caller, NEW r \in Response, Resume(c, r)
        PROVE  Safe'
    <3>1. /\ pc'[c] = "resume"
          /\ \A e \in Caller : e # c => pc'[e] = pc[e] /\ arg'[e] = arg[e]
      BY <1>1, <2>3 DEF Resume, Call, Goto, TypeOK
    <3> QED
      BY <1>1, <2>3, <3>1, Quiet DEF Resume, commit, told, Holding
  <2>4. ASSUME NEW c \in Caller, NEW b \in Batch, Apply(c, b)
        PROVE  Safe'
    <3>1. /\ pc'[c] = "apply"
          /\ \A e \in Caller : e # c => pc'[e] = pc[e] /\ arg'[e] = arg[e]
      BY <1>1, <2>4 DEF Apply, Call, Goto, TypeOK
    <3> QED
      BY <1>1, <2>4, <3>1, Quiet DEF Apply, commit, told, Holding
  <2>5. ASSUME NEW c \in Caller, ReadQueue(c)
        PROVE  Safe'
    <3>1. /\ pc'[c] = "forming"
          /\ \A e \in Caller : e # c => /\ pc'[e] = pc[e] /\ arg'[e] = arg[e]
                                       /\ before'[e] = before[e]
      BY <1>1, <2>5 DEF ReadQueue, Call, Goto, TypeOK
    <3> QED
      BY <1>1, <2>5, <3>1, Quiet DEF ReadQueue, told, Holding
  <2>6. ASSUME NEW c \in Caller, WriteForm(c)
        PROVE  Safe'
    <3>1. /\ disk'.decisions = disk.decisions /\ disk'.queue = disk.queue
          /\ disk'.receipt = disk.receipt
          /\ disk'.interpretations = disk.interpretations
      BY <1>1, <2>6 DEF WriteForm, TypeOK, Disk
    <3>2. /\ pc'[c] = "idle"
          /\ \A e \in Caller : e # c =>
                /\ pc'[e] = pc[e] /\ arg'[e] = arg[e] /\ work'[e] = work[e]
                /\ before'[e] = before[e] /\ replaced'[e] = replaced[e]
      BY <1>1, <2>6 DEF WriteForm, Return, Goto, TypeOK
    <3> QED
      BY <1>1, <2>6, <3>1, <3>2, Quiet DEF WriteForm, told, Holding
  <2>7. ASSUME NEW c \in Caller, ResumeLocked(c) \/ ApplyLocked(c)
        PROVE  Safe'
    BY <1>1, <2>7, LockStep, ReturnQuiet DEF ResumeLocked, ApplyLocked, told
  <2>8. ASSUME NEW c \in Caller, Weigh(c)
        PROVE  Safe'
    BY <1>1, <2>8, WeighStep
  <2>9. ASSUME NEW c \in Caller, Weighed(c) \/ Stage(c) \/ ReplaceFails(c)
        PROVE  Safe'
    BY <1>1, <2>9, StageStep, ReturnQuiet DEF Weighed, told
  <2>10. ASSUME NEW c \in Caller, Replace(c)
         PROVE  Safe'
    BY <1>1, <2>10, ReplaceFeedback, ReplaceJudgement
  <2>11. ASSUME NEW c \in Caller, Undo(c)
         PROVE  Safe'
    BY <1>1, <2>11, UndoStep
  <2>12. ASSUME NEW c \in Caller, Commit(c)
         PROVE  Safe'
    BY <1>1, <2>12, CommitStep
  <2>13. ASSUME NEW c \in Caller, StageFails(c) \/ Abort(c) \/ Die(c)
         PROVE  Safe'
    BY <1>1, <2>13, ReturnQuiet DEF StageFails, Abort, Die, told
  <2> QED
    BY <2>1, <2>2, <2>3, <2>4, <2>5, <2>6, <2>7, <2>8, <2>9, <2>10, <2>11,
       <2>12, <2>13 DEF Next, Step
<1> QED BY <1>2, <1>3 DEF Inv

\* The inductive invariant holds for any number of callers, responses, items and
\* batches, and for any number of calls.
THEOREM InvHolds == Spec => []Inv
BY InitInv, NextInv, PTL DEF Spec

\* Every variable keeps its type (the artifacts of a run and the calls on it).
THEOREM TypeCorrect == Spec => []TypeOK
<1>1. Inv => TypeOK
  BY DEF Inv
<1> QED BY <1>1, InvHolds, PTL

\* A response reported as consumed stays the one on disk, so none is consumed
\* after it (_complete_agent_judgement_responses).
THEOREM ConsumedOnceCorrect == Spec => []ConsumedOnce
<1>1. Inv => ConsumedOnce
  BY DEF Inv, Safe
<1> QED BY <1>1, InvHolds, PTL

\* A decision reported as accepted is never lost, whatever fails or dies
\* (_commit_feedback_transaction).
THEOREM AcceptedIsKeptCorrect == Spec => []AcceptedIsKept
<1>1. Inv => AcceptedIsKept
  BY DEF Inv, Safe
<1> QED BY <1>1, InvHolds, PTL

\* No item is decided twice, and no feedback id used twice, even by a commit
\* cut short (_apply_feedback_decisions_locked).
THEOREM DecisionsCountOnceCorrect == Spec => []DecisionsCountOnce
<1>1. Inv => DecisionsCountOnce
  BY DEF Inv, Safe
<1> QED BY <1>1, InvHolds, PTL

-----------------------------------------------------------------------------
(* The artifacts agree, and a rollback is whole *)

Undecided == {"decisions", "events", "rules", "tests"}

\* The artifacts that tell the same story, or none.
Agree(d) ==
  IF d.queue = NoFile
  THEN \A n \in Undecided : d[n] = NoFile
  ELSE StateValid(d)

Calm == ~torn /\ ~reviewed

\* Decisions taken on the queue of response r while it was open.
OnOpen(h, r) == \A i \in DOMAIN h : h[i].snap = [of |-> r, status |-> "needs_review"]

\* What a call starts from agrees; a batch has only decisions of the queue as it is, and a
\* response finds no decisions.
AgreeOf(c) ==
  pc[c] \in Holding =>
    /\ Calm => Agree(Base(c))
    /\ arg[c] \notin Response =>
         /\ Base(c).queue.received = InBatch(History(Base(c)))
         /\ OnOpen(work[c], Base(c).queue.of)
    /\ arg[c] \in Response =>
         /\ Base(c).queue = NoFile
         /\ Calm => \A n \in Undecided : disk[n] = NoFile

\* The artifacts that nobody writes without the lock.
Locked(n) == n # "form" /\ (n = "rules" => ~reviewed)

\* Of the artifacts of a commit, in their order, the first ones have been replaced and the
\* others are as they were, or are so again.
TouchOf(c) ==
  pc[c] \in {"replacing", "rolling"} =>
    \A i \in DOMAIN Artifacts(c) :
      LET n == Artifacts(c)[i] IN
      Locked(n) =>
        /\ ~torn /\ i > replaced[c] => disk[n] = before[c][n]
        /\ pc[c] = "replacing" /\ i <= replaced[c] => disk[n] = Content(c, n)

AgreeInv == ArtifactsAgree /\ \A c \in Caller : AgreeOf(c) /\ TouchOf(c)

Story == Name \ {"form"}

LEMMA AgreeSame ==
  ASSUME NEW d \in Disk, NEW e \in Disk, \A n \in Undecided \cup {"queue"} : e[n] = d[n],
         Agree(d)
  PROVE  Agree(e)
<1>1. /\ e.queue = d.queue /\ e.decisions = d.decisions /\ e.events = d.events
      /\ e.rules = d.rules /\ e.tests = d.tests
  BY DEF Undecided
<1>2. History(e) = History(d)
  BY <1>1 DEF History
<1> QED BY <1>1, <1>2 DEF Agree, StateValid, Undecided

LEMMA AgreeEmpty == Agree(Empty)
BY DEF Agree, Empty, Name, Undecided

\* No artifact is replaced twice.
LEMMA ArtifactsDiffer ==
  ASSUME NEW c \in Caller, NEW i \in DOMAIN Artifacts(c), NEW j \in DOMAIN Artifacts(c), i # j
  PROVE  Artifacts(c)[i] # Artifacts(c)[j]
<1>1. CASE arg[c] \in Response
  <2>1. Artifacts(c) = <<"interpretations", "queue", "form", "receipt">>
    BY <1>1 DEF Artifacts, JudgementArtifacts
  <2> QED BY <2>1
<1>2. CASE arg[c] \notin Response
  <2>1. Artifacts(c) = <<"decisions", "events", "rules", "tests", "queue">>
    BY <1>2 DEF Artifacts, FeedbackArtifacts
  <2> QED BY <2>1
<1> QED BY <1>1, <1>2

LEMMA ArtifactDomain ==
  ASSUME NEW c \in Caller
  PROVE  /\ DOMAIN Artifacts(c) = 1..Len(Artifacts(c)) /\ Len(Artifacts(c)) \in {4, 5}
         /\ \A i \in DOMAIN Artifacts(c) : Artifacts(c)[i] \in Name
<1>1. CASE arg[c] \in Response
  <2>1. Artifacts(c) = <<"interpretations", "queue", "form", "receipt">>
    BY <1>1 DEF Artifacts, JudgementArtifacts
  <2> QED BY <2>1 DEF Name
<1>2. CASE arg[c] \notin Response
  <2>1. Artifacts(c) = <<"decisions", "events", "rules", "tests", "queue">>
    BY <1>2 DEF Artifacts, FeedbackArtifacts
  <2> QED BY <2>1 DEF Name
<1> QED BY <1>1, <1>2

LEMMA AgreeMeans == ArtifactsAgree <=> (lock = Nobody /\ Calm => Agree(disk))
BY DEF ArtifactsAgree, Calm, Agree, Undecided

\* A step that writes forms at most, and no step of a commit.
LEMMA AgreeQuiet ==
  ASSUME TypeOK, TypeOK', AgreeInv, lock' = lock, torn' = torn, reviewed' = reviewed,
         \A n \in Story : disk'[n] = disk[n],
         \A e \in Caller : pc'[e] \in Holding =>
            /\ pc'[e] = pc[e] /\ arg'[e] = arg[e] /\ work'[e] = work[e]
            /\ before'[e] = before[e] /\ replaced'[e] = replaced[e]
  PROVE  AgreeInv'
<1>1. PICK d \in Disk, x \in Disk : d = disk /\ x = disk'
  BY DEF TypeOK
<1>2. \A n \in Story : x[n] = d[n]
  BY <1>1
<1>3. Agree(d) => Agree(x)
  <2>1. \A n \in Undecided \cup {"queue"} : x[n] = d[n]
    BY <1>2 DEF Undecided, Story, Name
  <2> QED BY <2>1, AgreeSame
<1>4. ArtifactsAgree'
  BY <1>1, <1>3 DEF AgreeInv, ArtifactsAgree, Agree, Undecided, StateValid, History
<1>5. /\ x.queue = d.queue /\ History(x) = History(d)
      /\ \A n \in Undecided : x[n] = d[n]
  BY <1>2 DEF Story, Name, History, Undecided
<1>6. ASSUME NEW e \in Caller PROVE AgreeOf(e)' /\ TouchOf(e)'
  <2>1. CASE pc'[e] \notin Holding
    BY <2>1 DEF AgreeOf, TouchOf, Holding
  <2>2. CASE pc'[e] \in Holding
    <3>1. /\ pc'[e] = pc[e] /\ arg'[e] = arg[e] /\ work'[e] = work[e]
          /\ before'[e] = before[e] /\ replaced'[e] = replaced[e]
          /\ AgreeOf(e) /\ TouchOf(e)
      BY <2>2 DEF AgreeInv
    <3>2. PICK b, y : /\ b = Base(e) /\ y = Base(e)'
                      /\ \/ y = b
                         \/ b = d /\ y = x
      BY <1>1, <3>1 DEF Base
    <3>3. /\ Agree(b) => Agree(y)
          /\ y.queue = b.queue /\ History(y) = History(b)
      BY <1>3, <1>5, <3>2
    <3>4. AgreeOf(e)'
      <4>1. Calm' => Agree(y)
        BY <2>2, <3>1, <3>2, <3>3 DEF AgreeOf, Calm
      <4>2. arg'[e] \notin Response =>
              y.queue.received = InBatch(History(y)) /\ OnOpen(work'[e], y.queue.of)
        BY <2>2, <3>1, <3>2, <3>3 DEF AgreeOf
      <4>3. arg'[e] \in Response =>
              y.queue = NoFile /\ (Calm' => \A n \in Undecided : disk'[n] = NoFile)
        BY <1>1, <1>5, <2>2, <3>1, <3>2, <3>3 DEF AgreeOf, Calm
      <4> QED BY <3>2, <4>1, <4>2, <4>3
              DEF AgreeOf, Agree, StateValid, History, OnOpen, Undecided, InBatch
    <3>5. TouchOf(e)'
      <4>1. Artifacts(e)' = Artifacts(e)
        BY <3>1 DEF Artifacts
      <4>2. ASSUME NEW n \in Name PROVE Content(e, n)' = Content(e, n)
        BY <3>1 DEF Content
      <4>3. \A n \in Name : Locked(n)' => Locked(n) /\ n \in Story
        BY DEF Locked, Story
      <4> QED BY <3>1, <4>1, <4>2, <4>3, ArtifactDomain DEF TouchOf
    <3> QED BY <3>4, <3>5
  <2> QED BY <2>1, <2>2
<1> QED BY <1>4, <1>6 DEF AgreeInv

\* A human review spoils the rule candidates, and is known to have.
LEMMA AgreeReview ==
  ASSUME TypeOK, AgreeInv, HumanReview
  PROVE  AgreeInv'
<1>1. PICK items \in {{}, {Foreign}} : disk' = [disk EXCEPT !.rules = items]
  BY DEF HumanReview
<1>2. /\ reviewed' /\ torn' = torn /\ lock' = lock
      /\ UNCHANGED <<pc, arg, work, before, replaced>>
  BY DEF HumanReview, commit
<1>3. \A n \in Name : n # "rules" => disk'[n] = disk[n]
  BY <1>1 DEF TypeOK, Disk, Name
<1>4. ArtifactsAgree'
  BY <1>2 DEF ArtifactsAgree
<1>5. ASSUME NEW e \in Caller PROVE AgreeOf(e)'
  <2>1. AgreeOf(e)
    BY DEF AgreeInv
  <2>2. disk'.queue = disk.queue /\ History(disk)' = History(disk)
    BY <1>3 DEF Name, History
  <2>3. Base(e)'.queue = Base(e).queue /\ History(Base(e))' = History(Base(e))
    BY <1>2, <2>2 DEF Base, History
  <2> QED BY <1>2, <2>1, <2>3 DEF AgreeOf, Calm, OnOpen
<1>6. ASSUME NEW e \in Caller PROVE TouchOf(e)'
  <2>1. TouchOf(e)
    BY DEF AgreeInv
  <2>2. Artifacts(e)' = Artifacts(e)
    BY <1>2 DEF Artifacts
  <2>3. ASSUME NEW n \in Name PROVE Content(e, n)' = Content(e, n)
    BY <1>2 DEF Content
  <2>4. \A n \in Name : Locked(n)' => Locked(n) /\ n # "rules"
    BY <1>2 DEF Locked
  <2> QED BY <1>2, <1>3, <2>1, <2>2, <2>3, <2>4, ArtifactDomain DEF TouchOf
<1> QED BY <1>4, <1>5, <1>6 DEF AgreeInv

\* Of the callers only the holder of the lock is in a commit.
LEMMA AgreeOthers ==
  ASSUME CallInv, AgreeInv, NEW c \in Caller, lock \in {c, Nobody},
         \A e \in Caller : e # c => pc'[e] = pc[e],
         ArtifactsAgree', AgreeOf(c)', TouchOf(c)'
  PROVE  AgreeInv'
<1>1. ASSUME NEW e \in Caller, e # c
      PROVE  pc'[e] \notin Holding
  BY <1>1, FeedbackAssumption DEF CallInv, CallOf
<1>2. \A e \in Caller : AgreeOf(e)' /\ TouchOf(e)'
  BY <1>1 DEF AgreeOf, TouchOf, Holding
<1> QED BY <1>2 DEF AgreeInv

\* The holder of the lock gives it back: what it leaves agrees.
LEMMA AgreeRelease ==
  ASSUME TypeOK, CallInv, AgreeInv, NEW c \in Caller, lock = c, Return(c), disk' = disk,
         Calm' => Agree(disk)
  PROVE  AgreeInv'
<1>1. pc'[c] = "idle" /\ \A e \in Caller : e # c => pc'[e] = pc[e]
  BY DEF Return, Goto, TypeOK
<1>2. AgreeOf(c)' /\ TouchOf(c)'
  BY <1>1 DEF AgreeOf, TouchOf, Holding
<1>3. ArtifactsAgree'
  BY DEF ArtifactsAgree, Calm, Agree, Undecided, StateValid, History
<1> QED BY <1>1, <1>2, <1>3, AgreeOthers

\* A caller that has not the lock ends its call.
LEMMA AgreeReturn ==
  ASSUME TypeOK, TypeOK', CallInv, AgreeInv, NEW c \in Caller, lock # c, Return(c),
         \A n \in Story : disk'[n] = disk[n], torn' = torn, reviewed' = reviewed
  PROVE  AgreeInv'
<1>1. lock' = lock /\ pc'[c] = "idle"
  BY DEF Return, Goto, TypeOK
<1>2. \A e \in Caller : e # c =>
        /\ pc'[e] = pc[e] /\ arg'[e] = arg[e] /\ work'[e] = work[e]
        /\ before'[e] = before[e] /\ replaced'[e] = replaced[e]
  BY DEF Return, Goto, TypeOK
<1> QED BY <1>1, <1>2, AgreeQuiet DEF Holding

\* Who takes the lock finds artifacts that agree, or takes it for nothing.
LEMMA AgreeLock ==
  ASSUME TypeOK, CallInv, AgreeInv, NEW c \in Caller,
         ResumeLocked(c) \/ ApplyLocked(c), ~Return(c)
  PROVE  AgreeInv'
<1> USE FeedbackAssumption
<1>1. /\ lock = Nobody /\ lock' = c /\ c # Nobody
      /\ UNCHANGED <<disk, arg, before, replaced, torn, reviewed>>
      /\ pc[c] \in {"resume", "apply"}
      /\ \A e \in Caller : e # c => pc'[e] = pc[e]
  BY DEF ResumeLocked, ApplyLocked, Goto, commit, told, TypeOK, CallInv, CallOf
<1>2. Calm => Agree(disk)
  BY <1>1, AgreeMeans DEF AgreeInv
<1>3. ArtifactsAgree'
  BY <1>1 DEF ArtifactsAgree
<1>4. AgreeOf(c)' /\ TouchOf(c)'
  <2>1. CASE pc[c] = "resume"
    <3>1. pc'[c] = "staging" /\ arg'[c] \in Response /\ \A n \in Name : disk[n] = NoFile
      BY <2>1 DEF ResumeLocked, ApplyLocked, Goto, AlreadyConsumed, TypeOK, CallInv, CallOf
    <3>2. Base(c)' = disk /\ Calm' = Calm
      BY <1>1, <3>1 DEF Base, Calm
    <3>3. Calm' => Agree(Base(c)')
      BY <1>2, <3>2
    <3>4. Base(c)'.queue = NoFile /\ \A n \in Undecided : disk'[n] = NoFile
      BY <1>1, <3>1, <3>2 DEF Undecided, Name
    <3>5. AgreeOf(c)'
      BY <3>1, <3>3, <3>4 DEF AgreeOf, Agree, StateValid, History, OnOpen, Undecided, InBatch
    <3> QED BY <3>1, <3>5 DEF TouchOf
  <2>2. CASE pc[c] = "apply"
    <3>1. /\ pc'[c] = "weighing" /\ arg'[c] \in Batch /\ work'[c] = History(disk)
          /\ StateValid(disk)
      BY <2>2 DEF ResumeLocked, ApplyLocked, Goto, told, TypeOK, CallInv, CallOf
    <3>2. Base(c)' = disk /\ Calm' = Calm
      BY <1>1, <3>1 DEF Base, Calm
    <3>3. Calm' => Agree(Base(c)')
      BY <1>2, <3>2
    <3>4. disk.queue.received = InBatch(History(disk)) /\ OnOpen(History(disk), disk.queue.of)
      BY <3>1 DEF StateValid, OnOpen
    <3>5. /\ Base(c)'.queue.received = InBatch(History(Base(c)'))
          /\ OnOpen(work'[c], Base(c)'.queue.of)
      BY <3>1, <3>2, <3>4
    <3>6. arg'[c] \notin Response
      BY <3>1
    <3>7. AgreeOf(c)'
      BY <3>3, <3>5, <3>6
         DEF AgreeOf, Agree, StateValid, History, OnOpen, Undecided, InBatch
    <3> QED BY <3>1, <3>7 DEF TouchOf
  <2> QED BY <1>1, <2>1, <2>2
<1> QED BY <1>1, <1>3, <1>4, AgreeOthers

\* A decision that is accepted is on the queue as it was while its item was open.
LEMMA AgreeWeigh ==
  ASSUME TypeOK, CallInv, FeedInv, AgreeInv, NEW c \in Caller, Weigh(c)
  PROVE  AgreeInv'
<1> USE FeedbackAssumption
<1>1. /\ pc[c] = "weighing" /\ lock = c /\ c # Nobody /\ work[c] \in Seq(Decision)
      /\ UNCHANGED <<disk, lock, pc, arg, before, replaced, torn, reviewed>>
  BY DEF Weigh, told, TypeOK, CallInv, CallOf, Holding
<1>2. arg[c] \notin Response /\ FeedOf(c) /\ AgreeOf(c) /\ Base(c) = disk
  BY <1>1 DEF CallInv, CallOf, FeedInv, AgreeInv, Base
<1>3. /\ InBatch(History(disk)) \subseteq InBatch(work[c])
      /\ disk.queue.received = InBatch(History(disk)) /\ OnOpen(work[c], disk.queue.of)
      /\ Calm => Agree(disk)
  BY <1>1, <1>2 DEF FeedOf, AgreeOf, Holding
<1>4. OnOpen(work'[c], disk.queue.of)
  <2> DEFINE d == Head(todo[c])
  <2>1. CASE Accepted(c, d)
    <3>1. work'[c] = Append(work[c], d)
      BY <2>1 DEF Weigh, TypeOK
    <3>2. d \in Decision /\ Bound(d) /\ d.item \in Item
          /\ \A e \in InBatch(work[c]) : e.item # d.item
      BY <2>1 DEF Accepted, Bound, Taken, Decision
    <3> HIDE DEF d
    <3>3. d.snap = SnapshotOf(disk.queue)
      BY <1>3, <3>2 DEF Bound
    <3>4. QueueStatus(disk.queue) = "needs_review"
      BY <1>3, <3>2 DEF QueueStatus
    <3>5. d.snap = [of |-> disk.queue.of, status |-> "needs_review"]
      BY <3>3, <3>4 DEF SnapshotOf
    <3>6. \A i \in DOMAIN Append(work[c], d) :
            \/ Append(work[c], d)[i] = d
            \/ i \in DOMAIN work[c] /\ Append(work[c], d)[i] = work[c][i]
      BY <1>1, <3>2
    <3> QED BY <1>3, <3>1, <3>5, <3>6 DEF OnOpen
  <2>2. CASE ~Accepted(c, d)
    BY <1>3, <2>2 DEF Weigh
  <2> QED BY <2>1, <2>2
<1>5. AgreeOf(c)' /\ TouchOf(c)'
  <2>1. Base(c)' = disk /\ Calm' = Calm
    BY <1>1 DEF Base, Calm
  <2>2. /\ Calm' => Agree(Base(c)')
        /\ Base(c)'.queue.received = InBatch(History(Base(c)'))
        /\ OnOpen(work'[c], Base(c)'.queue.of)
    BY <1>3, <1>4, <2>1
  <2>3. AgreeOf(c)'
    BY <1>1, <1>2, <2>2 DEF AgreeOf, Agree, StateValid, History, OnOpen, Undecided, InBatch
  <2> QED BY <1>1, <2>3 DEF TouchOf
<1>6. ArtifactsAgree'
  BY <1>1 DEF ArtifactsAgree
<1> QED BY <1>1, <1>5, <1>6, AgreeOthers

\* Staging remembers the artifacts, and a failure turns a commit round.
LEMMA AgreeStage ==
  ASSUME TypeOK, CallInv, AgreeInv, NEW c \in Caller,
         (Weighed(c) /\ ~Return(c)) \/ Stage(c) \/ ReplaceFails(c)
  PROVE  AgreeInv'
<1> USE FeedbackAssumption
<1>1. /\ pc[c] \in Holding /\ lock = c /\ c # Nobody
      /\ UNCHANGED <<disk, lock, arg, work, replaced, torn, reviewed>>
      /\ \A e \in Caller : e # c => pc'[e] = pc[e]
  BY DEF Weighed, Stage, ReplaceFails, Goto, commit, told, TypeOK, CallInv, CallOf, Holding
<1>2. AgreeOf(c) /\ TouchOf(c) /\ CallOf(c)
  BY DEF AgreeInv, CallInv
<1>3. pc'[c] \in Holding
  BY DEF Weighed, Stage, ReplaceFails, Goto, TypeOK, Holding
<1>4. Base(c)' = Base(c) /\ Calm' = Calm
  BY <1>1 DEF Weighed, Stage, ReplaceFails, Goto, commit, TypeOK, Base, Calm
<1>5. AgreeOf(c)'
  <2>1. PICK b : b = Base(c) /\ b = Base(c)'
    BY <1>4
  <2>2. Calm' => Agree(b)
    BY <1>1, <1>2, <1>4, <2>1 DEF AgreeOf
  <2>3. arg'[c] \notin Response =>
          b.queue.received = InBatch(History(b)) /\ OnOpen(work'[c], b.queue.of)
    BY <1>1, <1>2, <2>1 DEF AgreeOf
  <2>4. arg'[c] \in Response =>
          b.queue = NoFile /\ (Calm' => \A n \in Undecided : disk'[n] = NoFile)
    BY <1>1, <1>2, <1>4, <2>1 DEF AgreeOf
  <2> QED BY <2>1, <2>2, <2>3, <2>4
          DEF AgreeOf, Agree, StateValid, History, OnOpen, Undecided, InBatch
<1>6. TouchOf(c)'
  <2>1. CASE Weighed(c) /\ ~Return(c)
    <3>1. pc'[c] = "staging"
      BY <2>1 DEF Weighed, Goto, TypeOK
    <3> QED BY <3>1 DEF TouchOf
  <2>2. CASE Stage(c)
    <3>1. /\ pc'[c] = "replacing" /\ before'[c] = disk /\ replaced'[c] = 0 /\ disk' = disk
      BY <1>2, <2>2 DEF Stage, Goto, TypeOK, CallOf
    <3>2. \A i \in DOMAIN Artifacts(c)' : ~(i <= 0)
      <4>1. Artifacts(c)' = Artifacts(c)
        BY <1>1 DEF Artifacts
      <4> QED BY <4>1, ArtifactDomain
    <3> QED BY <3>1, <3>2 DEF TouchOf
  <2>3. CASE ReplaceFails(c)
    <3>1. pc[c] = "replacing" /\ pc'[c] = "rolling" /\ before' = before
      BY <2>3 DEF ReplaceFails, Goto, commit, TypeOK
    <3>2. Artifacts(c)' = Artifacts(c)
      BY <1>1 DEF Artifacts
    <3>3. \A n \in Name : Locked(n)' = Locked(n)
      BY <1>1 DEF Locked
    <3> QED BY <1>1, <1>2, <3>1, <3>2, <3>3, ArtifactDomain DEF TouchOf
  <2> QED BY <2>1, <2>2, <2>3
<1>7. ArtifactsAgree'
  BY <1>1 DEF ArtifactsAgree
<1> QED BY <1>1, <1>5, <1>6, <1>7, AgreeOthers

\* One artifact of a response is no decision, nor made of one.
LEMMA NoDecision ==
  ASSUME NEW c \in Caller, arg[c] \in Response, NEW i \in DOMAIN Artifacts(c)
  PROVE  Artifacts(c)[i] \notin Undecided
<1>1. Artifacts(c) = <<"interpretations", "queue", "form", "receipt">>
  BY DEF Artifacts, JudgementArtifacts
<1> QED BY <1>1 DEF Undecided

LEMMA AgreeReplace ==
  ASSUME TypeOK, CallInv, AgreeInv, NEW c \in Caller, Replace(c)
  PROVE  AgreeInv'
<1> USE FeedbackAssumption
<1> DEFINE k == replaced[c] + 1
<1>1. /\ pc[c] = "replacing" /\ lock = c /\ c # Nobody /\ replaced'[c] = k
      /\ UNCHANGED <<lock, pc, arg, work, before, torn, reviewed>>
      /\ replaced[c] \in 0..5 /\ replaced[c] < Len(Artifacts(c))
  BY DEF Replace, told, TypeOK, CallInv, CallOf, Holding
<1>2. PICK n : n = Artifacts(c)[k]
  OBVIOUS
<1>3. k \in DOMAIN Artifacts(c) /\ n \in Name
  BY <1>1, <1>2, ArtifactDomain
<1>4. /\ disk'[n] = Content(c, n)
      /\ \A m \in Name : m # n => disk'[m] = disk[m]
  <2>1. disk' = [disk EXCEPT ![n] = Content(c, n)]
    BY <1>2 DEF Replace
  <2>2. disk \in Disk /\ Disk = Disk /\ DOMAIN disk = Name
    BY DEF TypeOK, Disk, Name
  <2> QED BY <1>3, <2>1, <2>2
<1>5. AgreeOf(c) /\ TouchOf(c)
  BY DEF AgreeInv
<1>6. AgreeOf(c)'
  <2>1. PICK b : b = Base(c) /\ b = Base(c)'
    BY <1>1 DEF Base
  <2>2. Calm' => Agree(b)
    BY <1>1, <1>5, <2>1 DEF AgreeOf, Calm, Holding
  <2>3. arg'[c] \notin Response =>
          b.queue.received = InBatch(History(b)) /\ OnOpen(work'[c], b.queue.of)
    BY <1>1, <1>5, <2>1 DEF AgreeOf, Holding
  <2>4. arg'[c] \in Response =>
          b.queue = NoFile /\ (Calm' => \A m \in Undecided : disk'[m] = NoFile)
    <3> SUFFICES ASSUME arg[c] \in Response
                 PROVE  b.queue = NoFile /\ (Calm => \A m \in Undecided : disk'[m] = NoFile)
      BY <1>1 DEF Calm
    <3>1. n \notin Undecided
      BY <1>2, <1>3, NoDecision
    <3>2. b.queue = NoFile /\ (Calm => \A m \in Undecided : disk[m] = NoFile)
      BY <1>1, <1>5, <2>1 DEF AgreeOf, Holding
    <3>3. Undecided \subseteq Name
      BY DEF Undecided, Name
    <3> QED BY <1>4, <3>1, <3>2, <3>3
  <2> QED BY <1>1, <2>1, <2>2, <2>3, <2>4
          DEF AgreeOf, Agree, StateValid, History, OnOpen, Undecided, InBatch
<1>7. TouchOf(c)'
  <2>1. Artifacts(c)' = Artifacts(c)
    BY <1>1 DEF Artifacts
  <2>2. \A m \in Name : Locked(m)' = Locked(m) /\ Content(c, m)' = Content(c, m)
    BY <1>1 DEF Locked, Content
  <2>3. ASSUME NEW i \in DOMAIN Artifacts(c), NEW m, m = Artifacts(c)[i], Locked(m)
        PROVE  /\ ~torn /\ i > k => disk'[m] = before[c][m]
               /\ i <= k => disk'[m] = Content(c, m)
    <3>1. m \in Name /\ i \in Nat
      BY <2>3, ArtifactDomain
    <3>2. /\ ~torn /\ i > replaced[c] => disk[m] = before[c][m]
          /\ i <= replaced[c] => disk[m] = Content(c, m)
      BY <1>1, <1>5, <2>3 DEF TouchOf
    <3>3. i # k => m # n
      BY <1>2, <1>3, <2>3, ArtifactsDiffer
    <3>4. CASE i = k
      <4>1. m = n /\ ~(i > k)
        BY <1>2, <2>3, <3>1, <3>4
      <4>2. disk'[m] = Content(c, m)
        BY <1>4, <4>1
      <4> QED BY <4>1, <4>2
    <3>5. CASE i # k
      <4>1. disk'[m] = disk[m]
        BY <1>4, <3>1, <3>3, <3>5
      <4>2. (i > k => i > replaced[c]) /\ (i <= k => i <= replaced[c])
        BY <1>1, <3>1, <3>5
      <4> QED BY <3>2, <4>1, <4>2
    <3> QED BY <3>4, <3>5
  <2> HIDE DEF k
  <2> QED BY <1>1, <2>1, <2>2, <2>3, ArtifactDomain DEF TouchOf
<1>8. ArtifactsAgree'
  BY <1>1 DEF ArtifactsAgree
<1> QED BY <1>1, <1>6, <1>7, <1>8, AgreeOthers

LEMMA AgreeUndo ==
  ASSUME TypeOK, CallInv, AgreeInv, NEW c \in Caller, Undo(c)
  PROVE  AgreeInv'
<1> USE FeedbackAssumption
<1>1. /\ pc[c] = "rolling" /\ lock = c /\ c # Nobody /\ replaced'[c] = replaced[c] - 1
      /\ UNCHANGED <<lock, pc, arg, work, before, reviewed>>
      /\ replaced[c] \in 0..5 /\ replaced[c] > 0
      /\ replaced[c] <= (IF arg[c] \in Response THEN 4 ELSE 5)
  BY DEF Undo, told, TypeOK, CallInv, CallOf, Holding
<1>2. PICK k, n : k = replaced[c] /\ n = Artifacts(c)[k]
  OBVIOUS
<1>3. k \in DOMAIN Artifacts(c) /\ n \in Name
  <2>1. k \in 1..Len(Artifacts(c))
    BY <1>1, <1>2, ArtifactCount
  <2> QED BY <1>2, <2>1, ArtifactDomain
<1>4. /\ torn' \/ (torn' = torn /\ disk'[n] = before[c][n])
      /\ \A m \in Name : m # n => disk'[m] = disk[m]
      /\ torn => torn'
  <2>1. \/ disk' = [disk EXCEPT ![n] = before[c][n]] /\ torn' = torn
        \/ torn' /\ disk' = disk
    BY <1>2 DEF Undo, Restored
  <2>2. DOMAIN disk = Name
    BY DEF TypeOK, Disk, Name
  <2> QED BY <1>3, <2>1, <2>2
<1>5. AgreeOf(c) /\ TouchOf(c)
  BY DEF AgreeInv
<1>6. Calm' => Calm
  BY <1>1, <1>4 DEF Calm
<1>7. AgreeOf(c)'
  <2>1. PICK b : b = Base(c) /\ b = Base(c)'
    BY <1>1 DEF Base
  <2>2. Calm' => Agree(b)
    BY <1>1, <1>5, <1>6, <2>1 DEF AgreeOf, Holding
  <2>3. arg'[c] \notin Response =>
          b.queue.received = InBatch(History(b)) /\ OnOpen(work'[c], b.queue.of)
    BY <1>1, <1>5, <2>1 DEF AgreeOf, Holding
  <2>4. arg'[c] \in Response =>
          b.queue = NoFile /\ (Calm' => \A m \in Undecided : disk'[m] = NoFile)
    <3> SUFFICES ASSUME arg[c] \in Response
                 PROVE  b.queue = NoFile /\ (Calm => \A m \in Undecided : disk'[m] = NoFile)
      BY <1>1, <1>6
    <3>1. n \notin Undecided
      BY <1>2, <1>3, NoDecision
    <3>2. b.queue = NoFile /\ (Calm => \A m \in Undecided : disk[m] = NoFile)
      BY <1>1, <1>5, <2>1 DEF AgreeOf, Holding
    <3>3. Undecided \subseteq Name
      BY DEF Undecided, Name
    <3> QED BY <1>4, <3>1, <3>2, <3>3
  <2> QED BY <1>1, <2>1, <2>2, <2>3, <2>4
          DEF AgreeOf, Agree, StateValid, History, OnOpen, Undecided, InBatch
<1>8. TouchOf(c)'
  <2>1. Artifacts(c)' = Artifacts(c)
    BY <1>1 DEF Artifacts
  <2>2. \A m \in Name : Locked(m)' = Locked(m)
    BY <1>1 DEF Locked
  <2>3. ASSUME NEW i \in DOMAIN Artifacts(c), NEW m, m = Artifacts(c)[i], Locked(m),
               ~torn', i > k - 1
        PROVE  disk'[m] = before[c][m]
    <3>1. m \in Name /\ i \in Nat /\ ~torn
      BY <1>4, <2>3, ArtifactDomain
    <3>2. i > k => disk[m] = before[c][m]
      BY <1>1, <1>2, <1>5, <2>3, <3>1 DEF TouchOf
    <3>3. i # k => m # n
      BY <1>2, <1>3, <2>3, ArtifactsDiffer
    <3>4. CASE i = k
      BY <1>2, <1>4, <2>3, <3>4
    <3>5. CASE i # k
      <4>1. disk'[m] = disk[m]
        BY <1>4, <3>1, <3>3, <3>5
      <4>2. i > k
        BY <1>1, <1>2, <2>3, <3>1, <3>5
      <4> QED BY <3>2, <4>1, <4>2
    <3> QED BY <3>4, <3>5
  <2> QED BY <1>1, <1>2, <2>1, <2>2, <2>3, ArtifactDomain DEF TouchOf
<1>9. ArtifactsAgree'
  BY <1>1 DEF ArtifactsAgree
<1> QED BY <1>1, <1>7, <1>8, <1>9, AgreeOthers

\* What a call leaves that has replaced nothing, or all, or has put all back.
LEMMA AgreeLeft ==
  ASSUME TypeOK, CallInv, FeedInv, AgreeInv, NEW c \in Caller, pc[c] \in Holding, Calm,
         \/ replaced[c] = 0
         \/ pc[c] = "replacing" /\ replaced[c] = Len(Artifacts(c))
  PROVE  Agree(disk)
<1> USE FeedbackAssumption
<1>1. AgreeOf(c) /\ TouchOf(c) /\ CallOf(c) /\ disk \in Disk /\ before[c] \in Disk
  BY DEF AgreeInv, CallInv, TypeOK
<1>2. CASE pc[c] \notin {"replacing", "rolling"}
  BY <1>1, <1>2 DEF AgreeOf, Base
<1>3. CASE pc[c] \in {"replacing", "rolling"}
  <2>1. Base(c) = before[c] /\ \A n \in Name : n # "form" => Locked(n)
    BY <1>3 DEF Base, Locked, Calm
  <2>2. CASE replaced[c] = 0 /\ arg[c] \notin Response
    <3>1. \A i \in DOMAIN Artifacts(c) : i > 0
      BY ArtifactDomain
    <3>2. \A i \in 1..5 : disk[Artifacts(c)[i]] = before[c][Artifacts(c)[i]]
      <4>1. Artifacts(c) = <<"decisions", "events", "rules", "tests", "queue">>
        BY <2>2 DEF Artifacts, FeedbackArtifacts
      <4>2. ASSUME NEW i \in 1..5
            PROVE  i \in DOMAIN Artifacts(c) /\ Artifacts(c)[i] \in Name \ {"form"}
        BY <4>1 DEF Name
      <4> QED BY <1>1, <1>3, <2>1, <2>2, <3>1, <4>2 DEF TouchOf, Calm
    <3>3. \A n \in Undecided \cup {"queue"} : disk[n] = before[c][n]
      <4>1. Artifacts(c) = <<"decisions", "events", "rules", "tests", "queue">>
        BY <2>2 DEF Artifacts, FeedbackArtifacts
      <4> QED BY <3>2, <4>1 DEF Undecided
    <3>4. Agree(before[c])
      BY <1>1, <2>1 DEF AgreeOf
    <3>5. PICK d \in Disk, e \in Disk : d = before[c] /\ e = disk
      BY <1>1
    <3> QED BY <3>3, <3>4, <3>5, AgreeSame
  <2>3. CASE replaced[c] = 0 /\ arg[c] \in Response
    <3>1. before[c].queue = NoFile /\ \A n \in Undecided : disk[n] = NoFile
      BY <1>1, <2>1, <2>3 DEF AgreeOf
    <3>2. Artifacts(c) = <<"interpretations", "queue", "form", "receipt">>
      BY <2>3 DEF Artifacts, JudgementArtifacts
    <3>3. 2 \in DOMAIN Artifacts(c) /\ Artifacts(c)[2] = "queue" /\ "queue" \in Name
      BY <3>2 DEF Name
    <3>4. disk["queue"] = before[c]["queue"]
      BY <1>1, <1>3, <2>1, <2>3, <3>3 DEF TouchOf, Calm
    <3> QED BY <3>1, <3>4 DEF Agree
  <2>4. CASE pc[c] = "replacing" /\ replaced[c] = Len(Artifacts(c)) /\ arg[c] \in Response
    <3>1. \A n \in Undecided : disk[n] = NoFile
      BY <1>1, <2>4 DEF AgreeOf
    <3>2. Artifacts(c) = <<"interpretations", "queue", "form", "receipt">>
      BY <2>4 DEF Artifacts, JudgementArtifacts
    <3>3. 2 \in DOMAIN Artifacts(c) /\ Artifacts(c)[2] = "queue" /\ "queue" \in Name
          /\ 2 <= replaced[c]
      BY <2>4, <3>2 DEF Name
    <3>4. disk["queue"] = Content(c, "queue")
      BY <1>1, <2>1, <2>4, <3>3 DEF TouchOf
    <3>5. disk.queue = [of |-> arg[c], received |-> {}]
      BY <2>4, <3>4 DEF Content
    <3>6. disk.queue \in Queue /\ disk.queue.received = {}
      BY <2>4, <3>5
    <3>7. History(disk) = <<>>
      BY <3>1 DEF History, Undecided
    <3>8. InBatch(<<>>) = {} /\ Candidates(<<>>, "rule") = {} /\ Candidates(<<>>, "test") = {}
      BY DEF InBatch, Candidates
    <3>9. StateValid(disk)
      BY <3>1, <3>6, <3>7, <3>8 DEF StateValid, Holds, Distinct, Undecided
    <3> QED BY <3>6, <3>9 DEF Agree
  <2>5. CASE pc[c] = "replacing" /\ replaced[c] = Len(Artifacts(c)) /\ arg[c] \notin Response
    <3>1. Artifacts(c) = <<"decisions", "events", "rules", "tests", "queue">>
      BY <2>5 DEF Artifacts, FeedbackArtifacts
    <3>2. ASSUME NEW i \in 1..5
          PROVE  disk[Artifacts(c)[i]] = Content(c, Artifacts(c)[i])
      <4>1. i \in DOMAIN Artifacts(c) /\ i <= replaced[c] /\ Artifacts(c)[i] \in Name \ {"form"}
        BY <2>5, <3>1 DEF Name
      <4> QED BY <1>1, <2>1, <2>5, <4>1 DEF TouchOf
    <3>3. \A n \in Undecided \cup {"queue"} : disk[n] = Content(c, n)
      BY <3>1, <3>2 DEF Undecided
    <3>4. /\ disk.decisions = work[c] /\ disk.events = work[c]
          /\ disk.rules = Candidates(work[c], "rule")
          /\ disk.tests = Candidates(work[c], "test")
          /\ disk.queue = [before[c].queue EXCEPT !.received = InBatch(work[c])]
      BY <2>5, <3>3 DEF Content, Undecided
    <3>5. /\ work[c] \in Seq(Decision) /\ InBatch(work[c]) \subseteq Decision
          /\ Distinct(work[c]) /\ before[c].queue # NoFile
          /\ OnOpen(work[c], before[c].queue.of)
      BY <1>1, <2>1, <2>5, HistoryType DEF FeedInv, FeedOf, AgreeOf, Holding, TypeOK
    <3>6. before[c].queue \in Queue
      BY <1>1, <3>5 DEF Disk, Maybe
    <3>7. /\ disk.queue \in Queue /\ disk.queue.of = before[c].queue.of
          /\ disk.queue.received = InBatch(work[c])
      BY <3>4, <3>5, <3>6
    <3>8. History(disk) = work[c]
      BY <3>4, <3>5 DEF History
    <3>9. StateValid(disk)
      BY <3>4, <3>5, <3>7, <3>8 DEF StateValid, Holds, OnOpen
    <3> QED BY <3>7, <3>9 DEF Agree
  <2> QED BY <1>3, <2>2, <2>3, <2>4, <2>5
<1> QED BY <1>2, <1>3

\* A call ends that has the lock: it gave up, committed, or died.
LEMMA AgreeEnd ==
  ASSUME TypeOK, TypeOK', CallInv, FeedInv, AgreeInv, NEW c \in Caller,
         \/ Weighed(c) /\ Return(c)
         \/ StageFails(c) \/ Abort(c) \/ Commit(c) \/ Die(c)
  PROVE  AgreeInv'
<1> USE FeedbackAssumption
<1>1. /\ Return(c) /\ disk' = disk /\ reviewed' = reviewed /\ (Calm' => Calm)
      /\ CallOf(c) /\ replaced[c] \in 0..5
  BY DEF Weighed, StageFails, Abort, Commit, Die, told, Calm, CallInv, TypeOK
<1>2. CASE lock = c
  <2>1. pc[c] \in Holding
    BY <1>1, <1>2 DEF CallOf
  <2>2. ASSUME Calm'
        PROVE  replaced[c] = 0 \/ (pc[c] = "replacing" /\ replaced[c] = Len(Artifacts(c)))
    <3>1. CASE Weighed(c) \/ StageFails(c) \/ Abort(c) \/ Commit(c)
      BY <1>1, <3>1 DEF Weighed, StageFails, Abort, Commit, CallOf
    <3>2. CASE Die(c)
      <4>1. ~(replaced[c] > 0 /\ (pc[c] = "replacing" => replaced[c] < Len(Artifacts(c))))
        BY <2>2, <3>2 DEF Die, Calm
      <4>2. replaced[c] <= Len(Artifacts(c)) /\ Len(Artifacts(c)) \in {4, 5}
        BY <1>1, ArtifactCount, ArtifactDomain DEF CallOf
      <4> QED BY <1>1, <4>1, <4>2
    <3> QED BY <3>1, <3>2
  <2>3. Calm' => Agree(disk)
    BY <1>1, <2>1, <2>2, AgreeLeft
  <2> QED BY <1>1, <1>2, <2>3, AgreeRelease
<1>3. CASE lock # c
  <2>1. pc[c] \notin Holding /\ replaced[c] = 0
    BY <1>1, <1>3 DEF CallOf, Holding
  <2>2. torn' = torn
    BY <2>1 DEF Weighed, StageFails, Abort, Commit, Die, told, TypeOK
  <2> QED BY <1>1, <1>3, <2>2, AgreeReturn
<1> QED BY <1>2, <1>3

LEMMA AgreeStep ==
  ASSUME Inv, AgreeInv, [Next]_vars
  PROVE  AgreeInv'
<1> USE FeedbackAssumption
<1>1. TypeOK /\ CallInv /\ FeedInv /\ TypeOK'
  BY NextInv DEF Inv, Safe
<1>2. CASE Prepare \/ ChangeSource \/ UNCHANGED vars
  BY <1>1, <1>2, AgreeQuiet DEF Prepare, ClaimRun, SaveInputs, FailPreparation,
       SaveRequests, ChangeSource, vars, commit, told
<1>3. CASE HumanReview
  BY <1>1, <1>3, AgreeReview
<1>4. ASSUME NEW c \in Caller,
             \/ \E r \in Response : Resume(c, r)
             \/ \E b \in Batch : Apply(c, b)
             \/ ReadQueue(c)
      PROVE  AgreeInv'
  <2>1. /\ pc'[c] \in {"resume", "apply", "forming"}
        /\ UNCHANGED <<disk, lock, torn, reviewed>>
        /\ \A e \in Caller : e # c =>
             /\ pc'[e] = pc[e] /\ arg'[e] = arg[e] /\ work'[e] = work[e]
             /\ before'[e] = before[e] /\ replaced'[e] = replaced[e]
    BY <1>1, <1>4 DEF Resume, Apply, ReadQueue, Call, Goto, commit, told, TypeOK
  <2>2. \A e \in Caller : pc'[e] \in Holding => e # c
    BY <2>1 DEF Holding
  <2> QED BY <1>1, <2>1, <2>2, AgreeQuiet
<1>5. ASSUME NEW c \in Caller, WriteForm(c)
      PROVE  AgreeInv'
  <2>1. /\ Return(c) /\ lock # c /\ torn' = torn /\ reviewed' = reviewed
        /\ \A n \in Story : disk'[n] = disk[n]
    BY <1>1, <1>5 DEF WriteForm, told, TypeOK, Disk, Story, Name, CallInv, CallOf, Holding
  <2> QED BY <1>1, <2>1, AgreeReturn
<1>6. ASSUME NEW c \in Caller, ResumeLocked(c) \/ ApplyLocked(c)
      PROVE  AgreeInv'
  <2>1. CASE Return(c)
    <3>1. lock # c /\ UNCHANGED <<disk, torn, reviewed>>
      BY <1>1, <1>6 DEF ResumeLocked, ApplyLocked, told
    <3> QED BY <1>1, <2>1, <3>1, AgreeReturn
  <2>2. CASE ~Return(c)
    BY <1>1, <1>6, <2>2, AgreeLock
  <2> QED BY <2>1, <2>2
<1>7. ASSUME NEW c \in Caller, Weigh(c)
      PROVE  AgreeInv'
  BY <1>1, <1>7, AgreeWeigh
<1>8. ASSUME NEW c \in Caller, Weighed(c) \/ Stage(c) \/ ReplaceFails(c)
      PROVE  AgreeInv'
  BY <1>1, <1>8, AgreeStage, AgreeEnd DEF Stage, ReplaceFails
<1>9. ASSUME NEW c \in Caller, Replace(c) \/ Undo(c)
      PROVE  AgreeInv'
  BY <1>1, <1>9, AgreeReplace, AgreeUndo
<1>10. ASSUME NEW c \in Caller, StageFails(c) \/ Abort(c) \/ Commit(c) \/ Die(c)
       PROVE  AgreeInv'
  BY <1>1, <1>10, AgreeEnd
<1> QED BY <1>2, <1>3, <1>4, <1>5, <1>6, <1>7, <1>8, <1>9, <1>10 DEF Next, Step

LEMMA InitAgree == Init => AgreeInv
<1> SUFFICES ASSUME Init PROVE AgreeInv
  OBVIOUS
<1>1. disk = Empty /\ \A c \in Caller : pc[c] = "idle"
  BY DEF Init
<1>2. ArtifactsAgree
  BY <1>1, AgreeEmpty, AgreeMeans
<1> QED BY <1>1, <1>2 DEF AgreeInv, AgreeOf, TouchOf, Holding

LEMMA AgreeHolds == Spec => []AgreeInv
<1>1. Inv /\ AgreeInv /\ [Next]_vars => AgreeInv'
  BY AgreeStep
<1> QED BY <1>1, InitAgree, InvHolds, PTL DEF Spec

\* Between calls the queue, the decisions, their events and both kinds of candidates tell
\* the same story, whatever calls failed and were rolled back (_commit_feedback_transaction).
THEOREM ArtifactsAgreeCorrect == Spec => []ArtifactsAgree
<1>1. AgreeInv => ArtifactsAgree
  BY DEF AgreeInv
<1> QED BY <1>1, AgreeHolds, PTL

\* A rollback that is through has restored each artifact of the commit
\* (_commit_feedback_transaction).
THEOREM RolledBackIsWholeCorrect == Spec => []RolledBackIsWhole
<1>1. AgreeInv => RolledBackIsWhole
  <2> SUFFICES ASSUME AgreeInv, NEW c \in Caller, pc[c] = "rolling", replaced[c] = 0, ~torn,
                      NEW i \in DOMAIN Artifacts(c), NEW n, n = Artifacts(c)[i], Locked(n)
               PROVE  disk[n] = before[c][n]
    BY DEF RolledBackIsWhole, Locked
  <2>1. i > 0
    BY ArtifactDomain
  <2> QED BY <2>1 DEF AgreeInv, TouchOf
<1> QED BY <1>1, AgreeHolds, PTL
=============================================================================
