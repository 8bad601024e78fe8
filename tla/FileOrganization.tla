-------------------------- MODULE FileOrganization --------------------------
(***************************************************************************)
(* The file organizer: prepare records what a run proposes to move, a host  *)
(* confirms or skips items, and ArchiveSkill moves one confirmed file under  *)
(* the database's write lock: it checks, moves, re-reads the target, and     *)
(* only then records and commits.  A content hash stands for the content,    *)
(* and for the document row it is unique to; a location is one path of a     *)
(* storage binding.  Hosts die and restart; the owner of the folders edits   *)
(* files without asking.                                                     *)
(***************************************************************************)
EXTENDS Naturals

CONSTANTS
  Host, Run, FileContent,
  SourcePath,   \* the selected source binding: readable only
  ArchivePath,  \* the archive binding: readable and writable
  NoPath,       \* no file, no recorded location, no target
  Skip,         \* the decision "skipped"
  NoHost,
  MaxEdits,     \* bound: what the owner of the folders changes on his own
  Faulty        \* whether a host may die and a commit may fail

ASSUME PathAssumption == SourcePath \cap ArchivePath = {}
ASSUME NameAssumption ==
  /\ NoPath \notin FileContent \cup SourcePath \cup ArchivePath
  /\ Skip \notin SourcePath \cup ArchivePath
  /\ NoHost \notin Host
ASSUME EditBoundAssumption == MaxEdits \in Nat /\ Faulty \in BOOLEAN

Path == SourcePath \cup ArchivePath
Item == Run \X FileContent

VARIABLES
  disk,     \* what each path holds
  current,  \* document_locations: the current one of each document
  item,     \* organization_items: state and confirmed target
  writer,   \* holder of the write unit of work across a move
  phase,    \* where each host is
  todo,     \* items its call has confirmed and still has to archive
  edits,
  adrift,   \* history: documents whose move could not be recorded
  touched   \* history: paths the owner changed since a target was last re-read

db    == <<current, item>>
aside == <<edits, adrift, touched>>
vars  == <<disk, db, writer, phase, todo, aside>>

Doc(i) == i[2]
Source(i) == current[Doc(i)]
Target(i) == item[i].target

ItemRecord ==
  [state : {"absent", "pending", "confirmed", "skipped", "executed"},
   target : Path \cup {NoPath}]

\* A call is idle, has items left to archive, or is inside ArchiveSkill.execute
\* for one of them: before the move, after it, or with its target re-read.
Phase == [at : {"idle", "executing"}] \cup [at : {"checked", "moved", "reread"}, job : Item]

TypeOK ==
  /\ disk \in [Path -> FileContent \cup {NoPath}]
  /\ current \in [FileContent -> Path \cup {NoPath}]
  /\ item \in [Item -> ItemRecord]
  /\ \A i \in Item : item[i].state \in {"confirmed", "executed"} => Target(i) # NoPath
  /\ writer \in Host \cup {NoHost}
  /\ phase \in [Host -> Phase]
  /\ todo \in [Host -> SUBSET Item]
  /\ edits \in 0..MaxEdits
  /\ adrift \in SUBSET FileContent
  /\ touched \in SUBSET Path

Init ==
  /\ disk \in [Path -> FileContent \cup {NoPath}]
  /\ current = [c \in FileContent |-> NoPath]
  /\ item = [i \in Item |-> [state |-> "absent", target |-> NoPath]]
  /\ writer = NoHost
  /\ phase = [h \in Host |-> [at |-> "idle"]]
  /\ todo = [h \in Host |-> {}]
  /\ edits = 0
  /\ adrift = {}
  /\ touched = {}

-----------------------------------------------------------------------------
\* One write transaction for a new run over explicit files of the source
\* binding.  Files of equal content are one document and one item; the file
\* that comes last becomes its current location.
Prepare(r) ==
  /\ writer = NoHost
  /\ \A c \in FileContent : item[<<r, c>>].state = "absent"
  /\ \E files \in (SUBSET SourcePath) \ {{}} :
       /\ \A f \in files : disk[f] # NoPath
       /\ \E last \in [{disk[f] : f \in files} -> files] :
            /\ \A c \in DOMAIN last : disk[last[c]] = c
            /\ current' = [c \in FileContent |->
                 IF c \in DOMAIN last THEN last[c] ELSE current[c]]
            /\ item' = [i \in Item |->
                 IF i[1] = r /\ Doc(i) \in DOMAIN last
                 THEN [state |-> "pending", target |-> NoPath] ELSE item[i]]
  /\ UNCHANGED <<disk, writer, phase, todo, aside>>

\* confirm_item and skip_item: both leave a settled item alone, and skip_item
\* leaves a confirmed one alone too.
Decided(i, decision) ==
  CASE decision = Skip /\ item[i].state = "pending" ->
         [item[i] EXCEPT !.state = "skipped"]
    [] decision # Skip /\ item[i].state \in {"pending", "confirmed"} ->
         [state |-> "confirmed", target |-> decision]
    [] OTHER -> item[i]

\* The first transaction of execute_confirmed.  A decision is Skip or a target:
\* the proposed one or the user's own.  An item is scheduled whatever its state.
Confirm(h, r) ==
  /\ phase[h].at = "idle" /\ writer = NoHost
  /\ \E chosen \in SUBSET {i \in Item : i[1] = r /\ item[i].state # "absent"} :
     \E decision \in [chosen -> Path \cup {Skip}] :
       LET scheduled == {i \in chosen : decision[i] # Skip} IN
       /\ chosen # {}
       /\ item' = [i \in Item |->
            IF i \in chosen THEN Decided(i, decision[i]) ELSE item[i]]
       /\ todo' = [todo EXCEPT ![h] = scheduled]
       /\ phase' = [phase EXCEPT ![h].at =
            IF scheduled = {} THEN "idle" ELSE "executing"]
  /\ UNCHANGED <<disk, current, writer, aside>>

-----------------------------------------------------------------------------
\* ArchiveSkill.execute on one item.

\* Mutant: the target is not checked for an existing file.
MayMoveOver(i) ==
  /\ item[i].state = "confirmed"
  /\ Source(i) # NoPath /\ Target(i) \in ArchivePath
  /\ disk[Source(i)] = Doc(i)

MayMove(i) ==
  /\ item[i].state = "confirmed"
  /\ Source(i) # NoPath /\ Target(i) \in ArchivePath
  /\ disk[Source(i)] # NoPath
  /\ disk[Target(i)] = NoPath
  /\ disk[Source(i)] = Doc(i)

\* What is left of the call once item i has been dealt with.
Answer(h, i) ==
  /\ todo' = [todo EXCEPT ![h] = @ \ {i}]
  /\ phase' = [phase EXCEPT ![h] =
       [at |-> IF todo[h] = {i} THEN "idle" ELSE "executing"]]

\* Mutant: the checks run in a unit of work that takes no lock.
CheckUnlocked(h, i) ==
  /\ phase[h].at = "executing" /\ i \in todo[h] /\ MayMove(i)
  /\ phase' = [phase EXCEPT ![h] = [at |-> "checked", job |-> i]]
  /\ UNCHANGED <<disk, db, writer, todo, aside>>

Check(h, i) ==
  /\ phase[h].at = "executing" /\ i \in todo[h]
  /\ writer = NoHost /\ MayMove(i)
  /\ writer' = h
  /\ phase' = [phase EXCEPT ![h] = [at |-> "checked", job |-> i]]
  /\ UNCHANGED <<disk, db, todo, aside>>

Blocked(h, i) ==
  /\ phase[h].at = "executing" /\ i \in todo[h]
  /\ writer = NoHost /\ ~MayMove(i)
  /\ Answer(h, i)
  /\ UNCHANGED <<disk, db, writer, aside>>

\* The write lock is not had in time: the error ends the whole call, and the
\* items still scheduled stay confirmed.
Busy(h) ==
  /\ phase[h].at = "executing" /\ writer # NoHost
  /\ todo' = [todo EXCEPT ![h] = {}]
  /\ phase' = [phase EXCEPT ![h] = [at |-> "idle"]]
  /\ UNCHANGED <<disk, db, writer, aside>>

\* os.replace: it moves what the source holds now over what the target holds.
Move(h) ==
  /\ phase[h].at = "checked"
  /\ LET i == phase[h].job IN
     /\ disk[Source(i)] # NoPath
     /\ disk' = [disk EXCEPT ![Source(i)] = NoPath, ![Target(i)] = disk[Source(i)]]
  /\ phase' = [phase EXCEPT ![h].at = "moved"]
  /\ UNCHANGED <<db, writer, todo, aside>>

\* Mutant: the target is not compared with the hash of the document.
RereadUnread(h) ==
  /\ phase[h].at = "moved"
  /\ phase' = [phase EXCEPT ![h].at = "reread"]
  /\ touched' = {}
  /\ UNCHANGED <<disk, db, writer, todo, edits, adrift>>

\* The target is hashed again and found to be the document.  Nothing is recorded
\* yet, and nothing keeps the owner of the folders from the file.
Reread(h) ==
  /\ phase[h].at = "moved"
  /\ LET i == phase[h].job IN disk[Target(i)] = Doc(i)
  /\ phase' = [phase EXCEPT ![h].at = "reread"]
  /\ touched' = {}
  /\ UNCHANGED <<disk, db, writer, todo, edits, adrift>>

\* Mutant: complete_archive without record_location.
RecordItemOnly(h) ==
  /\ phase[h].at = "reread"
  /\ LET i == phase[h].job IN
     /\ item' = [item EXCEPT ![i].state = "executed"]
     /\ Answer(h, i)
  /\ writer' = NoHost
  /\ UNCHANGED <<disk, current, aside>>

\* record_location, complete_archive, commit, whatever the target holds by now.
\* When only closing or unlocking fails after that, the same is recorded.
Record(h) ==
  /\ phase[h].at = "reread"
  /\ LET i == phase[h].job IN
     /\ current' = [current EXCEPT ![Doc(i)] = Target(i)]
     /\ item' = [item EXCEPT ![i].state = "executed"]
     /\ Answer(h, i)
  /\ writer' = NoHost
  /\ UNCHANGED <<disk, aside>>

\* A move that was made is given up without its record.
Unrecorded(h) ==
  adrift' = adrift \cup (IF phase[h].at \in {"moved", "reread"} THEN {Doc(phase[h].job)} ELSE {})

\* RECONCILIATION_REQUIRED: nothing to move any more, another content at the
\* target, or an error before or after the move.  The database rolls back.
Reconcile(h) ==
  /\ \/ Faulty /\ phase[h].at \in {"checked", "moved", "reread"}
     \/ phase[h].at = "checked" /\ disk[Source(phase[h].job)] = NoPath
     \/ phase[h].at = "moved" /\ disk[Target(phase[h].job)] # Doc(phase[h].job)
  /\ Unrecorded(h)
  /\ Answer(h, phase[h].job)
  /\ writer' = NoHost
  /\ UNCHANGED <<disk, db, edits, touched>>

\* The process dies and is started again; SQLite rolls its transaction back.
Crash(h) ==
  /\ Faulty /\ phase[h].at # "idle"
  /\ Unrecorded(h)
  /\ writer' = IF writer = h THEN NoHost ELSE writer
  /\ todo' = [todo EXCEPT ![h] = {}]
  /\ phase' = [phase EXCEPT ![h] = [at |-> "idle"]]
  /\ UNCHANGED <<disk, db, edits, touched>>

\* The owner of the folders saves, copies or deletes a file.
OwnerEdit(p) ==
  /\ edits < MaxEdits
  /\ \E content \in FileContent \cup {NoPath} :
       disk[p] # content /\ disk' = [disk EXCEPT ![p] = content]
  /\ edits' = edits + 1
  /\ touched' = touched \cup {p}
  /\ UNCHANGED <<db, writer, phase, todo, adrift>>

Work(h) ==
  \/ \E i \in Item : Check(h, i) \/ Blocked(h, i)
  \/ Move(h) \/ Reread(h) \/ Record(h) \/ Reconcile(h)

Next ==
  \/ \E r \in Run : Prepare(r)
  \/ \E h \in Host : (\E r \in Run : Confirm(h, r)) \/ Work(h) \/ Busy(h) \/ Crash(h)
  \/ \E p \in Path : OwnerEdit(p)

Spec == Init /\ [][Next]_vars

-----------------------------------------------------------------------------
OnDisk == {disk[p] : p \in Path} \ {NoPath}

\* As long as nobody else edits the folders, no step takes a content off the
\* disk, whatever of the program collides, races, fails or dies.
NothingIsLost == [][edits' = 0 => OnDisk \subseteq OnDisk']_vars

\* An item becomes executed only where its document was read back, and what the
\* database now says of it is so unless the owner, who takes no lock, changed
\* that file since: no other call comes between the re-read and the commit.
ExecutedMeansThere ==
  [][\A i \in Item :
       item[i].state # "executed" /\ item'[i].state = "executed" =>
         /\ current'[Doc(i)] = item'[i].target
         /\ disk'[item'[i].target] = Doc(i) \/ item'[i].target \in touched]_vars

\* No later confirmation, skip, retry or restart reopens a settled item.
SettledStays ==
  [][\A i \in Item :
       item[i].state \in {"executed", "skipped"} => item'[i] = item[i]]_vars

\* What ArchiveSkill checked is still so when it moves, foreign edits apart: the
\* write lock keeps every other call away from the record, source and target.
StillMayMove ==
  \A h \in Host : phase[h].at = "checked" =>
    /\ writer = h /\ item[phase[h].job].state = "confirmed"
    /\ edits = 0 => MayMove(phase[h].job)

\* Foreign edits apart, every document is where the database says, but for the
\* one being moved and those whose move was reported as not recorded.
LocationsAreTrue ==
  edits = 0 => \A c \in FileContent : current[c] # NoPath =>
    \/ disk[current[c]] = c
    \/ \E h \in Host : phase[h].at \in {"moved", "reread"} /\ Doc(phase[h].job) = c
    \/ c \in adrift

=============================================================================
