--------------------------- MODULE InterpretedRun ---------------------------
(***************************************************************************)
(* One call that prepares a file-organization run when storage bindings are  *)
(* configured.  The run directory is claimed and registered; each file is    *)
(* read once into a private snapshot while others may edit, replace, remove  *)
(* or put it back; the snapshot is parsed, judged and turned into an intent; *)
(* and the artifacts of the run are saved one after the other.               *)
(***************************************************************************)
EXTENDS DocumentInterpretation, NativeExtraction, Naturals

CONSTANTS
  Path,      \* the files of the business root
  Content,   \* what a file can hold
  Facts,     \* the candidate fields that a content is parsed to
  Forms,     \* what a file with that content may be: its name gives the kind
  Adapters,  \* the OCR adapters that may be configured
  Engines,   \* what the OCR engines may do with a file
  Input,     \* the files the call is given, in order
  MaxItems,  \* how many items a review queue may have
  MaxEdits,  \* bound: changes of the files while the call runs
  Faulty,    \* whether writes fail and the process may die
  None

ASSUME InputAssumption ==
  /\ Input \in Seq(Path)
  /\ Facts \in [Content -> [Field -> UNION {{c.holds[f] : f \in Field} : c \in Catalog}
                                     \cup {Absent}]]
ASSUME ReaderAssumption ==
  /\ Adapters \subseteq {"default", "custom", "disabled"}
  /\ \A c \in Content : \A form \in Forms[c] : form.layer \in Outcome /\ form.phased \in BOOLEAN
  /\ \A e \in Engines : {e.rapidocr, e.easyocr, e.custom} \subseteq Outcome /\ e.fitz \in BOOLEAN
\* A file that was there before the call has an inode that no later one gets, and what
\* there is none of is no intent.
ASSUME InodeAssumption == \A p \in Path : p \notin Nat
ASSUME NoneAssumption  ==
  None \notin [source : Path, hash : Content, id : Content, status : {"blocked", "needs_review"}]
ASSUME BoundAssumption == {MaxEdits, MaxItems} \subseteq Nat /\ Faulty \in BOOLEAN

VARIABLES
  disk,    \* the file at each path: its inode, its modification stamp, its content
  aside,   \* the file that was moved away from each path
  edits,
  call,    \* where the call stands and what it has read of the current file
  work,    \* what it has gathered, in memory
  run      \* what it has left in the run directory and in the registry

runVars == <<disk, aside, edits, call, work, run>>

File(inode, stamp, content) == [inode |-> inode, stamp |-> stamp, content |-> content]
Live == {"claim", "register", "identify", "bind", "stat", "open", "read", "snapshot",
         "extract", "judge", "queue", "save"}
NoWork == [manifest |-> <<>>, entries |-> <<>>, intents |-> <<>>, actions |-> <<>>,
           failures |-> <<>>]

RunInit ==
  /\ \E held \in [Path -> Content] : disk = [p \in Path |-> File(p, 0, held[p])]
  /\ aside = [p \in Path |-> None]
  /\ edits = 0
  /\ \E a \in Adapters :
       call = [at |-> "claim", n |-> 1, status |-> None, adapter |-> a,
               before |-> None, stream |-> None, bytes |-> None, text |-> None]
  /\ work = NoWork
  /\ run = [made |-> FALSE, registered |-> FALSE, extracted |-> <<>>, saved |-> {}]

-----------------------------------------------------------------------------
(* Other programs at work on the same files *)

Others(p) == edits < MaxEdits /\ edits' = edits + 1 /\ UNCHANGED <<call, work, run>>

\* In place, which moves the modification time on.
Edit(p, c) ==
  /\ Others(p) /\ disk[p] # None
  /\ disk' = [disk EXCEPT ![p] = File(@.inode, edits + 1, c)]
  /\ UNCHANGED aside

\* A new file takes the path, and the old one is kept elsewhere.
Replace(p, c) ==
  /\ Others(p)
  /\ disk' = [disk EXCEPT ![p] = File(edits + 1, edits + 1, c)]
  /\ aside' = [aside EXCEPT ![p] = disk[p]]

Remove(p) ==
  /\ Others(p) /\ disk[p] # None
  /\ disk' = [disk EXCEPT ![p] = None]
  /\ aside' = [aside EXCEPT ![p] = disk[p]]

PutBack(p) ==
  /\ Others(p) /\ aside[p] # None
  /\ disk' = [disk EXCEPT ![p] = aside[p]]
  /\ aside' = [aside EXCEPT ![p] = None]

-----------------------------------------------------------------------------
(* The call, file by file *)

Source == Input[call.n]
At(where) == call.at = where
Moves(where) == call' = [call EXCEPT !.at = where]

\* The step reads the disk, and leaves it and the run directory alone.
Reading == UNCHANGED <<disk, aside, edits, run>>

Raise == Moves("raised") /\ UNCHANGED <<disk, aside, edits, work, run>>

NextFile ==
  call' = [call EXCEPT !.n = @ + 1, !.at = IF call.n < Len(Input) THEN "identify" ELSE "queue",
                       !.before = None, !.stream = None, !.bytes = None, !.text = None]

Action(source, blockers, intent) ==
  [status |-> "needs_review", confirmed |-> FALSE, source |-> source,
   blockers |-> blockers, intent |-> intent]

\* _review_only_archive_action for a file that cannot be used: one failure, one action.
Blocks(source, code) ==
  /\ work' = [work EXCEPT !.failures = Append(@, [n |-> call.n, source |-> source, code |-> code]),
                          !.actions = Append(@, Action(source, {code}, None))]
  /\ NextFile

ClaimRunDirectory ==
  /\ At("claim")
  /\ run' = [run EXCEPT !.made = TRUE] /\ Moves("register")
  /\ UNCHANGED <<disk, aside, edits, work>>

Register ==
  /\ At("register")
  /\ run' = [run EXCEPT !.registered = TRUE]
  /\ Moves(IF Input = <<>> THEN "queue" ELSE "identify")
  /\ UNCHANGED <<disk, aside, edits, work>>

Identify ==
  /\ At("identify") /\ Reading
  /\ IF disk[Source] = None THEN Blocks(None, "READ_FAILED")
                            ELSE Moves("bind") /\ UNCHANGED work

\* Whether a path has one binding, several or none depends on the bindings alone.
Bind ==
  /\ At("bind") /\ Reading
  /\ \/ Moves("stat") /\ UNCHANGED work
     \/ \E code \in {"AMBIGUOUS", "NOT_FOUND"} : Blocks(None, code)

\* _read_source_snapshot: here the error of a file that has gone is an OSError, which
\* the caller does not catch.
Stat ==
  /\ At("stat")
  /\ IF disk[Source] = None THEN Raise
     ELSE /\ call' = [call EXCEPT !.at = "open", !.before = disk[Source]]
          /\ Reading /\ UNCHANGED work

Identity(f) == <<f.inode, f.stamp>>

OpenUncompared(source, before) ==
  IF disk[source] = None THEN "READ_FAILED" ELSE "opened"
Opened(source, before) ==
  IF disk[source] = None THEN "READ_FAILED"
  ELSE IF disk[source].inode # before.inode THEN "REPLACED" ELSE "opened"

Open ==
  /\ At("open") /\ Reading
  /\ LET outcome == Opened(Source, call.before) IN
     IF outcome = "opened"
     THEN call' = [call EXCEPT !.at = "read", !.stream = disk[Source]] /\ UNCHANGED work
     ELSE Blocks(Source, outcome)

\* The stream holds on to the inode it was opened on, wherever that is by now.
BytesOf(p, stream) ==
  LET now == {f \in {disk[p], aside[p]} \ {None} : f.inode = stream.inode}
  IN IF now = {} THEN stream.content ELSE (CHOOSE f \in now : TRUE).content

\* A file of more than 16 MiB is not taken.
Read ==
  /\ At("read") /\ Reading
  /\ \/ Blocks(Source, "SIZE_LIMIT")
     \/ /\ call' = [call EXCEPT !.at = "snapshot", !.bytes = BytesOf(Source, call.stream)]
        /\ UNCHANGED work

Snapshot ==
  /\ At("snapshot")
  /\ IF disk[Source] = None THEN Raise
     ELSE /\ Reading
          /\ IF Identity(disk[Source]) # Identity(call.before)
             THEN Blocks(Source, "REPLACED")
             ELSE Moves("extract") /\ UNCHANGED work

\* The source is looked at again after its snapshot has been parsed.
Stale(source, before) == disk[source] = None \/ Identity(disk[source]) # Identity(before)

\* f with a value for key, in place of the one it may have had.
Extended(f, key, value) ==
  [k \in DOMAIN f \cup {key} |-> IF k = key THEN value ELSE f[k]]

\* What is parsed is the snapshot.  A result that is accepted enters the manifest, and
\* its artifact is named by the hash: equal bytes of two files share one.
Extract ==
  /\ At("extract") /\ UNCHANGED <<disk, aside, edits>>
  /\ \E form \in Forms[call.bytes], e \in Engines :
       LET extracted == ExtractDocument(form, call.adapter, e) IN
       IF Stale(Source, call.before) THEN Blocks(Source, "REPLACED") /\ UNCHANGED run
       ELSE IF ~Acceptable(extracted)
       THEN Blocks(Source, Refusal(extracted)) /\ UNCHANGED run
       ELSE /\ work' = [work EXCEPT !.manifest =
                          Append(@, [source |-> Source, hash |-> call.bytes])]
            /\ run' = [run EXCEPT !.extracted = Extended(@, call.bytes, Source)]
            /\ call' = [call EXCEPT !.at = "judge", !.text = extracted.text]

-----------------------------------------------------------------------------
(* Judgement: retrieval, interpretation, intent *)

\* _interpretation_blockers, but for those of a doubtful classification; no target is
\* ever chosen here, so none is ever resolved.
Blockers(ctx, out) ==
  {"TARGET_UNRESOLVED"}
  \cup (IF ctx.status = "matched" THEN {} ELSE {"CONTEXT_" \o ctx.status})
  \cup (ctx.diagnostics \ {"CANDIDATES_FOUND"})
  \cup (IF out.status = "blocked" THEN {out.reason} ELSE {})
  \cup (IF out.status = "needs_review" \/ out.relations # {} THEN {"NEEDS_REVIEW"} ELSE {})

Contexts(hash) ==
  {NormalizeContext(FindBusinessCandidates(Facts[hash], fails)) : fails \in BOOLEAN}
  \cup {BlockedContext("NO_CANDIDATES")}  \* no retrieval service, or it raised

Entry(source, hash, out) == [source |-> source, hash |-> hash, out |-> out]
Intent(source, hash, ctx, out) ==
  [source |-> source, hash |-> hash, id |-> hash,
   status |-> IF "blocked" \in {ctx.status, out.status} THEN "blocked" ELSE "needs_review"]

Judge ==
  /\ At("judge") /\ Reading
  /\ \E ctx \in Contexts(call.bytes), r \in InterpreterReply, enabled \in BOOLEAN :
       LET out    == FixedContextInterpretation(enabled, r, call.text, ctx)
           intent == Intent(Source, call.bytes, ctx, out)
       IN work' = [work EXCEPT
            !.entries = Append(@, Entry(Source, call.bytes, out)),
            !.intents = Append(@, intent),
            !.actions = Append(@, Action(Source, Blockers(ctx, out), intent))]
  /\ NextFile

-----------------------------------------------------------------------------
(* The artifacts of the run, and how the call ends *)

\* One item for a file that failed, two for one that was judged; a queue with too many
\* raises.
ReviewItems == Len(work.failures) + 2 * Len(work.intents)

NormalizeReviewQueue ==
  /\ At("queue") /\ UNCHANGED <<disk, aside, edits, work, run>>
  /\ IF ReviewItems > MaxItems THEN Moves("raised") ELSE Moves("save")

PlanFirst == <<"planned_archive_actions", "input_manifest", "candidate_interpretations",
               "archive_intents", "review_queue", "trace">>
SaveOrder == <<"input_manifest", "candidate_interpretations", "archive_intents",
               "review_queue", "planned_archive_actions", "trace">>

\* What each artifact holds no longer changes once the last file is done.
Artifacts(order, k) == {order[j] : j \in 1..k}
NextArtifact(saved) == CHOOSE k \in 1..Len(SaveOrder) : saved = Artifacts(SaveOrder, k - 1)

RunStatus ==
  IF work.intents = <<>> THEN "failed"
  ELSE IF work.failures = <<>> THEN "success" ELSE "partial"

Save ==
  /\ At("save")
  /\ LET k == NextArtifact(run.saved) IN
     /\ run' = [run EXCEPT !.saved = @ \cup {SaveOrder[k]}]
     /\ call' = IF k = Len(SaveOrder)
                THEN [call EXCEPT !.at = "returned", !.status = RunStatus] ELSE call
  /\ UNCHANGED <<disk, aside, edits, work>>

\* A write that fails raises: of the directory, the registration, a snapshot, an artifact.
WriteFails ==
  /\ Faulty /\ call.at \in {"claim", "register", "snapshot", "extract", "save"}
  /\ Raise

Die ==
  /\ Faulty /\ call.at \in Live
  /\ Moves("died") /\ UNCHANGED <<disk, aside, edits, work, run>>

Step ==
  \/ ClaimRunDirectory \/ Register \/ Identify \/ Bind \/ Stat \/ Open \/ Read
  \/ Snapshot \/ Extract \/ Judge \/ NormalizeReviewQueue \/ Save

RunNext ==
  \/ Step \/ WriteFails \/ Die
  \/ \E p \in Path : Remove(p) \/ PutBack(p) \/ \E c \in Content : Edit(p, c) \/ Replace(p, c)

RunSpec == RunInit /\ [][RunNext]_runVars

-----------------------------------------------------------------------------
(* Properties *)

\* A document enters the run only with the bytes that its path holds at that moment,
\* though it was read some steps earlier and files were edited, replaced, removed and
\* put back meanwhile (_read_source_snapshot and the second look after the parsing).
BoundToItsBytes ==
  [][\A k \in DOMAIN work'.manifest \ DOMAIN work.manifest :
       LET document == work'.manifest[k] IN
       disk[document.source] # None /\ disk[document.source].content = document.hash]_runVars

\* Whatever the interpreter replied, each relation kept is to a record of the catalog
\* that agrees with the document in a field the result cites, contradicts it in no
\* identifying field, and is left to a reviewer (DocumentInterpretationService).
RelationsAreTraced ==
  \A k \in DOMAIN work.entries :
    LET entry == work.entries[k] IN
    \A target \in entry.out.relations :
      /\ \E c \in Catalog, f \in Field :
           /\ c.id = target /\ <<target, f>> \in entry.out.evidence
           /\ Same(Facts[entry.hash], c, f)
           /\ \A g \in Identifying : ~Different(Facts[entry.hash], c, g)
      /\ entry.out.status = "needs_review" /\ ~entry.out.confirmed

\* From the moment the plan is on disk, dead or alive, it answers every file the call
\* was given, once and in order: by a blocker, or by an intent that the manifest, the
\* interpretations, the intents and the extracted document beside it bear out.  No
\* action of it is free of blockers, and the run is registered as not executable.
PlanAnswersEveryFile ==
  "planned_archive_actions" \in run.saved =>
    /\ run.registered /\ Len(work.actions) = Len(Input)
    /\ \A k \in DOMAIN Input :
         LET action == work.actions[k] IN
         /\ action.blockers # {} /\ action.source \in {None, Input[k]}
         /\ IF action.intent = None
            THEN \E j \in DOMAIN work.failures : work.failures[j].n = k
            ELSE /\ {"input_manifest", "candidate_interpretations", "archive_intents",
                     "review_queue"} \subseteq run.saved
                 /\ action.intent.source = Input[k]
                 /\ action.intent.hash \in DOMAIN run.extracted
                 /\ \E j \in DOMAIN work.entries :
                      /\ work.intents[j] = action.intent
                      /\ work.entries[j].hash = action.intent.hash
                      /\ work.manifest[j] = [source |-> Input[k], hash |-> action.intent.hash]
    /\ call.at = "returned" =>
         (call.status = "success" <=>
            Input # <<>> /\ \A k \in DOMAIN Input : work.actions[k].intent # None)
=============================================================================
