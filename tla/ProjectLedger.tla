--------------------------- MODULE ProjectLedger ---------------------------
(***************************************************************************)
(* ProjectLedger: the two JSON files in the asset directory of a project,    *)
(* its ledger (facts, candidates, conflicts) and its archive manifest.  A    *)
(* call reads whole files, changes its copy and writes whole files back,     *)
(* with no lock and no staging: open(path, "w") empties a file before        *)
(* json.dump fills it.  ArchivePlan composes these steps into the calls that *)
(* make them.  Facts that agree on a field's value are compared by score;    *)
(* the overview page and the decision log repeat what the ledger holds.      *)
(***************************************************************************)
EXTENDS Naturals

CONSTANTS
  Host, Project, Field, Value,
  Threshold,   \* auto_accept_threshold of each field
  TopScore,    \* the score of a human correction; no other source reaches it
  Stage,       \* the facts record_archive_event derives from a project's place
  NoFact,      \* no current fact
  Emptied,     \* a file that was opened for writing and is not filled yet
  Torn,        \* a file that two calls filled, one over the other
  NoProject, NoRecord,
  Record       \* the entries of an archive manifest

ASSUME ScoreAssumption ==
  /\ TopScore \in Nat
  /\ Threshold \in [Field -> 0..TopScore]
ASSUME SentinelAssumption == NoProject \notin Project

Claim == [value : Value, score : 0..TopScore]
Fact  == [value : Value, score : 0..TopScore, verified : BOOLEAN]

\* A patch has one claim for each field it has a non-empty value for.
Patch == UNION {[fields -> Claim] : fields \in SUBSET Field}

Candidate == [field : Field, value : Value, score : 0..TopScore]
Conflict  == [field : Field, current : Value, candidate : Value]

Ledger ==
  [fact : [Field -> Fact \cup {NoFact}],
   candidates : SUBSET Candidate,
   conflicts : SUBSET Conflict]

Manifest == [files : SUBSET Record]

ASSUME NoFactAssumption == NoFact \notin Fact
ASSUME TornAssumption ==
  \A file \in {Emptied, Torn} : file \notin Ledger /\ file \notin Manifest
\* A derived fact has the score of its directory, which is fixed per project.
ASSUME StageAssumption ==
  /\ DOMAIN Stage = Project
  /\ \A p \in Project :
       /\ DOMAIN Stage[p] \subseteq Field
       /\ \A f \in DOMAIN Stage[p] : Stage[p][f] \in Fact

VARIABLES
  ledger,    \* project_ledger.json of each project
  manifest,  \* archive_manifest.json of each project
  op         \* the ledger call each host is in

ledgerVars == <<ledger, manifest, op>>

\* A call has its copy of the ledger (state) and of the manifest (files), and
\* the record it adds, if it is record_archive_event.
Call ==
  [at : {"idle", "loaded", "appending", "filling_manifest", "saving", "filling_ledger"},
   project : Project \cup {NoProject},
   state : Ledger, files : SUBSET Record,
   record : Record \cup {NoRecord}]

ASSUME NoRecordAssumption == NoRecord \notin Record

EmptyLedger ==
  [fact |-> [f \in Field |-> NoFact], candidates |-> {}, conflicts |-> {}]

NoCall ==
  [at |-> "idle", project |-> NoProject, state |-> EmptyLedger, files |-> {},
   record |-> NoRecord]

LedgerTypeOK ==
  /\ ledger \in [Project -> Ledger \cup {Emptied, Torn}]
  /\ manifest \in [Project -> Manifest \cup {Emptied, Torn}]
  /\ op \in [Host -> Call]
  /\ \A h \in Host : op[h].at # "idle" => op[h].project \in Project
  /\ \A h \in Host : op[h].at \in {"loaded", "appending", "filling_manifest"}
                       => op[h].record \in Record

LedgerInit ==
  /\ ledger = [p \in Project |-> EmptyLedger]
  /\ manifest = [p \in Project |-> [files |-> {}]]
  /\ op = [h \in Host |-> NoCall]

-----------------------------------------------------------------------------
\* _reconcile_field.

Marked(claim, verified) ==
  [value |-> claim.value, score |-> claim.score, verified |-> verified]

\* The first claim on a field becomes its fact, whatever its score.  A claim of
\* the same value raises the score; one of another value has to have the higher
\* score and to reach the threshold.
Reconciled(f, now, claim) ==
  LET good == claim.score >= Threshold[f]
      better == IF now.value = claim.value THEN claim.score >= now.score
                ELSE claim.score > now.score /\ good
  IN IF now = NoFact THEN Marked(claim, good)
     ELSE IF better THEN Marked(claim, TRUE) ELSE now

\* Mutant: a claim that overrides a fact leaves no conflict.
DisputedIfKept(state, patch) ==
  {f \in DOMAIN patch : state.fact[f] # NoFact
     /\ Reconciled(f, state.fact[f], patch[f]).value # patch[f].value}

\* The fields on which a patch contradicts the ledger.
Disputed(state, patch) ==
  {f \in DOMAIN patch : state.fact[f] # NoFact
     /\ state.fact[f].value # patch[f].value}

\* apply_patch on the copy: each claim is kept as a candidate, and each one that
\* contradicts the current fact leaves a conflict, whichever of them prevails.
Patched(state, patch) ==
  [fact |-> [f \in Field |->
     IF f \in DOMAIN patch THEN Reconciled(f, state.fact[f], patch[f])
     ELSE state.fact[f]],
   candidates |-> state.candidates \cup
     {[field |-> f, value |-> patch[f].value, score |-> patch[f].score]
        : f \in DOMAIN patch},
   conflicts |-> state.conflicts \cup
     {[field |-> f, current |-> state.fact[f].value, candidate |-> patch[f].value]
        : f \in Disputed(state, patch)}]

\* record_archive_event on the copy: the place of the project tells its stage,
\* unless the ledger already knows it.
Staged(p, state) ==
  [fact |-> [f \in Field |->
     IF f \in DOMAIN Stage[p] /\ state.fact[f] = NoFact
     THEN Stage[p][f] ELSE state.fact[f]],
   candidates |-> state.candidates,
   conflicts |-> state.conflicts]

-----------------------------------------------------------------------------
\* The steps of a call.  A file that is not JSON raises where it is read; the
\* call is then left like one whose process dies (DropCall).
Idle(h) == op[h].at = "idle"

Readable(file) == file \notin {Emptied, Torn}

\* What a call leaves that fills a file with its content: the file may have been
\* filled by another since it was emptied, and the end of a longer one stays.
Filled(file, content) ==
  {content} \cup (IF file = Emptied THEN {} ELSE {Torn})

BeginPatch(h, p, patch) ==
  /\ Idle(h) /\ Readable(ledger[p])
  /\ op' = [op EXCEPT ![h] = [at |-> "saving", project |-> p,
       state |-> Patched(ledger[p], patch), files |-> {}, record |-> NoRecord]]
  /\ UNCHANGED <<ledger, manifest>>

BeginRecord(h, p, record) ==
  /\ Idle(h) /\ Readable(ledger[p])
  /\ op' = [op EXCEPT ![h] = [at |-> "loaded", project |-> p,
       state |-> Staged(p, ledger[p]), files |-> {}, record |-> record]]
  /\ UNCHANGED <<ledger, manifest>>

\* Mutant: the manifest is started anew instead of loaded.
LoadManifestAnew(h) ==
  /\ op[h].at = "loaded" /\ Readable(manifest[op[h].project])
  /\ op' = [op EXCEPT ![h].at = "appending", ![h].files = {op[h].record}]
  /\ UNCHANGED <<ledger, manifest>>

LoadManifest(h) ==
  /\ op[h].at = "loaded" /\ Readable(manifest[op[h].project])
  /\ op' = [op EXCEPT ![h].at = "appending",
                      ![h].files = manifest[op[h].project].files \cup {op[h].record}]
  /\ UNCHANGED <<ledger, manifest>>

EmptyManifest(h) ==
  /\ op[h].at = "appending"
  /\ manifest' = [manifest EXCEPT ![op[h].project] = Emptied]
  /\ op' = [op EXCEPT ![h].at = "filling_manifest"]
  /\ UNCHANGED ledger

FillManifest(h) ==
  /\ op[h].at = "filling_manifest"
  /\ \E written \in Filled(manifest[op[h].project], [files |-> op[h].files]) :
       manifest' = [manifest EXCEPT ![op[h].project] = written]
  /\ op' = [op EXCEPT ![h].at = "saving"]
  /\ UNCHANGED ledger

EmptyLedgerFile(h) ==
  /\ op[h].at = "saving"
  /\ ledger' = [ledger EXCEPT ![op[h].project] = Emptied]
  /\ op' = [op EXCEPT ![h].at = "filling_ledger"]
  /\ UNCHANGED manifest

\* The call returns.
FillLedgerFile(h) ==
  /\ op[h].at = "filling_ledger"
  /\ \E written \in Filled(ledger[op[h].project], op[h].state) :
       ledger' = [ledger EXCEPT ![op[h].project] = written]
  /\ op' = [op EXCEPT ![h] = NoCall]
  /\ UNCHANGED manifest

DropCall(h) ==
  /\ op' = [op EXCEPT ![h] = NoCall]
  /\ UNCHANGED <<ledger, manifest>>

\* The steps between a call's first and its last.
SaveStep(h) ==
  LoadManifest(h) \/ EmptyManifest(h) \/ FillManifest(h) \/ EmptyLedgerFile(h)

-----------------------------------------------------------------------------
\* Nothing a claim said is dropped: its value is the field's fact, or a conflict
\* names it (_reconcile_field with _conflict, on every copy and in every file).
Accounted(state) ==
  \A c \in state.candidates :
    /\ state.fact[c.field] # NoFact
    /\ \/ state.fact[c.field].value = c.value
       \/ \E k \in state.conflicts :
            k.field = c.field /\ c.value \in {k.current, k.candidate}

\* A fact is at least as good as every claim that reached its threshold; so a
\* human correction is beaten by no extracted claim, before or after it.
BestClaim(state) ==
  \A c \in state.candidates :
    c.score >= Threshold[c.field] =>
      /\ state.fact[c.field] # NoFact
      /\ state.fact[c.field].score >= c.score

\* A second look at claims: whatever order calls and losses come in, a ledger
\* that can be read accounts for its candidates and holds the best of them.
LedgersAreSound ==
  \A p \in Project : Readable(ledger[p]) =>
    Accounted(ledger[p]) /\ BestClaim(ledger[p])
=============================================================================
