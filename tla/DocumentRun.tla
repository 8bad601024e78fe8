---------------------------- MODULE DocumentRun ----------------------------
(***************************************************************************)
(* The document management agent: a call of prepare parses the files it is   *)
(* given, publishes a result for each and a summary of all, and records what *)
(* it has published, all within one unit of work that commits last.  Calls   *)
(* of several processes meet, files are edited meanwhile, and every step may *)
(* fail.                                                                     *)
(***************************************************************************)
EXTENDS UnitOfWork, FileParse, Naturals

CONSTANTS
  File,      \* the files of the selected source binding
  Input,     \* the files each call is given, in order
  MaxEdits,  \* bound: files that change while calls run
  Faulty     \* whether writes, commits and closings fail and processes die

ASSUME InputAssumption == \A u \in Unit : Input[u] \in Seq(File) /\ Input[u] # <<>>
ASSUME BoundAssumption == MaxEdits \in Nat /\ Faulty \in BOOLEAN

VARIABLES
  disk,       \* what each file holds
  published,  \* the results root: what each path below runs/ holds
  call,       \* the call that each unit of work belongs to
  edits

vars == <<uowVars, disk, published, call, edits>>

\* A run has the identity of its unit of work, and a document that of its content:
\* both ids are fresh, and content_hash is unique.
DocumentKind == {"document_json", "review_markdown"}
DocumentPath(r, d, kind) == <<r, d, kind>>
RunPath(r, kind)         == <<r, kind>>

Ended == {"refused", "returned", "raised", "raised_late", "died"}
Pc == Ended \cup {"start", "create", "hash", "read", "record", "json", "review", "item",
                  "run_json", "summary", "commit", "close", "exit", "unwind", "unwind_late"}

NoParse == Parsed(Gone, "needs_review", Gone, <<>>)
NewCall == [at |-> "start", n |-> 1, parse |-> NoParse, results |-> <<>>]

\* The tables documents with document_locations, document_artifacts, organization_items
\* and organization_runs.
NoRecords == [documents |-> <<>>, artifacts |-> {}, items |-> {}, runs |-> {}]

Init ==
  /\ UowInit(NoRecords)
  /\ disk \in [File -> Content \cup {Gone}]
  /\ published = <<>>
  /\ call = [r \in Unit |-> NewCall]
  /\ edits = 0

DocumentResult ==
  [source : File, parse : Parse, facts : {"none", "invoice", "unknown"},
   action : {"no_archive"}]

Call == [at : Pc, n : Nat, parse : Parse, results : Seq(DocumentResult)]

Row      == [source : File, status : {"success", "needs_review"}]
Artifact == [run : Unit, document : Content, kind : DocumentKind, body : DocumentResult]
Records  == [documents : UNION {[D -> Row] : D \in SUBSET Content},
             artifacts : SUBSET Artifact, items : SUBSET (Unit \X Content),
             runs : SUBSET Unit]

TypeOK ==
  /\ state \in [Unit -> UowState] /\ open \subseteq Unit /\ lease \in Unit \cup {Free}
  /\ {stored, staged} \subseteq Records
  /\ disk \in [File -> Content \cup {Gone}]
  /\ call \in [Unit -> Call] /\ \A r \in Unit : call[r].n \in 1..(Len(Input[r]) + 1)
  /\ edits \in 0..MaxEdits

\* A function, or a table, with a new or another value for one argument.
Put(f, x, v) == [y \in DOMAIN f \cup {x} |-> IF y = x THEN v ELSE f[y]]

Source(r) == Input[r][call[r].n]
Moves(r, at) == call' = [call EXCEPT ![r].at = at]
OneResult(r) == Result(Source(r), call[r].parse)

-----------------------------------------------------------------------------
\* prepare begins: the unit of work is entered, or that raises.
Begin(r) ==
  /\ call[r].at = "start"
  /\ \/ Enter(r) /\ Moves(r, "create")
     \/ EnterFails(r) /\ Moves(r, "refused")
  /\ UNCHANGED <<disk, published, edits>>

CreateRun(r) ==
  /\ call[r].at = "create"
  /\ Stage(r, [staged EXCEPT !.runs = @ \cup {r}])
  /\ Moves(r, "hash")
  /\ UNCHANGED <<disk, published, edits>>

\* DocumentParseSkill.parse, first half: a file that is not there has no hash, with
\* which its document cannot be recorded.
Hash(r) ==
  /\ call[r].at = "hash"
  /\ IF disk[Source(r)] = Gone THEN Moves(r, "unwind")
     ELSE call' = [call EXCEPT ![r].at = "read",
                               ![r].parse = [NoParse EXCEPT !.hash = disk[Source(r)]]]
  /\ UNCHANGED <<uowVars, disk, published, edits>>

\* The second half opens the file anew.
Read(r) ==
  /\ call[r].at = "read"
  /\ \E p \in Parses(call[r].parse.hash, disk[Source(r)]) :
       call' = [call EXCEPT ![r].at = "record", ![r].parse = p]
  /\ UNCHANGED <<uowVars, disk, published, edits>>

\* Mutant: a document that has a row keeps it.
RecordFirst(r) ==
  /\ call[r].at = "record"
  /\ LET p == call[r].parse
         row == [source |-> Source(r), status |-> p.status]
     IN  Stage(r, [staged EXCEPT !.documents =
                     IF p.hash \in DOMAIN @ THEN @ ELSE Put(@, p.hash, row)])
  /\ Moves(r, "json")
  /\ UNCHANGED <<disk, published, edits>>

\* upsert_document, and record_location of a current location.
RecordDocument(r) ==
  /\ call[r].at = "record"
  /\ LET p == call[r].parse
         row == [source |-> Source(r), status |-> p.status]
     IN  Stage(r, [staged EXCEPT !.documents = Put(@, p.hash, row)])
  /\ Moves(r, "json")
  /\ UNCHANGED <<disk, published, edits>>

-----------------------------------------------------------------------------
\* RunArtifactStore._publish: a path that holds these bytes is published already.  The
\* check and the write are one step: no other call has this run's paths.
Publish(path, body) ==
  /\ path \in DOMAIN published => published[path] = body
  /\ published' = Put(published, path, body)

PublishJson(r) ==
  /\ call[r].at = "json"
  /\ Publish(DocumentPath(r, call[r].parse.hash, "document_json"), OneResult(r))
  /\ Moves(r, "review")
  /\ UNCHANGED <<uowVars, disk, edits>>

PublishReview(r) ==
  /\ call[r].at = "review"
  /\ Publish(DocumentPath(r, call[r].parse.hash, "review_markdown"), OneResult(r))
  /\ Moves(r, "item")
  /\ UNCHANGED <<uowVars, disk, edits>>

\* A path that holds other bytes: ArtifactConflictError.
Conflicts(r) ==
  /\ call[r].at = "json"
  /\ LET path == DocumentPath(r, call[r].parse.hash, "document_json")
     IN  path \in DOMAIN published /\ published[path] # OneResult(r)
  /\ Moves(r, "unwind")
  /\ UNCHANGED <<uowVars, disk, published, edits>>

\* record_artifact for both, record_item, and the next file.
RecordItem(r) ==
  /\ call[r].at = "item"
  /\ LET d == call[r].parse.hash
         artifacts == {[run |-> r, document |-> d, kind |-> k, body |-> OneResult(r)]
                        : k \in DocumentKind}
     IN  Stage(r, [staged EXCEPT !.artifacts = @ \cup artifacts, !.items = @ \cup {<<r, d>>}])
  /\ call' = [call EXCEPT ![r] =
       [at |-> IF @.n < Len(Input[r]) THEN "hash" ELSE "run_json", n |-> @.n + 1,
        parse |-> NoParse, results |-> Append(@.results, OneResult(r))]]
  /\ UNCHANGED <<disk, published, edits>>

\* publish_run
PublishRunJson(r) ==
  /\ call[r].at = "run_json"
  /\ Publish(RunPath(r, "run_json"), call[r].results)
  /\ Moves(r, "summary")
  /\ UNCHANGED <<uowVars, disk, edits>>

PublishSummary(r) ==
  /\ call[r].at = "summary"
  /\ Publish(RunPath(r, "run_summary"), call[r].results)
  /\ Moves(r, "commit")
  /\ UNCHANGED <<uowVars, disk, edits>>

-----------------------------------------------------------------------------
\* Mutant: what the last of the files left is committed before the run is published.
CommitBefore(r) ==
  /\ call[r].at \in {"run_json", "commit"}
  /\ \/ CommitTransaction(r) /\ UNCHANGED call
     \/ call[r].at = "commit" /\ state[r] = "COMMITTED" /\ Moves(r, "close") /\ UNCHANGED uowVars
  /\ UNCHANGED <<disk, published, edits>>

Commit(r) ==
  /\ call[r].at = "commit"
  /\ CommitTransaction(r)
  /\ Moves(r, "close")
  /\ UNCHANGED <<disk, published, edits>>

\* The rest of commit may raise, after the transaction has committed.
Close(r) ==
  /\ call[r].at = "close"
  /\ Released(r)
  /\ \/ Moves(r, "exit")
     \/ Faulty /\ Moves(r, "unwind_late")
  /\ UNCHANGED <<disk, published, edits>>

Leave(r) ==
  /\ call[r].at \in {"exit", "unwind", "unwind_late"}
  /\ Exit(r)
  /\ Moves(r, CASE call[r].at = "exit" -> "returned"
                [] call[r].at = "unwind" -> "raised"
                [] call[r].at = "unwind_late" -> "raised_late")
  /\ UNCHANGED <<disk, published, edits>>

\* A statement, a file or the commit fails.  A write is whole or none: a temporary
\* file takes the place of the target.
Fails(r) ==
  /\ Faulty
  /\ call[r].at \notin Ended \cup {"start", "close", "exit", "unwind", "unwind_late"}
  /\ Moves(r, "unwind")
  /\ UNCHANGED <<uowVars, disk, published, edits>>

Dies(r) ==
  /\ Faulty
  /\ call[r].at \notin Ended
  /\ UnitDies(r)
  /\ Moves(r, "died")
  /\ UNCHANGED <<disk, published, edits>>

\* The owner of the folder edits, adds or removes a file.
Edit ==
  /\ edits < MaxEdits
  /\ edits' = edits + 1
  /\ \E f \in File, c \in Content \cup {Gone} :
       c # disk[f] /\ disk' = [disk EXCEPT ![f] = c]
  /\ UNCHANGED <<uowVars, published, call>>

Next ==
  \/ \E r \in Unit :
       \/ Begin(r) \/ CreateRun(r) \/ Hash(r) \/ Read(r) \/ RecordDocument(r)
       \/ PublishJson(r) \/ PublishReview(r) \/ Conflicts(r) \/ RecordItem(r)
       \/ PublishRunJson(r) \/ PublishSummary(r)
       \/ Commit(r) \/ Close(r) \/ Leave(r) \/ Fails(r) \/ Dies(r)
  \/ Edit

Spec == Init /\ [][Next]_vars

-----------------------------------------------------------------------------
\* What the database has of a run is published, and whole: a result of each file in
\* the order of the call, the same in run.json, in document.json and review.md, and
\* one item and two artifacts recorded of each document; and the row of a document
\* is what the document.json of some run in the database says.
RunsAreWhole ==
  /\ \A r \in stored.runs :
       /\ {RunPath(r, "run_json"), RunPath(r, "run_summary")} \subseteq DOMAIN published
       /\ LET results == published[RunPath(r, "run_json")]
              Of(s) == s.parse.hash
              all == {results[i] : i \in DOMAIN results}
          IN  /\ DOMAIN results = DOMAIN Input[r]
              /\ \A i \in DOMAIN results : results[i].source = Input[r][i]
              /\ published[RunPath(r, "run_summary")] = results
              /\ \A s \in all, k \in DocumentKind :
                   published[DocumentPath(r, Of(s), k)] = s
              /\ {a \in stored.artifacts : a.run = r} =
                   {[run |-> r, document |-> Of(s), kind |-> k, body |-> s]
                     : s \in all, k \in DocumentKind}
              /\ {i \in stored.items : i[1] = r} = {<<r, Of(s)>> : s \in all}
  /\ \A d \in DOMAIN stored.documents : \E r \in stored.runs :
       LET path == DocumentPath(r, d, "document_json")
       IN  /\ path \in DOMAIN published
           /\ stored.documents[d] = [source |-> published[path].source,
                                     status |-> published[path].parse.status]

\* Whoever calls knows what happened: a call that returns is recorded, one that
\* raises is not, unless it raised while it closed what it had committed.
OutcomeIsHonest ==
  \A r \in Unit :
    /\ call[r].at \in {"returned", "raised_late"} => r \in stored.runs
    /\ call[r].at \in {"refused", "raised"} => r \notin stored.runs

\* However a call ends, it holds neither the lease nor a connection; and no write
\* transaction is open without the lease.
NothingIsHeld ==
  /\ \A r \in Unit : call[r].at \in Ended => r \notin open /\ lease # r
  /\ open \subseteq {lease}

\* The rows of documents are as before, but for those of the files that results has:
\* each of these is that of the last one with its content.
Merged(before, results, after) ==
  LET Of(i) == results[i].parse.hash
      Last(i) == \A j \in DOMAIN results : Of(j) = Of(i) => j <= i
  IN  /\ DOMAIN after = DOMAIN before \cup {Of(i) : i \in DOMAIN results}
      /\ \A d \in DOMAIN before \ {Of(i) : i \in DOMAIN results} : after[d] = before[d]
      /\ \A i \in DOMAIN results : Last(i) =>
           after[Of(i)] = [source |-> results[i].source, status |-> results[i].parse.status]

\* A run adds itself to what the database has when it commits, whoever else recorded
\* something while its files were parsed: nothing of another run is lost or changed,
\* no document has a row of an earlier run or file than the last that had it, and
\* before the commit there is nothing of the run at all.
CommitsAddUp ==
  [][stored' # stored => \E r \in Unit \ stored.runs :
       /\ stored'.runs = stored.runs \cup {r}
       /\ {a \in stored'.artifacts : a.run # r} = stored.artifacts
       /\ {i \in stored'.items : i[1] # r} = stored.items
       /\ Merged(stored.documents, call[r].results, stored'.documents)]_vars
=============================================================================
