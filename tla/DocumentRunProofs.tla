--------------------------- MODULE DocumentRunProofs ---------------------------
(***************************************************************************)
(* Proofs about DocumentRun for any calls, files, contents, installed OCR    *)
(* providers and edits: how a call ends and what it then holds, and that the *)
(* database and the published files tell the same story of every run.        *)
(***************************************************************************)
EXTENDS DocumentRun, SequenceTheorems, TLAPS

\* The steps of a call within its transaction, in order.
InFile  == {"hash", "read", "record", "json", "review", "item"}
Writing == {"create", "run_json", "summary", "commit"} \cup InFile
Holding == Writing \cup {"unwind"}

\* What a call has of its unit of work, by where it is.
Holds(r) ==
  /\ call[r].at \in Holding => state[r] = "ACTIVE" /\ lease = r /\ r \in open
  /\ call[r].at = "start" => state[r] = "NEW"
  /\ call[r].at = "close" => state[r] = "COMMITTED" /\ lease = r /\ r \in open
  /\ call[r].at \in {"exit", "unwind_late"} => state[r] = "COMMITTED"
  /\ call[r].at \notin Holding \cup {"close"} => lease # r /\ r \notin open

HoldInv == open \subseteq {lease} /\ \A r \in Unit : Holds(r)

\* Whether the database has the run, and whether its transaction has.
Recorded(r) ==
  /\ call[r].at \in {"close", "exit", "unwind_late", "returned", "raised_late"}
       => r \in stored.runs
  /\ call[r].at \in Holding \cup {"start", "refused", "raised"} => r \notin stored.runs
  /\ call[r].at \in Writing \ {"create"} => staged.runs = stored.runs \cup {r}
  /\ call[r].at = "create" => staged = stored

OutcomeInv == \A r \in Unit : Recorded(r)

-----------------------------------------------------------------------------
(* What a run publishes and what it records *)

Elements(s) == {s[i] : i \in DOMAIN s}
Hashed(s)   == s.parse.hash

Artifacts(r, S) == {[run |-> r, document |-> Hashed(s), kind |-> k, body |-> s]
                      : s \in S, k \in DocumentKind}
Items(r, S)     == {<<r, Hashed(s)>> : s \in S}

ArtifactsOf(t, r) == {a \in t.artifacts : a.run = r}
ItemsOf(t, r)     == {i \in t.items : i[1] = r}

\* The tables have of run r what S, a set of results, is recorded as.
RowsOf(t, r, S) ==
  ArtifactsOf(t, r) = Artifacts(r, S) /\ ItemsOf(t, r) = Items(r, S)

SameRows(t, u, r) == ArtifactsOf(t, r) = ArtifactsOf(u, r) /\ ItemsOf(t, r) = ItemsOf(u, r)

IsPublished(path, body) == path \in DOMAIN published /\ published[path] = body

\* The results are of the files of the call, in its order, and published.
InOrder(r, results) == \A i \in DOMAIN results : results[i].source = Input[r][i]

Shown(r, S) == \A s \in S, k \in DocumentKind : IsPublished(DocumentPath(r, Hashed(s), k), s)

\* The document.json that run r has published of a document says what its row does.
Tells(r, d, row) ==
  \E s \in DocumentResult :
    /\ IsPublished(DocumentPath(r, d, "document_json"), s)
    /\ row = [source |-> s.source, status |-> s.parse.status]

Told(r, d) == \E q \in stored.runs \cup {r} : Tells(q, d, staged.documents[d])

\* What a call that writes has done of its files, whatever the step it is at.
Written(r) ==
  LET results == call[r].results IN
  /\ Len(results) = call[r].n - 1
  /\ InOrder(r, results) /\ Shown(r, Elements(results))
  /\ RowsOf(staged, r, Elements(results))
  /\ \A q \in Unit \ {r} : SameRows(staged, stored, q)

\* What it has done of the present one, and of the run.
Place(r) ==
  LET c == call[r] IN
  /\ c.at \in InFile \cup {"create"} => c.n <= Len(Input[r])
  /\ c.at \in {"run_json", "summary", "commit"} => c.n = Len(Input[r]) + 1
  /\ c.at \in InFile \ {"hash"} => c.parse.hash \in Content
  /\ c.at \in {"review", "item"} =>
       IsPublished(DocumentPath(r, c.parse.hash, "document_json"), OneResult(r))
  /\ c.at = "item" =>
       IsPublished(DocumentPath(r, c.parse.hash, "review_markdown"), OneResult(r))
  /\ c.at \in {"summary", "commit"} => IsPublished(RunPath(r, "run_json"), c.results)
  /\ c.at = "commit" => IsPublished(RunPath(r, "run_summary"), c.results)

\* The rows of documents are told by the document.json of a run, but for the row of
\* the one that comes next.
RowsTold(r) ==
  \A d \in DOMAIN staged.documents :
    \/ Told(r, d)
    \/ /\ call[r].at = "json" /\ d = call[r].parse.hash
       /\ staged.documents[d] = [source |-> Source(r), status |-> call[r].parse.status]

Progress(r) == Written(r) /\ Place(r) /\ RowsTold(r)

\* A run that the database has.
WholeRun(r) ==
  \E results \in Seq(DocumentResult) :
    /\ Len(results) = Len(Input[r]) /\ InOrder(r, results) /\ Shown(r, Elements(results))
    /\ IsPublished(RunPath(r, "run_json"), results)
    /\ IsPublished(RunPath(r, "run_summary"), results)
    /\ RowsOf(stored, r, Elements(results))

StoredInv ==
  /\ \A r \in stored.runs : WholeRun(r)
  /\ \A r \in Unit \ stored.runs : RowsOf(stored, r, {})
  /\ \A d \in DOMAIN stored.documents : \E r \in stored.runs : Tells(r, d, stored.documents[d])

CallInv == \A r \in Unit : /\ call[r].at \in Writing => Progress(r)
                           /\ call[r].at = "start" => call[r] = NewCall

WholeInv == StoredInv /\ CallInv

Inv == TypeOK /\ HoldInv /\ OutcomeInv /\ WholeInv

-----------------------------------------------------------------------------
(* Types *)

LEMMA AttemptsType ==
  ASSUME NEW o \in [1..3 -> {"success", "blocked", "failed"}]
  PROVE  Attempts(o) \in Seq(Attempt)
<1> DEFINE tried == {n \in DOMAIN o : \A m \in 1..(n - 1) : o[m] # "success"}
<1>1. \E k \in 1..3 : tried = 1..k
  <2>1. CASE o[1] = "success"
    <3>1. tried = 1..1
      BY <2>1
    <3> QED BY <3>1
  <2>2. CASE o[1] # "success" /\ o[2] = "success"
    <3>1. tried = 1..2
      BY <2>2
    <3> QED BY <3>1
  <2>3. CASE o[1] # "success" /\ o[2] # "success"
    <3>1. tried = 1..3
      BY <2>3
    <3> QED BY <3>1
  <2> QED BY <2>1, <2>2, <2>3
<1>2. PICK k \in 1..3 : tried = 1..k
  BY <1>1
<1>3. \A n \in 1..3 : <<Providers[n], o[n]>> \in Attempt
  BY DEF Providers, Attempt
<1>4. Attempts(o) = [n \in 1..k |-> <<Providers[n], o[n]>>]
  BY <1>2 DEF Attempts
<1>5. Attempts(o) \in [1..k -> Attempt]
  BY <1>2, <1>3, <1>4
<1> QED BY <1>2, <1>5, SeqDef

LEMMA ParsesType ==
  ASSUME NEW h \in Content, NEW now \in Content \cup {Gone}, NEW p \in Parses(h, now)
  PROVE  p \in Parse /\ p.hash = h
<1>1. CASE now \in Native
  BY <1>1 DEF Parses, Parsed, Parse, NativeAttempt, Attempt
<1>2. CASE now \notin Native
  <2>1. PICK o \in Outcomes(now) :
          LET read == \E n \in DOMAIN o : o[n] = "success"
          IN  p = Parsed(h, IF read THEN "success" ELSE "needs_review",
                   IF read THEN now ELSE Gone, <<NativeAttempt("blocked")>> \o Attempts(o))
    BY <1>2 DEF Parses
  <2>2. Attempts(o) \in Seq(Attempt)
    BY AttemptsType DEF Outcomes
  <2>3. <<NativeAttempt("blocked")>> \in Seq(Attempt)
    BY DEF NativeAttempt, Attempt
  <2> DEFINE tries == <<NativeAttempt("blocked")>> \o Attempts(o)
  <2>4. tries \in Seq(Attempt)
    BY <2>2, <2>3
  <2> HIDE DEF tries
  <2> QED BY <2>1, <2>4 DEF Parsed, Parse, tries
<1> QED BY <1>1, <1>2

LEMMA NoParseType == NoParse \in Parse /\ NoParse.hash = Gone
BY DEF NoParse, Parsed, Parse

LEMMA ResultType ==
  ASSUME NEW f \in File, NEW p \in Parse
  PROVE  /\ Result(f, p) \in DocumentResult
         /\ Result(f, p).source = f /\ Result(f, p).parse = p
BY DEF Result, DocumentResult, Facts

\* The step changes no call but that of r.
Only(r) ==
  /\ call' \in [Unit -> Call]
  /\ \A q \in Unit : q # r => call'[q] = call[q]

LEMMA MovesOnly ==
  ASSUME TypeOK, NEW r \in Unit, NEW at \in Pc, Moves(r, at)
  PROVE  /\ Only(r) /\ call'[r].at = at /\ call'[r].n = call[r].n
         /\ call'[r].parse = call[r].parse /\ call'[r].results = call[r].results
BY DEF TypeOK, Moves, Only, Call

LEMMA InitType == Init => TypeOK
<1> SUFFICES ASSUME Init PROVE TypeOK
  OBVIOUS
<1>1. NoRecords \in Records
  <2>1. <<>> \in [{} -> Row]
    OBVIOUS
  <2>2. <<>> \in UNION {[D -> Row] : D \in SUBSET Content}
    BY <2>1
  <2> QED BY <2>2 DEF NoRecords, Records
<1>2. NewCall \in Call /\ NewCall.n = 1
  BY NoParseType DEF NewCall, Call, Pc
<1>3. \A r \in Unit : 1 \in 1..(Len(Input[r]) + 1)
  BY InputAssumption
<1> QED BY <1>1, <1>2, <1>3, BoundAssumption DEF Init, UowInit, UowState, TypeOK

Rows == UNION {[D -> Row] : D \in SUBSET Content}

LEMMA PutRow ==
  ASSUME NEW f \in Rows, NEW x \in Content, NEW v \in Row
  PROVE  /\ Put(f, x, v) \in Rows /\ DOMAIN Put(f, x, v) = DOMAIN f \cup {x}
         /\ Put(f, x, v)[x] = v
         /\ \A y \in DOMAIN f : y # x => Put(f, x, v)[y] = f[y]
<1>1. PICK D \in SUBSET Content : f \in [D -> Row]
  BY DEF Rows
<1>2. Put(f, x, v) \in [D \cup {x} -> Row]
  BY <1>1 DEF Put
<1> QED BY <1>1, <1>2 DEF Rows, Put

LEMMA RecordsFields ==
  ASSUME NEW t \in Records
  PROVE  /\ t.documents \in Rows /\ t.artifacts \subseteq Artifact
         /\ t.items \subseteq Unit \X Content /\ t.runs \subseteq Unit
BY DEF Records, Rows

LEMMA WithRuns ==
  ASSUME NEW t \in Records, NEW x \in SUBSET Unit, NEW u, u = [t EXCEPT !.runs = x]
  PROVE  /\ u \in Records /\ u.runs = x /\ u.documents = t.documents
         /\ u.artifacts = t.artifacts /\ u.items = t.items
BY DEF Records

LEMMA WithDocuments ==
  ASSUME NEW t \in Records, NEW x \in Rows, NEW u, u = [t EXCEPT !.documents = x]
  PROVE  /\ u \in Records /\ u.documents = x /\ u.runs = t.runs
         /\ u.artifacts = t.artifacts /\ u.items = t.items
<1>1. Records = [documents : Rows, artifacts : SUBSET Artifact,
                 items : SUBSET (Unit \X Content), runs : SUBSET Unit]
  BY DEF Records, Rows
<1> QED BY <1>1

Extended(t, x, y) == [t EXCEPT !.artifacts = x, !.items = y]

LEMMA WithArtifacts ==
  ASSUME NEW t \in Records, NEW x \in SUBSET Artifact, NEW y \in SUBSET (Unit \X Content),
         NEW u, u = Extended(t, x, y)
  PROVE  /\ u \in Records /\ u.artifacts = x /\ u.items = y
         /\ u.documents = t.documents /\ u.runs = t.runs
<1> DEFINE v == [t EXCEPT !.artifacts = x]
<1>1. /\ v \in Records /\ v.artifacts = x /\ v.items = t.items
      /\ v.documents = t.documents /\ v.runs = t.runs
  BY DEF Records
<1> HIDE DEF v
<1>2. u = [v EXCEPT !.items = y]
  BY Zenon DEF v, Extended
<1> QED BY <1>1, <1>2 DEF Records

-----------------------------------------------------------------------------
(* What each step does to the tables and to the call *)

LEMMA CreateRunDoes ==
  ASSUME TypeOK, NEW r \in Unit, CreateRun(r)
  PROVE  /\ call[r].at = "create" /\ state[r] = "ACTIVE" /\ Moves(r, "hash")
         /\ staged' \in Records /\ staged'.runs = staged.runs \cup {r}
         /\ staged'.documents = staged.documents
         /\ staged'.artifacts = staged.artifacts /\ staged'.items = staged.items
         /\ UNCHANGED <<state, open, lease, stored, disk, published, edits>>
<1>1. staged' = [staged EXCEPT !.runs = staged.runs \cup {r}] /\ staged \in Records
  BY DEF CreateRun, Stage, TypeOK
<1>2. PICK x \in SUBSET Unit : x = staged.runs \cup {r}
  BY <1>1, RecordsFields
<1>3. PICK u : u = staged'
  OBVIOUS
<1> QED BY <1>1, <1>2, <1>3, WithRuns DEF CreateRun, Stage

LEMMA RecordDocumentDoes ==
  ASSUME TypeOK, NEW r \in Unit, RecordDocument(r), call[r].parse.hash \in Content,
         Source(r) \in File
  PROVE  LET row == [source |-> Source(r), status |-> call[r].parse.status] IN
         /\ call[r].at = "record" /\ state[r] = "ACTIVE" /\ Moves(r, "json") /\ row \in Row
         /\ staged' \in Records /\ staged'.runs = staged.runs
         /\ staged'.documents = Put(staged.documents, call[r].parse.hash, row)
         /\ staged'.artifacts = staged.artifacts /\ staged'.items = staged.items
         /\ UNCHANGED <<state, open, lease, stored, disk, published, edits>>
<1> DEFINE row == [source |-> Source(r), status |-> call[r].parse.status]
<1>1. row \in Row
  BY DEF Row, TypeOK, Call, Parse
<1>2. staged' = [staged EXCEPT !.documents = Put(staged.documents, call[r].parse.hash, row)]
      /\ staged \in Records
  BY DEF RecordDocument, Stage, TypeOK
<1>3. /\ call[r].at = "record" /\ state[r] = "ACTIVE" /\ Moves(r, "json")
      /\ UNCHANGED <<state, open, lease, stored, disk, published, edits>>
  BY DEF RecordDocument, Stage
<1> HIDE DEF row
<1>4. PICK x \in Rows : x = Put(staged.documents, call[r].parse.hash, row)
  BY <1>1, <1>2, RecordsFields, PutRow
<1>5. PICK u : u = staged'
  OBVIOUS
<1>6. /\ u \in Records /\ u.documents = x /\ u.runs = staged.runs
      /\ u.artifacts = staged.artifacts /\ u.items = staged.items
  BY <1>2, <1>4, <1>5, WithDocuments
<1> QED BY <1>1, <1>3, <1>4, <1>5, <1>6 DEF row

LEMMA RecordItemDoes ==
  ASSUME TypeOK, NEW r \in Unit, RecordItem(r), call[r].parse.hash \in Content,
         Source(r) \in File
  PROVE  LET S == {OneResult(r)} IN
         /\ call[r].at = "item" /\ state[r] = "ACTIVE" /\ S \subseteq DocumentResult
         /\ staged' \in Records /\ staged'.runs = staged.runs
         /\ staged'.documents = staged.documents
         /\ staged'.artifacts = staged.artifacts \cup Artifacts(r, S)
         /\ staged'.items = staged.items \cup Items(r, S)
         /\ Only(r) /\ call'[r].n = call[r].n + 1
         /\ call'[r].at = (IF call[r].n < Len(Input[r]) THEN "hash" ELSE "run_json")
         /\ call'[r].results = Append(call[r].results, OneResult(r))
         /\ UNCHANGED <<state, open, lease, stored, disk, published, edits>>
<1> DEFINE S == {OneResult(r)}
<1>1. call[r].parse \in Parse /\ call \in [Unit -> Call] /\ staged \in Records
      /\ call[r].n \in Nat /\ call[r].results \in Seq(DocumentResult)
  BY DEF TypeOK, Call
<1>2. OneResult(r) \in DocumentResult /\ OneResult(r).parse = call[r].parse
  BY <1>1, ResultType DEF OneResult
<1>3. /\ call[r].at = "item" /\ state[r] = "ACTIVE"
      /\ UNCHANGED <<state, open, lease, stored, disk, published, edits>>
  BY DEF RecordItem, Stage
<1>4. Artifacts(r, S) = {[run |-> r, document |-> call[r].parse.hash, kind |-> k,
                          body |-> OneResult(r)] : k \in DocumentKind}
  BY <1>2 DEF Artifacts, Hashed
<1>5. Items(r, S) = {<<r, call[r].parse.hash>>}
  BY <1>2 DEF Items, Hashed
<1>6. \A k \in DocumentKind : [run |-> r, document |-> call[r].parse.hash, kind |-> k,
                               body |-> OneResult(r)] \in Artifact
  BY <1>2 DEF Artifact
<1>7. Artifacts(r, S) \subseteq Artifact /\ Items(r, S) \subseteq Unit \X Content
  <2> HIDE DEF S
  <2>1. Items(r, S) \subseteq Unit \X Content
    BY <1>5
  <2>2. Artifacts(r, S) \subseteq Artifact
    BY <1>4, <1>6
  <2> QED BY <2>1, <2>2
<1>8. /\ staged' \in Records
      /\ staged'.artifacts = staged.artifacts \cup Artifacts(r, S)
      /\ staged'.items = staged.items \cup Items(r, S)
      /\ staged'.documents = staged.documents /\ staged'.runs = staged.runs
  <2>1. PICK A, I : A = Artifacts(r, S) /\ I = Items(r, S)
    OBVIOUS
  <2>2. PICK t, u : t = staged /\ u = staged' /\ t \in Records
    BY <1>1
  <2>3. PICK x \in SUBSET Artifact : x = t.artifacts \cup A
    BY <1>7, <2>1, <2>2, RecordsFields
  <2>4. PICK y \in SUBSET (Unit \X Content) : y = t.items \cup I
    BY <1>7, <2>1, <2>2, RecordsFields
  <2>5. staged' = [staged EXCEPT !.artifacts = @ \cup A, !.items = @ \cup I]
    BY <1>4, <1>5, <2>1 DEF RecordItem, Stage
  <2>6. u = Extended(t, x, y)
    BY <2>2, <2>3, <2>4, <2>5, Zenon DEF Extended
  <2> HIDE DEF S
  <2> QED BY <2>1, <2>2, <2>3, <2>4, <2>6, WithArtifacts
<1>9. PICK c : c = [at |-> IF call[r].n < Len(Input[r]) THEN "hash" ELSE "run_json",
                    n |-> call[r].n + 1, parse |-> NoParse,
                    results |-> Append(call[r].results, OneResult(r))]
  OBVIOUS
<1>10. /\ c.at = (IF call[r].n < Len(Input[r]) THEN "hash" ELSE "run_json")
       /\ c.n = call[r].n + 1 /\ c.results = Append(call[r].results, OneResult(r))
       /\ c \in Call
  <2>1. Append(call[r].results, OneResult(r)) \in Seq(DocumentResult)
    BY <1>1, <1>2
  <2> QED BY <1>1, <1>9, <2>1, NoParseType DEF Call, Pc
<1>11. call' = [call EXCEPT ![r] = c]
  BY <1>9 DEF RecordItem
<1>12. Only(r) /\ call'[r] = c
  BY <1>1, <1>10, <1>11 DEF Only
<1> QED BY <1>2, <1>3, <1>8, <1>10, <1>12

LEMMA InFileFacts ==
  ASSUME Inv, NEW r \in Unit
  PROVE  /\ TypeOK /\ call[r] \in Call /\ Holds(r) /\ Recorded(r)
         /\ call[r].at \in Writing => Progress(r)
         /\ call[r].at \in InFile => Source(r) \in File /\ call[r].n < Len(Input[r]) + 1
         /\ call[r].at \in InFile \ {"hash"} => call[r].parse.hash \in Content
<1>1. /\ TypeOK /\ call[r] \in Call /\ Holds(r) /\ Recorded(r)
      /\ call[r].at \in Writing => Progress(r)
  BY DEF Inv, TypeOK, HoldInv, OutcomeInv, WholeInv, CallInv
<1>2. ASSUME call[r].at \in InFile
      PROVE  Source(r) \in File /\ call[r].n < Len(Input[r]) + 1
  <2>1. call[r].n <= Len(Input[r])
    BY <1>1, <1>2 DEF Writing, Progress, Place
  <2>2. call[r].n \in 1..(Len(Input[r]) + 1) /\ Input[r] \in Seq(File)
    BY InputAssumption DEF Inv, TypeOK
  <2> QED BY <2>1, <2>2 DEF Source
<1>3. ASSUME call[r].at \in InFile \ {"hash"} PROVE call[r].parse.hash \in Content
  BY <1>1, <1>3 DEF InFile, Writing, Progress, Place
<1> QED BY <1>1, <1>2, <1>3

\* A step within the transaction of the call.
Quiet(r) ==
  /\ Only(r) /\ call[r].at \in Writing /\ call'[r].at \in Holding
  /\ call'[r].n \in 1..(Len(Input[r]) + 1)
  /\ staged' \in Records
  /\ UNCHANGED <<state, open, lease, stored, disk, edits>>

LEMMA HashDoes ==
  ASSUME Inv, NEW r \in Unit, Hash(r), disk[Source(r)] # Gone
  PROVE  /\ Only(r) /\ call'[r].at = "read" /\ call'[r].parse.hash \in Content
         /\ call'[r].n = call[r].n /\ call'[r].results = call[r].results
<1>1. call[r].at = "hash" /\ call' = [call EXCEPT ![r].at = "read",
                        ![r].parse = [NoParse EXCEPT !.hash = disk[Source(r)]]]
  BY DEF Hash
<1>2. Source(r) \in File /\ TypeOK
  BY <1>1, InFileFacts DEF InFile
<1>3. disk[Source(r)] \in Content
  BY <1>2 DEF TypeOK
<1>4. PICK p : p = [NoParse EXCEPT !.hash = disk[Source(r)]]
  OBVIOUS
<1>5. p \in Parse /\ p.hash \in Content
  BY <1>3, <1>4, NoParseType DEF Parse
<1>6. call' = [call EXCEPT ![r].at = "read", ![r].parse = p]
  BY <1>1, <1>4
<1>7. "read" \in Pc /\ call \in [Unit -> Call]
  BY <1>2 DEF Pc, TypeOK
<1> QED BY <1>5, <1>6, <1>7 DEF Only, Call

LEMMA ReadDoes ==
  ASSUME Inv, NEW r \in Unit, Read(r)
  PROVE  /\ Only(r) /\ call'[r].at = "record" /\ call'[r].parse.hash = call[r].parse.hash
         /\ call'[r].n = call[r].n /\ call'[r].results = call[r].results
<1>1. call[r].at = "read"
  BY DEF Read
<1>2. /\ Source(r) \in File /\ TypeOK /\ call[r].parse.hash \in Content
  BY <1>1, InFileFacts DEF InFile
<1>3. disk[Source(r)] \in Content \cup {Gone}
  BY <1>2 DEF TypeOK
<1>4. PICK p \in Parses(call[r].parse.hash, disk[Source(r)]) :
        call' = [call EXCEPT ![r].at = "record", ![r].parse = p]
  BY DEF Read
<1>5. p \in Parse /\ p.hash = call[r].parse.hash
  BY <1>2, <1>3, ParsesType
<1>6. "record" \in Pc /\ call \in [Unit -> Call]
  BY <1>2 DEF Pc, TypeOK
<1> QED BY <1>4, <1>5, <1>6 DEF Only, Call

LEMMA QuietShape ==
  ASSUME Inv, NEW r \in Unit,
         \/ CreateRun(r) \/ Hash(r) \/ Read(r) \/ RecordDocument(r)
         \/ PublishJson(r) \/ PublishReview(r) \/ Conflicts(r) \/ RecordItem(r)
         \/ PublishRunJson(r) \/ PublishSummary(r) \/ Fails(r)
  PROVE  Quiet(r)
<1>0. /\ TypeOK /\ staged \in Records /\ call[r].n \in 1..(Len(Input[r]) + 1)
      /\ Len(Input[r]) \in Nat
  BY InFileFacts, InputAssumption DEF TypeOK
<1>1. ASSUME CreateRun(r) PROVE Quiet(r)
  <2>1. "hash" \in Pc /\ "hash" \in Holding /\ "create" \in Writing
    BY DEF Pc, Holding, Writing, InFile
  <2> QED BY <1>0, <1>1, <2>1, CreateRunDoes, MovesOnly DEF Quiet
<1>2. ASSUME Hash(r) PROVE Quiet(r)
  <2>1. call[r].at = "hash" /\ UNCHANGED <<uowVars, disk, published, edits>>
    BY <1>2 DEF Hash
  <2>2. CASE disk[Source(r)] = Gone
    <3>1. Moves(r, "unwind") /\ "unwind" \in Pc
      BY <1>2, <2>2 DEF Hash, Pc
    <3> QED BY <1>0, <2>1, <3>1, MovesOnly DEF Quiet, Holding, Writing, InFile, uowVars
  <2>3. CASE disk[Source(r)] # Gone
    BY <1>0, <1>2, <2>1, <2>3, HashDoes DEF Quiet, Holding, Writing, InFile, uowVars
  <2> QED BY <2>2, <2>3
<1>3. ASSUME Read(r) PROVE Quiet(r)
  <2>1. call[r].at = "read" /\ UNCHANGED <<uowVars, disk, published, edits>>
    BY <1>3 DEF Read
  <2> QED BY <1>0, <1>3, <2>1, ReadDoes DEF Quiet, Holding, Writing, InFile, uowVars
<1>4. ASSUME RecordDocument(r) PROVE Quiet(r)
  <2>1. call[r].at = "record"
    BY <1>4 DEF RecordDocument
  <2>2. Source(r) \in File /\ call[r].parse.hash \in Content
    BY <2>1, InFileFacts DEF InFile
  <2>3. "json" \in Pc /\ "json" \in Holding /\ "record" \in Writing
    BY DEF Pc, Holding, Writing, InFile
  <2> QED BY <1>0, <1>4, <2>1, <2>2, <2>3, RecordDocumentDoes, MovesOnly DEF Quiet
<1>5. ASSUME PublishJson(r) \/ PublishReview(r) \/ PublishRunJson(r) \/ PublishSummary(r)
             \/ Conflicts(r) \/ Fails(r)
      PROVE  Quiet(r)
  <2>1. /\ UNCHANGED <<uowVars, disk, edits>> /\ call[r].at \in Writing
        /\ \E at \in Holding \cap Pc : Moves(r, at)
    BY <1>0, <1>5
       DEF PublishJson, PublishReview, PublishRunJson, PublishSummary, Conflicts, Fails,
           Holding, Writing, InFile, Pc, Ended, TypeOK, Call
  <2> QED BY <1>0, <2>1, MovesOnly DEF Quiet, uowVars
<1>6. ASSUME RecordItem(r) PROVE Quiet(r)
  <2>1. call[r].at = "item"
    BY <1>6 DEF RecordItem
  <2>2. Source(r) \in File /\ call[r].parse.hash \in Content /\ call[r].n < Len(Input[r]) + 1
    BY <2>1, InFileFacts DEF InFile
  <2>3. /\ Only(r) /\ call'[r].n = call[r].n + 1 /\ call'[r].at \in {"hash", "run_json"}
        /\ staged' \in Records
        /\ UNCHANGED <<state, open, lease, stored, disk, published, edits>>
    BY <1>0, <1>6, <2>2, RecordItemDoes
  <2>4. call[r].n + 1 \in 1..(Len(Input[r]) + 1)
    BY <1>0, <2>2
  <2> QED BY <2>1, <2>3, <2>4 DEF Quiet, Holding, Writing, InFile
<1> QED BY <1>1, <1>2, <1>3, <1>4, <1>5, <1>6

-----------------------------------------------------------------------------
(* How a call ends, and what it holds *)

LEMMA QuietHolds ==
  ASSUME Inv, NEW r \in Unit, Quiet(r)
  PROVE  TypeOK' /\ HoldInv'
<1>0. TypeOK /\ HoldInv /\ Holds(r)
  BY InFileFacts DEF Inv
<1>1. TypeOK'
  BY <1>0 DEF TypeOK, Quiet, Only
<1>2. call[r].at \in Holding
  BY DEF Quiet, Holding
<1>3. \A q \in Unit : Holds(q)'
  <2>1. ASSUME NEW q \in Unit, q # r PROVE Holds(q)'
    BY <1>0, <2>1 DEF Quiet, Only, Holds, HoldInv
  <2>2. Holds(r)'
    BY <1>0, <1>2 DEF Quiet, Holds, Holding, Writing, InFile
  <2> QED BY <2>1, <2>2
<1> QED BY <1>0, <1>1, <1>3 DEF HoldInv, Quiet

\* The staged runs are changed by CreateRun only.
LEMMA QuietRecords ==
  ASSUME Inv, NEW r \in Unit, Quiet(r),
         \/ CreateRun(r)
         \/ Fails(r)
         \/ call[r].at # "create" /\ call'[r].at # "create" /\ staged'.runs = staged.runs
  PROVE  OutcomeInv'
<1>0. TypeOK /\ Holds(r) /\ Recorded(r) /\ OutcomeInv /\ HoldInv
  BY InFileFacts DEF Inv
<1>1. call[r].at \in Holding /\ lease = r
  BY <1>0 DEF Quiet, Holding, Holds
<1>2. ASSUME NEW q \in Unit, q # r PROVE Recorded(q)'
  <2>1. call'[q] = call[q] /\ stored' = stored /\ Recorded(q) /\ Holds(q)
    BY <1>0, <1>2 DEF Quiet, Only, OutcomeInv, HoldInv
  <2>2. call[q].at \notin Holding
    BY <1>1, <1>2, <2>1 DEF Holds
  <2> QED BY <2>1, <2>2 DEF Recorded, Holding, Writing, InFile
<1>3. Recorded(r)'
  <2>1. r \notin stored.runs /\ stored' = stored
    BY <1>0, <1>1 DEF Recorded, Quiet
  <2>2. CASE CreateRun(r)
    <3>1. /\ call[r].at = "create" /\ Moves(r, "hash")
          /\ staged'.runs = staged.runs \cup {r}
      BY <1>0, <2>2, CreateRunDoes
    <3>2. call'[r].at = "hash"
      BY <1>0, <3>1, MovesOnly DEF Pc
    <3> QED BY <1>0, <2>1, <3>1, <3>2 DEF Recorded, Holding, Writing, InFile
  <2>3. CASE Fails(r)
    <3>1. call'[r].at = "unwind"
      BY <1>0, <2>3, MovesOnly DEF Fails, Pc
    <3> QED BY <2>1, <3>1 DEF Recorded, Holding, Writing, InFile
  <2>4. CASE call[r].at # "create" /\ call'[r].at # "create" /\ staged'.runs = staged.runs
    BY <1>0, <2>1, <2>4 DEF Recorded, Quiet, Holding, Writing, InFile
  <2> QED BY <2>2, <2>3, <2>4
<1> QED BY <1>2, <1>3 DEF OutcomeInv

LEMMA QuietOutcome ==
  ASSUME Inv, NEW r \in Unit,
         \/ CreateRun(r) \/ Hash(r) \/ Read(r) \/ RecordDocument(r)
         \/ PublishJson(r) \/ PublishReview(r) \/ Conflicts(r) \/ RecordItem(r)
         \/ PublishRunJson(r) \/ PublishSummary(r) \/ Fails(r)
  PROVE  TypeOK' /\ HoldInv' /\ OutcomeInv'
<1>0. TypeOK /\ Quiet(r)
  BY InFileFacts, QuietShape
<1>1. CASE CreateRun(r) \/ Fails(r)
  BY <1>0, <1>1, QuietHolds, QuietRecords
<1>2. CASE RecordDocument(r)
  <2>1. call[r].at = "record"
    BY <1>2 DEF RecordDocument
  <2>2. Moves(r, "json") /\ staged'.runs = staged.runs
    BY <1>0, <1>2, <2>1, InFileFacts, RecordDocumentDoes DEF InFile
  <2>3. call'[r].at = "json"
    BY <1>0, <2>2, MovesOnly DEF Pc
  <2> QED BY <1>0, <2>1, <2>2, <2>3, QuietHolds, QuietRecords
<1>3. CASE RecordItem(r)
  <2>1. call[r].at = "item"
    BY <1>3 DEF RecordItem
  <2>2. call'[r].at \in {"hash", "run_json"} /\ staged'.runs = staged.runs
    BY <1>0, <1>3, <2>1, InFileFacts, RecordItemDoes DEF InFile
  <2> QED BY <1>0, <2>1, <2>2, QuietHolds, QuietRecords
<1>4. CASE \/ Hash(r) \/ Read(r) \/ PublishJson(r) \/ PublishReview(r) \/ Conflicts(r)
           \/ PublishRunJson(r) \/ PublishSummary(r)
  <2>1. call[r].at # "create" /\ staged' = staged
    BY <1>4 DEF Hash, Read, PublishJson, PublishReview, Conflicts, PublishRunJson,
                PublishSummary, uowVars
  <2>2. call'[r].at # "create"
    <3>1. CASE Hash(r)
      BY <1>0, <3>1, HashDoes, MovesOnly DEF Hash, Pc
    <3>2. CASE Read(r)
      BY <1>0, <3>2, ReadDoes
    <3>3. CASE \/ PublishJson(r) \/ PublishReview(r) \/ Conflicts(r)
               \/ PublishRunJson(r) \/ PublishSummary(r)
      BY <1>0, <3>3, MovesOnly
         DEF PublishJson, PublishReview, Conflicts, PublishRunJson, PublishSummary, Pc
    <3> QED BY <1>4, <3>1, <3>2, <3>3
  <2> QED BY <1>0, <2>1, <2>2, QuietHolds, QuietRecords
<1> QED BY <1>1, <1>2, <1>3, <1>4

\* The steps of the unit of work itself.
LEMMA UnitOutcome ==
  ASSUME Inv, NEW r \in Unit, Begin(r) \/ Commit(r) \/ Close(r) \/ Leave(r) \/ Dies(r)
  PROVE  TypeOK' /\ HoldInv' /\ OutcomeInv'
<1>0. /\ TypeOK /\ HoldInv /\ OutcomeInv /\ Holds(r) /\ Recorded(r)
      /\ call \in [Unit -> Call] /\ {stored, staged} \subseteq Records
  BY InFileFacts DEF Inv, TypeOK
<1>1. \E at \in Pc : Moves(r, at)
  BY <1>0 DEF Begin, Commit, Close, Leave, Dies, Pc, Ended, TypeOK
<1>2. Only(r) /\ call'[r].n = call[r].n /\ UNCHANGED <<disk, edits>>
  BY <1>0, <1>1, MovesOnly DEF Begin, Commit, Close, Leave, Dies
<1>3. TypeOK'
  <2>1. /\ state' \in [Unit -> UowState] /\ open' \subseteq Unit /\ lease' \in Unit \cup {Free}
        /\ {stored', staged'} \subseteq Records
    BY <1>0 DEF Begin, Commit, Close, Leave, Dies, Enter, EnterFails, CommitTransaction,
                Released, Exit, UnitDies, CloseAndRelease, TypeOK, UowState, uowVars
  <2> QED BY <1>0, <1>2, <2>1 DEF TypeOK, Only
<1>4. ASSUME Begin(r) PROVE HoldInv' /\ OutcomeInv'
  <2>1. CASE Enter(r)
    <3>1. /\ lease = Free /\ lease' = r /\ open' = open \cup {r} /\ staged' = stored
          /\ stored' = stored /\ state' = [state EXCEPT ![r] = "ACTIVE"]
          /\ call[r].at = "start" /\ Moves(r, "create")
      BY <1>4, <2>1 DEF Begin, Enter, EnterFails, uowVars, TypeOK, Inv
    <3>2. call'[r].at = "create" /\ state'[r] = "ACTIVE" /\ open' \subseteq {r}
          /\ \A q \in Unit : q # r => state'[q] = state[q]
      BY <1>0, <3>1, MovesOnly, FreeAssumption DEF Pc, TypeOK, HoldInv
    <3>3. \A q \in Unit : q # r => call[q].at \notin Holding \cup {"close"}
      BY <1>0, <3>1, FreeAssumption DEF HoldInv, Holds
    <3>4. \A q \in Unit : Holds(q)'
      BY <1>0, <1>2, <3>1, <3>2, <3>3
         DEF HoldInv, Holds, Only, Holding, Writing, InFile
    <3>5. \A q \in Unit : Recorded(q)'
      BY <1>0, <1>2, <3>1, <3>2, <3>3
         DEF OutcomeInv, Recorded, Only, Holding, Writing, InFile
    <3> QED BY <3>1, <3>2, <3>4, <3>5 DEF HoldInv, OutcomeInv
  <2>2. CASE ~Enter(r)
    <3>1. call[r].at = "start" /\ Moves(r, "refused") /\ UNCHANGED uowVars
      BY <1>4, <2>2 DEF Begin, EnterFails
    <3>2. call'[r].at = "refused"
      BY <1>0, <3>1, MovesOnly DEF Pc, Ended
    <3>3. HoldInv'
      BY <1>0, <1>2, <3>1, <3>2 DEF HoldInv, Holds, Only, Holding, Writing, InFile, uowVars
    <3>4. OutcomeInv'
      BY <1>0, <1>2, <3>1, <3>2 DEF OutcomeInv, Recorded, Only, Holding, Writing, InFile, uowVars
    <3> QED BY <3>3, <3>4
  <2> QED BY <2>1, <2>2
<1>5. ASSUME Commit(r) PROVE HoldInv' /\ OutcomeInv'
  <2>1. /\ call[r].at = "commit" /\ stored' = staged /\ staged' = staged
        /\ state' = [state EXCEPT ![r] = "COMMITTED"] /\ open' = open /\ lease' = lease
        /\ Moves(r, "close")
    BY <1>5 DEF Commit, CommitTransaction
  <2>2. call'[r].at = "close" /\ state'[r] = "COMMITTED" /\ lease = r
        /\ \A q \in Unit : q # r => state'[q] = state[q]
    BY <1>0, <2>1, MovesOnly DEF Pc, TypeOK, Holds, Holding, Writing
  <2>3. \A q \in Unit : q # r => call[q].at \notin Holding \cup {"close"}
    BY <1>0, <2>2 DEF HoldInv, Holds
  <2>4. staged.runs = stored.runs \cup {r}
    BY <1>0, <2>1 DEF Recorded, Writing
  <2>5. HoldInv'
    BY <1>0, <1>2, <2>1, <2>2, <2>3 DEF HoldInv, Holds, Only, Holding, Writing, InFile
  <2>6. OutcomeInv'
    BY <1>0, <1>2, <2>1, <2>2, <2>3, <2>4
       DEF OutcomeInv, Recorded, Only, Holding, Writing, InFile
  <2> QED BY <2>5, <2>6
<1>6. ASSUME Close(r) \/ Leave(r) \/ Dies(r) PROVE HoldInv' /\ OutcomeInv'
  <2>1. /\ stored' = stored /\ staged' = staged /\ open' = open \ {r}
        /\ lease' = IF lease = r THEN Free ELSE lease
        /\ \A q \in Unit : q # r => state'[q] = state[q]
    BY <1>0, <1>6 DEF Close, Leave, Dies, Released, Exit, UnitDies, CloseAndRelease, TypeOK
  <2>2. r \notin open' /\ lease' # r /\ open' \subseteq {lease'}
    BY <1>0, <2>1, FreeAssumption DEF HoldInv
  <2>3. \/ /\ call[r].at = "close" /\ call'[r].at \in {"exit", "unwind_late"}
           /\ state'[r] = "COMMITTED"
        \/ call[r].at = "exit" /\ call'[r].at = "returned"
        \/ call[r].at = "unwind" /\ call'[r].at = "raised"
        \/ call[r].at = "unwind_late" /\ call'[r].at = "raised_late"
        \/ call'[r].at = "died"
    <3>1. CASE Close(r)
      BY <1>0, <3>1, MovesOnly DEF Close, Released, Pc
    <3>2. CASE Leave(r)
      <4>1. CASE call[r].at = "exit"
        BY <1>0, <3>2, <4>1, MovesOnly DEF Leave, Pc, Ended
      <4>2. CASE call[r].at = "unwind"
        BY <1>0, <3>2, <4>2, MovesOnly DEF Leave, Pc, Ended
      <4>3. CASE call[r].at = "unwind_late"
        BY <1>0, <3>2, <4>3, MovesOnly DEF Leave, Pc, Ended
      <4> QED BY <3>2, <4>1, <4>2, <4>3 DEF Leave
    <3>3. CASE Dies(r)
      BY <1>0, <3>3, MovesOnly DEF Dies, Pc, Ended
    <3> QED BY <1>6, <3>1, <3>2, <3>3
  <2>4. ASSUME NEW q \in Unit, q # r PROVE Holds(q)' /\ Recorded(q)'
    <3>1. /\ call'[q] = call[q] /\ state'[q] = state[q]
          /\ (q \in open' <=> q \in open) /\ (lease' = q <=> lease = q)
      BY <1>2, <2>1, <2>4, FreeAssumption DEF Only
    <3>2. Holds(q) /\ Recorded(q)
      BY <1>0 DEF HoldInv, OutcomeInv
    <3>3. Holds(q)'
      BY <3>1, <3>2 DEF Holds
    <3>4. Recorded(q)'
      BY <2>1, <3>1, <3>2 DEF Recorded
    <3> QED BY <3>3, <3>4
  <2>5. Holds(r)' /\ Recorded(r)'
    BY <1>0, <2>1, <2>2, <2>3 DEF Holds, Recorded, Holding, Writing, InFile
  <2> QED BY <2>2, <2>4, <2>5 DEF HoldInv, OutcomeInv
<1> QED BY <1>3, <1>4, <1>5, <1>6

-----------------------------------------------------------------------------
(* What the database has of a run, and what is published of it *)

Grows ==
  \A path \in DOMAIN published :
    path \in DOMAIN published' /\ published'[path] = published[path]

LEMMA PublishGrows ==
  ASSUME NEW path, NEW body, Publish(path, body)
  PROVE  Grows /\ path \in DOMAIN published' /\ published'[path] = body
BY DEF Publish, Put, Grows

LEMMA ShownKept ==
  ASSUME NEW r, NEW S, Grows, Shown(r, S)
  PROVE  Shown(r, S)'
BY DEF Grows, Shown, IsPublished

LEMMA TellsKept ==
  ASSUME NEW r, NEW d, NEW row, Grows, Tells(r, d, row)
  PROVE  Tells(r, d, row)'
BY DEF Grows, Tells, IsPublished

LEMMA WholeRunKept ==
  ASSUME NEW r \in Unit, Grows, WholeRun(r), stored' = stored
  PROVE  WholeRun(r)'
<1>1. PICK results \in Seq(DocumentResult) :
        /\ Len(results) = Len(Input[r]) /\ InOrder(r, results) /\ Shown(r, Elements(results))
        /\ IsPublished(RunPath(r, "run_json"), results)
        /\ IsPublished(RunPath(r, "run_summary"), results)
        /\ RowsOf(stored, r, Elements(results))
  BY DEF WholeRun
<1>2. Shown(r, Elements(results))'
  BY <1>1, ShownKept
<1>3. /\ IsPublished(RunPath(r, "run_json"), results)'
      /\ IsPublished(RunPath(r, "run_summary"), results)'
  BY <1>1 DEF Grows, IsPublished
<1>4. RowsOf(stored, r, Elements(results))'
  BY <1>1
<1> QED BY <1>1, <1>2, <1>3, <1>4 DEF WholeRun

\* What the database has stays as it is, and what is published grows.
LEMMA StoredKept ==
  ASSUME Inv, Grows, stored' = stored
  PROVE  StoredInv'
<1>1. StoredInv /\ stored.runs \subseteq Unit
  BY RecordsFields DEF Inv, WholeInv, TypeOK
<1>2. ASSUME NEW r \in stored.runs PROVE WholeRun(r)'
  BY <1>1, WholeRunKept DEF StoredInv
<1>3. \A r \in Unit \ stored.runs : RowsOf(stored, r, {})'
  BY <1>1 DEF StoredInv
<1>4. ASSUME NEW d \in DOMAIN stored.documents
      PROVE  \E r \in stored.runs : Tells(r, d, stored.documents[d])'
  <2>1. PICK r \in stored.runs : Tells(r, d, stored.documents[d])
    BY <1>1 DEF StoredInv
  <2>2. PICK row : row = stored.documents[d]
    OBVIOUS
  <2>3. Tells(r, d, row)'
    BY <2>1, <2>2, TellsKept
  <2>4. Tells(r, d, stored.documents[d])'
    BY <2>2, <2>3 DEF Tells
  <2> QED BY <2>4 DEF Tells
<1> QED BY <1>2, <1>3, <1>4 DEF StoredInv

LEMMA WrittenKept ==
  ASSUME Inv, NEW r \in Unit, Grows, Written(r), stored' = stored,
         call'[r].n = call[r].n, call'[r].results = call[r].results,
         staged'.artifacts = staged.artifacts, staged'.items = staged.items
  PROVE  Written(r)'
<1>1. Shown(r, Elements(call[r].results))'
  <2>1. PICK S : S = Elements(call[r].results)
    OBVIOUS
  <2>2. Shown(r, S)'
    BY <2>1, ShownKept DEF Written
  <2> QED BY <2>1, <2>2 DEF Shown, Elements
<1>2. RowsOf(staged, r, Elements(call[r].results))'
  BY DEF Written, RowsOf, ArtifactsOf, ItemsOf
<1>3. \A q \in Unit \ {r} : SameRows(staged', stored', q)
  BY DEF Written, SameRows, ArtifactsOf, ItemsOf
<1> QED BY <1>1, <1>2, <1>3 DEF Written

LEMMA ToldKept ==
  ASSUME NEW r \in Unit, NEW d, Grows, Told(r, d), stored' = stored,
         staged'.documents[d] = staged.documents[d]
  PROVE  Told(r, d)'
<1>1. PICK q \in stored.runs \cup {r} : Tells(q, d, staged.documents[d])
  BY DEF Told
<1>2. PICK row : row = staged.documents[d]
  OBVIOUS
<1>3. Tells(q, d, row)'
  BY <1>1, <1>2, TellsKept
<1>4. Tells(q, d, staged.documents[d])'
  BY <1>2, <1>3 DEF Tells
<1> QED BY <1>4 DEF Told

\* Who writes has the lease: nobody else does.
LEMMA OneWrites ==
  ASSUME Inv, NEW r \in Unit, call[r].at \in Holding \cup {"close"},
         NEW q \in Unit, q # r
  PROVE  call[q].at \notin Holding \cup {"close"}
BY DEF Inv, HoldInv, Holds, Holding

\* A step of a call within its transaction, once it is shown what it does.
LEMMA QuietWhole ==
  ASSUME Inv, NEW r \in Unit, Quiet(r), Grows,
         call'[r].at \in Writing => Progress(r)'
  PROVE  WholeInv'
<1>0. CallInv /\ stored' = stored /\ call[r].at \in Holding
  BY DEF Inv, WholeInv, Quiet, Holding
<1>1. ASSUME NEW q \in Unit
      PROVE  /\ call'[q].at \in Writing => Progress(q)'
             /\ call'[q].at = "start" => call'[q] = NewCall
  <2>1. CASE q = r
    BY <2>1 DEF Quiet, Holding, Writing, InFile
  <2>2. CASE q # r
    <3>1. call'[q] = call[q] /\ call[q].at \notin Writing
      BY <1>0, <2>2, OneWrites DEF Quiet, Only, Holding
    <3> QED BY <1>0, <3>1 DEF CallInv
  <2> QED BY <2>1, <2>2
<1>2. CallInv'
  BY <1>1 DEF CallInv
<1> QED BY <1>0, <1>2, StoredKept DEF WholeInv

\* The calls that write are left alone.
LEMMA AloneKept ==
  ASSUME Inv, NEW q \in Unit, Progress(q), call'[q] = call[q],
         stored' = stored, staged' = staged, published' = published
  PROVE  Progress(q)'
<1>1. Grows
  BY DEF Grows
<1>2. Written(q)'
  BY <1>1, WrittenKept DEF Progress
<1>3. Place(q)'
  BY DEF Progress, Place, OneResult, Source, IsPublished
<1>4. RowsTold(q)'
  <2>1. ASSUME NEW d \in DOMAIN staged'.documents, Told(q, d) PROVE Told(q, d)'
    BY <1>1, <2>1, ToldKept
  <2> QED BY <2>1 DEF Progress, RowsTold, Source
<1> QED BY <1>2, <1>3, <1>4 DEF Progress

LEMMA LeaveWhole ==
  ASSUME Inv, NEW r \in Unit,
         Close(r) \/ Leave(r) \/ Dies(r) \/ (Begin(r) /\ ~Enter(r))
  PROVE  WholeInv'
<1>0. TypeOK /\ WholeInv
  BY DEF Inv
<1>1. stored' = stored /\ staged' = staged /\ published' = published
  BY DEF Close, Leave, Dies, Begin, EnterFails, Released, Exit, UnitDies, uowVars
<1>2. \E at \in {"exit", "unwind_late", "returned", "raised", "raised_late", "died", "refused"} :
        Moves(r, at)
  BY DEF Close, Leave, Dies, Begin
<1>3. Only(r) /\ call'[r].at \notin Writing \cup {"start"}
  <2>1. PICK at \in {"exit", "unwind_late", "returned", "raised", "raised_late", "died",
                     "refused"} : Moves(r, at)
    BY <1>2
  <2>2. at \in Pc /\ at \notin Writing \cup {"start"}
    BY DEF Pc, Ended, Writing, InFile
  <2> QED BY <1>0, <2>1, <2>2, MovesOnly
<1>4. Grows
  BY <1>1 DEF Grows
<1>5. ASSUME NEW q \in Unit
      PROVE  /\ call'[q].at \in Writing => Progress(q)'
             /\ call'[q].at = "start" => call'[q] = NewCall
  BY <1>0, <1>1, <1>3, AloneKept DEF Only, WholeInv, CallInv
<1>6. CallInv'
  BY <1>5 DEF CallInv
<1> QED BY <1>1, <1>4, <1>6, StoredKept DEF WholeInv

LEMMA EnterWhole ==
  ASSUME Inv, NEW r \in Unit, Begin(r), Enter(r)
  PROVE  WholeInv'
<1>0. TypeOK /\ WholeInv /\ HoldInv /\ OutcomeInv
  BY DEF Inv
<1>1. /\ stored' = stored /\ staged' = stored /\ published' = published
      /\ call[r].at = "start" /\ lease = Free
  BY <1>0 DEF Begin, Enter, EnterFails, uowVars, TypeOK
<1>2. Moves(r, "create")
  BY FreeAssumption DEF Begin, Enter, EnterFails, uowVars
<1>3. Only(r) /\ call'[r].at = "create" /\ call'[r].n = 1 /\ call'[r].results = <<>>
  BY <1>0, <1>1, <1>2, MovesOnly DEF Pc, WholeInv, CallInv, NewCall
<1>4. Grows
  BY <1>1 DEF Grows
<1>5. r \notin stored.runs /\ RowsOf(stored, r, {})
  BY <1>0, <1>1 DEF OutcomeInv, Recorded, WholeInv, StoredInv
<1>6. Written(r)'
  <2>1. Elements(<<>>) = {} /\ Len(<<>>) = 0
    BY DEF Elements
  <2>2. InOrder(r, <<>>) /\ Shown(r, {})'
    BY DEF InOrder, Shown
  <2>3. SameRows(stored, stored, r)
    BY DEF SameRows
  <2>4. RowsOf(staged, r, {})'
    BY <1>1, <1>5
  <2>5. \A q \in Unit \ {r} : SameRows(staged, stored, q)'
    BY <1>1 DEF SameRows, ArtifactsOf, ItemsOf
  <2>6. Shown(r, Elements(call[r].results))' /\ RowsOf(staged, r, Elements(call[r].results))'
    BY <1>3, <2>1, <2>2, <2>4 DEF Shown, RowsOf, Artifacts, Items
  <2> QED BY <1>3, <2>1, <2>2, <2>5, <2>6 DEF Written
<1>7. Place(r)'
  <2>1. 1 <= Len(Input[r])
    BY InputAssumption
  <2> QED BY <1>3, <2>1 DEF Place, InFile
<1>8. RowsTold(r)'
  <2>1. StoredInv'
    BY <1>1, <1>4, StoredKept
  <2> QED BY <1>1, <2>1 DEF StoredInv, RowsTold, Told, Tells
<1>9. ASSUME NEW q \in Unit
      PROVE  /\ call'[q].at \in Writing => Progress(q)'
             /\ call'[q].at = "start" => call'[q] = NewCall
  <2>1. CASE q = r
    BY <1>3, <1>6, <1>7, <1>8, <2>1 DEF Progress
  <2>2. CASE q # r
    <3>1. call'[q] = call[q] /\ call[q].at \notin Writing
      BY <1>0, <1>1, <1>3, <2>2, FreeAssumption DEF Only, HoldInv, Holds, Holding
    <3> QED BY <1>0, <3>1 DEF WholeInv, CallInv
  <2> QED BY <2>1, <2>2
<1>10. CallInv'
  BY <1>9 DEF CallInv
<1> QED BY <1>1, <1>4, <1>10, StoredKept DEF WholeInv

LEMMA CommitWhole ==
  ASSUME Inv, NEW r \in Unit, Commit(r)
  PROVE  WholeInv'
<1>0. TypeOK /\ WholeInv /\ StoredInv /\ Recorded(r) /\ staged.runs \subseteq Unit
  BY InFileFacts, RecordsFields DEF Inv, WholeInv, TypeOK
<1>1. /\ call[r].at = "commit" /\ stored' = staged /\ staged' = staged
      /\ published' = published /\ Moves(r, "close")
  BY DEF Commit, CommitTransaction
<1>2. Only(r) /\ call'[r].at = "close"
  BY <1>0, <1>1, MovesOnly DEF Pc
<1>3. Progress(r) /\ staged.runs = stored.runs \cup {r} /\ r \notin stored.runs
  BY <1>0, <1>1 DEF WholeInv, CallInv, Recorded, Holding, Writing
<1>4. \A q \in Unit \ {r} : SameRows(staged, stored, q)
  BY <1>3 DEF Progress, Written, SameRows
<1>5. ASSUME NEW q \in stored'.runs PROVE WholeRun(q)'
  <2>1. CASE q = r
    <3>1. PICK results \in Seq(DocumentResult) : results = call[r].results
      BY <1>0 DEF TypeOK, Call
    <3>2. Len(results) = Len(Input[r]) /\ InOrder(r, results) /\ Shown(r, Elements(results))
      <4>1. Len(results) = call[r].n - 1 /\ call[r].n = Len(Input[r]) + 1
        BY <1>1, <1>3, <3>1 DEF Progress, Written, Place
      <4>2. Len(Input[r]) \in Nat
        BY InputAssumption
      <4> QED BY <1>3, <3>1, <4>1, <4>2 DEF Progress, Written
    <3>3. /\ IsPublished(RunPath(r, "run_json"), results)
          /\ IsPublished(RunPath(r, "run_summary"), results)
          /\ RowsOf(staged, r, Elements(results))
      BY <1>1, <1>3, <3>1 DEF Progress, Written, Place
    <3> QED BY <1>1, <2>1, <3>2, <3>3 DEF WholeRun, Shown, IsPublished
  <2>2. CASE q # r
    <3>1. q \in stored.runs /\ WholeRun(q) /\ SameRows(staged, stored, q)
      BY <1>0, <1>1, <1>3, <1>4, <2>2 DEF StoredInv
    <3>2. PICK results \in Seq(DocumentResult) :
        /\ Len(results) = Len(Input[q]) /\ InOrder(q, results) /\ Shown(q, Elements(results))
        /\ IsPublished(RunPath(q, "run_json"), results)
        /\ IsPublished(RunPath(q, "run_summary"), results)
        /\ RowsOf(stored, q, Elements(results))
      BY <3>1 DEF WholeRun
    <3>3. RowsOf(staged, q, Elements(results))
      BY <3>1, <3>2 DEF SameRows, RowsOf
    <3> QED BY <1>1, <3>2, <3>3 DEF WholeRun, Shown, IsPublished
  <2> QED BY <2>1, <2>2
<1>6. ASSUME NEW q \in Unit \ stored'.runs PROVE RowsOf(staged, q, {})
  <2>1. q # r /\ q \notin stored.runs
    BY <1>1, <1>3
  <2> QED BY <1>0, <1>4, <2>1 DEF StoredInv, SameRows, RowsOf
<1>7. ASSUME NEW d \in DOMAIN staged.documents
      PROVE  \E q \in staged.runs : Tells(q, d, staged.documents[d])
  BY <1>1, <1>3 DEF Progress, RowsTold, Told
<1>8. StoredInv'
  <2>1. \A q \in stored'.runs : WholeRun(q)'
    BY <1>5
  <2>2. \A q \in Unit \ stored'.runs : RowsOf(stored, q, {})'
    BY <1>1, <1>6 DEF RowsOf
  <2>3. (\A d \in DOMAIN stored.documents :
           \E q \in stored.runs : Tells(q, d, stored.documents[d]))'
    BY <1>1, <1>7 DEF Tells, IsPublished
  <2> QED BY <2>1, <2>2, <2>3 DEF StoredInv
<1>9. ASSUME NEW q \in Unit
      PROVE  /\ call'[q].at \in Writing => Progress(q)'
             /\ call'[q].at = "start" => call'[q] = NewCall
  <2>1. CASE q = r
    BY <1>2, <2>1 DEF Writing, InFile
  <2>2. CASE q # r
    <3>1. call'[q] = call[q] /\ call[q].at \notin Writing
      BY <1>1, <1>2, <2>2, OneWrites DEF Only, Holding, Writing
    <3> QED BY <1>0, <3>1 DEF WholeInv, CallInv
  <2> QED BY <2>1, <2>2
<1>10. CallInv'
  BY <1>9 DEF CallInv
<1> QED BY <1>8, <1>10 DEF WholeInv

-----------------------------------------------------------------------------
\* A step that changes the tables in nothing but the runs, or not at all.
LEMMA SameTables ==
  ASSUME Inv, NEW r \in Unit, Quiet(r), Grows, call[r].at # "json",
         call'[r].n = call[r].n, call'[r].results = call[r].results,
         staged'.documents = staged.documents, staged'.artifacts = staged.artifacts,
         staged'.items = staged.items
  PROVE  Written(r)' /\ RowsTold(r)'
<1>1. Progress(r) /\ stored' = stored
  BY InFileFacts DEF Quiet
<1>2. Written(r)'
  BY <1>1, WrittenKept DEF Progress
<1>3. ASSUME NEW d \in DOMAIN staged.documents PROVE Told(r, d)'
  <2>1. Told(r, d)
    BY <1>1 DEF Progress, RowsTold
  <2> QED BY <1>1, <2>1, ToldKept
<1>4. RowsTold(r)'
  BY <1>3 DEF RowsTold
<1> QED BY <1>2, <1>4

LEMMA CreateRunWhole ==
  ASSUME Inv, NEW r \in Unit, CreateRun(r)
  PROVE  WholeInv'
<1>0. TypeOK /\ Quiet(r)
  BY InFileFacts, QuietShape
<1>1. /\ call[r].at = "create" /\ Moves(r, "hash") /\ published' = published
      /\ staged'.documents = staged.documents /\ staged'.artifacts = staged.artifacts
      /\ staged'.items = staged.items
  BY <1>0, CreateRunDoes
<1>2. /\ call'[r].at = "hash" /\ call'[r].n = call[r].n /\ call'[r].results = call[r].results
  BY <1>0, <1>1, MovesOnly DEF Pc
<1>3. Grows
  BY <1>1 DEF Grows
<1>4. Progress(r)
  BY <1>0, InFileFacts DEF Quiet
<1>5. Place(r)'
  BY <1>1, <1>2, <1>4 DEF Progress, Place, InFile
<1>6. Progress(r)'
  BY <1>0, <1>1, <1>2, <1>3, <1>5, SameTables DEF Progress
<1> QED BY <1>0, <1>3, <1>6, QuietWhole

LEMMA ParseWhole ==
  ASSUME Inv, NEW r \in Unit, Hash(r) \/ Read(r)
  PROVE  WholeInv'
<1>0. TypeOK /\ Quiet(r)
  BY InFileFacts, QuietShape
<1>1. /\ call[r].at \in {"hash", "read"} /\ UNCHANGED <<uowVars, published>>
  BY DEF Hash, Read
<1>2. Grows /\ staged' = staged
  BY <1>1 DEF Grows, uowVars
<1>3. Progress(r)
  BY <1>0, InFileFacts DEF Quiet
<1>4. ASSUME call'[r].at \in Writing PROVE Progress(r)'
  <2>1. /\ call'[r].at \in {"read", "record"} /\ call'[r].parse.hash \in Content
        /\ call'[r].n = call[r].n /\ call'[r].results = call[r].results
    <3>1. CASE Hash(r)
      <4>1. disk[Source(r)] # Gone
        BY <1>0, <1>4, <3>1, MovesOnly DEF Hash, Pc, Writing, InFile
      <4> QED BY <3>1, <4>1, HashDoes
    <3>2. CASE Read(r)
      BY <3>2, ReadDoes, InFileFacts DEF Read, InFile
    <3> QED BY <3>1, <3>2
  <2>2. Place(r)'
    BY <1>1, <1>3, <2>1 DEF Progress, Place, InFile
  <2> QED BY <1>0, <1>1, <1>2, <2>1, <2>2, SameTables DEF Progress
<1> QED BY <1>0, <1>2, <1>4, QuietWhole

LEMMA FailsWhole ==
  ASSUME Inv, NEW r \in Unit, Fails(r) \/ Conflicts(r)
  PROVE  WholeInv'
<1>1. Moves(r, "unwind") /\ published' = published /\ TypeOK /\ Quiet(r)
  BY InFileFacts, QuietShape DEF Fails, Conflicts
<1>2. call'[r].at = "unwind" /\ Grows
  BY <1>1, MovesOnly DEF Pc, Grows
<1> QED BY <1>1, <1>2, QuietWhole DEF Writing, InFile

LEMMA RecordDocumentWhole ==
  ASSUME Inv, NEW r \in Unit, RecordDocument(r)
  PROVE  WholeInv'
<1> DEFINE row == [source |-> Source(r), status |-> call[r].parse.status]
           doc == call[r].parse.hash
<1>0. TypeOK /\ Quiet(r) /\ call[r].at = "record" /\ Progress(r)
  BY InFileFacts, QuietShape DEF Quiet, RecordDocument
<1>1. Source(r) \in File /\ doc \in Content
  BY <1>0, InFileFacts DEF InFile
<1>2. /\ Moves(r, "json") /\ row \in Row /\ published' = published
      /\ staged'.documents = Put(staged.documents, doc, row)
      /\ staged'.artifacts = staged.artifacts /\ staged'.items = staged.items
  BY <1>0, <1>1, RecordDocumentDoes
<1>3. /\ call'[r].at = "json" /\ call'[r].n = call[r].n /\ call'[r].results = call[r].results
      /\ call'[r].parse = call[r].parse
  BY <1>0, <1>2, MovesOnly DEF Pc
<1>4. Grows /\ stored' = stored
  BY <1>0, <1>2 DEF Grows, Quiet
<1>5. Written(r)'
  BY <1>0, <1>2, <1>3, <1>4, WrittenKept DEF Progress
<1>6. Place(r)'
  BY <1>0, <1>1, <1>3 DEF Progress, Place, InFile
<1>7. RowsTold(r)'
  <2>1. staged.documents \in Rows
    BY <1>0, RecordsFields DEF TypeOK
  <2>2. row = ([source |-> Source(r), status |-> call[r].parse.status])'
    BY <1>3 DEF Source
  <2> HIDE DEF row, doc
  <2>3. /\ DOMAIN staged'.documents = DOMAIN staged.documents \cup {doc}
        /\ staged'.documents[doc] = row
        /\ \A d \in DOMAIN staged.documents : d # doc => staged'.documents[d] = staged.documents[d]
    <3>1. PICK f \in Rows, x \in Content, v \in Row :
            f = staged.documents /\ x = doc /\ v = row
      BY <1>1, <1>2, <2>1
    <3>2. PICK g : g = Put(f, x, v)
      OBVIOUS
    <3>3. /\ DOMAIN g = DOMAIN f \cup {x} /\ g[x] = v
          /\ \A d \in DOMAIN f : d # x => g[d] = f[d]
      BY <3>2, PutRow
    <3>4. staged'.documents = g
      BY <1>2, <3>1, <3>2
    <3> QED BY <3>1, <3>3, <3>4
  <2>4. ASSUME NEW d \in DOMAIN staged.documents, d # doc PROVE Told(r, d)'
    <3>1. Told(r, d)
      BY <1>0, <2>4 DEF Progress, RowsTold
    <3> QED BY <1>4, <2>3, <2>4, <3>1, ToldKept
  <2>5. staged'.documents[doc] = ([source |-> Source(r), status |-> call[r].parse.status])'
    BY <2>2, <2>3
  <2>6. call'[r].parse.hash = doc
    BY <1>3 DEF doc
  <2> QED BY <1>3, <2>3, <2>4, <2>5, <2>6 DEF RowsTold
<1> QED BY <1>0, <1>4, <1>5, <1>6, <1>7, QuietWhole DEF Progress

\* A file of the run that is published: what it is of the run stays the same.
LEMMA PublishShape ==
  ASSUME Inv, NEW r \in Unit, NEW at \in Writing \ {"json"}, Quiet(r), Moves(r, at),
         UNCHANGED staged, Grows, call[r].at # "json"
  PROVE  /\ Written(r)' /\ RowsTold(r)' /\ Place(r) /\ call'[r].at = at
         /\ call'[r].n = call[r].n /\ call'[r].results = call[r].results
         /\ call'[r].parse = call[r].parse /\ OneResult(r)' = OneResult(r)
<1>1. at \in Pc /\ TypeOK /\ Progress(r)
  BY InFileFacts DEF Writing, InFile, Pc, Quiet
<1>2. /\ call'[r].at = at /\ call'[r].n = call[r].n /\ call'[r].results = call[r].results
      /\ call'[r].parse = call[r].parse
  BY <1>1, MovesOnly
<1> QED BY <1>1, <1>2, SameTables DEF Progress, OneResult, Source

LEMMA PublishJsonWhole ==
  ASSUME Inv, NEW r \in Unit, PublishJson(r)
  PROVE  WholeInv'
<1> DEFINE doc  == call[r].parse.hash
           path == DocumentPath(r, doc, "document_json")
<1>0. TypeOK /\ Quiet(r) /\ call[r].at = "json" /\ Progress(r) /\ staged' = staged
      /\ stored' = stored
  BY InFileFacts, QuietShape DEF Quiet, PublishJson, uowVars
<1>1. Source(r) \in File /\ doc \in Content /\ call[r].parse \in Parse
  BY <1>0, InFileFacts DEF InFile, TypeOK, Call
<1>2. /\ OneResult(r) \in DocumentResult /\ OneResult(r).source = Source(r)
      /\ OneResult(r).parse = call[r].parse
  BY <1>1, ResultType DEF OneResult
<1>3. Publish(path, OneResult(r)) /\ Moves(r, "review")
  BY DEF PublishJson
<1>4. Grows /\ path \in DOMAIN published' /\ published'[path] = OneResult(r)
  BY <1>3, PublishGrows
<1>5. /\ call'[r].at = "review" /\ call'[r].n = call[r].n
      /\ call'[r].results = call[r].results /\ call'[r].parse = call[r].parse
  BY <1>0, <1>3, MovesOnly DEF Pc
<1>6. OneResult(r)' = OneResult(r)
  BY <1>5 DEF OneResult, Source
<1>7. Written(r)'
  BY <1>0, <1>4, <1>5, WrittenKept DEF Progress
<1>8. Place(r)'
  BY <1>0, <1>1, <1>4, <1>5, <1>6 DEF Progress, Place, InFile, IsPublished
<1>9. RowsTold(r)'
  <2>1. ASSUME NEW d \in DOMAIN staged.documents PROVE Told(r, d)'
    <3>1. CASE Told(r, d)
      BY <1>0, <1>4, <3>1, ToldKept
    <3>2. CASE ~Told(r, d)
      <4>1. /\ d = doc
            /\ staged.documents[d] = [source |-> Source(r), status |-> call[r].parse.status]
        BY <1>0, <3>2 DEF Progress, RowsTold
      <4>2. PICK s \in DocumentResult : s = OneResult(r)
        BY <1>2
      <4>3. staged.documents[d] = [source |-> s.source, status |-> s.parse.status]
        BY <1>2, <4>1, <4>2
      <4>4. Tells(r, d, staged.documents[d])'
        BY <1>0, <1>4, <4>1, <4>2, <4>3 DEF Tells, IsPublished
      <4> QED BY <4>4 DEF Told
    <3> QED BY <3>1, <3>2
  <2> QED BY <1>0, <2>1 DEF RowsTold
<1> QED BY <1>0, <1>4, <1>7, <1>8, <1>9, QuietWhole DEF Progress

LEMMA PublishRestWhole ==
  ASSUME Inv, NEW r \in Unit,
         PublishReview(r) \/ PublishRunJson(r) \/ PublishSummary(r)
  PROVE  WholeInv'
<1>0. Quiet(r) /\ call[r].at # "json" /\ staged' = staged
  BY QuietShape DEF PublishReview, PublishRunJson, PublishSummary, uowVars
<1>1. CASE PublishReview(r)
  <2> DEFINE path == DocumentPath(r, call[r].parse.hash, "review_markdown")
  <2>1. /\ Publish(path, OneResult(r)) /\ Moves(r, "item") /\ call[r].at = "review"
        /\ "item" \in Writing \ {"json"}
    BY <1>1 DEF PublishReview, Writing, InFile
  <2>2. Grows /\ path \in DOMAIN published' /\ published'[path] = OneResult(r)
    BY <2>1, PublishGrows
  <2>3. /\ Written(r)' /\ RowsTold(r)' /\ Place(r) /\ call'[r].at = "item"
        /\ call'[r].n = call[r].n /\ call'[r].results = call[r].results
        /\ call'[r].parse = call[r].parse /\ OneResult(r)' = OneResult(r)
    BY <1>0, <2>1, <2>2, PublishShape
  <2>4. Place(r)'
    BY <2>1, <2>2, <2>3 DEF Place, InFile, IsPublished, Grows
  <2> QED BY <1>0, <2>2, <2>3, <2>4, QuietWhole DEF Progress
<1>2. CASE PublishRunJson(r)
  <2> DEFINE path == RunPath(r, "run_json")
  <2>1. /\ Publish(path, call[r].results) /\ Moves(r, "summary") /\ call[r].at = "run_json"
        /\ "summary" \in Writing \ {"json"}
    BY <1>2 DEF PublishRunJson, Writing, InFile
  <2>2. Grows /\ path \in DOMAIN published' /\ published'[path] = call[r].results
    BY <2>1, PublishGrows
  <2>3. /\ Written(r)' /\ RowsTold(r)' /\ Place(r) /\ call'[r].at = "summary"
        /\ call'[r].n = call[r].n /\ call'[r].results = call[r].results
    BY <1>0, <2>1, <2>2, PublishShape
  <2>4. Place(r)'
    BY <2>1, <2>2, <2>3 DEF Place, InFile, IsPublished, Grows
  <2> QED BY <1>0, <2>2, <2>3, <2>4, QuietWhole DEF Progress
<1>3. CASE PublishSummary(r)
  <2> DEFINE path == RunPath(r, "run_summary")
  <2>1. /\ Publish(path, call[r].results) /\ Moves(r, "commit") /\ call[r].at = "summary"
        /\ "commit" \in Writing \ {"json"}
    BY <1>3 DEF PublishSummary, Writing, InFile
  <2>2. Grows /\ path \in DOMAIN published' /\ published'[path] = call[r].results
    BY <2>1, PublishGrows
  <2>3. /\ Written(r)' /\ RowsTold(r)' /\ Place(r) /\ call'[r].at = "commit"
        /\ call'[r].n = call[r].n /\ call'[r].results = call[r].results
    BY <1>0, <2>1, <2>2, PublishShape
  <2>4. Place(r)'
    BY <2>1, <2>2, <2>3 DEF Place, InFile, IsPublished, Grows
  <2> QED BY <1>0, <2>2, <2>3, <2>4, QuietWhole DEF Progress
<1> QED BY <1>1, <1>2, <1>3

\* The tables u are the tables t and what the results T are recorded as.
Adds(t, u, r, T) ==
  u.artifacts = t.artifacts \cup Artifacts(r, T) /\ u.items = t.items \cup Items(r, T)

LEMMA RowsGrow ==
  ASSUME NEW t, NEW u, NEW r, NEW S, NEW T, Adds(t, u, r, T)
  PROVE  RowsOf(t, r, S) => RowsOf(u, r, S \cup T)
<1>1. \A a \in Artifacts(r, T) : a.run = r
  BY DEF Artifacts
<1>2. \A i \in Items(r, T) : i[1] = r
  BY DEF Items
<1>3. Artifacts(r, S \cup T) = Artifacts(r, S) \cup Artifacts(r, T)
  BY DEF Artifacts
<1>4. Items(r, S \cup T) = Items(r, S) \cup Items(r, T)
  BY DEF Items
<1>5. ArtifactsOf(u, r) = ArtifactsOf(t, r) \cup Artifacts(r, T)
  BY <1>1 DEF ArtifactsOf, Adds
<1>6. ItemsOf(u, r) = ItemsOf(t, r) \cup Items(r, T)
  BY <1>2 DEF ItemsOf, Adds
<1> QED BY <1>3, <1>4, <1>5, <1>6 DEF RowsOf

\* What is recorded of a run is recorded of no other.
LEMMA OthersKept ==
  ASSUME NEW t, NEW u, NEW r, NEW T, Adds(t, u, r, T)
  PROVE  \A q : q # r => SameRows(u, t, q)
<1>1. \A a \in Artifacts(r, T) : a.run = r
  BY DEF Artifacts
<1>2. \A i \in Items(r, T) : i[1] = r
  BY DEF Items
<1>3. \A q : q # r => ArtifactsOf(u, q) = ArtifactsOf(t, q)
  BY <1>1 DEF ArtifactsOf, Adds
<1>4. \A q : q # r => ItemsOf(u, q) = ItemsOf(t, q)
  BY <1>2 DEF ItemsOf, Adds
<1> QED BY <1>3, <1>4 DEF SameRows

LEMMA RecordItemWhole ==
  ASSUME Inv, NEW r \in Unit, RecordItem(r)
  PROVE  WholeInv'
<1>0. /\ TypeOK /\ Quiet(r) /\ call[r].at = "item" /\ Progress(r)
      /\ Source(r) \in File /\ call[r].n < Len(Input[r]) + 1
      /\ call[r].parse.hash \in Content /\ call[r].parse \in Parse
  BY InFileFacts, QuietShape DEF Quiet, RecordItem, InFile, TypeOK, Call
<1>1. PICK one, T : one = OneResult(r) /\ T = {one}
  OBVIOUS
<1>2. /\ one \in DocumentResult /\ one.source = Source(r) /\ one.parse = call[r].parse
  BY <1>0, <1>1, ResultType DEF OneResult
<1>3. /\ staged'.documents = staged.documents
      /\ staged'.artifacts = staged.artifacts \cup Artifacts(r, T)
      /\ staged'.items = staged.items \cup Items(r, T)
      /\ call'[r].n = call[r].n + 1
      /\ call'[r].at = (IF call[r].n < Len(Input[r]) THEN "hash" ELSE "run_json")
      /\ call'[r].results = Append(call[r].results, one)
      /\ published' = published /\ stored' = stored
  BY <1>0, <1>1, RecordItemDoes
<1>4. Grows
  BY <1>3 DEF Grows
<1>5. PICK old \in Seq(DocumentResult), new \in Seq(DocumentResult) :
        old = call[r].results /\ new = call'[r].results /\ new = Append(old, one)
  <2>1. call[r].results \in Seq(DocumentResult)
    BY <1>0 DEF TypeOK, Call
  <2>2. Append(call[r].results, one) \in Seq(DocumentResult)
    BY <1>2, <2>1
  <2>3. call'[r].results \in Seq(DocumentResult)
    BY <1>3, <2>2
  <2> QED BY <1>3, <2>1, <2>3
<1>6. /\ call[r].n \in Nat /\ Len(Input[r]) \in Nat
      /\ Len(old) = call[r].n - 1 /\ Len(new) = call[r].n
  <2>1. Len(new) = Len(old) + 1
    BY <1>2, <1>5
  <2>2. call[r].n \in Nat /\ Len(Input[r]) \in Nat
    BY <1>0, InputAssumption DEF TypeOK, Call
  <2> QED BY <1>0, <1>5, <2>1, <2>2 DEF Progress, Written
<1>7. Elements(new) = Elements(old) \cup T
  <2>1. /\ DOMAIN new = DOMAIN old \cup {call[r].n} /\ new[call[r].n] = one
        /\ \A i \in DOMAIN old : new[i] = old[i]
    BY <1>2, <1>5, <1>6
  <2> QED BY <1>1, <2>1 DEF Elements
<1>8. InOrder(r, new)
  <2>1. /\ DOMAIN new = DOMAIN old \cup {call[r].n} /\ new[call[r].n] = one
        /\ \A i \in DOMAIN old : new[i] = old[i]
    BY <1>2, <1>5, <1>6
  <2>2. InOrder(r, old) /\ one.source = Input[r][call[r].n]
    BY <1>0, <1>2, <1>5 DEF Progress, Written, Source
  <2> QED BY <2>1, <2>2 DEF InOrder
<1>9. Shown(r, Elements(new))'
  <2>1. Shown(r, Elements(old))
    BY <1>0, <1>5 DEF Progress, Written
  <2>2. Shown(r, T)
    BY <1>0, <1>1, <1>2 DEF Progress, Place, Shown, Hashed, DocumentKind
  <2>3. Shown(r, Elements(new))
    BY <1>7, <2>1, <2>2 DEF Shown
  <2> QED BY <1>4, <2>3, ShownKept
<1>10. RowsOf(staged', r, Elements(new)) /\ \A q \in Unit \ {r} : SameRows(staged', stored', q)
  <2>1. PICK t, u : t = staged /\ u = staged'
    OBVIOUS
  <2>2. PICK S : S = Elements(old)
    OBVIOUS
  <2>3. RowsOf(t, r, S)
    BY <1>0, <1>5, <2>1, <2>2 DEF Progress, Written
  <2>4. RowsOf(u, r, S \cup T) /\ \A q : q # r => SameRows(u, t, q)
    <3>1. Adds(t, u, r, T)
      BY <1>3, <2>1 DEF Adds
    <3>2. RowsOf(t, r, S) => RowsOf(u, r, S \cup T)
      BY <3>1, RowsGrow
    <3>3. \A q : q # r => SameRows(u, t, q)
      BY <3>1, OthersKept
    <3> QED BY <2>3, <3>2, <3>3
  <2>5. \A q \in Unit \ {r} : SameRows(t, stored, q)
    BY <1>0, <2>1 DEF Progress, Written, SameRows
  <2>6. \A q \in Unit \ {r} : SameRows(u, stored, q)
    BY <2>4, <2>5 DEF SameRows
  <2> QED BY <1>3, <1>7, <2>1, <2>2, <2>4, <2>6 DEF SameRows
<1>11. Written(r)'
  <2>1. Len(new) = call'[r].n - 1
    BY <1>3, <1>6
  <2>2. /\ InOrder(r, call[r].results)' /\ Shown(r, Elements(call[r].results))'
        /\ RowsOf(staged, r, Elements(call[r].results))'
    BY <1>5, <1>8, <1>9, <1>10 DEF InOrder, Shown, Elements, RowsOf
  <2>3. \A q \in Unit \ {r} : SameRows(staged, stored, q)'
    BY <1>10 DEF SameRows
  <2> QED BY <1>5, <2>1, <2>2, <2>3 DEF Written
<1>12. Place(r)'
  <2>1. CASE call[r].n < Len(Input[r])
    <3>1. call'[r].at = "hash" /\ call'[r].n <= Len(Input[r])
      BY <1>3, <1>6, <2>1
    <3> QED BY <3>1 DEF Place, InFile
  <2>2. CASE ~(call[r].n < Len(Input[r]))
    <3>1. call'[r].at = "run_json" /\ call'[r].n = Len(Input[r]) + 1
      BY <1>0, <1>3, <1>6, <2>2
    <3> QED BY <3>1 DEF Place, InFile
  <2> QED BY <2>1, <2>2
<1>13. RowsTold(r)'
  <2>1. ASSUME NEW d \in DOMAIN staged.documents PROVE Told(r, d)'
    <3>1. Told(r, d)
      BY <1>0 DEF Progress, RowsTold
    <3> QED BY <1>3, <1>4, <3>1, ToldKept
  <2> QED BY <1>3, <2>1 DEF RowsTold
<1> QED BY <1>0, <1>4, <1>11, <1>12, <1>13, QuietWhole DEF Progress

\* What nobody's step changes but the files.
LEMMA AsideKept ==
  ASSUME Inv, UNCHANGED <<uowVars, published, call>>, disk' \in [File -> Content \cup {Gone}],
         edits' \in 0..MaxEdits
  PROVE  Inv'
<1>1. TypeOK' /\ HoldInv' /\ OutcomeInv'
  BY DEF Inv, TypeOK, HoldInv, Holds, OutcomeInv, Recorded, uowVars
<1>2. Grows /\ stored' = stored /\ staged' = staged /\ published' = published /\ call' = call
  BY DEF Grows, uowVars
<1>3. ASSUME NEW q \in Unit
      PROVE  /\ call'[q].at \in Writing => Progress(q)'
             /\ call'[q].at = "start" => call'[q] = NewCall
  BY <1>2, AloneKept DEF Inv, WholeInv, CallInv
<1>4. CallInv'
  BY <1>3 DEF CallInv
<1> QED BY <1>1, <1>2, <1>4, StoredKept DEF Inv, WholeInv

LEMMA EditKeeps == Inv /\ Edit => Inv'
<1> SUFFICES ASSUME Inv, Edit PROVE Inv'
  OBVIOUS
<1>1. disk' \in [File -> Content \cup {Gone}] /\ UNCHANGED <<uowVars, published, call>>
  BY DEF Edit, Inv, TypeOK
<1>2. edits' \in 0..MaxEdits
  <2>1. edits \in 0..MaxEdits /\ edits < MaxEdits /\ edits' = edits + 1
    BY DEF Edit, Inv, TypeOK
  <2> QED BY <2>1, BoundAssumption
<1> QED BY <1>1, <1>2, AsideKept

LEMMA InitInv == Init => Inv
<1> SUFFICES ASSUME Init PROVE Inv
  OBVIOUS
<1>1. \A r \in Unit : call[r] = NewCall /\ call[r].at = "start"
  BY DEF Init, NewCall
<1>2. /\ state = [r \in Unit |-> "NEW"] /\ open = {} /\ lease = Free
      /\ stored = NoRecords /\ staged = NoRecords
  BY DEF Init, UowInit
<1>3. /\ NoRecords.runs = {} /\ NoRecords.artifacts = {} /\ NoRecords.items = {}
      /\ NoRecords.documents = <<>>
  BY DEF NoRecords
<1>4. HoldInv
  BY <1>1, <1>2, FreeAssumption DEF HoldInv, Holds, Holding, Writing, InFile
<1>5. OutcomeInv
  BY <1>1, <1>2, <1>3 DEF OutcomeInv, Recorded, Holding, Writing, InFile
<1>6. StoredInv
  <2>1. ASSUME NEW r \in Unit PROVE RowsOf(stored, r, {})
    <3>1. Artifacts(r, {}) = {} /\ Items(r, {}) = {}
      BY DEF Artifacts, Items
    <3>2. ArtifactsOf(stored, r) = {} /\ ItemsOf(stored, r) = {}
      BY <1>2, <1>3 DEF ArtifactsOf, ItemsOf
    <3> QED BY <3>1, <3>2 DEF RowsOf
  <2>2. DOMAIN stored.documents = {}
    BY <1>2, <1>3
  <2> QED BY <1>2, <1>3, <2>1, <2>2 DEF StoredInv
<1>7. CallInv
  BY <1>1 DEF CallInv, Writing, InFile
<1> QED BY <1>4, <1>5, <1>6, <1>7, InitType DEF Inv, WholeInv

LEMMA InvStep == Inv /\ [Next]_vars => Inv'
<1> SUFFICES ASSUME Inv, [Next]_vars PROVE Inv'
  OBVIOUS
<1>1. CASE UNCHANGED vars
  BY <1>1, AsideKept DEF vars, Inv, TypeOK
<1>2. ASSUME NEW r \in Unit,
             \/ CreateRun(r) \/ Hash(r) \/ Read(r) \/ RecordDocument(r)
             \/ PublishJson(r) \/ PublishReview(r) \/ Conflicts(r) \/ RecordItem(r)
             \/ PublishRunJson(r) \/ PublishSummary(r) \/ Fails(r)
      PROVE  Inv'
  BY <1>2, QuietOutcome, CreateRunWhole, ParseWhole, RecordDocumentWhole, PublishJsonWhole,
     PublishRestWhole, RecordItemWhole, FailsWhole DEF Inv
<1>3. ASSUME NEW r \in Unit, Begin(r) \/ Commit(r) \/ Close(r) \/ Leave(r) \/ Dies(r)
      PROVE  Inv'
  <2>1. TypeOK' /\ HoldInv' /\ OutcomeInv'
    BY <1>3, UnitOutcome
  <2>2. CASE Begin(r) /\ Enter(r)
    BY <2>1, <2>2, EnterWhole DEF Inv
  <2>3. CASE Commit(r)
    BY <2>1, <2>3, CommitWhole DEF Inv
  <2>4. CASE Close(r) \/ Leave(r) \/ Dies(r) \/ (Begin(r) /\ ~Enter(r))
    BY <2>1, <2>4, LeaveWhole DEF Inv
  <2> QED BY <1>3, <2>2, <2>3, <2>4
<1>4. CASE Edit
  BY <1>4, EditKeeps
<1> QED BY <1>1, <1>2, <1>3, <1>4 DEF Next

LEMMA InvWhole == Inv => RunsAreWhole
<1> SUFFICES ASSUME TypeOK, StoredInv PROVE RunsAreWhole
  BY DEF Inv, WholeInv
<1>0. stored.runs \subseteq Unit
  BY RecordsFields DEF TypeOK
<1> DEFINE results(r) == published[RunPath(r, "run_json")]
           all(r)     == {results(r)[i] : i \in DOMAIN results(r)}
<1>1. ASSUME NEW r \in stored.runs
      PROVE  /\ {RunPath(r, "run_json"), RunPath(r, "run_summary")} \subseteq DOMAIN published
             /\ DOMAIN results(r) = DOMAIN Input[r]
             /\ \A i \in DOMAIN results(r) : results(r)[i].source = Input[r][i]
             /\ published[RunPath(r, "run_summary")] = results(r)
             /\ \A s \in all(r), k \in DocumentKind :
                  published[DocumentPath(r, s.parse.hash, k)] = s
             /\ {a \in stored.artifacts : a.run = r} =
                  {[run |-> r, document |-> s.parse.hash, kind |-> k, body |-> s]
                    : s \in all(r), k \in DocumentKind}
             /\ {i \in stored.items : i[1] = r} = {<<r, s.parse.hash>> : s \in all(r)}
  <2>1. PICK found \in Seq(DocumentResult) :
          /\ Len(found) = Len(Input[r]) /\ InOrder(r, found) /\ Shown(r, Elements(found))
          /\ IsPublished(RunPath(r, "run_json"), found)
          /\ IsPublished(RunPath(r, "run_summary"), found)
          /\ RowsOf(stored, r, Elements(found))
    BY DEF StoredInv, WholeRun
  <2>2. found = results(r) /\ Elements(found) = all(r)
    BY <2>1 DEF IsPublished, Elements
  <2>3. DOMAIN found = DOMAIN Input[r]
    BY <1>0, <2>1, InputAssumption
  <2>4. /\ {RunPath(r, "run_json"), RunPath(r, "run_summary")} \subseteq DOMAIN published
        /\ published[RunPath(r, "run_summary")] = found
    BY <2>1 DEF IsPublished
  <2>5. \A i \in DOMAIN found : found[i].source = Input[r][i]
    BY <2>1 DEF InOrder
  <2>6. \A s \in all(r), k \in DocumentKind : published[DocumentPath(r, s.parse.hash, k)] = s
    BY <2>1, <2>2 DEF Shown, IsPublished, Hashed
  <2>7. RowsOf(stored, r, all(r))
    BY <2>1, <2>2
  <2> HIDE DEF results, all
  <2>8. /\ {a \in stored.artifacts : a.run = r} =
             {[run |-> r, document |-> s.parse.hash, kind |-> k, body |-> s]
               : s \in all(r), k \in DocumentKind}
        /\ {i \in stored.items : i[1] = r} = {<<r, s.parse.hash>> : s \in all(r)}
    <3>1. ArtifactsOf(stored, r) = Artifacts(r, all(r)) /\ ItemsOf(stored, r) = Items(r, all(r))
      BY <2>7 DEF RowsOf
    <3>2. Artifacts(r, all(r)) = {[run |-> r, document |-> s.parse.hash, kind |-> k, body |-> s]
                                   : s \in all(r), k \in DocumentKind}
      BY DEF Artifacts, Hashed
    <3>3. Items(r, all(r)) = {<<r, s.parse.hash>> : s \in all(r)}
      BY DEF Items, Hashed
    <3>4. /\ ArtifactsOf(stored, r) = {a \in stored.artifacts : a.run = r}
          /\ ItemsOf(stored, r) = {i \in stored.items : i[1] = r}
      BY DEF ArtifactsOf, ItemsOf
    <3>5. {a \in stored.artifacts : a.run = r} =
            {[run |-> r, document |-> s.parse.hash, kind |-> k, body |-> s]
              : s \in all(r), k \in DocumentKind}
      BY <3>1, <3>2, <3>4
    <3>6. {i \in stored.items : i[1] = r} = {<<r, s.parse.hash>> : s \in all(r)}
      BY <3>1, <3>3, <3>4
    <3> QED BY <3>5, <3>6
  <2> QED BY <2>2, <2>3, <2>4, <2>5, <2>6, <2>8
<1>2. ASSUME NEW d \in DOMAIN stored.documents
      PROVE  \E r \in stored.runs :
               LET path == DocumentPath(r, d, "document_json")
               IN  /\ path \in DOMAIN published
                   /\ stored.documents[d] = [source |-> published[path].source,
                                             status |-> published[path].parse.status]
  <2>1. PICK r \in stored.runs : Tells(r, d, stored.documents[d])
    BY DEF StoredInv
  <2> QED BY <2>1 DEF Tells, IsPublished
<1> QED BY <1>1, <1>2 DEF RunsAreWhole

-----------------------------------------------------------------------------
LEMMA InvCorrect == Spec => []Inv
BY InitInv, InvStep, PTL DEF Spec

\* Every variable has its type: the tables, the calls and what they parse.
THEOREM TypeCorrect == Spec => []TypeOK
<1>1. Inv => TypeOK
  BY DEF Inv
<1> QED BY <1>1, InvCorrect, PTL

\* However a call of prepare ends, SqliteUnitOfWork has closed its connection and given
\* back its lease; and nobody has a connection open who has not the lease.
THEOREM NothingIsHeldCorrect == Spec => []NothingIsHeld
<1>1. Inv => NothingIsHeld
  BY DEF Inv, HoldInv, Holds, NothingIsHeld, Ended, Holding, Writing, InFile
<1> QED BY <1>1, InvCorrect, PTL

\* What prepare tells its caller is so: a run is in the database if the call returned,
\* and is not if it raised, but for a commit that raised as it closed.
THEOREM OutcomeIsHonestCorrect == Spec => []OutcomeIsHonest
<1>1. Inv => OutcomeIsHonest
  BY DEF Inv, OutcomeInv, Recorded, OutcomeIsHonest, Holding
<1> QED BY <1>1, InvCorrect, PTL

\* What the database has of a run of prepare is published and whole, and what is
\* published of it is what the database has: run.json, summary.json, the two artifacts
\* of each document with their rows, and the row of each document itself.
THEOREM RunsAreWholeCorrect == Spec => []RunsAreWhole
BY InvWhole, InvCorrect, PTL

-----------------------------------------------------------------------------
(* What a commit adds to what was there before *)

\* The results of a call whose documents have their rows by now.
Done(r) ==
  IF call[r].at \in {"json", "review", "item"}
  THEN Append(call[r].results, OneResult(r)) ELSE call[r].results

\* The rows that the transaction of a call sees are those of the database when it
\* began, and nobody has changed them since, with those of the call put over them.
AddInv ==
  \A r \in Unit : call[r].at \in Writing =>
    Merged(stored.documents, Done(r), staged.documents)

LEMMA MergedNone == ASSUME NEW t PROVE Merged(t, <<>>, t)
BY DEF Merged

\* A row that is put comes last.
LEMMA MergedPut ==
  ASSUME NEW t, NEW results \in Seq(DocumentResult), NEW s \in DocumentResult,
         NEW u \in Rows, s.parse.hash \in Content, Merged(t, results, u)
  PROVE  Merged(t, Append(results, s),
                Put(u, s.parse.hash, [source |-> s.source, status |-> s.parse.status]))
<1> DEFINE row == [source |-> s.source, status |-> s.parse.status]
           new == Append(results, s)
           v   == Put(u, s.parse.hash, row)
           n   == Len(results) + 1
<1>1. /\ DOMAIN new = DOMAIN results \cup {n} /\ new[n] = s /\ n \notin DOMAIN results
      /\ DOMAIN results \subseteq Nat /\ n \in Nat
      /\ \A i \in DOMAIN results : new[i] = results[i] /\ i < n
  OBVIOUS
<1>2. row \in Row
  BY DEF Row, DocumentResult, Parse
<1> HIDE DEF row
<1>3. /\ DOMAIN v = DOMAIN u \cup {s.parse.hash} /\ v[s.parse.hash] = row
      /\ \A d \in DOMAIN u : d # s.parse.hash => v[d] = u[d]
  <2>1. PICK h, w : h = s.parse.hash /\ w = row
    OBVIOUS
  <2>2. h \in Content /\ w \in Row
    BY <1>2, <2>1
  <2>3. /\ DOMAIN Put(u, h, w) = DOMAIN u \cup {h} /\ Put(u, h, w)[h] = w
        /\ \A d \in DOMAIN u : d # h => Put(u, h, w)[d] = u[d]
    BY <2>2, PutRow
  <2> QED BY <2>1, <2>3
<1> HIDE DEF new, v, n
<1>4. {new[i].parse.hash : i \in DOMAIN new}
        = {results[i].parse.hash : i \in DOMAIN results} \cup {s.parse.hash}
  BY <1>1
<1>5. DOMAIN v = DOMAIN t \cup {new[i].parse.hash : i \in DOMAIN new}
  BY <1>3, <1>4 DEF Merged
<1>6. \A d \in DOMAIN t \ {new[i].parse.hash : i \in DOMAIN new} : v[d] = t[d]
  BY <1>3, <1>4 DEF Merged
<1>7. ASSUME NEW i \in DOMAIN new,
             \A j \in DOMAIN new : new[j].parse.hash = new[i].parse.hash => j <= i
      PROVE  v[new[i].parse.hash] = [source |-> new[i].source, status |-> new[i].parse.status]
  <2>1. CASE i = n
    BY <1>1, <1>3, <2>1 DEF row
  <2>2. CASE i # n
    <3>1. i \in DOMAIN results /\ new[i] = results[i] /\ i < n /\ i \in Nat
      BY <1>1, <2>2
    <3>2. new[i].parse.hash # s.parse.hash
      BY <1>1, <1>7, <3>1
    <3>3. \A j \in DOMAIN results : results[j].parse.hash = results[i].parse.hash => j <= i
      BY <1>1, <1>7, <3>1
    <3>4. /\ results[i].parse.hash \in DOMAIN u
          /\ u[results[i].parse.hash] = [source |-> results[i].source,
                                         status |-> results[i].parse.status]
      BY <3>1, <3>3 DEF Merged
    <3> QED BY <1>3, <3>1, <3>2, <3>4
  <2> QED BY <2>1, <2>2
<1> QED BY <1>5, <1>6, <1>7 DEF Merged, new, v, row

\* A step of a call within its transaction, once it is shown what it does to the rows.
LEMMA QuietAdds ==
  ASSUME Inv, AddInv, NEW r \in Unit, Quiet(r),
         call'[r].at \in Writing => Merged(stored.documents, Done(r)', staged'.documents)
  PROVE  AddInv'
<1>1. ASSUME NEW q \in Unit, q # r PROVE call'[q].at \notin Writing
  BY <1>1, OneWrites DEF Quiet, Only, Holding
<1>2. stored' = stored
  BY DEF Quiet
<1> QED BY <1>1, <1>2 DEF AddInv

LEMMA AddStep == Inv /\ AddInv /\ [Next]_vars => AddInv'
<1> SUFFICES ASSUME Inv, AddInv, [Next]_vars PROVE AddInv'
  OBVIOUS
<1>0. TypeOK /\ HoldInv
  BY DEF Inv
<1>1. CASE UNCHANGED vars \/ Edit
  BY <1>1 DEF vars, uowVars, Edit, AddInv, Done, OneResult, Source
<1>2. ASSUME NEW r \in Unit, CreateRun(r) PROVE AddInv'
  <2>1. /\ Quiet(r) /\ call[r].at = "create" /\ call'[r].at = "hash"
        /\ call'[r].results = call[r].results /\ staged'.documents = staged.documents
    BY <1>0, <1>2, QuietShape, CreateRunDoes, MovesOnly DEF Pc
  <2>2. Merged(stored.documents, call[r].results, staged.documents)
    BY <2>1 DEF AddInv, Done, Writing
  <2> QED BY <2>1, <2>2, QuietAdds DEF Done
<1>3. ASSUME NEW r \in Unit, Hash(r) \/ Read(r) PROVE AddInv'
  <2>1. Quiet(r) /\ call[r].at \in {"hash", "read"} /\ staged' = staged
    BY <1>3, QuietShape DEF Hash, Read, uowVars
  <2>2. Merged(stored.documents, call[r].results, staged.documents)
    BY <2>1 DEF AddInv, Done, Writing, InFile
  <2>3. \/ call'[r].at \notin Writing
        \/ call'[r].at \in {"read", "record"} /\ call'[r].results = call[r].results
    <3>1. CASE Hash(r)
      <4>1. CASE disk[Source(r)] = Gone
        BY <1>0, <3>1, <4>1, MovesOnly DEF Hash, Pc, Writing, InFile
      <4>2. CASE disk[Source(r)] # Gone
        BY <3>1, <4>2, HashDoes
      <4> QED BY <4>1, <4>2
    <3>2. CASE Read(r)
      BY <3>2, ReadDoes
    <3> QED BY <1>3, <3>1, <3>2
  <2> QED BY <2>1, <2>2, <2>3, QuietAdds DEF Done
<1>4. ASSUME NEW r \in Unit, RecordDocument(r) PROVE AddInv'
  <2>1. Quiet(r) /\ call[r].at = "record" /\ Source(r) \in File
        /\ call[r].parse.hash \in Content /\ call[r] \in Call
    BY <1>4, QuietShape, InFileFacts DEF RecordDocument, InFile
  <2>2. /\ Moves(r, "json")
        /\ staged'.documents = Put(staged.documents, call[r].parse.hash,
             [source |-> Source(r), status |-> call[r].parse.status])
    BY <1>0, <1>4, <2>1, RecordDocumentDoes
  <2>3. /\ call'[r].at = "json" /\ call'[r].results = call[r].results
        /\ call'[r].n = call[r].n /\ call'[r].parse = call[r].parse
    BY <1>0, <2>2, MovesOnly DEF Pc
  <2>4. /\ OneResult(r) \in DocumentResult /\ OneResult(r).source = Source(r)
        /\ OneResult(r).parse = call[r].parse
    BY <2>1, ResultType DEF OneResult, Call
  <2>5. Merged(stored.documents, call[r].results, staged.documents)
    BY <2>1 DEF AddInv, Done, Writing, InFile
  <2>6. staged.documents \in Rows /\ call[r].results \in Seq(DocumentResult)
    BY <1>0, <2>1, RecordsFields DEF TypeOK, Call
  <2>7. Merged(stored.documents, Append(call[r].results, OneResult(r)), staged'.documents)
    BY <2>1, <2>2, <2>4, <2>5, <2>6, MergedPut
  <2>8. Done(r)' = Append(call[r].results, OneResult(r))
    BY <2>3 DEF Done, OneResult, Source
  <2> QED BY <2>1, <2>7, <2>8, QuietAdds
<1>5. ASSUME NEW r \in Unit, PublishJson(r) \/ PublishReview(r) PROVE AddInv'
  <2>1. /\ Quiet(r) /\ call[r].at \in {"json", "review"} /\ staged' = staged
        /\ Moves(r, "review") \/ Moves(r, "item")
    BY <1>5, QuietShape DEF PublishJson, PublishReview, uowVars
  <2>2. /\ call'[r].at \in {"review", "item"} /\ call'[r].results = call[r].results
        /\ call'[r].n = call[r].n /\ call'[r].parse = call[r].parse
    BY <1>0, <2>1, MovesOnly DEF Pc
  <2>3. Done(r)' = Done(r)
    BY <2>1, <2>2 DEF Done, OneResult, Source
  <2>4. Merged(stored.documents, Done(r), staged.documents)
    BY <2>1 DEF AddInv, Writing, InFile
  <2> QED BY <2>1, <2>3, <2>4, QuietAdds
<1>6. ASSUME NEW r \in Unit, RecordItem(r) PROVE AddInv'
  <2>1. Quiet(r) /\ call[r].at = "item" /\ Source(r) \in File
        /\ call[r].parse.hash \in Content
    BY <1>6, QuietShape, InFileFacts DEF RecordItem, InFile
  <2>2. /\ call'[r].at \in {"hash", "run_json"} /\ staged'.documents = staged.documents
        /\ call'[r].results = Append(call[r].results, OneResult(r))
    BY <1>0, <1>6, <2>1, RecordItemDoes
  <2>3. Done(r)' = Done(r)
    BY <2>1, <2>2 DEF Done
  <2>4. Merged(stored.documents, Done(r), staged.documents)
    BY <2>1 DEF AddInv, Writing, InFile
  <2> QED BY <2>1, <2>2, <2>3, <2>4, QuietAdds
<1>7. ASSUME NEW r \in Unit, PublishRunJson(r) \/ PublishSummary(r) PROVE AddInv'
  <2>1. /\ Quiet(r) /\ call[r].at \in {"run_json", "summary"} /\ staged' = staged
        /\ Moves(r, "summary") \/ Moves(r, "commit")
    BY <1>7, QuietShape DEF PublishRunJson, PublishSummary, uowVars
  <2>2. /\ call'[r].at \in {"summary", "commit"} /\ call'[r].results = call[r].results
    BY <1>0, <2>1, MovesOnly DEF Pc
  <2>3. Merged(stored.documents, call[r].results, staged.documents)
    BY <2>1 DEF AddInv, Done, Writing
  <2> QED BY <2>1, <2>2, <2>3, QuietAdds DEF Done
<1>8. ASSUME NEW r \in Unit, Fails(r) \/ Conflicts(r) PROVE AddInv'
  <2>1. Quiet(r) /\ Moves(r, "unwind")
    BY <1>8, QuietShape DEF Fails, Conflicts
  <2>2. call'[r].at = "unwind"
    BY <1>0, <2>1, MovesOnly DEF Pc
  <2> QED BY <2>1, <2>2, QuietAdds DEF Writing, InFile
<1>9. ASSUME NEW r \in Unit, Begin(r), Enter(r) PROVE AddInv'
  <2>1. /\ stored' = stored /\ staged' = stored /\ call[r].at = "start" /\ lease = Free
    BY <1>0, <1>9 DEF Begin, Enter, EnterFails, uowVars, TypeOK
  <2>2. Moves(r, "create")
    BY <1>9, FreeAssumption DEF Begin, Enter, EnterFails, uowVars
  <2>3. Only(r) /\ call'[r].at = "create" /\ call'[r].results = <<>>
    BY <1>0, <2>1, <2>2, MovesOnly DEF Pc, Inv, WholeInv, CallInv, NewCall
  <2>4. \A q \in Unit : q # r => call'[q].at \notin Writing
    BY <1>0, <2>1, <2>3, FreeAssumption DEF Only, HoldInv, Holds, Holding
  <2>5. Merged(stored'.documents, Done(r)', staged'.documents)
    BY <2>1, <2>3, MergedNone DEF Done
  <2> QED BY <2>4, <2>5 DEF AddInv
<1>10. ASSUME NEW r \in Unit, Commit(r) PROVE AddInv'
  <2>1. call[r].at = "commit" /\ Moves(r, "close")
    BY <1>10 DEF Commit
  <2>2. Only(r) /\ call'[r].at = "close"
    BY <1>0, <2>1, MovesOnly DEF Pc
  <2>3. \A q \in Unit : call'[q].at \notin Writing
    BY <2>1, <2>2, OneWrites DEF Only, Holding, Writing, InFile
  <2> QED BY <2>3 DEF AddInv
<1>11. ASSUME NEW r \in Unit, Close(r) \/ Leave(r) \/ Dies(r) \/ (Begin(r) /\ ~Enter(r))
       PROVE  AddInv'
  <2>1. stored' = stored /\ staged' = staged
    BY <1>11 DEF Close, Leave, Dies, Begin, EnterFails, Released, Exit, UnitDies, uowVars
  <2>2. PICK at \in {"exit", "unwind_late", "returned", "raised", "raised_late", "died",
                     "refused"} : Moves(r, at)
    BY <1>11 DEF Close, Leave, Dies, Begin
  <2>3. at \in Pc /\ at \notin Writing
    BY DEF Pc, Ended, Writing, InFile
  <2>4. Only(r) /\ call'[r].at \notin Writing
    BY <1>0, <2>2, <2>3, MovesOnly
  <2> QED BY <2>1, <2>4 DEF AddInv, Only, Done, OneResult, Source
<1> QED BY <1>1, <1>2, <1>3, <1>4, <1>5, <1>6, <1>7, <1>8, <1>9, <1>10, <1>11 DEF Next

LEMMA AddCorrect == Spec => [](Inv /\ AddInv)
<1>1. Init => AddInv
  BY DEF Init, NewCall, AddInv, Writing, InFile
<1> QED BY <1>1, AddStep, InvCorrect, PTL DEF Spec

\* What the database has only changes by the commit of a run that it does not have,
\* which its transaction turns into the rows of that run and no other.
LEMMA CommitChanges ==
  ASSUME Inv, AddInv, [Next]_vars, stored' # stored
  PROVE  \E r \in Unit \ stored.runs :
           /\ stored'.runs = stored.runs \cup {r}
           /\ {a \in stored'.artifacts : a.run # r} = stored.artifacts
           /\ {i \in stored'.items : i[1] # r} = stored.items
           /\ Merged(stored.documents, call[r].results, stored'.documents)
<1>1. PICK r \in Unit : Commit(r)
  BY DEF Next, vars, uowVars, Begin, Enter, EnterFails, CreateRun, Hash, Read, RecordDocument,
         PublishJson, PublishReview, Conflicts, RecordItem, PublishRunJson, PublishSummary,
         Close, Leave, Fails, Dies, Edit, Stage, Released, Exit, UnitDies
<1>2. call[r].at = "commit" /\ stored' = staged
  BY <1>1 DEF Commit, CommitTransaction
<1>3. /\ r \notin stored.runs /\ staged.runs = stored.runs \cup {r}
      /\ \A q \in Unit \ {r} : SameRows(staged, stored, q)
      /\ RowsOf(stored, r, {})
  BY <1>2, InFileFacts
     DEF Recorded, Holding, Writing, Progress, Written, Inv, WholeInv, StoredInv
<1>4. Merged(stored.documents, call[r].results, staged.documents)
  BY <1>2 DEF AddInv, Done, Writing
<1>5. /\ stored.artifacts \subseteq Artifact /\ staged.artifacts \subseteq Artifact
      /\ stored.items \subseteq Unit \X Content /\ staged.items \subseteq Unit \X Content
  BY RecordsFields DEF Inv, TypeOK
<1>6. {a \in staged.artifacts : a.run # r} = stored.artifacts
  <2>1. \A a \in Artifact : a.run \in Unit
    BY DEF Artifact
  <2>2. \A a \in stored.artifacts : a.run # r
    BY <1>3 DEF RowsOf, ArtifactsOf, Artifacts
  <2>3. \A a \in Artifact : a.run # r => (a \in staged.artifacts <=> a \in stored.artifacts)
    BY <1>3, <2>1 DEF SameRows, ArtifactsOf
  <2> QED BY <1>5, <2>2, <2>3
<1>7. {i \in staged.items : i[1] # r} = stored.items
  <2>1. \A i \in Unit \X Content : i[1] \in Unit
    OBVIOUS
  <2>2. \A i \in stored.items : i[1] # r
    BY <1>3 DEF RowsOf, ItemsOf, Items
  <2>3. \A i \in Unit \X Content :
          i[1] # r => (i \in staged.items <=> i \in stored.items)
    BY <1>3, <2>1 DEF SameRows, ItemsOf
  <2> QED BY <1>5, <2>2, <2>3
<1> QED BY <1>2, <1>3, <1>4, <1>6, <1>7

\* CommitsAddUp: whoever else prepares documents meanwhile, a call of prepare adds its own
\* run to what the database has by then, and takes nothing of another away; the row of a
\* document is that of the last file of the last run that had it.
THEOREM CommitsAddUpCorrect == Spec => CommitsAddUp
<1> DEFINE AddsUp ==
      stored' # stored => \E r \in Unit \ stored.runs :
        /\ stored'.runs = stored.runs \cup {r}
        /\ {a \in stored'.artifacts : a.run # r} = stored.artifacts
        /\ {i \in stored'.items : i[1] # r} = stored.items
        /\ Merged(stored.documents, call[r].results, stored'.documents)
<1>1. Inv /\ AddInv /\ [Next]_vars => [AddsUp]_vars
  BY CommitChanges
<1> QED BY <1>1, AddCorrect, PTL DEF Spec, CommitsAddUp
=============================================================================
