--------------------------- MODULE DocumentParse ---------------------------
(***************************************************************************)
(* Parsing one document: an executor extracts its text, and three layers    *)
(* judge what it is: the knowledge base, rules in the code, and a language   *)
(* model.  The steps in which a parse meets others are those of its query.   *)
(***************************************************************************)
EXTENDS KnowledgeBase, Integers, Sequences

CONSTANTS
  Categories, \* in the order in which they are scored
  Other,      \* the category of what is none of the rest
  Document,   \* see Documents below
  Nodes,      \* how many titles of a draw match a category
  Answers     \* what a language model may answer

Category   == {Categories[n] : n \in DOMAIN Categories}
Confidence == {"high", "medium", "low"}
Layer      == {"knowledge_base", "hard_code", "llm", "none"}
Judgement  == [category : Category, confidence : Confidence, source : Layer]

\* What the rules tell apart in a document: what its name and its text say, how
\* its source is routed, and whether the call asks for a known intent.
Documents ==
  [kind : {"missing", "unknown", "stub", "implemented"}, intent : BOOLEAN,
   name : SUBSET Category, negative : BOOLEAN, text : SUBSET Category,
   hard : [category : Category, confidence : {"high", "medium"}]]

ASSUME CategoryAssumption == Categories \in Seq(Category)
ASSUME DocumentAssumption == Document \subseteq Documents /\ Document # {} /\ Other \in Category
ASSUME NodesAssumption    == Nodes \in [Draw -> [Category -> Nat]]
ASSUME AnswersAssumption  == \A j \in Answers : j \in Judgement /\ j.source = "llm"

VARIABLE parse
parseVars == <<kbVars, parse>>

NoJudgement == [category |-> Other, confidence |-> "low", source |-> "none"]

\* Reasons and statuses of document_parse.v1.
Reason == {"none", "success", "source_missing", "parse_error",
           "executor_not_implemented", "schema_invalid"}
Status == {"none", "success", "needs_review", "blocked", "failed"}

Parse == [at : {"idle", "query", "done"}, doc : Document, extracted : BOOLEAN,
          status : Status, reason : Reason, judgement : Judgement,
          diagnosed : BOOLEAN]

ParseTypeOK == KbTypeOK /\ parse \in [Client -> Parse]

NoParse(d) == [at |-> "idle", doc |-> d, extracted |-> FALSE, status |-> "none",
               reason |-> "none", judgement |-> NoJudgement, diagnosed |-> FALSE]

ParseInit == KbInit /\ parse = [c \in Client |-> NoParse(CHOOSE d \in Document : TRUE)]

-----------------------------------------------------------------------------
\* Mutant: a negative name costs what a text may bring.
MildScore(category, doc, nodes) ==
  (IF category \in doc.name THEN 30 ELSE 0)
    + (IF nodes >= 2 THEN 20 ELSE IF nodes = 1 THEN 10 ELSE 0)
    + (IF category \in doc.text THEN 5 ELSE 0)
    - (IF category # Other /\ doc.negative THEN 5 ELSE 0)

Score(category, doc, nodes) ==
  (IF category \in doc.name THEN 30 ELSE 0)
    + (IF nodes >= 2 THEN 20 ELSE IF nodes = 1 THEN 10 ELSE 0)
    + (IF category \in doc.text THEN 5 ELSE 0)
    - (IF category # Other /\ doc.negative THEN 100 ELSE 0)

\* query_kb: the best score, and of equal ones the first.
ScoreAt(n, doc, s) == Score(Categories[n], doc, Nodes[s.draw][Categories[n]])
Best(doc, s) ==
  CHOOSE n \in DOMAIN Categories : \A m \in DOMAIN Categories :
    \/ ScoreAt(n, doc, s) > ScoreAt(m, doc, s)
    \/ ScoreAt(n, doc, s) = ScoreAt(m, doc, s) /\ n <= m

Known(doc, s) ==
  LET score == ScoreAt(Best(doc, s), doc, s)
  IN  IF score <= 0 THEN NoJudgement
      ELSE [category |-> Categories[Best(doc, s)], source |-> "knowledge_base",
            confidence |-> IF score >= 30 THEN "high"
                           ELSE IF score >= 15 THEN "medium" ELSE "low"]

\* The first layer that is sure enough.  A model that cannot be reached, or answers
\* no JSON, is one whose confidence is low.
Layered(doc, known) ==
  LET hard == [category |-> doc.hard.category, confidence |-> doc.hard.confidence,
               source |-> "hard_code"]
  IN  IF known.confidence # "low" THEN {known}
      ELSE IF hard.confidence = "high" THEN {hard}
      ELSE {hard} \cup Answers

-----------------------------------------------------------------------------
\* _finalize_result: an unknown intent is the one thing the schema finds.
Finished(c, p, status, reason) ==
  parse' = [parse EXCEPT ![c] =
    [p EXCEPT !.at = "done",
       !.status = IF p.doc.intent THEN status ELSE "blocked",
       !.reason = IF p.doc.intent THEN reason ELSE "schema_invalid"]]

\* How a parse ends before its query, by what its source is.
Ends(kind) ==
  CASE kind = "missing" -> {<<"blocked", "source_missing">>}
    [] kind = "unknown" -> {<<"blocked", "parse_error">>}
    [] kind = "stub" -> {<<"blocked", "source_missing">>, <<"blocked", "executor_not_implemented">>}
    [] kind = "implemented" -> {<<"blocked", "source_missing">>, <<"blocked", "parse_error">>,
                                <<"failed", "parse_error">>}

ParseBlocked(c) ==
  /\ parse[c].at # "query" /\ queries < MaxQueries
  /\ queries' = queries + 1
  /\ \E d \in Document : \E end \in Ends(d.kind) :
       Finished(c, NoParse(d), end[1], end[2])
  /\ UNCHANGED <<indexVars, files, query, clear, clears, mishaps>>

Extract(c) ==
  /\ parse[c].at # "query"
  /\ StartQuery(c)
  /\ \E d \in {x \in Document : x.kind = "implemented"} :
       parse' = [parse EXCEPT ![c] = [NoParse(d) EXCEPT !.at = "query", !.extracted = TRUE]]

Knowledge(c) ==
  IF query[c].served THEN Known(parse[c].doc, query[c].result) ELSE NoJudgement

Judge(c) ==
  /\ parse[c].at = "query" /\ query[c].at = "done"
  /\ \E j \in Layered(parse[c].doc, Knowledge(c)) :
       Finished(c, [parse[c] EXCEPT !.judgement = j, !.diagnosed = ~query[c].served],
                IF j.confidence = "low" THEN "needs_review" ELSE "success", "success")
  /\ UNCHANGED kbVars

ParseDies(c) ==
  /\ parse[c].at = "query"
  /\ QueryDies(c)
  /\ parse' = [parse EXCEPT ![c] = NoParse(parse[c].doc)]

ParseStep(c) ==
  \/ (QueryStep(c) \/ WriteFails(c) \/ QueryFails(c)) /\ UNCHANGED parse
  \/ Judge(c)

ParseNext ==
  \/ \E c \in Client : ParseBlocked(c) \/ Extract(c) \/ ParseStep(c) \/ ParseDies(c)
  \/ Around /\ UNCHANGED parse

ParseSpec == ParseInit /\ [][ParseNext]_parseVars

-----------------------------------------------------------------------------
\* No failure passes for a classification (business_rules/document_parse/kb.md:103).
\* The knowledge base is believed only where it was had, and is sure of a category
\* only when the name of the file says so and nothing in it says the opposite:
\* titles and text together never are enough.
JudgementIsFounded ==
  \A c \in Client : parse[c].at = "done" =>
    /\ parse[c].status \in {"success", "needs_review"} => parse[c].extracted
    /\ parse[c].judgement.source = "knowledge_base" =>
         /\ ~parse[c].diagnosed
         /\ parse[c].judgement.category = Other \/ ~parse[c].doc.negative
         /\ parse[c].judgement.confidence = "high" =>
              parse[c].judgement.category \in parse[c].doc.name
=============================================================================
