------------------------- MODULE CandidateRetrieval -------------------------
(***************************************************************************)
(* Business context for a document: the catalog of known business records is *)
(* searched with the fields read from the document, the records that agree   *)
(* with it are kept and their declared documents indexed.  A record that     *)
(* agrees in one field and contradicts in an identifying one is a conflict,  *)
(* and one conflict withholds every candidate.                               *)
(***************************************************************************)
EXTENDS FiniteSets

CONSTANTS
  Catalog,      \* the records: id, what each field holds, priced, indexed
  Field,        \* the fields evidence can be about
  Identifying,  \* those of which a difference is a conflict: tax ids and codes
  Absent        \* the field is not there

\* What the catalog's loader insists on: ids are unique and every value has its form.
Loadable ==
  /\ \A c \in Catalog : DOMAIN c.holds = Field /\ {c.priced, c.indexed} \subseteq BOOLEAN
  /\ \A c, d \in Catalog : c.id = d.id => c = d

ASSUME CatalogAssumption == Loadable /\ Identifying \subseteq Field

Same(q, c, f)      == q[f] # Absent /\ q[f] = c.holds[f]
Different(q, c, f) == Absent \notin {q[f], c.holds[f]} /\ q[f] # c.holds[f]

Search(q) == {c \in Catalog : \E f \in Field : Same(q, c, f)}

\* What a record and the query agree in, and what they contradict each other in.
Agreements(q, c)     == {f \in Field : Same(q, c, f)}
Contradictions(q, c) == IF Agreements(q, c) = {} THEN {}
                                                 ELSE {f \in Identifying : Different(q, c, f)}

\* The order of the ranking does not matter to anything below.
Rank(q) ==
  LET kept == {c \in Search(q) : Agreements(q, c) # {} /\ Contradictions(q, c) = {}}
  IN [candidates |-> kept,
      evidence   |-> UNION {{c.id} \X Agreements(q, c) : c \in kept},
      conflicts  |-> UNION {{c.id} \X Contradictions(q, c) : c \in Search(q)}]

Context(status, candidates, evidence, conflicts, diagnostics) ==
  [status |-> status, candidates |-> candidates, evidence |-> evidence,
   conflicts |-> conflicts, diagnostics |-> diagnostics]
BlockedContext(code) == Context("blocked", {}, {}, {}, {code})

\* An index that fails for a declared document adds a diagnostic and takes no
\* candidate away; `fails` says whether one of those the candidates declare does.
IndexDeclaredDocuments(candidates, fails) ==
  IF fails /\ \E c \in candidates : c.indexed THEN {"STRUCTURE_INDEX_FAILED"} ELSE {}

FindBusinessCandidates(q, fails) ==
  LET ranked == Rank(q) IN
  IF ranked.conflicts # {}
  THEN Context("needs_review", {}, {}, ranked.conflicts, {"CONFLICTS_FOUND"})
  ELSE IF ranked.candidates = {}
  THEN Context("needs_review", {}, {}, {}, {"NO_CANDIDATES"})
  ELSE Context("matched", ranked.candidates, ranked.evidence, {},
               {"CANDIDATES_FOUND"} \cup IndexDeclaredDocuments(ranked.candidates, fails))

\* normalize_business_context: of a conflict and of a diagnostic only the code may
\* remain, and these two come with more, so the context is refused as a whole.
NormalizeContext(ctx) ==
  IF ctx.conflicts # {} \/ "STRUCTURE_INDEX_FAILED" \in ctx.diagnostics
  THEN BlockedContext("SCHEMA_INVALID") ELSE ctx
=============================================================================
