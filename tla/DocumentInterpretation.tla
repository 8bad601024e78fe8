----------------------- MODULE DocumentInterpretation -----------------------
(***************************************************************************)
(* The boundary around the interpreter: what it may be asked, and what of    *)
(* its reply is kept.  Whatever it replies, a relation is kept only if it    *)
(* names a candidate and cites evidence about it that the request carried,   *)
(* and nothing is ever confirmed; every other case is a blocked result.      *)
(***************************************************************************)
EXTENDS CandidateRetrieval

CONSTANT
  InterpreterReply  \* the replies the interpreter may give

\* A reply is an error with a code of the allowed ones or another, or a text of which
\* `wellFormed` says whether it is JSON of the candidate schema, and `ours` whether it
\* bears the identity and the versions of the interpreter that was asked.
ASSUME ReplyAssumption == \A r \in InterpreterReply :
  /\ r.error \in {"none", "REQUEST_FAILED", "RESPONSE_INVALID", "other"}
  /\ {r.wellFormed, r.ours} \subseteq BOOLEAN
  /\ r.status \in {"success", "needs_review", "blocked"}

Blocked(code) == [status |-> "blocked", reason |-> code, relations |-> {}, evidence |-> {},
                  confirmed |-> FALSE]
Judged(status, r) == [status |-> status, reason |-> "", relations |-> r.relations,
                      evidence |-> r.evidence, confirmed |-> FALSE]

\* _document: the segment is cut at 4000 characters and may have 4096 bytes, which a
\* text that is not ASCII exceeds.
DocumentFits(text) == text \notin {"long", "private"}

\* _candidate: the amount of a catalog's record is a text, that of a candidate a number.
CandidateFits(c) == ~c.priced

\* _request
Requestable(text, ctx) ==
  /\ DocumentFits(text) /\ \A c \in ctx.candidates : CandidateFits(c)
  /\ ctx.diagnostics \subseteq {"CANDIDATES_FOUND", "NO_CANDIDATES", "CONFLICTS_FOUND"}
  /\ ctx.evidence # {}
  /\ \A e \in ctx.evidence : \E c \in ctx.candidates : c.id = e[1]

\* parse_candidate_document_interpretation: a result always cites something.
Parses(r) == r.wellFormed /\ r.evidence # {}

\* _trace
TraceWithoutEvidence(r, ctx) ==
  r.evidence \subseteq ctx.evidence /\ r.relations \subseteq {c.id : c \in ctx.candidates}
Trace(r, ctx) ==
  /\ ctx.evidence # {} /\ r.evidence \subseteq ctx.evidence
  /\ \A target \in r.relations :
       /\ \E c \in ctx.candidates : c.id = target
       /\ \E e \in r.evidence : e[1] = target

CompletePrepared(r, ctx) ==
  CASE r.error = "other" -> Blocked("REQUEST_FAILED")
    [] r.error \in {"REQUEST_FAILED", "RESPONSE_INVALID"} -> Blocked(r.error)
    [] r.error = "none" /\ ~(Parses(r) /\ r.ours /\ Trace(r, ctx)) -> Blocked("SCHEMA_INVALID")
    [] OTHER -> Judged(IF r.status = "success" /\ r.relations # {} THEN "needs_review"
                                                                    ELSE r.status, r)

Interpret(r, text, ctx) ==
  IF Requestable(text, ctx) THEN CompletePrepared(r, ctx) ELSE Blocked("SCHEMA_INVALID")

\* normalize_interpretation_output: a blocked result has a reason and nothing else, so
\* one that the interpreter itself calls blocked is refused.
NormalizeOutput(out) ==
  IF out.status = "blocked" /\ out.reason = "" THEN Blocked("SCHEMA_INVALID") ELSE out

\* _fixed_context_interpretation: the service is asked about a context already found.
FixedContextInterpretation(enabled, r, text, ctx) ==
  NormalizeOutput(IF enabled THEN Interpret(r, text, ctx) ELSE Blocked("CAPABILITY_DISABLED"))
=============================================================================
