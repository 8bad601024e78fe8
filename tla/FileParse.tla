----------------------------- MODULE FileParse -----------------------------
(***************************************************************************)
(* DocumentParseSkill of the file organizer: the text of one file by a       *)
(* native parser or, failing that, by the first OCR provider that succeeds;  *)
(* and what the document management agent's skills read from such a text.    *)
(* A content stands for the bytes of a file, for their hash and for the text *)
(* in them; Gone is no file.                                                 *)
(***************************************************************************)
EXTENDS Naturals, Sequences

CONSTANTS
  Content, Gone,
  Native,    \* the contents a native parser reads a text from
  Scanned,   \* the contents an OCR engine reads a text from
  Ready,     \* the providers that are installed and configured here
  Marked,    \* the contents whose first 4096 bytes name an invoice and its number or total
  Invoices   \* the contents the facts are of an invoice

ASSUME ContentAssumption ==
  /\ Native \cup Scanned \cup Marked \cup Invoices \subseteq Content
  /\ Native \cap Scanned = {} /\ Gone \notin Content

\* run_file_organizer.py: _build_document_management_agent
Providers == <<"rapidocr", "mineru", "easyocr">>

\* An engine that is not installed or does not start is blocked; one that fails on an
\* image, or cannot render a page, has failed; one that finds no text is blocked.  Of a
\* PDF, the pages it cannot read are left out, and the rest is a success.
EngineOutcomes(engine, c) ==
  IF engine \notin Ready THEN {"blocked"}
  ELSE {"blocked", "failed"} \cup (IF c \in Scanned THEN {"success"} ELSE {})

RapidOcr(c) == EngineOutcomes("rapidocr", c)
EasyOcr(c)  == EngineOutcomes("easyocr", c)

\* MineruProvider reports everything it foresees as blocked; an output it cannot
\* decode raises, which the chain calls failed.
Mineru(c) == EngineOutcomes("mineru", c)

Outcomes(c) ==
  {o \in [1..3 -> {"success", "blocked", "failed"}] :
     o[1] \in RapidOcr(c) /\ o[2] \in Mineru(c) /\ o[3] \in EasyOcr(c)}

\* Mutant: the chain goes on after a provider has succeeded.
AttemptsAll(o) == [n \in DOMAIN o |-> <<Providers[n], o[n]>>]

\* OcrProviderChain.extract: the providers up to the first that succeeds.
Attempts(o) ==
  LET tried == {n \in DOMAIN o : \A m \in 1..(n - 1) : o[m] # "success"}
  IN  [n \in tried |-> <<Providers[n], o[n]>>]

Attempt == {"native", "rapidocr", "mineru", "easyocr"} \X {"success", "blocked", "failed"}

Parse == [hash : Content \cup {Gone}, status : {"success", "needs_review"},
          text : Content \cup {Gone}, attempts : Seq(Attempt)]

\* A parse: the hash of the file, and the text or why there is none.
Parsed(hash, status, text, attempts) ==
  [hash |-> hash, status |-> status, text |-> text, attempts |-> attempts]

NativeAttempt(status) == <<"native", status>>

\* parse, once the file was there and hashed; now is what the file holds when it is read.
Parses(hash, now) ==
  IF now \in Native
  THEN {Parsed(hash, "success", now, <<NativeAttempt("success")>>)}
  ELSE {LET read == \E n \in DOMAIN o : o[n] = "success"
        IN  Parsed(hash, IF read THEN "success" ELSE "needs_review",
                   IF read THEN now ELSE Gone, <<NativeAttempt("blocked")>> \o Attempts(o))
          : o \in Outcomes(now)}

\* SkillCatalog.for_document: whether the facts are asked for.
FactsSelected(p) == p.status = "success" /\ p.text \in Marked

\* DocumentFactsSkill.extract
Facts(p) ==
  IF ~FactsSelected(p) THEN "none"
  ELSE IF p.text \in Invoices THEN "invoice" ELSE "unknown"

\* DocumentReviewSkill.build and document_result.v1
Result(source, p) ==
  [source |-> source, parse |-> p, facts |-> Facts(p), action |-> "no_archive"]
=============================================================================
