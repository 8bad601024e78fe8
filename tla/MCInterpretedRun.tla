-------------------------- MODULE MCInterpretedRun --------------------------
(* Two files, one after the other; a bill that agrees with two records         *)
(* and a letter that contradicts one; replies that cite what was not given.    *)
EXTENDS InterpretedRun

CONSTANTS p1, p2, bill, letter, contract, project, stranger, x, y

Paths    == {p1, p2}
Contents == {bill, letter}
Inputs   == <<p1, p2>>

Fields      == {"code", "name"}
Identifiers == {"code"}
Record(id, code, name, indexed) ==
  [id |-> id, holds |-> [f \in Fields |-> IF f = "code" THEN code ELSE name],
   priced |-> FALSE, indexed |-> indexed]
Records == {Record(contract, x, y, TRUE), Record(project, Absent, y, FALSE)}
ParsedFacts == [c \in Contents |-> [f \in Fields |->
              IF f = "name" THEN y ELSE IF c = bill THEN x ELSE y]]

Form(kind, layer) == [kind |-> kind, layer |-> layer, phased |-> FALSE]
FileForms == [c \in Contents |->
  IF c = bill THEN {Form("image", "failed"), Form("ofd", "failed"), Form("pdf", "few")}
              ELSE {Form("pdf", "text"), Form("docx", "text"), Form("xml", "failed"),
                    [Form("other", "text") EXCEPT !.phased = TRUE]}]
Engine(vision, rapidocr, easyocr, tesseract) ==
  [vision |-> vision, rapidocr |-> rapidocr, easyocr |-> easyocr, tesseract |-> tesseract,
   custom |-> "text", fitz |-> vision # "missing"]
OcrEngines ==
  {Engine("missing", "empty", "text", "text"), Engine("few", "failed", "text", "failed"),
   Engine("long", "text", "text", "text"), Engine("private", "text", "text", "text"),
   Engine("timeout", "failed", "failed", "unrecognised")}
OcrAdapters == {"default", "disabled"}

Ids     == {contract, project, stranger}
Cited   == {{<<contract, "code">>}, {<<contract, "code">>, <<project, "name">>},
            {<<stranger, "name">>}}
Answer(error, wellFormed, ours, status, relations, evidence) ==
  [error |-> error, wellFormed |-> wellFormed, ours |-> ours, status |-> status,
   relations |-> relations, evidence |-> evidence]
Replies ==
  {Answer(e, TRUE, TRUE, "success", {}, {}) : e \in {"none", "REQUEST_FAILED", "other"}}
  \cup {Answer("none", w, ~w, "success", {}, {<<contract, "code">>}) : w \in BOOLEAN}
  \cup {Answer("none", TRUE, TRUE, s, rel, cited) :
          s \in {"success", "needs_review", "blocked"},
          rel \in {{}, {stranger}, {project}, {contract, project}}, cited \in Cited}
=============================================================================
