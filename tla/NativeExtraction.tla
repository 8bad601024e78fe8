-------------------------- MODULE NativeExtraction --------------------------
(***************************************************************************)
(* What the data cleaning tools read out of one file, by its kind: a parser  *)
(* of its own, the text layer of a PDF, or an OCR engine, the engines being  *)
(* asked in turn until one reports success.  The file is a snapshot, which   *)
(* never has the OCR text of another program beside it.                      *)
(***************************************************************************)
EXTENDS Sequences

\* What a reader makes of a file: it fails, it succeeds with nothing, it finds few
\* words, a text, a text of more than 4096 bytes, or one with a path or a secret, which
\* no artifact may hold.
Enough  == {"text", "long", "private"}
Outcome == Enough \cup {"failed", "empty", "few"}

\* The kinds with a parser of their own.
Parseable == {"md", "docx", "xlsx", "xml"}

Extracted(method, text) == [status |-> "success", method |-> method, text |-> text, reason |-> ""]
Unread(status, reason)  == [status |-> status, method |-> "", text |-> "empty", reason |-> reason]

-----------------------------------------------------------------------------
(* The engines: `e` says what each of them does with this file *)

\* The bridge may be missing, exit with an error, exceed its time or write no JSON.
OcrWithVisionMacos(e) ==
  IF e.vision \in {"missing", "error", "timeout", "garbled"} THEN "failed" ELSE e.vision

\* The pages of a PDF that cannot be recognised are left out, be it all of them; a
\* picture that cannot be is a failure.
OcrWithTesseract(kind, e) ==
  IF e.tesseract = "unrecognised" THEN IF kind = "pdf" THEN "empty" ELSE "failed"
                                  ELSE e.tesseract

\* Vision counts only with enough text.  After it the first that reports success is
\* taken, and one that succeeds with nothing keeps the others from being asked.
DefaultOcrAdapter(kind, e) ==
  IF OcrWithVisionMacos(e) \in Enough THEN OcrWithVisionMacos(e)
  ELSE LET answers == SelectSeq(<<e.rapidocr, e.easyocr, OcrWithTesseract(kind, e)>>,
                                LAMBDA answer : answer # "failed")
       IN IF answers = <<>> THEN "failed" ELSE Head(answers)

\* _run_custom_ocr_adapter: success takes text.
RunAdapter(adapter, kind, e) ==
  IF adapter = "disabled" THEN Unread("blocked", "OCR.CAPABILITY_DISABLED")
  ELSE LET answer == IF adapter = "default" THEN DefaultOcrAdapter(kind, e) ELSE e.custom
       IN IF answer \in {"failed", "empty"} THEN Unread("failed", "")
                                            ELSE Extracted("ocr", answer)

\* The text layer of a PDF counts from a hundred characters on.
PdfText(layer, e) == e.fitz /\ layer \in Enough

BlockedDocument(kind, ocr) ==
  Unread("blocked", IF ocr.reason # "" THEN ocr.reason
                    ELSE IF kind = "image" THEN "ocr_engine_failed"
                                           ELSE "ocr_adapter_unavailable")

ExtractPdfOrImage(form, adapter, e) ==
  IF form.kind = "pdf" /\ PdfText(form.layer, e) THEN Extracted("pdf_text", form.layer)
  ELSE IF form.kind = "ofd" /\ adapter # "disabled"
  THEN Unread("blocked", "ofd_converter_unavailable")
  ELSE LET ocr == RunAdapter(adapter, form.kind, e)
       IN IF ocr.status = "success" THEN ocr ELSE BlockedDocument(form.kind, ocr)

-----------------------------------------------------------------------------

\* A file of no known kind passes with its name alone if its path names a phase.
MetadataPassthrough(form) ==
  IF form.phased THEN Extracted("metadata_passthrough", "empty") ELSE Unread("error", "")

ParsedDocument(form) ==
  IF form.layer = "failed" THEN Unread("error", "") ELSE Extracted(form.kind, form.layer)

ExtractDocument(form, adapter, e) ==
  IF form.kind \in {"pdf", "image", "ofd"} THEN ExtractPdfOrImage(form, adapter, e)
  ELSE IF form.kind \in Parseable THEN ParsedDocument(form)
  ELSE MetadataPassthrough(form)

\* normalize_native_parse_output, and why a result is refused.
Acceptable(extracted) == extracted.status = "success" /\ extracted.text # "private"
Refusal(extracted) ==
  CASE extracted.reason # ""          -> extracted.reason
    [] extracted.status = "error"     -> "DOCUMENT_PARSE.FAILED"
    [] OTHER                          -> "DOCUMENT_PARSE.SCHEMA_INVALID"
=============================================================================
