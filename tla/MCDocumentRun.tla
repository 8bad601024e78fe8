--------------------------- MODULE MCDocumentRun ---------------------------
(* Two calls over the same two files, one of which a call is given twice.     *)
EXTENDS DocumentRun

CONSTANTS r1, r2, f1, f2, bill, scan

Calls    == {r1, r2}
Files    == {f1, f2}
Contents == {bill, scan}
Inputs   == [r \in Calls |-> IF r = r1 THEN <<f1, f2>> ELSE <<f2, f2>>]

Natives == {bill}
Scans   == {scan}
Readies == {"mineru"}
=============================================================================
