------------------------ MODULE MCRestorePublication ------------------------
(* Two publishers of one output path and a restore that reads it.           *)
EXTENDS RestorePublication, TLC

CONSTANTS p1, p2, r1

Publishers == {p1, p2}
Restorers  == {r1}
Symmetry   == Permutations(Publishers)
=============================================================================
