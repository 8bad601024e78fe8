--------------------------- MODULE MCArchivePlan ---------------------------
(* One run over two files of one name in different folders: both belong at  *)
(* one path of the archive.  Prepared, audited, corrected and executed by    *)
(* two hosts; or by one, when what is asked is what a single call reports.   *)
EXTENDS ArchivePlan, TLC

CONSTANTS h1, h2, r1, s1, s2, t1, c1, c2, p1, amount, phase1, v1, v2, inhand

OneHost  == {h1}
TwoHosts == {h1, h2}
Runs     == {r1}
Paths    == {s1, s2, t1}
Contents == {c1, c2}
Projects == {p1}
Fields   == {amount, phase1}
Values   == {v1, v2, inhand}

Thresholds == [f \in Fields |-> 2]
Phases     == [q \in Projects |-> phase1 :> [value |-> inhand, score |-> 2, verified |-> TRUE]]
Folders    == (s1 :> c1 @@ s2 :> c2 @@ t1 :> Absent)
Inputs     == (r1 :> <<s1, s2>>)

Symmetry == Permutations(Host)

Amount(v, score) == [f \in {amount} |-> [value |-> v, score |-> score]]

Readings ==
  (s1 :> {[project |-> p1, patch |-> Amount(v1, 1)]} @@ s2 :> {} @@ t1 :> {})

To(target, advice) == [target |-> target, advice |-> advice, home |-> p1]

Decisions ==
  (s1 :> {To(t1, {}), To(s1, {})} @@
   s2 :> {To(t1, {"human_review_recommended"}), To(NoPath, {"undecided"})} @@
   t1 :> {})

Corrections == {[project |-> p1, patch |-> Amount(v2, 3)]}

Moves == [run : Runs, source : Paths, target : Paths]
=============================================================================
