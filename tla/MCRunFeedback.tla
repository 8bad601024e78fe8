---------------------------- MODULE MCRunFeedback ----------------------------
(* RunFeedback with two items, two responses and six batches.              *)
EXTENDS RunFeedback, TLC

CONSTANTS c1, c2, r1, r2, i1, i2, i3

Callers  == {c1, c2}
Symmetry == Permutations(Callers)

MCKindOf == i1 :> "rule" @@ i2 :> "test"

Open     == [of |-> r1, status |-> "needs_review"]
Reviewed == [of |-> r1, status |-> "reviewed"]
Stale    == [of |-> r2, status |-> "needs_review"]

Raw(id, item, choice, snap) ==
  [id |-> id, item |-> item, choice |-> choice, snap |-> snap]

\* One decision; the other item under the same id; both items; the first item
\* again, under another id and with another choice, next to the second; the
\* first item as it looks when all is reviewed; a contradiction; and entries
\* that are refused.
MCBatch ==
  { << Raw("FB1", i1, "approve", Open) >>,
    << Raw("FB1", i2, "approve", Open) >>,
    << Raw("FB1", i1, "approve", Open), Raw("FB2", i2, "approve", Open) >>,
    << Raw("FB3", i1, "reject", Open), Raw("FB4", i2, "approve", Open) >>,
    << Raw("FB5", i1, "approve", Reviewed), NotADict >>,
    << Raw("FB6", i1, "approve", Open), Raw("FB7", i1, "reject", Open),
       Raw("FB8", i2, "approve", Stale), Raw("FB9", i3, "approve", Open) >> }
=============================================================================
