------------------------ MODULE MCPageIndexArtifacts ------------------------
(* Two indexers of one document that is edited, a collector, an upgrade.    *)
EXTENDS PageIndexArtifacts

CONSTANTS i1, i2, k1, c1, c2, d1, d2

Indexers   == {i1, i2}
Collectors == {k1}
Contents   == {c1, c2}
Draws      == {d1, d2}
=============================================================================
