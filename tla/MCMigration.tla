---------------------------- MODULE MCMigration ----------------------------
(* Small instances of Migration for TLC.                                   *)
EXTENDS Migration, TLC

CONSTANTS r1, r2, w1, u1

TwoRunners == {r1, r2}
OneWriter == {w1}
OneRaw == {u1}

TargetTwo == [r \in Runner |-> 2]

CatalogRows == {[version |-> v, digest |-> "catalog"] : v \in 1..2}
\* And an edited checksum, a damaged row and a release to come.
ForeignRows == CatalogRows \cup
  {[version |-> 1, digest |-> "other"], [version |-> 1, digest |-> "malformed"],
   [version |-> 3, digest |-> "catalog"]}
=============================================================================
