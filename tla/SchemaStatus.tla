---------------------------- MODULE SchemaStatus ----------------------------
(***************************************************************************)
(* The classification of a database by its _schema_migrations table         *)
(* (infrastructure/database/sqlite/schema.py).  A row is a version and what *)
(* its name and checksum are worth: those of the catalog ("catalog"), valid *)
(* values the catalog does not hold for that version ("other"), or values   *)
(* of a wrong type ("malformed").  A catalog is validated to hold exactly   *)
(* the versions 1..target, so its target stands for it.                     *)
(***************************************************************************)
EXTENDS Integers

Digest == {"catalog", "other", "malformed"}

Row == [version: Int, digest: Digest]

\* The table the rows live in: absent, with foreign columns, or as created.
Table == {"absent", "foreign", "ready"}

SchemaState ==
  {"uninitialized", "corrupt", "too_new", "tampered", "pending", "current"}

Versions(rows) == {row.version : row \in rows}

\* The highest recorded version, 0 for an empty table.
Highest(rows) ==
  IF rows = {} THEN 0
  ELSE CHOOSE v \in Versions(rows) : \A w \in Versions(rows) : w <= v

ValuesAreValid(rows) ==
  \A row \in rows : row.version > 0 /\ row.digest # "malformed"

Contiguous(rows) ==
  Highest(rows) \in Nat /\ Versions(rows) = 1..Highest(rows)

\* Mutant: names and checksums are not compared.
MatchesAnything(rows) == TRUE

MatchesCatalog(rows) == \A row \in rows : row.digest = "catalog"

\* The order of the tests is the code's: a row with bad values hides a version
\* that is too new, which hides a gap, which hides a foreign checksum.
StatusFromApplied(rows, target) ==
  IF ~ValuesAreValid(rows) THEN "corrupt"
  ELSE IF Highest(rows) > target THEN "too_new"
  ELSE IF ~Contiguous(rows) THEN "corrupt"
  ELSE IF ~MatchesCatalog(rows) THEN "tampered"
  ELSE IF Highest(rows) < target THEN "pending"
  ELSE "current"

InspectSchema(table, rows, target) ==
  IF table = "absent" THEN "uninitialized"
  ELSE IF table = "foreign" THEN "corrupt"
  ELSE StatusFromApplied(rows, target)

\* The states _raise_for_unusable_status lets pass.
Usable(state) == state \in {"pending", "current"}
=============================================================================
