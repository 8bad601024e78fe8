------------------------ MODULE MCFileOrganization ------------------------
(* Two documents of one folder and two places in the archive.             *)
EXTENDS FileOrganization, TLC

CONSTANTS h1, h2, r1, r2, c1, c2, s1, s2, t1, t2

TwoHosts == {h1, h2}
OneRun   == {r1}
TwoRuns  == {r1, r2}
Contents == {c1, c2}
OneSource  == {s1}
OneArchive == {t1}
Sources  == {s1, s2}
Archives == {t1, t2}

Symmetry ==
  Permutations(Host) \cup Permutations(Run) \cup Permutations(FileContent)
    \cup Permutations(SourcePath) \cup Permutations(ArchivePath)
=============================================================================
