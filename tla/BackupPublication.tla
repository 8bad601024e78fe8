-------------------------- MODULE BackupPublication --------------------------
(***************************************************************************)
(* How _create_sqlite_backup publishes a snapshot and its manifest: both   *)
(* are written in a private staging directory, hard-linked to their final  *)
(* names without overwriting, and removed again when a later step fails.   *)
(* Several publishers may be given the same output path.  A directory      *)
(* entry is the publisher whose file it is, Foreign, or NoEntry when there *)
(* is none; comparing identities (device and inode) is comparing these.    *)
(***************************************************************************)
EXTENDS Naturals

CONSTANTS
  Publisher,
  Foreign,  \* a file somebody else put there
  NoEntry,  \* there is none
  Faulty    \* whether calls of the file system may fail and processes die

ASSUME EntryAssumption ==
  Foreign \notin Publisher /\ NoEntry \notin Publisher /\ Foreign # NoEntry
ASSUME FaultyAssumption == Faulty \in BOOLEAN

VARIABLES
  out,      \* entry at the output path
  man,      \* entry at <output>.manifest.json
  temp,     \* temporary files of each publisher
  staging,  \* whether its staging directory exists
  phase,    \* where each call stands
  verdict   \* how the call ended: "dirty" reports a failed cleanup

files      == <<temp, staging>>
backupVars == <<out, man, files, phase, verdict>>

Entry   == Publisher \cup {Foreign, NoEntry}
Verdict == {"none", "created", "failed", "dirty"}
Pc == {"start", "snapshot", "link_backup", "drop_backup_temp", "link_manifest",
       "drop_manifest_temp", "drop_staging", "check", "result", "compensate",
       "compensate_backup", "cleanup", "done", "dead"}

BackupTypeOK ==
  /\ out \in Entry /\ man \in Entry
  /\ temp \in [Publisher -> SUBSET {"backup", "manifest"}]
  /\ staging \in [Publisher -> BOOLEAN]
  /\ \A p \in Publisher : temp[p] # {} => staging[p]
  /\ phase \in [Publisher -> Pc]
  /\ verdict \in [Publisher -> Verdict]

BackupInit ==
  /\ out \in {NoEntry, Foreign} /\ man \in {NoEntry, Foreign}
  /\ temp = [p \in Publisher |-> {}]
  /\ staging = [p \in Publisher |-> FALSE]
  /\ phase = [p \in Publisher |-> "start"]
  /\ verdict = [p \in Publisher |-> "none"]

Turn(p, label) == phase' = [phase EXCEPT ![p] = label]

Report(p, v) == verdict' = [verdict EXCEPT ![p] = v]

\* An entry after its publisher removed it: others' entries stay.
Without(entry, p) == IF entry = p THEN NoEntry ELSE entry

-----------------------------------------------------------------------------
Prepare(p) ==
  /\ phase[p] = "start"
  /\ staging' = [staging EXCEPT ![p] = TRUE]
  /\ temp' = [temp EXCEPT ![p] = {"backup", "manifest"}]
  /\ Turn(p, "snapshot")
  /\ UNCHANGED <<out, man, verdict>>

\* The staging directory or one of the files cannot be created.
PrepareFails(p) ==
  /\ Faulty /\ phase[p] = "start"
  /\ \/ UNCHANGED files
     \/ /\ staging' = [staging EXCEPT ![p] = TRUE]
        /\ \E made \in SUBSET {"backup"} : temp' = [temp EXCEPT ![p] = made]
  /\ Report(p, "failed")
  /\ Turn(p, "cleanup")
  /\ UNCHANGED <<out, man>>

TakeSnapshot(p) ==
  /\ phase[p] = "snapshot"
  /\ Turn(p, "link_backup")
  /\ UNCHANGED <<out, man, files, verdict>>

\* The source changed, the copy is not eligible, or a file cannot be written.
RefuseSnapshot(p) ==
  /\ phase[p] = "snapshot"
  /\ Report(p, "failed")
  /\ Turn(p, "cleanup")
  /\ UNCHANGED <<out, man, files>>

LinkBackup(p) ==
  /\ phase[p] = "link_backup" /\ out = NoEntry
  /\ out' = p
  /\ Turn(p, "drop_backup_temp")
  /\ UNCHANGED <<man, files, verdict>>

\* os.link raises.  _link_no_overwrite then removes the entry if it is its own
\* after all (the call may have taken effect), which may fail as well.
LinkFails(p, entry, entry2) ==
  \/ /\ entry # NoEntry \/ Faulty
     /\ entry2 = entry
     /\ Report(p, "failed")
  \/ /\ Faulty
     /\ entry2 \in {entry} \cup (IF entry = NoEntry THEN {p} ELSE {})
     /\ Report(p, "dirty")

LinkBackupFails(p) ==
  /\ phase[p] = "link_backup"
  /\ \E entry2 \in Entry : LinkFails(p, out, entry2) /\ out' = entry2
  /\ Turn(p, "cleanup")
  /\ UNCHANGED <<man, files>>

DropBackupTemp(p) ==
  /\ phase[p] = "drop_backup_temp"
  /\ temp' = [temp EXCEPT ![p] = @ \ {"backup"}]
  /\ Turn(p, "link_manifest")
  /\ UNCHANGED <<out, man, staging, verdict>>

\* The linked backup is taken back, if that works.
DropBackupTempFails(p) ==
  /\ Faulty /\ phase[p] = "drop_backup_temp"
  /\ \/ out' = Without(out, p) /\ Report(p, "failed")
     \/ UNCHANGED out /\ Report(p, "dirty")
  /\ Turn(p, "cleanup")
  /\ UNCHANGED <<man, files>>

LinkManifest(p) ==
  /\ phase[p] = "link_manifest" /\ man = NoEntry
  /\ man' = p
  /\ Turn(p, "drop_manifest_temp")
  /\ UNCHANGED <<out, files, verdict>>

LinkManifestFails(p) ==
  /\ phase[p] = "link_manifest"
  /\ \E entry2 \in Entry : LinkFails(p, man, entry2) /\ man' = entry2
  /\ Turn(p, "compensate")
  /\ UNCHANGED <<out, files>>

DropManifestTemp(p) ==
  /\ phase[p] = "drop_manifest_temp"
  /\ temp' = [temp EXCEPT ![p] = @ \ {"manifest"}]
  /\ Turn(p, "drop_staging")
  /\ UNCHANGED <<out, man, staging, verdict>>

DropStaging(p) ==
  /\ phase[p] = "drop_staging" /\ temp[p] = {}
  /\ staging' = [staging EXCEPT ![p] = FALSE]
  /\ Turn(p, "check")
  /\ UNCHANGED <<out, man, temp, verdict>>

\* Removing the last leftovers or the final look at the pair fails.
TailFails(p) ==
  /\ Faulty /\ phase[p] \in {"drop_manifest_temp", "drop_staging", "check"}
  /\ Report(p, "failed")
  /\ Turn(p, "compensate")
  /\ UNCHANGED <<out, man, files>>

CheckPair(p) ==
  /\ phase[p] = "check" /\ out = p /\ man = p
  /\ Turn(p, "result")
  /\ UNCHANGED <<out, man, files, verdict>>

ResultIsMade(p) ==
  /\ phase[p] = "result"
  /\ Report(p, "created")
  /\ Turn(p, "done")
  /\ UNCHANGED <<out, man, files>>

\* Resolving the two final paths for the result fails: the call reports a
\* failure, and nothing takes the published pair back.
ResultFails(p) ==
  /\ Faulty /\ phase[p] = "result"
  /\ Report(p, "failed")
  /\ Turn(p, "cleanup")
  /\ UNCHANGED <<out, man, files>>

-----------------------------------------------------------------------------
\* _remove_published_pair: the manifest goes first, and the backup stays when
\* the manifest cannot be removed.
Compensate(p) ==
  /\ phase[p] = "compensate"
  /\ \/ /\ man' = Without(man, p) /\ Turn(p, "compensate_backup")
        /\ UNCHANGED <<out, verdict>>
     \/ /\ Faulty /\ Report(p, "dirty") /\ Turn(p, "cleanup")
        /\ UNCHANGED <<out, man>>
  /\ UNCHANGED files

CompensateBackup(p) ==
  /\ phase[p] = "compensate_backup"
  /\ \/ out' = Without(out, p) /\ UNCHANGED verdict
     \/ Faulty /\ UNCHANGED out /\ Report(p, "dirty")
  /\ Turn(p, "cleanup")
  /\ UNCHANGED <<man, files>>

\* The finally block tries every leftover once; the directory goes only when
\* it is empty.
Cleanup(p) ==
  /\ phase[p] = "cleanup"
  /\ \E left \in SUBSET temp[p], gone \in BOOLEAN :
       /\ left # {} \/ ~gone => Faulty
       /\ temp' = [temp EXCEPT ![p] = left]
       /\ staging' = [staging EXCEPT ![p] = @ /\ ~(gone /\ left = {})]
  /\ Turn(p, "done")
  /\ UNCHANGED <<out, man, verdict>>

Crash(p) ==
  /\ Faulty /\ phase[p] \notin {"done", "dead"}
  /\ Turn(p, "dead")
  /\ UNCHANGED <<out, man, files, verdict>>

PublisherStep(p) ==
  \/ Prepare(p) \/ PrepareFails(p) \/ TakeSnapshot(p) \/ RefuseSnapshot(p)
  \/ LinkBackup(p) \/ LinkBackupFails(p)
  \/ DropBackupTemp(p) \/ DropBackupTempFails(p)
  \/ LinkManifest(p) \/ LinkManifestFails(p)
  \/ DropManifestTemp(p) \/ DropStaging(p) \/ TailFails(p)
  \/ CheckPair(p) \/ ResultIsMade(p) \/ ResultFails(p)
  \/ Compensate(p) \/ CompensateBackup(p) \/ Cleanup(p)

BackupNext == \E p \in Publisher : PublisherStep(p) \/ Crash(p)

-----------------------------------------------------------------------------
\* A manifest that can be seen has its backup beside it: also while another
\* publisher uses the same path, after a death and after a failed cleanup.
ManifestHasBackup == \A p \in Publisher : man = p => out = p

\* What a call reports is what it leaves: a created pair is complete and stays
\* so, without leftovers; a failure that does not say "cleanup failed" never
\* leaves half a pair.
VerdictIsTrue ==
  \A p \in Publisher : phase[p] = "done" =>
    /\ verdict[p] = "created" =>
         out = p /\ man = p /\ temp[p] = {} /\ ~staging[p]
    /\ verdict[p] = "failed" => (out = p <=> man = p)

\* README: backups never overwrite.  An existing entry is only ever taken away,
\* and only by the publisher that put it there.
NeverOverwrites ==
  [][/\ out # NoEntry /\ out' # out => out' = NoEntry /\ out \in Publisher
                                        /\ phase'[out] # phase[out]
     /\ man # NoEntry /\ man' # man => man' = NoEntry /\ man \in Publisher
                                        /\ phase'[man] # phase[man]]_backupVars
=============================================================================
