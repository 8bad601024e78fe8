-------------------------- MODULE RestorePublication --------------------------
(***************************************************************************)
(* How verify_and_restore_sqlite turns a published backup into a new        *)
(* database file, beside the publishers of BackupPublication that may put   *)
(* a pair at the path it reads, or take theirs back.  The backup is bound   *)
(* by a hard link, verified, copied, verified again, and the copy is linked *)
(* to the target; five cleanup steps follow, each of which may fail.        *)
(*                                                                         *)
(* A file is known by who made it: a publisher's backup holds the snapshot  *)
(* its manifest describes until it decays.                                  *)
(***************************************************************************)
EXTENDS BackupPublication

CONSTANTS
  Restorer,
  Garbage   \* content that is no snapshot

ASSUME RestorerAssumption ==
  /\ Restorer \cap (Publisher \cup {Foreign, NoEntry}) = {}
  /\ Garbage \notin Entry

VARIABLES
  target,   \* entry at the path to restore to
  decayed,  \* the backups whose bytes have changed
  restore   \* the call of each restorer

restoreVars == <<target, decayed, restore>>
allVars     == <<backupVars, restoreVars>>

TargetEntry == Restorer \cup {Foreign, NoEntry}
RestorePc == {"check", "load", "bind", "verify", "copy", "verify_again", "publish",
           "tidy_target", "look", "tidy_source", "withdraw", "withdraw_again",
           "tidy", "done", "dead"}

\* left has the private directories, each with the file in it, and an empty one
\* that could neither be made usable nor removed: the call knows nothing of it.
Call ==
  [at : RestorePc, described : Entry, bound : Entry, copied : Entry \cup {Garbage},
   left : SUBSET {"source", "target", "empty"}, verdict : {"none", "restored", "failed", "dirty"}]

RestoreTypeOK ==
  /\ BackupTypeOK
  /\ target \in TargetEntry
  /\ decayed \subseteq Publisher \cup {Foreign}
  /\ restore \in [Restorer -> Call]

NewCall == [at |-> "check", described |-> NoEntry, bound |-> NoEntry,
            copied |-> NoEntry, left |-> {}, verdict |-> "none"]

RestoreInit ==
  /\ BackupInit
  /\ target \in {NoEntry, Foreign}
  /\ decayed = {}
  /\ restore = [r \in Restorer |-> NewCall]

At(r, step) == restore[r].at = step

Becomes(r, call) == restore' = [restore EXCEPT ![r] = call]

Go(r, step) == Becomes(r, [restore[r] EXCEPT !.at = step])

\* The call ends with an error once its private files are tidied up.
Give(r, outcome, step) ==
  Becomes(r, [restore[r] EXCEPT !.verdict = outcome, !.at = step])

\* The size and the digest of the bound file are those of the manifest.
Matches(r) == restore[r].bound = restore[r].described /\ restore[r].bound \notin decayed

-----------------------------------------------------------------------------
CheckTarget(r) ==
  /\ At(r, "check")
  /\ IF target = NoEntry THEN Go(r, "load") ELSE Give(r, "failed", "done")
  /\ UNCHANGED <<target, decayed>>

LoadManifest(r) ==
  /\ At(r, "load") /\ man # NoEntry
  /\ Becomes(r, [restore[r] EXCEPT !.described = man, !.at = "bind"])
  /\ UNCHANGED <<target, decayed>>

\* It is absent, or it is no manifest.
LoadFails(r) ==
  /\ At(r, "load") /\ (man \in {NoEntry, Foreign} \/ Faulty)
  /\ Give(r, "failed", "done")
  /\ UNCHANGED <<target, decayed>>

Bind(r) ==
  /\ At(r, "bind") /\ out # NoEntry
  /\ Becomes(r, [restore[r] EXCEPT !.bound = out, !.left = {"source"}, !.at = "verify"])
  /\ UNCHANGED <<target, decayed>>

\* A link that took effect although it raised is removed, if that works; where
\* it stays, so does the directory.
BindFails(r) ==
  /\ At(r, "bind") /\ (out = NoEntry \/ Faulty)
  /\ \/ Give(r, "failed", "done")
     \/ /\ Faulty
        /\ Becomes(r, [restore[r] EXCEPT !.left = {"source"}, !.verdict = "dirty",
                                         !.at = "done"])
  /\ UNCHANGED <<target, decayed>>

\* _create_staging_directory makes either private directory, cannot read or set
\* its attributes, cannot remove it, and does not say so.
StagingFails(r) ==
  /\ Faulty
  /\ At(r, "bind") \/ (At(r, "verify") /\ Matches(r))
  /\ Becomes(r, [restore[r] EXCEPT !.left = @ \cup {"empty"}, !.verdict = "failed",
                                   !.at = "tidy"])
  /\ UNCHANGED <<target, decayed>>

\* Before and after the bound file is opened; the private target is made.
Verify(r) ==
  /\ At(r, "verify") /\ Matches(r)
  /\ Becomes(r, [restore[r] EXCEPT !.left = {"source", "target"}, !.at = "copy"])
  /\ UNCHANGED <<target, decayed>>

\* The copy is made of the bytes that are in the bound file now.
Copy(r) ==
  /\ At(r, "copy")
  /\ Becomes(r, [restore[r] EXCEPT !.at = "verify_again",
       !.copied = IF restore[r].bound \in decayed THEN Garbage ELSE restore[r].bound])
  /\ UNCHANGED <<target, decayed>>

\* Mutant: the bound backup is not looked at again after the copy.
VerifyOnce(r) ==
  /\ At(r, "verify_again")
  /\ Go(r, "publish")
  /\ UNCHANGED <<target, decayed>>

VerifyAgain(r) ==
  /\ At(r, "verify_again") /\ Matches(r)
  /\ Go(r, "publish")
  /\ UNCHANGED <<target, decayed>>

\* A verification fails, the copy has another schema or broken references, or a
\* file cannot be made or read.
Refuse(r) ==
  /\ restore[r].at \in {"verify", "copy", "verify_again", "publish"}
  /\ Matches(r) => Faulty
  /\ restore[r].bound # restore[r].described => restore[r].at = "verify"
  /\ restore[r].at = "copy" => Faulty
  /\ Give(r, "failed", "tidy")
  /\ UNCHANGED <<target, decayed>>

Publish(r) ==
  /\ At(r, "publish") /\ target = NoEntry
  /\ target' = r
  /\ Go(r, "tidy_target")
  /\ UNCHANGED decayed

\* os.link raises, and what it may have linked is removed, if that works.
PublishFails(r) ==
  /\ At(r, "publish") /\ (target # NoEntry \/ Faulty)
  /\ \/ UNCHANGED target /\ Give(r, "failed", "tidy")
     \/ /\ Faulty /\ target' \in {target} \cup (IF target = NoEntry THEN {r} ELSE {})
        /\ Give(r, "dirty", "tidy")
  /\ UNCHANGED decayed

-----------------------------------------------------------------------------
\* The private copy and its directory go, then the target is looked at, then
\* the bound backup and its directory go: only then has the call succeeded.
TidyTarget(r) ==
  /\ At(r, "tidy_target")
  /\ Becomes(r, [restore[r] EXCEPT !.left = @ \ {"target"}, !.at = "look"])
  /\ UNCHANGED <<target, decayed>>

Look(r) ==
  /\ At(r, "look") /\ target = r
  /\ Go(r, "tidy_source")
  /\ UNCHANGED <<target, decayed>>

TidySource(r) ==
  /\ At(r, "tidy_source")
  /\ Becomes(r, [restore[r] EXCEPT !.left = @ \ {"source"}, !.verdict = "restored",
                                   !.at = "done"])
  /\ UNCHANGED <<target, decayed>>

\* Mutant: a target that was published stays when a later step fails.
TailStays(r) ==
  /\ restore[r].at \in {"tidy_target", "look", "tidy_source"}
  /\ target = r \/ restore[r].at # "look" => Faulty
  /\ Give(r, "failed", "tidy")
  /\ UNCHANGED <<target, decayed>>

RestoreTailFails(r) ==
  /\ restore[r].at \in {"tidy_target", "look", "tidy_source"}
  /\ target = r \/ restore[r].at # "look" => Faulty
  /\ Give(r, "failed", "withdraw")
  /\ UNCHANGED <<target, decayed>>

\* Mutant: whatever is at the target is removed.
WithdrawAny(r) ==
  /\ restore[r].at \in {"withdraw", "withdraw_again"}
  /\ \/ target' = NoEntry /\ Go(r, "tidy")
     \/ Faulty /\ UNCHANGED target /\ Give(r, "dirty", "withdraw_again")
  /\ UNCHANGED decayed

\* The target is taken back by its identity.  Where that fails, the handler
\* tries once more, and the call reports a failed cleanup either way.
Withdraw(r) ==
  /\ restore[r].at \in {"withdraw", "withdraw_again"}
  /\ \/ target' = Without(target, r) /\ Go(r, "tidy")
     \/ /\ Faulty /\ UNCHANGED target
        /\ Give(r, "dirty", IF At(r, "withdraw") THEN "withdraw_again" ELSE "tidy")
  /\ UNCHANGED decayed

\* The finally block tries every leftover it knows of twice and reports those
\* that stay.
Tidy(r) ==
  /\ At(r, "tidy")
  /\ \E gone \in SUBSET (restore[r].left \ {"empty"}) :
       LET left == restore[r].left \ gone IN
       /\ left \subseteq {"empty"} \/ Faulty
       /\ Becomes(r, [restore[r] EXCEPT !.left = left, !.at = "done",
                        !.verdict = IF left \subseteq {"empty"} THEN @ ELSE "dirty"])
  /\ UNCHANGED <<target, decayed>>

RestoreDies(r) ==
  /\ Faulty /\ restore[r].at \notin {"done", "dead"}
  /\ Go(r, "dead")
  /\ UNCHANGED <<target, decayed>>

RestoreStep(r) ==
  \/ CheckTarget(r) \/ LoadManifest(r) \/ LoadFails(r) \/ Bind(r) \/ BindFails(r)
  \/ StagingFails(r) \/ Verify(r) \/ Copy(r) \/ VerifyAgain(r) \/ Refuse(r)
  \/ Publish(r) \/ PublishFails(r)
  \/ TidyTarget(r) \/ Look(r) \/ TidySource(r) \/ RestoreTailFails(r)
  \/ Withdraw(r) \/ Tidy(r) \/ RestoreDies(r)

\* The bytes of a backup change where it lies.
Decay ==
  /\ Faulty
  /\ \E f \in {out} \ {NoEntry} : decayed' = decayed \cup {f}
  /\ UNCHANGED <<target, restore>>

\* Somebody puts a file of theirs at the target.
Intrude ==
  /\ target' = Foreign
  /\ UNCHANGED <<decayed, restore>>

RestoreNext == (\E r \in Restorer : RestoreStep(r)) \/ Decay \/ Intrude

AllNext ==
  \/ BackupNext /\ UNCHANGED restoreVars
  \/ RestoreNext /\ UNCHANGED backupVars

BackupAndRestore == RestoreInit /\ [][AllNext]_allVars

-----------------------------------------------------------------------------
\* What stands at the target is whole and is what a manifest described, from the
\* moment it can be seen, whatever happened to the backup in between and however
\* the call that put it there ends or dies.
TargetIsVerified ==
  \A r \in Restorer : target = r =>
    restore[r].copied = restore[r].described /\ restore[r].copied \in Publisher \cup {Foreign}

\* A call that reports success has left nothing else behind; one that reports a
\* failure, and not that its cleanup failed, has left no file: neither its target
\* nor a private copy, at most an empty private directory.
RestoreVerdictIsTrue ==
  \A r \in Restorer : restore[r].at = "done" =>
    /\ restore[r].verdict = "restored" => restore[r].left = {}
    /\ restore[r].verdict = "failed" => restore[r].left \subseteq {"empty"} /\ target # r

\* No restore overwrites or removes a file that is not its own, late as it may
\* come between the first check and the link.
RestoreSparesOthers ==
  [][\A t \in TargetEntry \ {NoEntry} : target = t /\ target' # t =>
       target' = Foreign \/ (t \in Restorer /\ restore'[t].at # restore[t].at)]_allVars

-----------------------------------------------------------------------------
(* The same of both calls, where backups and restores meet at one path *)

\* What can be seen is whole: a manifest has its backup beside it, and a restored
\* database is what a manifest described (create_sqlite_backup, verify_and_restore_sqlite).
PublishedIsWhole == ManifestHasBackup /\ TargetIsVerified

\* What a call reports is what it leaves behind, of a backup and of a restore.
VerdictsAreTrue == VerdictIsTrue /\ RestoreVerdictIsTrue

\* Neither call takes away or overwrites what it did not put there.
OthersAreSpared == NeverOverwrites /\ RestoreSparesOthers
=============================================================================
