------------------------- MODULE MaintenanceProofs -------------------------
(* The maintenance of a database, whatever the threads, processes,          *)
(* publishers and restorers and whether or not their calls may fail: the     *)
(* mutex implements Lease; what backups and restores leave behind is whole,  *)
(* is what they report, and spares what others put there.  The two parts     *)
(* share no name.                                                            *)
EXTENDS MaintenanceMutex, RestorePublication, TLAPS

-----------------------------------------------------------------------------
(* The mutex *)
LEMMA MutexInit == Init => TypeOK /\ MutexInv
BY HomeAssumption, NobodyAssumption DEF Init, TypeOK, MutexInv

LEMMA MutexStep == TypeOK /\ MutexInv /\ [Next]_vars => TypeOK' /\ MutexInv'
<1> SUFFICES ASSUME TypeOK, MutexInv, [Next]_vars PROVE TypeOK' /\ MutexInv'
  OBVIOUS
<1> USE HomeAssumption, NobodyAssumption DEF TypeOK, MutexInv, Goto
<1>1. ASSUME NEW t \in Thread, EnterThread(t) PROVE TypeOK' /\ MutexInv'
  BY <1>1 DEF EnterThread, TakeThreadLock
<1>2. ASSUME NEW t \in Thread, EnterNested(t) PROVE TypeOK' /\ MutexInv'
  BY <1>2 DEF EnterNested, TakeThreadLock
<1>3. ASSUME NEW t \in Thread, OpenLockFile(t) PROVE TypeOK' /\ MutexInv'
  BY <1>3 DEF OpenLockFile
<1>4. ASSUME NEW t \in Thread, AcquireFileLock(t) PROVE TypeOK' /\ MutexInv'
  BY <1>4 DEF AcquireFileLock
<1>5. ASSUME NEW t \in Thread, GiveUp(t) PROVE TypeOK' /\ MutexInv'
  BY <1>5 DEF GiveUp, ReleaseThreadLock
<1>6. ASSUME NEW t \in Thread, LeaveNested(t) PROVE TypeOK' /\ MutexInv'
  BY <1>6 DEF LeaveNested, ReleaseThreadLock
<1>7. ASSUME NEW t \in Thread, LeaveBody(t) PROVE TypeOK' /\ MutexInv'
  BY <1>7 DEF LeaveBody
<1>8. ASSUME NEW t \in Thread, Unlock(t) PROVE TypeOK' /\ MutexInv'
  BY <1>8 DEF Unlock, CloseLockFile, ReleaseThreadLock
<1>9. ASSUME NEW t \in Thread, UnlockRaises(t) PROVE TypeOK' /\ MutexInv'
  BY <1>9 DEF UnlockRaises, CloseLockFile
<1>10. ASSUME NEW p \in Proc, Kill(p) PROVE TypeOK' /\ MutexInv'
  BY <1>10 DEF Kill
<1>11. CASE UNCHANGED vars
  BY <1>11 DEF vars
<1> QED BY <1>1, <1>2, <1>3, <1>4, <1>5, <1>6, <1>7, <1>8, <1>9, <1>10,
          <1>11 DEF Next, Step

\* The two locks' owners at every point of hold, for every number of threads
\* and processes.
THEOREM MutexCorrect == Spec => [](TypeOK /\ MutexInv)
BY MutexInit, MutexStep, PTL DEF Spec

\* No two threads are in a body at once.
LEMMA OneBody ==
  ASSUME TypeOK, MutexInv, NEW t \in Thread, NEW u \in Thread,
         depth[t] > 0, depth[u] > 0
  PROVE  t = u
BY DEF TypeOK, MutexInv

\* Every step of the two locks is a step of the abstract lease or leaves it
\* alone.
THEOREM ImplementsLeaseCorrect == Spec => ImplementsLease
<1>1. Init => LeaseOf!Init
  BY DEF Init, LeaseOf!Init
<1>2. TypeOK /\ MutexInv /\ [Next]_vars => [LeaseOf!Next]_depth
  <2> SUFFICES ASSUME TypeOK, MutexInv, [Next]_vars
               PROVE  LeaseOf!Next \/ UNCHANGED depth
    OBVIOUS
  <2>1. ASSUME NEW t \in Thread, EnterNested(t) PROVE LeaseOf!Enter(t)
    BY <2>1, OneBody DEF EnterNested, LeaseOf!Enter, TypeOK, MutexInv
  <2>2. ASSUME NEW t \in Thread, AcquireFileLock(t) PROVE LeaseOf!Enter(t)
    BY <2>2, NobodyAssumption
       DEF AcquireFileLock, LeaseOf!Enter, TypeOK, MutexInv
  <2>3. ASSUME NEW t \in Thread, LeaveNested(t) PROVE LeaseOf!Leave(t)
    BY <2>3 DEF LeaveNested, LeaseOf!Leave, TypeOK
  <2>4. ASSUME NEW t \in Thread, LeaveBody(t) PROVE LeaseOf!Leave(t)
    BY <2>4 DEF LeaveBody, LeaseOf!Leave, TypeOK
  <2>5. ASSUME NEW p \in Proc, Kill(p) PROVE LeaseOf!Next
    <3> DEFINE gone == {t \in Thread : Home[t] = p}
    <3>1. LeaseOf!Vanish(gone)
      BY <2>5 DEF Kill, LeaseOf!Vanish
    <3> QED BY <3>1 DEF LeaseOf!Next
  <2>6. ASSUME NEW t \in Thread,
               EnterThread(t) \/ OpenLockFile(t) \/ GiveUp(t) \/ Unlock(t)
                 \/ UnlockRaises(t)
        PROVE  UNCHANGED depth
    BY <2>6 DEF EnterThread, OpenLockFile, GiveUp, Unlock, UnlockRaises,
                CloseLockFile
  <2>7. CASE UNCHANGED vars
    BY <2>7 DEF vars
  <2> QED BY <2>1, <2>2, <2>3, <2>4, <2>5, <2>6, <2>7
          DEF Next, Step, LeaseOf!Next
<1> QED BY <1>1, <1>2, MutexCorrect, PTL DEF Spec, ImplementsLease, LeaseOf!Spec

-----------------------------------------------------------------------------
(* A publisher *)

\* What a publisher has linked, by where its call stands.  Nobody else removes it.
LinksOf(p) ==
  /\ phase[p] \in {"start", "snapshot", "link_backup"} => out # p
  /\ phase[p] \in {"start", "snapshot", "link_backup", "drop_backup_temp", "link_manifest",
                   "compensate_backup"} => man # p
  /\ phase[p] \in {"drop_backup_temp", "link_manifest", "drop_manifest_temp", "drop_staging",
                   "check", "result", "compensate", "compensate_backup"} => out = p
  /\ phase[p] \in {"drop_manifest_temp", "drop_staging", "check", "result"} => man = p
  /\ man = p => out = p

\* What it may report, and that a result is made only of a call that is tidied up.
ReportOf(p) ==
  /\ phase[p] \in {"check", "result"} => temp[p] = {} /\ ~staging[p]
  /\ phase[p] \in {"cleanup", "done"} /\ verdict[p] = "failed" => (out = p <=> man = p)
  /\ phase[p] \in {"compensate", "compensate_backup", "cleanup"} =>
       verdict[p] \in {"failed", "dirty"}
  /\ phase[p] = "done" /\ verdict[p] = "created" =>
       out = p /\ man = p /\ temp[p] = {} /\ ~staging[p]

BackupInv == BackupTypeOK /\ \A p \in Publisher : LinksOf(p) /\ ReportOf(p)

-----------------------------------------------------------------------------
(* A restorer *)

\* What a restorer knows of the copy it is about to publish, or has published.
CopyOf(r) ==
  LET call == restore[r] IN
  /\ call.at \in {"verify", "copy", "verify_again", "publish"} => call.bound # NoEntry
  /\ call.at = "verify_again" => call.copied = call.bound \/ call.bound \in decayed
  /\ call.at = "publish" \/ target = r =>
       call.copied = call.described /\ call.copied \in Publisher \cup {Foreign}

\* When the target may be its own, and what its verdict says of that.
TargetOf(r) ==
  LET call == restore[r] IN
  /\ call.at \in {"check", "load", "bind", "verify", "copy", "verify_again", "publish"} =>
       target # r
  /\ call.at \in {"tidy", "done"} /\ call.verdict = "failed" => target # r
  /\ call.at \in {"withdraw", "tidy"} => call.verdict \in {"failed", "dirty"}
  /\ call.at = "withdraw_again" => call.verdict = "dirty"

\* What is left of its private files.
LeftOf(r) ==
  LET call == restore[r] IN
  /\ call.at \in {"check", "load", "bind"} => call.left = {}
  /\ call.at \notin {"tidy", "done", "dead"} => call.left \subseteq {"source", "target"}
  /\ call.at \in {"look", "tidy_source"} => call.left \subseteq {"source"}
  /\ call.at = "done" /\ call.verdict = "restored" => call.left = {}
  /\ call.at = "done" /\ call.verdict = "failed" => call.left \subseteq {"empty"}

RestoreInv ==
  /\ RestoreTypeOK
  /\ \A r \in Restorer : CopyOf(r) /\ TargetOf(r) /\ LeftOf(r)

MaintenanceInv == BackupInv /\ RestoreInv

LEMMA BackupStart == BackupInit => BackupInv
BY EntryAssumption DEF BackupInit, BackupInv, BackupTypeOK, Entry, Verdict, Pc, LinksOf, ReportOf

\* The steps of a call, one by one: what they change of its own links and reports, and
\* that those of the others stay.
LEMMA BackupStep == BackupInv /\ [BackupNext]_backupVars => BackupInv'
<1> SUFFICES ASSUME BackupInv, [BackupNext]_backupVars PROVE BackupInv'
  OBVIOUS
<1> USE EntryAssumption DEF BackupInv, BackupTypeOK, Entry, Verdict, Pc, LinksOf, ReportOf,
                            Turn, Report, files
<1>1. ASSUME NEW p \in Publisher, Prepare(p) PROVE BackupInv'
  BY <1>1 DEF Prepare
<1>2. ASSUME NEW p \in Publisher, PrepareFails(p) PROVE BackupInv'
  <2>1. CASE UNCHANGED files
    BY <1>2, <2>1 DEF PrepareFails
  <2>2. CASE /\ staging' = [staging EXCEPT ![p] = TRUE]
             /\ \E made \in SUBSET {"backup"} : temp' = [temp EXCEPT ![p] = made]
    BY <1>2, <2>2 DEF PrepareFails
  <2> QED BY <1>2, <2>1, <2>2 DEF PrepareFails
<1>3. ASSUME NEW p \in Publisher, TakeSnapshot(p) PROVE BackupInv'
  BY <1>3 DEF TakeSnapshot
<1>4. ASSUME NEW p \in Publisher, RefuseSnapshot(p) PROVE BackupInv'
  BY <1>4 DEF RefuseSnapshot
<1>5. ASSUME NEW p \in Publisher, LinkBackup(p) PROVE BackupInv'
  BY <1>5 DEF LinkBackup
<1>6. ASSUME NEW p \in Publisher, LinkBackupFails(p) PROVE BackupInv'
  BY <1>6 DEF LinkBackupFails, LinkFails
<1>7. ASSUME NEW p \in Publisher, DropBackupTemp(p) PROVE BackupInv'
  BY <1>7 DEF DropBackupTemp
<1>8. ASSUME NEW p \in Publisher, DropBackupTempFails(p) PROVE BackupInv'
  BY <1>8 DEF DropBackupTempFails, Without
<1>9. ASSUME NEW p \in Publisher, LinkManifest(p) PROVE BackupInv'
  BY <1>9 DEF LinkManifest
<1>10. ASSUME NEW p \in Publisher, LinkManifestFails(p) PROVE BackupInv'
  BY <1>10 DEF LinkManifestFails, LinkFails
<1>11. ASSUME NEW p \in Publisher, DropManifestTemp(p) PROVE BackupInv'
  BY <1>11 DEF DropManifestTemp
<1>12. ASSUME NEW p \in Publisher, DropStaging(p) PROVE BackupInv'
  BY <1>12 DEF DropStaging
<1>13. ASSUME NEW p \in Publisher, TailFails(p) PROVE BackupInv'
  BY <1>13 DEF TailFails
<1>14. ASSUME NEW p \in Publisher, CheckPair(p) PROVE BackupInv'
  BY <1>14 DEF CheckPair
<1>15. ASSUME NEW p \in Publisher, ResultIsMade(p) PROVE BackupInv'
  BY <1>15 DEF ResultIsMade
<1>16. ASSUME NEW p \in Publisher, ResultFails(p) PROVE BackupInv'
  BY <1>16 DEF ResultFails
<1>17. ASSUME NEW p \in Publisher, Compensate(p) PROVE BackupInv'
  BY <1>17 DEF Compensate, Without
<1>18. ASSUME NEW p \in Publisher, CompensateBackup(p) PROVE BackupInv'
  BY <1>18 DEF CompensateBackup, Without
<1>19. ASSUME NEW p \in Publisher, Cleanup(p) PROVE BackupInv'
  <2> PICK left \in SUBSET temp[p], gone \in BOOLEAN :
         /\ temp' = [temp EXCEPT ![p] = left]
         /\ staging' = [staging EXCEPT ![p] = @ /\ ~(gone /\ left = {})]
    BY <1>19 DEF Cleanup
  <2>1. BackupTypeOK'
    BY <1>19 DEF Cleanup
  <2>2. ASSUME NEW q \in Publisher PROVE LinksOf(q)' /\ ReportOf(q)'
    BY <1>19 DEF Cleanup
  <2> QED BY <2>1, <2>2
<1>20. ASSUME NEW p \in Publisher, Crash(p) PROVE BackupInv'
  BY <1>20 DEF Crash
<1>21. CASE UNCHANGED backupVars
  BY <1>21 DEF backupVars
<1> QED BY <1>1, <1>2, <1>3, <1>4, <1>5, <1>6, <1>7, <1>8, <1>9, <1>10, <1>11, <1>12,
       <1>13, <1>14, <1>15, <1>16, <1>17, <1>18, <1>19, <1>20, <1>21
       DEF BackupNext, PublisherStep

-----------------------------------------------------------------------------
(* The restorers, step by step *)

LEMMA RestoreStart == RestoreInit => MaintenanceInv
<1> SUFFICES ASSUME RestoreInit PROVE MaintenanceInv
  OBVIOUS
<1>1. BackupInv
  BY BackupStart DEF RestoreInit
<1>2. NewCall \in Call
  BY DEF NewCall, Call, RestorePc, Entry
<1>3. RestoreTypeOK
  BY <1>1, <1>2 DEF RestoreInit, RestoreTypeOK, BackupInv, TargetEntry
<1>4. ASSUME NEW r \in Restorer PROVE CopyOf(r) /\ TargetOf(r) /\ LeftOf(r)
  BY RestorerAssumption DEF RestoreInit, NewCall, CopyOf, TargetOf, LeftOf
<1> QED BY <1>1, <1>3, <1>4 DEF MaintenanceInv, RestoreInv

\* What a step of one restorer leaves to the others.
LEMMA RestorerFrame ==
  ASSUME RestoreInv, UNCHANGED backupVars, NEW r \in Restorer, NEW call \in Call,
         Becomes(r, call), target' \in {target, r, NoEntry}, decayed' = decayed,
         CopyOf(r)', TargetOf(r)', LeftOf(r)'
  PROVE  RestoreInv'
<1>1. restore' \in [Restorer -> Call] /\ restore'[r] = call
      /\ \A q \in Restorer : q # r => restore'[q] = restore[q]
  BY DEF RestoreInv, RestoreTypeOK, Becomes
<1>2. RestoreTypeOK'
  BY <1>1 DEF RestoreInv, RestoreTypeOK, TargetEntry, backupVars, files, BackupTypeOK
<1>3. ASSUME NEW q \in Restorer, q # r PROVE CopyOf(q)' /\ TargetOf(q)' /\ LeftOf(q)'
  <2>1. restore'[q] = restore[q] /\ (target' = q => target = q)
    BY <1>1, <1>3, RestorerAssumption DEF Entry
  <2> QED BY <2>1 DEF RestoreInv, CopyOf, TargetOf, LeftOf
<1> QED BY <1>2, <1>3 DEF RestoreInv

LEMMA RestorerStep ==
  ASSUME RestoreInv, UNCHANGED backupVars, NEW r \in Restorer, RestoreStep(r)
  PROVE  RestoreInv'
<1> DEFINE Own == CopyOf(r)' /\ TargetOf(r)' /\ LeftOf(r)'
           Mine == /\ \E call \in Call : Becomes(r, call)
                   /\ target' \in {target, r, NoEntry} /\ decayed' = decayed
<1>1. /\ restore[r] \in Call /\ restore \in [Restorer -> Call]
      /\ CopyOf(r) /\ TargetOf(r) /\ LeftOf(r)
      /\ decayed \subseteq Publisher \cup {Foreign} /\ target \in TargetEntry
      /\ {out, man} \subseteq Entry
  BY DEF RestoreInv, RestoreTypeOK, BackupTypeOK
<1>2. CASE CheckTarget(r)
  <2>1. Mine
    BY <1>1, <1>2 DEF CheckTarget, Go, Give, Call, RestorePc, Entry, Without
  <2>2. Own
    <3>1. CASE Go(r, "load")
      BY <1>1, <1>2, <3>1, EntryAssumption, RestorerAssumption
         DEF CheckTarget, Go, Give, Becomes, At, Entry, Call, CopyOf, TargetOf, LeftOf
    <3>2. CASE Give(r, "failed", "done")
      BY <1>1, <1>2, <3>2, EntryAssumption, RestorerAssumption
         DEF CheckTarget, Go, Give, Becomes, At, Entry, Call, CopyOf, TargetOf, LeftOf
    <3> QED BY <1>2, <3>1, <3>2 DEF CheckTarget
  <2> QED BY <2>1, <2>2, RestorerFrame
<1>3. CASE LoadManifest(r)
  <2>1. Mine
    BY <1>1, <1>3 DEF LoadManifest, Go, Give, Call, RestorePc, Entry, Without
  <2>2. Own
    BY <1>1, <1>3, EntryAssumption, RestorerAssumption
       DEF LoadManifest, Go, Give, Becomes, At, Entry, Call, CopyOf, TargetOf, LeftOf
  <2> QED BY <2>1, <2>2, RestorerFrame
<1>4. CASE LoadFails(r)
  <2>1. Mine
    BY <1>1, <1>4 DEF LoadFails, Go, Give, Call, RestorePc, Entry, Without
  <2>2. Own
    BY <1>1, <1>4, EntryAssumption, RestorerAssumption
       DEF LoadFails, Go, Give, Becomes, At, Entry, Call, CopyOf, TargetOf, LeftOf
  <2> QED BY <2>1, <2>2, RestorerFrame
<1>5. CASE Bind(r)
  <2>1. Mine
    BY <1>1, <1>5 DEF Bind, Go, Give, Call, RestorePc, Entry, Without
  <2>2. Own
    BY <1>1, <1>5, EntryAssumption, RestorerAssumption
       DEF Bind, Go, Give, Becomes, At, Entry, Call, CopyOf, TargetOf, LeftOf
  <2> QED BY <2>1, <2>2, RestorerFrame
<1>6. CASE BindFails(r)
  <2>1. Mine
    BY <1>1, <1>6 DEF BindFails, Go, Give, Call, RestorePc, Entry, Without
  <2>2. Own
    <3>1. CASE Give(r, "failed", "done")
      BY <1>1, <1>6, <3>1, EntryAssumption, RestorerAssumption
         DEF BindFails, Go, Give, Becomes, At, Entry, Call, CopyOf, TargetOf, LeftOf
    <3>2. CASE Becomes(r, [restore[r] EXCEPT !.left = {"source"}, !.verdict = "dirty", !.at = "done"])
      BY <1>1, <1>6, <3>2, EntryAssumption, RestorerAssumption
         DEF BindFails, Go, Give, Becomes, At, Entry, Call, CopyOf, TargetOf, LeftOf
    <3> QED BY <1>6, <3>1, <3>2 DEF BindFails
  <2> QED BY <2>1, <2>2, RestorerFrame
<1>6b. CASE StagingFails(r)
  <2>1. Mine
    BY <1>1, <1>6b DEF StagingFails, Matches, Call, RestorePc, Entry, Without
  <2>2. Own
    BY <1>1, <1>6b, EntryAssumption, RestorerAssumption
       DEF StagingFails, Matches, Becomes, At, Entry, Call, CopyOf, TargetOf, LeftOf
  <2> QED BY <2>1, <2>2, RestorerFrame
<1>7. CASE Verify(r)
  <2>1. Mine
    BY <1>1, <1>7 DEF Verify, Matches, Go, Give, Call, RestorePc, Entry, Without
  <2>2. Own
    BY <1>1, <1>7, EntryAssumption, RestorerAssumption
       DEF Verify, Matches, Go, Give, Becomes, At, Entry, Call, CopyOf, TargetOf, LeftOf
  <2> QED BY <2>1, <2>2, RestorerFrame
<1>8. CASE Copy(r)
  <2>1. Mine
    BY <1>1, <1>8 DEF Copy, Go, Give, Call, RestorePc, Entry, Without
  <2>2. Own
    BY <1>1, <1>8, EntryAssumption, RestorerAssumption
       DEF Copy, Go, Give, Becomes, At, Entry, Call, CopyOf, TargetOf, LeftOf
  <2> QED BY <2>1, <2>2, RestorerFrame
<1>9. CASE VerifyAgain(r)
  <2>1. Mine
    BY <1>1, <1>9 DEF VerifyAgain, Matches, Go, Give, Call, RestorePc, Entry, Without
  <2>2. Own
    BY <1>1, <1>9, EntryAssumption, RestorerAssumption
       DEF VerifyAgain, Matches, Go, Give, Becomes, At, Entry, Call, CopyOf, TargetOf, LeftOf
  <2> QED BY <2>1, <2>2, RestorerFrame
<1>10. CASE Refuse(r)
  <2>1. Mine
    BY <1>1, <1>10 DEF Refuse, Go, Give, Call, RestorePc, Entry, Without
  <2>2. Own
    BY <1>1, <1>10, EntryAssumption, RestorerAssumption
       DEF Refuse, Go, Give, Becomes, At, Entry, Call, CopyOf, TargetOf, LeftOf
  <2> QED BY <2>1, <2>2, RestorerFrame
<1>11. CASE Publish(r)
  <2>1. Mine
    BY <1>1, <1>11 DEF Publish, Go, Give, Call, RestorePc, Entry, Without
  <2>2. Own
    BY <1>1, <1>11, EntryAssumption, RestorerAssumption
       DEF Publish, Go, Give, Becomes, At, Entry, Call, CopyOf, TargetOf, LeftOf
  <2> QED BY <2>1, <2>2, RestorerFrame
<1>12. CASE PublishFails(r)
  <2>1. Mine
    BY <1>1, <1>12 DEF PublishFails, Go, Give, Call, RestorePc, Entry, Without
  <2>2. Own
    <3>1. CASE UNCHANGED target /\ Give(r, "failed", "tidy")
      BY <1>1, <1>12, <3>1, EntryAssumption, RestorerAssumption
         DEF PublishFails, Go, Give, Becomes, At, Entry, Call, CopyOf, TargetOf, LeftOf
    <3>2. CASE Give(r, "dirty", "tidy")
      BY <1>1, <1>12, <3>2, EntryAssumption, RestorerAssumption
         DEF PublishFails, Go, Give, Becomes, At, Entry, Call, CopyOf, TargetOf, LeftOf
    <3> QED BY <1>12, <3>1, <3>2 DEF PublishFails
  <2> QED BY <2>1, <2>2, RestorerFrame
<1>13. CASE TidyTarget(r)
  <2>1. Mine
    BY <1>1, <1>13 DEF TidyTarget, Go, Give, Call, RestorePc, Entry, Without
  <2>2. Own
    BY <1>1, <1>13, EntryAssumption, RestorerAssumption
       DEF TidyTarget, Go, Give, Becomes, At, Entry, Call, CopyOf, TargetOf, LeftOf
  <2> QED BY <2>1, <2>2, RestorerFrame
<1>14. CASE Look(r)
  <2>1. Mine
    BY <1>1, <1>14 DEF Look, Go, Give, Call, RestorePc, Entry, Without
  <2>2. Own
    BY <1>1, <1>14, EntryAssumption, RestorerAssumption
       DEF Look, Go, Give, Becomes, At, Entry, Call, CopyOf, TargetOf, LeftOf
  <2> QED BY <2>1, <2>2, RestorerFrame
<1>15. CASE TidySource(r)
  <2>1. Mine
    BY <1>1, <1>15 DEF TidySource, Go, Give, Call, RestorePc, Entry, Without
  <2>2. Own
    BY <1>1, <1>15, EntryAssumption, RestorerAssumption
       DEF TidySource, Go, Give, Becomes, At, Entry, Call, CopyOf, TargetOf, LeftOf
  <2> QED BY <2>1, <2>2, RestorerFrame
<1>16. CASE RestoreTailFails(r)
  <2>1. Mine
    BY <1>1, <1>16 DEF RestoreTailFails, Go, Give, Call, RestorePc, Entry, Without
  <2>2. Own
    BY <1>1, <1>16, EntryAssumption, RestorerAssumption
       DEF RestoreTailFails, Go, Give, Becomes, At, Entry, Call, CopyOf, TargetOf, LeftOf
  <2> QED BY <2>1, <2>2, RestorerFrame
<1>17. CASE Withdraw(r)
  <2>1. Mine
    BY <1>1, <1>17 DEF Withdraw, Without, Go, Give, Call, RestorePc, Entry
  <2>2. Own
    <3>1. CASE target' = Without(target, r) /\ Go(r, "tidy")
      BY <1>1, <1>17, <3>1, EntryAssumption, RestorerAssumption
         DEF Withdraw, Without, Go, Give, Becomes, At, Entry, Call, CopyOf, TargetOf, LeftOf
    <3>2. CASE UNCHANGED target /\ Give(r, "dirty", "withdraw_again")
      BY <1>1, <1>17, <3>2, EntryAssumption, RestorerAssumption
         DEF Withdraw, Without, Go, Give, Becomes, At, Entry, Call, CopyOf, TargetOf, LeftOf
    <3>3. CASE UNCHANGED target /\ Give(r, "dirty", "tidy")
      BY <1>1, <1>17, <3>3, EntryAssumption, RestorerAssumption
         DEF Withdraw, Without, Go, Give, Becomes, At, Entry, Call, CopyOf, TargetOf, LeftOf
    <3> QED BY <1>17, <3>1, <3>2, <3>3 DEF Withdraw, Without
  <2> QED BY <2>1, <2>2, RestorerFrame
<1>18. CASE Tidy(r)
  <2>1. Mine
    BY <1>1, <1>18 DEF Tidy, Go, Give, Call, RestorePc, Entry, Without
  <2>2. Own
    BY <1>1, <1>18, EntryAssumption, RestorerAssumption
       DEF Tidy, Go, Give, Becomes, At, Entry, Call, CopyOf, TargetOf, LeftOf
  <2> QED BY <2>1, <2>2, RestorerFrame
<1>19. CASE RestoreDies(r)
  <2>1. Mine
    BY <1>1, <1>19 DEF RestoreDies, Go, Give, Call, RestorePc, Entry, Without
  <2>2. Own
    BY <1>1, <1>19, EntryAssumption, RestorerAssumption
       DEF RestoreDies, Go, Give, Becomes, At, Entry, Call, CopyOf, TargetOf, LeftOf
  <2> QED BY <2>1, <2>2, RestorerFrame
<1> QED BY <1>2, <1>3, <1>4, <1>5, <1>6, <1>6b, <1>7, <1>8, <1>9, <1>10, <1>11, <1>12,
       <1>13, <1>14, <1>15, <1>16, <1>17, <1>18, <1>19
       DEF RestoreStep

\* A backup that decays, or a stranger's file at the target, leaves every call as it was:
\* a copy that a restorer still has to verify may only have more reason to be refused.
LEMMA MishapStep ==
  ASSUME RestoreInv, BackupInv, UNCHANGED backupVars, Decay \/ Intrude
  PROVE  RestoreInv'
<1>1. /\ restore' = restore /\ decayed \subseteq decayed'
      /\ decayed' \subseteq Publisher \cup {Foreign}
      /\ target' \in {target, Foreign}
  BY DEF Decay, Intrude, BackupInv, BackupTypeOK, RestoreInv, RestoreTypeOK, Entry
<1>2. RestoreTypeOK'
  BY <1>1 DEF RestoreInv, RestoreTypeOK, TargetEntry, backupVars, files, BackupTypeOK
<1>3. ASSUME NEW r \in Restorer PROVE CopyOf(r)' /\ TargetOf(r)' /\ LeftOf(r)'
  BY <1>1, RestorerAssumption DEF RestoreInv, CopyOf, TargetOf, LeftOf
<1> QED BY <1>2, <1>3 DEF RestoreInv

LEMMA MaintenanceStep == MaintenanceInv /\ [AllNext]_allVars => MaintenanceInv'
<1> SUFFICES ASSUME MaintenanceInv, [AllNext]_allVars PROVE MaintenanceInv'
  OBVIOUS
<1>1. CASE [BackupNext]_backupVars /\ UNCHANGED restoreVars
  <2>1. BackupInv'
    BY <1>1, BackupStep DEF MaintenanceInv
  <2>2. RestoreInv'
    BY <1>1, <2>1
       DEF MaintenanceInv, RestoreInv, RestoreTypeOK, BackupInv, restoreVars, CopyOf, TargetOf, LeftOf
  <2> QED BY <2>1, <2>2 DEF MaintenanceInv
<1>2. CASE RestoreNext /\ UNCHANGED backupVars
  <2>1. BackupInv'
    BY <1>2, BackupStep DEF MaintenanceInv
  <2>2. RestoreInv'
    BY <1>2, RestorerStep, MishapStep DEF MaintenanceInv, RestoreNext
  <2> QED BY <2>1, <2>2 DEF MaintenanceInv
<1> QED BY <1>1, <1>2 DEF AllNext, allVars

LEMMA MaintenanceHolds == BackupAndRestore => []MaintenanceInv
BY RestoreStart, MaintenanceStep, PTL DEF BackupAndRestore

\* A manifest has its backup beside it and a restored database is what a manifest
\* described, at every moment, whoever dies or fails (create_sqlite_backup,
\* verify_and_restore_sqlite).
THEOREM PublishedIsWholeCorrect == BackupAndRestore => []PublishedIsWhole
<1>1. MaintenanceInv => PublishedIsWhole
  BY DEF MaintenanceInv, BackupInv, RestoreInv, LinksOf, CopyOf, PublishedIsWhole,
         ManifestHasBackup, TargetIsVerified
<1> QED BY <1>1, MaintenanceHolds, PTL

\* What a backup and a restore report is what they leave: never half a pair behind an
\* error, and of a restore that failed no file, at most an empty private directory.
THEOREM VerdictsAreTrueCorrect == BackupAndRestore => []VerdictsAreTrue
<1>1. MaintenanceInv => VerdictsAreTrue
  BY DEF MaintenanceInv, BackupInv, RestoreInv, ReportOf, TargetOf, LeftOf, VerdictsAreTrue,
         VerdictIsTrue, RestoreVerdictIsTrue
<1> QED BY <1>1, MaintenanceHolds, PTL

-----------------------------------------------------------------------------
(* What a step takes away *)

\* An entry only goes if it is that of the publisher who takes the step.
LEMMA PublishersSpare ==
  ASSUME BackupInv, BackupNext
  PROVE  \A was, now : <<was, now>> \in {<<out, out'>>, <<man, man'>>} /\ was # NoEntry /\ now # was =>
           now = NoEntry /\ was \in Publisher /\ phase'[was] # phase[was]
<1> PICK p \in Publisher : PublisherStep(p) \/ Crash(p)
  BY DEF BackupNext
<1>1. /\ out' # out /\ out # NoEntry => out = p /\ out' = NoEntry
      /\ man' # man /\ man # NoEntry => man = p /\ man' = NoEntry
  BY DEF PublisherStep, Prepare, PrepareFails, TakeSnapshot, RefuseSnapshot, LinkBackup,
         LinkBackupFails, LinkFails, DropBackupTemp, DropBackupTempFails, LinkManifest,
         LinkManifestFails, DropManifestTemp, DropStaging, TailFails, CheckPair, ResultIsMade,
         ResultFails, Compensate, CompensateBackup, Cleanup, Crash, Without
<1>2. phase'[p] # phase[p]
  BY DEF PublisherStep, Prepare, PrepareFails, TakeSnapshot, RefuseSnapshot, LinkBackup,
         LinkBackupFails, DropBackupTemp, DropBackupTempFails, LinkManifest,
         LinkManifestFails, DropManifestTemp, DropStaging, TailFails, CheckPair, ResultIsMade,
         ResultFails, Compensate, CompensateBackup, Cleanup, Crash, Turn,
         BackupInv, BackupTypeOK
<1> QED BY <1>1, <1>2

\* The target only goes if it is that of the restorer who takes the step, unless
\* somebody puts a file of theirs there.
LEMMA RestorersSpare ==
  ASSUME RestoreInv, RestoreNext, NEW t \in TargetEntry \ {NoEntry}, target = t, target' # t
  PROVE  target' = Foreign \/ (t \in Restorer /\ restore'[t].at # restore[t].at)
<1>1. ASSUME NEW r \in Restorer, RestoreStep(r)
      PROVE  t = r /\ restore'[r].at # restore[r].at
  <2>1. Withdraw(r) /\ target = r
    BY <1>1 DEF RestoreStep, CheckTarget, LoadManifest, LoadFails, Bind, BindFails,
                StagingFails, Verify, Copy, VerifyAgain, Refuse, Publish, PublishFails, TidyTarget, Look, TidySource,
                RestoreTailFails, Withdraw, Tidy, RestoreDies, Without
  <2>2. restore'[r].at = "tidy" /\ restore[r].at # "tidy"
    BY <2>1 DEF Withdraw, Go, Becomes, RestoreInv, RestoreTypeOK, Call
  <2> QED BY <2>1, <2>2
<1> QED BY <1>1 DEF RestoreNext, Decay, Intrude

\* No backup and no restore takes away or overwrites what it did not put there
\* (_link_no_overwrite, _remove_if_identity).
THEOREM OthersAreSparedCorrect == BackupAndRestore => OthersAreSpared
<1> DEFINE Spares ==
      /\ out # NoEntry /\ out' # out => out' = NoEntry /\ out \in Publisher
                                        /\ phase'[out] # phase[out]
      /\ man # NoEntry /\ man' # man => man' = NoEntry /\ man \in Publisher
                                        /\ phase'[man] # phase[man]
    RestoreSpares ==
      \A t \in TargetEntry \ {NoEntry} : target = t /\ target' # t =>
        target' = Foreign \/ (t \in Restorer /\ restore'[t].at # restore[t].at)
<1>1. MaintenanceInv /\ [AllNext]_allVars => [Spares]_backupVars
  <2> SUFFICES ASSUME MaintenanceInv, BackupNext PROVE Spares
    BY DEF AllNext, allVars
  <2> QED BY PublishersSpare DEF MaintenanceInv
<1>2. MaintenanceInv /\ [AllNext]_allVars => [RestoreSpares]_allVars
  <2> SUFFICES ASSUME MaintenanceInv, AllNext PROVE RestoreSpares
    BY DEF AllNext
  <2>1. CASE UNCHANGED restoreVars
    BY <2>1 DEF restoreVars
  <2>2. CASE RestoreNext
    BY <2>2, RestorersSpare DEF MaintenanceInv
  <2> QED BY <2>1, <2>2 DEF AllNext
<1> HIDE DEF Spares, RestoreSpares
<1>3. BackupAndRestore => [][Spares]_backupVars /\ [][RestoreSpares]_allVars
  BY <1>1, <1>2, MaintenanceHolds, PTL DEF BackupAndRestore
<1> QED BY <1>3 DEF OthersAreSpared, NeverOverwrites, RestoreSparesOthers, Spares, RestoreSpares
=============================================================================
