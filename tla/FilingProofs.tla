---------------------------- MODULE FilingProofs ----------------------------
(***************************************************************************)
(* Proofs about the two halves of filing a document, which share no name:    *)
(* FileOrganization, which moves it, for any number of hosts, runs, documents *)
(* and paths, and DocumentParse, which judges it, for any number of parsers,  *)
(* clearers, contents and releases.                                          *)
(***************************************************************************)
EXTENDS FileOrganization, DocumentParse, WellFoundedInduction, TLAPS

-----------------------------------------------------------------------------
(* Moving documents *)

\* Whoever is between the check and the commit holds the write lock, its item
\* is still confirmed, and when nobody else edits files its check still holds.
\* A target that was re-read is the document until the owner changes it.
LockHeld(h) ==
  /\ phase[h].at \in {"checked", "moved", "reread"} => writer = h
  /\ phase[h].at \in {"checked", "moved", "reread"} =>
       item[phase[h].job].state = "confirmed" /\ Source(phase[h].job) # NoPath
  /\ edits = 0 /\ phase[h].at = "checked" => MayMove(phase[h].job)
  /\ phase[h].at = "reread" =>
       \/ disk[Target(phase[h].job)] = Doc(phase[h].job)
       \/ Target(phase[h].job) \in touched

LockInv ==
  /\ edits = 0 => touched = {}
  /\ \A h \in Host : LockHeld(h)

USE DEF Path, aside, LockHeld

\* Replacing one host's phase or list keeps the type of both.
LEMMA AnswerType ==
  ASSUME TypeOK, NEW h \in Host, NEW i \in Item, Answer(h, i)
  PROVE  todo' \in [Host -> SUBSET Item] /\ phase' \in [Host -> Phase]
  BY DEF TypeOK, Answer, Phase

\* A decision leaves a well-typed item, with a target once it is confirmed.
LEMMA DecidedType ==
  ASSUME TypeOK, NEW i \in Item, NEW d \in Path \cup {Skip}
  PROVE  /\ Decided(i, d) \in ItemRecord
         /\ Decided(i, d).state \in {"confirmed", "executed"} => Decided(i, d).target # NoPath
<1>1. item[i] \in ItemRecord  BY DEF TypeOK
<1>2. item[i].state \in {"confirmed", "executed"} => item[i].target # NoPath
  BY DEF TypeOK, Target
<1>3. CASE d = Skip /\ item[i].state = "pending"
  BY <1>1, <1>2, <1>3 DEF Decided, ItemRecord
<1>4. CASE d # Skip /\ item[i].state \in {"pending", "confirmed"}
  BY <1>1, <1>2, <1>4, NameAssumption DEF Decided, ItemRecord
<1>5. CASE /\ ~(d = Skip /\ item[i].state = "pending")
           /\ ~(d # Skip /\ item[i].state \in {"pending", "confirmed"})
  BY <1>1, <1>2, <1>5 DEF Decided
<1> QED BY <1>3, <1>4, <1>5

\* What is given up unrecorded is a document.
LEMMA UnrecordedType ==
  ASSUME TypeOK, NEW h \in Host, Unrecorded(h)
  PROVE  adrift' \in SUBSET FileContent
<1>1. phase[h].at \in {"moved", "reread"} => phase[h].job \in Item
  BY DEF TypeOK, Phase
<1> QED BY <1>1 DEF TypeOK, Unrecorded, Doc, Item

\* TypeOK and the lock discipline are kept by every step.
LEMMA InvStep ==
  ASSUME TypeOK, LockInv, [Next]_vars
  PROVE  TypeOK' /\ LockInv'
<1> USE EditBoundAssumption, NameAssumption
<1>1. ASSUME NEW r \in Run, Prepare(r)
      PROVE  TypeOK' /\ LockInv'
  <2>0. PICK chosen \in (SUBSET SourcePath) \ {{}} :
          \E last \in [{disk[f] : f \in chosen} -> chosen] :
            /\ \A c \in DOMAIN last : disk[last[c]] = c
            /\ current' = [c \in FileContent |->
                 IF c \in DOMAIN last THEN last[c] ELSE current[c]]
            /\ item' = [i \in Item |->
                 IF i[1] = r /\ Doc(i) \in DOMAIN last
                 THEN [state |-> "pending", target |-> NoPath] ELSE item[i]]
    BY <1>1 DEF Prepare
  <2>1. PICK last \in [{disk[f] : f \in chosen} -> chosen] :
            /\ current' = [c \in FileContent |->
                 IF c \in DOMAIN last THEN last[c] ELSE current[c]]
            /\ item' = [i \in Item |->
                 IF i[1] = r /\ Doc(i) \in DOMAIN last
                 THEN [state |-> "pending", target |-> NoPath] ELSE item[i]]
    BY <2>0
  <2>2. current' \in [FileContent -> Path \cup {NoPath}]  BY <2>1 DEF TypeOK
  <2>3. item' \in [Item -> ItemRecord]  BY <2>1 DEF TypeOK, ItemRecord
  <2>4. \A i \in Item : item'[i].state \in {"confirmed", "executed"} => item'[i].target # NoPath
    BY <2>1 DEF TypeOK, Target
  <2>5. TypeOK'  BY <1>1, <2>2, <2>3, <2>4 DEF TypeOK, Prepare, Target
  <2>6. \A h \in Host : phase[h].at \notin {"checked", "moved", "reread"}
    BY <1>1 DEF Prepare, LockInv
  <2> QED BY <1>1, <2>5, <2>6 DEF Prepare, LockInv
<1>2. ASSUME NEW h \in Host, NEW r \in Run, Confirm(h, r)
      PROVE  TypeOK' /\ LockInv'
  <2>0. PICK chosen \in SUBSET {i \in Item : i[1] = r /\ item[i].state # "absent"} :
          \E decision \in [chosen -> Path \cup {Skip}] :
            LET scheduled == {i \in chosen : decision[i] # Skip} IN
            /\ item' = [i \in Item |->
                 IF i \in chosen THEN Decided(i, decision[i]) ELSE item[i]]
            /\ todo' = [todo EXCEPT ![h] = scheduled]
            /\ phase' = [phase EXCEPT ![h].at =
                 IF scheduled = {} THEN "idle" ELSE "executing"]
    BY <1>2 DEF Confirm
  <2>1. PICK decision \in [chosen -> Path \cup {Skip}] :
          LET scheduled == {i \in chosen : decision[i] # Skip} IN
          /\ item' = [i \in Item |->
               IF i \in chosen THEN Decided(i, decision[i]) ELSE item[i]]
          /\ todo' = [todo EXCEPT ![h] = scheduled]
          /\ phase' = [phase EXCEPT ![h].at =
               IF scheduled = {} THEN "idle" ELSE "executing"]
    BY <2>0
  <2>2. \A i \in chosen : i \in Item /\ decision[i] \in Path \cup {Skip}  OBVIOUS
  <2>3. \A i \in chosen :
          /\ Decided(i, decision[i]) \in ItemRecord
          /\ Decided(i, decision[i]).state \in {"confirmed", "executed"}
               => Decided(i, decision[i]).target # NoPath
    BY <2>2, DecidedType
  <2>4. item' \in [Item -> ItemRecord]
    BY <2>1, <2>3 DEF TypeOK
  <2>5. \A i \in Item : item'[i].state \in {"confirmed", "executed"} => item'[i].target # NoPath
    BY <2>1, <2>3 DEF TypeOK, Target
  <2>6. phase' \in [Host -> Phase]
    <3>1. phase[h] \in [at : {"idle", "executing"}]
      BY <1>2 DEF Confirm, TypeOK, Phase
    <3> QED BY <2>1, <3>1 DEF TypeOK, Phase
  <2>7. todo' \in [Host -> SUBSET Item]
    BY <2>1 DEF TypeOK
  <2>8. TypeOK'  BY <1>2, <2>4, <2>5, <2>6, <2>7 DEF TypeOK, Confirm, Target
  <2>9. \A g \in Host : phase'[g].at \notin {"checked", "moved", "reread"}
    BY <1>2, <2>1 DEF Confirm, LockInv, TypeOK, Phase
  <2> QED BY <1>2, <2>8, <2>9 DEF Confirm, LockInv
<1>3. ASSUME NEW h \in Host, NEW i \in Item, Check(h, i)
      PROVE  TypeOK' /\ LockInv'
  <2>1. phase' \in [Host -> Phase]  BY <1>3 DEF Check, TypeOK, Phase
  <2>2. TypeOK'  BY <1>3, <2>1 DEF Check, TypeOK, db, Target
  <2>3. phase'[h] = [at |-> "checked", job |-> i]  BY <1>3 DEF Check, TypeOK
  <2>4. \A g \in Host : g # h => phase'[g] = phase[g]  BY <1>3 DEF Check, TypeOK
  <2>5. \A g \in Host : g # h => phase[g].at \notin {"checked", "moved", "reread"}
    BY <1>3 DEF Check, LockInv
  <2>6. MayMove(i)'  BY <1>3 DEF Check, db, MayMove, Source, Target, Doc
  <2>7. (item[i].state = "confirmed" /\ Source(i) # NoPath)'
    BY <1>3 DEF Check, db, MayMove, Source
  <2> QED BY <1>3, <2>2, <2>3, <2>4, <2>5, <2>6, <2>7 DEF Check, LockInv, db, Source
<1>4. ASSUME NEW h \in Host, NEW i \in Item, Blocked(h, i)
      PROVE  TypeOK' /\ LockInv'
  <2>1. TypeOK'  BY <1>4, AnswerType DEF Blocked, TypeOK, db, Target
  <2>2. \A g \in Host : phase'[g].at \notin {"checked", "moved", "reread"}
    BY <1>4 DEF Blocked, Answer, LockInv, TypeOK
  <2> QED BY <1>4, <2>1, <2>2 DEF Blocked, LockInv
<1>5. ASSUME NEW h \in Host, Busy(h)
      PROVE  TypeOK' /\ LockInv'
  <2>1. TypeOK'  BY <1>5 DEF Busy, TypeOK, Phase, db, Target
  <2>2. \A g \in Host : \/ phase'[g] = phase[g]
                        \/ phase'[g].at = "idle"
    BY <1>5 DEF Busy, TypeOK
  <2>3. \A i \in Item : MayMove(i)' <=> MayMove(i)
    BY <1>5 DEF Busy, db, MayMove, Source, Target, Doc
  <2>4. \A g \in Host : phase[g].at \in {"checked", "reread"} => phase[g].job \in Item
    BY DEF TypeOK, Phase
  <2> QED BY <1>5, <2>1, <2>2, <2>3, <2>4 DEF LockInv, Busy, db, Source, Target, Doc
<1>6. ASSUME NEW h \in Host, Move(h)
      PROVE  TypeOK' /\ LockInv'
  <2> DEFINE i == phase[h].job
  <2>1. i \in Item  BY <1>6 DEF Move, TypeOK, Phase
  <2>2. item[i].state = "confirmed" /\ writer = h  BY <1>6 DEF Move, LockInv
  <2>3. Source(i) \in Path
    BY <1>6, <2>1 DEF Move, LockInv, TypeOK, Source, Doc, Item
  <2>4. disk' \in [Path -> FileContent \cup {NoPath}]  BY <1>6, <2>3 DEF Move, TypeOK
  <2>5. phase' \in [Host -> Phase]  BY <1>6 DEF Move, TypeOK, Phase
  <2>6. TypeOK'  BY <1>6, <2>4, <2>5 DEF Move, TypeOK, db, Target
  <2>7. \A g \in Host : g # h => phase'[g].at \notin {"checked", "moved", "reread"}
    BY <1>6, <2>2 DEF Move, LockInv, TypeOK
  <2>8. phase'[h].at = "moved" /\ phase'[h].job = i
    <3>1. phase[h] \in [at : {"checked", "moved", "reread"}, job : Item]
      BY <1>6 DEF Move, TypeOK, Phase
    <3> QED BY <1>6, <3>1 DEF Move, TypeOK
  <2> QED BY <1>6, <2>2, <2>6, <2>7, <2>8 DEF LockInv, Move, db, Source
<1>6b. ASSUME NEW h \in Host, Reread(h)
       PROVE  TypeOK' /\ LockInv'
  <2> DEFINE i == phase[h].job
  <2>1. phase[h] \in [at : {"checked", "moved", "reread"}, job : Item]
    BY <1>6b DEF Reread, TypeOK, Phase
  <2>2. phase' \in [Host -> Phase] /\ phase'[h].at = "reread" /\ phase'[h].job = i
    BY <1>6b, <2>1 DEF Reread, TypeOK, Phase
  <2>3. TypeOK'  BY <1>6b, <2>2 DEF Reread, TypeOK, db, Target
  <2>4. /\ item[i].state = "confirmed" /\ Source(i) # NoPath /\ writer = h
        /\ disk[Target(i)] = Doc(i)
    BY <1>6b DEF Reread, LockInv
  <2>5. \A g \in Host : g # h => phase'[g].at \notin {"checked", "moved", "reread"}
    BY <1>6b, <2>4 DEF Reread, LockInv, TypeOK
  <2> QED BY <1>6b, <2>2, <2>3, <2>4, <2>5 DEF LockInv, Reread, db, Source, Target, Doc
<1>7. ASSUME NEW h \in Host, Record(h)
      PROVE  TypeOK' /\ LockInv'
  <2> DEFINE i == phase[h].job
  <2>1. i \in Item  BY <1>7 DEF Record, TypeOK, Phase
  <2>2. Answer(h, i)  BY <1>7 DEF Record
  <2>3. item[i].state = "confirmed" /\ writer = h  BY <1>7 DEF Record, LockInv
  <2>4. Target(i) \in Path /\ Doc(i) \in FileContent
    BY <2>1, <2>3 DEF TypeOK, Target, ItemRecord, Doc, Item
  <2>5. current' \in [FileContent -> Path \cup {NoPath}]
    BY <1>7, <2>4 DEF Record, TypeOK
  <2>6. item' \in [Item -> ItemRecord]
    <3>1. item' = [item EXCEPT ![i].state = "executed"]  BY <1>7 DEF Record
    <3>2. item[i] \in ItemRecord  BY <2>1 DEF TypeOK
    <3> QED BY <2>1, <3>1, <3>2 DEF TypeOK, ItemRecord
  <2>7. \A j \in Item : item'[j].state \in {"confirmed", "executed"} => item'[j].target # NoPath
    <3>1. item' = [item EXCEPT ![i].state = "executed"]  BY <1>7 DEF Record
    <3>2. item[i] \in ItemRecord /\ item[i].target # NoPath
      BY <2>1, <2>3 DEF TypeOK, Target
    <3>3. item'[i].target = item[i].target  BY <2>1, <3>1, <3>2 DEF TypeOK, ItemRecord
    <3>4. \A j \in Item : j # i => item'[j] = item[j]  BY <3>1 DEF TypeOK
    <3> QED BY <3>2, <3>3, <3>4 DEF TypeOK, Target
  <2>8. TypeOK'
    BY <1>7, <2>1, <2>2, <2>5, <2>6, <2>7, AnswerType DEF Record, TypeOK, Target
  <2>9. \A g \in Host : phase'[g].at \notin {"checked", "moved", "reread"}
    BY <2>2, <2>3 DEF Answer, LockInv, TypeOK
  <2> QED BY <1>7, <2>8, <2>9 DEF Record, LockInv
<1>8. ASSUME NEW h \in Host, Reconcile(h)
      PROVE  TypeOK' /\ LockInv'
  <2>1. phase[h].at \in {"checked", "moved", "reread"} /\ Answer(h, phase[h].job)
    BY <1>8 DEF Reconcile
  <2>2. phase[h].job \in Item  BY <2>1 DEF TypeOK, Phase
  <2>3. TypeOK'  BY <1>8, <2>1, <2>2, AnswerType, UnrecordedType DEF Reconcile, TypeOK, db, Target
  <2>4. \A g \in Host : phase'[g].at \notin {"checked", "moved", "reread"}
    BY <2>1 DEF Answer, LockInv, TypeOK
  <2> QED BY <1>8, <2>3, <2>4 DEF Reconcile, LockInv
<1>9. ASSUME NEW h \in Host, Crash(h)
      PROVE  TypeOK' /\ LockInv'
  <2>1. TypeOK'  BY <1>9, UnrecordedType DEF Crash, TypeOK, Phase, db, Target
  <2>2. \A g \in Host : /\ g # h => phase'[g] = phase[g]
                        /\ phase'[h].at = "idle"
    BY <1>9 DEF Crash, TypeOK
  <2>3. \A i \in Item : MayMove(i)' <=> MayMove(i)
    BY <1>9 DEF Crash, db, MayMove, Source, Target, Doc
  <2>4. \A g \in Host : phase[g].at \in {"checked", "reread"} => phase[g].job \in Item
    BY DEF TypeOK, Phase
  <2> QED BY <1>9, <2>1, <2>2, <2>3, <2>4 DEF LockInv, Crash, db, Source, Target, Doc
<1>10. ASSUME NEW p \in Path, OwnerEdit(p)
       PROVE  TypeOK' /\ LockInv'
  <2>1. edits' # 0  BY <1>10 DEF OwnerEdit, TypeOK
  <2>2. TypeOK'  BY <1>10 DEF OwnerEdit, TypeOK, db, Target
  <2>3. ASSUME NEW h \in Host, phase[h].at = "reread"
        PROVE  Target(phase[h].job) \in Path
    <3>1. phase[h].job \in Item /\ item[phase[h].job].state = "confirmed"
      BY <2>3 DEF TypeOK, Phase, LockInv
    <3> QED BY <3>1 DEF TypeOK, ItemRecord, Target
  <2>4. \A q \in Path : disk'[q] = disk[q] \/ q \in touched'
    BY <1>10 DEF OwnerEdit, TypeOK
  <2>5. \A h \in Host : phase[h].at = "reread" =>
          \/ disk'[Target(phase[h].job)] = Doc(phase[h].job)
          \/ Target(phase[h].job) \in touched'
    BY <1>10, <2>3, <2>4 DEF OwnerEdit, LockInv
  <2> QED BY <1>10, <2>1, <2>2, <2>5 DEF LockInv, OwnerEdit, db, Source, Target, Doc
<1>11. CASE UNCHANGED vars
  <2>1. TypeOK'  BY <1>11 DEF vars, db, TypeOK, Target
  <2> QED BY <1>11, <2>1 DEF vars, db, LockInv, MayMove, Source, Target, Doc
<1> QED BY <1>1, <1>2, <1>3, <1>4, <1>5, <1>6, <1>6b, <1>7, <1>8, <1>9, <1>10, <1>11
        DEF Next, Work

LEMMA InvInit == Init => TypeOK /\ LockInv
BY EditBoundAssumption, NameAssumption
   DEF Init, TypeOK, LockInv, ItemRecord, Phase, Target

LEMMA InvCorrect == Spec => [](TypeOK /\ LockInv)
BY InvInit, InvStep, PTL DEF Spec

\* Every state of every number of hosts, runs, documents and paths has the
\* declared shape; in particular no item is confirmed without a target.
THEOREM TypeCorrect == Spec => []TypeOK
BY InvCorrect, PTL

\* The checks of ArchiveSkill hold until its move.
THEOREM StillMayMoveCorrect == Spec => []StillMayMove
<1>1. LockInv => StillMayMove  BY DEF LockInv, StillMayMove
<1> QED BY InvCorrect, <1>1, PTL

\* A step that changes the disk and is not the owner's is a move.
LEMMA DiskChanges ==
  ASSUME [Next]_vars, edits' = 0, TypeOK
  PROVE  edits = 0 /\ (disk' = disk \/ \E h \in Host : Move(h))
<1>1. ASSUME NEW p \in Path, OwnerEdit(p) PROVE FALSE
  BY <1>1, EditBoundAssumption DEF OwnerEdit, TypeOK
<1>2. ASSUME NEW r \in Run, Prepare(r) PROVE edits' = edits /\ disk' = disk
  BY <1>2 DEF Prepare
<1>3. ASSUME NEW h \in Host, NEW r \in Run, Confirm(h, r)
      PROVE  edits' = edits /\ disk' = disk
  BY <1>3 DEF Confirm
<1>4. ASSUME NEW h \in Host, NEW i \in Item, Check(h, i) \/ Blocked(h, i)
      PROVE  edits' = edits /\ disk' = disk
  BY <1>4 DEF Check, Blocked
<1>5. ASSUME NEW h \in Host, Reread(h) \/ Record(h) \/ Reconcile(h) \/ Busy(h) \/ Crash(h)
      PROVE  edits' = edits /\ disk' = disk
  BY <1>5 DEF Reread, Record, Reconcile, Busy, Crash
<1>6. ASSUME NEW h \in Host, Move(h) PROVE edits' = edits
  BY <1>6 DEF Move
<1>7. CASE UNCHANGED vars
  BY <1>7 DEF vars
<1> QED BY <1>1, <1>2, <1>3, <1>4, <1>5, <1>6, <1>7 DEF Next, Work

\* No collision, race, crash or failed commit takes a content off the disk.
THEOREM NothingIsLostCorrect == Spec => NothingIsLost
<1>1. TypeOK /\ LockInv /\ [Next]_vars =>
        [edits' = 0 => OnDisk \subseteq OnDisk']_vars
  <2> SUFFICES ASSUME TypeOK, LockInv, [Next]_vars, edits' = 0
               PROVE  OnDisk \subseteq OnDisk'
    OBVIOUS
  <2>1. CASE disk' = disk  BY <2>1 DEF OnDisk
  <2>2. ASSUME NEW h \in Host, Move(h) PROVE OnDisk \subseteq OnDisk'
    <3> DEFINE i == phase[h].job
    <3>1. MayMove(i)  BY <2>2, DiskChanges DEF Move, LockInv
    <3>2. i \in Item  BY <2>2 DEF Move, TypeOK, Phase
    <3>3. Source(i) \in Path /\ Target(i) \in Path /\ disk[Target(i)] = NoPath
      BY <3>1, <3>2 DEF MayMove, TypeOK, Source, Doc, Item
    <3>4. disk[Source(i)] # NoPath /\ Source(i) # Target(i)
      BY <3>1, <3>3 DEF MayMove
    <3>5. disk' = [disk EXCEPT ![Source(i)] = NoPath, ![Target(i)] = disk[Source(i)]]
      BY <2>2 DEF Move
    <3>6. disk'[Target(i)] = disk[Source(i)]  BY <3>3, <3>5 DEF TypeOK
    <3>7. \A p \in Path : p \notin {Source(i), Target(i)} => disk'[p] = disk[p]
      BY <3>5 DEF TypeOK
    <3>8. ASSUME NEW c \in OnDisk PROVE c \in OnDisk'
      <4>1. PICK p \in Path : disk[p] = c /\ c # NoPath  BY <3>8 DEF OnDisk
      <4>2. CASE p = Source(i)  BY <4>1, <4>2, <3>3, <3>6 DEF OnDisk
      <4>3. CASE p # Source(i)  BY <4>1, <4>3, <3>3, <3>7 DEF OnDisk
      <4> QED BY <4>2, <4>3
    <3> QED BY <3>8
  <2> QED BY <2>1, <2>2, DiskChanges
<1> QED BY InvCorrect, <1>1, PTL DEF Spec, NothingIsLost

\* Executed and skipped items never change, also while files are edited.
THEOREM SettledStaysCorrect == Spec => SettledStays
<1>1. TypeOK /\ LockInv /\ [Next]_vars =>
        [\A i \in Item :
           item[i].state \in {"executed", "skipped"} => item'[i] = item[i]]_vars
  <2> SUFFICES ASSUME TypeOK, LockInv, [Next]_vars, NEW i \in Item,
                      item[i].state \in {"executed", "skipped"}
               PROVE  item'[i] = item[i]
    OBVIOUS
  <2>1. ASSUME NEW r \in Run, Prepare(r) PROVE item'[i] = item[i]
    <3>1. i[1] = r => item[i].state = "absent"
      BY <2>1 DEF Prepare, Item
    <3> QED BY <2>1, <3>1 DEF Prepare
  <2>2. ASSUME NEW h \in Host, NEW r \in Run, Confirm(h, r) PROVE item'[i] = item[i]
    <3>1. \A d \in Path \cup {Skip} : Decided(i, d) = item[i]
      BY DEF Decided
    <3> QED BY <2>2, <3>1 DEF Confirm
  <2>3. ASSUME NEW h \in Host, Record(h) PROVE item'[i] = item[i]
    BY <2>3 DEF Record, LockInv, TypeOK
  <2> QED BY <2>1, <2>2, <2>3
          DEF Next, vars, db, Work, Check, Blocked, Busy, Move, Reread, Reconcile, Crash, OwnerEdit
<1> QED BY InvCorrect, <1>1, PTL DEF Spec, SettledStays

\* An executed item was read back where the database puts it, and between the
\* re-read and the commit nobody but the owner of the folders changed it there.
THEOREM ExecutedCorrect == Spec => ExecutedMeansThere
<1>1. TypeOK /\ LockInv /\ [Next]_vars =>
        [\A i \in Item :
           item[i].state # "executed" /\ item'[i].state = "executed" =>
             /\ current'[Doc(i)] = item'[i].target
             /\ disk'[item'[i].target] = Doc(i) \/ item'[i].target \in touched]_vars
  <2> SUFFICES ASSUME TypeOK, LockInv, [Next]_vars, NEW i \in Item,
                      item[i].state # "executed", item'[i].state = "executed"
               PROVE  /\ current'[Doc(i)] = item'[i].target
                      /\ disk'[item'[i].target] = Doc(i) \/ item'[i].target \in touched
    OBVIOUS
  <2>1. ASSUME NEW r \in Run, Prepare(r) PROVE FALSE
    BY <2>1 DEF Prepare
  <2>2. ASSUME NEW h \in Host, NEW r \in Run, Confirm(h, r) PROVE FALSE
    <3>1. \A d \in Path \cup {Skip} : Decided(i, d).state # "executed"
      BY DEF Decided, TypeOK, ItemRecord
    <3> QED BY <2>2, <3>1 DEF Confirm
  <2>3. ASSUME NEW h \in Host, Record(h)
        PROVE  /\ current'[Doc(i)] = item'[i].target
               /\ disk'[item'[i].target] = Doc(i) \/ item'[i].target \in touched
    <3> DEFINE j == phase[h].job
    <3>1. j \in Item  BY <2>3 DEF Record, TypeOK, Phase
    <3>2. item' = [item EXCEPT ![j].state = "executed"]  BY <2>3 DEF Record
    <3>3. i = j  BY <3>2 DEF TypeOK
    <3>4. item[i] \in ItemRecord  BY DEF TypeOK
    <3>5. item'[i].target = Target(i)  BY <3>1, <3>2, <3>3, <3>4 DEF TypeOK, ItemRecord, Target
    <3>6. Doc(i) \in FileContent  BY DEF Doc, Item
    <3>7. current'[Doc(i)] = item'[i].target
      BY <2>3, <3>3, <3>5, <3>6 DEF Record, TypeOK
    <3>8. disk'[Target(i)] = Doc(i) \/ Target(i) \in touched
      BY <2>3, <3>3 DEF Record, LockInv
    <3> QED BY <3>5, <3>7, <3>8
  <2> QED BY <2>1, <2>2, <2>3
          DEF Next, vars, db, Work, Check, Blocked, Busy, Move, Reread, Reconcile, Crash, OwnerEdit
<1> QED BY InvCorrect, <1>1, PTL DEF Spec, ExecutedMeansThere

\* Without foreign edits, a document that is not where the database says is
\* being moved or its move was reported as not recorded: prepare, every
\* collision of calls and every failure leave the locations of the others true.
THEOREM LocationsCorrect == Spec => []LocationsAreTrue
<1>1. Init => LocationsAreTrue
  BY DEF Init, LocationsAreTrue
<1>2. TypeOK /\ LockInv /\ LocationsAreTrue /\ [Next]_vars => LocationsAreTrue'
  <2> SUFFICES ASSUME TypeOK, LockInv, LocationsAreTrue, [Next]_vars, edits' = 0,
                      NEW c \in FileContent, current'[c] # NoPath
               PROVE  \/ disk'[current'[c]] = c
                      \/ \E h \in Host : phase'[h].at \in {"moved", "reread"} /\ Doc(phase'[h].job) = c
                      \/ c \in adrift'
    BY DEF LocationsAreTrue, Doc
  <2>0. edits = 0
    BY DiskChanges
  <2>1. current[c] # NoPath =>
          \/ disk[current[c]] = c
          \/ \E h \in Host : phase[h].at \in {"moved", "reread"} /\ Doc(phase[h].job) = c
          \/ c \in adrift
    BY <2>0 DEF LocationsAreTrue
  <2>2. ASSUME NEW r \in Run, Prepare(r)
        PROVE  current'[c] # current[c] => disk[current'[c]] = c
    BY <2>2 DEF Prepare, TypeOK
  <2>3. ASSUME NEW h \in Host, Move(h)
        PROVE  \/ disk'[current[c]] = c
               \/ phase'[h].at \in {"moved", "reread"} /\ Doc(phase'[h].job) = c
               \/ c \in adrift
    <3> DEFINE i == phase[h].job
    <3>1. MayMove(i) /\ writer = h  BY <2>0, <2>3 DEF Move, LockInv
    <3>2. phase[h] \in [at : {"checked", "moved", "reread"}, job : Item]
      BY <2>3 DEF Move, TypeOK, Phase
    <3>3. phase'[h].at = "moved" /\ phase'[h].job = i
      BY <2>3, <3>2 DEF Move, TypeOK
    <3>4. disk' = [disk EXCEPT ![Source(i)] = NoPath, ![Target(i)] = disk[Source(i)]]
      BY <2>3 DEF Move
    <3>5. current' = current
      BY <2>3 DEF Move, db
    <3>6. \A g \in Host : phase[g].at \notin {"moved", "reread"}
      BY <2>3, <3>1 DEF LockInv, Move
    <3>7. disk[current[c]] = c \/ c \in adrift
      BY <2>1, <3>5, <3>6
    <3>8. CASE disk[current[c]] = c /\ c # Doc(i)
      <4>1. current[c] \notin {Source(i), Target(i)}
        BY <3>1, <3>8, NameAssumption DEF MayMove
      <4>2. current[c] \in Path
        BY <3>5 DEF TypeOK
      <4> QED BY <3>4, <3>8, <4>1, <4>2 DEF TypeOK
    <3> QED BY <3>3, <3>7, <3>8
  <2>4. ASSUME NEW h \in Host, Record(h)
        PROVE  \/ disk[current'[c]] = c
               \/ c \in adrift
    <3> DEFINE i == phase[h].job
    <3>1. writer = h
      BY <2>4 DEF Record, LockInv
    <3>2. \A g \in Host : phase[g].at \in {"moved", "reread"} => g = h
      BY <3>1 DEF LockInv
    <3>3. CASE c = Doc(i)
      BY <2>0, <2>4, <3>3 DEF Record, LockInv, TypeOK
    <3>4. CASE c # Doc(i)
      <4>1. current'[c] = current[c]
        BY <2>4, <3>4 DEF Record, TypeOK
      <4> QED BY <4>1, <2>1, <3>2, <3>4
    <3> QED BY <3>3, <3>4
  <2>5. ASSUME NEW h \in Host, Unrecorded(h),
               \A g \in Host : g # h => phase'[g] = phase[g],
               current' = current, disk' = disk
        PROVE  \/ disk'[current'[c]] = c
               \/ \E g \in Host : phase'[g].at \in {"moved", "reread"} /\ Doc(phase'[g].job) = c
               \/ c \in adrift'
    BY <2>1, <2>5 DEF Unrecorded
  <2>6. ASSUME NEW h \in Host, Reconcile(h) \/ Crash(h)
        PROVE  /\ Unrecorded(h) /\ current' = current /\ disk' = disk
               /\ \A g \in Host : g # h => phase'[g] = phase[g]
    BY <2>6 DEF Reconcile, Crash, Answer, db, TypeOK
  <2>7. ASSUME NEW h \in Host, phase[h].at \notin {"moved", "reread"}, adrift' = adrift,
               \A g \in Host : g # h => phase'[g] = phase[g],
               current' = current, disk' = disk
        PROVE  \/ disk'[current'[c]] = c
               \/ \E g \in Host : phase'[g].at \in {"moved", "reread"} /\ Doc(phase'[g].job) = c
               \/ c \in adrift'
    BY <2>1, <2>7
  <2>8. ASSUME NEW h \in Host, NEW i \in Item, Check(h, i) \/ Blocked(h, i)
        PROVE  /\ phase[h].at \notin {"moved", "reread"} /\ adrift' = adrift
               /\ current' = current /\ disk' = disk
               /\ \A g \in Host : g # h => phase'[g] = phase[g]
    BY <2>8 DEF Check, Blocked, Answer, db, TypeOK
  <2>9. ASSUME NEW h \in Host, Busy(h) \/ \E r \in Run : Confirm(h, r)
        PROVE  /\ phase[h].at \notin {"moved", "reread"} /\ adrift' = adrift
               /\ current' = current /\ disk' = disk
               /\ \A g \in Host : g # h => phase'[g] = phase[g]
    BY <2>9 DEF Busy, Confirm, db, TypeOK
  <2>10. ASSUME NEW r \in Run, Prepare(r)
         PROVE  phase' = phase /\ adrift' = adrift /\ disk' = disk
    BY <2>10 DEF Prepare
  <2>11. ASSUME NEW p \in Path, OwnerEdit(p) PROVE FALSE
    BY <2>11 DEF OwnerEdit, TypeOK
  <2>12. CASE UNCHANGED vars
    BY <2>1, <2>12 DEF vars, db
  <2>13. ASSUME NEW h \in Host, Record(h) PROVE disk' = disk /\ adrift' = adrift
    BY <2>13 DEF Record
  <2>13b. ASSUME NEW h \in Host, Reread(h)
          PROVE  /\ current' = current /\ disk' = disk /\ adrift' = adrift
                 /\ \A g \in Host : g # h => phase'[g] = phase[g]
                 /\ phase'[h].at = "reread" /\ phase'[h].job = phase[h].job
    <3>1. phase[h] \in [at : {"checked", "moved", "reread"}, job : Item]
      BY <2>13b DEF Reread, TypeOK, Phase
    <3> QED BY <2>13b, <3>1 DEF Reread, db, TypeOK
  <2>14. ASSUME NEW h \in Host, Move(h) PROVE current' = current /\ adrift' = adrift
    BY <2>14 DEF Move, db
  <2>15. CASE \E r \in Run : Prepare(r)
    BY <2>1, <2>2, <2>10, <2>15
  <2>16. CASE \E h \in Host : Move(h)
    BY <2>3, <2>14, <2>16
  <2>17. CASE \E h \in Host : Record(h)
    BY <2>4, <2>13, <2>17
  <2>17b. CASE \E h \in Host : Reread(h)
    BY <2>1, <2>13b, <2>17b
  <2>18. CASE \E h \in Host : Reconcile(h) \/ Crash(h)
    BY <2>5, <2>6, <2>18
  <2>19. CASE \E h \in Host : \E i \in Item : Check(h, i) \/ Blocked(h, i)
    BY <2>7, <2>8, <2>19
  <2>20. CASE \E h \in Host : Busy(h) \/ \E r \in Run : Confirm(h, r)
    BY <2>7, <2>9, <2>20
  <2> QED BY <2>11, <2>12, <2>15, <2>16, <2>17, <2>17b, <2>18, <2>19, <2>20 DEF Next, Work
<1> QED BY <1>1, <1>2, InvCorrect, PTL DEF Spec

-----------------------------------------------------------------------------
(* Judging documents: the index, the queries and the cache *)

IndexTypeOK ==
  /\ release \in Version /\ readable \in BOOLEAN /\ input \in Content
  /\ committed \in [Op -> Structure \cup {NoStructure}]
  /\ request \in [Client -> Request]

\* What the index has committed is named by what it was made of and by, and a request
\* that succeeds is answered with it.  The version it wants is one there has been.
IndexInv ==
  /\ \A op \in Op : committed[op] # NoStructure => <<committed[op].of, committed[op].by>> = op
  /\ \A c \in Client :
       /\ request[c].want <= release
       /\ request[c].at = "asked" => request[c].want # Gone
       /\ request[c].status = "success" =>
            /\ request[c].want # Gone
            /\ request[c].result = committed[OpAsked(c)] /\ request[c].result # NoStructure

\* Where a query has seen a version, and where it has read a content.
Identified == {"hash", "mark", "load", "index", "recheck", "open", "entry", "marker"}

\* What a query knows: the version it saw is not newer than the one it asked for; what it
\* writes or serves is what the index committed under its own key.
Asked(q) ==
  query[q].at = "recheck" =>
    /\ request[q].content = query[q].content
    /\ request[q].want # Gone => query[q].version <= request[q].want
Holds(q) ==
  /\ query[q].at \in Identified => query[q].version \in Version /\ query[q].version <= release
  /\ query[q].at \in {"open", "entry", "marker"} \/ (query[q].at = "done" /\ query[q].served) =>
       /\ query[q].version # Gone
       /\ query[q].result = committed[Key(q)] /\ Whole(query[q].result)
  /\ query[q].at = "entry" => q \in strays

QueryInv ==
  /\ IndexTypeOK /\ KbTypeOK /\ IndexInv /\ CacheAgrees
  /\ \A q \in Client : Asked(q) /\ Holds(q)

\* A parse that waits for its query has its text, and one that is done has told
\* nothing that is not founded.
ParseInv ==
  /\ parse \in [Client -> Parse]
  /\ \A c \in Client : parse[c].at = "query" => parse[c].extracted
  /\ JudgementIsFounded

-----------------------------------------------------------------------------
(* The steps of the index *)

Grown ==
  /\ release <= release'
  /\ \A op \in Op : committed[op] # NoStructure => committed'[op] = committed[op]

LEMMA VersionFacts == MaxVersion \in Nat /\ 1 \in Version /\ Version \subseteq Nat /\ Gone \notin Version
BY KbBoundAssumption DEF Version, Gone

LEMMA IndexStart == IndexInit => IndexTypeOK /\ IndexInv
<1> SUFFICES ASSUME IndexInit PROVE IndexTypeOK /\ IndexInv
  OBVIOUS
<1>1. IndexTypeOK
  BY VersionFacts DEF IndexInit, IndexTypeOK, NoRequest, Request, RequestStatus
<1>2. IndexInv
  BY VersionFacts DEF IndexInit, IndexInv, NoRequest, Gone
<1> QED BY <1>1, <1>2

\* A step that changes one request only.
LEMMA RequestFrame ==
  ASSUME IndexTypeOK, IndexInv, UNCHANGED <<provider, input, committed>>, NEW c \in Client,
         NEW new \in Request, request' = [request EXCEPT ![c] = new],
         new.want <= release, new.at = "asked" => new.want # Gone,
         new.status = "success" =>
           /\ new.want # Gone
           /\ new.result = committed[<<new.content, new.want>>] /\ new.result # NoStructure
  PROVE  IndexTypeOK' /\ IndexInv' /\ Grown
<1>1. /\ release' = release /\ readable' = readable /\ input' = input /\ committed' = committed
      /\ request' \in [Client -> Request]
      /\ request'[c] = new /\ \A d \in Client : d # c => request'[d] = request[d]
  BY DEF IndexTypeOK, provider
<1>2. IndexTypeOK'
  BY <1>1 DEF IndexTypeOK
<1>3. IndexInv'
  BY <1>1 DEF IndexInv, OpAsked
<1>4. Grown
  BY <1>1, VersionFacts DEF Grown, IndexTypeOK
<1> QED BY <1>2, <1>3, <1>4

LEMMA IndexKeeps ==
  ASSUME IndexTypeOK, IndexInv, [IndexNext]_indexVars
  PROVE  IndexTypeOK' /\ IndexInv' /\ Grown
<1> USE VersionFacts
<1> DEFINE Goal == IndexTypeOK' /\ IndexInv' /\ Grown
<1>0. \A c \in Client :
        /\ request[c] \in Request /\ request[c].content \in Content
        /\ request[c].want \in Version \cup {Gone} /\ request[c].want <= release
        /\ request[c].at = "asked" => request[c].want # Gone
  BY DEF IndexTypeOK, IndexInv, Request
<1>1. ASSUME NEW c \in Client, NEW x \in Content, Ask(c, x) PROVE Goal
  <2> DEFINE new == [NoRequest(x) EXCEPT !.at = IF readable THEN "asked" ELSE "answered",
                            !.want = Fingerprint,
                            !.status = IF readable THEN "none" ELSE "blocked"]
  <2>1. new \in Request
    BY DEF NoRequest, Request, RequestStatus, Fingerprint, IndexTypeOK
  <2>2. new.want <= release /\ new.status # "success" /\ (new.at = "asked" => new.want # Gone)
    BY DEF NoRequest, Fingerprint, IndexTypeOK, Gone
  <2> HIDE DEF new
  <2> QED BY <1>1, <2>1, <2>2, RequestFrame DEF Ask, new
<1>2. ASSUME NEW c \in Client, Commit(c) PROVE Goal
  <2>1. PICK d \in Draw : committed' = [committed EXCEPT ![OpAsked(c)] =
                [by |-> request[c].want, of |-> request[c].content, draw |-> d]]
    BY <1>2 DEF Commit
  <2>2. OpAsked(c) \in Op /\ committed[OpAsked(c)] = NoStructure
    BY <1>0, <1>2 DEF Commit, OpAsked, Op
  <2> DEFINE s == [by |-> request[c].want, of |-> request[c].content, draw |-> d]
  <2>3. s \in Structure /\ <<s.of, s.by>> = OpAsked(c)
    BY <1>0, <1>2 DEF Commit, Structure, OpAsked
  <2> HIDE DEF s
  <2>4. /\ committed'[OpAsked(c)] = s
        /\ \A op \in Op : op # OpAsked(c) => committed'[op] = committed[op]
        /\ committed' \in [Op -> Structure \cup {NoStructure}]
        /\ UNCHANGED <<release, readable, input, request>>
    BY <1>2, <2>1, <2>2, <2>3 DEF IndexTypeOK, s, Commit, provider
  <2>5. Grown
    BY <2>2, <2>4 DEF Grown, IndexTypeOK
  <2>6. \A e \in Client : request[e].status = "success" =>
           committed'[OpAsked(e)] = committed[OpAsked(e)]
    BY <1>0, <2>5 DEF Grown, IndexInv, OpAsked, Op
  <2>7. IndexInv'
    BY <2>3, <2>4, <2>6 DEF IndexInv, OpAsked
  <2> QED BY <2>4, <2>5, <2>7 DEF IndexTypeOK
<1>3. ASSUME NEW c \in Client, NEW s \in {"success", "blocked", "failed"},
             NEW r \in Structure \cup {NoStructure}, request[c].at = "asked", Reply(c, s, r),
             s = "success" => r = committed[OpAsked(c)] /\ r # NoStructure,
             UNCHANGED <<provider, input, committed>>
      PROVE  Goal
  <2> DEFINE new == [request[c] EXCEPT !.at = "answered", !.status = s, !.result = r]
  <2>1. new \in Request /\ new.want = request[c].want /\ new.content = request[c].content
        /\ new.at = "answered" /\ new.status = s /\ new.result = r
    BY <1>0 DEF Request, RequestStatus
  <2>2. request' = [request EXCEPT ![c] = new]
    BY <1>3 DEF Reply, IndexTypeOK
  <2> HIDE DEF new
  <2> QED BY <1>0, <1>3, <2>1, <2>2, RequestFrame DEF OpAsked
<1>4. ASSUME NEW c \in Client, Succeed(c) PROVE Goal
  <2>1. OpAsked(c) \in Op
    BY <1>0, <1>4 DEF Succeed, OpAsked, Op
  <2> QED BY <1>3, <1>4, <2>1 DEF Succeed, IndexTypeOK
<1>5. ASSUME NEW c \in Client, Refuse(c) PROVE Goal
  BY <1>3, <1>5 DEF Refuse
<1>6. ASSUME NEW c \in Client, Vanish(c) PROVE Goal
  <2> DEFINE new == NoRequest(request[c].content)
  <2>1. new \in Request /\ new.want <= release /\ new.status # "success" /\ new.at # "asked"
    BY <1>0 DEF NoRequest, Request, RequestStatus, IndexTypeOK, Gone
  <2> HIDE DEF new
  <2> QED BY <1>6, <2>1, RequestFrame DEF Vanish, new
<1>7. CASE Upgrade
  BY <1>0, <1>7 DEF Upgrade, Version, IndexTypeOK, IndexInv, Grown, OpAsked, Gone
<1>8. CASE Unread \/ Edit
  <2>1. UNCHANGED <<release, committed, request>>
    BY <1>8 DEF Unread, Edit, provider
  <2>2. readable' \in BOOLEAN /\ input' \in Content
    BY <1>8 DEF Unread, Edit, provider, IndexTypeOK
  <2> QED BY <2>1, <2>2 DEF IndexTypeOK, IndexInv, Grown, OpAsked
<1>9. CASE UNCHANGED indexVars
  BY <1>9 DEF indexVars, provider, IndexTypeOK, IndexInv, Grown, OpAsked
<1> QED BY <1>1, <1>2, <1>4, <1>5, <1>6, <1>7, <1>8, <1>9 DEF IndexNext

-----------------------------------------------------------------------------
(* The steps of the queries *)

BoundsOK ==
  /\ queries \in 0..MaxQueries /\ clears \in 0..MaxClears /\ mishaps \in 0..MaxMishaps

LEMMA MishapBound ==
  ASSUME KbTypeOK, Mishap
  PROVE  mishaps' \in 0..MaxMishaps
BY KbBoundAssumption DEF KbTypeOK, Mishap

\* The key of a query that has seen a version names a structure.
LEMMA KeyIsName ==
  ASSUME QueryInv, NEW q \in Client, query[q].version # Gone
  PROVE  Key(q) \in Op
BY DEF QueryInv, KbTypeOK, Query, Key, Op

LEMMA IndexWithin ==
  ASSUME QueryInv, [IndexNext]_indexVars
  PROVE  IndexTypeOK' /\ IndexInv' /\ Grown
BY IndexKeeps DEF QueryInv

\* What a step leaves to a query that it does not concern.
LEMMA OtherQuery ==
  ASSUME QueryInv, IndexTypeOK', Grown, NEW q \in Client, query'[q] = query[q],
         request'[q].content = request[q].content, request'[q].want = request[q].want,
         q \in strays => q \in strays'
  PROVE  Asked(q)' /\ Holds(q)'
<1>1. Asked(q)'
  BY DEF QueryInv, Asked
<1>2. query[q].version \in Version /\ query[q].version <= release => query[q].version <= release'
  <2>1. release \in Nat /\ release' \in Nat /\ (query[q].version \in Version => query[q].version \in Nat)
    BY VersionFacts DEF QueryInv, IndexTypeOK
  <2> QED BY <2>1 DEF Grown
<1>3. query[q].version # Gone => Key(q) \in Op /\ Key(q)' = Key(q)
  BY KeyIsName DEF Key
<1>4. query[q].version # Gone /\ query[q].result = committed[Key(q)] /\ Whole(query[q].result)
        => query'[q].result = committed'[Key(q)'] /\ Whole(query'[q].result)
  BY <1>3, NullAssumption DEF Grown, Whole
<1>5. Holds(q)
  BY DEF QueryInv
<1>6. Whole(query[q].result)' <=> Whole(query'[q].result)
  BY DEF Whole
<1> QED BY <1>1, <1>2, <1>4, <1>5, <1>6 DEF Holds

\* An entry that is kept, or is no structure any more, still agrees with the index.
LEMMA EntriesAgree ==
  ASSUME QueryInv, Grown,
         \A op \in Op : entries'[op] \in {entries[op], NoStructure, Junk}
  PROVE  CacheAgrees'
BY NullAssumption DEF QueryInv, CacheAgrees, Grown, KbTypeOK

LEMMA QueryFrame ==
  ASSUME QueryInv, [IndexNext]_indexVars, NEW c \in Client, NEW new \in Query,
         query' = [query EXCEPT ![c] = new],
         \A q \in Client : q # c => request'[q] = request[q] /\ (q \in strays => q \in strays'),
         KbTypeOK', CacheAgrees', Asked(c)', Holds(c)'
  PROVE  QueryInv'
<1>1. IndexTypeOK' /\ IndexInv' /\ Grown
  BY IndexWithin
<1>2. ASSUME NEW q \in Client, q # c PROVE Asked(q)' /\ Holds(q)'
  BY <1>1, <1>2, OtherQuery DEF QueryInv, KbTypeOK
<1> QED BY <1>1, <1>2 DEF QueryInv

\* A step of one query that leaves the files alone.
LEMMA QuietFrame ==
  ASSUME QueryInv, [IndexNext]_indexVars, NEW c \in Client, NEW new \in Query,
         query' = [query EXCEPT ![c] = new], UNCHANGED <<files, clear>>, BoundsOK',
         \A q \in Client : q # c => request'[q] = request[q],
         Asked(c)', Holds(c)'
  PROVE  QueryInv'
<1>1. Grown
  BY IndexWithin
<1>2. KbTypeOK'
  BY DEF QueryInv, KbTypeOK, files, BoundsOK
<1>3. CacheAgrees'
  BY <1>1, EntriesAgree DEF files
<1> QED BY <1>2, <1>3, QueryFrame DEF files

LEMMA DegradesQuietly ==
  ASSUME QueryInv, NEW q \in Client, Degrades(q), UNCHANGED <<indexVars, files, clear>>, BoundsOK'
  PROVE  QueryInv'
<1> DEFINE new == [query[q] EXCEPT !.at = "done", !.result = NoStructure, !.served = FALSE]
<1>1. new \in Query /\ query' = [query EXCEPT ![q] = new]
  BY DEF Degrades, QueryInv, KbTypeOK, Query, QueryPc
<1>2. query'[q].at = "done" /\ ~query'[q].served
  BY DEF Degrades, QueryInv, KbTypeOK, Query
<1>3. Asked(q)' /\ Holds(q)'
  BY <1>2 DEF Asked, Holds, Identified
<1> HIDE DEF new
<1> QED BY <1>1, <1>3, QuietFrame DEF indexVars

LEMMA AskingSteps ==
  ASSUME QueryInv, NEW q \in Client,
         StartQuery(q) \/ Identify(q) \/ Hash(q) \/ LoadMarker(q) \/ LoadEntry(q)
           \/ AskIndex(q) \/ Recheck(q) \/ QueryFails(q)
  PROVE  QueryInv'
<1> USE VersionFacts
<1>0. /\ query \in [Client -> Query] /\ query[q] \in Query /\ BoundsOK
      /\ request \in [Client -> Request] /\ request[q] \in Request
      /\ input \in Content /\ release \in Version /\ Asked(q) /\ Holds(q)
  BY DEF QueryInv, KbTypeOK, IndexTypeOK, BoundsOK
<1>f. ASSUME NEW new \in Query, query' = [query EXCEPT ![q] = new],
             UNCHANGED <<indexVars, files, clear>>, BoundsOK',
             new.at # "recheck",
             new.at \in Identified => new.version \in Version /\ new.version <= release,
             new.at \in {"open", "entry", "marker"} \/ (new.at = "done" /\ new.served) =>
               /\ new.version # Gone
               /\ new.result = committed[<<new.content, new.version>>] /\ Whole(new.result),
             new.at # "entry"
      PROVE  QueryInv'
  <2>1. query'[q] = new /\ release' = release /\ committed' = committed
    BY <1>0, <1>f DEF indexVars, provider
  <2>2. Asked(q)' /\ Holds(q)'
    BY <1>f, <2>1 DEF Asked, Holds, Key, Whole
  <2> QED BY <1>f, <2>2, QuietFrame DEF indexVars
<1>1. CASE StartQuery(q)
  <2> DEFINE new == [NoQuery EXCEPT !.at = "identify"]
  <2>1. new \in Query /\ new.at = "identify"
    BY <1>0 DEF NoQuery, Query, QueryPc
  <2>2. BoundsOK'
    BY <1>0, <1>1, KbBoundAssumption DEF StartQuery, BoundsOK
  <2> HIDE DEF new
  <2>3. query' = [query EXCEPT ![q] = new] /\ UNCHANGED <<indexVars, files, clear>>
    BY <1>1 DEF StartQuery, new
  <2> QED BY <1>f, <2>1, <2>2, <2>3 DEF Identified
<1>2. CASE Identify(q)
  <2>0. BoundsOK'
    BY <1>0, <1>2 DEF Identify, bounds, BoundsOK
  <2>1. CASE Fingerprint = Gone
    BY <1>2, <2>0, <2>1, DegradesQuietly DEF Identify
  <2>2. CASE Fingerprint # Gone
    <3> DEFINE new == [query[q] EXCEPT !.at = "hash", !.version = Fingerprint]
    <3>0. Fingerprint = release /\ release <= release
      BY <1>0, <2>2 DEF Fingerprint
    <3>1. new \in Query /\ new.at = "hash" /\ new.version \in Version /\ new.version <= release
      BY <1>0, <3>0 DEF Query, QueryPc
    <3>2. query' = [query EXCEPT ![q] = new] /\ UNCHANGED <<indexVars, files, clear>>
      BY <1>0, <1>2, <2>2 DEF Identify
    <3> HIDE DEF new
    <3> QED BY <1>0, <1>f, <2>0, <3>1, <3>2
  <2> QED BY <2>1, <2>2
<1>3. CASE Hash(q)
  <2>0. BoundsOK'
    BY <1>0, <1>3 DEF Hash, bounds, BoundsOK
  <2>1. PICK next \in {"mark", "index"} :
          query' = [query EXCEPT ![q].at = next, ![q].content = input]
    BY <1>3 DEF Hash
  <2> DEFINE new == [query[q] EXCEPT !.at = next, !.content = input]
  <2>2. new \in Query /\ new.at = next /\ new.version = query[q].version
    BY <1>0 DEF Query, QueryPc
  <2>3. query' = [query EXCEPT ![q] = new] /\ UNCHANGED <<indexVars, files, clear>>
    BY <1>0, <1>3, <2>1 DEF Hash
  <2>4. query[q].version \in Version /\ query[q].version <= release
    BY <1>0, <1>3 DEF Hash, Holds, Identified
  <2> HIDE DEF new
  <2> QED BY <1>f, <2>0, <2>2, <2>3, <2>4
<1>m. ASSUME NEW step \in {"load", "index"}, query[q].at \in {"mark", "load"}, Moves(q, step),
             UNCHANGED <<indexVars, files, clear, bounds>>
      PROVE  QueryInv'
  <2>0. BoundsOK'
    BY <1>0, <1>m DEF bounds, BoundsOK
  <2> DEFINE new == [query[q] EXCEPT !.at = step]
  <2>2. new \in Query /\ new.at = step /\ new.version = query[q].version
    BY <1>0 DEF Query, QueryPc
  <2>3. query' = [query EXCEPT ![q] = new]
    BY <1>0, <1>m DEF Moves
  <2>4. query[q].version \in Version /\ query[q].version <= release
    BY <1>0, <1>m DEF Holds, Identified
  <2> HIDE DEF new
  <2> QED BY <1>f, <1>m, <2>0, <2>2, <2>3, <2>4
<1>4. CASE LoadMarker(q)
  BY <1>m, <1>4 DEF LoadMarker
<1>5. CASE LoadEntry(q)
  <2>1. CASE ~Whole(entries[Key(q)])
    BY <1>m, <1>5, <2>1 DEF LoadEntry
  <2>2. CASE Whole(entries[Key(q)])
    <3>0. BoundsOK'
      BY <1>0, <1>5 DEF LoadEntry, bounds, BoundsOK
    <3> DEFINE new == [query[q] EXCEPT !.at = "done", !.result = entries[Key(q)], !.served = TRUE]
    <3>1. query[q].version \in Version /\ query[q].version # Gone
      BY <1>0, <1>5 DEF LoadEntry, Holds, Identified
    <3>2. entries[Key(q)] = committed[Key(q)] /\ entries[Key(q)] \in Structure
      BY <2>2, <3>1, KeyIsName DEF QueryInv, CacheAgrees, Whole
    <3>3. /\ new \in Query /\ new.at = "done" /\ new.result = entries[Key(q)]
          /\ new.version = query[q].version /\ new.content = query[q].content
      BY <1>0, <3>2 DEF Query, QueryPc
    <3>4. query' = [query EXCEPT ![q] = new] /\ UNCHANGED <<indexVars, files, clear>>
      BY <1>0, <1>5, <2>2 DEF LoadEntry, Serves
    <3> HIDE DEF new
    <3> QED BY <1>f, <2>2, <3>0, <3>1, <3>2, <3>3, <3>4 DEF Key, Identified
  <2> QED BY <2>1, <2>2
<1>6. CASE AskIndex(q)
  <2>0. BoundsOK'
    BY <1>0, <1>6 DEF AskIndex, bounds, BoundsOK
  <2> DEFINE new == [query[q] EXCEPT !.at = "recheck"]
  <2>2. new \in Query /\ new.at = "recheck" /\ new.version = query[q].version
        /\ new.content = query[q].content
    BY <1>0 DEF Query, QueryPc
  <2>3. query' = [query EXCEPT ![q] = new] /\ UNCHANGED <<files, clear>>
    BY <1>0, <1>6 DEF AskIndex, Moves
  <2> HIDE DEF new
  <2>4. query[q].version \in Version /\ query[q].version <= release /\ query[q].content \in Content
    BY <1>0, <1>6 DEF AskIndex, Holds, Identified, Query
  <2>5. /\ request'[q].content = query[q].content /\ request'[q].want = Fingerprint
        /\ \A p \in Client : p # q => request'[p] = request[p]
        /\ UNCHANGED <<provider, input, committed>>
    BY <1>0, <1>6 DEF AskIndex, Ask, NoRequest
  <2>6. IndexNext
    BY <1>6, <2>4 DEF AskIndex, IndexNext
  <2>7. query'[q] = new /\ release' = release
    BY <1>0, <2>3, <2>5 DEF provider
  <2>8. Asked(q)' /\ Holds(q)'
    BY <2>2, <2>4, <2>5, <2>7 DEF Asked, Holds, Fingerprint
  <2> QED BY <2>0, <2>2, <2>3, <2>5, <2>6, <2>8, QuietFrame
<1>7. CASE Recheck(q)
  <2>0. BoundsOK'
    BY <1>0, <1>7 DEF Recheck, bounds, BoundsOK
  <2> DEFINE fit == /\ request[q].status = "success" /\ Fingerprint = query[q].version
                    /\ Whole(request[q].result)
  <2>1. CASE ~fit
    BY <1>7, <2>0, <2>1, DegradesQuietly DEF Recheck
  <2>2. CASE fit
    <3> DEFINE new == [query[q] EXCEPT !.at = "open", !.result = request[q].result]
    <3>1. query[q].version \in Version /\ query[q].version # Gone
      BY <1>0, <1>7 DEF Recheck, Holds, Identified
    <3>2. /\ request[q].want # Gone /\ request[q].want <= release
          /\ request[q].result = committed[OpAsked(q)]
      BY <2>2 DEF QueryInv, IndexInv
    <3>3. query[q].version <= request[q].want /\ request[q].content = query[q].content
      BY <1>0, <1>7, <3>2 DEF Recheck, Asked
    <3>4. query[q].version = release
      BY <2>2, <3>1 DEF Fingerprint
    <3>5. request[q].want = query[q].version
      <4>1. request[q].want \in Nat /\ release \in Nat
        BY <1>0, <3>2 DEF Request
      <4> QED BY <3>2, <3>3, <3>4, <4>1
    <3>6. OpAsked(q) = <<query[q].content, query[q].version>>
      BY <3>3, <3>5 DEF OpAsked
    <3>7. /\ new \in Query /\ new.at = "open" /\ new.result = request[q].result
          /\ new.version = query[q].version /\ new.content = query[q].content
      BY <1>0, <2>2 DEF Query, QueryPc, Request
    <3>8. query' = [query EXCEPT ![q] = new] /\ UNCHANGED <<indexVars, files, clear>>
      BY <1>0, <1>7, <2>2 DEF Recheck
    <3>9. new.version <= release
      BY <1>0, <3>4, <3>7
    <3> HIDE DEF new
    <3> QED BY <1>f, <2>0, <2>2, <3>1, <3>2, <3>6, <3>7, <3>8, <3>9
  <2> QED BY <2>1, <2>2
<1>8. CASE QueryFails(q)
  <2>1. BoundsOK'
    BY <1>0, <1>8, MishapBound DEF QueryFails, BoundsOK, QueryInv
  <2> QED BY <1>8, <2>1, DegradesQuietly DEF QueryFails
<1> QED BY <1>1, <1>2, <1>3, <1>4, <1>5, <1>6, <1>7, <1>8

LEMMA WritingSteps ==
  ASSUME QueryInv, NEW q \in Client,
         OpenTemporary(q) \/ ReplaceEntry(q) \/ ReplaceMarker(q) \/ WriteFails(q) \/ QueryDies(q)
  PROVE  QueryInv'
<1> USE VersionFacts
<1>0. /\ query \in [Client -> Query] /\ query[q] \in Query /\ strays \subseteq Client
      /\ entries \in [Op -> Structure \cup {NoStructure, Junk}]
      /\ request \in [Client -> Request] /\ input \in Content /\ Holds(q) /\ KbTypeOK
  BY DEF QueryInv, KbTypeOK, IndexTypeOK
<1>k. ASSUME query[q].at \in {"open", "entry", "marker"}
      PROVE  /\ query[q].version \in Version /\ query[q].version <= release
             /\ query[q].version # Gone /\ Key(q) \in Op
             /\ query[q].result = committed[Key(q)] /\ Whole(query[q].result)
  BY <1>0, <1>k, KeyIsName DEF Holds, Identified
\* A query that goes on, or that ends with what it holds.
<1>f. ASSUME NEW step \in {"entry", "marker", "done"}, NEW served \in BOOLEAN,
             query[q].at \in {"open", "entry", "marker"},
             query' = [query EXCEPT ![q] = [query[q] EXCEPT !.at = step, !.served = served]],
             UNCHANGED indexVars, KbTypeOK', CacheAgrees',
             step = "entry" => q \in strays', strays \ {q} \subseteq strays'
      PROVE  QueryInv'
  <2> DEFINE new == [query[q] EXCEPT !.at = step, !.served = served]
  <2>1. /\ new \in Query /\ new.at = step /\ new.served = served /\ new.result = query[q].result
        /\ new.version = query[q].version /\ new.content = query[q].content
    BY <1>0 DEF Query, QueryPc
  <2> HIDE DEF new
  <2>2. query' = [query EXCEPT ![q] = new] /\ query'[q] = new
    BY <1>0, <1>f DEF new
  <2>3. release' = release /\ committed' = committed
    BY <1>f DEF indexVars, provider
  <2>4. Asked(q)' /\ Holds(q)'
    BY <1>f, <1>k, <2>1, <2>2, <2>3 DEF Asked, Holds, Key, Whole
  <2> QED BY <1>f, <2>1, <2>2, <2>4, QueryFrame DEF indexVars
\* A query that ends without the knowledge base.
<1>d. ASSUME Degrades(q), UNCHANGED indexVars, KbTypeOK', CacheAgrees', strays \ {q} \subseteq strays'
      PROVE  QueryInv'
  <2> DEFINE new == [query[q] EXCEPT !.at = "done", !.result = NoStructure, !.served = FALSE]
  <2>1. new \in Query /\ new.at = "done" /\ ~new.served
    BY <1>0 DEF Query, QueryPc
  <2>2. query' = [query EXCEPT ![q] = new]
    BY <1>0, <1>d DEF Degrades
  <2> HIDE DEF new
  <2>3. query'[q] = new
    BY <1>0, <2>2
  <2>4. Asked(q)' /\ Holds(q)'
    BY <2>1, <2>3 DEF Asked, Holds, Identified
  <2> QED BY <1>d, <2>1, <2>2, <2>4, QueryFrame DEF indexVars
<1>c. ASSUME UNCHANGED indexVars PROVE Grown
  BY <1>c, IndexWithin DEF indexVars
<1>q. ASSUME NEW step \in QueryPc, NEW served \in BOOLEAN,
             NEW result \in Structure \cup {NoStructure},
             query' = [query EXCEPT ![q] =
               [query[q] EXCEPT !.at = step, !.result = result, !.served = served]]
      PROVE  query' \in [Client -> Query]
  BY <1>0, <1>q DEF Query
<1>1. CASE OpenTemporary(q)
  <2>1. query' = [query EXCEPT ![q] = [query[q] EXCEPT !.at = "entry", !.served = query[q].served]]
        /\ query[q].served \in BOOLEAN /\ query' \in [Client -> Query]
    BY <1>0, <1>1 DEF OpenTemporary, Moves, Query, QueryPc
  <2>2. KbTypeOK'
    BY <1>0, <1>1, <2>1 DEF OpenTemporary, KbTypeOK, bounds
  <2>3. CacheAgrees'
    BY <1>1, <1>c, EntriesAgree DEF OpenTemporary
  <2> QED BY <1>1, <1>f, <2>1, <2>2, <2>3 DEF OpenTemporary
<1>2. CASE ReplaceEntry(q)
  <2>1. query' = [query EXCEPT ![q] = [query[q] EXCEPT !.at = "marker", !.served = query[q].served]]
        /\ query[q].served \in BOOLEAN /\ query' \in [Client -> Query]
    BY <1>0, <1>2 DEF ReplaceEntry, Moves, Query, QueryPc
  <2>2. dir
    BY <1>0, <1>2 DEF ReplaceEntry, Holds, KbTypeOK
  <2>3. /\ query[q].result \in Structure /\ query[q].result = committed[Key(q)] /\ Key(q) \in Op
    BY <1>2, <1>k DEF ReplaceEntry, Whole
  <2>4. KbTypeOK'
    BY <1>0, <1>2, <2>1, <2>2, <2>3 DEF ReplaceEntry, KbTypeOK, bounds
  <2>5. CacheAgrees'
    BY <1>0, <1>2, <2>3 DEF ReplaceEntry, CacheAgrees, QueryInv, indexVars
  <2> QED BY <1>2, <1>f, <2>1, <2>4, <2>5 DEF ReplaceEntry
<1>s. ASSUME Serves(q, query[q].result)
      PROVE  query' = [query EXCEPT ![q] = [query[q] EXCEPT !.at = "done", !.served = TRUE]]
  <2>1. [query[q] EXCEPT !.at = "done", !.result = query[q].result, !.served = TRUE]
          = [query[q] EXCEPT !.at = "done", !.served = TRUE]
    BY <1>0 DEF Query
  <2> QED BY <1>0, <1>s, <2>1 DEF Serves
<1>3. CASE ReplaceMarker(q)
  <2>1. query' = [query EXCEPT ![q] = [query[q] EXCEPT !.at = "done", !.served = TRUE]]
    BY <1>3, <1>s DEF ReplaceMarker
  <2>2. query' \in [Client -> Query]
    BY <1>0, <2>1 DEF Query, QueryPc
  <2>3. KbTypeOK'
    BY <1>0, <1>3, <2>2 DEF ReplaceMarker, KbTypeOK, bounds
  <2>4. CacheAgrees'
    BY <1>3, <1>c, EntriesAgree DEF ReplaceMarker
  <2> QED BY <1>3, <1>f, <2>1, <2>3, <2>4 DEF ReplaceMarker
<1>4. CASE WriteFails(q)
  <2>1. query[q].at \in {"open", "entry", "marker"} /\ strays' = strays \ {q}
        /\ UNCHANGED <<indexVars, entries, foreign, dir, mark, clear, queries, clears>>
    BY <1>4 DEF WriteFails
  <2>2. CacheAgrees'
    BY <1>c, <2>1, EntriesAgree
  <2>t. query' \in [Client -> Query] => KbTypeOK'
    BY <1>0, <1>4, <2>1, MishapBound DEF WriteFails, KbTypeOK
  <2>3. CASE Degrades(q)
    <3>1. query' \in [Client -> Query]
      BY <1>0, <2>3 DEF Degrades, Query, QueryPc
    <3> QED BY <1>d, <2>1, <2>2, <2>t, <2>3, <3>1
  <2>4. CASE Moves(q, "marker")
    <3>1. query' = [query EXCEPT ![q] = [query[q] EXCEPT !.at = "marker", !.served = query[q].served]]
          /\ query[q].served \in BOOLEAN /\ query' \in [Client -> Query]
      BY <1>0, <2>4 DEF Moves, Query, QueryPc
    <3> QED BY <1>f, <2>1, <2>2, <2>t, <3>1
  <2>5. CASE Serves(q, query[q].result)
    <3>1. query' = [query EXCEPT ![q] = [query[q] EXCEPT !.at = "done", !.served = TRUE]]
      BY <1>s, <2>5
    <3>2. query' \in [Client -> Query]
      BY <1>0, <3>1 DEF Query, QueryPc
    <3> QED BY <1>f, <2>1, <2>2, <2>t, <3>1, <3>2
  <2>6. Degrades(q) \/ Moves(q, "marker") \/ Serves(q, query[q].result)
    BY <1>4 DEF WriteFails
  <2> QED BY <2>3, <2>4, <2>5, <2>6
<1>5. CASE QueryDies(q)
  <2> DEFINE new == NoQuery
  <2>1. new \in Query /\ new.at = "idle"
    BY <1>0 DEF NoQuery, Query, QueryPc
  <2>2. query' = [query EXCEPT ![q] = new] /\ query' \in [Client -> Query]
    BY <1>0, <1>5, <2>1 DEF QueryDies
  <2> HIDE DEF new
  <2>3. KbTypeOK'
    BY <1>0, <1>5, <2>2, MishapBound DEF QueryDies, KbTypeOK
  <2>4. IndexNext /\ \A p \in Client : p # q => request'[p] = request[p]
    BY <1>0, <1>5 DEF QueryDies, Vanish, IndexNext
  <2>5. CacheAgrees'
    BY <1>5, <2>4, IndexWithin, EntriesAgree DEF QueryDies
  <2>6. Asked(q)' /\ Holds(q)'
    BY <1>0, <2>1, <2>2 DEF Asked, Holds, Identified
  <2>7. \A p \in Client : p # q /\ p \in strays => p \in strays'
    BY <1>5 DEF QueryDies
  <2> QED BY <2>1, <2>2, <2>3, <2>4, <2>5, <2>6, <2>7, QueryFrame
<1> QED BY <1>1, <1>2, <1>3, <1>4, <1>5

-----------------------------------------------------------------------------
(* The steps beside the queries *)

\* A step that concerns no query.
LEMMA AroundFrame ==
  ASSUME QueryInv, [IndexNext]_indexVars, UNCHANGED <<query, strays>>,
         \A q \in Client : request'[q].content = request[q].content
                             /\ request'[q].want = request[q].want,
         \A op \in Op : entries'[op] \in {entries[op], NoStructure, Junk},
         KbTypeOK'
  PROVE  QueryInv'
<1>1. IndexTypeOK' /\ IndexInv' /\ Grown
  BY IndexWithin
<1>2. CacheAgrees'
  BY <1>1, EntriesAgree
<1>3. \A q \in Client : Asked(q)' /\ Holds(q)'
  BY <1>1, OtherQuery
<1> QED BY <1>1, <1>2, <1>3 DEF QueryInv

LEMMA IndexAround ==
  ASSUME QueryInv,
         \/ \E c \in Client : IndexStep(c)
         \/ (Upgrade \/ Unread \/ Edit) /\ Mishap /\ UNCHANGED <<files, query, clear, queries, clears>>
  PROVE  QueryInv'
<1>0. request \in [Client -> Request]
  BY DEF QueryInv, IndexTypeOK
<1>1. CASE \E c \in Client : IndexStep(c)
  <2>1. PICK c \in Client : IndexStep(c)
    BY <1>1
  <2>2. KbTypeOK'
    BY <2>1 DEF IndexStep, cacheVars, files, bounds, KbTypeOK, QueryInv
  <2>3. \A q \in Client : request'[q].content = request[q].content /\ request'[q].want = request[q].want
    <3>1. request' = request \/ \E s, r : Reply(c, s, r)
      BY <2>1 DEF IndexStep, Commit, Succeed, Refuse
    <3>2. ASSUME NEW s, NEW r, Reply(c, s, r), NEW q \in Client
          PROVE  request'[q].content = request[q].content /\ request'[q].want = request[q].want
      <4>1. request[c] \in Request
        BY <1>0
      <4> QED BY <1>0, <3>2, <4>1 DEF Reply, Request
    <3> QED BY <3>1, <3>2
  <2>4. IndexNext
    BY <2>1 DEF IndexStep, IndexNext
  <2> QED BY <2>1, <2>2, <2>3, <2>4, AroundFrame DEF IndexStep, cacheVars, files
<1>2. CASE /\ Upgrade \/ Unread \/ Edit
           /\ Mishap /\ UNCHANGED <<files, query, clear, queries, clears>>
  <2>1. IndexNext /\ request' = request
    BY <1>2 DEF IndexNext, Upgrade, Unread, Edit
  <2>2. KbTypeOK'
    BY <1>2, MishapBound DEF files, KbTypeOK, QueryInv
  <2> QED BY <1>2, <2>1, <2>2, AroundFrame DEF files
<1> QED BY <1>1, <1>2

LEMMA ClearingAround ==
  ASSUME QueryInv,
         Damage \/ \E k \in Clearer : Verify(k) \/ ClearStep(k) \/ ClearDies(k)
  PROVE  QueryInv'
<1>0. KbTypeOK /\ entries \in [Op -> Structure \cup {NoStructure, Junk}]
  BY DEF QueryInv, KbTypeOK
<1>f. ASSUME UNCHANGED <<indexVars, strays, query>>, KbTypeOK',
             \A op \in Op : entries'[op] \in {entries[op], NoStructure, Junk}
      PROVE  QueryInv'
  BY <1>f, AroundFrame DEF indexVars
<1>1. ASSUME NEW k \in Clearer, Verify(k) PROVE QueryInv'
  <2>1. clear' \in [Clearer -> Clear]
    <3> DEFINE listed == {op \in Op : entries[op] # NoStructure}
    <3>1. clear \in [Clearer -> Clear] /\ clear[k] \in Clear /\ listed \in SUBSET Op
      BY <1>0 DEF KbTypeOK
    <3>2. \/ \E step \in {"raised", "done", "unmark"} : clear' = [clear EXCEPT ![k].at = step]
          \/ clear' = [clear EXCEPT ![k].at = "unlink", ![k].seen = listed]
      BY <1>0, <1>1 DEF Verify, Clears, KbTypeOK
    <3> HIDE DEF listed
    <3> QED BY <3>1, <3>2 DEF Clear, ClearPc
  <2>2. clears' \in 0..MaxClears
    BY <1>0, <1>1, KbBoundAssumption DEF Verify, KbTypeOK
  <2>3. KbTypeOK'
    BY <1>0, <1>1, <2>1, <2>2 DEF Verify, files, KbTypeOK
  <2> QED BY <1>1, <1>f, <2>3 DEF Verify, files
<1>2. ASSUME NEW k \in Clearer, Unlink(k) PROVE QueryInv'
  <2>1. clear' \in [Clearer -> Clear]
    <3>1. clear \in [Clearer -> Clear] /\ clear[k] \in Clear /\ clear[k].seen \in SUBSET Op
      BY <1>0 DEF KbTypeOK, Clear
    <3>2. \A op : [clear[k] EXCEPT !.seen = clear[k].seen \ {op}] \in Clear
      BY <3>1 DEF Clear
    <3>3. [at |-> "raised", seen |-> {}] \in Clear
      BY DEF Clear, ClearPc
    <3>4. \/ clear' = [clear EXCEPT ![k] = [at |-> "raised", seen |-> {}]]
          \/ \E op \in clear[k].seen : clear' = [clear EXCEPT ![k].seen = @ \ {op}]
      BY <1>2 DEF Unlink
    <3>5. CASE clear' = [clear EXCEPT ![k] = [at |-> "raised", seen |-> {}]]
      BY <3>1, <3>3, <3>5
    <3>6. CASE \E op \in clear[k].seen : clear' = [clear EXCEPT ![k].seen = @ \ {op}]
      BY <3>1, <3>2, <3>6
    <3> QED BY <3>4, <3>5, <3>6
  <2>2. \A op \in Op : entries'[op] \in {entries[op], NoStructure}
    BY <1>0, <1>2 DEF Unlink
  <2>3. entries' \in [Op -> Structure \cup {NoStructure, Junk}]
    BY <1>0, <1>2 DEF Unlink
  <2>4. KbTypeOK'
    BY <1>0, <1>2, <2>1, <2>2, <2>3 DEF Unlink, bounds, KbTypeOK
  <2> QED BY <1>2, <1>f, <2>2, <2>4 DEF Unlink
<1>3. ASSUME NEW k \in Clearer, RemoveDir(k) \/ Unmark(k) \/ ClearDies(k) PROVE QueryInv'
  <2>1. clear' \in [Clearer -> Clear]
    BY <1>0, <1>3 DEF RemoveDir, Unmark, ClearDies, Clears, NoClear, KbTypeOK, Clear, ClearPc
  <2>2. /\ UNCHANGED <<indexVars, entries, strays, foreign, query, queries, clears>>
        /\ mishaps' \in 0..MaxMishaps
    BY <1>0, <1>3, MishapBound DEF RemoveDir, Unmark, ClearDies, files, bounds, KbTypeOK
  <2>3. /\ mark' \in {"none", "ours", "other"} /\ dir' \in BOOLEAN
        /\ ~dir' => strays = {} /\ ~foreign /\ \A op \in Op : entries[op] = NoStructure
    BY <1>0, <1>3 DEF RemoveDir, Unmark, ClearDies, files, KbTypeOK
  <2>4. KbTypeOK'
    BY <1>0, <2>1, <2>2, <2>3 DEF KbTypeOK
  <2> QED BY <1>f, <2>2, <2>4
<1>4. CASE Damage
  <2>1. entries' \in [Op -> Structure \cup {NoStructure, Junk}]
        /\ \A op \in Op : entries'[op] \in {entries[op], Junk}
    BY <1>0, <1>4 DEF Damage
  <2>2. dir
    BY <1>0, <1>4 DEF Damage, KbTypeOK
  <2>3. KbTypeOK'
    BY <1>0, <1>4, <2>1, <2>2, MishapBound DEF Damage, KbTypeOK
  <2> QED BY <1>4, <1>f, <2>1, <2>3 DEF Damage
<1> QED BY <1>1, <1>2, <1>3, <1>4 DEF ClearStep

-----------------------------------------------------------------------------
(* The parse *)

\* What a query leaves to the parse that waits for it, and to the others.
LEMMA QueryKeeps ==
  ASSUME QueryInv, ParseNext
  PROVE  QueryInv'
<1>1. ASSUME NEW c \in Client, ParseBlocked(c) PROVE QueryInv'
  <2>1. KbTypeOK'
    BY <1>1, KbBoundAssumption DEF ParseBlocked, files, KbTypeOK, QueryInv
  <2> QED BY <1>1, <2>1, AroundFrame DEF ParseBlocked, files, indexVars
<1>2. ASSUME NEW c \in Client, Extract(c) PROVE QueryInv'
  BY <1>2, AskingSteps DEF Extract
<1>3. ASSUME NEW c \in Client, ParseStep(c) PROVE QueryInv'
  <2>1. CASE Judge(c)
    <3>1. KbTypeOK'
      BY <2>1 DEF Judge, kbVars, cacheVars, files, bounds, KbTypeOK, QueryInv
    <3> QED BY <2>1, <3>1, AroundFrame DEF Judge, kbVars, cacheVars, files, indexVars
  <2>2. CASE QueryStep(c) \/ WriteFails(c) \/ QueryFails(c)
    BY <2>2, AskingSteps, WritingSteps DEF QueryStep
  <2> QED BY <1>3, <2>1, <2>2 DEF ParseStep
<1>4. ASSUME NEW c \in Client, ParseDies(c) PROVE QueryInv'
  BY <1>4, WritingSteps DEF ParseDies
<1>5. CASE Around
  BY <1>5, IndexAround, ClearingAround DEF Around
<1> QED BY <1>1, <1>2, <1>3, <1>4, <1>5 DEF ParseNext

\* Titles and text bring no more than 25; a negative name costs more than all that
\* a document can bring.
LEMMA ScoreFacts ==
  ASSUME NEW g \in Category, NEW d \in Document, NEW n \in Nat
  PROVE  /\ Score(g, d, n) \in Int /\ Score(g, d, n) <= 55
         /\ Score(g, d, n) >= 30 => g \in d.name
         /\ Score(g, d, n) > 0 => g = Other \/ ~d.negative
<1>1. d.name \in SUBSET Category /\ d.negative \in BOOLEAN
  BY DocumentAssumption DEF Documents
<1> QED BY <1>1 DEF Score

\* A set of numbers that is not empty has a least one.
LEMMA LeastNat ==
  ASSUME NEW S \in SUBSET Nat, S # {}
  PROVE  \E n \in S : \A m \in S : n <= m
<1> DEFINE less == OpToRel(<, Nat)
<1>1. \A x, y \in S : y < x => <<y, x>> \in less
  BY DEF OpToRel
<1>2. IsWellFoundedOn(less, Nat)
  BY NatLessThanWellFounded
<1>3. \E x \in S : \A y \in S : ~(<<y, x>> \in less)
  BY <1>2, WFMin
<1>4. \E x \in S : \A y \in S : ~(y < x)
  BY <1>1, <1>3, Zenon
<1> QED BY <1>4

LEMMA PlaceFacts ==
  /\ DOMAIN Categories \subseteq Nat /\ DOMAIN Categories # {}
  /\ \A n \in DOMAIN Categories : Categories[n] \in Category
  /\ Other \in Category
BY CategoryAssumption, DocumentAssumption DEF Category

\* There is a first place of the best score: the score that misses 55 by the least, and
\* the least of its places.
LEMMA BestFacts ==
  ASSUME NEW d \in Document, NEW s \in Structure
  PROVE  Best(d, s) \in DOMAIN Categories
<1> DEFINE at(n) == ScoreAt(n, d, s)
           place == DOMAIN Categories
           miss  == {55 - at(n) : n \in place}
<1>1. \A n \in place : at(n) \in Int /\ at(n) <= 55
  <2> SUFFICES ASSUME NEW n \in place PROVE at(n) \in Int /\ at(n) <= 55
    OBVIOUS
  <2>1. Categories[n] \in Category
    BY PlaceFacts
  <2>2. Nodes[s.draw][Categories[n]] \in Nat
    BY <2>1, NodesAssumption DEF Structure
  <2> QED BY <2>1, <2>2, ScoreFacts DEF ScoreAt
<1>2. miss \in SUBSET Nat /\ miss # {}
  BY <1>1, PlaceFacts
<1>3. PICK l \in miss : \A m \in miss : l <= m
  BY <1>2, LeastNat
<1> DEFINE first == {n \in place : 55 - at(n) = l}
<1>4. first \in SUBSET Nat /\ first # {}
  BY <1>3, PlaceFacts
<1>5. PICK n \in first : \A m \in first : n <= m
  BY <1>4, LeastNat
<1>6. \A m \in place : at(n) > at(m) \/ (at(n) = at(m) /\ n <= m)
  <2> SUFFICES ASSUME NEW m \in place PROVE at(n) > at(m) \/ (at(n) = at(m) /\ n <= m)
    OBVIOUS
  <2>1. 55 - at(m) \in miss /\ at(m) \in Int /\ at(n) \in Int /\ 55 - at(n) = l
    BY <1>1, <1>5
  <2>2. at(m) = at(n) => n <= m
    BY <1>5, <2>1
  <2> HIDE DEF at, miss, first, place
  <2>3. l <= 55 - at(m)
    BY <1>3, <2>1
  <2> QED BY <2>1, <2>2, <2>3
<1> QED BY <1>5, <1>6 DEF Best

\* What the knowledge base knows is founded.
LEMMA KnownFacts ==
  ASSUME NEW d \in Document, NEW s \in Structure
  PROVE  /\ Known(d, s) \in Judgement
         /\ Known(d, s).source = "knowledge_base" =>
              /\ Known(d, s).category = Other \/ ~d.negative
              /\ Known(d, s).confidence = "high" => Known(d, s).category \in d.name
         /\ Known(d, s).source = "none" => Known(d, s).confidence = "low"
<1> DEFINE best  == Categories[Best(d, s)]
           score == ScoreAt(Best(d, s), d, s)
<1>1. best \in Category
  BY BestFacts, PlaceFacts
<1>2. Nodes[s.draw][best] \in Nat
  BY <1>1, NodesAssumption DEF Structure
<1>3. /\ score \in Int
      /\ score >= 30 => best \in d.name
      /\ score > 0 => best = Other \/ ~d.negative
  BY <1>1, <1>2, ScoreFacts DEF ScoreAt
<1>4. NoJudgement \in Judgement
  BY PlaceFacts DEF NoJudgement, Judgement, Confidence, Layer
<1>5. CASE score <= 0
  <2>1. Known(d, s) = NoJudgement
    BY <1>5 DEF Known
  <2> QED BY <1>4, <2>1 DEF NoJudgement
<1>6. CASE score > 0
  <2> DEFINE sure == IF score >= 30 THEN "high" ELSE IF score >= 15 THEN "medium" ELSE "low"
  <2>1. Known(d, s) = [category |-> best, source |-> "knowledge_base", confidence |-> sure]
    BY <1>3, <1>6 DEF Known
  <2>2. sure \in Confidence /\ (sure = "high" => score >= 30)
    BY <1>3 DEF Confidence
  <2> HIDE DEF best, score, sure
  <2> QED BY <1>1, <1>3, <1>6, <2>1, <2>2 DEF Judgement, Layer
<1> QED BY <1>3, <1>5, <1>6

\* What one parse has told is founded.
Founded(p) ==
  /\ p.status \in {"success", "needs_review"} => p.extracted
  /\ p.judgement.source = "knowledge_base" =>
       /\ ~p.diagnosed
       /\ p.judgement.category = Other \/ ~p.doc.negative
       /\ p.judgement.confidence = "high" => p.judgement.category \in p.doc.name

LEMMA ParseFrame ==
  ASSUME ParseInv, NEW c \in Client, NEW new \in Parse, parse' = [parse EXCEPT ![c] = new],
         new.at = "query" => new.extracted, new.at = "done" => Founded(new)
  PROVE  ParseInv'
<1>1. parse' \in [Client -> Parse] /\ parse'[c] = new
      /\ \A d \in Client : d # c => parse'[d] = parse[d]
  BY DEF ParseInv
<1> QED BY <1>1 DEF ParseInv, JudgementIsFounded, Founded

LEMMA NoParseFacts ==
  ASSUME NEW d \in Document
  PROVE  /\ NoParse(d) \in Parse /\ NoParse(d).at = "idle" /\ NoParse(d).doc = d
         /\ NoParse(d).judgement = NoJudgement /\ NoJudgement \in Judgement
<1>1. NoJudgement \in Judgement
  BY PlaceFacts DEF NoJudgement, Judgement, Confidence, Layer
<1> QED BY <1>1 DEF NoParse, Parse, Status, Reason

LEMMA FinishedFacts ==
  ASSUME ParseInv, NEW c \in Client, NEW p \in Parse,
         NEW status \in Status, NEW reason \in Reason, Finished(c, p, status, reason),
         status \in {"success", "needs_review"} => p.extracted,
         Founded([p EXCEPT !.status = "none"])
  PROVE  ParseInv'
<1> DEFINE new == [p EXCEPT !.at = "done",
                     !.status = IF p.doc.intent THEN status ELSE "blocked",
                     !.reason = IF p.doc.intent THEN reason ELSE "schema_invalid"]
<1>1. new \in Parse /\ new.at = "done"
  BY DEF Parse, Status, Reason
<1>2. Founded(new)
  BY DEF Founded, Parse
<1>3. parse' = [parse EXCEPT ![c] = new]
  BY DEF Finished
<1> HIDE DEF new
<1> QED BY <1>1, <1>2, <1>3, ParseFrame

LEMMA JudgeKeeps ==
  ASSUME QueryInv, ParseInv, NEW c \in Client, Judge(c)
  PROVE  ParseInv'
<1>0. parse[c] \in Parse /\ parse[c].extracted /\ parse[c].doc \in Document
      /\ query[c].served \in BOOLEAN
  BY DEF Judge, ParseInv, Parse, QueryInv, KbTypeOK, Query
<1>1. PICK j \in Layered(parse[c].doc, Knowledge(c)) :
        Finished(c, [parse[c] EXCEPT !.judgement = j, !.diagnosed = ~query[c].served],
                 IF j.confidence = "low" THEN "needs_review" ELSE "success", "success")
  BY DEF Judge
<1>2. query[c].served => query[c].result \in Structure
  BY DEF Judge, QueryInv, Holds, Whole
<1>3. /\ Knowledge(c) \in Judgement
      /\ Knowledge(c).source = "knowledge_base" =>
           /\ query[c].served
           /\ Knowledge(c).category = Other \/ ~parse[c].doc.negative
           /\ Knowledge(c).confidence = "high" => Knowledge(c).category \in parse[c].doc.name
  <2>1. CASE query[c].served
    BY <1>0, <1>2, <2>1, KnownFacts DEF Knowledge
  <2>2. CASE ~query[c].served
    BY <1>0, <2>2, NoParseFacts DEF Knowledge, NoJudgement
  <2> QED BY <2>1, <2>2
<1>4. j \in Judgement /\ (j = Knowledge(c) \/ j.source # "knowledge_base")
  <2> DEFINE hard == [category |-> parse[c].doc.hard.category,
                      confidence |-> parse[c].doc.hard.confidence, source |-> "hard_code"]
  <2>1. j \in {Knowledge(c), hard} \cup Answers
    BY DEF Layered
  <2>2. hard \in Judgement
    BY <1>0, DocumentAssumption DEF Documents, Judgement, Confidence, Layer
  <2>3. \A a \in Answers : a \in Judgement /\ a.source = "llm"
    BY AnswersAssumption
  <2> QED BY <1>3, <2>1, <2>2, <2>3
<1> DEFINE p == [parse[c] EXCEPT !.judgement = j, !.diagnosed = ~query[c].served]
           status == IF j.confidence = "low" THEN "needs_review" ELSE "success"
<1>5. p \in Parse /\ p.extracted /\ p.doc = parse[c].doc /\ p.judgement = j
      /\ p.diagnosed = ~query[c].served
  BY <1>0, <1>4 DEF Parse
<1>6. status \in Status /\ "success" \in Reason /\ Finished(c, p, status, "success")
  BY <1>1 DEF Status, Reason
<1> HIDE DEF p, status
<1>7. Founded([p EXCEPT !.status = "none"])
  BY <1>3, <1>4, <1>5 DEF Founded, Parse
<1> QED BY <1>5, <1>6, <1>7, FinishedFacts

LEMMA ParseKeeps ==
  ASSUME QueryInv, ParseInv, ParseNext
  PROVE  ParseInv'
<1>0. parse \in [Client -> Parse] /\ \A c \in Client : parse[c].doc \in Document
  BY DEF ParseInv, Parse
<1>1. ASSUME NEW c \in Client, ParseBlocked(c) PROVE ParseInv'
  <2>1. PICK d \in Document : \E end \in Ends(d.kind) :
          Finished(c, NoParse(d), end[1], end[2])
    BY <1>1 DEF ParseBlocked
  <2>2. PICK end \in Ends(d.kind) : Finished(c, NoParse(d), end[1], end[2])
    BY <2>1
  <2>3. d.kind \in {"missing", "unknown", "stub", "implemented"}
    BY DocumentAssumption DEF Documents
  <2>4. end[1] \in {"blocked", "failed"} /\ end[2] \in Reason
    BY <2>3 DEF Ends, Reason
  <2>5. NoParse(d) \in Parse /\ Founded([NoParse(d) EXCEPT !.status = "none"])
    BY NoParseFacts DEF Founded, NoJudgement, Parse
  <2> QED BY <2>2, <2>4, <2>5, FinishedFacts DEF Status
<1>2. ASSUME NEW c \in Client, Extract(c) PROVE ParseInv'
  <2>1. PICK d \in Document :
          parse' = [parse EXCEPT ![c] = [NoParse(d) EXCEPT !.at = "query", !.extracted = TRUE]]
    BY <1>2 DEF Extract
  <2> DEFINE new == [NoParse(d) EXCEPT !.at = "query", !.extracted = TRUE]
  <2>n. NoParse(d) \in Parse
    BY NoParseFacts
  <2>2. new \in Parse /\ new.at = "query" /\ new.extracted
    BY <2>n DEF Parse
  <2> HIDE DEF new
  <2> QED BY <2>1, <2>2, ParseFrame DEF new
<1>3. ASSUME NEW c \in Client, ParseStep(c) PROVE ParseInv'
  BY <1>3, JudgeKeeps DEF ParseStep, ParseInv, JudgementIsFounded
<1>4. ASSUME NEW c \in Client, ParseDies(c) PROVE ParseInv'
  BY <1>0, <1>4, NoParseFacts, ParseFrame DEF ParseDies
<1>5. CASE UNCHANGED parse
  BY <1>5 DEF ParseInv, JudgementIsFounded
<1> QED BY <1>1, <1>2, <1>3, <1>4, <1>5 DEF ParseNext

-----------------------------------------------------------------------------
(* What the filing of documents promises *)

LEMMA ParseStart == ParseInit => QueryInv /\ ParseInv
<1> SUFFICES ASSUME ParseInit PROVE QueryInv /\ ParseInv
  OBVIOUS
<1>1. IndexTypeOK /\ IndexInv
  BY IndexStart DEF ParseInit, KbInit
<1>2. KbTypeOK
  <2>1. NoQuery \in Query /\ NoClear \in Clear
    BY <1>1 DEF NoQuery, NoClear, Query, Clear, QueryPc, ClearPc, IndexTypeOK
  <2>2. 0 \in 0..MaxQueries /\ 0 \in 0..MaxClears /\ 0 \in 0..MaxMishaps
    BY KbBoundAssumption
  <2> QED BY <2>1, <2>2 DEF ParseInit, KbInit, KbTypeOK
<1>3. CacheAgrees
  BY NullAssumption DEF ParseInit, KbInit, CacheAgrees
<1>4. \A q \in Client : Asked(q) /\ Holds(q)
  BY DEF ParseInit, KbInit, NoQuery, Asked, Holds, Identified
<1>5. ParseInv
  <2> DEFINE d == CHOOSE x \in Document : TRUE
  <2>1. d \in Document
    BY DocumentAssumption
  <2>2. parse = [c \in Client |-> NoParse(d)]
    BY DEF ParseInit
  <2> HIDE DEF d
  <2> QED BY <2>1, <2>2, NoParseFacts DEF ParseInv, JudgementIsFounded
<1> QED BY <1>1, <1>2, <1>3, <1>4, <1>5 DEF QueryInv

LEMMA ParseStutter ==
  ASSUME QueryInv, ParseInv, UNCHANGED parseVars
  PROVE  QueryInv' /\ ParseInv'
<1>1. KbTypeOK'
  BY DEF parseVars, kbVars, cacheVars, files, bounds, KbTypeOK, QueryInv
<1>2. QueryInv'
  BY <1>1, AroundFrame DEF parseVars, kbVars, cacheVars, files, indexVars
<1> QED BY <1>2 DEF parseVars, ParseInv, JudgementIsFounded

\* The inductive invariant of queries and parses: a query at each step knows what it has
\* read, asked and staged, and a parse what its layers answered (knowledge_base.py, parse.py).
THEOREM ParseInvariant == ParseSpec => [](QueryInv /\ ParseInv)
<1>1. QueryInv /\ ParseInv /\ [ParseNext]_parseVars => QueryInv' /\ ParseInv'
  BY QueryKeeps, ParseKeeps, ParseStutter
<1> QED BY ParseStart, <1>1, PTL DEF ParseSpec

\* KnowledgeIsSound: however queries, upgrades, edits and clearings are interleaved, an
\* entry of the cache is what the index committed under its name, and what a query serves
\* was made of the content it read by the version it saw (query of knowledge_base.py).
THEOREM KnowledgeIsSoundCorrect == ParseSpec => []KnowledgeIsSound
<1>1. QueryInv /\ ParseInv => KnowledgeIsSound
  <2> SUFFICES ASSUME QueryInv PROVE KnowledgeIsSound
    OBVIOUS
  <2>1. ASSUME NEW q \in Client, query[q].at = "done", query[q].served
        PROVE  Whole(query[q].result) /\ <<query[q].result.of, query[q].result.by>> = Key(q)
    <3>1. /\ query[q].version # Gone /\ Whole(query[q].result)
          /\ query[q].result = committed[Key(q)]
      BY <2>1 DEF QueryInv, Holds
    <3>2. Key(q) \in Op /\ committed[Key(q)] # NoStructure
      BY <3>1, KeyIsName, NullAssumption DEF Whole
    <3> QED BY <3>1, <3>2 DEF QueryInv, IndexInv
  <2> QED BY <2>1 DEF KnowledgeIsSound, KnowledgeIsTrue, QueryInv
<1> QED BY <1>1, ParseInvariant, PTL

\* JudgementIsFounded: a parse that failed passes for no classification, and the knowledge
\* base is sure of a category only when the name of the document says so.
THEOREM JudgementIsFoundedCorrect == ParseSpec => []JudgementIsFounded
<1>1. QueryInv /\ ParseInv => JudgementIsFounded
  BY DEF ParseInv
<1> QED BY <1>1, ParseInvariant, PTL

\* ClearSpares: clearing the cache removes no temporary file of a query and no file of
\* others, and leaves the directory as long as one of them is in it.
THEOREM ClearSparesCorrect == ParseSpec => ClearSpares
<1> DEFINE Spared == \A k \in Clearer : clear'[k] # clear[k] =>
             strays' = strays /\ foreign' = foreign /\ (dir' \/ (strays = {} /\ ~foreign))
<1>1. QueryInv /\ ParseInv /\ [ParseNext]_parseVars => [Spared]_kbVars
  <2> SUFFICES ASSUME QueryInv, [ParseNext]_parseVars PROVE [Spared]_kbVars
    OBVIOUS
  <2>1. ~dir => strays = {} /\ ~foreign
    BY DEF QueryInv, KbTypeOK
  <2>2. ASSUME NEW k \in Clearer, Verify(k) \/ ClearStep(k) \/ ClearDies(k) PROVE Spared
    BY <2>1, <2>2 DEF Verify, ClearStep, Unlink, RemoveDir, Unmark, ClearDies, files
  <2>3. ASSUME NEW c \in Client, ParseBlocked(c) \/ Extract(c) \/ ParseStep(c) \/ ParseDies(c)
        PROVE  clear' = clear
    BY <2>3 DEF ParseBlocked, Extract, ParseStep, ParseDies, QueryStep, StartQuery, Identify,
       Hash, LoadMarker, LoadEntry, AskIndex, Recheck, OpenTemporary, ReplaceEntry,
       ReplaceMarker, WriteFails, QueryFails, QueryDies, Judge, kbVars, cacheVars
  <2>4. CASE Around
    <3>1. CASE \/ \E c \in Client : IndexStep(c)
               \/ (Upgrade \/ Unread \/ Edit) /\ Mishap /\ UNCHANGED <<files, query, clear, queries, clears>>
               \/ Damage
      BY <3>1 DEF IndexStep, cacheVars, Damage
    <3> QED BY <2>2, <2>4, <3>1 DEF Around
  <2>5. CASE UNCHANGED parseVars
    BY <2>5 DEF parseVars
  <2> QED BY <2>2, <2>3, <2>4, <2>5 DEF ParseNext
<1> QED BY <1>1, ParseInvariant, PTL DEF ParseSpec, ClearSpares

\* Every step of a parse is a step of the port of the structure index, or leaves it alone:
\* what the port promises, whatever implements it, holds for the parser.
THEOREM ParseUsesIndex == ParseSpec => IndexSpec
<1>1. ParseInit => IndexInit
  BY DEF ParseInit, KbInit
<1>2. QueryInv /\ [ParseNext]_parseVars => [IndexNext]_indexVars
  <2> SUFFICES ASSUME QueryInv, [ParseNext]_parseVars PROVE [IndexNext]_indexVars
    OBVIOUS
  <2>1. ASSUME NEW c \in Client,
               AskIndex(c) \/ QueryDies(c) \/ IndexStep(c)
        PROVE  IndexNext
    <3>1. query[c].content \in Content
      BY DEF QueryInv, KbTypeOK, Query
    <3> QED BY <2>1, <3>1 DEF AskIndex, QueryDies, IndexStep, IndexNext
  <2>2. ASSUME NEW c \in Client,
               \/ ParseBlocked(c) \/ Extract(c) \/ Judge(c) \/ Identify(c) \/ Hash(c)
               \/ LoadMarker(c) \/ LoadEntry(c) \/ Recheck(c) \/ OpenTemporary(c)
               \/ ReplaceEntry(c) \/ ReplaceMarker(c) \/ WriteFails(c) \/ QueryFails(c)
        PROVE  UNCHANGED indexVars
    BY <2>2 DEF ParseBlocked, Extract, Judge, StartQuery, Identify, Hash, LoadMarker, LoadEntry,
       Recheck, OpenTemporary, ReplaceEntry, ReplaceMarker, WriteFails, QueryFails, kbVars
  <2>3. ASSUME Damage \/ \E k \in Clearer : Verify(k) \/ ClearStep(k) \/ ClearDies(k)
        PROVE  UNCHANGED indexVars
    BY <2>3 DEF Damage, Verify, ClearStep, Unlink, RemoveDir, Unmark, ClearDies
  <2>4. ASSUME Upgrade \/ Unread \/ Edit PROVE IndexNext
    BY <2>4 DEF IndexNext
  <2>5. CASE Around
    BY <2>1, <2>3, <2>4, <2>5 DEF Around
  <2>6. CASE UNCHANGED parseVars
    BY <2>6 DEF parseVars, kbVars
  <2> QED BY <2>1, <2>2, <2>5, <2>6 DEF ParseNext, ParseStep, ParseDies, QueryStep
<1> QED BY <1>1, <1>2, ParseInvariant, PTL DEF ParseSpec, IndexSpec
=============================================================================
