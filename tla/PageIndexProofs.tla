--------------------------- MODULE PageIndexProofs ---------------------------
(***************************************************************************)
(* Proofs about PageIndexArtifacts for any number of indexers, collectors,   *)
(* contents, releases and calls: a marker never lacks its snapshot, and the  *)
(* two links of a publication are one commit of the abstract index.          *)
(***************************************************************************)
EXTENDS PageIndexArtifacts, TLAPS

\* One process has the lock: a call that publishes, or a collector.
LockInv ==
  /\ \A i \in Indexer : call[i].at \in Locked <=> lock = i
  /\ \A k \in Collector : k \in collecting <=> lock = k

\* A structure of the content and the version that a call asks for.
AsAsked(c) ==
  /\ c.result \in Structure /\ c.result.of = c.content /\ c.result.by = c.want

\* What a call knows where it is.  Releases only go up: a structure made after the
\* version was pinned is of that version if it is still installed.
Knows(c) ==
  LET op == <<c.content, c.pinned>> IN
  /\ c.at \notin {"idle", "done"} => c.status = "none"
  /\ c.at = "pin" => c.result = NoResult
  /\ c.at \notin {"idle", "pin", "done"} => c.pinned = c.want /\ c.want \in Version
  /\ c.at = "hit" => marker[op] # NoMarker /\ c.result = marker[op]
  /\ c.at \in {"run", "judge"} => c.pinned <= release
  /\ c.at = "judge" =>
       /\ c.result \in Structure /\ c.result.of = c.content
       /\ c.pinned <= c.result.by /\ c.result.by <= release
  /\ c.at \in {"wait", "link_source", "link_marker"} => AsAsked(c)
  /\ c.at = "link_marker" => op \in snapshots
  /\ c.at = "reload" => marker[op] # NoMarker

\* The step changes no call but that of i.
Only(i) ==
  /\ call' \in [Indexer -> Call]
  /\ \A j \in Indexer : j # i => call'[j] = call[j]

CallInv == \A i \in Indexer : Knows(call[i])

Inv == TypeOK /\ LockInv /\ MarkerIsWhole /\ CallInv

LEMMA NoCallFields ==
  \A c \in Content : /\ NoCall(c) \in Call
                    /\ NoCall(c).at = "idle" /\ NoCall(c).status = "none"
                    /\ NoCall(c).result = NoResult
                    /\ NoCall(c).content = c /\ NoCall(c).want = Gone
BY DEF NoCall, Call, Pc, Status

LEMMA InitInv == Init => Inv
<1> SUFFICES ASSUME Init PROVE Inv
  OBVIOUS
<1>1. input \in Content /\ \A i \in Indexer : call[i] = NoCall(input)
  BY DEF Init
<1>2. TypeOK
  <2>1. call \in [Indexer -> Call]
    BY DEF Init, NoCall, Call, Pc, Status
  <2>2. \A i \in Indexer : call[i].at = "idle"
    BY <1>1, NoCallFields
  <2>3. release \in Version
    <3>1. release = 1
      BY DEF Init
    <3> QED BY <3>1, BoundAssumption DEF Version
  <2>4. marker \in [Op -> Structure \cup {NoMarker}]
    BY DEF Init
  <2> QED BY <2>1, <2>2, <2>3, <2>4, BoundAssumption DEF Init, TypeOK
<1>3. LockInv /\ MarkerIsWhole
  BY <1>1, NoCallFields, ProcessAssumption
     DEF Init, LockInv, MarkerIsWhole, Locked, Process
<1>4. CallInv
  BY <1>1, NoCallFields DEF CallInv, Knows
<1> QED BY <1>2, <1>3, <1>4 DEF Inv

-----------------------------------------------------------------------------
\* The fields of a call that is given another step, or an answer.
LEMMA CallFields ==
  ASSUME TypeOK, NEW i \in Indexer
  PROVE  /\ call[i] \in Call /\ call[i].content \in Content
         /\ call[i].want \in Version \cup {Gone} /\ call[i].pinned \in Version \cup {Gone}
         /\ call[i].result \in Structure \cup {NoResult} /\ call[i].at \in Pc
         /\ call[i].at \notin {"idle", "pin", "done"} =>
              call[i].pinned \in Version /\ OpOf(i) \in Op
         /\ Fingerprint \in Version \cup {Gone}
BY DEF TypeOK, Call, OpOf, Op, Fingerprint

\* The invariant of what a step leaves as it was.
LEMMA Unchanged ==
  ASSUME Inv, UNCHANGED vars
  PROVE  Inv'
BY DEF Inv, TypeOK, LockInv, MarkerIsWhole, CallInv, Knows, AsAsked, vars, world, store

\* A call that goes on alone, without the lock, and leaves the files as they are.
LEMMA CallStep ==
  ASSUME Inv, NEW i \in Indexer, Only(i), Knows(call'[i]),
         call[i].at \notin Locked, call'[i].at \notin Locked,
         call'[i].at \notin {"idle", "pin", "done"} => call'[i].pinned \in Version,
         UNCHANGED <<world, store, lock, collecting>>, calls' \in 0..MaxCalls
  PROVE  Inv'
<1> USE DEF Inv
<1>1. /\ call' \in [Indexer -> Call]
      /\ \A j \in Indexer : j # i => call'[j] = call[j]
  BY DEF Only
<1>2. /\ release' = release /\ readable' = readable /\ input' = input
      /\ snapshots' = snapshots /\ marker' = marker /\ lock' = lock
      /\ collecting' = collecting
  BY DEF world, store
<1>3. TypeOK'
  BY <1>1, <1>2 DEF TypeOK
<1>4. LockInv'
  BY <1>1, <1>2 DEF LockInv
<1>5. MarkerIsWhole'
  BY <1>2 DEF MarkerIsWhole
<1>6. \A j \in Indexer : Knows(call'[j])
  BY <1>1 DEF CallInv
<1>7. CallInv'
  BY <1>2, <1>6 DEF CallInv, Knows, AsAsked
<1> QED BY <1>3, <1>4, <1>5, <1>7

\* A call that ends while it has the lock, and gives it back.
LEMMA ReleaseStep ==
  ASSUME Inv, NEW i \in Indexer, Only(i),
         call[i].at \in Locked, call'[i].at \in {"idle", "done"}, lock' = Nobody,
         UNCHANGED <<world, store, collecting, calls>>
  PROVE  Inv'
<1> USE DEF Inv
<1>1. /\ call' \in [Indexer -> Call]
      /\ \A j \in Indexer : j # i => call'[j] = call[j]
  BY DEF Only
<1>2. /\ release' = release /\ readable' = readable /\ input' = input
      /\ snapshots' = snapshots /\ marker' = marker
      /\ collecting' = collecting /\ calls' = calls
  BY DEF world, store
<1>3. TypeOK'
  BY <1>1, <1>2 DEF TypeOK
<1>4. LockInv'
  BY <1>1, <1>2, ProcessAssumption DEF LockInv, Locked, Process
<1>5. MarkerIsWhole'
  BY <1>2 DEF MarkerIsWhole
<1>6. \A j \in Indexer : j # i => Knows(call'[j])
  BY <1>1 DEF CallInv
<1>7. CallInv'
  BY <1>1, <1>2, <1>6 DEF CallInv, Knows, AsAsked
<1> QED BY <1>3, <1>4, <1>5, <1>7

LEMMA AnswersOnly ==
  ASSUME TypeOK, NEW i \in Indexer, NEW s \in Status, NEW r \in Structure \cup {NoResult},
         Answers(i, s, r)
  PROVE  /\ Only(i) /\ call'[i].at = "done" /\ call'[i].status = s /\ call'[i].result = r
         /\ call'[i].content = call[i].content /\ call'[i].want = call[i].want
<1>1. call \in [Indexer -> Call] /\ call[i] \in Call
  BY DEF TypeOK
<1>2. "done" \in Pc
  BY DEF Pc
<1> QED BY <1>1, <1>2 DEF Answers, Only, Call

\* The steps that take no lock and touch no file.
LEMMA LookStep ==
  ASSUME Inv, NEW i \in Indexer,
         \/ \E c \in Content : Ask(i, c)
         \/ Pin(i) \/ Stage(i) \/ Look(i) \/ Hit(i) \/ Start(i) \/ Run(i) \/ Judge(i) \/ Fails(i)
  PROVE  Inv'
<1>0. /\ TypeOK /\ Knows(call[i]) /\ call \in [Indexer -> Call]
  BY DEF Inv, CallInv, TypeOK
<1> DEFINE new == call'[i]
<1> USE <1>0, CallFields
<1>1. ASSUME NEW c \in Content, Ask(i, c) PROVE Inv'
  <2>1. Only(i) /\ new.at \in {"pin", "done"} /\ new.result = NoResult
        /\ (new.at = "pin" => new.status = "none")
    BY <1>1 DEF Ask, NoCall, Only, Call, Pc, Status
  <2>2. Knows(new)
    BY <2>1 DEF Knows
  <2>3. UNCHANGED <<world, store, lock, collecting>> /\ call[i].at \notin Locked
    BY <1>1 DEF Ask, Locked
  <2>4. calls' \in 0..MaxCalls
    <3>1. calls \in 0..MaxCalls /\ calls < MaxCalls /\ calls' = calls + 1
      BY <1>1 DEF Ask, TypeOK
    <3> QED BY <3>1, BoundAssumption
  <2>5. new.at \notin Locked /\ (new.at \notin {"idle", "pin", "done"} => new.pinned \in Version)
    BY <2>1 DEF Locked
  <2> QED BY <2>1, <2>2, <2>3, <2>4, <2>5, CallStep
<1>2. ASSUME Pin(i) PROVE Inv'
  <2>1. Only(i) /\ new.at \in {"stage", "done"} /\ new.content = call[i].content
        /\ (new.at = "stage" => /\ new.status = "none" /\ new.want = new.pinned
                                /\ new.pinned \in Version)
    BY <1>2 DEF Pin, Knows, Only, Call, Pc, Status
  <2>2. Knows(new)
    BY <2>1 DEF Knows
  <2> QED BY <1>2, <2>1, <2>2, CallStep DEF Pin, Locked, TypeOK
<1>3. ASSUME Stage(i) PROVE Inv'
  <2>1. Only(i) /\ new.at \in {"look", "done"} /\ new.content = call[i].content
        /\ new.pinned = call[i].pinned /\ new.want = call[i].want
        /\ (new.at = "look" => new.status = call[i].status)
    BY <1>3 DEF Stage, Goes, Answers, Only, Call, Pc, Status
  <2>2. Knows(new) /\ (new.at = "look" => new.pinned \in Version)
    BY <1>3, <2>1 DEF Stage, Knows
  <2> QED BY <1>3, <2>1, <2>2, CallStep DEF Stage, Locked, TypeOK
<1>4. ASSUME Look(i) PROVE Inv'
  <2>1. Only(i) /\ new.at \in {"start", "hit"} /\ new.content = call[i].content
        /\ new.pinned = call[i].pinned /\ new.want = call[i].want
        /\ new.status = call[i].status
        /\ (new.at = "hit" => marker[OpOf(i)] # NoMarker /\ new.result = marker[OpOf(i)])
    BY <1>4 DEF Look, Goes, TypeOK, Only, Call, Pc, Status
  <2>2. Knows(new) /\ new.pinned \in Version
    BY <1>4, <2>1 DEF Look, Knows, OpOf
  <2> QED BY <1>4, <2>1, <2>2, CallStep DEF Look, Locked, TypeOK
<1>5. ASSUME Hit(i) PROVE Inv'
  <2>1. Only(i) /\ new.at = "done"
    BY <1>5 DEF Hit, Answers, Only, Call, Pc, Status
  <2> QED BY <1>5, <2>1, CallStep DEF Hit, Locked, TypeOK, Knows
<1>6. ASSUME Start(i) PROVE Inv'
  <2>1. Only(i) /\ new.at \in {"run", "done"} /\ new.content = call[i].content
        /\ new.pinned = call[i].pinned /\ new.want = call[i].want
        /\ (new.at = "run" => new.status = call[i].status /\ Fingerprint = call[i].pinned)
    BY <1>6 DEF Start, Goes, Answers, Only, Call, Pc, Status
  <2>2. new.at = "run" => new.pinned \in Version /\ new.pinned <= release
    BY <1>6, <2>1 DEF Start, Fingerprint, Version, Gone, TypeOK, Knows
  <2>3. Knows(new)
    BY <1>6, <2>1, <2>2 DEF Start, Knows
  <2> QED BY <1>6, <2>1, <2>2, <2>3, CallStep DEF Start, Locked, TypeOK
<1>7. ASSUME Run(i) PROVE Inv'
  <2>1. PICK d \in Draw : call' = [call EXCEPT ![i].at = "judge", ![i].result =
                  [by |-> release, of |-> call[i].content, draw |-> d]]
    BY <1>7 DEF Run
  <2>0. call[i].at = "run" /\ UNCHANGED <<world, store, lock, collecting, calls>>
    BY <1>7 DEF Run
  <2> DEFINE made == [by |-> release, of |-> call[i].content, draw |-> d]
  <2>2. made \in Structure /\ made.of = call[i].content /\ made.by = release
    BY DEF Structure, TypeOK
  <2> HIDE DEF made
  <2>3. Only(i) /\ new.at = "judge" /\ new.content = call[i].content /\ new.result = made
        /\ new.pinned = call[i].pinned /\ new.want = call[i].want
        /\ new.status = call[i].status
    BY <2>1, <2>2 DEF made, Only, Call, Pc, Status
  <2>4. /\ call[i].status = "none" /\ call[i].pinned = call[i].want
        /\ call[i].want \in Version /\ call[i].pinned <= release /\ release <= release
    BY <2>0 DEF Knows, TypeOK, Version
  <2>5. Knows(new) /\ new.pinned \in Version
    BY <2>2, <2>3, <2>4 DEF Knows
  <2> QED BY <2>0, <2>3, <2>5, CallStep DEF Locked, TypeOK
<1>8. ASSUME Judge(i) PROVE Inv'
  <2>1. Only(i) /\ new.at \in {"wait", "done"} /\ new.content = call[i].content
        /\ new.pinned = call[i].pinned /\ new.want = call[i].want
        /\ (new.at = "wait" => /\ new.status = call[i].status /\ new.result = call[i].result
                               /\ Fingerprint = call[i].pinned)
    BY <1>8 DEF Judge, Goes, Answers, Only, Call, Pc, Status
  <2>2. new.at = "wait" => /\ call[i].result \in Structure /\ call[i].result.of = call[i].content
                           /\ call[i].pinned = call[i].want /\ call[i].want \in Version
                           /\ call[i].pinned <= call[i].result.by /\ call[i].result.by <= release
    BY <1>8 DEF Judge, Knows
  <2>3. new.at = "wait" => call[i].pinned = release
    BY <2>1, <2>2 DEF Fingerprint, Version, Gone
  <2>4. new.at = "wait" => call[i].result.by = release
    <3>1. new.at = "wait" => call[i].result.by \in Version
      BY <2>2 DEF Structure
    <3>2. release \in Version
      BY DEF TypeOK
    <3> QED BY <3>1, <3>2, <2>2, <2>3 DEF Version
  <2>5. Knows(new) /\ (new.at = "wait" => new.pinned \in Version)
    <3>1. new.at = "wait" => call[i].status = "none"
      BY <1>8 DEF Knows, Judge
    <3> QED BY <3>1, <2>1, <2>2, <2>3, <2>4 DEF Knows, AsAsked
  <2> QED BY <1>8, <2>1, <2>5, CallStep DEF Judge, Locked, TypeOK
<1>9. ASSUME Fails(i) PROVE Inv'
  <2>1. Only(i) /\ new.at = "done"
    BY <1>9, AnswersOnly DEF Fails, Status
  <2>2. Knows(new)
    BY <2>1 DEF Knows
  <2>3. call[i].at \notin Locked /\ UNCHANGED <<world, store, lock, collecting, calls>>
    BY <1>9 DEF Fails, Locked
  <2> QED BY <2>1, <2>2, <2>3, CallStep DEF Locked, TypeOK
<1> QED BY <1>1, <1>2, <1>3, <1>4, <1>5, <1>6, <1>7, <1>8, <1>9

-----------------------------------------------------------------------------
\* The steps under the lock.
LEMMA PublishStep ==
  ASSUME Inv, NEW i \in Indexer, Acquire(i) \/ LinkSource(i) \/ LinkMarker(i)
  PROVE  Inv'
<1> DEFINE new == call'[i]
<1>0. /\ TypeOK /\ LockInv /\ MarkerIsWhole /\ CallInv /\ Knows(call[i])
      /\ call \in [Indexer -> Call]
  BY DEF Inv, CallInv, TypeOK
<1>1. /\ Only(i) /\ new.content = call[i].content /\ new.pinned = call[i].pinned
      /\ new.want = call[i].want /\ new.status = call[i].status /\ new.result = call[i].result
  BY <1>0, CallFields DEF Acquire, LinkSource, LinkMarker, Goes, Only, Call, Pc
<1>2. /\ call[i].at \in {"wait", "link_source", "link_marker"}
      /\ OpOf(i) \in Op /\ AsAsked(call[i]) /\ call[i].status = "none"
      /\ call[i].pinned = call[i].want /\ call[i].want \in Version
  BY <1>0, CallFields DEF Acquire, LinkSource, LinkMarker, Knows
<1>3. ASSUME Acquire(i) PROVE Inv'
  <2>1. /\ call[i].at = "wait" /\ new.at = "link_source" /\ lock = Nobody /\ lock' = i
        /\ UNCHANGED <<world, store, collecting, calls>>
    BY <1>0, <1>3 DEF Acquire, Goes
  <2>2. TypeOK'
    BY <1>0, <1>1, <1>2, <2>1 DEF TypeOK, Only, world, store, Process
  <2>3. LockInv'
    BY <1>0, <1>1, <2>1, ProcessAssumption DEF LockInv, Only, Locked, Process
  <2>4. MarkerIsWhole'
    BY <1>0, <2>1 DEF MarkerIsWhole, store
  <2>5. CallInv'
    BY <1>0, <1>1, <1>2, <2>1 DEF CallInv, Knows, AsAsked, Only, world, store
  <2> QED BY <2>2, <2>3, <2>4, <2>5 DEF Inv
<1>4. ASSUME LinkSource(i) PROVE Inv'
  <2>1. /\ call[i].at = "link_source" /\ new.at = "link_marker"
        /\ snapshots' = snapshots \cup {OpOf(i)}
        /\ UNCHANGED <<world, marker, lock, collecting, calls>>
    BY <1>0, <1>4 DEF LinkSource, Goes
  <2>2. TypeOK'
    BY <1>0, <1>1, <1>2, <2>1 DEF TypeOK, Only, world
  <2>3. LockInv'
    BY <1>0, <1>1, <2>1 DEF LockInv, Only, Locked
  <2>4. MarkerIsWhole'
    BY <1>0, <2>1 DEF MarkerIsWhole
  <2>5. CallInv'
    BY <1>0, <1>1, <1>2, <2>1 DEF CallInv, Knows, AsAsked, Only, world, OpOf
  <2> QED BY <2>2, <2>3, <2>4, <2>5 DEF Inv
<1>5. ASSUME LinkMarker(i) PROVE Inv'
  <2>1. /\ call[i].at = "link_marker" /\ new.at = "reload"
        /\ marker' = [marker EXCEPT ![OpOf(i)] = IF @ = NoMarker THEN call[i].result ELSE @]
        /\ UNCHANGED <<world, snapshots, lock, collecting, calls>>
    BY <1>0, <1>5 DEF LinkMarker, Goes
  <2>2. /\ marker' \in [Op -> Structure \cup {NoMarker}] /\ marker'[OpOf(i)] # NoMarker
        /\ \A op \in Op : /\ marker[op] # NoMarker => marker'[op] = marker[op]
                          /\ marker'[op] # NoMarker => marker[op] # NoMarker \/ op = OpOf(i)
    BY <1>0, <1>2, <2>1, NullAssumption DEF TypeOK, AsAsked
  <2>3. OpOf(i) \in snapshots
    BY <1>0, <2>1 DEF Knows, OpOf
  <2>4. TypeOK'
    BY <1>0, <1>1, <1>2, <2>1, <2>2 DEF TypeOK, Only, world
  <2>5. LockInv'
    BY <1>0, <1>1, <2>1 DEF LockInv, Only, Locked
  <2>6. MarkerIsWhole'
    BY <1>0, <2>1, <2>2, <2>3 DEF MarkerIsWhole
  <2>7. Knows(call[i])'
    BY <1>1, <1>2, <2>1, <2>2 DEF Knows, OpOf
  <2>8. ASSUME NEW j \in Indexer, j # i PROVE Knows(call[j])'
    <3>1. call'[j] = call[j] /\ Knows(call[j])
      BY <1>0, <1>1, <2>8 DEF CallInv, Only
    <3>2. call[j].at \notin {"idle", "pin", "done"} => OpOf(j) \in Op
      BY <1>0, CallFields
    <3>3. call[j].at \in {"hit", "reload"} =>
             marker[OpOf(j)] # NoMarker /\ marker'[OpOf(j)] = marker[OpOf(j)]
      BY <2>2, <3>1, <3>2 DEF Knows, OpOf
    <3>4. release' = release /\ snapshots' = snapshots
      BY <2>1 DEF world
    <3> QED BY <3>1, <3>3, <3>4 DEF Knows, AsAsked, OpOf
  <2>9. CallInv'
    BY <2>7, <2>8 DEF CallInv
  <2> QED BY <2>4, <2>5, <2>6, <2>9 DEF Inv
<1> QED BY <1>3, <1>4, <1>5

LEMMA EndStep ==
  ASSUME Inv, NEW i \in Indexer, Reload(i) \/ PersistFails(i) \/ Die(i)
  PROVE  Inv'
<1>0. TypeOK /\ LockInv /\ call \in [Indexer -> Call] /\ call[i].content \in Content
  BY CallFields DEF Inv, TypeOK
<1>1. ASSUME Reload(i) PROVE Inv'
  <2>1. /\ call[i].at = "reload" /\ lock' = Nobody /\ UNCHANGED <<world, store, collecting, calls>>
    BY <1>1 DEF Reload
  <2>2. \E s \in Status, r \in Structure \cup {NoResult} : Answers(i, s, r)
    <3>1. marker[OpOf(i)] \in Structure \cup {NoMarker}
      BY <1>0, <2>1, CallFields DEF TypeOK
    <3> QED BY <1>1, <3>1 DEF Reload, Status
  <2> QED BY <1>0, <2>1, <2>2, AnswersOnly, ReleaseStep DEF Locked
<1>2. ASSUME PersistFails(i) PROVE Inv'
  <2>1. /\ call[i].at \in Locked /\ lock' = Nobody /\ Answers(i, "failed", NoResult)
        /\ UNCHANGED <<world, store, collecting, calls>>
    BY <1>2 DEF PersistFails
  <2> QED BY <1>0, <2>1, AnswersOnly, ReleaseStep DEF Status
<1>3. ASSUME Die(i) PROVE Inv'
  <2>1. Only(i) /\ call'[i] = NoCall(call[i].content)
    BY <1>0, <1>3, NoCallFields DEF Die, Only
  <2>2. call'[i].at = "idle" /\ Knows(call'[i])
    BY <1>0, <2>1, NoCallFields DEF Knows
  <2>3. UNCHANGED <<world, store, collecting, calls>>
        /\ lock' = IF lock = i THEN Nobody ELSE lock
    BY <1>3 DEF Die
  <2>4. CASE call[i].at \in Locked
    BY <1>0, <2>1, <2>2, <2>3, <2>4, ReleaseStep DEF LockInv
  <2>5. CASE call[i].at \notin Locked
    BY <1>0, <2>1, <2>2, <2>3, <2>5, CallStep DEF LockInv, Locked, TypeOK
  <2> QED BY <2>4, <2>5
<1> QED BY <1>1, <1>2, <1>3

\* The collectors, and what happens to the program and to the source.
LEMMA AroundStep ==
  ASSUME Inv, \/ \E k \in Collector : BeginCollect(k) \/ Collect(k) \/ EndCollect(k)
              \/ Upgrade \/ Unread \/ Edit
  PROVE  Inv'
<1> USE DEF Inv
<1>1. ASSUME NEW k \in Collector, BeginCollect(k) PROVE Inv'
  <2>1. TypeOK' /\ MarkerIsWhole'
    BY <1>1 DEF BeginCollect, TypeOK, MarkerIsWhole, world, store, Process
  <2>2. LockInv'
    BY <1>1, ProcessAssumption DEF BeginCollect, LockInv, TypeOK, Process
  <2>3. CallInv'
    BY <1>1 DEF BeginCollect, CallInv, Knows, AsAsked, world, store
  <2> QED BY <2>1, <2>2, <2>3
<1>2. ASSUME NEW k \in Collector, Collect(k) PROVE Inv'
  <2>1. PICK op \in snapshots : marker[op] = NoMarker /\ snapshots' = snapshots \ {op}
    BY <1>2 DEF Collect
  <2>2. /\ k \in collecting
        /\ UNCHANGED <<world, marker, lock, call, collecting, calls>>
    BY <1>2 DEF Collect
  <2>3. TypeOK' /\ MarkerIsWhole' /\ LockInv'
    BY <2>1, <2>2 DEF TypeOK, MarkerIsWhole, LockInv, world
  <2>4. \A i \in Indexer : call[i].at \notin Locked
    BY <2>2, ProcessAssumption DEF LockInv, TypeOK
  <2>5. CallInv'
    BY <2>2, <2>4 DEF CallInv, Knows, AsAsked, world, Locked
  <2> QED BY <2>3, <2>5
<1>3. ASSUME NEW k \in Collector, EndCollect(k) PROVE Inv'
  <2>1. TypeOK' /\ MarkerIsWhole'
    BY <1>3 DEF EndCollect, TypeOK, MarkerIsWhole, world, store
  <2>2. LockInv'
    BY <1>3, ProcessAssumption DEF EndCollect, LockInv, TypeOK, Process
  <2>3. CallInv'
    BY <1>3 DEF EndCollect, CallInv, Knows, AsAsked, world, store
  <2> QED BY <2>1, <2>2, <2>3
<1>4. ASSUME Upgrade PROVE Inv'
  <2>1. TypeOK'
    <3>1. release' \in Version
      BY <1>4, BoundAssumption DEF Upgrade, TypeOK, Version
    <3> QED BY <1>4, <3>1 DEF Upgrade, TypeOK, store
  <2>2. LockInv' /\ MarkerIsWhole'
    BY <1>4 DEF Upgrade, LockInv, MarkerIsWhole, store
  <2>3. \A n \in Version : n <= release => n <= release'
    BY <1>4, BoundAssumption DEF Upgrade, TypeOK, Version
  <2>4. marker' = marker /\ snapshots' = snapshots /\ call' = call
    BY <1>4 DEF Upgrade, store
  <2>5. ASSUME NEW i \in Indexer PROVE Knows(call[i])'
    <3>1. Knows(call[i])
      BY DEF CallInv
    <3>2. call[i].at \in {"run", "judge"} => call[i].pinned <= release'
      BY <2>3, <3>1 DEF Knows, TypeOK
    <3>3. call[i].at = "judge" => call[i].result.by <= release'
      <4>1. call[i].at = "judge" => call[i].result.by \in Version
        BY <3>1 DEF Knows, Structure
      <4> QED BY <2>3, <3>1, <4>1 DEF Knows
    <3> QED BY <2>4, <3>1, <3>2, <3>3 DEF Knows, AsAsked
  <2> QED BY <2>1, <2>2, <2>5 DEF CallInv
<1>5. ASSUME Unread \/ Edit PROVE Inv'
  BY <1>5 DEF Unread, Edit, TypeOK, LockInv, MarkerIsWhole, CallInv, Knows, AsAsked, store
<1> QED BY <1>1, <1>2, <1>3, <1>4, <1>5

LEMMA InvStep == Inv /\ [Next]_vars => Inv'
BY Unchanged, LookStep, PublishStep, EndStep, AroundStep DEF Next, Proceed

-----------------------------------------------------------------------------
LEMMA InvCorrect == Spec => []Inv
BY InitInv, InvStep, PTL DEF Spec

\* Every variable has its type, for every number of indexers, releases and calls.
THEOREM TypeCorrect == Spec => []TypeOK
<1>1. Inv => TypeOK
  BY DEF Inv
<1> QED BY <1>1, InvCorrect, PTL

\* A marker always has its snapshot, beside collectors that remove snapshots of any
\* age and whoever dies between the two links (PageIndexArtifactStore).
THEOREM MarkerIsWholeCorrect == Spec => []MarkerIsWhole
<1>1. Inv => MarkerIsWhole
  BY DEF Inv
<1> QED BY <1>1, InvCorrect, PTL

-----------------------------------------------------------------------------
(* The refinement *)

Committed == [op \in Op |-> IF marker[op] = NoMarker THEN NoResult ELSE marker[op]]
Requests  == [i \in Indexer |-> Asked(i)]

LEMMA SameNames ==
  /\ Index!Op = Op /\ Index!Version = Version /\ Index!Gone = Gone
  /\ Index!Structure = Structure /\ Index!Fingerprint = Fingerprint
BY DEF Index!Op, Index!Version, Index!Gone, Index!Structure, Index!Fingerprint,
       Op, Version, Gone, Structure, Fingerprint

\* What the index sees of a call that a step leaves alone, and of the one it moves.
LEMMA AskedOnly ==
  ASSUME TypeOK, NEW i \in Indexer, Only(i)
  PROVE  Requests' = [Requests EXCEPT ![i] = Asked(i)']
BY DEF Only, Asked, Requests

\* A call that is under way is a request that is.
LEMMA AskedNow ==
  ASSUME NEW i \in Indexer
  PROVE  /\ Requests[i].content = call[i].content /\ Requests[i].want = call[i].want
         /\ Requests[i].status = call[i].status
         /\ call[i].at \notin {"idle", "done"} =>
              Requests[i].at = "asked" /\ Requests[i].result = NoResult
BY DEF Requests, Asked

\* The actions of the index over what it sees of the calls and of the markers.
Kept == release' = release /\ readable' = readable /\ input' = input

\* An answer given to a request, and its place among the requests.
Reply(x, s, r) == [x EXCEPT !.at = "answered", !.status = s, !.result = r]

ReplyTo(f, i, s, r) ==
  [f EXCEPT ![i].at = "answered", ![i].status = s, ![i].result = r]

Answered(i, s, r) == Requests' = ReplyTo(Requests, i, s, r)

LEMMA IndexRefuse ==
  ASSUME NEW i \in Indexer, Requests[i].at = "asked",
         NEW s \in {"blocked", "failed"}, Answered(i, s, NoResult),
         Kept, Committed' = Committed
  PROVE  Index!Refuse(i)
BY DEF Index!Refuse, Index!Reply, Index!provider, Answered, ReplyTo, Requests,
       Committed, Kept

LEMMA IndexSucceed ==
  ASSUME NEW i \in Indexer, Requests[i].at = "asked",
         Committed[<<Requests[i].content, Requests[i].want>>] # NoResult,
         Answered(i, "success", Committed[<<Requests[i].content, Requests[i].want>>]),
         Kept, Committed' = Committed
  PROVE  Index!Succeed(i)
BY DEF Index!Succeed, Index!OpAsked, Index!Reply, Index!provider, Answered, ReplyTo, Requests,
       Committed, Kept

LEMMA IndexVanish ==
  ASSUME NEW i \in Indexer,
         Requests' = [Requests EXCEPT ![i] = Index!NoRequest(Requests[i].content)], Kept,
         Committed' = Committed
  PROVE  Index!Vanish(i)
BY DEF Index!Vanish, Index!provider, Requests, Committed, Kept

LEMMA IndexCommit ==
  ASSUME NEW i \in Indexer, Requests[i].at = "asked",
         Committed[<<Requests[i].content, Requests[i].want>>] = NoResult,
         NEW d \in Draw,
         Committed' = [Committed EXCEPT ![<<Requests[i].content, Requests[i].want>>] =
           [by |-> Requests[i].want, of |-> Requests[i].content, draw |-> d]],
         Kept, Requests' = Requests
  PROVE  Index!Commit(i)
BY DEF Index!Commit, Index!OpAsked, Index!provider, Requests, Committed, Kept

LEMMA IndexStutter ==
  ASSUME Kept, Requests' = Requests, Committed' = Committed
  PROVE  UNCHANGED Index!indexVars
BY DEF Index!indexVars, Index!provider, Requests, Committed, Kept

LEMMA EditRequest ==
  ASSUME NEW x \in Index!Request, NEW y \in Index!Request,
         NEW s \in Status, NEW r \in Structure \cup {NoResult},
         y.at = "answered", y.status = s, y.result = r,
         y.content = x.content, y.want = x.want
  PROVE  y = Reply(x, s, r)
<1> DEFINE x1 == [x EXCEPT !.at = "answered"]
           x2 == [x1 EXCEPT !.status = s]
           x3 == [x2 EXCEPT !.result = r]
<1> USE SameNames DEF Index!Request, Index!RequestStatus, Status
<1>1. /\ x1 \in Index!Request /\ x1.at = "answered"
      /\ x1.content = x.content /\ x1.want = x.want
  OBVIOUS
<1> HIDE DEF x1
<1>2. /\ x2 \in Index!Request /\ x2.at = "answered" /\ x2.status = s
      /\ x2.content = x.content /\ x2.want = x.want
  BY <1>1
<1> HIDE DEF x2
<1>3. /\ x3 \in Index!Request /\ x3.at = "answered" /\ x3.status = s /\ x3.result = r
      /\ x3.content = x.content /\ x3.want = x.want
  BY <1>2
<1> HIDE DEF x3
<1>4. y = x3
  BY <1>3
<1> QED BY <1>4, Zenon DEF x1, x2, x3, Reply

LEMMA EditFunction ==
  ASSUME NEW S, NEW T, NEW f \in [S -> T], NEW i \in S, NEW s, NEW r
  PROVE  ReplyTo(f, i, s, r) = [f EXCEPT ![i] = Reply(f[i], s, r)]
BY Zenon DEF Reply, ReplyTo

LEMMA AskedType ==
  ASSUME NEW i \in Indexer, call[i] \in Call
  PROVE  Asked(i) \in Index!Request
BY SameNames DEF Asked, Index!Request, Index!RequestStatus, Call, Status

\* A call that ends with an answer answers its request.
LEMMA AnswerMap ==
  ASSUME TypeOK, NEW i \in Indexer, Only(i), call[i].at \notin {"idle", "done"},
         NEW s \in Status, NEW r \in Structure \cup {NoResult},
         call'[i].at = "done", call'[i].status = s, call'[i].result = r,
         call'[i].content = call[i].content, call'[i].want = call[i].want
  PROVE  Requests[i].at = "asked" /\ Answered(i, s, r)
<1>1. /\ call[i] \in Call /\ call'[i] \in Call
      /\ Requests \in [Indexer -> Index!Request]
  BY AskedType DEF TypeOK, Only, Requests
<1>2. Asked(i)' \in Index!Request
  BY <1>1, AskedType, SameNames
     DEF Asked, Index!Request, Index!RequestStatus, Call, Status
<1>3. /\ (Asked(i)').at = "answered" /\ (Asked(i)').status = s /\ (Asked(i)').result = r
      /\ (Asked(i)').content = call[i].content /\ (Asked(i)').want = call[i].want
  BY DEF Asked
<1>4. Requests[i] \in Index!Request /\ Requests[i].at = "asked"
      /\ Requests[i].content = call[i].content /\ Requests[i].want = call[i].want
  BY <1>1, AskedNow
<1>5. PICK x, y : x = Requests[i] /\ y = Asked(i)'
  OBVIOUS
<1>6. y = Reply(x, s, r)
  BY <1>2, <1>3, <1>4, <1>5, EditRequest
<1>7. Requests' = [Requests EXCEPT ![i] = Reply(Requests[i], s, r)]
  BY <1>5, <1>6, AskedOnly
<1>8. Answered(i, s, r)
  BY <1>1, <1>7, EditFunction DEF Answered
<1> QED BY <1>4, <1>8

LEMMA RefuseMap ==
  ASSUME TypeOK, NEW i \in Indexer, Only(i), call[i].at \notin {"idle", "done"},
         call'[i].at = "done", call'[i].status \in {"blocked", "failed"},
         call'[i].result = NoResult, call'[i].content = call[i].content,
         call'[i].want = call[i].want, UNCHANGED <<world, marker>>
  PROVE  Index!Refuse(i)
<1>1. PICK s \in {"blocked", "failed"} : call'[i].status = s
  OBVIOUS
<1>2. Requests[i].at = "asked" /\ Answered(i, s, NoResult)
  BY <1>1, AnswerMap DEF Answered, Status
<1>3. Kept /\ Committed' = Committed
  BY DEF Committed, world, Kept
<1> QED BY <1>2, <1>3, IndexRefuse

\* A call that succeeds answers with what is committed under its name.
LEMMA SucceedMap ==
  ASSUME TypeOK, NEW i \in Indexer, Only(i), call[i].at \notin {"idle", "pin", "done"},
         call'[i].at = "done", call'[i].status = "success",
         call'[i].result = marker[OpOf(i)], marker[OpOf(i)] # NoMarker,
         call'[i].content = call[i].content, call'[i].want = call[i].want,
         call[i].pinned = call[i].want, UNCHANGED <<world, marker>>
  PROVE  Index!Succeed(i)
<1>1. OpOf(i) \in Op /\ marker[OpOf(i)] \in Structure
  BY CallFields DEF TypeOK
<1>2. OpOf(i) = <<Requests[i].content, Requests[i].want>>
  BY AskedNow DEF OpOf
<1>3. PICK op \in Op : op = OpOf(i)
  BY <1>1
<1>4. Committed[op] = marker[op] /\ marker[op] # NoResult
  BY <1>1, <1>3, NullAssumption DEF Committed
<1>5. PICK r \in Structure : r = marker[op]
  BY <1>1, <1>3
<1>6. Requests[i].at = "asked" /\ Answered(i, "success", r)
  BY <1>3, <1>5, AnswerMap DEF Answered, Status
<1>7. Kept /\ Committed' = Committed
  BY DEF Committed, world, Kept
<1> QED BY <1>2, <1>3, <1>4, <1>5, <1>6, <1>7, IndexSucceed DEF Answered

\* A step within a call that no client sees.
LEMMA InnerMap ==
  ASSUME TypeOK, NEW i \in Indexer, Only(i), call[i].at \notin {"idle", "done"},
         call'[i].at \notin {"idle", "done"}, call'[i].status = call[i].status,
         call'[i].content = call[i].content, call'[i].want = call[i].want
  PROVE  Requests' = Requests
<1>1. ASSUME NEW j \in Indexer PROVE Asked(j)' = Asked(j)
  <2>1. CASE j = i
    BY <2>1 DEF Asked
  <2>2. CASE j # i
    <3>1. call'[j] = call[j]
      BY <2>2 DEF Only
    <3> QED BY <3>1 DEF Asked
  <2> QED BY <2>1, <2>2
<1> QED BY <1>1 DEF Requests

LEMMA SameCommitted ==
  ASSUME UNCHANGED <<world, marker>>
  PROVE  Kept /\ Committed' = Committed
BY DEF Kept, Committed, world

LEMMA SameRequests ==
  ASSUME UNCHANGED call
  PROVE  Requests' = Requests
BY DEF Requests, Asked

-----------------------------------------------------------------------------
\* What each step of a call is to the index.
IndexStep == Index!IndexNext \/ UNCHANGED Index!indexVars

\* A step of a call under way: within it, to a refusal, or to what is committed.
Within(i)  == call'[i].at \notin {"idle", "done"} /\ call'[i].status = call[i].status
Refused(i) == /\ call'[i].at = "done" /\ call'[i].status \in {"blocked", "failed"}
              /\ call'[i].result = NoResult
Found(i)   == /\ call'[i].at = "done" /\ call'[i].status = "success"
              /\ call'[i].result = marker[OpOf(i)] /\ marker[OpOf(i)] # NoMarker
              /\ call[i].at # "pin" /\ call[i].pinned = call[i].want
Moves(i) ==
  /\ Only(i) /\ call[i].at \notin {"idle", "done"}
  /\ call'[i].content = call[i].content /\ call'[i].want = call[i].want
  /\ Within(i) \/ Refused(i) \/ Found(i)

LEMMA MovesMap ==
  ASSUME TypeOK, NEW i \in Indexer, Moves(i), UNCHANGED <<world, marker>>
  PROVE  \/ UNCHANGED Index!indexVars \/ Index!Succeed(i) \/ Index!Refuse(i)
<1>1. CASE Within(i)
  BY <1>1, InnerMap, SameCommitted, IndexStutter DEF Moves, Within
<1>2. CASE Refused(i)
  BY <1>2, RefuseMap DEF Moves, Refused
<1>3. CASE Found(i)
  BY <1>3, SucceedMap DEF Moves, Found
<1> QED BY <1>1, <1>2, <1>3 DEF Moves

LEMMA GoesMoves ==
  ASSUME TypeOK, NEW i \in Indexer, call[i].at \notin {"idle", "done"},
         NEW step \in Pc \ {"idle", "done"}, Goes(i, step)
  PROVE  Moves(i)
BY DEF TypeOK, Goes, Moves, Within, Only, Call

LEMMA RefusesMoves ==
  ASSUME TypeOK, NEW i \in Indexer, call[i].at \notin {"idle", "done"},
         NEW s \in {"blocked", "failed"}, Answers(i, s, NoResult)
  PROVE  Moves(i)
BY AnswersOnly DEF Moves, Refused, Status

LEMMA FindsMoves ==
  ASSUME Inv, NEW i \in Indexer, call[i].at \in {"hit", "reload"},
         marker[OpOf(i)] # NoMarker, Answers(i, "success", marker[OpOf(i)])
  PROVE  Moves(i)
<1>1. TypeOK /\ call[i].pinned = call[i].want
  BY DEF Inv, CallInv, Knows
<1>2. PICK r \in Structure : r = marker[OpOf(i)]
  BY <1>1, CallFields DEF TypeOK
<1> QED BY <1>1, <1>2, AnswersOnly DEF Moves, Found, Status

LEMMA LookMap ==
  ASSUME Inv, NEW i \in Indexer,
         Pin(i) \/ Stage(i) \/ Look(i) \/ Hit(i) \/ Start(i) \/ Run(i) \/ Judge(i) \/ Fails(i)
  PROVE  \/ UNCHANGED Index!indexVars \/ Index!Succeed(i) \/ Index!Refuse(i)
<1>0. TypeOK /\ Knows(call[i]) /\ call \in [Indexer -> Call]
  BY DEF Inv, CallInv, TypeOK
<1>1. UNCHANGED <<world, marker>>
  BY DEF Pin, Stage, Look, Hit, Start, Run, Judge, Fails, store
<1>2. ASSUME Pin(i) PROVE Moves(i)
  BY <1>0, <1>2, CallFields
     DEF Pin, Knows, Moves, Within, Refused, Only, Call, Pc, Status
<1>3. ASSUME Stage(i) PROVE Moves(i)
  BY <1>0, <1>3, GoesMoves, RefusesMoves DEF Stage, Pc
<1>4. ASSUME Look(i) PROVE Moves(i)
  <2>1. CASE marker[OpOf(i)] = NoMarker
    BY <1>0, <1>4, <2>1, GoesMoves DEF Look, Pc
  <2>2. CASE marker[OpOf(i)] # NoMarker
    BY <1>0, <1>4, <2>2, CallFields DEF Look, TypeOK, Moves, Within, Only, Call, Pc
  <2> QED BY <2>1, <2>2
<1>5. ASSUME Hit(i) PROVE Moves(i)
  <2>1. /\ call[i].at = "hit" /\ call[i].result = marker[OpOf(i)]
        /\ marker[OpOf(i)] # NoMarker
    BY <1>0, <1>5 DEF Hit, Knows, OpOf
  <2> QED BY <1>0, <1>5, <2>1, RefusesMoves, FindsMoves DEF Hit
<1>6. ASSUME Start(i) PROVE Moves(i)
  BY <1>0, <1>6, GoesMoves, RefusesMoves DEF Start, Pc
<1>7. ASSUME Run(i) PROVE Moves(i)
  <2>1. PICK d \in Draw : call' = [call EXCEPT ![i].at = "judge", ![i].result =
                  [by |-> release, of |-> call[i].content, draw |-> d]]
    BY <1>7 DEF Run
  <2> DEFINE made == [by |-> release, of |-> call[i].content, draw |-> d]
  <2>2. made \in Structure
    BY <1>0, CallFields DEF Structure, TypeOK
  <2> HIDE DEF made
  <2>3. call' = [call EXCEPT ![i].at = "judge", ![i].result = made]
    BY <2>1 DEF made
  <2>4. call[i].at = "run"
    BY <1>7 DEF Run
  <2> DEFINE moved == [call[i] EXCEPT !.at = "judge"]
             ran   == [moved EXCEPT !.result = made]
  <2>5. moved \in Call /\ moved.at = "judge" /\ moved.status = call[i].status
        /\ moved.content = call[i].content /\ moved.want = call[i].want
    BY <1>0 DEF Call, Pc
  <2> HIDE DEF moved
  <2>6. ran \in Call /\ ran.at = "judge" /\ ran.status = call[i].status
        /\ ran.content = call[i].content /\ ran.want = call[i].want
    BY <2>2, <2>5 DEF Call
  <2>7. call' = [call EXCEPT ![i] = ran]
    BY <1>0, <2>3, Zenon DEF moved
  <2> HIDE DEF ran
  <2>8. Only(i) /\ call'[i] = ran
    BY <1>0, <2>6, <2>7 DEF Only
  <2> QED BY <2>4, <2>6, <2>8 DEF Moves, Within
<1>8. ASSUME Judge(i) PROVE Moves(i)
  BY <1>0, <1>8, GoesMoves, RefusesMoves DEF Judge, Pc
<1>9. ASSUME Fails(i) PROVE Moves(i)
  BY <1>0, <1>9, RefusesMoves DEF Fails
<1> QED BY <1>0, <1>1, <1>2, <1>3, <1>4, <1>5, <1>6, <1>7, <1>8, <1>9, MovesMap

LEMMA PublishMap ==
  ASSUME Inv, NEW i \in Indexer, Acquire(i) \/ LinkSource(i) \/ LinkMarker(i)
  PROVE  UNCHANGED Index!indexVars \/ Index!Commit(i)
<1>0. TypeOK /\ Knows(call[i])
  BY DEF Inv, CallInv
<1>1. \E step \in Pc \ {"idle", "done"} : Goes(i, step)
  BY DEF Acquire, LinkSource, LinkMarker, Pc
<1>2. call[i].at \notin {"idle", "done"} /\ UNCHANGED world
  BY DEF Acquire, LinkSource, LinkMarker
<1>3. Requests' = Requests /\ Kept
  <2>1. call'[i].at \notin {"idle", "done"} /\ call'[i].status = call[i].status
    BY <1>0, <1>1 DEF Goes, TypeOK, Call
  <2>2. Moves(i)
    BY <1>0, <1>1, <1>2, GoesMoves
  <2> QED BY <1>0, <1>2, <2>1, <2>2, InnerMap DEF Moves, Kept, world
<1>4. CASE UNCHANGED marker
  BY <1>2, <1>3, <1>4, SameCommitted, IndexStutter
<1>5. CASE ~UNCHANGED marker
  <2>1. /\ call[i].at = "link_marker"
        /\ marker' = [marker EXCEPT ![OpOf(i)] = IF @ = NoMarker THEN call[i].result ELSE @]
    BY <1>5 DEF Acquire, LinkSource, LinkMarker, store
  <2>2. OpOf(i) \in Op /\ AsAsked(call[i]) /\ call[i].pinned = call[i].want
        /\ marker \in [Op -> Structure \cup {NoMarker}]
    BY <1>0, <2>1, CallFields DEF Knows, TypeOK
  <2>3. marker[OpOf(i)] = NoMarker
    BY <1>5, <2>1, <2>2
  <2>4. PICK op \in Op : op = OpOf(i)
    BY <2>2
  <2>5. op = <<Requests[i].content, Requests[i].want>> /\ Requests[i].at = "asked"
    BY <1>2, <2>2, <2>4, AskedNow DEF OpOf
  <2>6. PICK r \in Structure : r = call[i].result
    BY <2>2 DEF AsAsked
  <2>7. r.of = Requests[i].content /\ r.by = Requests[i].want
    BY <2>2, <2>6, AskedNow DEF AsAsked
  <2>8. r.draw \in Draw /\ r = [by |-> Requests[i].want, of |-> Requests[i].content,
                                draw |-> r.draw]
    BY <2>6, <2>7 DEF Structure
  <2>9. marker' = [marker EXCEPT ![op] = r]
    BY <2>1, <2>2, <2>3, <2>4, <2>6
  <2>10. Committed[op] = NoResult
    BY <2>3, <2>4 DEF Committed
  <2>11. Committed' = [Committed EXCEPT ![op] = r]
    BY <2>2, <2>4, <2>6, <2>9, NullAssumption DEF Committed
  <2> QED BY <1>3, <2>5, <2>8, <2>10, <2>11, IndexCommit
<1> QED BY <1>4, <1>5

LEMMA ReloadMap ==
  ASSUME Inv, NEW i \in Indexer, Reload(i) \/ PersistFails(i)
  PROVE  \/ UNCHANGED Index!indexVars \/ Index!Succeed(i) \/ Index!Refuse(i)
<1>0. TypeOK /\ Knows(call[i])
  BY DEF Inv, CallInv
<1>1. UNCHANGED <<world, marker>>
  BY DEF Reload, PersistFails, store
<1>2. ASSUME Reload(i) PROVE Moves(i)
  <2>1. call[i].at = "reload" /\ marker[OpOf(i)] # NoMarker
    BY <1>0, <1>2 DEF Reload, Knows, OpOf
  <2> QED BY <1>0, <1>2, <2>1, RefusesMoves, FindsMoves DEF Reload
<1>3. ASSUME PersistFails(i) PROVE Moves(i)
  BY <1>0, <1>3, RefusesMoves DEF PersistFails, Locked
<1> QED BY <1>0, <1>1, <1>2, <1>3, MovesMap

-----------------------------------------------------------------------------
\* A call that is made, and one that dies.
Opened(x, a, w, s) == [x EXCEPT !.at = a, !.want = w, !.status = s]

LEMMA EmptyRequest ==
  ASSUME NEW c \in Content, NEW y \in Index!Request,
         y.at = "idle", y.content = c, y.want = Gone, y.status = "none", y.result = NoResult
  PROVE  y = Index!NoRequest(c)
<1> DEFINE x == Index!NoRequest(c)
<1> USE SameNames DEF Index!Request, Index!RequestStatus
<1>1. /\ x \in Index!Request /\ x.at = "idle" /\ x.content = c /\ x.want = Gone
      /\ x.status = "none" /\ x.result = NoResult
  BY DEF Index!NoRequest
<1> HIDE DEF x
<1>2. y = x
  BY <1>1
<1> QED BY <1>2 DEF x

LEMMA NoCallAsked ==
  ASSUME NEW i \in Indexer, NEW c \in Content, call[i] = NoCall(c)
  PROVE  Asked(i) = Index!NoRequest(c)
<1>1. PICK y : y = Asked(i)
  OBVIOUS
<1>2. y \in Index!Request
  BY <1>1, NoCallFields, AskedType
<1>3. /\ y.at = "idle" /\ y.content = c /\ y.want = Gone
      /\ y.status = "none" /\ y.result = NoResult
  BY <1>1, NoCallFields DEF Asked
<1> QED BY <1>1, <1>2, <1>3, EmptyRequest

LEMMA OpenRequest ==
  ASSUME NEW c \in Content, NEW y \in Index!Request,
         NEW a \in {"asked", "answered"}, NEW w \in Version \cup {Gone}, NEW s \in Status,
         y.at = a, y.want = w, y.status = s, y.content = c, y.result = NoResult
  PROVE  y = Opened(Index!NoRequest(c), a, w, s)
<1> DEFINE x0 == Index!NoRequest(c)
           x1 == [x0 EXCEPT !.at = a]
           x2 == [x1 EXCEPT !.want = w]
           x3 == [x2 EXCEPT !.status = s]
<1> USE SameNames DEF Index!Request, Index!RequestStatus, Status
<1>1. x0 \in Index!Request /\ x0.content = c /\ x0.result = NoResult
  BY DEF Index!NoRequest
<1> HIDE DEF x0
<1>2. x1 \in Index!Request /\ x1.at = a /\ x1.content = c /\ x1.result = NoResult
  BY <1>1
<1> HIDE DEF x1
<1>3. /\ x2 \in Index!Request /\ x2.at = a /\ x2.want = w
      /\ x2.content = c /\ x2.result = NoResult
  BY <1>2
<1> HIDE DEF x2
<1>4. /\ x3 \in Index!Request /\ x3.at = a /\ x3.want = w /\ x3.status = s
      /\ x3.content = c /\ x3.result = NoResult
  BY <1>3
<1> HIDE DEF x3
<1>5. y = x3
  BY <1>4
<1> QED BY <1>5, Zenon DEF x0, x1, x2, x3, Opened

LEMMA IndexAsk ==
  ASSUME NEW i \in Indexer, NEW c \in Content, Requests[i].at # "asked",
         Requests' = [Requests EXCEPT ![i] =
           Opened(Index!NoRequest(c), IF readable THEN "asked" ELSE "answered",
                  Fingerprint, IF readable THEN "none" ELSE "blocked")],
         Kept, Committed' = Committed
  PROVE  Index!Ask(i, c)
BY SameNames
   DEF Index!Ask, Index!provider, Opened, Requests, Committed, Kept

LEMMA AskMap ==
  ASSUME TypeOK, NEW i \in Indexer, NEW c \in Content, Ask(i, c)
  PROVE  Index!Ask(i, c)
<1>1. Kept /\ Committed' = Committed /\ call[i].at \in {"idle", "done"}
  BY SameCommitted DEF Ask, store
<1> DEFINE new == call'[i]
<1>2. /\ Only(i) /\ new.content = c /\ new.want = Fingerprint /\ new.result = NoResult
      /\ new.at = IF readable THEN "pin" ELSE "done"
      /\ new.status = IF readable THEN "none" ELSE "blocked"
  BY CallFields DEF Ask, NoCall, TypeOK, Only, Call, Pc, Status
<1>3. new \in Call
  BY <1>2 DEF Only
<1>4. PICK y : y = Asked(i)'
  OBVIOUS
<1>5. PICK a \in {"asked", "answered"}, w \in Version \cup {Gone}, s \in Status :
        /\ a = IF readable THEN "asked" ELSE "answered"
        /\ w = Fingerprint
        /\ s = IF readable THEN "none" ELSE "blocked"
  BY CallFields DEF Status
<1>6. y \in Index!Request
  BY <1>3, <1>4, SameNames DEF Asked, Index!Request, Index!RequestStatus, Call, Status
<1>7. y.at = a /\ y.want = w /\ y.status = s /\ y.content = c /\ y.result = NoResult
  BY <1>2, <1>4, <1>5 DEF Asked
<1>8. y = Opened(Index!NoRequest(c), a, w, s)
  BY <1>6, <1>7, OpenRequest
<1>9. Requests' = [Requests EXCEPT ![i] = Opened(Index!NoRequest(c), a, w, s)]
  BY <1>2, <1>4, <1>8, AskedOnly
<1>10. Requests[i].at # "asked"
  BY <1>1 DEF Requests, Asked
<1> QED BY <1>1, <1>5, <1>9, <1>10, IndexAsk

LEMMA DieMap ==
  ASSUME TypeOK, NEW i \in Indexer, Die(i)
  PROVE  Index!Vanish(i)
<1>1. Kept /\ Committed' = Committed
  BY SameCommitted DEF Die, store
<1>2. call' = [call EXCEPT ![i] = NoCall(call[i].content)] /\ call[i].content \in Content
  BY CallFields DEF Die
<1>3. Only(i) /\ call'[i] = NoCall(call[i].content)
  BY <1>2, NoCallFields DEF Only, TypeOK
<1>4. Asked(i)' = Index!NoRequest(call[i].content)
  <2>1. PICK y : y = Asked(i)'
    OBVIOUS
  <2>2. /\ call'[i] \in Call /\ call'[i].at = "idle" /\ call'[i].content = call[i].content
        /\ call'[i].want = Gone /\ call'[i].status = "none" /\ call'[i].result = NoResult
    BY <1>2, <1>3, NoCallFields
  <2>3. y \in Index!Request
    BY <2>1, <2>2, SameNames
       DEF Asked, Index!Request, Index!RequestStatus, Call, Status
  <2>4. /\ y.at = "idle" /\ y.content = call[i].content /\ y.want = Gone
        /\ y.status = "none" /\ y.result = NoResult
    BY <2>1, <2>2 DEF Asked
  <2> QED BY <1>2, <2>1, <2>3, <2>4, EmptyRequest
<1>5. Requests[i].content = call[i].content
  BY AskedNow
<1> QED BY <1>1, <1>3, <1>4, <1>5, AskedOnly, IndexVanish

LEMMA AroundMap ==
  ASSUME \/ \E k \in Collector : BeginCollect(k) \/ Collect(k) \/ EndCollect(k)
         \/ Upgrade \/ Unread \/ Edit
  PROVE  UNCHANGED Index!indexVars \/ Index!Upgrade \/ Index!Unread \/ Index!Edit
<1>1. call' = call /\ marker' = marker
  BY DEF BeginCollect, Collect, EndCollect, Upgrade, Unread, Edit, store
<1>2. Requests' = Requests /\ Committed' = Committed
  BY <1>1, SameRequests DEF Committed
<1>3. CASE \E k \in Collector : BeginCollect(k) \/ Collect(k) \/ EndCollect(k)
  BY <1>2, <1>3, IndexStutter DEF BeginCollect, Collect, EndCollect, world, Kept
<1>4. CASE Upgrade
  BY <1>2, <1>4 DEF Upgrade, Index!Upgrade, Requests, Committed
<1>5. CASE Unread
  BY <1>2, <1>5 DEF Unread, Index!Unread, Requests, Committed
<1>6. CASE Edit
  BY <1>2, <1>6 DEF Edit, Index!Edit, Index!provider, Requests, Committed
<1> QED BY <1>3, <1>4, <1>5, <1>6

LEMMA VarsMap ==
  ASSUME UNCHANGED vars
  PROVE  UNCHANGED Index!indexVars
BY SameCommitted, SameRequests, IndexStutter DEF vars, world, store

LEMMA InitMap == Init => Index!IndexInit
<1> SUFFICES ASSUME Init PROVE Index!IndexInit
  OBVIOUS
<1>1. input \in Content /\ \A i \in Indexer : call[i] = NoCall(input)
  BY DEF Init
<1>2. ASSUME NEW i \in Indexer PROVE Requests[i] = Index!NoRequest(input)
  BY <1>1, NoCallAsked DEF Requests
<1>3. Requests = [i \in Indexer |-> Index!NoRequest(input)]
  <2>1. Requests = [i \in Indexer |-> Requests[i]]
    BY DEF Requests
  <2> QED BY <1>2, <2>1
<1>4. Committed = [op \in Op |-> NoResult]
  BY DEF Init, Committed
<1> QED BY <1>3, <1>4, SameNames DEF Init, Index!IndexInit, Requests, Committed

LEMMA StepMap ==
  ASSUME Inv, [Next]_vars
  PROVE  [Index!IndexNext]_(Index!indexVars)
<1>1. TypeOK
  BY DEF Inv
<1>2. CASE UNCHANGED vars
  BY <1>2, VarsMap
<1>3. CASE \E i \in Indexer, c \in Content : Ask(i, c)
  BY <1>1, <1>3, AskMap DEF Index!IndexNext
<1>4. CASE \E i \in Indexer : \/ Pin(i) \/ Stage(i) \/ Look(i) \/ Hit(i) \/ Start(i)
                              \/ Run(i) \/ Judge(i) \/ Fails(i)
  BY <1>4, LookMap DEF Index!IndexNext
<1>5. CASE \E i \in Indexer : Acquire(i) \/ LinkSource(i) \/ LinkMarker(i)
  BY <1>5, PublishMap DEF Index!IndexNext
<1>6. CASE \E i \in Indexer : Reload(i) \/ PersistFails(i)
  BY <1>6, ReloadMap DEF Index!IndexNext
<1>7. CASE \E i \in Indexer : Die(i)
  BY <1>1, <1>7, DieMap DEF Index!IndexNext
<1>8. CASE \/ \E k \in Collector : BeginCollect(k) \/ Collect(k) \/ EndCollect(k)
           \/ Upgrade \/ Unread \/ Edit
  BY <1>8, AroundMap DEF Index!IndexNext
<1> QED BY <1>2, <1>3, <1>4, <1>5, <1>6, <1>7, <1>8 DEF Next, Proceed

\* The cache with its two links, its lock, its collectors and its deaths is a structure
\* index: a name has one structure for ever, of its content and its release, and
\* whoever asks for it and succeeds is answered with that one.
THEOREM ImplementsIndexCorrect == Spec => ImplementsIndex
<1>1. Init => Index!IndexInit
  BY InitMap
<1>2. Inv /\ [Next]_vars => [Index!IndexNext]_(Index!indexVars)
  BY StepMap
<1> QED BY <1>1, <1>2, InvCorrect, PTL DEF Spec, ImplementsIndex, Index!IndexSpec
=============================================================================
