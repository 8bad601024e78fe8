-------------------------- MODULE PageIndexArtifacts --------------------------
(***************************************************************************)
(* Indexing of documents by the external PageIndex program, and the cache   *)
(* of its results.  What a result is called is made of the content that was *)
(* indexed and the version of the program (its fingerprint).  A result is   *)
(* published in two steps, the snapshot of the source and then the marker   *)
(* that commits it, under a lock; a lookup takes no lock.  A collector      *)
(* removes snapshots that no marker names.  The program may be replaced and *)
(* the source edited at any time, and any process may die.                  *)
(***************************************************************************)
EXTENDS Naturals

CONSTANTS
  Indexer, Collector,
  Nobody,     \* the owner of a free lock
  Content,
  Draw,       \* what may differ between two runs on the same input
  MaxVersion, \* releases of the program
  MaxCalls,   \* calls of all indexers
  NoMarker, NoResult

Process == Indexer \cup Collector
Version == 1..MaxVersion
Gone    == 0  \* the fingerprint of a program that cannot be read

\* build_operation_identity, for one document.
Op        == Content \X Version
Structure == [by : Version, of : Content, draw : Draw]

ASSUME ProcessAssumption == Indexer \cap Collector = {} /\ Nobody \notin Process
ASSUME BoundAssumption   == MaxVersion \in Nat \ {0} /\ MaxCalls \in Nat
ASSUME NullAssumption    == NoMarker \notin Structure /\ NoResult \notin Structure

VARIABLES
  release,   \* the version of the program that is installed
  readable,  \* whether its files can be read
  input,     \* the content of the source file
  snapshots, \* the operations whose source-<operation>.pdf exists
  marker,    \* <operation>.json
  lock,
  call,      \* the call of each indexer
  collecting,
  calls

world == <<release, readable, input>>
store == <<snapshots, marker>>
vars  == <<world, store, lock, call, collecting, calls>>

Pc == {"idle", "pin", "stage", "look", "hit", "start", "run", "judge", "wait",
       "link_source", "link_marker", "reload", "done"}
Locked == {"link_source", "link_marker", "reload"}
Status == {"none", "success", "blocked", "failed"}

\* want is the version the caller named the operation by, pinned the one the
\* client saw first, result what the call has in hand or has answered.
Call == [at : Pc, content : Content, want : Version \cup {Gone},
         pinned : Version \cup {Gone}, result : Structure \cup {NoResult},
         status : Status]

TypeOK ==
  /\ release \in Version /\ readable \in BOOLEAN /\ input \in Content
  /\ snapshots \subseteq Op
  /\ marker \in [Op -> Structure \cup {NoMarker}]
  /\ lock \in Process \cup {Nobody}
  /\ call \in [Indexer -> Call]
  /\ \A i \in Indexer : call[i].at \notin {"idle", "pin", "done"} =>
       call[i].pinned \in Version
  /\ collecting \subseteq Collector
  /\ calls \in 0..MaxCalls

NoCall(c) == [at |-> "idle", content |-> c, want |-> Gone, pinned |-> Gone,
              result |-> NoResult, status |-> "none"]

Init ==
  /\ release = 1 /\ readable = TRUE /\ input \in Content
  /\ snapshots = {} /\ marker = [op \in Op |-> NoMarker]
  /\ lock = Nobody /\ collecting = {} /\ calls = 0
  /\ call = [i \in Indexer |-> NoCall(input)]

Fingerprint == IF readable THEN release ELSE Gone

OpOf(i) == <<call[i].content, call[i].pinned>>

Goes(i, step) == call' = [call EXCEPT ![i].at = step]

Answers(i, status, result) ==
  call' = [call EXCEPT ![i].at = "done", ![i].status = status, ![i].result = result]

-----------------------------------------------------------------------------
\* PageIndexStructureIndex.index names the operation by the fingerprint it sees.
Ask(i, c) ==
  /\ call[i].at \in {"idle", "done"} /\ calls < MaxCalls
  /\ calls' = calls + 1
  /\ call' = [call EXCEPT ![i] =
       [NoCall(c) EXCEPT !.at = IF readable THEN "pin" ELSE "done",
                         !.want = Fingerprint,
                         !.status = IF readable THEN "none" ELSE "blocked"]]
  /\ UNCHANGED <<world, store, lock, collecting>>

Pin(i) ==
  /\ call[i].at = "pin"
  /\ call' = [call EXCEPT
       ![i].pinned = Fingerprint,
       ![i].at = IF Fingerprint = call[i].want THEN "stage" ELSE "done",
       ![i].status = IF Fingerprint = call[i].want THEN "none" ELSE "blocked"]
  /\ UNCHANGED <<world, store, lock, collecting, calls>>

\* The source is copied to a private directory, and the copy is hashed.
Stage(i) ==
  /\ call[i].at = "stage"
  /\ IF input = call[i].content THEN Goes(i, "look") ELSE Answers(i, "failed", NoResult)
  /\ UNCHANGED <<world, store, lock, collecting, calls>>

\* _load_committed_artifact reads the marker, and then the snapshot.
Look(i) ==
  /\ call[i].at = "look"
  /\ IF marker[OpOf(i)] = NoMarker THEN Goes(i, "start")
     ELSE call' = [call EXCEPT ![i].at = "hit", ![i].result = marker[OpOf(i)]]
  /\ UNCHANGED <<world, store, lock, collecting, calls>>

Hit(i) ==
  /\ call[i].at = "hit"
  /\ IF OpOf(i) \notin snapshots THEN Answers(i, "failed", NoResult)
     ELSE IF Fingerprint = call[i].pinned THEN Answers(i, "success", call[i].result)
     ELSE Answers(i, "blocked", NoResult)
  /\ UNCHANGED <<world, store, lock, collecting, calls>>

Start(i) ==
  /\ call[i].at = "start"
  /\ IF Fingerprint = call[i].pinned THEN Goes(i, "run") ELSE Answers(i, "blocked", NoResult)
  /\ UNCHANGED <<world, store, lock, collecting, calls>>

\* The program that runs is the one that is installed by then.
Run(i) ==
  /\ call[i].at = "run"
  /\ \E d \in Draw :
       call' = [call EXCEPT ![i].at = "judge", ![i].result =
                  [by |-> release, of |-> call[i].content, draw |-> d]]
  /\ UNCHANGED <<world, store, lock, collecting, calls>>

\* Mutant: the version is not looked at again once the program has run.
JudgeOnce(i) ==
  /\ call[i].at = "judge"
  /\ Goes(i, "wait")
  /\ UNCHANGED <<world, store, lock, collecting, calls>>

Judge(i) ==
  /\ call[i].at = "judge"
  /\ IF Fingerprint = call[i].pinned THEN Goes(i, "wait") ELSE Answers(i, "blocked", NoResult)
  /\ UNCHANGED <<world, store, lock, collecting, calls>>

\* An unreadable source or marker, an invalid document, a program that fails, runs
\* out of time or writes no valid structure, a lock that is not had.
Fails(i) ==
  /\ call[i].at \in {"stage", "look", "hit", "start", "run", "judge", "wait"}
  /\ Answers(i, "failed", NoResult)
  /\ UNCHANGED <<world, store, lock, collecting, calls>>

-----------------------------------------------------------------------------
Acquire(i) ==
  /\ call[i].at = "wait" /\ lock = Nobody
  /\ lock' = i
  /\ Goes(i, "link_source")
  /\ UNCHANGED <<world, store, collecting, calls>>

\* A snapshot that is there already is taken, if it has the right hash.
LinkSource(i) ==
  /\ call[i].at = "link_source"
  /\ snapshots' = snapshots \cup {OpOf(i)}
  /\ Goes(i, "link_marker")
  /\ UNCHANGED <<world, marker, lock, collecting, calls>>

\* Mutant: the marker is replaced.
LinkMarkerOver(i) ==
  /\ call[i].at = "link_marker"
  /\ marker' = [marker EXCEPT ![OpOf(i)] = call[i].result]
  /\ Goes(i, "reload")
  /\ UNCHANGED <<world, snapshots, lock, collecting, calls>>

\* The first marker stays: a later result of the same operation is dropped.
LinkMarker(i) ==
  /\ call[i].at = "link_marker"
  /\ marker' = [marker EXCEPT ![OpOf(i)] = IF @ = NoMarker THEN call[i].result ELSE @]
  /\ Goes(i, "reload")
  /\ UNCHANGED <<world, snapshots, lock, collecting, calls>>

\* The answer is what is committed, whoever committed it.
Reload(i) ==
  /\ call[i].at = "reload"
  /\ IF OpOf(i) \in snapshots /\ marker[OpOf(i)] # NoMarker
     THEN Answers(i, "success", marker[OpOf(i)])
     ELSE Answers(i, "failed", NoResult)
  /\ lock' = Nobody
  /\ UNCHANGED <<world, store, collecting, calls>>

\* Mutant: the lock is not given back.
PersistFailsLocked(i) ==
  /\ call[i].at \in Locked
  /\ Answers(i, "failed", NoResult)
  /\ UNCHANGED <<world, store, lock, collecting, calls>>

PersistFails(i) ==
  /\ call[i].at \in Locked
  /\ Answers(i, "failed", NoResult)
  /\ lock' = Nobody
  /\ UNCHANGED <<world, store, collecting, calls>>

Die(i) ==
  /\ call[i].at \notin {"idle", "done"}
  /\ lock' = IF lock = i THEN Nobody ELSE lock
  /\ call' = [call EXCEPT ![i] = NoCall(call[i].content)]
  /\ UNCHANGED <<world, store, collecting, calls>>

-----------------------------------------------------------------------------
\* Mutant: the collector takes no lock.
BeginCollectUnlocked(k) ==
  /\ k \notin collecting
  /\ collecting' = collecting \cup {k}
  /\ UNCHANGED <<world, store, lock, call, calls>>

BeginCollect(k) ==
  /\ k \notin collecting /\ lock = Nobody
  /\ lock' = k
  /\ collecting' = collecting \cup {k}
  /\ UNCHANGED <<world, store, call, calls>>

\* A snapshot of any age: the grace period may be zero.
Collect(k) ==
  /\ k \in collecting
  /\ \E op \in snapshots : marker[op] = NoMarker /\ snapshots' = snapshots \ {op}
  /\ UNCHANGED <<world, marker, lock, call, collecting, calls>>

\* It is through, or its process dies.
EndCollect(k) ==
  /\ k \in collecting
  /\ collecting' = collecting \ {k}
  /\ lock' = IF lock = k THEN Nobody ELSE lock
  /\ UNCHANGED <<world, store, call, calls>>

\* A new release comes with a new fingerprint.
Upgrade ==
  /\ release < MaxVersion
  /\ release' = release + 1
  /\ readable' \in BOOLEAN
  /\ UNCHANGED <<input, store, lock, call, collecting, calls>>

Unread ==
  /\ readable' = ~readable
  /\ UNCHANGED <<release, input, store, lock, call, collecting, calls>>

Edit ==
  /\ \E c \in Content \ {input} : input' = c
  /\ UNCHANGED <<release, readable, store, lock, call, collecting, calls>>

Proceed(i) ==
  \/ Pin(i) \/ Stage(i) \/ Look(i) \/ Hit(i) \/ Start(i) \/ Run(i) \/ Judge(i)
  \/ Acquire(i) \/ LinkSource(i) \/ LinkMarker(i) \/ Reload(i)

Next ==
  \/ \E i \in Indexer :
       \/ \E c \in Content : Ask(i, c)
       \/ Proceed(i) \/ Fails(i) \/ PersistFails(i) \/ Die(i)
  \/ \E k \in Collector : BeginCollect(k) \/ Collect(k) \/ EndCollect(k)
  \/ Upgrade \/ Unread \/ Edit

Spec == Init /\ [][Next]_vars

\* A call runs on; the program has a time limit, and whoever has the lock gives it
\* back.  The lock is not fair, hence the strong fairness.
FairSpec ==
  /\ Spec
  /\ \A i \in Indexer : WF_vars(Proceed(i)) /\ SF_vars(Acquire(i))
  /\ \A k \in Collector : WF_vars(EndCollect(k))

-----------------------------------------------------------------------------
\* A marker always has its snapshot: for a lookup that takes no lock, beside a
\* collector, and after a death between the two links.
MarkerIsWhole == \A op \in Op : marker[op] # NoMarker => op \in snapshots

\* PageIndex is a structure index: its two links are one commit, whoever runs, is
\* overtaken, fails or dies, and no two answers to one name ever differ.
Asked(i) ==
  [at      |-> IF call[i].at = "idle" THEN "idle"
               ELSE IF call[i].at = "done" THEN "answered" ELSE "asked",
   content |-> call[i].content, want |-> call[i].want, status |-> call[i].status,
   result  |-> IF call[i].at = "done" THEN call[i].result ELSE NoResult]

Index == INSTANCE StructureIndex WITH
  Client      <- Indexer,
  NoStructure <- NoResult,
  committed   <- [op \in Op |-> IF marker[op] = NoMarker THEN NoResult ELSE marker[op]],
  request     <- [i \in Indexer |-> Asked(i)]

ImplementsIndex == Index!IndexSpec

\* No call waits for ever, whoever fails or dies with the lock.
CallsEnd == \A i \in Indexer : call[i].at # "idle" ~> call[i].at \in {"idle", "done"}
=============================================================================
