------------------------- MODULE ArchivePlanProofs -------------------------
EXTENDS ArchivePlan, TLAPS

-----------------------------------------------------------------------------
(* The ledger's operators.                                                  *)

LEMMA EmptyLedgerType == EmptyLedger \in Ledger
BY DEF EmptyLedger, Ledger

LEMMA NoCallType == NoCall \in Call
BY EmptyLedgerType DEF NoCall, Call

\* Reconciling a fact with a claim gives a fact.
LEMMA ReconciledType ==
  ASSUME NEW f \in Field, NEW now \in Fact \cup {NoFact}, NEW claim \in Claim
  PROVE  Reconciled(f, now, claim) \in Fact
<1>1. \A b \in BOOLEAN : Marked(claim, b) \in Fact
  BY DEF Marked, Claim, Fact
<1>2. (claim.score >= Threshold[f]) \in BOOLEAN
  BY ScoreAssumption DEF Claim
<1> QED
  BY <1>1, <1>2 DEF Reconciled

\* A patched ledger is a ledger.
LEMMA PatchedType ==
  ASSUME NEW state \in Ledger, NEW patch \in Patch
  PROVE  Patched(state, patch) \in Ledger
<1> DEFINE fact == [f \in Field |->
      IF f \in DOMAIN patch THEN Reconciled(f, state.fact[f], patch[f])
      ELSE state.fact[f]]
<1> DEFINE claims == {[field |-> f, value |-> patch[f].value, score |-> patch[f].score]
                        : f \in DOMAIN patch}
<1> DEFINE disputes == {[field |-> f, current |-> state.fact[f].value, candidate |-> patch[f].value]
                          : f \in Disputed(state, patch)}
<1>1. DOMAIN patch \subseteq Field /\ \A f \in DOMAIN patch : patch[f] \in Claim
  BY DEF Patch
<1>2. /\ state.fact \in [Field -> Fact \cup {NoFact}]
      /\ state.candidates \subseteq Candidate /\ state.conflicts \subseteq Conflict
  BY DEF Ledger
<1>3. fact \in [Field -> Fact \cup {NoFact}]
  BY <1>1, <1>2, ReconciledType
<1>4. claims \subseteq Candidate
  BY <1>1 DEF Claim, Candidate
<1>5. disputes \subseteq Conflict
  BY <1>1, <1>2, NoFactAssumption DEF Disputed, Claim, Fact, Conflict
<1> HIDE DEF fact, claims, disputes
<1>6. [fact |-> fact, candidates |-> state.candidates \cup claims,
       conflicts |-> state.conflicts \cup disputes] \in Ledger
  BY <1>2, <1>3, <1>4, <1>5 DEF Ledger
<1> QED
  BY <1>6 DEF Patched, fact, claims, disputes

\* The stage that a place tells keeps the type of a ledger.
LEMMA StagedType ==
  ASSUME NEW p \in Project, NEW state \in Ledger
  PROVE  Staged(p, state) \in Ledger
<1> DEFINE fact == [f \in Field |->
      IF f \in DOMAIN Stage[p] /\ state.fact[f] = NoFact
      THEN Stage[p][f] ELSE state.fact[f]]
<1>1. fact \in [Field -> Fact \cup {NoFact}]
  BY StageAssumption DEF Ledger
<1> HIDE DEF fact
<1>2. [fact |-> fact, candidates |-> state.candidates, conflicts |-> state.conflicts] \in Ledger
  BY <1>1 DEF Ledger
<1> QED
  BY <1>2 DEF Staged, fact

\* What a patch does to the fact of one field.
LEMMA ReconciledScores ==
  ASSUME NEW f \in Field, NEW now \in Fact \cup {NoFact}, NEW claim \in Claim
  PROVE  /\ claim.score >= Threshold[f] => Reconciled(f, now, claim).score >= claim.score
         /\ now # NoFact => Reconciled(f, now, claim).score >= now.score
         /\ Reconciled(f, now, claim).value \in
              {claim.value} \cup (IF now = NoFact THEN {} ELSE {now.value})
<1>1. claim.score \in Nat /\ Threshold[f] \in Nat
  BY ScoreAssumption DEF Claim
<1>2. now # NoFact => now.score \in Nat
  BY DEF Fact
<1> DEFINE good == claim.score >= Threshold[f]
<1>3. \A b : Marked(claim, b).value = claim.value /\ Marked(claim, b).score = claim.score
  BY DEF Marked
<1>4. CASE now = NoFact
  <2>1. Reconciled(f, now, claim) = Marked(claim, good)
    BY <1>4 DEF Reconciled
  <2> HIDE DEF good
  <2>2. /\ Reconciled(f, now, claim).value = claim.value
        /\ Reconciled(f, now, claim).score = claim.score
    BY <2>1, <1>3
  <2> QED
    BY <1>1, <1>4, <2>2
<1>5. CASE now # NoFact
  <2> DEFINE better == IF now.value = claim.value THEN claim.score >= now.score
                       ELSE claim.score > now.score /\ good
  <2>1. Reconciled(f, now, claim) = IF better THEN Marked(claim, TRUE) ELSE now
    BY <1>5, Zenon DEF Reconciled
  <2>2. /\ better => claim.score >= now.score
        /\ ~better => claim.score <= now.score \/ claim.score < Threshold[f]
    BY <1>1, <1>2, <1>5
  <2> HIDE DEF better
  <2>3. /\ better => /\ Reconciled(f, now, claim).value = claim.value
                     /\ Reconciled(f, now, claim).score = claim.score
        /\ ~better => Reconciled(f, now, claim) = now
    BY <2>1, <1>3
  <2> QED
    BY <1>1, <1>2, <1>5, <2>2, <2>3
<1> QED
  BY <1>4, <1>5

Sound(state) == Accounted(state) /\ BestClaim(state)

\* A patch keeps every earlier claim accounted for, and accounts for its own.
LEMMA PatchedSound ==
  ASSUME NEW state \in Ledger, Sound(state), NEW patch \in Patch
  PROVE  Sound(Patched(state, patch))
<1> DEFINE new == Patched(state, patch)
<1>1. DOMAIN patch \subseteq Field /\ \A f \in DOMAIN patch : patch[f] \in Claim
  BY DEF Patch
<1>2. /\ state.fact \in [Field -> Fact \cup {NoFact}]
      /\ state.candidates \subseteq Candidate /\ state.conflicts \subseteq Conflict
  BY DEF Ledger
<1>3. \A f \in Field : new.fact[f] =
        IF f \in DOMAIN patch THEN Reconciled(f, state.fact[f], patch[f])
        ELSE state.fact[f]
  BY DEF Patched
<1>4. /\ state.conflicts \subseteq new.conflicts
      /\ \A f \in DOMAIN patch :
           state.fact[f] # NoFact /\ state.fact[f].value # patch[f].value =>
             [field |-> f, current |-> state.fact[f].value,
              candidate |-> patch[f].value] \in new.conflicts
  BY DEF Patched, Disputed
<1>5. SUFFICES ASSUME NEW c \in new.candidates
               PROVE  /\ new.fact[c.field] # NoFact
                      /\ \/ new.fact[c.field].value = c.value
                         \/ \E k \in new.conflicts :
                              k.field = c.field /\ c.value \in {k.current, k.candidate}
                      /\ c.score >= Threshold[c.field] =>
                           new.fact[c.field].score >= c.score
  BY DEF Sound, Accounted, BestClaim
<1>6. c \in state.candidates \/ \E f \in DOMAIN patch :
        c = [field |-> f, value |-> patch[f].value, score |-> patch[f].score]
  BY DEF Patched
<1> DEFINE g == c.field
           now == state.fact[g]
<1>7. g \in Field /\ c.score \in Nat
  BY <1>1, <1>2, <1>6, ScoreAssumption DEF Candidate, Claim
<1>8. now \in Fact \cup {NoFact}
  BY <1>2, <1>7
<1>9. g \in DOMAIN patch => new.fact[g] \in Fact
  BY <1>1, <1>3, <1>7, <1>8, ReconciledType
<1>10. CASE c \in state.candidates
  <2>1. /\ now # NoFact
        /\ \/ now.value = c.value
           \/ \E k \in state.conflicts :
                k.field = g /\ c.value \in {k.current, k.candidate}
        /\ c.score >= Threshold[g] => now.score >= c.score
    BY <1>10 DEF Sound, Accounted, BestClaim
  <2>2. CASE g \notin DOMAIN patch
    BY <2>1, <2>2, <1>3, <1>4, <1>7
  <2>3. CASE g \in DOMAIN patch
    <3> DEFINE claim == patch[g]
    <3>1. /\ new.fact[g] = Reconciled(g, now, claim) /\ claim \in Claim
          /\ new.fact[g] # NoFact
      BY <2>3, <1>1, <1>3, <1>7, <1>9, NoFactAssumption
    <3>2. /\ new.fact[g].score >= now.score
          /\ new.fact[g].value \in {claim.value, now.value}
      BY <3>1, <2>1, <1>7, <1>8, ReconciledScores
    <3>3. now.score \in Nat /\ new.fact[g].score \in Nat /\ Threshold[g] \in Nat
      BY <2>1, <1>7, <1>8, <1>9, <2>3, ScoreAssumption DEF Fact
    <3>4. c.score >= Threshold[g] => new.fact[g].score >= c.score
      BY <2>1, <3>2, <3>3, <1>7
    <3>5. now.value # claim.value =>
            \E k \in new.conflicts : /\ k.field = g /\ k.current = now.value
                                     /\ k.candidate = claim.value
      <4>1. now.value # claim.value =>
              [field |-> g, current |-> now.value, candidate |-> claim.value]
                \in new.conflicts
        BY <1>4, <2>1, <2>3
      <4> QED
        BY <4>1
    <3>6. \/ new.fact[g].value = c.value
          \/ \E k \in new.conflicts :
               k.field = g /\ c.value \in {k.current, k.candidate}
      BY <2>1, <3>2, <3>5, <1>4
    <3> QED
      BY <3>1, <3>4, <3>6
  <2> QED
    BY <2>2, <2>3
<1>11. CASE c \notin state.candidates
  <2>1. g \in DOMAIN patch /\ c.value = patch[g].value /\ c.score = patch[g].score
    BY <1>6, <1>11
  <2> DEFINE claim == patch[g]
  <2>2. /\ new.fact[g] = Reconciled(g, now, claim) /\ claim \in Claim
        /\ new.fact[g] # NoFact
    BY <2>1, <1>1, <1>3, <1>7, <1>9, NoFactAssumption
  <2>3. /\ claim.score >= Threshold[g] => new.fact[g].score >= claim.score
        /\ new.fact[g].value \in {claim.value} \cup (IF now = NoFact THEN {} ELSE {now.value})
    BY <2>2, <1>7, <1>8, ReconciledScores
  <2>4. now # NoFact /\ now.value # claim.value =>
          \E k \in new.conflicts : k.field = g /\ k.candidate = claim.value
    <3>1. now # NoFact /\ now.value # claim.value =>
            [field |-> g, current |-> now.value, candidate |-> claim.value]
              \in new.conflicts
      BY <1>4, <2>1
    <3> QED
      BY <3>1
  <2>5. \/ new.fact[g].value = c.value
        \/ \E k \in new.conflicts :
             k.field = g /\ c.value \in {k.current, k.candidate}
    BY <2>1, <2>3, <2>4
  <2> QED
    BY <2>1, <2>2, <2>3, <2>5
<1> QED
  BY <1>10, <1>11

\* So does the stage that a place tells: it fills fields nobody made a claim on.
LEMMA StagedSound ==
  ASSUME NEW p \in Project, NEW state \in Ledger, Sound(state)
  PROVE  Sound(Staged(p, state))
<1> DEFINE new == Staged(p, state)
<1>1. new.candidates = state.candidates /\ new.conflicts = state.conflicts
  BY DEF Staged, Ledger
<1>2. \A c \in state.candidates : c.field \in Field /\ new.fact[c.field] = state.fact[c.field]
  BY DEF Staged, Ledger, Candidate, Sound, Accounted
<1> QED
  BY <1>1, <1>2 DEF Sound, Accounted, BestClaim

LEMMA EmptySound == Sound(EmptyLedger)
BY DEF Sound, Accounted, BestClaim, EmptyLedger

-----------------------------------------------------------------------------
(* The ledger calls.                                                        *)

\* What the calls under way and the files hold: sound ledgers, and records of
\* moves that were made.
CallOf(h) ==
  /\ Sound(op[h].state)
  /\ op[h].files \subseteq moves
  /\ op[h].at \in {"loaded", "appending", "filling_manifest"} => op[h].record \in moves

ManifestsAreTrue ==
  \A p \in Project : Readable(manifest[p]) => manifest[p].files \subseteq moves

BooksInv ==
  /\ LedgerTypeOK
  /\ \A h \in Host : CallOf(h)
  /\ LedgersAreSound
  /\ ManifestsAreTrue

LEMMA ReadableType ==
  ASSUME LedgerTypeOK, NEW p \in Project
  PROVE  /\ Readable(ledger[p]) => ledger[p] \in Ledger
         /\ Readable(manifest[p]) => manifest[p] \in Manifest
BY DEF LedgerTypeOK, Readable

LEMMA BooksInit == Init => BooksInv
<1> SUFFICES ASSUME Init PROVE BooksInv
  OBVIOUS
<1>1. /\ ledger = [p \in Project |-> EmptyLedger]
      /\ manifest = [p \in Project |-> [files |-> {}]]
      /\ op = [h \in Host |-> NoCall]
      /\ moves = {}
  BY DEF Init, LedgerInit
<1>2. LedgerTypeOK
  BY <1>1, EmptyLedgerType, NoCallType DEF LedgerTypeOK, Manifest, NoCall
<1>3. \A h \in Host : CallOf(h)
  BY <1>1, EmptySound DEF CallOf, NoCall
<1>4. LedgersAreSound
  BY <1>1, EmptySound DEF LedgersAreSound, Sound
<1>5. ManifestsAreTrue
  BY <1>1 DEF ManifestsAreTrue
<1> QED
  BY <1>2, <1>3, <1>4, <1>5 DEF BooksInv

\* A move adds to what is true.
LEMMA BooksQuiet ==
  ASSUME BooksInv, UNCHANGED ledgerVars, moves \subseteq moves'
  PROVE  BooksInv'
BY DEF BooksInv, ledgerVars, LedgerTypeOK, CallOf, LedgersAreSound, ManifestsAreTrue,
       Sound, Accounted, BestClaim, Readable

\* A call that begins, or returns, changes no file.
LEMMA BooksCall ==
  ASSUME BooksInv, UNCHANGED <<ledger, manifest, moves>>,
         NEW h \in Host, NEW call \in Call, op' = [op EXCEPT ![h] = call],
         call.at # "idle" => call.project \in Project,
         Sound(call.state), call.files \subseteq moves,
         call.at \in {"loaded", "appending", "filling_manifest"} => call.record \in moves /\ call.record \in Record
  PROVE  BooksInv'
<1>1. LedgerTypeOK'
  BY DEF BooksInv, LedgerTypeOK
<1>2. \A g \in Host : CallOf(g)'
  <2> SUFFICES ASSUME NEW g \in Host PROVE CallOf(g)'
    OBVIOUS
  <2>1. op'[g] = IF g = h THEN call ELSE op[g]
    BY DEF BooksInv, LedgerTypeOK
  <2> QED
    BY <2>1 DEF BooksInv, CallOf, Sound, Accounted, BestClaim
<1>3. LedgersAreSound' /\ ManifestsAreTrue'
  BY DEF BooksInv, LedgersAreSound, ManifestsAreTrue, Accounted, BestClaim, Readable
<1> QED
  BY <1>1, <1>2, <1>3 DEF BooksInv

LEMMA BooksDrop ==
  ASSUME BooksInv, NEW h \in Host, DropCall(h), UNCHANGED moves
  PROVE  BooksInv'
BY BooksCall, NoCallType, EmptySound DEF DropCall, NoCall

LEMMA BooksPatch ==
  ASSUME BooksInv, NEW h \in Host, NEW p \in Project, NEW patch \in Patch,
         BeginPatch(h, p, patch), UNCHANGED moves
  PROVE  BooksInv'
<1>1. ledger[p] \in Ledger /\ Sound(ledger[p])
  BY ReadableType DEF BooksInv, BeginPatch, LedgersAreSound, Sound
<1>2. Patched(ledger[p], patch) \in Ledger /\ Sound(Patched(ledger[p], patch))
  BY <1>1, PatchedType, PatchedSound
<1> DEFINE call == [at |-> "saving", project |-> p, state |-> Patched(ledger[p], patch),
                    files |-> {}, record |-> NoRecord]
<1>3. call \in Call
  BY <1>2 DEF Call
<1>4. op' = [op EXCEPT ![h] = call] /\ UNCHANGED <<ledger, manifest>>
  BY DEF BeginPatch
<1>5. /\ call.at = "saving" /\ call.project = p /\ call.files = {}
      /\ call.state = Patched(ledger[p], patch)
  OBVIOUS
<1> HIDE DEF call
<1> QED
  BY <1>2, <1>3, <1>4, <1>5, BooksCall

LEMMA BooksRecord ==
  ASSUME BooksInv, NEW h \in Host, NEW p \in Project, NEW record \in moves, record \in Record,
         BeginRecord(h, p, record), UNCHANGED moves
  PROVE  BooksInv'
<1>1. ledger[p] \in Ledger /\ Sound(ledger[p])
  BY ReadableType DEF BooksInv, BeginRecord, LedgersAreSound, Sound
<1>2. Staged(p, ledger[p]) \in Ledger /\ Sound(Staged(p, ledger[p]))
  BY <1>1, StagedType, StagedSound
<1> DEFINE call == [at |-> "loaded", project |-> p, state |-> Staged(p, ledger[p]),
                    files |-> {}, record |-> record]
<1>3. call \in Call
  BY <1>2 DEF Call
<1>4. op' = [op EXCEPT ![h] = call] /\ UNCHANGED <<ledger, manifest>>
  BY DEF BeginRecord
<1>5. /\ call.at = "loaded" /\ call.project = p /\ call.files = {} /\ call.record = record
      /\ call.state = Staged(p, ledger[p])
  OBVIOUS
<1> HIDE DEF call
<1> QED
  BY <1>2, <1>3, <1>4, <1>5, BooksCall

\* What the copy and the files hold stays sound and true while they are saved.
LEMMA BooksSave ==
  ASSUME BooksInv, NEW h \in Host, SaveStep(h), UNCHANGED moves
  PROVE  BooksInv'
<1> DEFINE p == op[h].project
<1>0. op \in [Host -> Call] /\ CallOf(h) /\ LedgerTypeOK
  BY DEF BooksInv, LedgerTypeOK
<1>1. CASE LoadManifest(h)
  <2>1. p \in Project /\ manifest[p] \in Manifest /\ op[h].record \in Record
    BY <1>0, <1>1, ReadableType DEF LoadManifest, LedgerTypeOK
  <2>2. /\ manifest[p].files \subseteq moves /\ op[h].record \in moves
        /\ manifest[p].files \subseteq Record
    BY <1>0, <1>1, <2>1 DEF BooksInv, ManifestsAreTrue, LoadManifest, CallOf, Manifest
  <2> DEFINE call == [op[h] EXCEPT !.at = "appending",
                                   !.files = manifest[p].files \cup {op[h].record}]
  <2>3. op' = [op EXCEPT ![h] = call] /\ UNCHANGED <<ledger, manifest>>
    BY <1>1, <1>0 DEF LoadManifest
  <2>4. call \in Call
    BY <1>0, <2>1, <2>2 DEF Call
  <2>5. /\ call.at = "appending" /\ call.project = p
        /\ call.files = manifest[p].files \cup {op[h].record}
        /\ call.state = op[h].state /\ call.record = op[h].record
    BY <1>0 DEF Call
  <2> HIDE DEF call
  <2> QED
    BY <1>0, <2>1, <2>2, <2>3, <2>4, <2>5, BooksCall DEF CallOf
<1>2. CASE EmptyManifest(h)
  <2>1. /\ op[h].at = "appending" /\ p \in Project /\ op[h].record \in Record
        /\ op[h].record \in moves
    BY <1>0, <1>2 DEF EmptyManifest, LedgerTypeOK, CallOf
  <2>2. /\ manifest' = [manifest EXCEPT ![p] = Emptied]
        /\ op' = [op EXCEPT ![h].at = "filling_manifest"] /\ UNCHANGED ledger
    BY <1>2 DEF EmptyManifest
  <2>3. LedgerTypeOK'
    BY <1>0, <2>1, <2>2 DEF LedgerTypeOK, Call
  <2>4. \A g \in Host : CallOf(g)'
    BY <1>0, <2>1, <2>2 DEF BooksInv, CallOf, Call, Sound, Accounted, BestClaim
  <2>5. LedgersAreSound'
    BY <2>2 DEF BooksInv, LedgersAreSound, Readable, Accounted, BestClaim
  <2>6. ManifestsAreTrue'
    BY <1>0, <2>2 DEF BooksInv, ManifestsAreTrue, Readable, LedgerTypeOK
  <2> QED
    BY <2>3, <2>4, <2>5, <2>6 DEF BooksInv
<1>3. CASE FillManifest(h)
  <2>1. /\ op[h].at = "filling_manifest" /\ p \in Project
        /\ op[h].files \subseteq moves /\ op[h].files \subseteq Record
    BY <1>0, <1>3 DEF FillManifest, LedgerTypeOK, CallOf, Call
  <2>2. PICK written \in {[files |-> op[h].files], Torn} :
          /\ manifest' = [manifest EXCEPT ![p] = written]
          /\ op' = [op EXCEPT ![h].at = "saving"] /\ UNCHANGED ledger
    BY <1>3 DEF FillManifest, Filled
  <2>3. /\ written \in Manifest \cup {Torn}
        /\ Readable(written) => written.files \subseteq moves
    BY <2>1, <2>2 DEF Manifest, Readable
  <2>4. LedgerTypeOK'
    BY <1>0, <2>1, <2>2, <2>3 DEF LedgerTypeOK, Call
  <2>5. \A g \in Host : CallOf(g)'
    BY <1>0, <2>1, <2>2 DEF BooksInv, CallOf, Call, Sound, Accounted, BestClaim
  <2>6. LedgersAreSound'
    BY <2>2 DEF BooksInv, LedgersAreSound, Readable, Accounted, BestClaim
  <2>7. ManifestsAreTrue'
    BY <1>0, <2>1, <2>2, <2>3 DEF BooksInv, ManifestsAreTrue, Readable, LedgerTypeOK
  <2> QED
    BY <2>4, <2>5, <2>6, <2>7 DEF BooksInv
<1>4. CASE EmptyLedgerFile(h)
  <2>1. op[h].at = "saving" /\ p \in Project
    BY <1>0, <1>4 DEF EmptyLedgerFile, LedgerTypeOK
  <2>2. /\ ledger' = [ledger EXCEPT ![p] = Emptied]
        /\ op' = [op EXCEPT ![h].at = "filling_ledger"] /\ UNCHANGED manifest
    BY <1>4 DEF EmptyLedgerFile
  <2>3. LedgerTypeOK'
    BY <1>0, <2>1, <2>2 DEF LedgerTypeOK, Call
  <2>4. \A g \in Host : CallOf(g)'
    BY <1>0, <2>1, <2>2 DEF BooksInv, CallOf, Call, Sound, Accounted, BestClaim
  <2>5. LedgersAreSound'
    BY <1>0, <2>2 DEF BooksInv, LedgersAreSound, Readable, Accounted, BestClaim, LedgerTypeOK
  <2>6. ManifestsAreTrue'
    BY <2>2 DEF BooksInv, ManifestsAreTrue, Readable
  <2> QED
    BY <2>3, <2>4, <2>5, <2>6 DEF BooksInv
<1> QED
  BY <1>1, <1>2, <1>3, <1>4 DEF SaveStep

LEMMA BooksFill ==
  ASSUME BooksInv, NEW h \in Host, FillLedgerFile(h), UNCHANGED moves
  PROVE  BooksInv'
<1> DEFINE p == op[h].project
<1>0. op \in [Host -> Call] /\ CallOf(h) /\ LedgerTypeOK
  BY DEF BooksInv, LedgerTypeOK
<1>1. op[h].at = "filling_ledger" /\ p \in Project /\ op[h].state \in Ledger
  BY <1>0 DEF FillLedgerFile, LedgerTypeOK, Call
<1>2. PICK written \in {op[h].state, Torn} :
        /\ ledger' = [ledger EXCEPT ![p] = written]
        /\ op' = [op EXCEPT ![h] = NoCall] /\ UNCHANGED manifest
  BY DEF FillLedgerFile, Filled
<1>3. /\ written \in Ledger \cup {Torn}
      /\ Readable(written) => Accounted(written) /\ BestClaim(written)
  BY <1>0, <1>1, <1>2 DEF CallOf, Sound, Readable
<1>4. LedgerTypeOK'
  BY <1>0, <1>1, <1>2, <1>3, NoCallType DEF LedgerTypeOK, NoCall
<1>5. \A g \in Host : CallOf(g)'
  <2> SUFFICES ASSUME NEW g \in Host PROVE CallOf(g)'
    OBVIOUS
  <2>1. op'[g] = IF g = h THEN NoCall ELSE op[g]
    BY <1>0, <1>2
  <2> QED
    BY <2>1, EmptySound DEF BooksInv, CallOf, NoCall, Sound, Accounted, BestClaim
<1>6. LedgersAreSound'
  <2> SUFFICES ASSUME NEW q \in Project, Readable(ledger[q])'
               PROVE  Accounted(ledger'[q]) /\ BestClaim(ledger'[q])
    BY DEF LedgersAreSound, Accounted, BestClaim
  <2>1. ledger'[q] = IF q = p THEN written ELSE ledger[q]
    BY <1>0, <1>2 DEF LedgerTypeOK
  <2>2. CASE q = p
    BY <1>3, <2>1, <2>2 DEF Readable
  <2>3. CASE q # p
    BY <2>1, <2>3 DEF BooksInv, LedgersAreSound, Readable
  <2> QED
    BY <2>2, <2>3
<1>7. ManifestsAreTrue'
  BY <1>2 DEF BooksInv, ManifestsAreTrue, Readable
<1> QED
  BY <1>4, <1>5, <1>6, <1>7 DEF BooksInv

-----------------------------------------------------------------------------
(* The calls on runs.                                                       *)

\* What is said of the n-th action of a run is so.
Says(r, n, outcome) ==
  /\ outcome = "archived" =>
       [run |-> r, source |-> plan[r][n].source, target |-> plan[r][n].target] \in moves
  /\ outcome = "already_archived" => plan[r][n].archived

\* A run is prepared by one call, and nobody has its plan before that call ends.
PreparingOf(h) ==
  Preparing(h) =>
    /\ job[h].run \in started
    /\ plan[job[h].run] = NoPlan /\ queue[job[h].run] = "none"
    /\ \A g \in Host \ {h} : Preparing(g) => job[g].run # job[h].run
    /\ job[h].at # "reading" => job[h].n \in DOMAIN Input[job[h].run]

\* An execution has reported, truly, on each action before the one it is at,
\* which passed the checks.
ExecutingOf(h) ==
  Executing(h) =>
    /\ plan[job[h].run] # NoPlan
    /\ job[h].n \in 1..(Len(plan[job[h].run]) + 1)
    /\ Len(job[h].out) = job[h].n - 1
    /\ \A n \in 1..(job[h].n - 1) : Says(job[h].run, n, job[h].out[n])
    /\ job[h].cleared => job[h].run \in reviewed
    /\ job[h].at # "executing" =>
         /\ job[h].n \in 1..Len(plan[job[h].run]) /\ Acting(h).target \in Path
         /\ "human_review_recommended" \in Acting(h).blockers => job[h].cleared
    /\ job[h].at \in {"moved", "recording"} => RecordOf(h) \in moves

JobInv == \A h \in Host : PreparingOf(h) /\ ExecutingOf(h)

\* What is in the directory of a run came in this order.
RunInv ==
  /\ \A r \in Run :
       /\ r \notin started => plan[r] = NoPlan /\ queue[r] = "none"
       /\ result[r] # NoResult => plan[r] # NoPlan
       /\ audit[r] = "pending" => queue[r] = "required"
  /\ \A m \in moves : plan[m.run] # NoPlan

ResultOf(r) ==
  result[r] # NoResult =>
    /\ DOMAIN result[r] = DOMAIN plan[r]
    /\ \A n \in DOMAIN result[r] : Says(r, n, result[r][n])

ResultsAreTrue == \A r \in Run : ResultOf(r)

Inv == TypeOK /\ BooksInv /\ JobInv /\ RunInv /\ ResultsAreTrue /\ ReviewIsAsked

LEMMA NoJobType == NoJob \in Job
BY DEF NoJob, Job

\* What a call works on.
LEMMA ActingType ==
  ASSUME TypeOK, JobInv, NEW h \in Host, Executing(h), job[h].n \in DOMAIN plan[job[h].run]
  PROVE  /\ job[h].run \in Run /\ plan[job[h].run] \in Seq(Action)
         /\ Acting(h) \in Action
         /\ job[h].n \in 1..Len(plan[job[h].run])
         /\ Acting(h).target \in Path => RecordOf(h) \in Record
<1>1. job[h].run \in Run /\ plan[job[h].run] # NoPlan
  BY DEF TypeOK, JobInv, ExecutingOf, Executing
<1>2. plan[job[h].run] \in Seq(Action)
  BY <1>1 DEF TypeOK
<1>3. Acting(h) \in Action /\ job[h].n \in 1..Len(plan[job[h].run])
  BY <1>2 DEF Acting
<1>4. Acting(h).target \in Path => RecordOf(h) \in Record
  BY <1>1, <1>3, RecordAssumption DEF RecordOf, Action
<1> QED
  BY <1>1, <1>2, <1>3, <1>4

LEMMA FileType ==
  ASSUME TypeOK, JobInv, NEW h \in Host, Preparing(h), job[h].n \in DOMAIN Input[job[h].run]
  PROVE  job[h].run \in Run /\ File(h) \in Path
BY RunAssumption DEF TypeOK, Preparing, File

LEMMA BuiltType ==
  ASSUME TypeOK, NEW source \in Path, NEW d \in Decision[source]
  PROVE  Built(source, d) \in Action
<1> DEFINE blockers ==
        d.advice
        \cup (IF d.target \in Path \ {source} /\ disk[d.target] # Absent
              THEN {"target_exists"} ELSE {})
        \cup (IF disk[source] = Absent THEN {"source_missing"} ELSE {})
      archived == d.target = source /\ blockers = {}
<1>1. d.target \in Path \cup {NoPath} /\ d.home \in Project /\ d.advice \subseteq Advice
  BY ReadingAssumption
<1>2. blockers \in SUBSET Blocker
  BY <1>1 DEF Blocker
<1>3. archived \in BOOLEAN
  OBVIOUS
<1> HIDE DEF archived, blockers
<1>4. [source |-> source, target |-> d.target, home |-> d.home,
       blockers |-> blockers, archived |-> archived] \in Action
  BY <1>1, <1>2, <1>3 DEF Action
<1> QED
  BY <1>4, Zenon DEF Built, archived, blockers

-----------------------------------------------------------------------------
(* Types.                                                                   *)

LEMMA TypeInit == Init /\ BooksInv => TypeOK
<1> SUFFICES ASSUME Init, BooksInv PROVE TypeOK
  OBVIOUS
<1>1. LedgerTypeOK
  BY DEF BooksInv
<1>2. /\ disk \in [Path -> Content \cup {Absent}]
      /\ started \in SUBSET Run
      /\ reviewed \in SUBSET Run
      /\ edits \in 0..MaxMishaps /\ failures \in 0..MaxMishaps /\ calls \in 0..MaxCalls
      /\ moves \in SUBSET Record /\ spoiled \in SUBSET Project
  BY PathAssumption, BoundAssumption DEF Init
<1>a. raced \in BOOLEAN
  BY Zenon DEF Init
<1>3. /\ queue \in [Run -> {"none", "clear", "required"}]
      /\ plan \in [Run -> Seq(Action) \cup {NoPlan}]
      /\ audit \in [Run -> {"none", "clear", "pending"}]
      /\ result \in [Run -> Seq(Outcome) \cup {NoResult}]
  BY DEF Init
<1>4. job = [h \in Host |-> NoJob] /\ NoJob.at = "idle"
  BY DEF Init, NoJob
<1>5. /\ job \in [Host -> Job]
      /\ \A h \in Host : job[h].at # "idle" => job[h].run \in Run
  BY <1>4, NoJobType
<1> QED
  BY <1>1, <1>2, <1>a, <1>3, <1>5 DEF TypeOK

\* A call that has changed.
LEMMA TypeJob ==
  ASSUME TypeOK, NEW h \in Host, NEW j \in Job, job' = [job EXCEPT ![h] = j],
         j.at # "idle" => j.run \in Run
  PROVE  /\ job' \in [Host -> Job]
         /\ \A g \in Host : job'[g].at # "idle" => job'[g].run \in Run
BY DEF TypeOK

\* A call that ends.
LEMMA TypeEnd ==
  ASSUME TypeOK, NEW h \in Host, job' = [job EXCEPT ![h] = NoJob]
  PROVE  /\ job' \in [Host -> Job]
         /\ \A g \in Host : job'[g].at # "idle" => job'[g].run \in Run
BY NoJobType DEF TypeOK, NoJob

\* A call that goes on to another step of its.
LEMMA TypeEnter ==
  ASSUME TypeOK, NEW h \in Host, job[h].at # "idle",
         NEW at \in {"reading", "patching", "deciding", "correcting", "corrected",
                     "executing", "checked", "moved", "recording"},
         Enter(h, at)
  PROVE  /\ job' \in [Host -> Job]
         /\ \A g \in Host : job'[g].at # "idle" => job'[g].run \in Run
<1>1. job[h] \in Job /\ job[h].run \in Run /\ job \in [Host -> Job]
  BY DEF TypeOK
<1> DEFINE j == [job[h] EXCEPT !.at = at]
<1>2. j \in Job /\ j.run \in Run
  BY <1>1 DEF Job
<1>3. job' = [job EXCEPT ![h] = j]
  BY <1>1 DEF Enter
<1> HIDE DEF j
<1> QED
  BY <1>2, <1>3, TypeJob

LEMMA TypeReport ==
  ASSUME TypeOK, NEW h \in Host, job[h].at # "idle", NEW outcome \in Outcome, Report(h, outcome)
  PROVE  /\ job' \in [Host -> Job]
         /\ \A g \in Host : job'[g].at # "idle" => job'[g].run \in Run
<1>1. job \in [Host -> Job] /\ job[h] \in Job /\ job[h].run \in Run
  BY DEF TypeOK
<1>2. Append(job[h].out, outcome) \in Seq(Outcome) /\ job[h].n + 1 \in Nat
  BY <1>1 DEF Job
<1> DEFINE m == job[h].n + 1
           out == Append(job[h].out, outcome)
           j == [job[h] EXCEPT !.at = "executing", !.n = m, !.out = out]
<1>3. j \in Job /\ j.run \in Run
  <2> HIDE DEF m, out
  <2>1. m \in Nat /\ out \in Seq(Outcome)
    BY <1>2 DEF m, out
  <2> QED
    BY <1>1, <2>1 DEF Job
<1>4. job' = [job EXCEPT ![h] = j]
  BY <1>1 DEF Report
<1> HIDE DEF j
<1> QED
  BY <1>3, <1>4, TypeJob

LEMMA TypeFail ==
  ASSUME TypeOK, Fail
  PROVE  edits' \in 0..MaxMishaps /\ failures' \in 0..MaxMishaps /\ calls' \in 0..MaxCalls
BY BoundAssumption DEF TypeOK, Fail

LEMMA TypeBegin ==
  ASSUME TypeOK, NEW h \in Host, Begin(h)
  PROVE  edits' \in 0..MaxMishaps /\ failures' \in 0..MaxMishaps /\ calls' \in 0..MaxCalls
BY BoundAssumption DEF TypeOK, Begin

LEMMA TypePrepare ==
  ASSUME TypeOK, BooksInv', NEW h \in Host, NEW r \in Run, Prepare(h, r)
  PROVE  TypeOK'
<1> DEFINE new == [NoJob EXCEPT !.at = "reading", !.run = r, !.ready = Probed(r)]
<1>1. Probed(r) \in SUBSET Nat
  BY RunAssumption DEF Probed
<1>2. new \in Job /\ new.run \in Run
  BY <1>1, NoJobType DEF Job
<1>3. job' = [job EXCEPT ![h] = new]
  BY DEF Prepare
<1> HIDE DEF new
<1>4. /\ job' \in [Host -> Job]
      /\ \A g \in Host : job'[g].at # "idle" => job'[g].run \in Run
  BY <1>2, <1>3 DEF TypeOK
<1> QED
  BY <1>4, TypeBegin DEF Prepare, TypeOK, BooksInv, history

LEMMA TypeReading ==
  ASSUME TypeOK, JobInv, BooksInv', NEW h \in Host,
         SkipFile(h) \/ ReadUntrusted(h) \/ ReadTrusted(h) \/ Decide(h) \/ FinishPrepare(h)
  PROVE  TypeOK'
<1>0. LedgerTypeOK'
  BY DEF BooksInv
<1>1. CASE SkipFile(h)
  <2>1. job' = [job EXCEPT ![h].n = @ + 1] /\ job[h].at # "idle"
    BY <1>1 DEF SkipFile, MoreFiles
  <2> DEFINE j == [job[h] EXCEPT !.n = job[h].n + 1]
  <2>a. job[h] \in Job /\ job[h].run \in Run /\ job[h].n + 1 \in Nat
    BY <2>1 DEF TypeOK, Job
  <2>b. job' = [job EXCEPT ![h] = j] /\ j \in Job /\ j.run \in Run
    BY <2>1, <2>a DEF TypeOK, Job
  <2> HIDE DEF j
  <2>2. /\ job' \in [Host -> Job]
        /\ \A g \in Host : job'[g].at # "idle" => job'[g].run \in Run
    BY <2>b, TypeJob
  <2>3. edits' \in 0..MaxMishaps /\ failures' \in 0..MaxMishaps /\ calls' \in 0..MaxCalls
    BY <1>1, TypeFail DEF SkipFile, TypeOK, counters
  <2> QED
    BY <1>0, <1>1, <2>2, <2>3 DEF SkipFile, TypeOK, runFiles, history
<1>2. CASE ReadUntrusted(h)
  <2>1. job[h].at # "idle" /\ Enter(h, "deciding")
    BY <1>2 DEF ReadUntrusted, MoreFiles
  <2> QED
    BY <1>0, <1>2, <2>1, TypeEnter DEF ReadUntrusted, TypeOK, runFiles, counters, history
<1>3. CASE ReadTrusted(h)
  <2>1. job[h].at # "idle" /\ Enter(h, "patching")
    BY <1>3 DEF ReadTrusted, MoreFiles
  <2>2. spoiled' \in SUBSET Project
    <3>1. File(h) \in Path
      BY <1>3, FileType DEF ReadTrusted, MoreFiles, Preparing
    <3> QED
      BY <1>3, <3>1, ReadingAssumption DEF ReadTrusted, Spoil, TypeOK
  <2> QED
    BY <1>0, <1>3, <2>1, <2>2, TypeEnter DEF ReadTrusted, TypeOK, runFiles, counters
<1>4. CASE Decide(h)
  <2>1. job[h].at = "deciding" /\ job[h].run \in Run /\ File(h) \in Path
    BY <1>4, FileType DEF Decide, Preparing, JobInv, PreparingOf
  <2>2. PICK d \in Decision[File(h)] :
          job' = [job EXCEPT ![h].at = "reading", ![h].n = @ + 1,
                             ![h].built = Append(@, Built(File(h), d))]
    BY <1>4 DEF Decide
  <2>3. Built(File(h), d) \in Action
    BY <2>1, <2>2, BuiltType
  <2>4. Append(job[h].built, Built(File(h), d)) \in Seq(Action) /\ job[h].n + 1 \in Nat
    BY <2>3 DEF TypeOK, Job
  <2> DEFINE j == [job[h] EXCEPT !.at = "reading", !.n = job[h].n + 1,
                                 !.built = Append(job[h].built, Built(File(h), d))]
  <2>a. job \in [Host -> Job]
    BY DEF TypeOK
  <2>b. job' = [job EXCEPT ![h] = j]
    BY <2>2, <2>a
  <2>c. j \in Job /\ j.run \in Run
    BY <2>1, <2>4, <2>a DEF Job
  <2> HIDE DEF j
  <2>5. /\ job' \in [Host -> Job]
        /\ \A g \in Host : job'[g].at # "idle" => job'[g].run \in Run
    BY <2>b, <2>c, TypeJob
  <2> QED
    BY <1>0, <1>4, <2>5 DEF Decide, TypeOK, runFiles, counters, history
<1>5. CASE FinishPrepare(h)
  <2>1. job[h].run \in Run /\ job[h].built \in Seq(Action)
    BY <1>5 DEF FinishPrepare, TypeOK, Job
  <2>2. /\ plan' \in [Run -> Seq(Action) \cup {NoPlan}]
        /\ queue' \in [Run -> {"none", "clear", "required"}]
    BY <1>5, <2>1 DEF FinishPrepare, TypeOK
  <2>3. job' = [job EXCEPT ![h] = NoJob]
    BY <1>5 DEF FinishPrepare
  <2> QED
    BY <1>0, <1>5, <2>2, <2>3, TypeEnd DEF FinishPrepare, TypeOK, counters, history
<1> QED
  BY <1>1, <1>2, <1>3, <1>4, <1>5

LEMMA TypeCorrecting ==
  ASSUME TypeOK, BooksInv', NEW h \in Host,
         (\E r \in Run : Correct(h, r) \/ CorrectNothing(h, r)) \/ WriteReview(h)
  PROVE  TypeOK'
<1>0. LedgerTypeOK'
  BY DEF BooksInv
<1>1. ASSUME NEW r \in Run, Correct(h, r)
      PROVE  TypeOK'
  <2>1. /\ job' \in [Host -> Job]
        /\ \A g \in Host : job'[g].at # "idle" => job'[g].run \in Run
    BY <1>1, NoJobType DEF Correct, TypeOK, Job
  <2>2. spoiled' \in SUBSET Project
    BY <1>1, ReadingAssumption DEF Correct, Spoil, TypeOK
  <2> QED
    BY <1>0, <1>1, <2>1, <2>2, TypeBegin DEF Correct, TypeOK, runFiles
<1>2. ASSUME NEW r \in Run, CorrectNothing(h, r)
      PROVE  TypeOK'
  <2>1. /\ job' \in [Host -> Job]
        /\ \A g \in Host : job'[g].at # "idle" => job'[g].run \in Run
    BY <1>2, NoJobType DEF CorrectNothing, TypeOK, Job
  <2> QED
    BY <1>0, <1>2, <2>1, TypeBegin DEF CorrectNothing, TypeOK, runFiles, history
<1>3. CASE WriteReview(h)
  <2>1. job' = [job EXCEPT ![h] = NoJob] /\ reviewed' \in SUBSET Run
    BY <1>3 DEF WriteReview, TypeOK
  <2> QED
    BY <1>0, <1>3, <2>1, TypeEnd DEF WriteReview, TypeOK, counters, history
<1> QED
  BY <1>1, <1>2, <1>3

LEMMA TypeExecuting ==
  ASSUME TypeOK, JobInv, BooksInv', NEW h \in Host,
         \/ \E r \in Run : Execute(h, r)
         \/ FindArchived(h) \/ Block(h) \/ BlockUnwritable(h) \/ RaiseUndecided(h)
         \/ Check(h) \/ Move(h) \/ CopyOnly(h) \/ Recording(h) \/ FinishExecute(h)
  PROVE  TypeOK'
<1>0. LedgerTypeOK'
  BY DEF BooksInv
<1>1. ASSUME NEW r \in Run, Execute(h, r)
      PROVE  TypeOK'
  <2>1. (r \in reviewed) \in BOOLEAN
    OBVIOUS
  <2> DEFINE cleared == r \in reviewed
             new == [NoJob EXCEPT !.at = "executing", !.run = r, !.cleared = cleared]
  <2>2. job' = [job EXCEPT ![h] = new]
    BY <1>1 DEF Execute
  <2> HIDE DEF cleared
  <2>3. cleared \in BOOLEAN
    BY DEF cleared
  <2>4. new \in Job /\ new.run \in Run
    BY <2>3, NoJobType DEF Job
  <2> HIDE DEF new
  <2>5. /\ job' \in [Host -> Job]
        /\ \A g \in Host : job'[g].at # "idle" => job'[g].run \in Run
    BY <2>2, <2>4 DEF TypeOK
  <2> QED
    BY <1>0, <1>1, <2>5, TypeBegin DEF Execute, TypeOK, runFiles, history
<1>2. CASE FindArchived(h)
  <2>1. job[h].at # "idle" /\ Report(h, "already_archived")
    BY <1>2 DEF FindArchived, MoreActions
  <2> QED
    BY <1>0, <1>2, <2>1, TypeReport DEF FindArchived, TypeOK, runFiles, counters, history, Outcome
<1>3. CASE Block(h)
  <2>1. job[h].at # "idle" /\ Report(h, "blocked")
    BY <1>3 DEF Block, MoreActions
  <2> QED
    BY <1>0, <1>3, <2>1, TypeReport DEF Block, TypeOK, runFiles, counters, history, Outcome
<1>4. CASE BlockUnwritable(h)
  <2>1. job[h].at # "idle" /\ Report(h, "blocked") /\ Fail
    BY <1>4 DEF BlockUnwritable, MoreActions
  <2> QED
    BY <1>0, <1>4, <2>1, TypeReport, TypeFail DEF BlockUnwritable, TypeOK, runFiles, history, Outcome
<1>5. CASE RaiseUndecided(h)
  <2>1. job' = [job EXCEPT ![h] = NoJob]
    BY <1>5 DEF RaiseUndecided
  <2> QED
    BY <1>0, <1>5, <2>1, TypeEnd DEF RaiseUndecided, TypeOK, runFiles, counters, history
<1>6. CASE Check(h)
  <2>1. job[h].at # "idle" /\ Enter(h, "checked") /\ raced' \in BOOLEAN
    BY <1>6 DEF Check, MoreActions
  <2> QED
    BY <1>0, <1>6, <2>1, TypeEnter DEF Check, TypeOK, runFiles, counters
<1>7. CASE Move(h)
  <2>1. job[h].at = "checked" /\ Enter(h, "moved")
    BY <1>7 DEF Move
  <2>2. Acting(h) \in Action /\ Acting(h).target \in Path /\ RecordOf(h) \in Record
    BY <2>1, ActingType DEF JobInv, ExecutingOf, Executing, TypeOK
  <2>3. disk' \in [Path -> Content \cup {Absent}] /\ moves' \in SUBSET Record
    BY <1>7, <2>2 DEF Move, TypeOK, Action
  <2> QED
    BY <1>0, <1>7, <2>1, <2>3, TypeEnter DEF Move, TypeOK, runFiles, counters
<1>8. CASE CopyOnly(h)
  <2>1. job[h].at = "checked" /\ job' = [job EXCEPT ![h] = NoJob]
    BY <1>8 DEF CopyOnly
  <2>2. Acting(h) \in Action /\ Acting(h).target \in Path
    BY <2>1, ActingType DEF JobInv, ExecutingOf, Executing, TypeOK
  <2>3. disk' \in [Path -> Content \cup {Absent}]
    BY <1>8, <2>2 DEF CopyOnly, TypeOK, Action
  <2> QED
    BY <1>0, <1>8, <2>1, <2>3, TypeEnd, TypeFail DEF CopyOnly, TypeOK, runFiles, history
<1>9. CASE Recording(h)
  <2>1. job[h].at = "moved" /\ Enter(h, "recording")
    BY <1>9 DEF Recording
  <2>a. Acting(h) \in Action
    BY <2>1, ActingType DEF JobInv, ExecutingOf, Executing, TypeOK
  <2>2. Acting(h).home \in Project
    BY <2>a DEF Action
  <2>3. spoiled' \in SUBSET Project
    BY <1>9, <2>2 DEF Recording, Spoil, TypeOK
  <2> QED
    BY <1>0, <1>9, <2>1, <2>3, TypeEnter DEF Recording, TypeOK, runFiles, counters
<1>10. CASE FinishExecute(h)
  <2>1. job[h].run \in Run /\ job[h].out \in Seq(Outcome)
    BY <1>10 DEF FinishExecute, TypeOK, Job
  <2>2. result' \in [Run -> Seq(Outcome) \cup {NoResult}]
    BY <1>10, <2>1 DEF FinishExecute, TypeOK
  <2>3. job' = [job EXCEPT ![h] = NoJob]
    BY <1>10 DEF FinishExecute
  <2> QED
    BY <1>0, <1>10, <2>2, <2>3, TypeEnd DEF FinishExecute, TypeOK, counters, history
<1> QED
  BY <1>1, <1>2, <1>3, <1>4, <1>5, <1>6, <1>7, <1>8, <1>9, <1>10

\* What a call that is left behind leaves unfinished are projects.
LEMMA TypeLeave ==
  ASSUME TypeOK, BooksInv', NEW h \in Host, Leave(h),
         edits' \in 0..MaxMishaps, failures' \in 0..MaxMishaps, calls' \in 0..MaxCalls
  PROVE  TypeOK'
BY TypeEnd DEF Leave, TypeOK, BooksInv, runFiles

LEMMA TypeRest ==
  ASSUME TypeOK, BooksInv', NEW h \in Host,
         LedgerStep(h) \/ LedgerReturn(h) \/ Raise(h) \/ Die(h)
  PROVE  TypeOK'
<1>0. LedgerTypeOK'
  BY DEF BooksInv
<1>1. CASE LedgerStep(h)
  BY <1>0, <1>1 DEF LedgerStep, TypeOK, runFiles, counters, history
<1>2. CASE LedgerReturn(h)
  <2>1. /\ job[h].at # "idle"
        /\ Enter(h, "deciding") \/ Enter(h, "corrected") \/ Report(h, "archived")
    BY <1>2 DEF LedgerReturn
  <2>2. /\ job' \in [Host -> Job]
        /\ \A g \in Host : job'[g].at # "idle" => job'[g].run \in Run
    BY <2>1, TypeEnter, TypeReport DEF Outcome
  <2> QED
    BY <1>0, <1>2, <2>2 DEF LedgerReturn, TypeOK, runFiles, counters, history
<1>3. CASE Raise(h)
  BY <1>3, TypeLeave DEF Raise, TypeOK, counters
<1>4. CASE Die(h)
  BY <1>4, TypeLeave, TypeFail DEF Die
<1> QED
  BY <1>1, <1>2, <1>3, <1>4

LEMMA TypeStep ==
  ASSUME TypeOK, JobInv, BooksInv', Next
  PROVE  TypeOK'
<1>1. ASSUME NEW h \in Host, HostStep(h)
      PROVE  TypeOK'
  BY <1>1, TypePrepare, TypeReading, TypeCorrecting, TypeExecuting, TypeRest DEF HostStep
<1>2. ASSUME NEW r \in Run, Audit(r)
      PROVE  TypeOK'
  BY <1>2 DEF Audit, TypeOK, BooksInv, counters, history
<1>3. ASSUME NEW p \in Path, Edit(p)
      PROVE  TypeOK'
  BY <1>3, BoundAssumption DEF Edit, TypeOK, BooksInv, runFiles, history
<1> QED
  BY <1>1, <1>2, <1>3 DEF Next

-----------------------------------------------------------------------------
(* The ledger calls that the steps make.                                    *)

LEMMA BooksStep ==
  ASSUME TypeOK, BooksInv, JobInv, Next
  PROVE  BooksInv'
<1>1. ASSUME NEW h \in Host, HostStep(h)
      PROVE  BooksInv'
  <2>1. ASSUME NEW r \in Run,
               Prepare(h, r) \/ CorrectNothing(h, r) \/ Execute(h, r)
        PROVE  BooksInv'
    BY <2>1, BooksQuiet DEF Prepare, CorrectNothing, Execute, history
  <2>2. CASE \/ SkipFile(h) \/ ReadUntrusted(h) \/ Decide(h) \/ FinishPrepare(h)
             \/ WriteReview(h) \/ FindArchived(h) \/ Block(h) \/ BlockUnwritable(h)
             \/ RaiseUndecided(h) \/ Check(h) \/ Move(h) \/ CopyOnly(h) \/ FinishExecute(h)
    <3>1. UNCHANGED ledgerVars /\ moves \subseteq moves'
      BY <2>2 DEF SkipFile, ReadUntrusted, Decide, FinishPrepare, WriteReview, FindArchived,
         Block, BlockUnwritable, RaiseUndecided, Check, Move, CopyOnly, FinishExecute, history
    <3> QED
      BY <3>1, BooksQuiet
  <2>3. CASE ReadTrusted(h)
    <3>1. File(h) \in Path
      BY <2>3, FileType DEF ReadTrusted, MoreFiles, Preparing
    <3>2. PICK e \in Extraction[File(h)] : BeginPatch(h, e.project, e.patch)
      BY <2>3 DEF ReadTrusted
    <3>3. e.project \in Project /\ e.patch \in Patch
      BY <3>1, <3>2, ReadingAssumption
    <3> QED
      BY <2>3, <3>2, <3>3, BooksPatch DEF ReadTrusted
  <2>4. ASSUME NEW r \in Run, Correct(h, r)
        PROVE  BooksInv'
    <3>1. PICK e \in Correction : BeginPatch(h, e.project, e.patch)
      BY <2>4 DEF Correct
    <3>2. e.project \in Project /\ e.patch \in Patch
      BY <3>1, ReadingAssumption
    <3> QED
      BY <2>4, <3>1, <3>2, BooksPatch DEF Correct
  <2>5. CASE Recording(h)
    <3>1. job[h].at = "moved" /\ BeginRecord(h, Acting(h).home, RecordOf(h)) /\ UNCHANGED moves
      BY <2>5 DEF Recording
    <3>2. Executing(h) /\ job[h].n \in DOMAIN plan[job[h].run]
      BY <3>1 DEF Executing, JobInv, ExecutingOf, TypeOK
    <3>3. Acting(h) \in Action /\ Acting(h).target \in Path /\ RecordOf(h) \in moves
      BY <3>1, <3>2, ActingType DEF JobInv, ExecutingOf
    <3>4. Acting(h).home \in Project /\ RecordOf(h) \in Record
      BY <3>2, <3>3, ActingType DEF Action
    <3> QED
      BY <3>1, <3>3, <3>4, BooksRecord
  <2>6. CASE LedgerStep(h)
    BY <2>6, BooksSave DEF LedgerStep, history
  <2>7. CASE LedgerReturn(h)
    BY <2>7, BooksFill DEF LedgerReturn, history
  <2>8. CASE Raise(h) \/ Die(h)
    BY <2>8, BooksDrop DEF Raise, Die, Leave
  <2> QED
    BY <1>1, <2>1, <2>2, <2>3, <2>4, <2>5, <2>6, <2>7, <2>8 DEF HostStep
<1>2. ASSUME NEW r \in Run, Audit(r)
      PROVE  BooksInv'
  BY <1>2, BooksQuiet DEF Audit, history
<1>3. ASSUME NEW p \in Path, Edit(p)
      PROVE  BooksInv'
  BY <1>3, BooksQuiet DEF Edit, history
<1> QED
  BY <1>1, <1>2, <1>3 DEF Next

-----------------------------------------------------------------------------
(* The calls of hosts.                                                      *)

\* What no step takes back: moves, reviews, runs, and a plan that is there.
Steady ==
  /\ moves \subseteq moves' /\ reviewed \subseteq reviewed' /\ started \subseteq started'
  /\ \A r \in Run : plan[r] # NoPlan => plan'[r] = plan[r]

LEMMA SteadyStep ==
  ASSUME TypeOK, JobInv, Next
  PROVE  Steady
<1>1. ASSUME NEW h \in Host, FinishPrepare(h)
      PROVE  Steady
  <2>1. plan[job[h].run] = NoPlan /\ job[h].run \in Run
    BY <1>1 DEF JobInv, PreparingOf, Preparing, FinishPrepare, TypeOK
  <2> QED
    BY <1>1, <2>1 DEF FinishPrepare, Steady, history, TypeOK
<1>2. ASSUME NEW h \in Host, HostStep(h), ~FinishPrepare(h)
      PROVE  Steady
  BY <1>2 DEF HostStep, Steady, runFiles, history, Prepare, Correct, CorrectNothing, Execute,
     SkipFile, ReadUntrusted, ReadTrusted, Decide, WriteReview, FindArchived, Block,
     BlockUnwritable, RaiseUndecided, Check, Move, CopyOnly, Recording, FinishExecute,
     LedgerStep, LedgerReturn, Raise, Die, Leave
<1>3. ASSUME NEW r \in Run, Audit(r)
      PROVE  Steady
  BY <1>3 DEF Audit, Steady, history
<1>4. ASSUME NEW p \in Path, Edit(p)
      PROVE  Steady
  BY <1>4 DEF Edit, Steady, runFiles, history
<1> QED
  BY <1>1, <1>2, <1>3, <1>4 DEF Next

LEMMA SaysSteady ==
  ASSUME Steady, NEW r \in Run, plan[r] # NoPlan, NEW n, NEW outcome, Says(r, n, outcome)
  PROVE  Says(r, n, outcome)'
BY DEF Steady, Says

\* An execution is not disturbed by the others.
LEMMA ExecutingKept ==
  ASSUME TypeOK, Steady, NEW g \in Host, ExecutingOf(g), job'[g] = job[g]
  PROVE  ExecutingOf(g)'
<1> SUFFICES ASSUME Executing(g)
             PROVE  ExecutingOf(g)'
  BY DEF ExecutingOf, Executing
<1> DEFINE r == job[g].run
<1>1. r \in Run /\ plan[r] # NoPlan /\ plan'[r] = plan[r]
  BY DEF ExecutingOf, Executing, Steady, TypeOK
<1>2. \A n \in 1..(job[g].n - 1) : Says(r, n, job[g].out[n])'
  BY <1>1, SaysSteady DEF ExecutingOf
<1>3. Acting(g)' = Acting(g) /\ RecordOf(g)' = RecordOf(g)
  BY <1>1 DEF Acting, RecordOf
<1>4. job[g].cleared => r \in reviewed'
  BY DEF ExecutingOf, Steady
<1>5. job[g].at \in {"moved", "recording"} => RecordOf(g) \in moves'
  BY DEF ExecutingOf, Steady
<1> QED
  BY <1>1, <1>2, <1>3, <1>4, <1>5 DEF ExecutingOf

\* A step of h, and what it has to show.
LEMMA JobFrame ==
  ASSUME TypeOK, JobInv, Steady, NEW h \in Host,
         \A g \in Host \ {h} : job'[g] = job[g],
         \A g \in Host \ {h} : Preparing(g) =>
           /\ plan'[job[g].run] = plan[job[g].run]
           /\ queue'[job[g].run] = queue[job[g].run],
         PreparingOf(h)', ExecutingOf(h)'
  PROVE  JobInv'
<1> SUFFICES ASSUME NEW g \in Host \ {h}
             PROVE  PreparingOf(g)' /\ ExecutingOf(g)'
  BY DEF JobInv
<1>1. ExecutingOf(g)'
  BY ExecutingKept DEF JobInv
<1>2. PreparingOf(g)'
  <2> SUFFICES ASSUME Preparing(g)
               PROVE  PreparingOf(g)'
    BY DEF PreparingOf, Preparing
  <2>1. /\ job[g].run \in started'
        /\ plan'[job[g].run] = NoPlan /\ queue'[job[g].run] = "none"
        /\ job[g].at # "reading" => job[g].n \in DOMAIN Input[job[g].run]
    BY DEF JobInv, PreparingOf, Steady
  <2>2. ASSUME NEW x \in Host \ {g}, Preparing(x)'
        PROVE  job'[x].run # job[g].run
    <3>1. CASE x = h
      BY <2>2, <3>1 DEF PreparingOf, Preparing
    <3>2. CASE x # h
      BY <2>2, <3>2 DEF JobInv, PreparingOf, Preparing
    <3> QED
      BY <3>1, <3>2
  <2> QED
    BY <2>1, <2>2 DEF PreparingOf
<1> QED
  BY <1>1, <1>2

\* A call that is no preparation and no execution has nothing to show.
LEMMA JobElsewhere ==
  ASSUME TypeOK, JobInv, Steady, NEW h \in Host,
         \A g \in Host \ {h} : job'[g] = job[g], UNCHANGED <<plan, queue>>,
         job'[h].at \in {"idle", "correcting", "corrected"}
  PROVE  JobInv'
<1>1. PreparingOf(h)' /\ ExecutingOf(h)'
  BY DEF PreparingOf, ExecutingOf, Preparing, Executing
<1> QED
  BY <1>1, JobFrame

\* A preparation that goes on.
LEMMA JobPreparing ==
  ASSUME TypeOK, JobInv, Steady, NEW h \in Host, Preparing(h),
         \A g \in Host \ {h} : job'[g] = job[g], UNCHANGED <<plan, queue>>,
         Preparing(h)', job'[h].run = job[h].run,
         job'[h].at # "reading" => job'[h].n \in DOMAIN Input[job[h].run]
  PROVE  JobInv'
<1>1. PreparingOf(h)'
  BY DEF JobInv, PreparingOf, Steady, Preparing
<1>2. ExecutingOf(h)'
  BY DEF ExecutingOf, Executing, Preparing
<1> QED
  BY <1>1, <1>2, JobFrame

\* An execution that goes on with the same action.
LEMMA JobActing ==
  ASSUME TypeOK, JobInv, Steady, NEW h \in Host, Executing(h), UNCHANGED <<plan, queue>>,
         job[h].n \in DOMAIN plan[job[h].run],
         NEW at \in {"checked", "moved", "recording"}, Enter(h, at),
         Acting(h).target \in Path,
         "human_review_recommended" \in Acting(h).blockers => job[h].cleared,
         at # "checked" => RecordOf(h) \in moves'
  PROVE  JobInv'
<1>0. PICK r \in Run, k \in Nat, out \in Seq(Outcome) :
        r = job[h].run /\ k = job[h].n /\ out = job[h].out
  BY DEF TypeOK, Job, Executing
<1>1. /\ job \in [Host -> Job] /\ plan[r] # NoPlan /\ plan'[r] = plan[r]
      /\ k \in 1..Len(plan[r])
  BY <1>0, ActingType DEF TypeOK, JobInv, ExecutingOf, Executing
<1>2. /\ job'[h].at = at /\ job'[h].run = r /\ job'[h].n = k
      /\ job'[h].out = out /\ job'[h].cleared = job[h].cleared
      /\ \A g \in Host \ {h} : job'[g] = job[g]
  BY <1>0, <1>1 DEF Enter, Job
<1>3. \A n \in 1..(k - 1) : Says(r, n, out[n])'
  BY <1>0, <1>1, SaysSteady DEF JobInv, ExecutingOf
<1>4. Acting(h)' = Acting(h) /\ RecordOf(h)' = RecordOf(h)
  BY <1>0, <1>1, <1>2 DEF Acting, RecordOf
<1>5. /\ k \in 1..(Len(plan[r]) + 1) /\ Len(out) = k - 1
      /\ job[h].cleared => r \in reviewed'
  BY <1>0 DEF JobInv, ExecutingOf, Steady
<1>6. ExecutingOf(h)'
  BY <1>0, <1>1, <1>2, <1>3, <1>4, <1>5 DEF ExecutingOf
<1>7. PreparingOf(h)'
  BY <1>2 DEF PreparingOf, Preparing
<1> QED
  BY <1>2, <1>6, <1>7, JobFrame

\* An execution that reports on an action.
LEMMA JobReport ==
  ASSUME TypeOK, JobInv, Steady, NEW h \in Host, Executing(h), UNCHANGED <<plan, queue>>,
         job[h].n \in DOMAIN plan[job[h].run],
         NEW outcome \in Outcome, Report(h, outcome), Says(job[h].run, job[h].n, outcome)
  PROVE  JobInv'
<1>0. PICK r \in Run, k \in Nat, out \in Seq(Outcome) :
        r = job[h].run /\ k = job[h].n /\ out = job[h].out
  BY DEF TypeOK, Job, Executing
<1>1. /\ job \in [Host -> Job] /\ plan[r] # NoPlan /\ plan'[r] = plan[r]
      /\ k \in 1..Len(plan[r]) /\ Len(plan[r]) \in Nat
  BY <1>0, ActingType DEF TypeOK, JobInv, ExecutingOf, Executing, Job
<1>2. /\ job'[h].at = "executing" /\ job'[h].run = r /\ job'[h].n = k + 1
      /\ job'[h].out = Append(out, outcome) /\ job'[h].cleared = job[h].cleared
      /\ \A g \in Host \ {h} : job'[g] = job[g]
  BY <1>0, <1>1 DEF Report, Job
<1>3. Len(out) = k - 1 /\ (job[h].cleared => r \in reviewed')
  BY <1>0 DEF JobInv, ExecutingOf, Steady
<1>4. \A n \in 1..(k - 1) : Says(r, n, out[n])'
  BY <1>0, <1>1, SaysSteady DEF JobInv, ExecutingOf
<1>5. Says(r, k, outcome)'
  BY <1>0, <1>1, SaysSteady
<1>6. /\ Len(Append(out, outcome)) = k
      /\ \A n \in 1..(k - 1) : Append(out, outcome)[n] = out[n]
      /\ Append(out, outcome)[k] = outcome
  BY <1>1, <1>3
<1>7. \A n \in 1..k : Says(r, n, Append(out, outcome)[n])'
  <2> SUFFICES ASSUME NEW n \in 1..k PROVE Says(r, n, Append(out, outcome)[n])'
    OBVIOUS
  <2>1. CASE n = k
    BY <1>5, <1>6, <2>1 DEF Says
  <2>2. CASE n # k
    <3>1. n \in 1..(k - 1)
      BY <1>1, <2>2
    <3> QED
      BY <1>4, <1>6, <3>1 DEF Says
  <2> QED
    BY <2>1, <2>2
<1>8. ExecutingOf(h)'
  BY <1>1, <1>2, <1>3, <1>6, <1>7 DEF ExecutingOf
<1>9. PreparingOf(h)'
  BY <1>2 DEF PreparingOf, Preparing
<1> QED
  BY <1>2, <1>8, <1>9, JobFrame

LEMMA JobUnchanged ==
  ASSUME TypeOK, JobInv, Steady, UNCHANGED <<job, plan, queue>>
  PROVE  JobInv'
<1> SUFFICES ASSUME NEW g \in Host
             PROVE  PreparingOf(g)' /\ ExecutingOf(g)'
  BY DEF JobInv
<1>1. ExecutingOf(g)'
  BY ExecutingKept DEF JobInv
<1>2. PreparingOf(g)'
  BY DEF JobInv, PreparingOf, Preparing, Steady
<1> QED
  BY <1>1, <1>2

LEMMA JobStepPreparing ==
  ASSUME TypeOK, JobInv, RunInv, Steady, NEW h \in Host,
         \/ \E r \in Run : Prepare(h, r)
         \/ SkipFile(h) \/ ReadUntrusted(h) \/ ReadTrusted(h) \/ Decide(h) \/ FinishPrepare(h)
  PROVE  JobInv'
<1>0. job \in [Host -> Job]
  BY DEF TypeOK
<1>1. ASSUME NEW r \in Run, Prepare(h, r)
      PROVE  JobInv'
  <2>1. /\ job'[h].at = "reading" /\ job'[h].run = r
        /\ \A g \in Host \ {h} : job'[g] = job[g]
        /\ UNCHANGED <<plan, queue>> /\ r \in started' /\ r \notin started
    BY <1>0, <1>1 DEF Prepare, NoJob
  <2>2. plan[r] = NoPlan /\ queue[r] = "none"
    BY <2>1 DEF RunInv
  <2>3. \A g \in Host \ {h} : Preparing(g) => job[g].run # r
    BY <2>1 DEF JobInv, PreparingOf
  <2>4. PreparingOf(h)'
    BY <2>1, <2>2, <2>3 DEF PreparingOf, Preparing
  <2>5. ExecutingOf(h)'
    BY <2>1 DEF ExecutingOf, Executing
  <2> QED
    BY <2>1, <2>4, <2>5, JobFrame
<1>2. CASE SkipFile(h)
  <2>1. /\ job[h].at = "reading" /\ job'[h].at = "reading" /\ job'[h].run = job[h].run
        /\ \A g \in Host \ {h} : job'[g] = job[g]
        /\ UNCHANGED <<plan, queue>>
    BY <1>0, <1>2 DEF SkipFile, MoreFiles, runFiles, Job
  <2> QED
    BY <2>1, JobPreparing DEF Preparing
<1>3. CASE ReadUntrusted(h) \/ ReadTrusted(h)
  <2>1. /\ job[h].at = "reading" /\ job'[h].at \in {"patching", "deciding"}
        /\ job'[h].run = job[h].run /\ job'[h].n = job[h].n
        /\ job[h].n \in DOMAIN Input[job[h].run]
        /\ \A g \in Host \ {h} : job'[g] = job[g]
        /\ UNCHANGED <<plan, queue>>
    BY <1>0, <1>3 DEF ReadUntrusted, ReadTrusted, Enter, MoreFiles, runFiles, Job
  <2> QED
    BY <2>1, JobPreparing DEF Preparing
<1>4. CASE Decide(h)
  <2>a. PICK d \in Decision[File(h)] :
          job' = [job EXCEPT ![h].at = "reading", ![h].n = @ + 1,
                             ![h].built = Append(@, Built(File(h), d))]
    BY <1>4 DEF Decide
  <2>b. job[h].at = "deciding" /\ UNCHANGED <<plan, queue>> /\ job[h] \in Job
    BY <1>0, <1>4 DEF Decide, runFiles
  <2>1. /\ job[h].at = "deciding" /\ job'[h].at = "reading" /\ job'[h].run = job[h].run
        /\ \A g \in Host \ {h} : job'[g] = job[g]
        /\ UNCHANGED <<plan, queue>>
    BY <1>0, <2>a, <2>b DEF Job
  <2> QED
    BY <2>1, JobPreparing DEF Preparing
<1>5. CASE FinishPrepare(h)
  <2>1. /\ job[h].at = "reading" /\ job'[h].at = "idle"
        /\ \A g \in Host \ {h} : job'[g] = job[g]
    BY <1>0, <1>5 DEF FinishPrepare, NoJob
  <2>2. \A r \in Run \ {job[h].run} : plan'[r] = plan[r] /\ queue'[r] = queue[r]
    BY <1>5 DEF FinishPrepare, TypeOK
  <2>3. \A g \in Host \ {h} : Preparing(g) => job[g].run \in Run \ {job[h].run}
    BY <2>1 DEF JobInv, PreparingOf, Preparing, TypeOK
  <2>4. PreparingOf(h)' /\ ExecutingOf(h)'
    BY <2>1 DEF PreparingOf, ExecutingOf, Preparing, Executing
  <2> QED
    BY <2>1, <2>2, <2>3, <2>4, JobFrame
<1> QED
  BY <1>1, <1>2, <1>3, <1>4, <1>5

LEMMA JobStepEnding ==
  ASSUME TypeOK, JobInv, Steady, NEW h \in Host,
         \/ \E r \in Run : Correct(h, r) \/ CorrectNothing(h, r)
         \/ WriteReview(h) \/ RaiseUndecided(h) \/ CopyOnly(h) \/ FinishExecute(h)
         \/ Raise(h) \/ Die(h)
  PROVE  JobInv'
<1>0. job \in [Host -> Job]
  BY DEF TypeOK
<1>1. ASSUME NEW r \in Run, Correct(h, r) \/ CorrectNothing(h, r)
      PROVE  JobInv'
  <2>1. /\ job'[h].at \in {"correcting", "corrected"}
        /\ \A g \in Host \ {h} : job'[g] = job[g]
        /\ UNCHANGED <<plan, queue>>
    BY <1>0, <1>1 DEF Correct, CorrectNothing, NoJob, runFiles
  <2> QED
    BY <2>1, JobElsewhere
<1>2. CASE \/ WriteReview(h) \/ RaiseUndecided(h) \/ CopyOnly(h) \/ FinishExecute(h)
           \/ Raise(h) \/ Die(h)
  <2>1. job' = [job EXCEPT ![h] = NoJob] /\ UNCHANGED <<plan, queue>>
    BY <1>2 DEF WriteReview, RaiseUndecided, CopyOnly, FinishExecute, Raise, Die, Leave, runFiles
  <2>2. job'[h].at = "idle" /\ \A g \in Host \ {h} : job'[g] = job[g]
    BY <1>0, <2>1 DEF NoJob
  <2> QED
    BY <2>1, <2>2, JobElsewhere
<1> QED
  BY <1>1, <1>2

LEMMA JobStepExecuting ==
  ASSUME TypeOK, JobInv, Steady, NEW h \in Host,
         \/ \E r \in Run : Execute(h, r)
         \/ FindArchived(h) \/ Block(h) \/ BlockUnwritable(h)
         \/ Check(h) \/ Move(h) \/ Recording(h)
  PROVE  JobInv'
<1>0. job \in [Host -> Job]
  BY DEF TypeOK
<1>a. ASSUME Executing(h), job[h].at # "executing"
      PROVE  /\ job[h].n \in DOMAIN plan[job[h].run] /\ Acting(h).target \in Path
             /\ "human_review_recommended" \in Acting(h).blockers => job[h].cleared
             /\ job[h].at = "moved" => RecordOf(h) \in moves
  BY <1>a DEF JobInv, ExecutingOf, Executing, TypeOK
<1>1. ASSUME NEW r \in Run, Execute(h, r)
      PROVE  JobInv'
  <2>1. job' = [job EXCEPT ![h] = [NoJob EXCEPT
               !.at = "executing", !.run = r, !.cleared = r \in reviewed]]
    BY <1>1 DEF Execute
  <2>2. job'[h].cleared => r \in reviewed
    BY <1>0, <2>1, Zenon DEF NoJob
  <2>3. /\ job'[h].at = "executing" /\ job'[h].run = r /\ job'[h].n = 1
        /\ job'[h].out = <<>>
        /\ \A g \in Host \ {h} : job'[g] = job[g]
    BY <1>0, <2>1 DEF NoJob
  <2>4. /\ plan[r] # NoPlan /\ UNCHANGED <<plan, queue, reviewed>>
        /\ plan[r] \in Seq(Action)
    BY <1>1 DEF Execute, runFiles, TypeOK
  <2>5. ExecutingOf(h)'
    BY <2>2, <2>3, <2>4 DEF ExecutingOf
  <2>6. PreparingOf(h)'
    BY <2>3 DEF PreparingOf, Preparing
  <2> QED
    BY <2>3, <2>4, <2>5, <2>6, JobFrame
<1>2. CASE FindArchived(h)
  <2>1. /\ Executing(h) /\ job[h].n \in DOMAIN plan[job[h].run] /\ Acting(h).archived
        /\ Report(h, "already_archived") /\ UNCHANGED <<plan, queue>>
    BY <1>2 DEF FindArchived, MoreActions, Executing, runFiles
  <2>2. Says(job[h].run, job[h].n, "already_archived")
    BY <2>1 DEF Says, Acting
  <2> QED
    BY <2>1, <2>2, JobReport DEF Outcome
<1>3. CASE Block(h) \/ BlockUnwritable(h)
  <2>1. /\ Executing(h) /\ job[h].n \in DOMAIN plan[job[h].run]
        /\ Report(h, "blocked") /\ UNCHANGED <<plan, queue>>
    BY <1>3 DEF Block, BlockUnwritable, MoreActions, Executing, runFiles
  <2>2. Says(job[h].run, job[h].n, "blocked")
    BY DEF Says
  <2> QED
    BY <2>1, <2>2, JobReport DEF Outcome
<1>4. CASE Check(h)
  <2>1. /\ Executing(h) /\ job[h].n \in DOMAIN plan[job[h].run]
        /\ Enter(h, "checked") /\ UNCHANGED <<plan, queue>>
        /\ Acting(h).target \in Path
        /\ "human_review_recommended" \in Acting(h).blockers => job[h].cleared
    BY <1>4 DEF Check, MoreActions, Executing, runFiles, Stopped, Free
  <2> QED
    BY <2>1, JobActing
<1>5. CASE Move(h)
  <2>1. /\ Executing(h) /\ job[h].at = "checked" /\ Enter(h, "moved")
        /\ UNCHANGED <<plan, queue>> /\ RecordOf(h) \in moves'
    BY <1>5 DEF Move, Executing, runFiles
  <2> QED
    BY <1>a, <2>1, JobActing
<1>6. CASE Recording(h)
  <2>1. /\ Executing(h) /\ job[h].at = "moved" /\ Enter(h, "recording")
        /\ UNCHANGED <<plan, queue, moves>>
    BY <1>6 DEF Recording, Executing, runFiles
  <2> QED
    BY <1>a, <2>1, JobActing
<1> QED
  BY <1>1, <1>2, <1>3, <1>4, <1>5, <1>6

LEMMA JobStepReturn ==
  ASSUME TypeOK, JobInv, Steady, NEW h \in Host, LedgerReturn(h)
  PROVE  JobInv'
<1>0. job \in [Host -> Job] /\ UNCHANGED <<plan, queue, moves>>
  BY DEF TypeOK, LedgerReturn, runFiles, history
<1>1. CASE job[h].at = "patching" /\ Enter(h, "deciding")
  <2>1. /\ job'[h].at = "deciding" /\ job'[h].run = job[h].run /\ job'[h].n = job[h].n
        /\ \A g \in Host \ {h} : job'[g] = job[g]
    BY <1>0, <1>1 DEF Enter, Job
  <2>2. job[h].n \in DOMAIN Input[job[h].run]
    BY <1>1 DEF JobInv, PreparingOf, Preparing
  <2> QED
    BY <1>0, <1>1, <2>1, <2>2, JobPreparing DEF Preparing
<1>2. CASE job[h].at = "correcting" /\ Enter(h, "corrected")
  <2>1. job'[h].at = "corrected" /\ \A g \in Host \ {h} : job'[g] = job[g]
    BY <1>0, <1>2 DEF Enter, Job
  <2> QED
    BY <1>0, <2>1, JobElsewhere
<1>3. CASE job[h].at = "recording" /\ Report(h, "archived")
  <2>1. /\ Executing(h) /\ job[h].n \in DOMAIN plan[job[h].run]
        /\ RecordOf(h) \in moves
    BY <1>3 DEF JobInv, ExecutingOf, Executing, TypeOK
  <2>2. Says(job[h].run, job[h].n, "archived")
    BY <2>1 DEF Says, RecordOf, Acting
  <2> QED
    BY <1>0, <1>3, <2>1, <2>2, JobReport DEF Outcome
<1> QED
  BY <1>1, <1>2, <1>3 DEF LedgerReturn

LEMMA JobStep ==
  ASSUME TypeOK, JobInv, RunInv, Next
  PROVE  JobInv'
<1>0. Steady
  BY SteadyStep
<1>1. ASSUME NEW h \in Host, HostStep(h)
      PROVE  JobInv'
  <2>1. CASE LedgerStep(h)
    BY <1>0, <2>1, JobUnchanged DEF LedgerStep, runFiles
  <2> QED
    BY <1>0, <1>1, <2>1, JobStepPreparing, JobStepEnding, JobStepExecuting, JobStepReturn
       DEF HostStep
<1>2. ASSUME NEW r \in Run, Audit(r)
      PROVE  JobInv'
  BY <1>0, <1>2, JobUnchanged DEF Audit
<1>3. ASSUME NEW p \in Path, Edit(p)
      PROVE  JobInv'
  BY <1>0, <1>3, JobUnchanged DEF Edit, runFiles
<1> QED
  BY <1>1, <1>2, <1>3 DEF Next

-----------------------------------------------------------------------------
(* The directory of a run, its results and its reviews.                     *)

LEMMA RunStep ==
  ASSUME TypeOK, JobInv, RunInv, Next
  PROVE  RunInv'
<1>0. Steady
  BY SteadyStep
<1>a. ASSUME UNCHANGED <<started, plan, queue, result, audit, moves>>
      PROVE  RunInv'
  BY <1>a DEF RunInv
<1>1. ASSUME NEW h \in Host, HostStep(h)
      PROVE  RunInv'
  <2>1. ASSUME NEW r \in Run, Prepare(h, r)
        PROVE  RunInv'
    BY <2>1 DEF Prepare, RunInv, history
  <2>2. CASE FinishPrepare(h)
    <3> DEFINE r == job[h].run
    <3>1. /\ r \in Run /\ r \in started /\ plan[r] = NoPlan /\ queue[r] = "none"
          /\ job[h].built \in Seq(Action)
      BY <2>2 DEF FinishPrepare, JobInv, PreparingOf, Preparing, TypeOK, Job
    <3>2. plan' = [plan EXCEPT ![r] = job[h].built]
      BY <2>2 DEF FinishPrepare
    <3>3. /\ \A q \in Run : q # r => queue'[q] = queue[q]
          /\ UNCHANGED <<started, audit, result, moves>>
      BY <2>2 DEF FinishPrepare, history, TypeOK
    <3>4. plan'[r] # NoPlan
      BY <3>1, <3>2, NoPlanAssumption DEF TypeOK
    <3>5. audit[r] # "pending"
      BY <3>1 DEF RunInv
    <3>6. \A q \in Run : q # r => plan'[q] = plan[q]
      BY <3>2 DEF TypeOK
    <3>7. \A m \in moves : plan'[m.run] # NoPlan
      <4> SUFFICES ASSUME NEW m \in moves PROVE plan'[m.run] # NoPlan
        OBVIOUS
      <4>1. m.run \in Run /\ plan[m.run] # NoPlan
        BY RecordAssumption DEF TypeOK, RunInv
      <4> QED
        BY <3>1, <3>6, <4>1
    <3>8. \A q \in Run :
            /\ q \notin started => plan'[q] = NoPlan /\ queue'[q] = "none"
            /\ result[q] # NoResult => plan'[q] # NoPlan
            /\ audit[q] = "pending" => queue'[q] = "required"
      <4> HIDE DEF r
      <4> QED
        BY <3>1, <3>3, <3>4, <3>5, <3>6 DEF RunInv
    <3> QED
      BY <3>3, <3>7, <3>8 DEF RunInv
  <2>3. CASE Move(h)
    <3>1. Executing(h) /\ job[h].n \in DOMAIN plan[job[h].run]
      BY <2>3 DEF Move, JobInv, ExecutingOf, Executing, TypeOK
    <3>2. /\ plan[job[h].run] # NoPlan /\ RecordOf(h).run = job[h].run
      BY <3>1 DEF JobInv, ExecutingOf, RecordOf
    <3>3. /\ moves' = moves \cup {RecordOf(h)}
          /\ UNCHANGED <<started, plan, queue, result, audit>>
      BY <2>3 DEF Move, runFiles
    <3> QED
      BY <3>2, <3>3 DEF RunInv
  <2>4. CASE FinishExecute(h)
    <3>1. plan[job[h].run] # NoPlan
      BY <2>4 DEF FinishExecute, JobInv, ExecutingOf, Executing
    <3>2. /\ \A q \in Run : q # job[h].run => result'[q] = result[q]
          /\ UNCHANGED <<started, plan, queue, audit, moves>>
      BY <2>4 DEF FinishExecute, history, TypeOK
    <3> QED
      BY <3>1, <3>2 DEF RunInv
  <2>5. CASE \/ \E r \in Run : Correct(h, r) \/ CorrectNothing(h, r) \/ Execute(h, r)
             \/ SkipFile(h) \/ ReadUntrusted(h) \/ ReadTrusted(h) \/ Decide(h)
             \/ WriteReview(h)
             \/ FindArchived(h) \/ Block(h) \/ BlockUnwritable(h) \/ RaiseUndecided(h)
             \/ Check(h) \/ CopyOnly(h) \/ Recording(h)
             \/ LedgerStep(h) \/ LedgerReturn(h) \/ Raise(h) \/ Die(h)
    <3>1. UNCHANGED <<started, plan, queue, result, audit, moves>>
      BY <2>5 DEF Correct, CorrectNothing, Execute, SkipFile, ReadUntrusted, ReadTrusted,
         Decide, WriteReview, FindArchived, Block, BlockUnwritable, RaiseUndecided, Check,
         CopyOnly, Recording, LedgerStep, LedgerReturn, Raise, Die, Leave, runFiles, history
    <3> QED
      BY <1>a, <3>1
  <2> QED
    BY <1>1, <2>1, <2>2, <2>3, <2>4, <2>5 DEF HostStep
<1>2. ASSUME NEW r \in Run, Audit(r)
      PROVE  RunInv'
  BY <1>2 DEF Audit, RunInv, history, TypeOK
<1>3. ASSUME NEW p \in Path, Edit(p)
      PROVE  RunInv'
  BY <1>a, <1>3 DEF Edit, runFiles, history
<1> QED
  BY <1>1, <1>2, <1>3 DEF Next

\* Only an execution that has reported on every action writes a result.
LEMMA ResultStep ==
  ASSUME TypeOK, JobInv, RunInv, ResultsAreTrue, Next
  PROVE  ResultsAreTrue'
<1>0. Steady
  BY SteadyStep
<1>a. ASSUME NEW r \in Run, result'[r] = result[r]
      PROVE  ResultOf(r)'
  <2> SUFFICES ASSUME result[r] # NoResult PROVE ResultOf(r)'
    BY <1>a DEF ResultOf
  <2>1. plan[r] # NoPlan /\ plan'[r] = plan[r]
    BY <1>0, <1>a DEF RunInv, Steady
  <2>2. PICK said : said = result[r]
    OBVIOUS
  <2>3. \A n \in DOMAIN said : Says(r, n, said[n])'
    BY <1>0, <1>a, <2>1, <2>2, SaysSteady DEF ResultsAreTrue, ResultOf
  <2>4. DOMAIN said = DOMAIN plan[r]
    BY <2>2 DEF ResultsAreTrue, ResultOf
  <2> QED
    BY <1>a, <2>1, <2>2, <2>3, <2>4 DEF ResultOf
<1>1. ASSUME NEW h \in Host, FinishExecute(h)
      PROVE  ResultsAreTrue'
  <2>0. PICK r \in Run, out \in Seq(Outcome) : r = job[h].run /\ out = job[h].out
    BY <1>1 DEF FinishExecute, TypeOK, Job
  <2>1. /\ plan[r] # NoPlan /\ plan[r] \in Seq(Action) /\ UNCHANGED plan
        /\ job[h].n \in 1..(Len(plan[r]) + 1) /\ job[h].n \notin DOMAIN plan[r]
        /\ Len(out) = job[h].n - 1
    BY <1>1, <2>0 DEF FinishExecute, JobInv, ExecutingOf, Executing, TypeOK
  <2>2. Len(out) = Len(plan[r]) /\ DOMAIN out = DOMAIN plan[r] /\ DOMAIN out = 1..Len(out)
    BY <2>1
  <2>3. \A n \in DOMAIN out : Says(r, n, out[n])
    BY <1>1, <2>0, <2>1, <2>2 DEF FinishExecute, JobInv, ExecutingOf, Executing
  <2>4. \A n \in DOMAIN out : Says(r, n, out[n])'
    BY <1>0, <2>1, <2>3, SaysSteady
  <2>5. result' = [result EXCEPT ![r] = out]
    BY <1>1, <2>0 DEF FinishExecute
  <2>6. result'[r] = out /\ \A q \in Run : q # r => result'[q] = result[q]
    BY <2>5 DEF TypeOK
  <2> SUFFICES ASSUME NEW q \in Run PROVE ResultOf(q)'
    BY DEF ResultsAreTrue
  <2>7. CASE q = r
    BY <2>1, <2>2, <2>4, <2>6, <2>7 DEF ResultOf
  <2>8. CASE q # r
    BY <1>a, <2>6, <2>8
  <2> QED
    BY <2>7, <2>8
<1>2. ASSUME UNCHANGED result
      PROVE  ResultsAreTrue'
  BY <1>2, <1>a DEF ResultsAreTrue
<1>3. ASSUME NEW h \in Host, HostStep(h), ~FinishExecute(h)
      PROVE  UNCHANGED result
  BY <1>3 DEF HostStep, runFiles, Prepare, Correct, CorrectNothing, Execute,
     SkipFile, ReadUntrusted, ReadTrusted, Decide, FinishPrepare, WriteReview, FindArchived,
     Block, BlockUnwritable, RaiseUndecided, Check, Move, CopyOnly, Recording,
     LedgerStep, LedgerReturn, Raise, Die, Leave
<1>4. (\E r \in Run : Audit(r)) \/ (\E p \in Path : Edit(p)) => UNCHANGED result
  BY DEF Audit, Edit, runFiles
<1> QED
  BY <1>1, <1>2, <1>3, <1>4 DEF Next

LEMMA MovesStep ==
  ASSUME Next
  PROVE  moves' = moves \/ \E h \in Host : Move(h) /\ moves' = moves \cup {RecordOf(h)}
<1>1. ASSUME NEW h \in Host, HostStep(h), ~Move(h)
      PROVE  UNCHANGED moves
  BY <1>1 DEF HostStep, history, Prepare, Correct, CorrectNothing, Execute,
     SkipFile, ReadUntrusted, ReadTrusted, Decide, FinishPrepare, WriteReview, FindArchived,
     Block, BlockUnwritable, RaiseUndecided, Check, CopyOnly, Recording, FinishExecute,
     LedgerStep, LedgerReturn, Raise, Die, Leave
<1>2. ASSUME NEW h \in Host, Move(h)
      PROVE  moves' = moves \cup {RecordOf(h)}
  BY <1>2 DEF Move
<1>3. (\E r \in Run : Audit(r)) \/ (\E p \in Path : Edit(p)) => UNCHANGED moves
  BY DEF Audit, Edit, history
<1> QED
  BY <1>1, <1>2, <1>3 DEF Next

\* A move is of an action that was checked.
LEMMA ReviewStep ==
  ASSUME TypeOK, JobInv, RunInv, ReviewIsAsked, Next
  PROVE  ReviewIsAsked'
<1>0. Steady
  BY SteadyStep
<1>1. ASSUME NEW m \in moves
      PROVE  \/ m.run \in reviewed'
             \/ \E n \in DOMAIN plan'[m.run] :
                  /\ plan'[m.run][n].source = m.source /\ plan'[m.run][n].target = m.target
                  /\ "human_review_recommended" \notin plan'[m.run][n].blockers
  <2>1. m.run \in Run /\ plan[m.run] # NoPlan
    BY RecordAssumption DEF TypeOK, RunInv
  <2>2. plan'[m.run] = plan[m.run] /\ reviewed \subseteq reviewed'
    BY <1>0, <2>1 DEF Steady
  <2> QED
    BY <2>2 DEF ReviewIsAsked
<1>2. ASSUME NEW h \in Host, Move(h)
      PROVE  \/ RecordOf(h).run \in reviewed'
             \/ \E n \in DOMAIN plan'[RecordOf(h).run] :
                  /\ plan'[RecordOf(h).run][n].source = RecordOf(h).source
                  /\ plan'[RecordOf(h).run][n].target = RecordOf(h).target
                  /\ "human_review_recommended" \notin plan'[RecordOf(h).run][n].blockers
  <2>1. Executing(h) /\ job[h].at = "checked" /\ UNCHANGED <<plan, reviewed>>
    BY <1>2 DEF Move, Executing, runFiles
  <2>2. /\ job[h].n \in DOMAIN plan[job[h].run]
        /\ "human_review_recommended" \in Acting(h).blockers => job[h].cleared
        /\ job[h].cleared => job[h].run \in reviewed
    BY <2>1 DEF JobInv, ExecutingOf, TypeOK, Executing
  <2>3. /\ RecordOf(h).run = job[h].run
        /\ RecordOf(h).source = plan[job[h].run][job[h].n].source
        /\ RecordOf(h).target = plan[job[h].run][job[h].n].target
    BY DEF RecordOf, Acting
  <2> QED
    BY <2>1, <2>2, <2>3 DEF Acting
<1>3. moves' = moves \/ \E h \in Host : Move(h) /\ moves' = moves \cup {RecordOf(h)}
  BY MovesStep
<1> QED
  BY <1>1, <1>2, <1>3 DEF ReviewIsAsked

\* An audit that asks for feedback keeps asking, and no execution begins.
LEMMA HeldBackStep ==
  ASSUME TypeOK, RunInv, Next, NEW r \in Run, HeldBack(r)
  PROVE  HeldBack(r)'
<1>0. job \in [Host -> Job] /\ queue[r] = "required" /\ ~GatePasses(r)
  BY DEF TypeOK, RunInv, HeldBack, GatePasses
<1>1. audit'[r] = "pending"
  <2>1. ASSUME NEW h \in Host, HostStep(h)
        PROVE  UNCHANGED audit
    BY <2>1 DEF HostStep, runFiles, Prepare, Correct, CorrectNothing, Execute,
       SkipFile, ReadUntrusted, ReadTrusted, Decide, FinishPrepare, WriteReview, FindArchived,
       Block, BlockUnwritable, RaiseUndecided, Check, Move, CopyOnly, Recording, FinishExecute,
       LedgerStep, LedgerReturn, Raise, Die, Leave
  <2>2. ASSUME NEW q \in Run, Audit(q)
        PROVE  audit'[r] = "pending"
    BY <1>0, <2>2 DEF Audit, TypeOK, HeldBack
  <2>3. (\E p \in Path : Edit(p)) => UNCHANGED audit
    BY DEF Edit, runFiles
  <2> QED
    BY <2>1, <2>2, <2>3 DEF Next, HeldBack
<1>2. ASSUME NEW h \in Host, HostStep(h)
      PROVE  \A g \in Host : Executing(g)' => job'[g].run # r
  <2>1. ASSUME job' = [job EXCEPT ![h] = NoJob] \/ job' = job
        PROVE  \A g \in Host : Executing(g)' => Executing(g) /\ job'[g].run = job[g].run
    BY <1>0, <2>1 DEF Executing, NoJob
  <2>2. ASSUME NEW at, at \in {"deciding", "patching", "corrected"} \/ Executing(h),
               Enter(h, at)
        PROVE  \A g \in Host : Executing(g)' => Executing(g) /\ job'[g].run = job[g].run
    BY <1>0, <2>2 DEF Executing, Enter, Job
  <2>3. ASSUME NEW outcome, Executing(h), Report(h, outcome)
        PROVE  \A g \in Host : Executing(g)' => Executing(g) /\ job'[g].run = job[g].run
    BY <1>0, <2>3 DEF Executing, Report, Job
  <2>4. ASSUME NEW q \in Run, Execute(h, q)
        PROVE  \A g \in Host : Executing(g)' =>
                 job'[g].run = q \/ (Executing(g) /\ job'[g].run = job[g].run)
    BY <1>0, <2>4 DEF Execute, Executing, NoJob
  <2>5. ASSUME NEW q \in Run, Prepare(h, q) \/ Correct(h, q) \/ CorrectNothing(h, q)
        PROVE  \A g \in Host : Executing(g)' => Executing(g) /\ job'[g].run = job[g].run
    <3>1. /\ job'[h].at \in {"reading", "correcting", "corrected"}
          /\ \A g \in Host \ {h} : job'[g] = job[g]
      BY <1>0, <2>5 DEF Prepare, Correct, CorrectNothing, NoJob
    <3> QED
      BY <3>1 DEF Executing
  <2>6. CASE SkipFile(h)
    <3>1. job[h].at = "reading" /\ job' = [job EXCEPT ![h].n = @ + 1]
      BY <2>6 DEF SkipFile, MoreFiles
    <3> QED
      BY <1>0, <3>1 DEF Executing, Job, HeldBack
  <2>7. CASE Decide(h)
    <3>1. PICK d \in Decision[File(h)] :
            job' = [job EXCEPT ![h].at = "reading", ![h].n = @ + 1,
                               ![h].built = Append(@, Built(File(h), d))]
      BY <2>7 DEF Decide
    <3>2. job'[h].at = "reading" /\ \A g \in Host \ {h} : job'[g] = job[g]
      BY <1>0, <3>1 DEF Job
    <3> QED
      BY <3>2 DEF Executing, HeldBack
  <2>8. CASE \E q \in Run : Execute(h, q)
    BY <1>0, <2>4, <2>8 DEF HeldBack, Execute
  <2>9. CASE \/ \E q \in Run : Prepare(h, q) \/ Correct(h, q) \/ CorrectNothing(h, q)
             \/ ReadUntrusted(h) \/ ReadTrusted(h) \/ FinishPrepare(h) \/ WriteReview(h)
             \/ FindArchived(h) \/ Block(h) \/ BlockUnwritable(h) \/ RaiseUndecided(h)
             \/ Check(h) \/ Move(h) \/ CopyOnly(h) \/ Recording(h) \/ FinishExecute(h)
             \/ LedgerStep(h) \/ LedgerReturn(h) \/ Raise(h) \/ Die(h)
    <3>1. \/ job' = [job EXCEPT ![h] = NoJob] \/ job' = job
          \/ \E at \in {"deciding", "patching", "corrected"} : Enter(h, at)
          \/ Executing(h) /\ \E at \in {"checked", "moved", "recording"} : Enter(h, at)
          \/ Executing(h) /\ \E outcome \in Outcome : Report(h, outcome)
          \/ \E q \in Run : Prepare(h, q) \/ Correct(h, q) \/ CorrectNothing(h, q)
      BY <2>9 DEF ReadUntrusted, ReadTrusted, FinishPrepare, WriteReview, FindArchived, Block,
         BlockUnwritable, RaiseUndecided, Check, Move, CopyOnly, Recording, FinishExecute,
         LedgerStep, LedgerReturn, Raise, Die, Leave, MoreActions, Executing, Outcome
    <3> QED
      BY <2>1, <2>2, <2>3, <2>5, <3>1 DEF HeldBack
  <2> QED
    BY <1>2, <2>6, <2>7, <2>8, <2>9 DEF HostStep
<1>3. ~(\E h \in Host : HostStep(h)) => UNCHANGED job
  BY DEF Next, Audit, Edit
<1>4. \A g \in Host : Executing(g)' => job'[g].run # r
  BY <1>2, <1>3 DEF HeldBack, Executing
<1> QED
  BY <1>1, <1>4 DEF HeldBack

-----------------------------------------------------------------------------
(* The folders.                                                             *)

\* What a host has checked is still free, and nobody else's.
CheckedOf(h) ==
  job[h].at = "checked" =>
    /\ disk[Acting(h).target] = Absent
    /\ \A g \in Host \ {h} : job[g].at = "checked" => Acting(g).target # Acting(h).target

Kept(p) == Start[p] # Absent => \E q \in Path : disk[q] = Start[p]

FolderInv ==
  edits = 0 /\ ~raced =>
    /\ \A h \in Host : CheckedOf(h)
    /\ \A p \in Path : Kept(p)

\* A file that goes to a free path stays in the folders.
LEMMA CarriedKept ==
  ASSUME TypeOK, NEW source \in Path, NEW target \in Path, disk[source] # Absent,
         disk[target] = Absent, \A p \in Path : Kept(p),
         disk' = [disk EXCEPT ![target] = disk[source], ![source] = Absent]
           \/ disk' = [disk EXCEPT ![target] = disk[source]]
  PROVE  \A p \in Path : Kept(p)'
<1> SUFFICES ASSUME NEW p \in Path, Start[p] # Absent
             PROVE  \E q \in Path : disk'[q] = Start[p]
  BY DEF Kept
<1>1. PICK q \in Path : disk[q] = Start[p]
  BY DEF Kept
<1>2. q # target /\ source # target
  BY <1>1
<1>3. disk'[target] = disk[source] /\ (q # source => disk'[q] = disk[q])
  BY <1>2 DEF TypeOK
<1> QED
  BY <1>1, <1>3

LEMMA FolderStep ==
  ASSUME TypeOK, TypeOK', JobInv, FolderInv, Next
  PROVE  FolderInv'
<1> SUFFICES ASSUME edits' = 0, ~raced'
             PROVE  /\ \A h \in Host : CheckedOf(h)'
                    /\ \A p \in Path : Kept(p)'
  BY DEF FolderInv
<1>0. Steady /\ job \in [Host -> Job]
  BY SteadyStep DEF TypeOK
<1>1. edits = 0 /\ ~raced
  <2>a. ASSUME NEW h \in Host, Check(h)
        PROVE  edits' = edits /\ (raced => raced')
    <3>1. edits' = edits
      BY <2>a DEF Check, counters
    <3>2. raced => raced'
      BY <2>a, Zenon DEF Check
    <3> QED
      BY <3>1, <3>2
  <2>1. ASSUME NEW h \in Host, HostStep(h), ~Check(h)
        PROVE  edits' = edits /\ raced' = raced
    BY <2>1 DEF HostStep, counters, history, Begin, Fail, Prepare, Correct, CorrectNothing,
       Execute, SkipFile, ReadUntrusted, ReadTrusted, Decide, FinishPrepare, WriteReview,
       FindArchived, Block, BlockUnwritable, RaiseUndecided, Move, CopyOnly, Recording,
       FinishExecute, LedgerStep, LedgerReturn, Raise, Die, Leave
  <2>2. (\E r \in Run : Audit(r)) => UNCHANGED <<edits, raced>>
    BY DEF Audit, counters, history
  <2>3. ~(\E p \in Path : Edit(p))
    BY DEF Edit, TypeOK
  <2>4. edits' = edits
    BY <2>a, <2>1, <2>2, <2>3 DEF Next
  <2>5. raced => raced'
    BY <2>a, <2>1, <2>2, <2>3, Zenon DEF Next
  <2> QED
    BY <2>4, <2>5
<1>2. (\A h \in Host : CheckedOf(h)) /\ (\A p \in Path : Kept(p))
  BY <1>1 DEF FolderInv
<1>3. ASSUME NEW g \in Host, job[g].at = "checked", job'[g] = job[g]
      PROVE  Acting(g)' = Acting(g)
  BY <1>0, <1>3 DEF Acting, Steady, JobInv, ExecutingOf, Executing, TypeOK
\* The folders stay as they are, and no host checks anything.
<1>4. ASSUME UNCHANGED disk,
             \A g \in Host : job'[g].at = "checked" => job'[g] = job[g]
      PROVE  (\A h \in Host : CheckedOf(h)') /\ (\A p \in Path : Kept(p)')
  BY <1>2, <1>3, <1>4 DEF CheckedOf, Kept
<1>5. ASSUME NEW h \in Host, Check(h)
      PROVE  (\A g \in Host : CheckedOf(g)') /\ (\A p \in Path : Kept(p)')
  <2>1. /\ UNCHANGED <<disk, plan>> /\ disk[Acting(h).target] = Absent
        /\ \A g \in Host \ {h} : job'[g] = job[g]
        /\ job'[h].run = job[h].run /\ job'[h].n = job[h].n
        /\ ~\E g \in Host \ {h} : job[g].at = "checked" /\ Acting(g).target = Acting(h).target
    BY <1>0, <1>5 DEF Check, Free, Enter, runFiles, Job
  <2>2. Acting(h)' = Acting(h)
    BY <2>1 DEF Acting
  <2>3. \A g \in Host : job[g].at = "checked" /\ g # h => Acting(g)' = Acting(g)
    BY <1>3, <2>1
  <2>4. \A g \in Host : CheckedOf(g)'
    BY <1>2, <2>1, <2>2, <2>3 DEF CheckedOf
  <2> QED
    BY <1>2, <2>1, <2>4 DEF Kept
<1>6. ASSUME NEW h \in Host, Move(h) \/ CopyOnly(h)
      PROVE  (\A g \in Host : CheckedOf(g)') /\ (\A p \in Path : Kept(p)')
  <2>1. job[h].at = "checked" /\ job[h].n \in DOMAIN plan[job[h].run]
    BY <1>6 DEF Move, CopyOnly, JobInv, ExecutingOf, Executing, TypeOK
  <2>2. Acting(h).target \in Path /\ Acting(h).source \in Path
    BY <2>1, ActingType DEF JobInv, ExecutingOf, Executing, Action
  <2>3. PICK source \in Path, target \in Path :
          source = Acting(h).source /\ target = Acting(h).target
    BY <2>2
  <2>4. /\ disk[target] = Absent /\ disk[source] # Absent
        /\ \A g \in Host \ {h} : job[g].at = "checked" => Acting(g).target # target
    BY <1>2, <1>6, <2>1, <2>3 DEF CheckedOf, Move, CopyOnly
  <2>5. \/ disk' = [disk EXCEPT ![target] = disk[source], ![source] = Absent]
        \/ disk' = [disk EXCEPT ![target] = disk[source]]
    BY <1>6, <2>3 DEF Move, CopyOnly
  <2>6. \A p \in Path : Kept(p)'
    BY <1>2, <2>4, <2>5, CarriedKept
  <2>7. job'[h].at # "checked" /\ \A g \in Host \ {h} : job'[g] = job[g]
    BY <1>0, <1>6 DEF Move, CopyOnly, Enter, NoJob, Job
  <2>8. \A g \in Host \ {h} : job[g].at = "checked" => Acting(g)' = Acting(g)
    BY <1>3, <2>7
  <2>9. \A p \in Path : p # target /\ disk[p] = Absent => disk'[p] = Absent
    BY <2>5 DEF TypeOK
  <2>10. \A g \in Host \ {h} : job[g].at = "checked" => Acting(g).target \in Path
    BY DEF JobInv, ExecutingOf, Executing
  <2>11. \A g \in Host : CheckedOf(g)'
    BY <1>2, <2>4, <2>7, <2>8, <2>9, <2>10 DEF CheckedOf
  <2> QED
    BY <2>6, <2>11
<1>7. ASSUME NEW h \in Host, HostStep(h), ~Check(h), ~Move(h), ~CopyOnly(h)
      PROVE  /\ UNCHANGED disk
             /\ \A g \in Host : job'[g].at = "checked" => job'[g] = job[g]
  <2>1. UNCHANGED disk
    BY <1>7 DEF HostStep, Prepare, Correct, CorrectNothing, Execute, SkipFile, ReadUntrusted,
       ReadTrusted, Decide, FinishPrepare, WriteReview, FindArchived, Block, BlockUnwritable,
       RaiseUndecided, Recording, FinishExecute, LedgerStep, LedgerReturn, Raise, Die, Leave
  <2>2. ASSUME NEW at, at # "checked", Enter(h, at)
        PROVE  \A g \in Host : job'[g].at = "checked" => job'[g] = job[g]
    BY <1>0, <2>2 DEF Enter, Job
  <2>3. ASSUME NEW outcome, Report(h, outcome)
        PROVE  \A g \in Host : job'[g].at = "checked" => job'[g] = job[g]
    BY <1>0, <2>3 DEF Report, Job
  <2>4. ASSUME NEW r \in Run,
               Prepare(h, r) \/ Correct(h, r) \/ CorrectNothing(h, r) \/ Execute(h, r)
        PROVE  \A g \in Host : job'[g].at = "checked" => job'[g] = job[g]
    BY <1>0, <2>4 DEF Prepare, Correct, CorrectNothing, Execute, NoJob
  <2>5. CASE SkipFile(h)
    <3>1. job[h].at = "reading" /\ job' = [job EXCEPT ![h].n = @ + 1]
      BY <2>5 DEF SkipFile, MoreFiles
    <3> QED
      BY <1>0, <2>1, <3>1 DEF Job
  <2>6. CASE Decide(h)
    <3>1. PICK d \in Decision[File(h)] :
            job' = [job EXCEPT ![h].at = "reading", ![h].n = @ + 1,
                               ![h].built = Append(@, Built(File(h), d))]
      BY <2>6 DEF Decide
    <3>2. job'[h].at = "reading" /\ \A g \in Host \ {h} : job'[g] = job[g]
      BY <1>0, <3>1 DEF Job
    <3> QED
      BY <2>1, <3>2
  <2>7. CASE job' = [job EXCEPT ![h] = NoJob] \/ job' = job
    <3>1. CASE job' = [job EXCEPT ![h] = NoJob]
      <4>1. job'[h].at = "idle" /\ \A g \in Host \ {h} : job'[g] = job[g]
        BY <1>0, <3>1 DEF NoJob
      <4> QED
        BY <2>1, <4>1
    <3> QED
      BY <2>1, <2>7, <3>1
  <2>8. CASE \/ \E r \in Run : Prepare(h, r) \/ Correct(h, r) \/ CorrectNothing(h, r) \/ Execute(h, r)
             \/ ReadUntrusted(h) \/ ReadTrusted(h) \/ FinishPrepare(h) \/ WriteReview(h)
             \/ FindArchived(h) \/ Block(h) \/ BlockUnwritable(h) \/ RaiseUndecided(h)
             \/ Recording(h) \/ FinishExecute(h)
             \/ LedgerStep(h) \/ LedgerReturn(h) \/ Raise(h) \/ Die(h)
    <3>1. \/ job' = [job EXCEPT ![h] = NoJob] \/ job' = job
          \/ \E at \in {"deciding", "patching", "corrected", "recording"} : Enter(h, at)
          \/ \E outcome \in Outcome : Report(h, outcome)
          \/ \E r \in Run : Prepare(h, r) \/ Correct(h, r) \/ CorrectNothing(h, r) \/ Execute(h, r)
      BY <2>8 DEF ReadUntrusted, ReadTrusted, FinishPrepare, WriteReview, FindArchived, Block,
         BlockUnwritable, RaiseUndecided, Recording, FinishExecute,
         LedgerStep, LedgerReturn, Raise, Die, Leave, Outcome
    <3>2. CASE job' = [job EXCEPT ![h] = NoJob] \/ job' = job
      BY <2>1, <2>7, <3>2
    <3>3. CASE \E at \in {"deciding", "patching", "corrected", "recording"} : Enter(h, at)
      BY <2>1, <2>2, <3>3
    <3>4. CASE \E outcome \in Outcome : Report(h, outcome)
      BY <2>1, <2>3, <3>4
    <3> QED
      BY <2>1, <2>4, <3>1, <3>2, <3>3, <3>4
  <2> QED
    BY <1>7, <2>1, <2>5, <2>6, <2>8 DEF HostStep
<1>8. (\E r \in Run : Audit(r)) => UNCHANGED <<disk, job>>
  BY DEF Audit
<1>9. ~(\E p \in Path : Edit(p))
  BY DEF Edit, TypeOK
<1> QED
  BY <1>4, <1>5, <1>6, <1>7, <1>8, <1>9 DEF Next

-----------------------------------------------------------------------------
(* The records of the moves.                                                *)

\* A record is in a copy that will be saved in the manifest of q, or in it.
Held(q, m) ==
  \/ \E h \in Host :
       /\ op[h].project = q
       /\ \/ op[h].at = "loaded" /\ op[h].record = m
          \/ op[h].at \in {"appending", "filling_manifest"} /\ m \in op[h].files
  \/ Readable(manifest[q]) /\ m \in manifest[q].files

\* On a project that is not spoiled there is one call, and its copy of the
\* manifest has all that the file has.
CustodyInv ==
  /\ \A h \in Host : op[h].at = "idle" => op[h].project = NoProject
  /\ \A q \in Project \ spoiled : \A h \in Host : op[h].project = q =>
       /\ \A g \in Host : op[g].project = q => g = h
       /\ op[h].at = "appending" =>
            Readable(manifest[q]) /\ manifest[q].files \subseteq op[h].files
       /\ op[h].at = "filling_manifest" => manifest[q] = Emptied

\* Nothing that is in custody is lost.
Keeping == \A q \in Project \ spoiled' : \A m : Held(q, m) => Held(q, m)'

LEMMA CustodyQuiet ==
  ASSUME CustodyInv, UNCHANGED ledgerVars, spoiled \subseteq spoiled'
  PROVE  CustodyInv' /\ Keeping
BY DEF CustodyInv, Keeping, Held, Readable, ledgerVars

\* A call that begins.
LEMMA CustodyBegin ==
  ASSUME LedgerTypeOK, CustodyInv, NEW h \in Host, NEW p \in Project, op[h].at = "idle",
         NEW call, op' = [op EXCEPT ![h] = call], call.project = p,
         call.at \in {"saving", "loaded"}, UNCHANGED manifest, Spoil(h, p)
  PROVE  CustodyInv' /\ Keeping
<1>1. /\ op'[h] = call /\ \A g \in Host \ {h} : op'[g] = op[g]
  BY DEF LedgerTypeOK
<1>2. spoiled \subseteq spoiled' /\ \A g \in Host \ {h} : op[g].project = p => p \in spoiled'
  BY DEF Spoil, Overlapping
<1>3. op[h].project \notin Project
  BY SentinelAssumption DEF CustodyInv
<1>4. CustodyInv'
  BY <1>1, <1>2 DEF CustodyInv, Readable
<1>5. Keeping
  BY <1>1, <1>3 DEF Keeping, Held, Readable
<1> QED
  BY <1>4, <1>5

\* A call that ends leaves no copy that is still to be saved, or spoils.
LEMMA CustodyEnd ==
  ASSUME LedgerTypeOK, CustodyInv, NEW h \in Host, op' = [op EXCEPT ![h] = NoCall],
         UNCHANGED manifest, spoiled \subseteq spoiled',
         op[h].at \in {"idle", "filling_ledger"} \/ {op[h].project} \cap Project \subseteq spoiled'
  PROVE  CustodyInv' /\ Keeping
<1>1. /\ op'[h].at = "idle" /\ op'[h].project = NoProject
      /\ \A g \in Host \ {h} : op'[g] = op[g]
  BY DEF LedgerTypeOK, NoCall
<1>2. CustodyInv'
  BY <1>1, SentinelAssumption DEF CustodyInv, Readable
<1>3. Keeping
  BY <1>1 DEF Keeping, Held, Readable
<1> QED
  BY <1>2, <1>3

LEMMA CustodySave ==
  ASSUME LedgerTypeOK, CustodyInv, NEW h \in Host, SaveStep(h), UNCHANGED spoiled
  PROVE  CustodyInv' /\ Keeping
<1>0. op \in [Host -> Call] /\ manifest \in [Project -> Manifest \cup {Emptied, Torn}]
  BY DEF LedgerTypeOK
<1>1. PICK p : p = op[h].project
  OBVIOUS
<1>2. op[h].at # "idle" /\ p \in Project
  BY <1>1 DEF SaveStep, LoadManifest, EmptyManifest, FillManifest, EmptyLedgerFile, LedgerTypeOK
<1>3. /\ \A g \in Host \ {h} : op'[g] = op[g]
      /\ \A q \in Project \ {p} : manifest'[q] = manifest[q]
      /\ op'[h].project = p /\ op'[h].at # "idle"
  BY <1>0, <1>1, <1>2
     DEF SaveStep, LoadManifest, EmptyManifest, FillManifest, EmptyLedgerFile, Call
<1>4. ASSUME p \notin spoiled
      PROVE  /\ op'[h].at = "appending" =>
                  Readable(manifest'[p]) /\ manifest'[p].files \subseteq op'[h].files
             /\ op'[h].at = "filling_manifest" => manifest'[p] = Emptied
             /\ \A m : Held(p, m) => Held(p, m)'
  <2>1. /\ \A g \in Host : op[g].project = p => g = h
        /\ op[h].at = "appending" =>
             Readable(manifest[p]) /\ manifest[p].files \subseteq op[h].files
        /\ op[h].at = "filling_manifest" => manifest[p] = Emptied
    BY <1>1, <1>2, <1>4 DEF CustodyInv
  <2>2. CASE LoadManifest(h)
    <3>1. /\ op[h].at = "loaded" /\ op'[h].at = "appending" /\ UNCHANGED manifest
          /\ op'[h].files = manifest[p].files \cup {op[h].record}
          /\ Readable(manifest[p])
      BY <1>0, <1>1, <2>2 DEF LoadManifest, Call
    <3>2. \A m : Held(p, m) => Held(p, m)'
      BY <1>1, <1>3, <2>1, <3>1 DEF Held, Readable
    <3> QED
      BY <3>1, <3>2
  <2>3. CASE EmptyManifest(h)
    <3>1. /\ op[h].at = "appending" /\ op'[h].at = "filling_manifest"
          /\ op'[h].files = op[h].files /\ manifest'[p] = Emptied
      BY <1>0, <1>1, <1>2, <2>3 DEF EmptyManifest, Call
    <3>2. \A m : Held(p, m) => Held(p, m)'
      BY <1>1, <1>3, <2>1, <3>1 DEF Held
    <3> QED
      BY <3>1, <3>2
  <2>4. CASE FillManifest(h)
    <3>1. /\ op[h].at = "filling_manifest" /\ op'[h].at = "saving"
          /\ manifest'[p] = [files |-> op[h].files] /\ op[h].files \subseteq Record
      BY <1>0, <1>1, <1>2, <2>1, <2>4 DEF FillManifest, Filled, Call
    <3>2. Readable(manifest'[p]) /\ manifest'[p].files = op[h].files
      BY <3>1, TornAssumption DEF Readable, Manifest
    <3>3. \A m : Held(p, m) => Held(p, m)'
      BY <1>1, <2>1, <3>1, <3>2 DEF Held, Readable
    <3> QED
      BY <3>1, <3>3
  <2>5. CASE EmptyLedgerFile(h)
    <3>1. op[h].at = "saving" /\ op'[h].at = "filling_ledger" /\ UNCHANGED manifest
      BY <1>0, <2>5 DEF EmptyLedgerFile, Call
    <3>2. \A m : Held(p, m) => Held(p, m)'
      BY <1>3, <2>1, <3>1 DEF Held, Readable
    <3> QED
      BY <3>1, <3>2
  <2> QED
    BY <2>2, <2>3, <2>4, <2>5 DEF SaveStep
<1>5. \A q \in Project \ {p} : \A m : Held(q, m) => Held(q, m)'
  BY <1>1, <1>3 DEF Held, Readable
<1>6. CustodyInv'
  BY <1>1, <1>3, <1>4 DEF CustodyInv, Readable
<1> QED
  BY <1>4, <1>5, <1>6 DEF Keeping

\* What a step leaves that does not end or begin a call of a host on a ledger.
LEMMA CustodyStep ==
  ASSUME TypeOK, BooksInv, JobInv, CustodyInv, Next
  PROVE  CustodyInv' /\ Keeping /\ spoiled \subseteq spoiled'
<1>0. LedgerTypeOK
  BY DEF BooksInv
<1>1. ASSUME NEW h \in Host, NEW p \in Project, NEW patch, BeginPatch(h, p, patch), Spoil(h, p)
      PROVE  CustodyInv' /\ Keeping /\ spoiled \subseteq spoiled'
  <2> DEFINE call == [at |-> "saving", project |-> p, state |-> Patched(ledger[p], patch),
                      files |-> {}, record |-> NoRecord]
  <2>1. /\ op[h].at = "idle" /\ op' = [op EXCEPT ![h] = call] /\ UNCHANGED manifest
    BY <1>1 DEF BeginPatch, Idle
  <2>2. call.project = p /\ call.at = "saving"
    OBVIOUS
  <2> HIDE DEF call
  <2> QED
    BY <1>0, <1>1, <2>1, <2>2, CustodyBegin DEF Spoil
<1>2. ASSUME NEW h \in Host, HostStep(h)
      PROVE  CustodyInv' /\ Keeping /\ spoiled \subseteq spoiled'
  <2>1. CASE ReadTrusted(h)
    <3>1. File(h) \in Path
      BY <2>1, FileType DEF ReadTrusted, MoreFiles, Preparing
    <3>2. PICK e \in Extraction[File(h)] :
            BeginPatch(h, e.project, e.patch) /\ Spoil(h, e.project)
      BY <2>1 DEF ReadTrusted
    <3> QED
      BY <1>1, <3>1, <3>2, ReadingAssumption
  <2>2. ASSUME NEW r \in Run, Correct(h, r)
        PROVE  CustodyInv' /\ Keeping /\ spoiled \subseteq spoiled'
    <3>1. PICK e \in Correction : BeginPatch(h, e.project, e.patch) /\ Spoil(h, e.project)
      BY <2>2 DEF Correct
    <3> QED
      BY <1>1, <3>1, ReadingAssumption
  <2>3. CASE Recording(h)
    <3>1. /\ job[h].at = "moved" /\ Spoil(h, Acting(h).home)
          /\ BeginRecord(h, Acting(h).home, RecordOf(h))
      BY <2>3 DEF Recording
    <3>2. Acting(h) \in Action
      BY <3>1, ActingType DEF JobInv, ExecutingOf, Executing, TypeOK
    <3>3. PICK p \in Project : p = Acting(h).home
      BY <3>2 DEF Action
    <3> DEFINE call == [at |-> "loaded", project |-> p, state |-> Staged(p, ledger[p]),
                        files |-> {}, record |-> RecordOf(h)]
    <3>4. /\ op[h].at = "idle" /\ op' = [op EXCEPT ![h] = call] /\ UNCHANGED manifest
      BY <3>1, <3>3 DEF BeginRecord, Idle
    <3>5. call.project = p /\ call.at = "loaded"
      OBVIOUS
    <3> HIDE DEF call
    <3> QED
      BY <1>0, <3>1, <3>3, <3>4, <3>5, CustodyBegin DEF Spoil
  <2>4. CASE LedgerStep(h)
    BY <1>0, <2>4, CustodySave DEF LedgerStep, history
  <2>5. CASE LedgerReturn(h)
    <3>1. /\ op' = [op EXCEPT ![h] = NoCall] /\ UNCHANGED <<manifest, spoiled>>
          /\ op[h].at = "filling_ledger"
      BY <2>5 DEF LedgerReturn, FillLedgerFile, history
    <3> QED
      BY <1>0, <3>1, CustodyEnd
  <2>6. CASE Raise(h) \/ Die(h)
    <3>1. /\ op' = [op EXCEPT ![h] = NoCall] /\ UNCHANGED manifest
          /\ spoiled \subseteq spoiled' /\ {op[h].project} \cap Project \subseteq spoiled'
      BY <2>6 DEF Raise, Die, Leave, DropCall, Unfinished
    <3> QED
      BY <1>0, <3>1, CustodyEnd
  <2>7. CASE \/ \E r \in Run : Prepare(h, r) \/ CorrectNothing(h, r) \/ Execute(h, r)
             \/ SkipFile(h) \/ ReadUntrusted(h) \/ Decide(h) \/ FinishPrepare(h)
             \/ WriteReview(h) \/ FindArchived(h) \/ Block(h) \/ BlockUnwritable(h)
             \/ RaiseUndecided(h) \/ Check(h) \/ Move(h) \/ CopyOnly(h) \/ FinishExecute(h)
    <3>1. UNCHANGED ledgerVars /\ UNCHANGED spoiled
      BY <2>7 DEF Prepare, CorrectNothing, Execute, SkipFile, ReadUntrusted, Decide,
         FinishPrepare, WriteReview, FindArchived, Block, BlockUnwritable, RaiseUndecided,
         Check, Move, CopyOnly, FinishExecute, history
    <3> QED
      BY <3>1, CustodyQuiet
  <2> QED
    BY <1>2, <2>1, <2>2, <2>3, <2>4, <2>5, <2>6, <2>7 DEF HostStep
<1>3. (\E r \in Run : Audit(r)) \/ (\E p \in Path : Edit(p)) =>
        UNCHANGED ledgerVars /\ UNCHANGED spoiled
  BY DEF Audit, Edit, history
<1> QED
  BY <1>2, <1>3, CustodyQuiet DEF Next

\* A move is on its way to the manifest of the project of its action: it has
\* just been made, or its record is in custody.
Underway(m, n) == \E h \in Host : job[h].at = "moved" /\ job[h].run = m.run /\ job[h].n = n

SavedAs(m, n) ==
  /\ n \in DOMAIN plan[m.run]
  /\ plan[m.run][n].source = m.source /\ plan[m.run][n].target = m.target
  /\ \/ plan[m.run][n].home \in spoiled
     \/ Underway(m, n)
     \/ Held(plan[m.run][n].home, m)

SavedInv == \A m \in moves : \E n : SavedAs(m, n)

LEMMA SavedStep ==
  ASSUME TypeOK, BooksInv, JobInv, RunInv, CustodyInv, SavedInv, Next
  PROVE  SavedInv'
<1>0. /\ Steady /\ Keeping /\ spoiled \subseteq spoiled' /\ job \in [Host -> Job]
  BY SteadyStep, CustodyStep DEF TypeOK
\* A host that has moved goes on to the record, or leaves and spoils.
<1>1. ASSUME NEW h \in Host, job[h].at = "moved", job'[h] # job[h]
      PROVE  \/ Recording(h)
             \/ Acting(h).home \in Project => Acting(h).home \in spoiled'
  <2>1. ASSUME NEW g \in Host \ {h}, HostStep(g)
        PROVE  job'[h] = job[h]
    BY <1>0, <2>1 DEF HostStep, Enter, Report, Prepare, Correct, CorrectNothing, Execute,
       SkipFile, ReadUntrusted, ReadTrusted, Decide, FinishPrepare, WriteReview, FindArchived,
       Block, BlockUnwritable, RaiseUndecided, Check, Move, CopyOnly, Recording, FinishExecute,
       LedgerStep, LedgerReturn, Raise, Die, Leave
  <2>2. (\E r \in Run : Audit(r)) \/ (\E p \in Path : Edit(p)) => UNCHANGED job
    BY DEF Audit, Edit
  <2>3. HostStep(h)
    BY <1>1, <2>1, <2>2 DEF Next
  <2>4. Recording(h) \/ Raise(h) \/ Die(h) \/ LedgerStep(h)
    BY <1>1, <2>3 DEF HostStep, Begin, Prepare, Correct, CorrectNothing, Execute, MoreFiles,
       SkipFile, ReadUntrusted, ReadTrusted, Decide, FinishPrepare, WriteReview, MoreActions,
       FindArchived, Block, BlockUnwritable, RaiseUndecided, Check, Move, CopyOnly,
       FinishExecute, LedgerReturn
  <2>5. ~LedgerStep(h)
    BY <1>1 DEF LedgerStep
  <2>6. Raise(h) \/ Die(h) => (Acting(h).home \in Project => Acting(h).home \in spoiled')
    BY <1>1 DEF Raise, Die, Leave, Unfinished
  <2> QED
    BY <2>4, <2>5, <2>6
<1>2. ASSUME NEW m \in moves
      PROVE  \E n : SavedAs(m, n)'
  <2>1. m.run \in Run /\ plan[m.run] # NoPlan /\ m \in Record
    BY RecordAssumption DEF TypeOK, RunInv
  <2>2. plan'[m.run] = plan[m.run] /\ plan[m.run] \in Seq(Action)
    BY <1>0, <2>1 DEF Steady, TypeOK
  <2>3. PICK n : SavedAs(m, n)
    BY DEF SavedInv
  <2>a. plan[m.run][n] \in Action
    BY <2>2, <2>3 DEF SavedAs
  <2>4. PICK p \in Project : p = plan[m.run][n].home
    BY <2>a DEF Action
  <2>5. ASSUME p \in spoiled' \/ Underway(m, n)' \/ Held(p, m)'
        PROVE  SavedAs(m, n)'
    BY <2>2, <2>3, <2>4, <2>5 DEF SavedAs
  <2>6. CASE p \in spoiled'
    BY <2>5, <2>6
  <2>7. CASE p \notin spoiled' /\ Held(p, m)
    BY <1>0, <2>5, <2>7 DEF Keeping
  <2>8. CASE p \notin spoiled' /\ Underway(m, n)
    <3>1. PICK h \in Host : job[h].at = "moved" /\ job[h].run = m.run /\ job[h].n = n
      BY <2>8 DEF Underway
    <3>2. Acting(h).home = p /\ RecordOf(h) = m
      <4>1. /\ Acting(h) = plan[m.run][n] /\ Acting(h).source = m.source
            /\ Acting(h).target = m.target
        BY <2>3, <3>1 DEF Acting, SavedAs
      <4> QED
        BY <2>1, <2>4, <3>1, <4>1, RecordAssumption DEF RecordOf
    <3>3. CASE job'[h] = job[h]
      BY <2>5, <3>1, <3>3 DEF Underway
    <3>4. CASE Recording(h)
      <4>1. /\ op'[h].project = p /\ op'[h].at = "loaded" /\ op'[h].record = m
        BY <3>2, <3>4 DEF Recording, BeginRecord, BooksInv, LedgerTypeOK
      <4> QED
        BY <2>5, <4>1 DEF Held
    <3> QED
      BY <1>1, <2>8, <3>1, <3>2, <3>3, <3>4
  <2> QED
    BY <1>0, <2>3, <2>4, <2>6, <2>7, <2>8 DEF SavedAs
<1>3. ASSUME NEW h \in Host, Move(h), NEW m, m = RecordOf(h)
      PROVE  \E n : SavedAs(m, n)'
  <2>1. PICK n : n = job[h].n
    OBVIOUS
  <2>2. /\ job[h].at = "checked" /\ job'[h].at = "moved" /\ job'[h].run = job[h].run
        /\ job'[h].n = n /\ UNCHANGED plan
    BY <1>0, <1>3, <2>1 DEF Move, Enter, Job, runFiles
  <2>3. n \in DOMAIN plan[job[h].run]
    BY <2>1, <2>2 DEF JobInv, ExecutingOf, Executing, TypeOK
  <2>4. /\ m.run = job[h].run /\ m.source = plan[job[h].run][n].source
        /\ m.target = plan[job[h].run][n].target
    BY <1>3, <2>1 DEF RecordOf, Acting
  <2>5. Underway(m, n)'
    BY <2>2, <2>4 DEF Underway
  <2>6. SavedAs(m, n)'
    BY <2>2, <2>3, <2>4, <2>5 DEF SavedAs
  <2> QED
    BY <2>6
<1>4. moves' = moves \/ \E h \in Host : Move(h) /\ moves' = moves \cup {RecordOf(h)}
  BY MovesStep
<1>5. ASSUME NEW m \in moves'
      PROVE  \E n : SavedAs(m, n)'
  <2>1. CASE m \in moves
    BY <1>2, <2>1
  <2>2. CASE m \notin moves
    <3>1. PICK h \in Host : Move(h) /\ m = RecordOf(h)
      BY <1>4, <1>5, <2>2
    <3> QED
      BY <1>3, <3>1
  <2> QED
    BY <2>1, <2>2
<1> QED
  BY <1>5 DEF SavedInv

-----------------------------------------------------------------------------
(* The theorems.                                                            *)

AllInv == Inv /\ FolderInv /\ CustodyInv /\ SavedInv

LEMMA InvInit == Init => AllInv
<1> SUFFICES ASSUME Init PROVE AllInv
  OBVIOUS
<1>1. BooksInv /\ TypeOK
  BY BooksInit, TypeInit
<1>2. job = [h \in Host |-> NoJob] /\ moves = {} /\ NoJob.at = "idle"
  BY DEF Init, NoJob
<1>3. JobInv
  BY <1>2 DEF JobInv, PreparingOf, ExecutingOf, Preparing, Executing
<1>4. RunInv /\ ResultsAreTrue
  BY <1>2 DEF Init, RunInv, ResultsAreTrue, ResultOf
<1>5. ReviewIsAsked
  BY <1>2 DEF ReviewIsAsked
<1>6. FolderInv
  BY <1>2 DEF Init, FolderInv, CheckedOf, Kept
<1>7. CustodyInv
  BY SentinelAssumption DEF Init, LedgerInit, CustodyInv, NoCall
<1>8. SavedInv
  BY <1>2 DEF SavedInv
<1> QED
  BY <1>1, <1>3, <1>4, <1>5, <1>6, <1>7, <1>8 DEF Inv, AllInv

LEMMA InvStep == AllInv /\ [Next]_vars => AllInv'
<1> SUFFICES ASSUME Inv, FolderInv, CustodyInv, SavedInv, [Next]_vars
             PROVE  Inv' /\ FolderInv' /\ CustodyInv' /\ SavedInv'
  BY DEF AllInv
<1>0. TypeOK /\ BooksInv /\ JobInv /\ RunInv /\ ResultsAreTrue /\ ReviewIsAsked
  BY DEF Inv
<1>1. CASE Next
  <2>1. BooksInv' /\ JobInv' /\ RunInv' /\ ResultsAreTrue' /\ ReviewIsAsked'
    BY <1>0, <1>1, BooksStep, JobStep, RunStep, ResultStep, ReviewStep
  <2>2. TypeOK'
    BY <1>0, <1>1, <2>1, TypeStep
  <2>3. FolderInv'
    BY <1>0, <1>1, <2>2, FolderStep
  <2>4. CustodyInv' /\ SavedInv'
    BY <1>0, <1>1, CustodyStep, SavedStep
  <2> QED
    BY <2>1, <2>2, <2>3, <2>4 DEF Inv
<1>2. CASE UNCHANGED vars
  <2>1. /\ UNCHANGED <<disk, started, queue, plan, audit, reviewed, result, job>>
        /\ UNCHANGED <<edits, failures, calls, moves, raced, spoiled, ledgerVars>>
    BY <1>2 DEF vars, runFiles, counters, history
  <2>2. Steady
    BY <2>1 DEF Steady
  <2>3. BooksInv' /\ JobInv'
    BY <1>0, <2>1, <2>2, BooksQuiet, JobUnchanged
  <2>4. TypeOK'
    BY <1>0, <2>1, <2>3 DEF TypeOK, BooksInv
  <2>5. RunInv' /\ ReviewIsAsked'
    BY <1>0, <2>1 DEF RunInv, ReviewIsAsked
  <2>6. ResultsAreTrue'
    BY <1>0, <2>1 DEF ResultsAreTrue, ResultOf, Says
  <2>7. FolderInv'
    BY <2>1 DEF FolderInv, CheckedOf, Kept, Acting
  <2>8. CustodyInv'
    BY <2>1, CustodyQuiet
  <2>9. SavedInv'
    BY <2>1 DEF SavedInv, SavedAs, Underway, Held, Readable, ledgerVars
  <2> QED
    BY <2>3, <2>4, <2>5, <2>6, <2>7, <2>8, <2>9 DEF Inv
<1> QED
  BY <1>1, <1>2

LEMMA Invariant == Spec => []AllInv
BY InvInit, InvStep, PTL DEF Spec

\* Every state is made of ledgers, manifests, plans, results and calls as the
\* program builds them.
THEOREM TypeCorrect == Spec => []TypeOK
<1>1. AllInv => TypeOK
  BY DEF AllInv, Inv
<1> QED
  BY Invariant, <1>1, PTL

\* Whatever is lost or overwritten, a ledger that can be read accounts for each
\* candidate in it and holds the best claim (LedgersAreSound: _reconcile_field
\* under unlocked loads and saves).
THEOREM LedgersAreSoundCorrect == Spec => []LedgersAreSound
<1>1. AllInv => LedgersAreSound
  BY DEF AllInv, Inv, BooksInv
<1> QED
  BY Invariant, <1>1, PTL

\* A result and a manifest say only what was done (RecordsAreTrue:
\* archive_result.json and archive_manifest.json).
THEOREM RecordsAreTrueCorrect == Spec => []RecordsAreTrue
<1>1. AllInv => RecordsAreTrue
  BY DEF AllInv, Inv, BooksInv, ManifestsAreTrue, ResultsAreTrue, ResultOf, Says, RecordsAreTrue
<1> QED
  BY Invariant, <1>1, PTL

\* An action for which a review was advised is made only in a run that has its
\* review decisions (ReviewIsAsked: execute_archive_plan on all hosts).
THEOREM ReviewIsAskedCorrect == Spec => []ReviewIsAsked
<1>1. AllInv => ReviewIsAsked
  BY DEF AllInv, Inv
<1> QED
  BY Invariant, <1>1, PTL

\* Once its audit asks for feedback, a run that nobody executes moves no file
\* (HeldBackForGood: evaluate_archive_execution_gate against later audits).
THEOREM HeldBackForGoodCorrect == Spec => HeldBackForGood
<1>1. AllInv /\ [Next]_vars => \A r \in Run : HeldBack(r) => HeldBack(r)'
  <2> SUFFICES ASSUME AllInv, [Next]_vars, NEW r \in Run, HeldBack(r)
               PROVE  HeldBack(r)'
    OBVIOUS
  <2>1. CASE Next
    BY <2>1, HeldBackStep DEF AllInv, Inv
  <2>2. CASE UNCHANGED vars
    BY <2>2 DEF vars, runFiles, HeldBack, Executing
  <2> QED
    BY <2>1, <2>2
<1> QED
  BY Invariant, <1>1, PTL DEF Spec, HeldBackForGood

\* A file is lost only if the owner of the folders changed something or two hosts
\* had checked one free target at once (LostOnlyToARace: os.path.exists before
\* shutil.move, and a copy that was not followed by its deletion).
THEOREM LostOnlyToARaceCorrect == Spec => []LostOnlyToARace
<1>1. AllInv => LostOnlyToARace
  <2> SUFFICES ASSUME Inv, FolderInv, ~(edits > 0), ~raced
               PROVE  \A p \in Path : Kept(p)
    BY DEF LostOnlyToARace, Kept, AllInv
  <2>1. edits = 0
    BY DEF Inv, TypeOK
  <2> QED
    BY <2>1 DEF FolderInv
<1> QED
  BY Invariant, <1>1, PTL

\* A move is in the manifest of its project, or on its way there, unless ledger
\* calls on that project overlapped or were cut off (RecordedUnlessSpoiled:
\* record_archive_event after shutil.move).
THEOREM RecordedUnlessSpoiledCorrect == Spec => []RecordedUnlessSpoiled
<1>1. AllInv => RecordedUnlessSpoiled
  <2> SUFFICES ASSUME Inv, SavedInv, NEW m \in moves
               PROVE  \E n \in DOMAIN plan[m.run] :
                        /\ plan[m.run][n].source = m.source /\ plan[m.run][n].target = m.target
                        /\ \/ plan[m.run][n].home \in spoiled
                           \/ InHand(plan[m.run][n].home, m)
                           \/ /\ Readable(manifest[plan[m.run][n].home])
                              /\ m \in manifest[plan[m.run][n].home].files
    BY DEF AllInv, RecordedUnlessSpoiled
  <2>1. m \in Record
    BY DEF Inv, TypeOK
  <2>2. PICK n : SavedAs(m, n)
    BY DEF SavedInv
  <2>3. ASSUME Underway(m, n)
        PROVE  InHand(plan[m.run][n].home, m)
    <3>1. PICK h \in Host : job[h].at = "moved" /\ job[h].run = m.run /\ job[h].n = n
      BY <2>3 DEF Underway
    <3>2. RecordOf(h) = m
      BY <2>1, <2>2, <3>1, RecordAssumption DEF RecordOf, Acting, SavedAs
    <3> QED
      BY <3>1, <3>2 DEF InHand
  <2> QED
    BY <2>2, <2>3 DEF SavedAs, Held, InHand
<1> QED
  BY Invariant, <1>1, PTL
=============================================================================
