----------------------------- MODULE CallProofs -----------------------------
(***************************************************************************)
(* Proofs about two programs that run alone and share no name: LoopEngine, *)
(* for any planner, any tools and any limits, and InterpretedRun, for any  *)
(* files, any catalog and any interpreter.                                 *)
(***************************************************************************)
EXTENDS LoopEngine, InterpretedRun, SequenceTheorems, TLAPS

USE CallAssumption, LimitAssumption

\* Where the books stand at each point of a round: rounds, tokens, requests.
Books ==
  /\ pc # "end" => recorded = round - 1
  /\ pc \in {"ask", "reply"} => total = used
  /\ pc = "tool" => used = total + job.cost
  /\ pc \in {"reply", "tool"} => round <= MaxRounds
  /\ \A c \in Call : counted[c] <= recorded + (IF pc = "tool" THEN 1 ELSE 0)
  /\ TraceIsComplete

\* Requests for c that dedup let through.
Granted(c) == IF counted[c] <= DedupThreshold THEN counted[c] ELSE DedupThreshold

\* Runs of c that the granted requests allow, the one under way not exhausted.
RunsGranted ==
  \A c \in Call :
    IF pc = "tool" /\ job.call = c
    THEN /\ 1 <= counted[c] /\ counted[c] <= DedupThreshold
         /\ tries[c] <= (Granted(c) - 1) * (RetryMax + 1) + job.attempt - 1
    ELSE tries[c] <= Granted(c) * (RetryMax + 1)

LoopInv == TypeOK /\ Books /\ RunsGranted

-----------------------------------------------------------------------------
\* A message of a round is a message.
LEMMA MsgType ==
  ASSUME NEW r \in Nat,
         NEW k \in {"system", "goal", "call", "observation", "evaluation", "dedup"}
  PROVE  Msg(r, k) \in Message
  BY DEF Msg, Message

\* Trimming keeps messages messages.
LEMMA TrimType ==
  ASSUME NEW m \in Seq(Message)
  PROVE  Trim(m) \in Seq(Message)
<1>1. CASE Len(m) <= 2 + 3 * Window
  BY <1>1 DEF Trim
<1>2. CASE ~(Len(m) <= 2 + 3 * Window)
  <2>1. Len(m) \in Nat /\ 3 * Window \in Nat /\ Len(m) > 2 + 3 * Window
    BY <1>2
  <2>2. SubSeq(m, 1, 2) \in Seq(Message)
    BY <2>1, SubSeqProperties
  <2>3. SubSeq(m, Len(m) - 3 * Window + 1, Len(m)) \in Seq(Message)
    BY <2>1, SubSeqProperties
  <2> QED BY <1>2, <2>2, <2>3, ConcatProperties DEF Trim
<1> QED BY <1>1, <1>2

\* One more granted request allows RetryMax + 1 more runs.
LEMMA OneMore ==
  ASSUME NEW g \in Nat
  PROVE  g * (RetryMax + 1) = (g - 1) * (RetryMax + 1) + RetryMax + 1
  OBVIOUS

\* Fewer requests allow no more runs.
LEMMA Monotone ==
  ASSUME NEW g \in Nat, NEW h \in Nat, g <= h
  PROVE  g * (RetryMax + 1) <= h * (RetryMax + 1)
  OBVIOUS

-----------------------------------------------------------------------------
\* In a round there is room for its record and for the request it counts.
LEMMA Room ==
  ASSUME LoopInv, pc \in {"reply", "tool"}
  PROVE  /\ recorded + 1 \in 0..MaxRounds /\ round + 1 \in 1..(MaxRounds + 1)
         /\ total \in Nat /\ used \in Nat /\ status = "running"
         /\ pc = "reply" =>
              \A c \in Call : [counted EXCEPT ![c] = @ + 1] \in [Call -> 0..MaxRounds]
<1>1. /\ recorded = round - 1 /\ round <= MaxRounds /\ round \in 1..(MaxRounds + 1)
      /\ counted \in [Call -> 0..MaxRounds]
  BY DEF LoopInv, TypeOK, Books
<1>2. total \in Nat /\ used \in Nat /\ status = "running"
  BY DEF LoopInv, TypeOK
<1>3. ASSUME NEW c \in Call, pc = "reply"
      PROVE  [counted EXCEPT ![c] = @ + 1] \in [Call -> 0..MaxRounds]
  <2>1. counted[c] \in Nat /\ counted[c] <= recorded
    BY <1>1, <1>3 DEF LoopInv, Books
  <2> QED BY <1>1, <2>1
<1> QED BY <1>1, <1>2, <1>3

\* Every step keeps the types.
LEMMA TypeStep ==
  ASSUME LoopInv, [Next]_vars
  PROVE  TypeOK'
<1> USE DEF TypeOK
<1>0. /\ round \in 1..(MaxRounds + 1) /\ messages \in Seq(Message) /\ used \in Nat
      /\ counted \in [Call -> 0..MaxRounds] /\ tries \in [Call -> Nat]
      /\ total \in Nat /\ recorded \in 0..MaxRounds
  BY DEF LoopInv
<1>1. CASE Ask
  BY <1>0, <1>1, TrimType DEF LoopInv, Ask, trace
<1>2. CASE TimesOut
  BY <1>2 DEF LoopInv, TimesOut
<1>3. CASE CallFails
  BY <1>3, Room DEF LoopInv, CallFails, RecordRound
<1>4. ASSUME NEW cost \in Cost, OverBudget(cost)
      PROVE  TypeOK'
  BY <1>4, Room DEF LoopInv, OverBudget, Charge
<1>5. ASSUME NEW cost \in Cost, Answers(cost)
      PROVE  TypeOK'
  BY <1>5, Room DEF LoopInv, Answers, Charge, Finish, RecordRound
<1>6. ASSUME NEW cost \in Cost, NEW c \in Call, Refuse(c, cost)
      PROVE  TypeOK'
  <2>1. counted' \in [Call -> 0..MaxRounds]
    BY <1>6, Room DEF Refuse, Count
  <2>2. messages' \in Seq(Message)
    <3>1. <<Msg(round, "call"), Msg(round, "dedup")>> \in Seq(Message)
      BY <1>0, MsgType
    <3> QED BY <1>0, <1>6, <3>1, ConcatProperties DEF Refuse
  <2>3. recorded' \in 0..MaxRounds /\ total' \in Nat /\ used' \in Nat
    BY <1>6, Room DEF Refuse, Charge, RecordRound
  <2>4. round' \in 1..(MaxRounds + 1)
    BY <1>6, Room DEF Refuse
  <2>5. pc = "reply" /\ pc' = "ask" /\ UNCHANGED <<status, job, tries>>
    BY <1>6 DEF Refuse
  <2> QED BY <2>1, <2>2, <2>3, <2>4, <2>5 DEF LoopInv
<1>7. ASSUME NEW cost \in Cost, NEW c \in Call, AnswersWithAction(c, cost)
      PROVE  TypeOK'
  <2>1. counted' \in [Call -> 0..MaxRounds]
    BY <1>7, Room DEF AnswersWithAction, Count
  <2>2. used' \in Nat /\ recorded' \in 0..MaxRounds /\ total' \in Nat
    BY <1>7, Room DEF AnswersWithAction, Charge, Finish, RecordRound
  <2>3. pc' = "end" /\ status' = "completed"
    BY <1>7 DEF AnswersWithAction, Finish
  <2>4. pc = "reply" /\ UNCHANGED <<round, messages, job, tries>>
    BY <1>7 DEF AnswersWithAction, Finish
  <2> QED BY <2>1, <2>2, <2>3, <2>4 DEF LoopInv
<1>8. ASSUME NEW cost \in Cost, NEW c \in Call, Start(c, cost)
      PROVE  TypeOK'
  <2>1. counted' \in [Call -> 0..MaxRounds]
    BY <1>8, Room DEF Start, Count
  <2>2. job' \in Job
    BY <1>8 DEF Start, Job
  <2>3. used' \in Nat
    BY <1>8 DEF LoopInv, Start, Charge
  <2>4. pc' = "tool" /\ pc = "reply" /\ UNCHANGED <<round, messages, trace, tries>>
    BY <1>8 DEF Start
  <2> QED BY <2>1, <2>2, <2>3, <2>4 DEF LoopInv, trace
<1>9. ASSUME pc = "tool", Observe, tries' \in [Call -> Nat]
      PROVE  TypeOK'
  <2>1. messages' \in Seq(Message)
    <3>1. <<Msg(round, "call"), Msg(round, "observation"), Msg(round, "evaluation")>>
            \in Seq(Message)
      BY <1>0, MsgType
    <3> QED BY <1>0, <1>9, <3>1, ConcatProperties DEF Observe
  <2>2. job.cost \in Nat
    BY <1>9 DEF LoopInv, Job
  <2>3. recorded' \in 0..MaxRounds /\ total' \in Nat /\ round' \in 1..(MaxRounds + 1)
    BY <1>9, <2>2, Room DEF Observe, RecordRound
  <2>4. pc' = "ask" /\ job' = <<>> /\ UNCHANGED <<counted, used, status>>
    BY <1>9 DEF Observe
  <2> QED BY <1>9, <2>1, <2>3, <2>4 DEF LoopInv
<1>10. CASE ToolEnds
  <2>1. job.call \in Call
    BY <1>10 DEF LoopInv, ToolEnds, Job
  <2>2. tries' \in [Call -> Nat]
    BY <1>0, <1>10, <2>1 DEF ToolEnds, RunTool
  <2> QED BY <1>9, <1>10, <2>2 DEF ToolEnds
<1>11. CASE ToolIsMissing
  BY <1>0, <1>9, <1>11 DEF ToolIsMissing
<1>12. CASE ToolRaises
  <2>1. job \in Job /\ job.attempt <= RetryMax
    BY <1>12 DEF LoopInv, ToolRaises
  <2>2. /\ job' = [job EXCEPT !.attempt = job.attempt + 1]
        /\ tries' = [tries EXCEPT ![job.call] = tries[job.call] + 1]
        /\ UNCHANGED <<pc, round, messages, counted, used, total, recorded, status>>
    BY <1>12 DEF ToolRaises, RunTool, trace
  <2>3. job' = [call |-> job.call, cost |-> job.cost, attempt |-> job.attempt + 1]
    BY <2>1, <2>2 DEF Job
  <2>4. job' \in Job
    BY <2>1, <2>3 DEF Job
  <2>5. tries' \in [Call -> Nat]
    BY <1>0, <2>1, <2>2 DEF Job
  <2> QED
    <3>1. /\ pc = "tool" /\ pc' = "tool" /\ round' = round /\ messages' = messages
          /\ counted' = counted /\ used' = used /\ total' = total
          /\ recorded' = recorded /\ status' = status
      BY <1>12, <2>2 DEF ToolRaises
    <3> QED BY <1>0, <2>4, <2>5, <3>1 DEF LoopInv
<1>13. CASE UNCHANGED vars
  BY <1>13 DEF LoopInv, vars, trace
<1> QED
  BY <1>1, <1>2, <1>3, <1>4, <1>5, <1>6, <1>7, <1>8, <1>10, <1>11, <1>12, <1>13
     DEF Next, Reply

\* Every step keeps the books: a round is recorded once, with its tokens.
LEMMA BooksStep ==
  ASSUME LoopInv, [Next]_vars
  PROVE  Books'
<1> USE DEF Books, TraceIsComplete
<1>0. /\ counted \in [Call -> Nat] /\ used \in Nat /\ total \in Nat
      /\ recorded \in Nat /\ round \in 1..(MaxRounds + 1)
      /\ pc \in {"ask", "reply", "tool", "end"}
  BY DEF LoopInv, TypeOK
<1>a. Books /\ Cost \subseteq Nat
  BY DEF LoopInv
<1>1. CASE Ask
  BY <1>0, <1>a, <1>1 DEF Ask, trace
<1>2. CASE TimesOut
  BY <1>0, <1>a, <1>2 DEF TimesOut
<1>3. CASE CallFails
  BY <1>0, <1>a, <1>3 DEF CallFails, RecordRound
<1>4. ASSUME NEW cost \in Cost, OverBudget(cost)
      PROVE  Books'
  BY <1>0, <1>a, <1>4 DEF OverBudget, Charge
<1>5. ASSUME NEW cost \in Cost, Answers(cost)
      PROVE  Books'
  BY <1>0, <1>a, <1>5 DEF Answers, Charge, Finish, RecordRound
<1>6. ASSUME NEW cost \in Cost, NEW c \in Call, Refuse(c, cost)
      PROVE  Books'
  BY <1>0, <1>a, <1>6 DEF Refuse, Charge, Count, RecordRound
<1>7. ASSUME NEW cost \in Cost, NEW c \in Call, AnswersWithAction(c, cost)
      PROVE  Books'
  BY <1>0, <1>a, <1>7 DEF AnswersWithAction, Charge, Count, Finish, RecordRound
<1>8. ASSUME NEW cost \in Cost, NEW c \in Call, Start(c, cost)
      PROVE  Books'
  BY <1>0, <1>a, <1>8 DEF Start, Charge, Count, trace
<1>9. ASSUME pc = "tool", Observe
      PROVE  Books'
  <2>1. job.cost \in Nat
    BY <1>9 DEF LoopInv, TypeOK, Job
  <2> QED BY <1>0, <1>a, <1>9, <2>1 DEF Observe, RecordRound
<1>10. CASE ToolEnds
  BY <1>9, <1>10 DEF ToolEnds
<1>11. CASE ToolIsMissing
  BY <1>9, <1>11 DEF ToolIsMissing
<1>12. CASE ToolRaises
  <2>1. job'.cost = job.cost
    BY <1>12 DEF LoopInv, TypeOK, ToolRaises, Job
  <2> QED BY <1>0, <1>a, <1>12, <2>1 DEF ToolRaises, trace
<1>13. CASE UNCHANGED vars
  BY <1>a, <1>13 DEF vars, trace
<1> QED
  BY <1>1, <1>2, <1>3, <1>4, <1>5, <1>6, <1>7, <1>8, <1>10, <1>11, <1>12, <1>13
     DEF Next, Reply

\* A request that is only counted leaves the allowance no smaller.
LEMMA CountKeepsGranted ==
  ASSUME TypeOK, pc # "tool", NEW c \in Call, NEW d \in Call, Count(d)
  PROVE  Granted(c) * (RetryMax + 1) <= Granted(c)' * (RetryMax + 1)
<1>1. counted[c] \in Nat /\ counted'[c] \in Nat /\ counted[c] <= counted'[c]
  BY DEF TypeOK, Count
<1>2. Granted(c) \in Nat /\ Granted(c)' \in Nat /\ Granted(c) <= Granted(c)'
  BY <1>1 DEF Granted
<1> QED BY <1>2, Monotone

\* Every step keeps the runs within the granted requests.
LEMMA RunsStep ==
  ASSUME LoopInv, [Next]_vars
  PROVE  RunsGranted'
<1>0. /\ counted \in [Call -> Nat] /\ tries \in [Call -> Nat]
      /\ pc \in {"ask", "reply", "tool", "end"}
  BY DEF LoopInv, TypeOK
<1>a. RunsGranted /\ TypeOK
  BY DEF LoopInv
<1>b. ASSUME UNCHANGED <<counted, tries>>, pc # "tool", pc' # "tool"
      PROVE  RunsGranted'
  BY <1>a, <1>b DEF RunsGranted, Granted
<1>c. ASSUME NEW d \in Call, Count(d), tries' = tries, pc # "tool", pc' # "tool"
      PROVE  RunsGranted'
  <2>1. SUFFICES ASSUME NEW c \in Call
                 PROVE  tries'[c] <= Granted(c)' * (RetryMax + 1)
    BY <1>c DEF RunsGranted
  <2>2. tries[c] <= Granted(c) * (RetryMax + 1)
    BY <1>a, <1>c DEF RunsGranted
  <2>3. Granted(c) * (RetryMax + 1) <= Granted(c)' * (RetryMax + 1)
    BY <1>a, <1>c, CountKeepsGranted
  <2>4. counted'[c] \in Nat
    BY <1>0, <1>c DEF Count
  <2>5. /\ Granted(c) * (RetryMax + 1) \in Nat
        /\ Granted(c)' * (RetryMax + 1) \in Nat
    BY <1>0, <2>4 DEF Granted
  <2> QED BY <1>0, <1>c, <2>2, <2>3, <2>5
<1>1. CASE Ask \/ TimesOut \/ CallFails
  BY <1>1, <1>b DEF Ask, TimesOut, CallFails
<1>2. ASSUME NEW cost \in Cost, OverBudget(cost) \/ Answers(cost)
      PROVE  RunsGranted'
  BY <1>2, <1>b DEF OverBudget, Answers, Finish
<1>3. ASSUME NEW cost \in Cost, NEW c \in Call, Refuse(c, cost) \/ AnswersWithAction(c, cost)
      PROVE  RunsGranted'
  BY <1>3, <1>c DEF Refuse, AnswersWithAction, Finish
<1>4. ASSUME NEW cost \in Cost, NEW d \in Call, Start(d, cost)
      PROVE  RunsGranted'
  <2>0. /\ pc = "reply" /\ pc' = "tool" /\ tries' = tries
        /\ job' = [call |-> d, cost |-> cost, attempt |-> 1]
        /\ counted' = [counted EXCEPT ![d] = counted[d] + 1]
        /\ counted[d] + 1 <= DedupThreshold
    BY <1>0, <1>4 DEF Start, Repeated, Count
  <2>1. SUFFICES ASSUME NEW c \in Call
                 PROVE  IF d = c
                        THEN /\ 1 <= counted'[c] /\ counted'[c] <= DedupThreshold
                             /\ tries'[c] <= (Granted(c)' - 1) * (RetryMax + 1) + 1 - 1
                        ELSE tries'[c] <= Granted(c)' * (RetryMax + 1)
    <3>1. pc' = "tool" /\ job'.call = d /\ job'.attempt = 1
      BY <2>0
    <3> QED BY <3>1 DEF RunsGranted
  <2>2. tries[c] <= Granted(c) * (RetryMax + 1)
    BY <1>a, <2>0 DEF RunsGranted
  <2>3. CASE d = c
    <3>1. /\ counted'[c] = counted[c] + 1 /\ counted[c] \in Nat
      BY <1>0, <2>0, <2>3
    <3>2. Granted(c)' - 1 = Granted(c)
      BY <2>0, <2>3, <3>1 DEF Granted
    <3>3. Granted(c) \in Nat /\ Granted(c) * (RetryMax + 1) \in Nat
      BY <3>1, <2>0 DEF Granted
    <3> QED BY <1>0, <2>0, <2>2, <2>3, <3>1, <3>2, <3>3
  <2>4. CASE d # c
    <3>1. Granted(c)' = Granted(c)
      BY <1>0, <2>0, <2>4 DEF Granted
    <3> QED BY <2>0, <2>2, <2>4, <3>1
  <2> QED BY <2>3, <2>4
<1>5. CASE ToolIsMissing
  <2>1. SUFFICES ASSUME NEW c \in Call
                 PROVE  tries[c] <= Granted(c) * (RetryMax + 1)
    <3>1. pc' # "tool" /\ tries' = tries /\ \A c \in Call : Granted(c)' = Granted(c)
      BY <1>5 DEF ToolIsMissing, Observe, Granted
    <3> QED BY <3>1 DEF RunsGranted
  <2>2. CASE job.call = c
    <3>1. /\ 1 <= counted[c] /\ counted[c] <= DedupThreshold
          /\ tries[c] <= (Granted(c) - 1) * (RetryMax + 1) + job.attempt - 1
      BY <1>a, <1>5, <2>2 DEF RunsGranted, ToolIsMissing
    <3>2. Granted(c) \in Nat /\ Granted(c) - 1 \in Nat /\ job.attempt \in 1..(RetryMax + 1)
      BY <1>0, <1>a, <1>5, <3>1 DEF Granted, TypeOK, ToolIsMissing, Job
    <3>3. Granted(c) * (RetryMax + 1) = (Granted(c) - 1) * (RetryMax + 1) + RetryMax + 1
      BY <3>2, OneMore
    <3>4. (Granted(c) - 1) * (RetryMax + 1) \in Nat
      BY <3>2
    <3> QED BY <1>0, <3>1, <3>2, <3>3, <3>4
  <2>3. CASE job.call # c
    BY <1>a, <1>5, <2>3 DEF RunsGranted, ToolIsMissing
  <2> QED BY <2>2, <2>3
<1>6. CASE ToolEnds
  <2>0. /\ pc = "tool" /\ pc' = "ask" /\ counted' = counted /\ job.call \in Call
        /\ tries' = [tries EXCEPT ![job.call] = tries[job.call] + 1]
    BY <1>a, <1>6 DEF ToolEnds, Observe, RunTool, TypeOK, Job
  <2>1. SUFFICES ASSUME NEW c \in Call
                 PROVE  tries'[c] <= Granted(c) * (RetryMax + 1)
    <3>1. \A c \in Call : Granted(c)' = Granted(c)
      BY <2>0 DEF Granted
    <3> QED BY <2>0, <3>1 DEF RunsGranted
  <2>2. CASE job.call = c
    <3>1. /\ 1 <= counted[c] /\ counted[c] <= DedupThreshold
          /\ tries[c] <= (Granted(c) - 1) * (RetryMax + 1) + job.attempt - 1
      BY <1>a, <2>0, <2>2 DEF RunsGranted
    <3>2. Granted(c) \in Nat /\ Granted(c) - 1 \in Nat /\ job.attempt \in 1..(RetryMax + 1)
      BY <1>0, <1>a, <2>0, <3>1 DEF Granted, TypeOK, Job
    <3>3. Granted(c) * (RetryMax + 1) = (Granted(c) - 1) * (RetryMax + 1) + RetryMax + 1
      BY <3>2, OneMore
    <3>4. (Granted(c) - 1) * (RetryMax + 1) \in Nat
      BY <3>2
    <3>5. tries'[c] = tries[c] + 1
      BY <1>0, <2>0, <2>2
    <3> QED BY <1>0, <3>1, <3>2, <3>3, <3>4, <3>5
  <2>3. CASE job.call # c
    <3>1. tries'[c] = tries[c]
      BY <1>0, <2>0, <2>3
    <3> QED BY <1>a, <2>0, <2>3, <3>1 DEF RunsGranted
  <2> QED BY <2>2, <2>3
<1>7. CASE ToolRaises
  <2>0. /\ pc = "tool" /\ pc' = "tool" /\ counted' = counted /\ job.call \in Call
        /\ job'.call = job.call /\ job'.attempt = job.attempt + 1
        /\ job.attempt \in Nat
        /\ tries' = [tries EXCEPT ![job.call] = tries[job.call] + 1]
    BY <1>a, <1>7 DEF ToolRaises, RunTool, TypeOK, Job
  <2>1. SUFFICES ASSUME NEW c \in Call
                 PROVE  IF job.call = c
                        THEN /\ 1 <= counted[c] /\ counted[c] <= DedupThreshold
                             /\ tries'[c] <= (Granted(c) - 1) * (RetryMax + 1)
                                             + (job.attempt + 1) - 1
                        ELSE tries'[c] <= Granted(c) * (RetryMax + 1)
    <3>1. \A c \in Call : Granted(c)' = Granted(c)
      BY <2>0 DEF Granted
    <3> QED BY <2>0, <3>1 DEF RunsGranted
  <2>2. CASE job.call = c
    <3>1. /\ 1 <= counted[c] /\ counted[c] <= DedupThreshold
          /\ tries[c] <= (Granted(c) - 1) * (RetryMax + 1) + job.attempt - 1
      BY <1>a, <2>0, <2>2 DEF RunsGranted
    <3>2. tries'[c] = tries[c] + 1
      BY <1>0, <2>0, <2>2
    <3>3. (Granted(c) - 1) * (RetryMax + 1) \in Int
      BY <1>0, <3>1 DEF Granted
    <3> QED BY <1>0, <2>0, <2>2, <3>1, <3>2, <3>3
  <2>3. CASE job.call # c
    <3>1. tries'[c] = tries[c]
      BY <1>0, <2>0, <2>3
    <3> QED BY <1>a, <2>0, <2>3, <3>1 DEF RunsGranted
  <2> QED BY <2>2, <2>3
<1>8. CASE UNCHANGED vars
  BY <1>a, <1>8 DEF vars, RunsGranted, Granted
<1> QED
  BY <1>1, <1>2, <1>3, <1>4, <1>5, <1>6, <1>7, <1>8 DEF Next, Reply

-----------------------------------------------------------------------------
\* The first state has the invariant.
LEMMA InitInv ==
  ASSUME Init
  PROVE  LoopInv
<1>1. Opening \in Seq(Message)
  BY MsgType DEF Opening
<1>2. TypeOK
  BY <1>1 DEF Init, TypeOK
<1>3. Books
  BY DEF Init, Books, TraceIsComplete
<1>4. RunsGranted
  <2>1. SUFFICES ASSUME NEW c \in Call
                 PROVE  tries[c] <= Granted(c) * (RetryMax + 1)
    BY DEF Init, RunsGranted
  <2>2. tries[c] = 0 /\ counted[c] = 0
    BY DEF Init
  <2>3. Granted(c) = 0
    BY <2>2 DEF Granted
  <2> QED BY <2>2, <2>3
<1> QED BY <1>2, <1>3, <1>4 DEF LoopInv

\* The loop is always in a state of TypeOK with its books in order.
LEMMA InvHolds == Spec => []LoopInv
<1>1. Init => LoopInv
  BY InitInv
<1>2. LoopInv /\ [Next]_vars => LoopInv'
  BY TypeStep, BooksStep, RunsStep DEF LoopInv
<1> QED BY <1>1, <1>2, PTL DEF Spec

\* A granted request is one of at most DedupThreshold.
LEMMA RunsAreBounded ==
  ASSUME LoopInv
  PROVE  ToolsRunBounded
<1>1. SUFFICES ASSUME NEW c \in Call
               PROVE  tries[c] <= DedupThreshold * (RetryMax + 1)
  BY DEF ToolsRunBounded
<1>2. /\ Granted(c) \in Nat /\ Granted(c) <= DedupThreshold
      /\ tries[c] \in Nat
  BY DEF LoopInv, TypeOK, Granted
<1>3. Granted(c) * (RetryMax + 1) <= DedupThreshold * (RetryMax + 1)
  BY <1>2, Monotone
<1>4. tries[c] <= Granted(c) * (RetryMax + 1)
  <2>1. CASE pc = "tool" /\ job.call = c
    <3>1. /\ 1 <= counted[c] /\ counted[c] <= DedupThreshold
          /\ tries[c] <= (Granted(c) - 1) * (RetryMax + 1) + job.attempt - 1
      BY <2>1 DEF LoopInv, RunsGranted
    <3>2. Granted(c) \in Nat /\ Granted(c) - 1 \in Nat /\ job.attempt \in 1..(RetryMax + 1)
      BY <2>1, <3>1 DEF LoopInv, TypeOK, Granted, Job
    <3>3. Granted(c) * (RetryMax + 1) = (Granted(c) - 1) * (RetryMax + 1) + RetryMax + 1
      BY <3>2, OneMore
    <3>4. (Granted(c) - 1) * (RetryMax + 1) \in Nat
      BY <3>2
    <3> QED BY <1>2, <3>1, <3>2, <3>3, <3>4
  <2>2. CASE ~(pc = "tool" /\ job.call = c)
    BY <2>2 DEF LoopInv, RunsGranted
  <2> QED BY <2>1, <2>2
<1>5. Granted(c) * (RetryMax + 1) \in Nat /\ DedupThreshold * (RetryMax + 1) \in Nat
  BY <1>2
<1> QED BY <1>2, <1>3, <1>4, <1>5

\* The loop state keeps its types (LoopEngine.run).
THEOREM TypeCorrect == Spec => []TypeOK
<1>1. LoopInv => TypeOK
  BY DEF LoopInv
<1> QED BY <1>1, InvHolds, PTL

\* No signature is run more often than dedup and the retries allow
\* (_check_dedup, _execute_with_retry), for any planner.
THEOREM ToolsRunBoundedCorrect == Spec => []ToolsRunBounded
<1>1. LoopInv => ToolsRunBounded
  BY RunsAreBounded
<1> QED BY <1>1, InvHolds, PTL

\* On every return of run the trace has all rounds and all tokens.
THEOREM TraceIsCompleteCorrect == Spec => []TraceIsComplete
<1>1. LoopInv => TraceIsComplete
  BY DEF LoopInv, Books
<1> QED BY <1>1, InvHolds, PTL

-----------------------------------------------------------------------------
(* What the planner sees *)

\* The messages begin with the opening and end with one of round r.
View(m, r) ==
  /\ Len(m) >= 2 /\ m[1] = Msg(0, "system") /\ m[2] = Msg(0, "goal")
  /\ m[Len(m)].of = r

ViewInv ==
  /\ pc \in {"ask", "reply", "tool"} => View(messages, round - 1)
  /\ pc = "reply" => Len(messages) <= 2 + 3 * Window

\* The window keeps the opening and the last message, as it is not empty.
LEMMA TrimView ==
  ASSUME NEW m \in Seq(Message), NEW r, View(m, r)
  PROVE  View(Trim(m), r) /\ Len(Trim(m)) <= 2 + 3 * Window
<1>1. CASE Len(m) <= 2 + 3 * Window
  BY <1>1 DEF Trim
<1>2. CASE ~(Len(m) <= 2 + 3 * Window)
  <2> DEFINE w    == 3 * Window
             head == SubSeq(m, 1, 2)
             tail == SubSeq(m, Len(m) - w + 1, Len(m))
  <2>1. Len(m) \in Nat /\ w \in Nat /\ w >= 3 /\ Len(m) > 2 + w
    BY <1>2
  <2> HIDE DEF w
  <2>2. /\ head \in Seq(Message) /\ Len(head) = 2 /\ head[1] = m[1] /\ head[2] = m[2]
    <3>1. \A i \in 1..2 : m[i] \in Message
      BY <2>1
    <3> QED BY <3>1, SubSeqProperties
  <2>3. tail \in Seq(Message) /\ Len(tail) = w /\ tail[w] = m[Len(m)]
    <3>1. \A i \in (Len(m) - w + 1)..Len(m) : m[i] \in Message
      BY <2>1
    <3>2. /\ tail \in Seq(Message)
          /\ Len(tail) = (IF Len(m) - w + 1 <= Len(m) THEN Len(m) - (Len(m) - w + 1) + 1 ELSE 0)
          /\ \A i \in 1..(Len(m) - (Len(m) - w + 1) + 1) : tail[i] = m[Len(m) - w + 1 + i - 1]
      BY <2>1, <3>1, SubSeqProperties
    <3>3. Len(m) - (Len(m) - w + 1) + 1 = w /\ Len(m) - w + 1 + w - 1 = Len(m)
      BY <2>1
    <3> QED BY <2>1, <3>2, <3>3
  <2> HIDE DEF head, tail
  <2>4. Trim(m) = head \o tail
    BY <1>2, Zenon DEF Trim, head, tail, w
  <2>5. /\ Len(head \o tail) = 2 + w /\ (head \o tail)[1] = head[1]
        /\ (head \o tail)[2] = head[2] /\ (head \o tail)[2 + w] = tail[w]
    <3>1. /\ Len(head \o tail) = Len(head) + Len(tail)
          /\ \A i \in 1..(Len(head) + Len(tail)) :
               (head \o tail)[i] = IF i <= Len(head) THEN head[i] ELSE tail[i - Len(head)]
      BY <2>2, <2>3, ConcatProperties
    <3> QED BY <2>1, <2>2, <2>3, <3>1
  <2>6. View(head \o tail, r)
    BY <2>2, <2>3, <2>5 DEF View
  <2> QED BY <2>1, <2>4, <2>5, <2>6 DEF w
<1> QED BY <1>1, <1>2

\* What a round adds is of that round.
LEMMA AddedView ==
  ASSUME NEW m \in Seq(Message), NEW q, View(m, q), NEW r,
         NEW s \in Seq(Message), s # <<>>, s[Len(s)].of = r
  PROVE  View(m \o s, r)
<1>1. Len(m) \in Nat /\ Len(s) \in Nat /\ Len(s) >= 1
  BY EmptySeq
<1>2. /\ Len(m \o s) = Len(m) + Len(s)
      /\ \A i \in 1..(Len(m) + Len(s)) :
           (m \o s)[i] = IF i <= Len(m) THEN m[i] ELSE s[i - Len(m)]
  BY ConcatProperties
<1>3. (m \o s)[1] = m[1] /\ (m \o s)[2] = m[2] /\ Len(m) >= 2
  BY <1>1, <1>2 DEF View
<1>4. (m \o s)[Len(m) + Len(s)] = s[Len(s)]
  BY <1>1, <1>2
<1> QED BY <1>1, <1>2, <1>3, <1>4 DEF View

LEMMA ViewStep ==
  ASSUME LoopInv, ViewInv, [Next]_vars
  PROVE  ViewInv'
<1>0. messages \in Seq(Message) /\ round \in Nat
  BY DEF LoopInv, TypeOK
<1>1. CASE Ask
  BY <1>0, <1>1, TrimView DEF Ask, ViewInv
<1>2. ASSUME NEW cost \in Cost, NEW c \in Call, Refuse(c, cost)
      PROVE  ViewInv'
  <2> DEFINE s == <<Msg(round, "call"), Msg(round, "dedup")>>
  <2>1. s \in Seq(Message) /\ s # <<>> /\ s[Len(s)].of = round
    <3>1. s \in Seq(Message) /\ Len(s) = 2 /\ s[2] = Msg(round, "dedup")
      BY <1>0, MsgType
    <3>2. s # <<>>
      BY <3>1, EmptySeq
    <3>3. Msg(round, "dedup").of = round
      BY DEF Msg
    <3> HIDE DEF s
    <3> QED BY <3>1, <3>2, <3>3
  <2>2. /\ pc = "reply" /\ pc' = "ask" /\ messages' = messages \o s
        /\ round' = round + 1
    BY <1>2 DEF Refuse
  <2> HIDE DEF s
  <2>3. View(messages \o s, round)
    BY <1>0, <2>1, <2>2, AddedView DEF ViewInv
  <2>4. round' - 1 = round
    BY <1>0, <2>2
  <2> QED BY <2>2, <2>3, <2>4 DEF ViewInv
<1>3. ASSUME pc = "tool", Observe
      PROVE  ViewInv'
  <2> DEFINE s == <<Msg(round, "call"), Msg(round, "observation"), Msg(round, "evaluation")>>
  <2>1. s \in Seq(Message) /\ s # <<>> /\ s[Len(s)].of = round
    <3>1. s \in Seq(Message) /\ Len(s) = 3 /\ s[3] = Msg(round, "evaluation")
      BY <1>0, MsgType
    <3>2. s # <<>>
      BY <3>1, EmptySeq
    <3>3. Msg(round, "evaluation").of = round
      BY DEF Msg
    <3> HIDE DEF s
    <3> QED BY <3>1, <3>2, <3>3
  <2>2. pc' = "ask" /\ messages' = messages \o s /\ round' = round + 1
    BY <1>3 DEF Observe
  <2> HIDE DEF s
  <2>3. View(messages \o s, round)
    BY <1>0, <1>3, <2>1, AddedView DEF ViewInv
  <2>4. round' - 1 = round
    BY <1>0, <2>2
  <2> QED BY <2>2, <2>3, <2>4 DEF ViewInv
<1>4. CASE ToolEnds \/ ToolIsMissing
  BY <1>3, <1>4 DEF ToolEnds, ToolIsMissing
<1>5. CASE ToolRaises
  BY <1>5 DEF ToolRaises, ViewInv
<1>6. ASSUME NEW cost \in Cost, NEW c \in Call, Start(c, cost)
      PROVE  ViewInv'
  BY <1>6 DEF Start, ViewInv
<1>7. CASE TimesOut \/ CallFails
  BY <1>7 DEF TimesOut, CallFails, ViewInv
<1>8. ASSUME NEW cost \in Cost,
             \/ OverBudget(cost) \/ Answers(cost)
             \/ \E c \in Call : AnswersWithAction(c, cost)
      PROVE  ViewInv'
  BY <1>8 DEF OverBudget, Answers, AnswersWithAction, Finish, ViewInv
<1>9. CASE UNCHANGED vars
  BY <1>9 DEF vars, ViewInv
<1> QED BY <1>1, <1>2, <1>4, <1>5, <1>6, <1>7, <1>8, <1>9 DEF Next, Reply

LEMMA InitView == Init => ViewInv
BY DEF Init, ViewInv, View, Opening, Msg

\* The planner always sees the system prompt and the goal, within the window, and last
\* of all the outcome of the round before (_manage_state), whatever came before it.
THEOREM PlannerSeesCorrect == Spec => []PlannerSeesGoalAndOutcome
<1>1. LoopInv /\ ViewInv => PlannerSeesGoalAndOutcome
  <2> SUFFICES ASSUME LoopInv, ViewInv, pc = "reply"
               PROVE  /\ SubSeq(messages, 1, 2) = Opening
                      /\ Len(messages) <= 2 + 3 * Window
                      /\ messages[Len(messages)].of = round - 1
    BY DEF PlannerSeesGoalAndOutcome
  <2>1. messages \in Seq(Message) /\ View(messages, round - 1)
    BY DEF LoopInv, TypeOK, ViewInv
  <2>2. SubSeq(messages, 1, 2) = Opening
    <3>1. \A i \in 1..2 : messages[i] \in Message
      BY <2>1 DEF View
    <3>2. /\ SubSeq(messages, 1, 2) \in Seq(Message) /\ Len(SubSeq(messages, 1, 2)) = 2
          /\ SubSeq(messages, 1, 2)[1] = messages[1]
          /\ SubSeq(messages, 1, 2)[2] = messages[2]
      BY <3>1, SubSeqProperties
    <3>3. /\ Opening \in Seq(Message) /\ Len(Opening) = 2
          /\ Opening[1] = Msg(0, "system") /\ Opening[2] = Msg(0, "goal")
      BY MsgType DEF Opening
    <3>4. PICK a \in Seq(Message), b \in Seq(Message) :
            a = SubSeq(messages, 1, 2) /\ b = Opening
      BY <3>2, <3>3
    <3>5. Len(a) = Len(b) /\ \A i \in 1..Len(a) : a[i] = b[i]
      BY <2>1, <3>2, <3>3, <3>4 DEF View
    <3>6. a = b
      BY <3>5, SeqEqual
    <3> QED BY <3>4, <3>6
  <2> QED BY <2>1, <2>2 DEF ViewInv, View
<1>2. ViewInv /\ LoopInv /\ [Next]_vars => ViewInv'
  BY ViewStep
<1> QED BY <1>1, <1>2, InitView, InvHolds, PTL DEF Spec

-----------------------------------------------------------------------------
(* Preparing a run: the files, and what the call holds of them *)

FileRecord == [inode : Path \cup Nat, stamp : Nat, content : Content]
CallAt     == Live \cup {"returned", "raised", "died"}
CallRecord == [at |-> call.at, n |-> call.n, status |-> call.status, adapter |-> call.adapter,
               before |-> call.before, stream |-> call.stream, bytes |-> call.bytes,
               text |-> call.text]
WorkRecord == [manifest |-> work.manifest, entries |-> work.entries, intents |-> work.intents,
               actions |-> work.actions, failures |-> work.failures]
RunRecord  == [made |-> run.made, registered |-> run.registered, extracted |-> run.extracted,
               saved |-> run.saved]

\* Where the call has the file before it, where it has a stream on it, and where it has
\* its bytes and no judgement yet.
Looked  == {"open", "read", "snapshot", "extract"}
Held    == {"snapshot", "extract"}
OfAFile == {"identify", "bind", "stat", "judge"} \cup Looked

FilesOK ==
  /\ disk \in [Path -> FileRecord \cup {None}] /\ aside \in [Path -> FileRecord \cup {None}]
  /\ edits \in Nat

\* No two files of a path share an inode, and no stamp is later than the last change.
InodesApart ==
  \A p \in Path :
    /\ disk[p] # None /\ aside[p] # None => disk[p].inode # aside[p].inode
    /\ \A f \in {disk[p], aside[p]} \ {None} :
         f.stamp <= edits /\ (f.inode \in Nat => f.inode <= edits)

\* The bytes that were read are those of every file at the path that still has the
\* identity seen before.
ReadTruly ==
  /\ call.at \in Looked =>
       call.before \in FileRecord /\ call.before.stamp <= edits
  /\ call.at = "read" =>
       call.stream \in FileRecord /\ call.stream.inode = call.before.inode
  /\ call.at \in Held \cup {"judge"} => call.bytes \in Content
  /\ call.at \in Held =>
       \A f \in {disk[Source], aside[Source]} \ {None} :
         Identity(f) = Identity(call.before) => f.content = call.bytes

CallOK ==
  /\ call = CallRecord /\ work = WorkRecord /\ run = RunRecord
  /\ call.at \in CallAt /\ call.n \in Nat \ {0}
  /\ call.at \in OfAFile => call.n <= Len(Input)
  /\ call.at \in {"claim", "register"} => call.n = 1

FileInv == CallOK /\ FilesOK /\ InodesApart /\ ReadTruly

-----------------------------------------------------------------------------
(* What the call gathers and saves *)

IsSequence(s) == \E S : s \in Seq(S)

GatheredOK ==
  /\ IsSequence(work.manifest)
  /\ IsSequence(work.entries)
  /\ IsSequence(work.intents)
  /\ IsSequence(work.actions)
  /\ IsSequence(work.failures)

\* The k-th action is borne out by what was gathered.
BorneOut(k) ==
  LET action == work.actions[k] IN
  /\ action.blockers # {} /\ action.source \in {None, Input[k]}
  /\ IF action.intent = None
     THEN \E j \in DOMAIN work.failures : work.failures[j].n = k
     ELSE /\ action.intent.source = Input[k]
          /\ action.intent.hash \in DOMAIN run.extracted
          /\ \E j \in DOMAIN work.entries :
               /\ work.intents[j] = action.intent
               /\ work.entries[j].hash = action.intent.hash
               /\ work.manifest[j] = [source |-> Input[k], hash |-> action.intent.hash]

Gathered ==
  /\ GatheredOK
  /\ \A k \in DOMAIN work.actions : BorneOut(k)
  /\ \A j \in DOMAIN work.failures :
       work.failures[j].n \in DOMAIN work.actions /\ work.actions[work.failures[j].n].intent = None
  /\ Len(work.intents) = Len(work.entries)
  /\ Len(work.actions) = Len(work.intents) + Len(work.failures)
  /\ call.at \in CallAt \ {"judge", "raised", "died"} => Len(work.manifest) = Len(work.entries)
  /\ call.at = "judge" =>
       /\ Len(work.manifest) = Len(work.entries) + 1
       /\ work.manifest[Len(work.manifest)] = [source |-> Source, hash |-> call.bytes]
       /\ call.bytes \in DOMAIN run.extracted
  /\ call.at \in {"claim", "register"} => Len(work.actions) = 0
  /\ call.at \in OfAFile => Len(work.actions) = call.n - 1
  /\ call.at \in {"queue", "save", "returned"} => Len(work.actions) = Len(Input)

\* The artifacts come in their order, and none before the last file is done.
Saved ==
  /\ \E k \in 0..6 : run.saved = Artifacts(SaveOrder, k) /\ (call.at = "save" => k < 6)
  /\ run.saved # {} =>
       /\ call.at \in {"save", "returned", "raised", "died"}
       /\ run.registered /\ Len(work.actions) = Len(Input)
  /\ call.at \notin {"claim", "register", "raised", "died"} => run.registered
  /\ call.at = "returned" => call.status = RunStatus

RunInv == FileInv /\ Gathered /\ Saved /\ RelationsAreTraced

-----------------------------------------------------------------------------
(* Others change the files *)

LEMMA SourceIsPath ==
  ASSUME CallOK, call.at \in OfAFile
  PROVE  Source \in Path
BY InputAssumption DEF CallOK, Source

LEMMA OthersKeepFiles ==
  ASSUME FileInv, NEW p \in Path,
         Remove(p) \/ PutBack(p) \/ \E c \in Content : Edit(p, c) \/ Replace(p, c)
  PROVE  FileInv'
<1>0. /\ disk \in [Path -> FileRecord \cup {None}] /\ aside \in [Path -> FileRecord \cup {None}]
      /\ edits \in Nat /\ edits' = edits + 1 /\ UNCHANGED <<call, work, run>>
  BY DEF FileInv, FilesOK, Remove, PutBack, Edit, Replace, Others
<1>1. CallOK'
  BY <1>0 DEF FileInv, CallOK, CallRecord, WorkRecord, RunRecord
\* The two files of the path afterwards.
<1> DEFINE Kept ==
      /\ disk'[p] \in FileRecord \cup {None} /\ aside'[p] \in FileRecord \cup {None}
      /\ disk' \in [Path -> FileRecord \cup {None}] /\ aside' \in [Path -> FileRecord \cup {None}]
      /\ \A q \in Path : q # p => disk'[q] = disk[q] /\ aside'[q] = aside[q]
      /\ \A f \in {disk'[p], aside'[p]} \ {None} :
           \/ f \in {disk[p], aside[p]}
           \/ f.stamp = edits + 1 /\ (f.inode \in Nat => f.inode <= edits + 1)
      /\ disk'[p] # None /\ aside'[p] # None => disk'[p].inode # aside'[p].inode
<1>2. Kept
  <2>1. CASE Remove(p)
    BY <1>0, <2>1 DEF Remove
  <2>2. CASE PutBack(p)
    BY <1>0, <2>2 DEF PutBack
  <2>3. ASSUME NEW c \in Content, Edit(p, c) PROVE Kept
    <3> DEFINE new == File(disk[p].inode, edits + 1, c)
    <3>1. disk[p] \in FileRecord /\ disk[p] # None
      BY <1>0, <2>3 DEF Edit
    <3>2. new \in FileRecord /\ new.inode = disk[p].inode /\ new.stamp = edits + 1
      BY <1>0, <3>1 DEF File, FileRecord
    <3>3. disk' = [disk EXCEPT ![p] = new] /\ aside' = aside
      BY <1>0, <2>3 DEF Edit
    <3>4. disk[p].inode \in Nat => disk[p].inode <= edits + 1
      BY <1>0, <3>1 DEF FileInv, InodesApart
    <3>5. aside[p] # None => disk[p].inode # aside[p].inode
      BY <3>1 DEF FileInv, InodesApart
    <3> HIDE DEF new
    <3> QED BY <1>0, <3>2, <3>3, <3>4, <3>5
  <2>4. ASSUME NEW c \in Content, Replace(p, c) PROVE Kept
    <3> DEFINE new == File(edits + 1, edits + 1, c)
    <3>2. new \in FileRecord /\ new.inode = edits + 1 /\ new.stamp = edits + 1
      BY <1>0 DEF File, FileRecord
    <3>3. disk' = [disk EXCEPT ![p] = new] /\ aside' = [aside EXCEPT ![p] = disk[p]]
      BY <2>4 DEF Replace
    <3>5. disk[p] # None => disk[p].inode # edits + 1
      BY <1>0 DEF FileInv, InodesApart
    <3>6. new.inode \in Nat /\ new.inode <= edits + 1
      BY <1>0, <3>2
    <3> HIDE DEF new
    <3>7. disk'[p] = new /\ aside'[p] = disk[p]
      BY <1>0, <3>3
    <3>8. /\ disk' \in [Path -> FileRecord \cup {None}] /\ aside' \in [Path -> FileRecord \cup {None}]
          /\ \A q \in Path : q # p => disk'[q] = disk[q] /\ aside'[q] = aside[q]
      BY <1>0, <3>2, <3>3
    <3>9. disk'[p] # None /\ aside'[p] # None => disk'[p].inode # aside'[p].inode
      BY <3>2, <3>5, <3>7
    <3>10. \A f \in {disk'[p], aside'[p]} \ {None} :
             \/ f \in {disk[p], aside[p]}
             \/ f.stamp = edits + 1 /\ (f.inode \in Nat => f.inode <= edits + 1)
      BY <3>2, <3>6, <3>7
    <3>11. disk'[p] \in FileRecord \cup {None} /\ aside'[p] \in FileRecord \cup {None}
      BY <3>8
    <3> QED BY <3>8, <3>9, <3>10, <3>11
  <2> QED BY <2>1, <2>2, <2>3, <2>4
<1>3. FilesOK'
  BY <1>0, <1>2 DEF FilesOK
<1>4. \A q \in Path : \A f \in {disk'[q], aside'[q]} \ {None} :
        \/ f \in {disk[q], aside[q]}
        \/ f.stamp = edits + 1 /\ (f.inode \in Nat => f.inode <= edits + 1)
  BY <1>2
<1>5. \A q \in Path : \A f \in {disk[q], aside[q]} \ {None} :
        f.stamp \in Nat /\ f.stamp <= edits /\ (f.inode \in Nat => f.inode <= edits)
  BY <1>0 DEF FileInv, InodesApart, FileRecord
<1>6. InodesApart'
  <2>1. ASSUME NEW q \in Path, disk'[q] # None, aside'[q] # None PROVE disk'[q].inode # aside'[q].inode
    BY <1>2, <2>1 DEF FileInv, InodesApart
  <2>2. ASSUME NEW q \in Path, NEW f \in {disk'[q], aside'[q]} \ {None}
        PROVE  f.stamp <= edits' /\ (f.inode \in Nat => f.inode <= edits')
    BY <1>0, <1>4, <1>5
  <2> QED BY <2>1, <2>2 DEF InodesApart
<1>7. ReadTruly'
  <2>1. Source' = Source
    BY <1>0 DEF Source
  <2>2. ASSUME call.at \in Held, NEW f \in {disk'[Source], aside'[Source]} \ {None},
               Identity(f) = Identity(call.before)
        PROVE  f.content = call.bytes
    <3>1. Source \in Path
      BY <2>2, SourceIsPath DEF FileInv, OfAFile, Looked, Held
    <3>2. call.before.stamp \in Nat /\ call.before.stamp <= edits
      BY <2>2 DEF FileInv, ReadTruly, Looked, Held, FileRecord
    <3>3. f.stamp = call.before.stamp
      BY <2>2 DEF Identity
    <3>4. f \in {disk[Source], aside[Source]}
      BY <1>0, <1>4, <2>2, <3>1, <3>2, <3>3
    <3> QED BY <2>2, <3>4 DEF FileInv, ReadTruly
  <2>3. call.at \in Looked => call.before.stamp <= edits'
    BY <1>0 DEF FileInv, ReadTruly, FileRecord
  <2> QED BY <1>0, <2>1, <2>2, <2>3 DEF FileInv, ReadTruly, Identity
<1> QED BY <1>1, <1>3, <1>6, <1>7 DEF FileInv

-----------------------------------------------------------------------------
(* The call reads them *)

LEMMA MovesFacts ==
  ASSUME CallOK, NEW where, Moves(where)
  PROVE  /\ call' = CallRecord' /\ call'.at = where
         /\ call'.n = call.n /\ call'.status = call.status /\ call'.before = call.before
         /\ call'.stream = call.stream /\ call'.bytes = call.bytes
BY DEF CallOK, CallRecord, Moves

LEMMA NextFileFacts ==
  ASSUME CallOK, call.at \in OfAFile, NextFile
  PROVE  /\ call' = CallRecord' /\ call'.n = call.n + 1 /\ call'.n \in Nat \ {0}
         /\ call'.status = call.status
         /\ call'.at = IF call.n < Len(Input) THEN "identify" ELSE "queue"
         /\ call'.at \in OfAFile => call'.n <= Len(Input)
         /\ call'.at \notin Looked \cup {"judge"} /\ call'.at \in CallAt
<1>1. Len(Input) \in Nat /\ call.n \in Nat \ {0} /\ call.n <= Len(Input)
  BY InputAssumption DEF CallOK
<1>2. /\ call' = CallRecord' /\ call'.n = call.n + 1 /\ call'.status = call.status
      /\ call'.at = IF call.n < Len(Input) THEN "identify" ELSE "queue"
  BY DEF CallOK, CallRecord, NextFile
<1>3. {"identify", "queue"} \subseteq CallAt \ (Looked \cup {"judge"}) /\ "queue" \notin OfAFile
  BY DEF OfAFile, Looked, CallAt, Live
<1>4. call.n + 1 \in Nat \ {0} /\ (call.n < Len(Input) => call.n + 1 <= Len(Input))
  BY <1>1
<1> QED BY <1>2, <1>3, <1>4

\* A step of the call that holds nothing of a file afterwards.
LEMMA ReadingFrame ==
  ASSUME FileInv, UNCHANGED <<disk, aside, edits>>, CallOK', call'.at \notin Looked \cup {"judge"}
  PROVE  FileInv'
<1>1. FilesOK' /\ InodesApart'
  BY DEF FileInv, FilesOK, InodesApart
<1>2. ReadTruly'
  BY DEF ReadTruly, Looked, Held
<1> QED BY <1>1, <1>2 DEF FileInv

LEMMA BlocksFiles ==
  ASSUME FileInv, call.at \in OfAFile, UNCHANGED <<disk, aside, edits, run>>,
         NEW source, NEW code, Blocks(source, code)
  PROVE  FileInv'
<1>1. work' = WorkRecord'
  BY DEF FileInv, CallOK, Blocks, WorkRecord
<1>2. run' = RunRecord'
  BY DEF FileInv, CallOK, RunRecord
<1>3. NextFile
  BY DEF Blocks
<1>4. CallOK' /\ call'.at \notin Looked \cup {"judge"}
  BY <1>1, <1>2, <1>3, NextFileFacts DEF FileInv, CallOK, OfAFile
<1> QED BY <1>4, ReadingFrame

LEMMA MovesFiles ==
  ASSUME FileInv, NEW where \in CallAt, where \notin Looked \cup {"judge"}, Moves(where),
         UNCHANGED <<disk, aside, edits>>, work' = WorkRecord', run' = RunRecord',
         where \in OfAFile => call.n <= Len(Input),
         where \in {"claim", "register"} => call.n = 1
  PROVE  FileInv'
<1>1. CallOK' /\ call'.at \notin Looked \cup {"judge"}
  BY MovesFacts DEF FileInv, CallOK
<1> QED BY <1>1, ReadingFrame

LEMMA SameRecords ==
  ASSUME FileInv
  PROVE  /\ work' = work => work' = WorkRecord'
         /\ run' = run => run' = RunRecord'
BY DEF FileInv, CallOK, WorkRecord, RunRecord

LEMMA StatFiles == ASSUME FileInv, Stat PROVE FileInv'
<1>1. CASE disk[Source] = None
  BY <1>1, SameRecords, MovesFiles DEF Stat, Raise, CallAt, Looked, OfAFile
<1>2. CASE disk[Source] # None
  <2>0. /\ call' = [call EXCEPT !.at = "open", !.before = disk[Source]]
        /\ UNCHANGED <<disk, aside, edits, run, work>> /\ call.at = "stat"
    BY <1>2 DEF Stat, Reading, At
  <2>1. call' = CallRecord' /\ call'.at = "open" /\ call'.before = disk[Source] /\ call'.n = call.n
    BY <2>0 DEF FileInv, CallOK, CallRecord
  <2>2. CallOK'
    BY <2>0, <2>1, SameRecords DEF FileInv, CallOK, OfAFile, Looked, CallAt, Live
  <2>3. Source \in Path
    BY <2>0, SourceIsPath DEF FileInv, OfAFile
  <2>4. disk[Source] \in FileRecord /\ disk[Source].stamp <= edits
    BY <1>2, <2>3 DEF FileInv, FilesOK, InodesApart
  <2>5. FilesOK' /\ InodesApart'
    BY <2>0 DEF FileInv, FilesOK, InodesApart
  <2>6. ReadTruly'
    BY <2>0, <2>1, <2>4 DEF ReadTruly, Held
  <2> QED BY <2>2, <2>5, <2>6 DEF FileInv
<1> QED BY <1>1, <1>2

LEMMA OpenFiles == ASSUME FileInv, Open PROVE FileInv'
<1>0. call.at = "open" /\ UNCHANGED <<disk, aside, edits, run>>
  BY DEF Open, At, Reading
<1>1. CASE Opened(Source, call.before) # "opened"
  <2>1. Blocks(Source, Opened(Source, call.before))
    BY <1>1 DEF Open
  <2> QED BY <1>0, <2>1, BlocksFiles DEF OfAFile, Looked
<1>2. CASE Opened(Source, call.before) = "opened"
  <2>0. call' = [call EXCEPT !.at = "read", !.stream = disk[Source]] /\ work' = work
    BY <1>2 DEF Open
  <2>1. /\ call' = CallRecord' /\ call'.at = "read" /\ call'.stream = disk[Source]
        /\ call'.n = call.n /\ call'.before = call.before
    BY <2>0 DEF FileInv, CallOK, CallRecord
  <2>2. CallOK'
    BY <1>0, <2>0, <2>1, SameRecords DEF FileInv, CallOK, OfAFile, Looked, CallAt, Live
  <2>3. disk[Source].inode = call.before.inode
    BY <1>2 DEF Opened
  <2>4. FilesOK' /\ InodesApart'
    BY <1>0 DEF FileInv, FilesOK, InodesApart
  <2>6. disk[Source] \in FileRecord
    <3>1. Source \in Path
      BY <1>0, SourceIsPath DEF FileInv, OfAFile, Looked
    <3> QED BY <1>2, <3>1 DEF FileInv, FilesOK, Opened
  <2>5. ReadTruly'
    BY <1>0, <2>1, <2>3, <2>6 DEF FileInv, ReadTruly, Looked, Held
  <2> QED BY <2>2, <2>4, <2>5 DEF FileInv
<1> QED BY <1>1, <1>2

\* The stream is on the inode that was looked at.  Whatever file at the path still has
\* its identity is the one the stream reads.
LEMMA ReadFiles == ASSUME FileInv, Read PROVE FileInv'
<1>0. call.at = "read" /\ UNCHANGED <<disk, aside, edits, run>>
  BY DEF Read, At, Reading
<1>1. CASE Blocks(Source, "SIZE_LIMIT")
  BY <1>0, <1>1, BlocksFiles DEF OfAFile, Looked
<1>2. CASE ~Blocks(Source, "SIZE_LIMIT")
  <2>0. /\ call' = [call EXCEPT !.at = "snapshot", !.bytes = BytesOf(Source, call.stream)]
        /\ work' = work
    BY <1>2 DEF Read
  <2>1. /\ call' = CallRecord' /\ call'.at = "snapshot" /\ call'.n = call.n
        /\ call'.bytes = BytesOf(Source, call.stream) /\ call'.before = call.before
    BY <2>0 DEF FileInv, CallOK, CallRecord
  <2>2. CallOK'
    BY <1>0, <2>0, <2>1, SameRecords DEF FileInv, CallOK, OfAFile, Looked, CallAt, Live
  <2>3. Source \in Path /\ Source' = Source
    BY <1>0, <2>1, SourceIsPath DEF FileInv, OfAFile, Looked, Source
  <2> DEFINE now == {f \in {disk[Source], aside[Source]} \ {None} : f.inode = call.stream.inode}
  <2>4. ASSUME NEW f \in {disk[Source], aside[Source]} \ {None}, Identity(f) = Identity(call.before)
        PROVE  f.content = BytesOf(Source, call.stream)
    <3>1. f \in now
      BY <1>0, <2>4 DEF FileInv, ReadTruly, Identity
    <3>2. \A g \in now : g = f
      BY <2>3, <3>1 DEF FileInv, InodesApart
    <3>3. (CHOOSE g \in now : TRUE) \in now
      BY <3>1
    <3>4. BytesOf(Source, call.stream) = (CHOOSE g \in now : TRUE).content
      BY <3>1 DEF BytesOf
    <3> HIDE DEF now
    <3> QED BY <3>2, <3>3, <3>4
  <2>5. FilesOK' /\ InodesApart'
    BY <1>0 DEF FileInv, FilesOK, InodesApart
  <2>7. BytesOf(Source, call.stream) \in Content
    <3>1. \A f \in now : f.content \in Content
      BY <2>3 DEF FileInv, FilesOK, FileRecord
    <3>2. call.stream.content \in Content
      BY <1>0 DEF FileInv, ReadTruly, FileRecord
    <3>3. BytesOf(Source, call.stream) =
            IF now = {} THEN call.stream.content ELSE (CHOOSE g \in now : TRUE).content
      BY DEF BytesOf
    <3>4. now # {} => (CHOOSE g \in now : TRUE) \in now
      OBVIOUS
    <3> HIDE DEF now
    <3> QED BY <3>1, <3>2, <3>3, <3>4
  <2>6. ReadTruly'
    BY <1>0, <2>1, <2>3, <2>4, <2>7 DEF FileInv, ReadTruly, Looked, Held, Identity
  <2> QED BY <2>2, <2>5, <2>6 DEF FileInv
<1> QED BY <1>1, <1>2

LEMMA SnapshotFiles == ASSUME FileInv, Snapshot PROVE FileInv'
<1>0. call.at = "snapshot" /\ UNCHANGED <<disk, aside, edits, run>>
  BY DEF Snapshot, At, Reading, Raise
<1>1. CASE disk[Source] = None
  BY <1>1, SameRecords, MovesFiles DEF Snapshot, Raise, CallAt, Looked, OfAFile
<1>2. CASE Blocks(Source, "REPLACED")
  BY <1>0, <1>2, BlocksFiles DEF OfAFile, Looked
<1>3. CASE Moves("extract") /\ UNCHANGED work
  <2>1. /\ call' = CallRecord' /\ call'.at = "extract" /\ call'.n = call.n
        /\ call'.bytes = call.bytes /\ call'.before = call.before
    BY <1>3, MovesFacts DEF FileInv
  <2>2. CallOK'
    BY <1>0, <1>3, <2>1, SameRecords DEF FileInv, CallOK, OfAFile, Looked, CallAt, Live
  <2>3. FilesOK' /\ InodesApart'
    BY <1>0 DEF FileInv, FilesOK, InodesApart
  <2>4. ReadTruly'
    BY <1>0, <2>1 DEF FileInv, ReadTruly, Looked, Held, Identity, Source
  <2> QED BY <2>2, <2>3, <2>4 DEF FileInv
<1> QED BY <1>1, <1>2, <1>3 DEF Snapshot

LEMMA ExtractFiles == ASSUME FileInv, Extract PROVE FileInv'
<1>0. call.at = "extract" /\ UNCHANGED <<disk, aside, edits>>
  BY DEF Extract, At
<1>1. ASSUME NEW code, Blocks(Source, code), UNCHANGED run PROVE FileInv'
  BY <1>0, <1>1, BlocksFiles DEF OfAFile, Looked
<1>2. ASSUME NEW text,
             work' = [work EXCEPT !.manifest = Append(@, [source |-> Source, hash |-> call.bytes])],
             run' = [run EXCEPT !.extracted = Extended(@, call.bytes, Source)],
             call' = [call EXCEPT !.at = "judge", !.text = text]
      PROVE  FileInv'
  <2>1. /\ call' = CallRecord' /\ call'.at = "judge" /\ call'.n = call.n
        /\ work' = WorkRecord' /\ run' = RunRecord'
    BY <1>2 DEF FileInv, CallOK, CallRecord, WorkRecord, RunRecord
  <2>2. CallOK'
    BY <1>0, <2>1 DEF FileInv, CallOK, OfAFile, Looked, CallAt, Live
  <2>3. FilesOK' /\ InodesApart'
    BY <1>0 DEF FileInv, FilesOK, InodesApart
  <2>4. call'.bytes = call.bytes
    BY <1>2 DEF FileInv, CallOK, CallRecord
  <2>5. ReadTruly'
    BY <1>0, <2>1, <2>4 DEF FileInv, ReadTruly, Looked, Held
  <2> QED BY <2>2, <2>3, <2>5 DEF FileInv
<1> QED BY <1>1, <1>2 DEF Extract

LEMMA CallFiles ==
  ASSUME FileInv, RunNext
  PROVE  FileInv'
<1>1. CASE ClaimRunDirectory
  <2>1. work' = WorkRecord' /\ run' = RunRecord'
    BY <1>1 DEF ClaimRunDirectory, FileInv, CallOK, WorkRecord, RunRecord
  <2> QED BY <1>1, <2>1, MovesFiles DEF ClaimRunDirectory, At, FileInv, CallOK, CallAt, Live, OfAFile, Looked
<1>2. CASE Register
  <2>1. work' = WorkRecord' /\ run' = RunRecord'
    BY <1>2 DEF Register, FileInv, CallOK, WorkRecord, RunRecord
  <2>2. call.n = 1 /\ (Input # <<>> => 1 <= Len(Input))
    BY <1>2, InputAssumption, EmptySeq DEF Register, At, FileInv, CallOK
  <2> QED BY <1>2, <2>1, <2>2, MovesFiles DEF Register, CallAt, Live, OfAFile, Looked
<1>3. CASE Identify
  <2>1. call.at = "identify" /\ call.n <= Len(Input)
    BY <1>3 DEF Identify, At, FileInv, CallOK, OfAFile
  <2>2. CASE Moves("bind") /\ UNCHANGED work
    BY <1>3, <2>1, <2>2, SameRecords, MovesFiles DEF Identify, Reading, CallAt, Live, Looked
  <2> QED BY <1>3, <2>1, <2>2, BlocksFiles DEF Identify, Reading, OfAFile
<1>4. CASE Bind
  <2>1. call.at = "bind" /\ call.n <= Len(Input)
    BY <1>4 DEF Bind, At, FileInv, CallOK, OfAFile
  <2>2. CASE Moves("stat") /\ UNCHANGED work
    BY <1>4, <2>1, <2>2, SameRecords, MovesFiles DEF Bind, Reading, CallAt, Live, Looked
  <2> QED BY <1>4, <2>1, <2>2, BlocksFiles DEF Bind, Reading, OfAFile
<1>5. CASE Judge
  <2>1. PICK entry, intent, action :
          work' = [work EXCEPT !.entries = Append(@, entry), !.intents = Append(@, intent),
                               !.actions = Append(@, action)]
    BY <1>5 DEF Judge
  <2>2. work' = WorkRecord' /\ run' = RunRecord'
    BY <1>5, <2>1, SameRecords DEF Judge, Reading, FileInv, CallOK, WorkRecord
  <2>3. CallOK' /\ call'.at \notin Looked \cup {"judge"}
    BY <1>5, <2>2, NextFileFacts DEF Judge, At, FileInv, CallOK, OfAFile
  <2> QED BY <1>5, <2>3, ReadingFrame DEF Judge, Reading
<1>6. CASE NormalizeReviewQueue
  BY <1>6, SameRecords, MovesFiles DEF NormalizeReviewQueue, CallAt, Live, OfAFile, Looked
<1>7. CASE Save
  <2>1. work' = WorkRecord' /\ run' = RunRecord'
    BY <1>7 DEF Save, FileInv, CallOK, WorkRecord, RunRecord
  <2>2. call' = CallRecord' /\ call'.at \in {"save", "returned"} /\ call'.n = call.n
    BY <1>7 DEF Save, At, FileInv, CallOK, CallRecord
  <2>3. CallOK' /\ call'.at \notin Looked \cup {"judge"}
    BY <2>1, <2>2 DEF FileInv, CallOK, CallAt, Live, OfAFile, Looked
  <2> QED BY <1>7, <2>3, ReadingFrame DEF Save
<1>8. CASE WriteFails \/ Die
  BY <1>8, SameRecords, MovesFiles DEF WriteFails, Die, Raise, CallAt, Live, OfAFile, Looked
<1>9. CASE \E p \in Path : Remove(p) \/ PutBack(p) \/ \E c \in Content : Edit(p, c) \/ Replace(p, c)
  BY <1>9, OthersKeepFiles
<1> QED BY <1>1, <1>2, <1>3, <1>4, <1>5, <1>6, <1>7, <1>8, <1>9, StatFiles, OpenFiles, ReadFiles,
           SnapshotFiles, ExtractFiles DEF RunNext, Step

LEMMA FilesStart == RunInit => FileInv
<1> SUFFICES ASSUME RunInit PROVE FileInv
  OBVIOUS
<1>1. FilesOK /\ InodesApart
  <2>1. PICK held \in [Path -> Content] : disk = [p \in Path |-> File(p, 0, held[p])]
    BY DEF RunInit
  <2>2. \A p \in Path : disk[p] \in FileRecord /\ disk[p].inode = p /\ disk[p].stamp = 0
    BY <2>1 DEF File, FileRecord
  <2> QED BY <2>1, <2>2, InodeAssumption DEF RunInit, FilesOK, InodesApart
<1>2. PICK a \in Adapters :
        call = [at |-> "claim", n |-> 1, status |-> None, adapter |-> a,
                before |-> None, stream |-> None, bytes |-> None, text |-> None]
  BY DEF RunInit
<1>3. CallOK
  BY <1>2 DEF RunInit, NoWork, CallOK, CallRecord, WorkRecord, RunRecord, CallAt, Live, OfAFile, Looked
<1>4. ReadTruly
  BY <1>2 DEF ReadTruly, Looked, Held
<1> QED BY <1>1, <1>3, <1>4 DEF FileInv

\* However the files are edited, replaced and moved meanwhile, the bytes a call holds are
\* those of any file at the path with the identity the call has seen (_source_identity,
\* _read_source_snapshot).
THEOREM FilesAreReadTruly == RunSpec => []FileInv
<1>1. FileInv /\ UNCHANGED runVars => FileInv'
  BY DEF runVars, FileInv, CallOK, CallRecord, WorkRecord, RunRecord, FilesOK, InodesApart,
     ReadTruly, Identity, Source
<1>2. FileInv /\ [RunNext]_runVars => FileInv'
  BY <1>1, CallFiles
<1> QED BY FilesStart, <1>2, PTL DEF RunSpec

-----------------------------------------------------------------------------
(* What is gathered file by file *)

LEMMA AppendFacts ==
  ASSUME NEW s, IsSequence(s), NEW e
  PROVE  /\ IsSequence(Append(s, e))
         /\ Len(s) \in Nat /\ DOMAIN s = 1..Len(s)
         /\ Len(Append(s, e)) = Len(s) + 1 /\ DOMAIN Append(s, e) = 1..(Len(s) + 1)
         /\ Append(s, e)[Len(s) + 1] = e
         /\ \A k \in 1..Len(s) : Append(s, e)[k] = s[k]
         /\ \A k \in DOMAIN Append(s, e) \ DOMAIN s : Append(s, e)[k] = e
<1>1. PICK S : s \in Seq(S)
  BY DEF IsSequence
<1>2. s \in Seq(S \cup {e})
  BY <1>1
<1>3. Append(s, e) \in Seq(S \cup {e})
  BY <1>2
<1>4. IsSequence(Append(s, e))
  BY <1>3 DEF IsSequence
<1>5. /\ Len(s) \in Nat /\ DOMAIN s = 1..Len(s)
      /\ Len(Append(s, e)) = Len(s) + 1 /\ DOMAIN Append(s, e) = 1..(Len(s) + 1)
      /\ Append(s, e)[Len(s) + 1] = e
      /\ \A k \in 1..Len(s) : Append(s, e)[k] = s[k]
  BY <1>1, <1>2
<1>6. \A k \in DOMAIN Append(s, e) \ DOMAIN s : Append(s, e)[k] = e
  BY <1>5
<1> QED BY <1>4, <1>5, <1>6

\* A step that gathers nothing more.
LEMMA GatheredFrame ==
  ASSUME Gathered, UNCHANGED work, run'.extracted = run.extracted,
         call'.at # "judge",
         call'.at \in CallAt \ {"raised", "died"} => call.at \in CallAt \ {"judge", "raised", "died"},
         call'.at \in {"claim", "register"} => Len(work.actions) = 0,
         call'.at \in OfAFile => Len(work.actions) = call'.n - 1,
         call'.at \in {"queue", "save", "returned"} => Len(work.actions) = Len(Input)
  PROVE  Gathered'
<1>1. GatheredOK'
  BY DEF Gathered, GatheredOK
<1>2. \A k \in DOMAIN work.actions : BorneOut(k)'
  BY DEF Gathered, BorneOut
<1> QED BY <1>1, <1>2 DEF Gathered

LEMMA SequenceFacts ==
  ASSUME NEW s, IsSequence(s)
  PROVE  Len(s) \in Nat /\ DOMAIN s = 1..Len(s) /\ (s = <<>> <=> Len(s) = 0)
BY EmptySeq DEF IsSequence

LEMMA WorkFacts ==
  ASSUME Gathered
  PROVE  /\ Len(work.manifest) \in Nat /\ DOMAIN work.manifest = 1..Len(work.manifest)
         /\ Len(work.entries) \in Nat /\ DOMAIN work.entries = 1..Len(work.entries)
         /\ Len(work.intents) \in Nat /\ DOMAIN work.intents = 1..Len(work.intents)
         /\ Len(work.actions) \in Nat /\ DOMAIN work.actions = 1..Len(work.actions)
         /\ Len(work.failures) \in Nat /\ DOMAIN work.failures = 1..Len(work.failures)
<1>1. /\ IsSequence(work.manifest) /\ IsSequence(work.entries) /\ IsSequence(work.intents)
      /\ IsSequence(work.actions) /\ IsSequence(work.failures)
  BY DEF Gathered, GatheredOK
<1> QED BY <1>1, SequenceFacts

\* One more action, whatever else is gathered with it: those before it stay borne out.
LEMMA OneMoreAction ==
  ASSUME FileInv, Gathered, call.at \in OfAFile, NextFile, NEW action,
         work'.actions = Append(work.actions, action), GatheredOK',
         run'.extracted = run.extracted,
         \A j \in DOMAIN work.failures : j \in DOMAIN work'.failures /\ work'.failures[j] = work.failures[j],
         \A j \in DOMAIN work.entries :
           /\ j \in DOMAIN work'.entries
           /\ work'.entries[j] = work.entries[j] /\ work'.intents[j] = work.intents[j],
         work'.manifest = work.manifest,
         \A k \in Nat : k = call.n => BorneOut(k)',
         \A j \in DOMAIN work'.failures \ DOMAIN work.failures :
           work'.failures[j].n = call.n /\ action.intent = None,
         Len(work'.intents) = Len(work'.entries), Len(work'.manifest) = Len(work'.entries),
         Len(work'.intents) + Len(work'.failures) = Len(work.intents) + Len(work.failures) + 1
  PROVE  Gathered'
<1>0. /\ Len(work.actions) \in Nat /\ DOMAIN work.actions = 1..Len(work.actions)
      /\ Len(work.actions) = call.n - 1 /\ call.n \in Nat \ {0} /\ call.n <= Len(Input)
      /\ IsSequence(work.actions)
  BY WorkFacts DEF Gathered, GatheredOK, FileInv, CallOK
<1>1. /\ DOMAIN work'.actions = 1..call.n /\ Len(work'.actions) = call.n
      /\ \A k \in 1..(call.n - 1) : work'.actions[k] = work.actions[k]
      /\ work'.actions[call.n] = action
  BY <1>0, AppendFacts
<1>2. ASSUME NEW k \in 1..(call.n - 1) PROVE BorneOut(k)'
  <2>1. BorneOut(k) /\ work'.actions[k] = work.actions[k]
    BY <1>0, <1>1 DEF Gathered
  <2>2. (\E j \in DOMAIN work.failures : work.failures[j].n = k)
          => \E j \in DOMAIN work'.failures : work'.failures[j].n = k
    OBVIOUS
  <2> QED BY <2>1, <2>2 DEF BorneOut
<1>3. \A k \in DOMAIN work'.actions : BorneOut(k)'
  BY <1>0, <1>1, <1>2
<1>4. ASSUME NEW j \in DOMAIN work'.failures
      PROVE  work'.failures[j].n \in DOMAIN work'.actions
               /\ work'.actions[work'.failures[j].n].intent = None
  <2>1. CASE j \in DOMAIN work.failures
    <3>1. work'.failures[j] = work.failures[j]
      BY <2>1
    <3>2. work.failures[j].n \in 1..(call.n - 1) /\ work.actions[work.failures[j].n].intent = None
      BY <1>0, <2>1 DEF Gathered
    <3> QED BY <1>0, <1>1, <3>1, <3>2
  <2> QED BY <1>0, <1>1, <2>1
<1>5. /\ call'.n = call.n + 1
      /\ call'.at = IF call.n < Len(Input) THEN "identify" ELSE "queue"
  BY NextFileFacts DEF FileInv
<1>6. Len(Input) \in Nat
  BY InputAssumption
<1>7. /\ call'.at \notin {"judge", "claim", "register", "save", "returned"}
      /\ call'.at \in OfAFile => Len(work'.actions) = call'.n - 1
      /\ call'.at \in {"queue", "save", "returned"} => Len(work'.actions) = Len(Input)
  BY <1>0, <1>1, <1>5, <1>6 DEF OfAFile, Looked
<1>8. Len(work'.actions) = Len(work'.intents) + Len(work'.failures)
  <2>1. Len(work.actions) = Len(work.intents) + Len(work.failures)
    BY DEF Gathered
  <2>2. Len(work'.actions) = Len(work.actions) + 1
    BY <1>0, <1>1
  <2> QED BY <2>1, <2>2
<1> QED BY <1>3, <1>4, <1>7, <1>8 DEF Gathered

LEMMA BlocksGathers ==
  ASSUME FileInv, Gathered, call.at \in OfAFile \ {"judge"}, run' = run,
         NEW source \in {None, Source}, NEW code, Blocks(source, code)
  PROVE  Gathered'
<1> DEFINE failure == [n |-> call.n, source |-> source, code |-> code]
           action  == Action(source, {code}, None)
<1>1. /\ work'.failures = Append(work.failures, failure) /\ work'.actions = Append(work.actions, action)
      /\ work'.manifest = work.manifest /\ work'.entries = work.entries /\ work'.intents = work.intents
  BY DEF Blocks, FileInv, CallOK, WorkRecord
<1>2. failure.n = call.n /\ action.blockers # {} /\ action.source = source /\ action.intent = None
  BY DEF Action
<1> HIDE DEF failure, action
<1>3. GatheredOK'
  BY <1>1, AppendFacts DEF Gathered, GatheredOK
<1>4. /\ \A j \in DOMAIN work.failures : j \in DOMAIN work'.failures /\ work'.failures[j] = work.failures[j]
      /\ \A j \in DOMAIN work'.failures \ DOMAIN work.failures : work'.failures[j] = failure
      /\ Len(work.failures) + 1 \in DOMAIN work'.failures
      /\ work'.failures[Len(work.failures) + 1] = failure
  BY <1>1, AppendFacts DEF Gathered, GatheredOK
<1>5. work'.actions[call.n] = action
  <2>1. Len(work.actions) = call.n - 1 /\ call.n \in Nat
    BY DEF Gathered, FileInv, CallOK
  <2>2. IsSequence(work.actions)
    BY DEF Gathered, GatheredOK
  <2>3. work'.actions[Len(work.actions) + 1] = action
    BY <1>1, <2>2, AppendFacts
  <2> QED BY <2>1, <2>3
<1>6. ASSUME NEW k \in Nat, k = call.n PROVE BorneOut(k)'
  <2>1. source \in {None, Input[k]}
    BY <1>6 DEF Source
  <2>2. work'.actions[k] = action /\ \E j \in DOMAIN work'.failures : work'.failures[j].n = k
    BY <1>2, <1>4, <1>5, <1>6
  <2> QED BY <1>2, <2>1, <2>2 DEF BorneOut
<1>7. Len(work'.manifest) = Len(work'.entries) /\ Len(work'.intents) = Len(work'.entries)
  BY <1>1 DEF Gathered, OfAFile, Looked, CallAt, Live
<1>8. Len(work'.intents) + Len(work'.failures) = Len(work.intents) + Len(work.failures) + 1
  <2>1. IsSequence(work.failures)
    BY DEF Gathered, GatheredOK
  <2>2. Len(work'.failures) = Len(work.failures) + 1 /\ work'.intents = work.intents
    BY <1>1, <2>1, AppendFacts
  <2>3. Len(work.failures) \in Nat /\ Len(work.intents) \in Nat
    BY WorkFacts
  <2> DEFINE i == Len(work.intents)
             f == Len(work.failures)
  <2>4. Len(work'.intents) = i /\ Len(work'.failures) = f + 1 /\ i \in Nat /\ f \in Nat
    BY <2>2, <2>3
  <2> HIDE DEF i, f
  <2>5. Len(work'.intents) + Len(work'.failures) = i + f + 1
    BY <2>4
  <2> QED BY <2>5 DEF i, f
<1> QED BY <1>1, <1>2, <1>3, <1>4, <1>6, <1>7, <1>8, OneMoreAction DEF Blocks

\* A file that is accepted enters the manifest and the extracted documents; its judgement
\* comes next.
LEMMA ExtractGathers ==
  ASSUME FileInv, Gathered, Extract
  PROVE  Gathered'
<1>0. call.at = "extract" /\ call.at \in OfAFile \ {"judge"}
  BY DEF Extract, At, OfAFile, Looked
<1>1. ASSUME NEW code, Blocks(Source, code), UNCHANGED run PROVE Gathered'
  BY <1>0, <1>1, BlocksGathers
<1>2. ASSUME NEW text,
             work' = [work EXCEPT !.manifest = Append(@, [source |-> Source, hash |-> call.bytes])],
             run' = [run EXCEPT !.extracted = Extended(@, call.bytes, Source)],
             call' = [call EXCEPT !.at = "judge", !.text = text]
      PROVE  Gathered'
  <2> DEFINE document == [source |-> Source, hash |-> call.bytes]
  <2>1. /\ work'.manifest = Append(work.manifest, document) /\ work'.entries = work.entries
        /\ work'.intents = work.intents /\ work'.actions = work.actions
        /\ work'.failures = work.failures
        /\ call'.at = "judge" /\ call'.n = call.n /\ call'.bytes = call.bytes
        /\ run'.extracted = Extended(run.extracted, call.bytes, Source)
    BY <1>2 DEF FileInv, CallOK, CallRecord, WorkRecord, RunRecord
  <2> HIDE DEF document
  <2>2. DOMAIN run'.extracted = DOMAIN run.extracted \cup {call.bytes}
    BY <2>1 DEF Extended
  <2>3. /\ Len(work'.manifest) = Len(work.manifest) + 1
        /\ work'.manifest[Len(work.manifest) + 1] = document
        /\ \A j \in DOMAIN work.manifest : work'.manifest[j] = work.manifest[j]
        /\ IsSequence(work'.manifest)
    BY <2>1, AppendFacts DEF Gathered, GatheredOK
  <2>4. GatheredOK'
    BY <2>1, <2>3 DEF Gathered, GatheredOK
  <2>5. Len(work.manifest) = Len(work.entries)
    BY <1>0 DEF Gathered, CallAt, Live
  <2>6. ASSUME NEW k \in DOMAIN work.actions PROVE BorneOut(k)'
    <3>1. BorneOut(k)
      BY DEF Gathered
    <3>2. \A j \in DOMAIN work.entries : j \in DOMAIN work.manifest
      BY <2>5, WorkFacts
    <3> QED BY <2>1, <2>2, <2>3, <3>1, <3>2 DEF BorneOut
  <2>7. Source' = Source
    BY <2>1 DEF Source
  <2>8. Len(work.actions) = call.n - 1
    BY <1>0 DEF Gathered
  <2>9. work'.manifest[Len(work'.manifest)] = document' /\ call'.bytes \in DOMAIN run'.extracted
    BY <2>1, <2>2, <2>3, <2>7 DEF document
  <2>10. Len(work'.manifest) = Len(work'.entries) + 1 /\ Len(work'.intents) = Len(work'.entries)
    BY <2>1, <2>3, <2>5 DEF Gathered
  <2> QED BY <2>1, <2>4, <2>6, <2>8, <2>9, <2>10 DEF Gathered, document
<1> QED BY <1>1, <1>2 DEF Extract

\* No target is ever chosen, so no action is free of blockers.
LEMMA SomethingBlocks ==
  ASSUME NEW ctx, NEW out
  PROVE  Blockers(ctx, out) # {}
<1>1. "TARGET_UNRESOLVED" \in Blockers(ctx, out)
  BY Zenon DEF Blockers
<1> QED BY <1>1

\* A judgement adds the entry, the intent and the action of one document.
LEMMA JudgeFacts ==
  ASSUME FileInv, Judge
  PROVE  \E ctx \in Contexts(call.bytes), r \in InterpreterReply, enabled \in BOOLEAN :
           LET out    == FixedContextInterpretation(enabled, r, call.text, ctx)
               intent == Intent(Source, call.bytes, ctx, out)
           IN /\ work'.entries = Append(work.entries, Entry(Source, call.bytes, out))
              /\ work'.intents = Append(work.intents, intent)
              /\ work'.actions = Append(work.actions, Action(Source, Blockers(ctx, out), intent))
              /\ work'.manifest = work.manifest /\ work'.failures = work.failures
<1> DEFINE out(ctx, r, enabled) == FixedContextInterpretation(enabled, r, call.text, ctx)
           intent(ctx, r, enabled) == Intent(Source, call.bytes, ctx, out(ctx, r, enabled))
<1>1. PICK ctx \in Contexts(call.bytes), r \in InterpreterReply, enabled \in BOOLEAN :
        work' = [work EXCEPT
            !.entries = Append(@, Entry(Source, call.bytes, out(ctx, r, enabled))),
            !.intents = Append(@, intent(ctx, r, enabled)),
            !.actions = Append(@, Action(Source, Blockers(ctx, out(ctx, r, enabled)),
                                         intent(ctx, r, enabled)))]
  BY Zenon DEF Judge
<1> DEFINE o == out(ctx, r, enabled)
           i == intent(ctx, r, enabled)
           e == Entry(Source, call.bytes, o)
           a == Action(Source, Blockers(ctx, o), i)
<1>2. ASSUME NEW x, NEW y, NEW z,
             work' = [work EXCEPT !.entries = Append(@, x), !.intents = Append(@, y),
                                  !.actions = Append(@, z)]
      PROVE  /\ work'.entries = Append(work.entries, x) /\ work'.intents = Append(work.intents, y)
             /\ work'.actions = Append(work.actions, z)
             /\ work'.manifest = work.manifest /\ work'.failures = work.failures
  BY <1>2 DEF FileInv, CallOK, WorkRecord
<1>3. /\ work'.entries = Append(work.entries, e) /\ work'.intents = Append(work.intents, i)
      /\ work'.actions = Append(work.actions, a)
      /\ work'.manifest = work.manifest /\ work'.failures = work.failures
  <2>1. work' = [work EXCEPT !.entries = Append(@, e), !.intents = Append(@, i),
                             !.actions = Append(@, a)]
    BY <1>1
  <2> HIDE DEF e, i, a
  <2> QED BY <1>2, <2>1
<1> QED BY <1>3, Zenon

LEMMA JudgeGathers ==
  ASSUME FileInv, Gathered, Judge
  PROVE  Gathered'
<1>0. call.at = "judge" /\ call.at \in OfAFile /\ NextFile /\ run' = run
  BY DEF Judge, At, OfAFile, Reading
<1>1. PICK ctx, out, i :
        /\ i = Intent(Source, call.bytes, ctx, out)
        /\ work'.entries = Append(work.entries, Entry(Source, call.bytes, out))
        /\ work'.intents = Append(work.intents, i)
        /\ work'.actions = Append(work.actions, Action(Source, Blockers(ctx, out), i))
        /\ work'.manifest = work.manifest /\ work'.failures = work.failures
  BY JudgeFacts, Zenon
<1> DEFINE e == Entry(Source, call.bytes, out)
           a == Action(Source, Blockers(ctx, out), i)
           j == Len(work.entries) + 1
<1>2. /\ e.hash = call.bytes /\ a.blockers # {} /\ a.source = Source /\ a.intent = i
      /\ i.source = Source /\ i.hash = call.bytes
  BY <1>1, SomethingBlocks DEF Entry, Action, Intent
<1>3. i # None
  <2>1. Source \in Path /\ call.bytes \in Content
    BY <1>0, SourceIsPath DEF FileInv, ReadTruly
  <2> QED BY <1>1, <2>1, NoneAssumption DEF Intent
<1> HIDE DEF e, a
<1>4. /\ work'.entries = Append(work.entries, e) /\ work'.actions = Append(work.actions, a)
      /\ Len(work.entries) \in Nat /\ Len(work.intents) = Len(work.entries)
      /\ Len(work.manifest) = j
      /\ work.manifest[j] = [source |-> Source, hash |-> call.bytes]
      /\ call.bytes \in DOMAIN run.extracted
      /\ Len(work.actions) = call.n - 1 /\ call.n \in Nat
  BY <1>0, <1>1, WorkFacts DEF Gathered, FileInv, CallOK, e, a
<1>5. /\ GatheredOK'
      /\ Len(work'.entries) = j /\ Len(work'.intents) = j
      /\ work'.entries[j] = e /\ j \in DOMAIN work'.entries
      /\ \A k \in DOMAIN work.entries :
           /\ k \in DOMAIN work'.entries
           /\ work'.entries[k] = work.entries[k] /\ work'.intents[k] = work.intents[k]
  <2>1. IsSequence(work.entries) /\ IsSequence(work.intents) /\ IsSequence(work.actions)
        /\ IsSequence(work.manifest) /\ IsSequence(work.failures)
    BY DEF Gathered, GatheredOK
  <2>2. GatheredOK'
    BY <1>1, <1>4, <2>1, AppendFacts DEF GatheredOK
  <2>3. /\ Len(work'.entries) = j /\ work'.entries[j] = e /\ DOMAIN work'.entries = 1..j
        /\ DOMAIN work.entries = 1..Len(work.entries)
        /\ \A k \in 1..Len(work.entries) : work'.entries[k] = work.entries[k]
    BY <1>4, <2>1, AppendFacts
  <2>4. Len(work'.intents) = j /\ \A k \in 1..Len(work.entries) : work'.intents[k] = work.intents[k]
    BY <1>1, <1>4, <2>1, AppendFacts
  <2> QED BY <1>4, <2>2, <2>3, <2>4
<1>6. work'.intents[j] = i /\ work'.actions[call.n] = a
  <2>1. IsSequence(work.intents) /\ IsSequence(work.actions)
    BY DEF Gathered, GatheredOK
  <2>2. work'.intents[Len(work.intents) + 1] = i
    BY <1>1, <2>1, AppendFacts
  <2>3. work'.actions[Len(work.actions) + 1] = a
    BY <1>4, <2>1, AppendFacts
  <2> QED BY <1>4, <2>2, <2>3
<1>7. ASSUME NEW k \in Nat, k = call.n PROVE BorneOut(k)'
  <2>1. Input[k] = Source
    BY <1>7 DEF Source
  <2>2. /\ work'.actions[k] = a /\ work'.entries[j].hash = call.bytes
        /\ work'.manifest[j] = [source |-> Input[k], hash |-> call.bytes]
    BY <1>1, <1>2, <1>4, <1>5, <1>6, <1>7, <2>1
  <2>3. \E m \in DOMAIN work'.entries :
          /\ work'.intents[m] = i /\ work'.entries[m].hash = i.hash
          /\ work'.manifest[m] = [source |-> Input[k], hash |-> i.hash]
    BY <1>2, <1>5, <1>6, <2>2
  <2>4. i.hash \in DOMAIN run'.extracted
    BY <1>0, <1>2, <1>4
  <2> QED BY <1>2, <1>3, <2>1, <2>2, <2>3, <2>4 DEF BorneOut
<1>8. Len(work'.manifest) = Len(work'.entries)
  BY <1>1, <1>4, <1>5
<1>9. Len(work'.intents) + Len(work'.failures) = Len(work.intents) + Len(work.failures) + 1
  <2>1. Len(work'.intents) = Len(work.intents) + 1 /\ work'.failures = work.failures
    BY <1>1, <1>4, <1>5
  <2>2. Len(work.failures) \in Nat /\ Len(work.intents) \in Nat
    BY WorkFacts
  <2> DEFINE n == Len(work.intents)
             f == Len(work.failures)
  <2>3. Len(work'.intents) = n + 1 /\ Len(work'.failures) = f /\ n \in Nat /\ f \in Nat
    BY <2>1, <2>2
  <2> HIDE DEF n, f
  <2>4. Len(work'.intents) + Len(work'.failures) = n + f + 1
    BY <2>3
  <2> QED BY <2>4 DEF n, f
<1> QED BY <1>0, <1>1, <1>4, <1>5, <1>7, <1>8, <1>9, OneMoreAction

LEMMA CallGathers ==
  ASSUME FileInv, Gathered, RunNext
  PROVE  Gathered'
<1> USE DEF OfAFile, Looked, CallAt, Live
<1>m. ASSUME NEW where, Moves(where), UNCHANGED work, run'.extracted = run.extracted,
             where # "judge",
             where \in CallAt \ {"raised", "died"} => call.at \in CallAt \ {"judge", "raised", "died"},
             where \in {"claim", "register"} => Len(work.actions) = 0,
             where \in OfAFile => Len(work.actions) = call.n - 1,
             where \in {"queue", "save", "returned"} => Len(work.actions) = Len(Input)
      PROVE  Gathered'
  <2>1. call'.at = where /\ call'.n = call.n
    BY <1>m, MovesFacts DEF FileInv
  <2> QED BY <1>m, <2>1, GatheredFrame
<1>d. ASSUME NEW where \in {"raised", "died"}, Moves(where), UNCHANGED <<work, run>>
      PROVE  Gathered'
  BY <1>d, <1>m
<1>1. CASE ClaimRunDirectory
  <2>1. run'.extracted = run.extracted
    BY <1>1 DEF ClaimRunDirectory, FileInv, CallOK, RunRecord
  <2> QED BY <1>1, <2>1, <1>m DEF ClaimRunDirectory, At, Gathered
<1>2. CASE Register
  <2>1. run'.extracted = run.extracted
    BY <1>2 DEF Register, FileInv, CallOK, RunRecord
  <2>2. call.n = 1 /\ Len(work.actions) = 0 /\ (Input = <<>> => Len(Input) = 0)
    BY <1>2 DEF Register, At, FileInv, CallOK, Gathered
  <2> QED BY <1>2, <2>1, <2>2, <1>m DEF Register, At
<1>3. CASE Identify
  <2>1. CASE Moves("bind") /\ UNCHANGED work
    BY <1>3, <2>1, <1>m DEF Identify, At, Reading, Gathered
  <2> QED BY <1>3, <2>1, BlocksGathers DEF Identify, At, Reading
<1>4. CASE Bind
  <2>1. CASE Moves("stat") /\ UNCHANGED work
    BY <1>4, <2>1, <1>m DEF Bind, At, Reading, Gathered
  <2> QED BY <1>4, <2>1, BlocksGathers DEF Bind, At, Reading
<1>5. CASE Stat
  <2>1. CASE disk[Source] = None
    BY <1>5, <2>1, <1>d DEF Stat, Raise
  <2>2. CASE disk[Source] # None
    <3>1. call'.at = "open" /\ call'.n = call.n
      BY <1>5, <2>2 DEF Stat, FileInv, CallOK, CallRecord
    <3> QED BY <1>5, <2>2, <3>1, GatheredFrame DEF Stat, At, Reading, Gathered
  <2> QED BY <2>1, <2>2
<1>6. CASE Open
  <2>1. CASE Opened(Source, call.before) = "opened"
    <3>1. call'.at = "read" /\ call'.n = call.n
      BY <1>6, <2>1 DEF Open, FileInv, CallOK, CallRecord
    <3> QED BY <1>6, <2>1, <3>1, GatheredFrame DEF Open, At, Reading, Gathered
  <2>2. CASE Opened(Source, call.before) # "opened"
    <3>1. Blocks(Source, Opened(Source, call.before)) /\ call.at = "open" /\ run' = run
      BY <1>6, <2>2 DEF Open, At, Reading
    <3> QED BY <3>1, BlocksGathers
  <2> QED BY <2>1, <2>2
<1>7. CASE Read
  <2>1. CASE Blocks(Source, "SIZE_LIMIT")
    BY <1>7, <2>1, BlocksGathers DEF Read, At, Reading
  <2>2. CASE ~Blocks(Source, "SIZE_LIMIT")
    <3>1. call'.at = "snapshot" /\ call'.n = call.n
      BY <1>7, <2>2 DEF Read, FileInv, CallOK, CallRecord
    <3> QED BY <1>7, <2>2, <3>1, GatheredFrame DEF Read, At, Reading, Gathered
  <2> QED BY <2>1, <2>2
<1>8. CASE Snapshot
  <2>1. CASE disk[Source] = None
    BY <1>8, <2>1, <1>d DEF Snapshot, Raise
  <2>2. CASE Moves("extract") /\ UNCHANGED work /\ run' = run
    BY <1>8, <2>2, <1>m DEF Snapshot, At, Gathered
  <2>3. CASE Blocks(Source, "REPLACED") /\ run' = run
    BY <1>8, <2>3, BlocksGathers DEF Snapshot, At
  <2> QED BY <1>8, <2>1, <2>2, <2>3 DEF Snapshot, Reading
<1>9. CASE NormalizeReviewQueue
  <2>1. call.at = "queue" /\ Len(work.actions) = Len(Input) /\ UNCHANGED <<work, run>>
    BY <1>9 DEF NormalizeReviewQueue, At, Gathered
  <2> QED BY <1>9, <2>1, <1>d, <1>m DEF NormalizeReviewQueue
<1>10. CASE Save
  <2>1. /\ run'.extracted = run.extracted /\ call.at = "save" /\ work' = work
        /\ call'.at \in {"save", "returned"}
    BY <1>10 DEF Save, At, FileInv, CallOK, RunRecord, CallRecord
  <2> QED BY <2>1, GatheredFrame DEF Gathered
<1>11. CASE WriteFails \/ Die
  BY <1>11, <1>d DEF WriteFails, Die, Raise
<1>12. CASE UNCHANGED <<call, work, run>>
  BY <1>12 DEF Gathered, GatheredOK, BorneOut, Source
<1>13. ASSUME NEW p \in Path,
              Remove(p) \/ PutBack(p) \/ \E c \in Content : Edit(p, c) \/ Replace(p, c)
       PROVE  UNCHANGED <<call, work, run>>
  BY <1>13 DEF Remove, PutBack, Edit, Replace, Others
<1> QED BY <1>1, <1>2, <1>3, <1>4, <1>5, <1>6, <1>7, <1>8, <1>9, <1>10, <1>11, <1>12, <1>13,
           ExtractGathers, JudgeGathers DEF RunNext, Step

-----------------------------------------------------------------------------
(* What is saved *)

LEMMA OrderFacts ==
  /\ Len(SaveOrder) = 6
  /\ \A i, j \in 1..6 : SaveOrder[i] = SaveOrder[j] => i = j
  /\ SaveOrder[5] = "planned_archive_actions"
  /\ Artifacts(SaveOrder, 0) = {}
  /\ \A k \in 0..5 : Artifacts(SaveOrder, k + 1) = Artifacts(SaveOrder, k) \cup {SaveOrder[k + 1]}
<1>1. Len(SaveOrder) = 6 /\ SaveOrder[5] = "planned_archive_actions"
  BY DEF SaveOrder
<1>2. \A i, j \in 1..6 : SaveOrder[i] = SaveOrder[j] => i = j
  BY DEF SaveOrder
<1>3. Artifacts(SaveOrder, 0) = {}
  BY DEF Artifacts
<1>4. ASSUME NEW k \in 0..5
      PROVE  Artifacts(SaveOrder, k + 1) = Artifacts(SaveOrder, k) \cup {SaveOrder[k + 1]}
  <2>1. \A j : j \in 1..(k + 1) <=> j \in 1..k \/ j = k + 1
    OBVIOUS
  <2> QED BY <2>1 DEF Artifacts
<1> QED BY <1>1, <1>2, <1>3, <1>4

\* After k artifacts comes the one after them.
LEMMA NextFacts ==
  ASSUME NEW k \in 0..5
  PROVE  NextArtifact(Artifacts(SaveOrder, k)) = k + 1
<1>1. \A i \in 0..6 : i # k => Artifacts(SaveOrder, i) # Artifacts(SaveOrder, k)
  <2> SUFFICES ASSUME NEW i \in 0..6, NEW j \in 0..6, i < j
               PROVE  Artifacts(SaveOrder, i) # Artifacts(SaveOrder, j)
    OBVIOUS
  <2>1. SaveOrder[j] \in Artifacts(SaveOrder, j)
    BY DEF Artifacts
  <2>2. SaveOrder[j] \notin Artifacts(SaveOrder, i)
    BY OrderFacts DEF Artifacts
  <2> QED BY <2>1, <2>2
<1> DEFINE fits(m) == Artifacts(SaveOrder, k) = Artifacts(SaveOrder, m - 1)
<1>2. k + 1 \in 1..6 /\ fits(k + 1)
  OBVIOUS
<1>3. ASSUME NEW m \in 1..6, fits(m) PROVE m = k + 1
  <2>1. m - 1 \in 0..6 /\ Artifacts(SaveOrder, m - 1) = Artifacts(SaveOrder, k)
    BY <1>3
  <2>2. m - 1 = k
    BY <1>1, <2>1
  <2> QED BY <2>2
<1> HIDE DEF fits
<1>4. (CHOOSE m \in 1..6 : fits(m)) = k + 1
  BY <1>2, <1>3
<1> QED BY <1>4, OrderFacts DEF NextArtifact, fits

\* Before the first artifact.
LEMMA NothingSaved ==
  ASSUME Saved, call.at \in CallAt \ {"save", "returned", "raised", "died"},
         run'.saved = run.saved, call'.at # "returned",
         call'.at \notin {"claim", "register", "raised", "died"} => run'.registered
  PROVE  Saved'
<1>1. run.saved = {}
  BY DEF Saved
<1> QED BY <1>1, OrderFacts DEF Saved

LEMMA CallSaves ==
  ASSUME FileInv, Gathered, Saved, RunNext
  PROVE  Saved'
<1> USE DEF OfAFile, Looked, CallAt, Live
<1>a. ASSUME call.at \in OfAFile \cup {"claim", "register", "queue"}, run'.saved = run.saved,
             call'.at # "returned",
             call'.at \notin {"claim", "register", "raised", "died"} => run'.registered
      PROVE  Saved'
  BY <1>a, NothingSaved
<1>b. ASSUME NEW source, NEW code, Blocks(source, code), call.at \in OfAFile, run' = run
      PROVE  Saved'
  <2>1. call'.at \in {"identify", "queue"}
    BY <1>b, NextFileFacts DEF Blocks, FileInv
  <2>2. run.registered
    BY <1>b DEF Saved
  <2> QED BY <1>a, <1>b, <2>1, <2>2
<1>m. ASSUME NEW where \in CallAt \ {"claim", "register", "returned"}, Moves(where), run' = run,
             call.at \in OfAFile \cup {"queue"}
      PROVE  Saved'
  <2>1. call'.at = where
    BY <1>m, MovesFacts DEF FileInv
  <2>2. run.registered
    BY <1>m DEF Saved
  <2> QED BY <1>a, <1>m, <2>1, <2>2
\* The end of a call that was claimed, or that had begun to save.
<1>d. ASSUME NEW where \in {"raised", "died"}, Moves(where), UNCHANGED <<work, run>>, call.at \in Live
      PROVE  Saved'
  <2>1. call'.at = where
    BY <1>d, MovesFacts DEF FileInv
  <2>2. CASE call.at # "save"
    BY <1>a, <1>d, <2>1, <2>2
  <2>3. CASE call.at = "save"
    BY <1>d, <2>1, <2>3 DEF Saved
  <2> QED BY <2>2, <2>3
<1>1. CASE ClaimRunDirectory
  <2>1. run'.saved = run.saved /\ call'.at = "register" /\ call.at = "claim"
    BY <1>1, MovesFacts DEF ClaimRunDirectory, At, FileInv, CallOK, RunRecord
  <2> QED BY <1>a, <2>1
<1>2. CASE Register
  <2>1. /\ run'.saved = run.saved /\ run'.registered /\ call.at = "register"
        /\ call'.at \in {"queue", "identify"}
    BY <1>2, MovesFacts DEF Register, At, FileInv, CallOK, RunRecord
  <2> QED BY <1>a, <2>1
<1>3. CASE Identify
  BY <1>3, <1>b, <1>m DEF Identify, At, Reading
<1>4. CASE Bind
  BY <1>4, <1>b, <1>m DEF Bind, At, Reading
<1>5. CASE Stat
  <2>1. CASE disk[Source] = None
    BY <1>5, <2>1, <1>d DEF Stat, Raise, At
  <2>2. CASE disk[Source] # None
    <3>1. call'.at = "open" /\ run' = run /\ call.at = "stat"
      BY <1>5, <2>2 DEF Stat, At, Reading, FileInv, CallOK, CallRecord
    <3>2. run.registered
      BY <3>1 DEF Saved
    <3> QED BY <1>a, <3>1, <3>2
  <2> QED BY <2>1, <2>2
<1>6. CASE Open
  <2>1. CASE Opened(Source, call.before) = "opened"
    <3>1. call'.at = "read" /\ run' = run /\ call.at = "open"
      BY <1>6, <2>1 DEF Open, At, Reading, FileInv, CallOK, CallRecord
    <3>2. run.registered
      BY <3>1 DEF Saved
    <3> QED BY <1>a, <3>1, <3>2
  <2>2. CASE Opened(Source, call.before) # "opened"
    <3>1. Blocks(Source, Opened(Source, call.before)) /\ call.at = "open" /\ run' = run
      BY <1>6, <2>2 DEF Open, At, Reading
    <3> QED BY <3>1, <1>b
  <2> QED BY <2>1, <2>2
<1>7. CASE Read
  <2>1. CASE Blocks(Source, "SIZE_LIMIT")
    BY <1>7, <2>1, <1>b DEF Read, At, Reading
  <2>2. CASE ~Blocks(Source, "SIZE_LIMIT")
    <3>1. call'.at = "snapshot" /\ run' = run /\ call.at = "read"
      BY <1>7, <2>2 DEF Read, At, Reading, FileInv, CallOK, CallRecord
    <3>2. run.registered
      BY <3>1 DEF Saved
    <3> QED BY <1>a, <3>1, <3>2
  <2> QED BY <2>1, <2>2
<1>8. CASE Snapshot
  <2>1. CASE disk[Source] = None
    BY <1>8, <2>1, <1>d DEF Snapshot, Raise, At
  <2>2. CASE disk[Source] # None
    BY <1>8, <2>2, <1>b, <1>m DEF Snapshot, At, Reading
  <2> QED BY <2>1, <2>2
<1>9. CASE Extract
  <2>1. call.at = "extract"
    BY <1>9 DEF Extract, At
  <2>2. ASSUME NEW code, Blocks(Source, code), UNCHANGED run PROVE Saved'
    BY <1>b, <2>1, <2>2
  <2>3. ASSUME NEW text,
               run' = [run EXCEPT !.extracted = Extended(@, call.bytes, Source)],
               call' = [call EXCEPT !.at = "judge", !.text = text]
        PROVE  Saved'
    <3>1. run'.saved = run.saved /\ run'.registered = run.registered /\ call'.at = "judge"
      BY <2>3 DEF FileInv, CallOK, CallRecord, RunRecord
    <3>2. run.registered
      BY <2>1 DEF Saved
    <3> QED BY <1>a, <2>1, <3>1, <3>2
  <2> QED BY <1>9, <2>2, <2>3 DEF Extract
<1>10. CASE Judge
  <2>1. call.at = "judge" /\ run' = run /\ NextFile
    BY <1>10 DEF Judge, At, Reading
  <2>2. call'.at \in {"identify", "queue"}
    BY <2>1, NextFileFacts DEF FileInv
  <2>3. run.registered
    BY <2>1 DEF Saved
  <2> QED BY <1>a, <2>1, <2>2, <2>3
<1>11. CASE NormalizeReviewQueue
  BY <1>11, <1>m DEF NormalizeReviewQueue, At
<1>12. CASE Save
  <2>1. PICK k \in 0..6 : run.saved = Artifacts(SaveOrder, k) /\ k < 6
    BY <1>12 DEF Saved, Save, At
  <2>2. NextArtifact(run.saved) = k + 1 /\ k \in 0..5
    BY <2>1, NextFacts
  <2>3. /\ run'.saved = run.saved \cup {SaveOrder[k + 1]} /\ run'.registered = run.registered
        /\ call.at = "save" /\ work' = work
        /\ k + 1 = 6 => call'.at = "returned" /\ call'.status = RunStatus
        /\ k + 1 # 6 => call'.at = "save"
    BY <1>12, <2>2, OrderFacts DEF Save, At, FileInv, CallOK, RunRecord, CallRecord
  <2>4. run'.saved = Artifacts(SaveOrder, k + 1) /\ k + 1 \in 0..6
    BY <2>1, <2>2, <2>3, OrderFacts
  <2>5. run.registered /\ Len(work.actions) = Len(Input)
    BY <2>3 DEF Saved, Gathered
  <2>6. RunStatus' = RunStatus
    BY <2>3 DEF RunStatus
  <2>7. call'.at = "save" => k + 1 < 6
    BY <2>2, <2>3
  <2>8. call'.at \in {"save", "returned"} /\ (call'.at = "returned" => call'.status = RunStatus')
    BY <2>3, <2>6
  <2> QED BY <2>3, <2>4, <2>5, <2>7, <2>8 DEF Saved
<1>13. CASE WriteFails \/ Die
  BY <1>13, <1>d DEF WriteFails, Die, Raise
<1>14. ASSUME NEW p \in Path,
              Remove(p) \/ PutBack(p) \/ \E c \in Content : Edit(p, c) \/ Replace(p, c)
       PROVE  Saved'
  <2>1. UNCHANGED <<call, work, run>>
    BY <1>14 DEF Remove, PutBack, Edit, Replace, Others
  <2> QED BY <2>1 DEF Saved, RunStatus
<1> QED BY <1>1, <1>2, <1>3, <1>4, <1>5, <1>6, <1>7, <1>8, <1>9, <1>10, <1>11, <1>12, <1>13, <1>14
           DEF RunNext, Step

-----------------------------------------------------------------------------
(* What is kept of a reply *)

\* A candidate is a record of the catalog that contradicts the document in nothing, and
\* the evidence about it is what they agree in.
LEMMA CandidateFacts ==
  ASSUME NEW hash, NEW ctx \in Contexts(hash), NEW e \in ctx.evidence
  PROVE  \E c \in Catalog, f \in Field :
           /\ e = <<c.id, f>> /\ Same(Facts[hash], c, f)
           /\ \A g \in Identifying : ~Different(Facts[hash], c, g)
<1> DEFINE q == Facts[hash]
<1>1. \A code : BlockedContext(code).evidence = {}
  BY DEF BlockedContext, Context
<1>2. PICK fails \in BOOLEAN : ctx = NormalizeContext(FindBusinessCandidates(q, fails))
  BY <1>1 DEF Contexts
<1> DEFINE found == FindBusinessCandidates(q, fails)
<1>3. e \in found.evidence
  BY <1>1, <1>2 DEF NormalizeContext
<1>4. found.evidence = {} \/ found.evidence = Rank(q).evidence
  BY DEF FindBusinessCandidates, Context
<1> HIDE DEF found
<1> DEFINE kept == {c \in Search(q) : Agreements(q, c) # {} /\ Contradictions(q, c) = {}}
<1>5. Rank(q).evidence = UNION {{c.id} \X Agreements(q, c) : c \in kept}
  BY DEF Rank
<1>6. PICK c \in kept : e \in {c.id} \X Agreements(q, c)
  <2>1. e \in UNION {{c.id} \X Agreements(q, c) : c \in kept}
    BY <1>3, <1>4, <1>5
  <2> HIDE DEF kept
  <2> QED BY <2>1
<1>7. PICK f \in Agreements(q, c) : e = <<c.id, f>>
  BY <1>6
<1>8. c \in Catalog /\ f \in Field /\ Same(q, c, f)
  BY <1>6, <1>7 DEF Search, Agreements
<1>9. \A g \in Identifying : ~Different(q, c, g)
  BY <1>6 DEF Contradictions
<1> QED BY <1>7, <1>8, <1>9

\* A relation that is kept was cited with evidence of the request, and is left to a
\* reviewer.
LEMMA KeptFacts ==
  ASSUME NEW ctx, NEW r \in InterpreterReply, NEW enabled \in BOOLEAN, NEW text,
         NEW target \in FixedContextInterpretation(enabled, r, text, ctx).relations
  PROVE  LET out == FixedContextInterpretation(enabled, r, text, ctx) IN
         /\ \E e \in out.evidence : e[1] = target /\ e \in ctx.evidence
         /\ out.status = "needs_review" /\ ~out.confirmed
<1> DEFINE out  == FixedContextInterpretation(enabled, r, text, ctx)
           kind == IF r.status = "success" /\ r.relations # {} THEN "needs_review" ELSE r.status
<1>1. \A code : /\ Blocked(code).relations = {} /\ Blocked(code).status = "blocked"
  BY DEF Blocked
<1>2. out = Judged(kind, r) /\ Trace(r, ctx) /\ kind # "blocked"
  <2> DEFINE reply == CompletePrepared(r, ctx)
  <2>1. r.error \in {"none", "REQUEST_FAILED", "RESPONSE_INVALID", "other"}
    BY ReplyAssumption
  <2>2. (reply = Judged(kind, r) /\ Trace(r, ctx)) \/ \E code : reply = Blocked(code)
    BY <2>1 DEF CompletePrepared
  <2>3. out = NormalizeOutput(reply) \/ \E code : out = NormalizeOutput(Blocked(code))
    BY DEF FixedContextInterpretation, Interpret
  <2> HIDE DEF reply, out
  <2>4. out # Blocked("SCHEMA_INVALID") /\ \A code : out # Blocked(code)
    BY <1>1 DEF out
  <2>5. out = reply
    BY <2>3, <2>4 DEF NormalizeOutput
  <2>6. reply = Judged(kind, r) /\ Trace(r, ctx)
    BY <2>2, <2>4, <2>5
  <2>7. Judged(kind, r).status = kind /\ Judged(kind, r).reason = ""
    BY DEF Judged
  <2>8. kind # "blocked"
    BY <2>3, <2>4, <2>5, <2>6, <2>7 DEF NormalizeOutput
  <2> QED BY <2>5, <2>6, <2>8
<1> HIDE DEF out, kind
<1>3. out.relations = r.relations /\ out.evidence = r.evidence /\ out.status = kind
      /\ out.confirmed = FALSE
  BY <1>2 DEF Judged
<1>4. r.status \in {"success", "needs_review", "blocked"}
  BY ReplyAssumption
<1>5. target \in r.relations
  BY <1>3 DEF out
<1>6. \E e \in r.evidence : e[1] = target /\ e \in ctx.evidence
  BY <1>2, <1>5 DEF Trace
<1> QED BY <1>2, <1>3, <1>4, <1>5, <1>6 DEF out, kind

LEMMA CallTraces ==
  ASSUME FileInv, Gathered, RelationsAreTraced, RunNext
  PROVE  RelationsAreTraced'
<1> DEFINE Traced(entry) ==
      \A target \in entry.out.relations :
        /\ \E c \in Catalog, f \in Field :
             /\ c.id = target /\ <<target, f>> \in entry.out.evidence
             /\ Same(Facts[entry.hash], c, f)
             /\ \A g \in Identifying : ~Different(Facts[entry.hash], c, g)
        /\ entry.out.status = "needs_review" /\ ~entry.out.confirmed
<1>1. CASE Judge
  <2>1. PICK ctx \in Contexts(call.bytes), r \in InterpreterReply, enabled \in BOOLEAN :
          work'.entries = Append(work.entries, Entry(Source, call.bytes,
            FixedContextInterpretation(enabled, r, call.text, ctx)))
    BY <1>1, JudgeFacts, Zenon
  <2> DEFINE out   == FixedContextInterpretation(enabled, r, call.text, ctx)
             entry == Entry(Source, call.bytes, out)
  <2>2. ASSUME NEW target \in out.relations
        PROVE  /\ \E c \in Catalog, f \in Field :
                    /\ c.id = target /\ <<target, f>> \in out.evidence
                    /\ Same(Facts[call.bytes], c, f)
                    /\ \A g \in Identifying : ~Different(Facts[call.bytes], c, g)
               /\ out.status = "needs_review" /\ ~out.confirmed
    <3>1. PICK e \in out.evidence : e[1] = target /\ e \in ctx.evidence
      BY KeptFacts
    <3>2. PICK c \in Catalog, f \in Field :
            /\ e = <<c.id, f>> /\ Same(Facts[call.bytes], c, f)
            /\ \A g \in Identifying : ~Different(Facts[call.bytes], c, g)
      BY <3>1, CandidateFacts
    <3>3. out.status = "needs_review" /\ ~out.confirmed
      BY KeptFacts
    <3> HIDE DEF out
    <3> QED BY <3>1, <3>2, <3>3
  <2>3. entry.hash = call.bytes /\ entry.out = out
    BY DEF Entry
  <2> HIDE DEF out, entry
  <2>4. Traced(entry)
    BY <2>2, <2>3
  <2>5. /\ DOMAIN work.entries = 1..Len(work.entries) /\ DOMAIN work'.entries = 1..(Len(work.entries) + 1)
        /\ \A k \in 1..Len(work.entries) : work'.entries[k] = work.entries[k]
        /\ \A k \in DOMAIN work'.entries \ DOMAIN work.entries : work'.entries[k] = entry
    <3>1. IsSequence(work.entries) /\ work'.entries = Append(work.entries, entry)
      BY <2>1 DEF Gathered, GatheredOK, entry, out
    <3> QED BY <3>1, AppendFacts
  <2>6. \A k \in DOMAIN work.entries : Traced(work.entries[k])
    BY DEF RelationsAreTraced
  <2> HIDE DEF Traced
  <2>7. \A k \in DOMAIN work'.entries : Traced(work'.entries[k])
    BY <2>4, <2>5, <2>6
  <2> QED BY <2>7 DEF RelationsAreTraced, Traced
<1>2. CASE ~Judge
  <2>1. work = WorkRecord
    BY DEF FileInv, CallOK
  <2>2. work' = work \/ (\E source, code : Blocks(source, code))
          \/ \E x : work' = [work EXCEPT !.manifest = x]
    BY <1>2 DEF RunNext, Step, ClaimRunDirectory, Register, Identify, Bind, Stat, Raise, Open, Read,
       Snapshot, Extract, NormalizeReviewQueue, Save, WriteFails, Die, Remove, PutBack, Edit,
       Replace, Others
  <2>3. work'.entries = work.entries
    BY <2>1, <2>2 DEF Blocks, WorkRecord
  <2> QED BY <2>3 DEF RelationsAreTraced
<1> QED BY <1>1, <1>2

-----------------------------------------------------------------------------
(* What a prepared run promises *)

LEMMA RunStart == RunInit => RunInv
<1> SUFFICES ASSUME RunInit PROVE RunInv
  OBVIOUS
<1>1. FileInv
  BY FilesStart
<1>2. /\ work.manifest = <<>> /\ work.entries = <<>> /\ work.intents = <<>>
      /\ work.actions = <<>> /\ work.failures = <<>>
      /\ run.saved = {} /\ call.at = "claim"
  BY DEF RunInit, NoWork
<1>3. IsSequence(<<>>) /\ Len(<<>>) = 0 /\ DOMAIN <<>> = {}
  <2>1. <<>> \in Seq({})
    BY EmptySeq
  <2> QED BY <2>1 DEF IsSequence
<1>4. Gathered
  BY <1>2, <1>3 DEF Gathered, GatheredOK, OfAFile, Looked
<1>5. Saved
  BY <1>2, OrderFacts DEF Saved
<1>6. RelationsAreTraced
  BY <1>2, <1>3 DEF RelationsAreTraced
<1> QED BY <1>1, <1>4, <1>5, <1>6 DEF RunInv

\* The inductive invariant of an interpreted run: what it has read is true, what it has
\* gathered of the files before the present one answers each, and of the artifacts the
\* first ones in their order are saved (_prepare_interpreted_file_organization_run).
THEOREM RunInvariant == RunSpec => []RunInv
<1>1. RunInv /\ RunNext => RunInv'
  BY CallFiles, CallGathers, CallSaves, CallTraces DEF RunInv
<1>2. RunInv /\ UNCHANGED runVars => RunInv'
  <2> SUFFICES ASSUME RunInv, UNCHANGED runVars PROVE RunInv'
    OBVIOUS
  <2>1. FileInv'
    BY DEF RunInv, runVars, FileInv, CallOK, CallRecord, WorkRecord, RunRecord, FilesOK, InodesApart,
       ReadTruly, Identity, Source
  <2>2. Gathered'
    BY DEF RunInv, runVars, Gathered, GatheredOK, BorneOut, Source
  <2>3. Saved'
    BY DEF RunInv, runVars, Saved, RunStatus
  <2>4. RelationsAreTraced'
    BY DEF RunInv, runVars, RelationsAreTraced
  <2> QED BY <2>1, <2>2, <2>3, <2>4 DEF RunInv
<1> QED BY RunStart, <1>1, <1>2, PTL DEF RunSpec

\* RelationsAreTraced: whatever the interpreter replies, a relation that is kept is to a
\* record of the catalog that agrees with the document in a field the result cites and
\* contradicts it in no identifying one, and is left to a reviewer.
THEOREM RelationsAreTracedCorrect == RunSpec => []RelationsAreTraced
<1>1. RunInv => RelationsAreTraced
  BY DEF RunInv
<1> QED BY <1>1, RunInvariant, PTL

\* PlanAnswersEveryFile: a plan on disk answers every file of the call, once and in order,
\* by a blocker or by an intent that everything saved beside it bears out.
THEOREM PlanAnswersEveryFileCorrect == RunSpec => []PlanAnswersEveryFile
<1>1. RunInv => PlanAnswersEveryFile
  <2> SUFFICES ASSUME RunInv, "planned_archive_actions" \in run.saved PROVE PlanAnswersEveryFile
    BY DEF PlanAnswersEveryFile
  <2>1. PICK n \in 0..6 : run.saved = Artifacts(SaveOrder, n)
    BY DEF RunInv, Saved
  <2>2. n >= 5
    BY <2>1, OrderFacts DEF Artifacts
  <2>3. {"input_manifest", "candidate_interpretations", "archive_intents", "review_queue"}
          \subseteq run.saved
    <3>1. {SaveOrder[1], SaveOrder[2], SaveOrder[3], SaveOrder[4]} \subseteq run.saved
      BY <2>1, <2>2 DEF Artifacts
    <3> QED BY <3>1 DEF SaveOrder
  <2>4. /\ run.registered /\ Len(work.actions) = Len(Input)
        /\ DOMAIN work.actions = 1..Len(Input) /\ DOMAIN Input = 1..Len(Input)
        /\ Len(Input) \in Nat
    BY InputAssumption, WorkFacts DEF RunInv, Saved
  <2>5. \A k \in DOMAIN Input : BorneOut(k)
    BY <2>4 DEF RunInv, Gathered
  <2>6. call.at = "returned" =>
          (call.status = "success" <=>
             Input # <<>> /\ \A k \in DOMAIN Input : work.actions[k].intent # None)
    <3> SUFFICES ASSUME call.at = "returned"
                 PROVE  RunStatus = "success" <=>
                          Input # <<>> /\ \A k \in DOMAIN Input : work.actions[k].intent # None
      BY DEF RunInv, Saved
    <3>1. RunStatus = "success" <=> work.intents # <<>> /\ work.failures = <<>>
      BY DEF RunStatus
    <3>2. /\ work.failures = <<>> <=> Len(work.failures) = 0
          /\ work.intents = <<>> <=> Len(work.intents) = 0
          /\ Input = <<>> <=> Len(Input) = 0
      <4>1. IsSequence(work.failures) /\ IsSequence(work.intents) /\ IsSequence(Input)
        BY InputAssumption DEF RunInv, Gathered, GatheredOK, IsSequence
      <4> QED BY <4>1, SequenceFacts
    <3>w. /\ Len(work.failures) \in Nat /\ DOMAIN work.failures = 1..Len(work.failures)
          /\ Len(work.intents) \in Nat /\ Len(Input) = Len(work.intents) + Len(work.failures)
      BY <2>4, WorkFacts DEF RunInv, Gathered
    <3>3. Len(work.failures) = 0 <=> \A k \in DOMAIN Input : work.actions[k].intent # None
      <4>1. ASSUME NEW k \in DOMAIN Input, work.actions[k].intent = None PROVE Len(work.failures) # 0
        <5>1. \E j \in DOMAIN work.failures : work.failures[j].n = k
          BY <2>5, <4>1 DEF BorneOut
        <5> QED BY <3>w, <5>1
      <4>2. ASSUME Len(work.failures) # 0
            PROVE  \E k \in DOMAIN Input : work.actions[k].intent = None
        <5>1. 1 \in DOMAIN work.failures
          BY <3>w, <4>2
        <5> QED BY <2>4, <5>1 DEF RunInv, Gathered
      <4> QED BY <4>1, <4>2
    <3>4. Len(work.failures) = 0 => (Len(work.intents) = 0 <=> Len(Input) = 0)
      BY <3>w
    <3> QED BY <3>1, <3>2, <3>3, <3>4
  <2> QED BY <2>3, <2>4, <2>5, <2>6 DEF PlanAnswersEveryFile, BorneOut
<1> QED BY <1>1, RunInvariant, PTL

\* BoundToItsBytes: a document enters the manifest only with the bytes its path holds at
\* that moment, whatever was edited, replaced, removed and put back while it was read
\* (_read_source_snapshot, and the second look after the parsing).
THEOREM BoundToItsBytesCorrect == RunSpec => BoundToItsBytes
<1> DEFINE Bound == \A k \in DOMAIN work'.manifest \ DOMAIN work.manifest :
             LET document == work'.manifest[k] IN
             disk[document.source] # None /\ disk[document.source].content = document.hash
<1>1. ASSUME FileInv, Gathered, Extract PROVE Bound
  <2>0. call.at = "extract" /\ Source \in Path /\ work = WorkRecord
    BY <1>1, SourceIsPath DEF Extract, At, FileInv, OfAFile, Looked, CallOK
  <2>1. CASE work'.manifest = work.manifest
    BY <2>1
  <2>2. CASE work'.manifest # work.manifest
    <3> DEFINE document == [source |-> Source, hash |-> call.bytes]
    <3>1. ~Stale(Source, call.before) /\ work'.manifest = Append(work.manifest, document)
      <4>1. ASSUME NEW code, Blocks(Source, code) PROVE FALSE
        BY <2>0, <2>2, <4>1 DEF Blocks, WorkRecord
      <4>2. /\ ~Stale(Source, call.before)
            /\ work' = [work EXCEPT !.manifest = Append(@, document)]
        BY <1>1, <4>1 DEF Extract
      <4> QED BY <2>0, <4>2 DEF WorkRecord
    <3>2. disk[Source] # None /\ disk[Source].content = call.bytes
      BY <1>1, <2>0, <3>1 DEF Stale, FileInv, ReadTruly, Held
    <3>3. \A k \in DOMAIN work'.manifest \ DOMAIN work.manifest : work'.manifest[k] = document
      BY <1>1, <3>1, AppendFacts DEF Gathered, GatheredOK
    <3> HIDE DEF document
    <3>4. document.source = Source /\ document.hash = call.bytes
      BY DEF document
    <3> QED BY <3>2, <3>3, <3>4
  <2> QED BY <2>1, <2>2
<1>2. ASSUME FileInv, RunNext, ~Extract PROVE work'.manifest = work.manifest
  <2>1. work = WorkRecord
    BY <1>2 DEF FileInv, CallOK
  <2>2. work' = work \/ (\E source, code : Blocks(source, code)) \/ Judge
    BY <1>2 DEF RunNext, Step, ClaimRunDirectory, Register, Identify, Bind, Stat, Raise, Open, Read,
       Snapshot, NormalizeReviewQueue, Save, WriteFails, Die, Remove, PutBack, Edit, Replace, Others
  <2> QED BY <2>1, <2>2 DEF Blocks, Judge, WorkRecord
<1>3. RunInv /\ [RunNext]_runVars => [Bound]_runVars
  BY <1>1, <1>2 DEF RunInv
<1> QED BY <1>3, RunInvariant, PTL DEF RunSpec, BoundToItsBytes
=============================================================================
