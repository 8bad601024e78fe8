----------------------------- MODULE LoopEngine -----------------------------
(***************************************************************************)
(* LoopEngine.run, the ReAct loop of main.run: it trims the history, asks    *)
(* the planner, charges the tokens, stops repeated calls, runs a tool with    *)
(* retries and feeds the observation back.  A tool call is its signature      *)
(* (name and input); a message is its kind and the round it belongs to.       *)
(***************************************************************************)
EXTENDS Integers, Sequences

CONSTANTS
  Call,            \* signatures the planner may ask for
  Missing,         \* those whose tool is not registered
  MaxRounds,       \* max_rounds
  DedupThreshold,  \* dedup_threshold
  RetryMax,        \* retry_max
  Window,          \* sliding_window_size
  Budget,          \* token_budget
  Cost             \* what one planner call may cost

ASSUME CallAssumption == Missing \subseteq Call
ASSUME LimitAssumption ==
  /\ MaxRounds \in Nat /\ DedupThreshold \in Nat /\ RetryMax \in Nat
  /\ Window \in Nat \ {0}
  /\ Budget \in Nat /\ Cost \subseteq Nat

VARIABLES
  pc, round,
  messages,
  counted,   \* call_history: how often each signature was asked for
  used,      \* total_tokens_used
  total,     \* trace.total_token_cost
  recorded,  \* number of rounds in the trace
  status,    \* trace.status
  job,       \* the call being executed, its cost and the attempts made
  tries      \* how often each tool was really run

trace == <<total, recorded, status>>
vars  == <<pc, round, messages, counted, used, trace, job, tries>>

Message ==
  [of : Nat, kind : {"system", "goal", "call", "observation", "evaluation", "dedup"}]

Msg(r, kind) == [of |-> r, kind |-> kind]

\* The system prompt and the goal.
Opening == <<Msg(0, "system"), Msg(0, "goal")>>

\* A tool call under way; <<>> is none.
Job == [call : Call, cost : Cost, attempt : 1..(RetryMax + 1)]

\* Types of the state of the loop.
TypeOK ==
  /\ pc \in {"ask", "reply", "tool", "end"}
  /\ round \in 1..(MaxRounds + 1)
  /\ messages \in Seq(Message)
  /\ counted \in [Call -> 0..MaxRounds]
  /\ used \in Nat /\ total \in Nat
  /\ recorded \in 0..MaxRounds
  /\ status \in {"running", "completed", "failed", "timeout", "budget_exceeded"}
  /\ status = "running" <=> pc # "end"
  /\ pc = "tool" => job \in Job
  /\ pc # "tool" => job = <<>>
  /\ tries \in [Call -> Nat]

Init ==
  /\ pc = "ask" /\ round = 1
  /\ messages = Opening
  /\ counted = [c \in Call |-> 0]
  /\ used = 0 /\ total = 0 /\ recorded = 0
  /\ status = "running"
  /\ job = <<>>
  /\ tries = [c \in Call |-> 0]

-----------------------------------------------------------------------------
\* Mutant: the window keeps the first message only.
TrimGoal(m) ==
  IF Len(m) <= 2 + 3 * Window THEN m
  ELSE SubSeq(m, 1, 1) \o SubSeq(m, Len(m) - 3 * Window + 1, Len(m))

\* _manage_state in sliding_window mode: the first two messages and the last
\* three per round of the window.
Trim(m) ==
  IF Len(m) <= 2 + 3 * Window THEN m
  ELSE SubSeq(m, 1, 2) \o SubSeq(m, Len(m) - 3 * Window + 1, Len(m))

Ask ==
  /\ pc = "ask" /\ round <= MaxRounds
  /\ messages' = Trim(messages)
  /\ pc' = "reply"
  /\ UNCHANGED <<round, counted, used, trace, job, tries>>

TimesOut ==
  /\ pc = "ask" /\ round > MaxRounds
  /\ pc' = "end" /\ status' = "timeout"
  /\ UNCHANGED <<round, messages, counted, used, total, recorded, job, tries>>

\* A round enters the trace.
RecordRound(cost) ==
  /\ recorded' = recorded + 1
  /\ total' = total + cost

CallFails ==
  /\ pc = "reply"
  /\ RecordRound(0)
  /\ pc' = "end" /\ status' = "failed"
  /\ UNCHANGED <<round, messages, counted, used, job, tries>>

Charge(cost) == used' = used + cost

\* _check_budget: the tokens are spent before they are compared.
Affordable(cost) == used + cost <= Budget

OverBudget(cost) ==
  /\ pc = "reply" /\ ~Affordable(cost)
  /\ Charge(cost)
  /\ recorded' = recorded + 1
  /\ total' = used'
  /\ pc' = "end" /\ status' = "budget_exceeded"
  /\ UNCHANGED <<round, messages, counted, job, tries>>

Finish(cost) ==
  /\ RecordRound(cost)
  /\ pc' = "end" /\ status' = "completed"
  /\ UNCHANGED <<round, messages, job, tries>>

\* A reply without an action is the final answer.
Answers(cost) ==
  /\ pc = "reply" /\ Affordable(cost)
  /\ Charge(cost)
  /\ Finish(cost)
  /\ UNCHANGED counted

\* Mutant: the call is refused one repetition later.
RepeatedLate(c) == counted[c] + 1 > DedupThreshold + 1

\* _check_dedup: every request counts, the refused ones too.
Repeated(c) == counted[c] + 1 > DedupThreshold

Count(c) == counted' = [counted EXCEPT ![c] = @ + 1]

\* Mutant: the tokens of a refused round are not added to the trace.
RefuseFree(c, cost) ==
  /\ pc = "reply" /\ Affordable(cost) /\ Repeated(c)
  /\ Charge(cost) /\ Count(c)
  /\ RecordRound(0)
  /\ messages' = messages \o <<Msg(round, "call"), Msg(round, "dedup")>>
  /\ round' = round + 1
  /\ pc' = "ask"
  /\ UNCHANGED <<status, job, tries>>

\* Mutant: a refused round is not counted against max_rounds.
RefuseUncounted(c, cost) ==
  /\ pc = "reply" /\ Affordable(cost) /\ Repeated(c)
  /\ Charge(cost)
  /\ messages' = messages
  /\ pc' = "ask"
  /\ UNCHANGED <<round, counted, trace, job, tries>>

\* A repeated call is refused and the planner told so, even when the reply also
\* held a final answer.
Refuse(c, cost) ==
  /\ pc = "reply" /\ Affordable(cost) /\ Repeated(c)
  /\ Charge(cost) /\ Count(c)
  /\ RecordRound(cost)
  /\ messages' = messages \o <<Msg(round, "call"), Msg(round, "dedup")>>
  /\ round' = round + 1
  /\ pc' = "ask"
  /\ UNCHANGED <<status, job, tries>>

\* A final answer line followed by an action line: the action is counted, the
\* answer ends the run.
AnswersWithAction(c, cost) ==
  /\ pc = "reply" /\ Affordable(cost) /\ ~Repeated(c)
  /\ Charge(cost) /\ Count(c)
  /\ Finish(cost)

Start(c, cost) ==
  /\ pc = "reply" /\ Affordable(cost) /\ ~Repeated(c)
  /\ Charge(cost) /\ Count(c)
  /\ job' = [call |-> c, cost |-> cost, attempt |-> 1]
  /\ pc' = "tool"
  /\ UNCHANGED <<round, messages, trace, tries>>

-----------------------------------------------------------------------------
\* The observation and its evaluation go back to the planner.
Observe ==
  /\ RecordRound(job.cost)
  /\ messages' = messages \o <<Msg(round, "call"), Msg(round, "observation"),
                               Msg(round, "evaluation")>>
  /\ round' = round + 1
  /\ job' = <<>>
  /\ pc' = "ask"
  /\ UNCHANGED <<counted, used, status>>

RunTool == tries' = [tries EXCEPT ![job.call] = @ + 1]

\* The tool returns, or raises for the last time.
ToolEnds ==
  /\ pc = "tool" /\ job.call \notin Missing
  /\ RunTool
  /\ Observe

ToolIsMissing ==
  /\ pc = "tool" /\ job.call \in Missing
  /\ Observe
  /\ UNCHANGED tries

ToolRaises ==
  /\ pc = "tool" /\ job.call \notin Missing /\ job.attempt <= RetryMax
  /\ RunTool
  /\ job' = [job EXCEPT !.attempt = @ + 1]
  /\ UNCHANGED <<pc, round, messages, counted, used, trace>>

Reply(cost) ==
  \/ OverBudget(cost) \/ Answers(cost)
  \/ \E c \in Call : Refuse(c, cost) \/ AnswersWithAction(c, cost) \/ Start(c, cost)

Next ==
  \/ Ask \/ TimesOut \/ CallFails
  \/ \E cost \in Cost : Reply(cost)
  \/ ToolEnds \/ ToolIsMissing \/ ToolRaises

Spec == Init /\ [][Next]_vars

\* One thread; the planner and the tools return or raise.
FairSpec == Spec /\ WF_vars(Next)

-----------------------------------------------------------------------------
\* A run ends, whatever the planner repeats and the tools raise.
RunEnds == <>(pc = "end")

\* A tool is really run a bounded number of times per signature: retries times
\* the repetitions dedup lets through.
ToolsRunBounded == \A c \in Call : tries[c] <= DedupThreshold * (RetryMax + 1)

\* On every way out the trace holds each planner call and all tokens charged.
TraceIsComplete ==
  pc = "end" =>
    /\ total = used
    /\ status = "timeout" => recorded = MaxRounds
    /\ status # "timeout" => recorded = round

\* What the planner sees: the system prompt and the goal, no more than the
\* window, and the outcome of the round before.
PlannerSeesGoalAndOutcome ==
  pc = "reply" =>
    /\ SubSeq(messages, 1, 2) = Opening
    /\ Len(messages) <= 2 + 3 * Window
    /\ messages[Len(messages)].of = round - 1

=============================================================================
