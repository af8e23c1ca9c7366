---------------------------- MODULE AgentBudget ----------------------------
(***************************************************************************)
(* The AI commands of the CLI (explain, investigate, retro): the agents of *)
(* packages/agent/src, their budget file and their cache.  Every command   *)
(* is a process of its own; the two directories are all they share.        *)
(*                                                                         *)
(* Abstractions.  Money is a small number, and one estimate serves for all *)
(* calls.  All commands of a kind ask the same question.  What Claude says *)
(* is of use, of no use (no text, no tool call), or asks for tools.        *)
(***************************************************************************)
EXTENDS Naturals, Sequences, FiniteSets

CONSTANTS
  Commands,  \* processes
  Limit,     \* the limit of the org
  Estimate,  \* what a call costs at most: max_tokens out, the request in
  Costs,     \* what it may cost in fact
  MaxTurns,  \* of an investigation
  MaxAsks    \* bound: commands run

VARIABLES
  stage,    \* where a command is
  todo,     \* the calls it still has to make
  topic,    \* the question it asks, as far as the cache is concerned
  cost,     \* of the answer it is recording
  read,     \* currentSpend as that recordSpend() read it
  spend,    \* currentSpend in the file
  cache,    \* the questions with an answer in the cache directory
  billed,   \* history: the cost of all answers
  missed,   \* history: a record was not written, or over another's
  asks      \* bound: commands run so far

agentVars == <<stage, todo, topic, cost, read, spend, cache, billed, missed, asks>>

Ends == {"answered", "unavailable", "error"}
Topics == {"investigate", "explain", "retro"}
Calls == {"turn", "draft", "ground", "fix", "analyze"}

(* What a command calls Claude for; explain may be told to suggest a fix.  *)
Plans ==
  [investigate |-> {[i \in 1..MaxTurns |-> "turn"]},
   explain |-> {<<"draft", "ground">>, <<"draft", "ground", "fix">>},
   retro |-> {<<"analyze">>}]

-----------------------------------------------------------------------------
Init ==
  /\ stage = [a \in Commands |-> "idle"]
  /\ todo = [a \in Commands |-> <<>>]
  /\ topic = [a \in Commands |-> "retro"]
  /\ cost = [a \in Commands |-> 0] /\ read = [a \in Commands |-> 0]
  /\ spend = 0 /\ cache = {} /\ billed = 0 /\ missed = FALSE /\ asks = 0

(* The command has `plan` left: it asks on, or it is answered.             *)
Continue(a, plan) ==
  /\ todo' = [todo EXCEPT ![a] = plan]
  /\ stage' = [stage EXCEPT ![a] = IF plan = <<>> THEN "answered" ELSE "asking"]

End(a, how) ==
  /\ stage' = [stage EXCEPT ![a] = how]
  /\ todo' = [todo EXCEPT ![a] = <<>>]

(* Calls that remain when the answer comes from the cache.                 *)
AfterAnswer(plan) == IF \E i \in DOMAIN plan : plan[i] = "fix" THEN <<"fix">> ELSE <<>>

(* A command starts: an answer in the cache costs nothing.                 *)
Run(a, t) ==
  /\ stage[a] \in {"idle"} \cup Ends /\ asks < MaxAsks
  /\ asks' = asks + 1
  /\ topic' = [topic EXCEPT ![a] = t]
  /\ \E plan \in Plans[t] : Continue(a, IF t \in cache THEN AfterAnswer(plan) ELSE plan)
  /\ UNCHANGED <<cost, read, spend, cache, billed, missed>>

(* Fault: the estimate of the call is left out.                            *)
WithinLimitSoFar(current) == current < Limit

(* checkBudget(), with an estimate.                                        *)
WithinLimit(current) == current < Limit /\ current + Estimate <= Limit

(* callClaude() up to its await.                                           *)
Ask(a) ==
  /\ stage[a] = "asking"
  /\ IF WithinLimit(spend)
       THEN stage' = [stage EXCEPT ![a] = "waiting"] /\ UNCHANGED todo
       ELSE End(a, "unavailable")
  /\ UNCHANGED <<topic, cost, read, spend, cache, billed, missed, asks>>

(* Claude answers; recordSpend() reads the file.                           *)
Answer(a, c) ==
  /\ stage[a] = "waiting"
  /\ stage' = [stage EXCEPT ![a] = "recording"]
  /\ billed' = billed + c
  /\ cost' = [cost EXCEPT ![a] = c]
  /\ read' = [read EXCEPT ![a] = spend]
  /\ UNCHANGED <<todo, topic, spend, cache, missed, asks>>

(* Nothing is recorded of a call that fails.                               *)
CallFails(a) ==
  /\ stage[a] = "waiting"
  /\ End(a, "unavailable")
  /\ UNCHANGED <<topic, cost, read, spend, cache, billed, missed, asks>>

(* Text, or the tool that submits an investigation.  An answer that is     *)
(* complete goes to the cache, if that can be written; retro has none.     *)
Useful(a) ==
  LET rest == IF topic[a] = "investigate" THEN <<>> ELSE Tail(todo[a])
      complete == Head(todo[a]) \in {"turn", "ground"}
  IN /\ Continue(a, rest)
     /\ cache' \in {cache} \cup (IF complete THEN {cache \cup {topic[a]}} ELSE {})

Useless(a) == End(a, "unavailable") /\ UNCHANGED cache

(* Fault: the turn is not counted.                                         *)
AskAgain(a) ==
  /\ topic[a] = "investigate"
  /\ Continue(a, todo[a])
  /\ UNCHANGED cache

(* The investigator runs the tools for its next turn, which there may be   *)
(* no more of (AgentTurnLimitError).                                       *)
NextTurn(a) ==
  /\ topic[a] = "investigate"
  /\ IF Tail(todo[a]) = <<>> THEN End(a, "unavailable") ELSE Continue(a, Tail(todo[a]))
  /\ UNCHANGED cache

(* recordSpend() replaces the file; the agent goes on with the answer.     *)
Record(a) ==
  /\ stage[a] = "recording"
  /\ spend' = read[a] + cost[a]
  /\ missed' = (missed \/ spend # read[a])
  /\ Useful(a) \/ Useless(a) \/ NextTurn(a)
  /\ cost' = [cost EXCEPT ![a] = 0] /\ read' = [read EXCEPT ![a] = 0]
  /\ UNCHANGED <<topic, billed, asks>>

(* The file cannot be written: an error like any other.                    *)
RecordFails(a) ==
  /\ stage[a] = "recording"
  /\ missed' = TRUE
  /\ End(a, "error")
  /\ cost' = [cost EXCEPT ![a] = 0] /\ read' = [read EXCEPT ![a] = 0]
  /\ UNCHANGED <<topic, spend, cache, billed, asks>>

Proceed(a) ==
  \/ Ask(a) \/ CallFails(a) \/ Record(a) \/ RecordFails(a)
  \/ \E c \in Costs : Answer(a, c)

Next == \E a \in Commands : Proceed(a) \/ \E t \in Topics : Run(a, t)

(* The SDK's requests time out; the rest is the process itself.            *)
Fairness == \A a \in Commands : WF_agentVars(Proceed(a))

-----------------------------------------------------------------------------
TypeOK ==
  /\ stage \in [Commands -> {"idle", "asking", "waiting", "recording"} \cup Ends]
  /\ todo \in [Commands -> Seq(Calls)]
  /\ topic \in [Commands -> Topics]
  /\ cost \in [Commands -> Costs] /\ read \in [Commands -> Nat]
  /\ spend \in Nat /\ billed \in Nat /\ spend <= billed
  /\ cache \subseteq {"investigate", "explain"}
  /\ missed \in BOOLEAN /\ asks \in 0..MaxAsks

(* Checking before the call and recording after it, without a lock         *)
(* (BudgetManager.ts:46): as long as no two records met and none failed,   *)
(* the file accounts for every answer, and commands that run at once       *)
(* exceed the limit by less than one estimate each, the first excepted: a  *)
(* command that runs alone does not exceed it.                             *)
OvershootIsBounded ==
  LET open == {a \in Commands : stage[a] = "recording"}
  IN ~missed =>
       /\ open = {} => spend = billed
       /\ billed <= Limit + (Cardinality(Commands) - 1) * Estimate

(* Every command ends, answered or not: an investigation that only ever    *)
(* asks for tools runs out of turns even if its answers cost nothing.      *)
CommandsEnd == \A a \in Commands : stage[a] = "asking" ~> stage[a] \in Ends

=============================================================================
