---------------------------- MODULE Orchestrator ----------------------------
(***************************************************************************)
(* internal/agent: Orchestrator.Run starts one goroutine per sub-agent;    *)
(* each runs the loop of Runner.Run and they share one atomic counter, the *)
(* token budget.  A goroutine checks the budget, calls the model and       *)
(* deducts what the call cost, in three steps with the others in between.  *)
(*                                                                         *)
(* Prompts, tools and outputs are left out: a response is known by what it *)
(* cost and by whether it asks for tools, which is what the loop tests.    *)
(***************************************************************************)
EXTENDS Integers, FiniteSets, Functions

CONSTANTS
    NSpecs,         \* length of the specs the caller passes
    MaxAgents,      \* budget.EffectiveMaxAgents()
    MaxTurns,       \* budget.EffectiveMaxTurns()
    MaxTokens,      \* budget.MaxTokens; 0 is no shared budget
    TokensPerCall   \* bound on the tokens of one model call

ASSUME OrchestratorAssumption ==
    /\ NSpecs \in Nat \ {0}
    /\ MaxAgents \in Nat \ {0}
    /\ MaxTurns \in Nat \ {0}
    /\ MaxTokens \in Nat
    /\ TokensPerCall \in Nat \ {0}

VARIABLES
    remaining,   \* sharedTokens
    agent,       \* each goroutine: control point, turn, result so far
    cancelled,   \* the caller's context is done
    summary      \* what Run reports at the end

vars == <<remaining, agent, cancelled, summary>>

(* Run clamps the specs to MaxAgents. *)
NAgents == IF NSpecs > MaxAgents THEN MaxAgents ELSE NSpecs

Agents == 1 .. NAgents

Limited == MaxTokens > 0

NewAgent == [ pc      |-> "waiting",
              expired |-> FALSE,    \* its own timeout has passed
              turns   |-> 0,        \* result.Turns: the calls answered so far
              tokens  |-> 0,        \* result.Tokens
              cost    |-> 0,        \* turnTokens of the response in hand
              final   |-> FALSE,    \* that response has no tool calls
              err     |-> "none" ]

NoSummary == [done |-> FALSE, success |-> 0, tokens |-> 0]

Init ==
    /\ remaining = MaxTokens
    /\ agent = [a \in Agents |-> NewAgent]
    /\ cancelled = FALSE
    /\ summary = NoSummary

Dead(a) == cancelled \/ agent[a].expired

Ended(a, e) == [agent[a] EXCEPT !.pc = "done", !.err = e]

(* The semaphore has room for every agent, so only the caller's            *)
(* cancellation keeps one from starting; select may take either.           *)
Acquire(a) ==
    /\ agent[a].pc = "waiting"
    /\ agent' = [agent EXCEPT ![a].pc = "turn"]
    /\ UNCHANGED <<remaining, cancelled, summary>>

AcquireCancelled(a) ==
    /\ agent[a].pc = "waiting"
    /\ cancelled
    /\ agent' = [agent EXCEPT ![a] = Ended(a, "context")]
    /\ UNCHANGED <<remaining, cancelled, summary>>

(* The head of the loop: the context, then the soft budget check. *)
TurnCancelled(a) ==
    /\ agent[a].pc = "turn"
    /\ Dead(a)
    /\ agent' = [agent EXCEPT ![a] = Ended(a, "context")]
    /\ UNCHANGED <<remaining, cancelled, summary>>

Depleted == Limited /\ remaining <= 0

BudgetCheck(a) ==
    /\ agent[a].pc = "turn"
    /\ ~Dead(a)
    /\ agent' = [agent EXCEPT ![a] = IF Depleted THEN Ended(a, "budget")
                                     ELSE [agent[a] EXCEPT !.pc = "calling"]]
    /\ UNCHANGED <<remaining, cancelled, summary>>

(* Mutant: a turn that used tools does not count. *)
TurnNotCounted(a) == agent[a].turns

NextTurn(a) == agent[a].turns + 1

(* provider.Complete returns: the result is charged before the budget is. *)
CompleteOK(a) ==
    /\ agent[a].pc = "calling"
    /\ \E t \in 0 .. TokensPerCall, f \in BOOLEAN :
          agent' = [agent EXCEPT ![a] = [agent[a] EXCEPT
                       !.pc = "deduct", !.turns = NextTurn(a),
                       !.tokens = agent[a].tokens + t, !.cost = t, !.final = f]]
    /\ UNCHANGED <<remaining, cancelled, summary>>

CompleteError(a) ==
    /\ agent[a].pc = "calling"
    /\ agent' = [agent EXCEPT ![a] = Ended(a, "llm")]
    /\ UNCHANGED <<remaining, cancelled, summary>>

(* Mutant: charges the agent's total again. *)
ChargedTotal(a) == remaining - agent[a].tokens

Charged(a) == remaining - agent[a].cost

(* sharedTokens.Add and what follows it: the budget is spent, the response *)
(* is the answer, or the tools run and the next turn begins.               *)
Deduct(a) ==
    /\ agent[a].pc = "deduct"
    /\ remaining' = IF Limited THEN Charged(a) ELSE remaining
    /\ agent' = [agent EXCEPT ![a] =
                    IF Limited /\ remaining' <= 0 THEN Ended(a, "budget")
                    ELSE IF agent[a].final \/ agent[a].turns >= MaxTurns THEN Ended(a, "none")
                    ELSE [agent[a] EXCEPT !.pc = "turn"]]
    /\ UNCHANGED <<cancelled, summary>>

Succeeded == {a \in Agents : agent[a].err = "none"}

SumOf(f) == FoldFunction(LAMBDA x, y : x + y, 0, f)

TotalTokens == SumOf([a \in Agents |-> agent[a].tokens])

(* eg.Wait returns when every goroutine has; the results are then read. *)
WaitedForNone == TRUE   \* mutant: no eg.Wait

Waited == \A a \in Agents : agent[a].pc = "done"

Finish ==
    /\ ~summary.done
    /\ Waited
    /\ summary' = [done |-> TRUE, success |-> Cardinality(Succeeded), tokens |-> TotalTokens]
    /\ UNCHANGED <<remaining, agent, cancelled>>

Cancel ==
    /\ ~cancelled
    /\ cancelled' = TRUE
    /\ UNCHANGED <<remaining, agent, summary>>

Timeout(a) ==
    /\ agent[a].pc \in {"turn", "calling", "deduct"}
    /\ ~agent[a].expired
    /\ agent' = [agent EXCEPT ![a].expired = TRUE]
    /\ UNCHANGED <<remaining, cancelled, summary>>

AgentStep(a) ==
    \/ Acquire(a) \/ AcquireCancelled(a) \/ TurnCancelled(a) \/ BudgetCheck(a)
    \/ CompleteOK(a) \/ CompleteError(a) \/ Deduct(a)

Next == (\E a \in Agents : AgentStep(a) \/ Timeout(a)) \/ Finish \/ Cancel

Spec == Init /\ [][Next]_vars

-----------------------------------------------------------------------------
AgentType == [ pc : {"waiting", "turn", "calling", "deduct", "done"}, expired : BOOLEAN,
               turns : Nat, tokens : Nat, cost : 0 .. TokensPerCall, final : BOOLEAN,
               err : {"none", "context", "budget", "llm"} ]

BudgetTypeOK ==
    /\ remaining \in Int
    /\ agent \in [Agents -> AgentType]
    /\ cancelled \in BOOLEAN

(* Every variable has its type; what Run reports is never negative. *)
TypeOK ==
    /\ BudgetTypeOK
    /\ summary \in [done : BOOLEAN, success : Nat, tokens : Nat]

InFlight == {a \in Agents : agent[a].pc \in {"calling", "deduct"}}

(* How far the soft check lets the agents overrun the budget: each may have *)
(* passed the check while one token was left, and cost a full call.        *)
OverrunBounded == Limited => remaining >= 1 - NAgents * TokensPerCall

(* Every token the results report was taken from the budget, or is about   *)
(* to be: result.Tokens and the shared counter are updated in two steps.   *)
TokensConserved == Limited =>
    TotalTokens - SumOf([a \in Agents |-> IF agent[a].pc = "deduct" THEN agent[a].cost ELSE 0])
    = MaxTokens - remaining

(* ErrBudgetExhausted is never a lie: the budget cannot recover between    *)
(* the check of one agent and the report of another.                       *)
BudgetErrorTruthful == \A a \in Agents : agent[a].err = "budget" => Limited /\ remaining <= 0

(* The summary is taken when nobody can change the results any more. *)
SummaryFinal == summary.done =>
    summary.success = Cardinality(Succeeded) /\ summary.tokens = TotalTokens

(* The shared budget is kept as far as a check without a lock can keep it, *)
(* and who is told that it is spent is told the truth.                     *)
BudgetKept == OverrunBounded /\ BudgetErrorTruthful

(* What Run reports is what was spent and what was done.                   *)
SummaryExact == TokensConserved /\ SummaryFinal

(* A Run that has begun returns: no agent loops for ever, whatever the     *)
(* model answers.                                                          *)
Terminates == (cancelled \/ \E a \in Agents : agent[a].pc # "waiting") ~> summary.done
=============================================================================
