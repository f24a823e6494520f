----------------------------- MODULE AgentLoop -----------------------------
(***************************************************************************)
(* The agent: a model asked at most MaxSteps times, whose tool calls are   *)
(* authorised and then executed one after the other by a session that      *)
(* caches what it has read.  Two tools open a fork: the impact simulation  *)
(* and the comparison of strategies.                                       *)
(***************************************************************************)
EXTENDS StrategySearch

CONSTANTS
    Agent,          \* the agent's session
    MaxSteps,       \* AGENT_MAX_STEPS
    MaxInvalid      \* AGENT_MAX_INVALID_CALLS

ASSUME AgentAssumption ==
    /\ Agent \in Sessions /\ MaxSteps \in Nat \ {0} /\ MaxInvalid \in Nat \ {0}

VARIABLE agent

agentVars == <<searchVars, agent>>

ForkTools == {"run_impact_simulation", "optimize_repayment", "optimize_add_collateral",
              "compare_verified_strategies"}
Tools == ForkTools \cup {"read", "get_verified_strategies", "forbidden"}

NoComparison == [known |-> FALSE, results |-> [t \in Strategies |-> NoResult],
                 policy |-> setting.policy[Agent], mixed |-> FALSE, glitched |-> FALSE]

NewAgent ==
    [pc |-> "off", step |-> 0, model |-> "planner", pending |-> <<>>, rejected |-> 0,
     impact |-> NoReceipt, comparison |-> NoComparison, told |-> {}, forks |-> 0,
     status |-> "NONE"]

AgentInit == agent = NewAgent

-----------------------------------------------------------------------------
(***************************************************************************)
(* The model.                                                              *)
(***************************************************************************)
Fails(a) == [a EXCEPT !.pc = "ended", !.status = "FAILED", !.pending = <<>>]

(* MAX_STEPS_REACHED ends the loop when the last step's calls are done.    *)
NextStep(a) ==
    IF a.step + 1 >= MaxSteps THEN Fails([a EXCEPT !.step = @ + 1])
    ELSE [a EXCEPT !.step = @ + 1, !.pc = "ask"]

(* completeWithFallback: a transient error turns to the fallback model,    *)
(* once and for the rest of the run.                                       *)
Answered(reply, m) ==
    /\ agent.pc = "ask"
    /\ m # agent.model => m = "fallback"
    /\ IF m = agent.model THEN UNCHANGED left ELSE Spend1("model")
    /\ agent' = IF reply = <<>>
                THEN [agent EXCEPT !.model = m, !.pc = "ended", !.status = "COMPLETED"]
                ELSE [agent EXCEPT !.model = m, !.pc = "call", !.pending = reply]
    /\ UNCHANGED <<forkVars, node, work, mixed, setting>>

AskModel == \E reply \in setting.replies \cup {<<>>}, m \in {"planner", "fallback"} : Answered(reply, m)

(* GROQ_UNAVAILABLE, or a transient error with no model left to turn to.   *)
ModelFails ==
    /\ agent.pc = "ask"
    /\ Spend1("model")
    /\ agent' = Fails(agent)
    /\ UNCHANGED <<forkVars, node, work, mixed, setting>>

(* The deadline is looked at between two steps only.                       *)
AgentTimeout ==
    /\ agent.pc = "ask" /\ agent.step > 0
    /\ Spend1("deadline")
    /\ agent' = Fails(agent)
    /\ UNCHANGED <<forkVars, node, work, mixed, setting>>

(* Any other write of the trace that fails ends the agent, which is then   *)
(* stored as failed: the first one, that of a fallback, of a reply, of a   *)
(* call or of its refusal.                                                 *)
TraceFails ==
    /\ agent.pc \in {"ask", "call"}
    /\ Spend1("trace")
    /\ agent' = Fails(agent)
    /\ UNCHANGED <<forkVars, node, work, mixed, setting>>

-----------------------------------------------------------------------------
(***************************************************************************)
(* The tool calls of one reply.                                            *)
(***************************************************************************)
Tool == Head(agent.pending)

CallDone(a) ==
    LET rest == Tail(a.pending)
    IN  IF rest = <<>> THEN NextStep([a EXCEPT !.pending = <<>>])
        ELSE [a EXCEPT !.pending = rest, !.pc = "call"]

(* The refusals of a run are counted together, whatever the call.          *)
Rejected(a) ==
    LET counted == [a EXCEPT !.rejected = @ + 1]
    IN  IF counted.rejected >= MaxInvalid THEN Fails(counted) ELSE CallDone(counted)

(* The strategies in the result of a tool.                                 *)
Shown(tool) ==
    CASE tool = "optimize_repayment" -> {"REPAY_DEBT"}
      [] tool = "optimize_add_collateral" -> {"ADD_COLLATERAL"}
      [] tool = "compare_verified_strategies" -> Strategies
      [] OTHER -> {}

\* Mutant of Told: the status of a strategy is not looked at.
ToldWhateverStatus(a, shown) ==
    [a EXCEPT !.told = @ \cup {<<t, a.comparison.results[t].amount>> : t \in shown}]

(* recordStrategyTrace: the verified ones are told.                        *)
Told(a, shown) ==
    [a EXCEPT !.told = @ \cup
        {<<t, a.comparison.results[t].amount>> :
            t \in {u \in shown : a.comparison.results[u].status = "VERIFIED"}}]

(* The result of a call is written to the trace, then its strategies, one  *)
(* after the other; a write that fails counts as a refusal of the call.    *)
TellResult(a, tool) ==
    \/ agent' = CallDone(Told(a, Shown(tool))) /\ UNCHANGED left
    \/ /\ \E shown \in {{}, Shown(tool) \cap {"REPAY_DEBT"}, Shown(tool)} :
              agent' = Rejected(Told(a, shown))
       /\ Spend1("trace")

Cached(tool) ==
    IF tool = "run_impact_simulation" THEN agent.impact.known ELSE agent.comparison.known

(* authorizeToolCall: an unknown tool, bad arguments, another wallet.      *)
ForbiddenCall ==
    /\ Tool = "forbidden"
    /\ agent' = Rejected(agent) /\ UNCHANGED left

(* The tools that read the chain at the pinned block.                      *)
ReadCall ==
    /\ Tool = "read"
    /\ \/ TellResult(agent, Tool)
       \/ agent' = Rejected(agent) /\ Spend1("glitch")

(* What has been compared or simulated before is answered from the cache;  *)
(* get_verified_strategies never starts a comparison.                      *)
CachedCall ==
    /\ \/ Tool = "get_verified_strategies"
       \/ Tool \in ForkTools /\ Cached(Tool)
    /\ TellResult(agent, Tool)

PlainCall ==
    /\ agent.pc = "call"
    /\ ForbiddenCall \/ ReadCall \/ CachedCall
    /\ UNCHANGED <<forkVars, node, work, mixed, setting>>

ForkCall ==
    /\ agent.pc = "call" /\ Tool \in ForkTools /\ ~Cached(Tool)
    /\ Open(Agent, IF Tool = "run_impact_simulation" THEN "replay" ELSE "compare", 0, <<>>)
    /\ agent' = [agent EXCEPT !.pc = "wait", !.forks = @ + 1]

ForkRefused ==
    /\ agent.pc = "call" /\ Tool \in ForkTools /\ ~Cached(Tool)
    /\ NoPortLeft(Agent)
    /\ agent' = Rejected(agent)
    /\ UNCHANGED workVars

(* The fork has been closed: its result is cached, or the call rejected.   *)
ForkReturns ==
    LET w    == work[Agent]
        full == [agent EXCEPT
                   !.impact = IF w.task = "replay"
                              THEN [w.receipt EXCEPT !.mixed = Agent \in mixed] ELSE @,
                   !.comparison = IF w.task = "replay" THEN @
                                  ELSE [known |-> TRUE, results |-> w.results,
                                        policy |-> w.policy, mixed |-> Agent \in mixed,
                                        glitched |-> w.glitched]]
    IN  /\ agent.pc = "wait"
        /\ w.stage = "closed" /\ fork[Agent].pc = "none"
        /\ IF w.outcome = "ok" THEN TellResult(full, Tool)
           ELSE agent' = Rejected(agent) /\ UNCHANGED left
        /\ work' = [work EXCEPT ![Agent] = NoWork(Agent)]
        /\ UNCHANGED <<forkVars, node, mixed, setting>>

AgentNext ==
    \/ AskModel \/ ModelFails \/ AgentTimeout \/ TraceFails
    \/ PlainCall \/ ForkCall \/ ForkRefused \/ ForkReturns
=============================================================================
