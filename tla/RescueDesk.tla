----------------------------- MODULE RescueDesk -----------------------------
(***************************************************************************)
(* The processes that open forks of one host, together: the simulator's    *)
(* job (a replay, then the comparison of strategies), the agent that the   *)
(* job starts and does not wait for, the dry run of the API, and the       *)
(* simulator's shutdown.                                                   *)
(***************************************************************************)
EXTENDS AgentLoop, TLC

CONSTANTS
    Job, Api,   \* the job's session and the API's
    Settings    \* the wallets, policies and fault budgets to start from

(* The API forks its own safe block, 1, a later one than the proposal's, 0. *)
ASSUME DeskAssumption ==
    /\ {Job, Api, Agent} = Sessions /\ SimSessions = {Job, Agent}
    /\ Job # Api /\ Job # Agent /\ Api # Agent
    /\ 1 \in Pins

(* Wallets, policies and faults; the agent's policy names no buffer.       *)
ASSUME SettingsAssumption ==
    \A x \in Settings :
        /\ x.holdings \in Holdings /\ x.static \in Statics
        /\ x.policy \in [Sessions -> RiskPolicySet] /\ x.policy[Agent].minBuffer = 0
        /\ x.prepare.strategy \in Strategies

VARIABLE desk   \* the job and the API's request

vars == <<agentVars, desk>>

Init ==
    /\ setting \in Settings
    /\ left = setting.left
    /\ ForkInit /\ WorkInit /\ AgentInit
    /\ desk = [job |-> "waiting", receipt |-> NoReceipt, api |-> "waiting", plan |-> <<>>]

NoPlan == [strategy |-> "REPAY_DEBT", amount |-> 0]

Running == sim \in {"up", "draining", "stopping"}

-----------------------------------------------------------------------------
(***************************************************************************)
(* The job of the simulator.                                               *)
(***************************************************************************)
JobStarts ==
    /\ setting.job /\ sim = "up" /\ desk.job = "waiting"
    /\ Open(Job, "replay", 0, <<>>)
    /\ desk' = [desk EXCEPT !.job = "replay"]
    /\ UNCHANGED agent

JobReceipt == [work[Job].receipt EXCEPT !.mixed = Job \in mixed]

(* The replay is stored; the agent starts detached, before the search.     *)
JobReplayed ==
    /\ desk.job = "replay"
    /\ work[Job].stage = "closed" /\ fork[Job].pc = "none"
    /\ work' = [work EXCEPT ![Job] = NoWork(Job)]
    /\ IF work[Job].outcome = "ok"
       THEN /\ desk' = [desk EXCEPT !.job = "strategies", !.receipt = JobReceipt]
            /\ agent' = IF setting.agent THEN [agent EXCEPT !.pc = "ask"] ELSE agent
       ELSE /\ desk' = [desk EXCEPT !.job = "failed"]
            /\ UNCHANGED agent
    /\ UNCHANGED <<forkVars, node, mixed, setting, left>>

JobCompares ==
    /\ desk.job = "strategies"
    /\ Open(Job, "compare", 0, <<>>)
    /\ desk' = [desk EXCEPT !.job = "searching"]
    /\ UNCHANGED agent

(* The results stay in work[Job] for the recommendation event.             *)
JobEnds ==
    /\ desk.job = "searching"
    /\ work[Job].stage = "closed" /\ fork[Job].pc = "none"
    /\ desk' = [desk EXCEPT !.job = IF work[Job].outcome = "ok" THEN "completed" ELSE "failed"]
    /\ UNCHANGED agentVars

-----------------------------------------------------------------------------
(***************************************************************************)
(* The API prepares an attempt: a plan from reads at the safe block, and   *)
(* its dry run on a fork of that block.                                    *)
(***************************************************************************)
ApiPlan(missing) ==
    LivePlan(Pinned, Static, setting.policy[Api], setting.prepare.strategy,
             setting.prepare.amount, missing)

(* No feasible market, no exposure any more, or a call off the list.       *)
PlanRefused(missing) ==
    \/ Feasible(Pinned, Static, setting.policy[Api], setting.prepare.strategy, missing) = {}
    \/ ~Exposed(Pinned, Static, missing)
    \/ ~Allowlisted(ApiPlan(missing))

Prepare ==
    /\ setting.prepare # NoPlan /\ desk.api = "waiting"
    /\ \E missing \in AnyUnread :
        /\ IF missing = AllRead THEN UNCHANGED left ELSE Spend1("glitch")
        /\ desk' = IF PlanRefused(missing) THEN [desk EXCEPT !.api = "error"]
                   ELSE [desk EXCEPT !.api = "planned", !.plan = ApiPlan(missing).calls]
    /\ UNCHANGED <<forkVars, node, work, mixed, setting, agent>>

ApiDryRun ==
    /\ desk.api = "planned"
    /\ Open(Api, "dryrun", 1, desk.plan)
    /\ desk' = [desk EXCEPT !.api = "running"]
    /\ UNCHANGED agent

ApiReturns ==
    /\ desk.api = "running"
    /\ work[Api].stage = "closed" /\ fork[Api].pc = "none"
    /\ desk' = [desk EXCEPT !.api = work[Api].outcome]
    /\ work' = [work EXCEPT ![Api] = NoWork(Api)]
    /\ UNCHANGED <<forkVars, node, mixed, setting, left, agent>>

(* The range of ports is exhausted when the job or the API wants a fork.   *)
WantsFork(s) ==
    \/ s = Job /\ setting.job /\ sim # "exited" /\ desk.job \in {"waiting", "strategies"}
    \/ s = Api /\ desk.api = "planned"

FindsNoPort(s) ==
    /\ WantsFork(s) /\ NoPortLeft(s)
    /\ desk' = IF s = Job THEN [desk EXCEPT !.job = "failed"] ELSE [desk EXCEPT !.api = "error"]
    /\ UNCHANGED <<workVars, agent>>

-----------------------------------------------------------------------------
(***************************************************************************)
(* The forks under all of them, and the shutdown.                          *)
(***************************************************************************)
Quiet == UNCHANGED <<agent, desk>>
Still == UNCHANGED <<node, work, mixed, setting, left>>

ForkSteps(s) ==
    /\ \/ (Check(s) \/ Healthy(s) \/ Unhealthy(s) \/ Stopped(s)) /\ Still
       \/ OpenFails(s)
       \/ Working(s)
    /\ Quiet

ChildSteps(c) ==
    /\ \/ BindFresh(c)
       \/ (Exit(c) \/ SweepKills(c)) /\ Still
    /\ Quiet

ChildCrashes(c) ==
    /\ Crash(c) /\ Spend1("crash")
    /\ UNCHANGED <<node, work, mixed, setting>> /\ Quiet

SignalReceived ==
    /\ Terminate /\ Spend1("stop")
    /\ UNCHANGED <<node, work, mixed, setting>> /\ Quiet

(* worker.close waits for the job; the detached agent is not waited for.   *)
Shutdown ==
    /\ \/ Sweep /\ desk.job \in {"waiting", "completed", "failed"}
       \/ ExitProcess
    /\ Still /\ Quiet

SimulatorSteps ==
    /\ Running
    /\ \/ JobStarts \/ JobReplayed \/ JobCompares \/ JobEnds
       \/ AgentNext /\ UNCHANGED desk

(* What the processes of this repository do, and what their children do.   *)
ProcessSteps ==
    \/ \E s \in Sessions : ForkSteps(s)
    \/ SimulatorSteps \/ Shutdown
    \/ Prepare \/ ApiDryRun \/ ApiReturns
    \/ \E s \in {Job, Api} : FindsNoPort(s)
OffspringSteps == \E c \in Children : ChildSteps(c)

Next ==
    \/ ProcessSteps \/ OffspringSteps
    \/ \E c \in Children : ChildCrashes(c)
    \/ SignalReceived

Spec == Init /\ [][Next]_vars

(* Some process runs when one is able to, and the operating system starts  *)
(* and ends the children, a hung one by SIGKILL.  Nothing is assumed of    *)
(* which process is served first.                                          *)
FairSpec == Spec /\ WF_vars(ProcessSteps) /\ WF_vars(OffspringSteps)

-----------------------------------------------------------------------------
(***************************************************************************)
(* Properties.                                                             *)
(***************************************************************************)
WorkTypeOK ==
    \A s \in Sessions :
        /\ work[s].search \in Searches
        /\ work[s].outcome \in {"none", "ok", "error", "rejected"}
        /\ work[s].policy \in RiskPolicySet
        /\ \/ work[s].policy.minBuffer = setting.policy[s].minBuffer
           \/ work[s].policy.minBuffer \in 1..(MaxBufferBps + 1)
        /\ \A t \in Strategies : work[s].results[t].status \in Statuses

(* The shape of every variable.                                            *)
RescueTypeOK ==
    /\ ForksTypeOK /\ WorkTypeOK
    /\ \A c \in Children : /\ node[c].holdings \in Holdings
                            /\ Len(node[c].snapshots) <= Cardinality(Sessions)
    /\ mixed \subseteq Sessions
    /\ agent.pc \in {"off", "ask", "call", "wait", "ended"}
    /\ agent.status \in {"NONE", "COMPLETED", "FAILED"}
    /\ agent.step \in 0..MaxSteps /\ agent.rejected \in 0..MaxInvalid

(* What the wallet holds once `amount` was moved, and once the change was  *)
(* executed too, computed without the plan's calls.                        *)
Moved(strategy, m, amount) ==
    [Pinned EXCEPT
        !.balance[m] = @ - amount,
        !.borrowed[m] = IF strategy = "REPAY_DEBT" THEN @ - amount ELSE @,
        !.supplied[m] = IF strategy = "REPAY_DEBT" THEN @ ELSE @ + amount,
        !.entered[m] = (strategy = "ADD_COLLATERAL") \/ @]

Rescued(strategy, m, amount) == ApplyChange(Moved(strategy, m, amount), Static)

Rescues(strategy, amount, policy, missing) ==
    PolicyPasses(ReadRisk(Rescued(strategy, Best(Pinned, Static, policy, strategy, missing),
                                  amount), Static, AllRead), policy)

(* A comparison that somebody may use: of the job or in the agent's cache. *)
Comparisons ==
    {[results |-> work[s].results, policy |-> work[s].policy, missing |-> work[s].missing,
      mixed |-> s \in mixed, glitched |-> work[s].glitched, budget |-> MaxProbes[s]] :
        s \in Sessions}
    \cup
    {[results |-> agent.comparison.results, policy |-> agent.comparison.policy,
      missing |-> AllRead, mixed |-> agent.comparison.mixed,
      glitched |-> agent.comparison.glitched, budget |-> MaxProbes[Agent]]}

(* Whatever calls were lost and whatever markets were not read, an amount  *)
(* reported as verified on a fork nobody else worked on lies within the    *)
(* feasible bound and leaves the wallet without shortfall after the change *)
(* (search.ts:200-240, execute.ts:105-171).                                *)
VerifiedIsSolvent ==
    \A x \in Comparisons, t \in Strategies :
        LET r == x.results[t]
        IN  r.status = "VERIFIED" /\ ~x.mixed =>
                /\ r.planned /\ r.amount \in 1..r.bound
                /\ \E m \in Feasible(Pinned, Static, x.policy, t, AllRead) :
                      RawRisk(Rescued(t, m, r.amount), Static).status
                          \notin {"SHORTFALL", "UNKNOWN"}

(* When no call was lost either, it is the least amount that satisfies the *)
(* policy, unless the policy asks for the greatest                         *)
(* (docs/PRD.md:213, strategy-engine/search.ts:14-42).                     *)
VerifiedIsLeast ==
    \A x \in Comparisons, t \in Strategies :
        LET r == x.results[t]
        IN  r.status = "VERIFIED" /\ ~x.mixed /\ ~x.glitched =>
                /\ Rescues(t, r.amount, x.policy, AllRead)
                /\ \/ x.policy.goal = "MAX_SAFETY" /\ r.amount = r.bound
                   \/ \A a \in 1..(r.amount - 1) : ~Rescues(t, a, x.policy, AllRead)

(* The other verdicts are true too: no rescue is needed, none exists       *)
(* within the bound, or the budget was too small for the bound             *)
(* (search.ts:167-195, 318-350).                                           *)
OtherVerdictsAreTrue ==
    \A x \in Comparisons, t \in Strategies :
        LET r == x.results[t]
        IN  ~x.mixed /\ ~x.glitched =>
                /\ r.status = "NOT_REQUIRED" =>
                      PolicyPasses(ReadRisk(ApplyChange(Pinned, Static), Static, AllRead), x.policy)
                /\ r.status = "INFEASIBLE" =>
                      IF Feasible(Pinned, Static, x.policy, t, AllRead) = {} THEN r.bound = 0
                      ELSE x.policy.goal # "MAX_SAFETY" =>
                              \A a \in 1..r.bound : ~Rescues(t, a, x.policy, AllRead)
                /\ r.status = "INCOMPLETE" => ~r.planned /\ r.bound >= 2 ^ x.budget
                /\ r.status # "REJECTED"

(* No branch sees what another has done: each starts from the pinned block *)
(* with no snapshot left on the fork, also after a call that failed.  What *)
(* its calls then do is what the plan promises: the amount is moved and no *)
(* approval is left beyond those the wallet had given; and a call that was *)
(* not lost succeeds, of the API's live plan as well                       *)
(* (docs/TECHNICAL_SPECIFICATION.md:463, search.ts:104-145, plans.ts:34,   *)
(* live-plan.ts:113-152).                                                  *)
BranchesRunAsPlanned ==
    \A s \in Sessions, c \in Children :
        /\ fork[s].child = c /\ fork[s].pc = "ready" /\ Answers(s, c)
        /\ s \notin mixed
        => LET w    == work[s]
               have == node[c].holdings
               m    == Target(s)
           IN  /\ w.stage = "snapshot" =>
                      node[c] = [holdings |-> Pinned, snapshots |-> <<>>]
               /\ w.stage = "change" /\ w.purpose = "branch" =>
                      have = [Moved(w.strategy, m, Amount(s)) EXCEPT !.allowance = have.allowance]
               /\ w.stage = "judge" /\ w.ok =>
                      \A n \in Markets : have.allowance[n] <= Pinned.allowance[n]
               /\ w.outcome = "rejected" \/ (w.stage = "judge" /\ ~w.ok) => w.glitched

(* Two receipts prove the same.  A receipt whose replay did not read every *)
(* market may lack the exposure, and nothing else.                         *)
SameProof(r1, r2) ==
    /\ [r1.body EXCEPT !.exposed = FALSE] = [r2.body EXCEPT !.exposed = FALSE]
    /\ r1.complete => (r2.body.exposed => r1.body.exposed)
    /\ r2.complete => (r1.body.exposed => r2.body.exposed)

(* A job's receipt and its strategies, measured on two forks, tell one     *)
(* story.  A rescue is not required only if the replay left no shortfall.  *)
(* When the policy asks for no buffer, a replay that passed is never said  *)
(* to need a rescue, and one that improved the wallet needs one only if    *)
(* the wallet was short before.  A second replay of the wallet reproduces  *)
(* the first in all that the hash covers, the exposure too; only a market  *)
(* that one of the two did not read may change that, and then nothing but  *)
(* the exposure differs: it was missed, never made up                      *)
(* (receipt.ts:92-154, replay.ts:54-97, search.ts:172-195).                *)
ReceiptsAgree ==
    /\ desk.receipt.known =>
          \A t \in Strategies :
            LET r      == work[Job].results[t]
                body   == desk.receipt.body
                buffer == work[Job].policy.minBuffer
            IN  ~desk.receipt.mixed /\ Job \notin mixed /\ ~work[Job].glitched =>
                    /\ r.status = "NOT_REQUIRED" =>
                          body.after.status \notin {"SHORTFALL", "UNKNOWN"}
                    /\ r.status = "VERIFIED" /\ body.material.classification = "IMPROVED" =>
                          body.before.status = "SHORTFALL" \/ buffer > 0
                    /\ body.passed /\ buffer = 0 /\ r.status # "NONE" =>
                          r.status = "NOT_REQUIRED" \/ r.bound = 0
    /\ desk.receipt.known /\ agent.impact.known =>
          \/ desk.receipt.mixed \/ agent.impact.mixed
          \/ SameProof(desk.receipt, agent.impact)

(* The agent says a strategy is verified only when the comparison it keeps *)
(* verified it, whatever was cached, refused or failed in between.  It     *)
(* opens one fork for each of the two kinds of evidence, and another only  *)
(* for a call it had to refuse (loop.ts:135-187, 239-269,                  *)
(* session.ts:168-181, 231-257).                                           *)
AgentTellsWhatItVerified ==
    /\ \A x \in agent.told :
        /\ agent.comparison.known
        /\ agent.comparison.results[x[1]].status = "VERIFIED"
        /\ agent.comparison.results[x[1]].amount = x[2]
    /\ agent.forks <= 2 + agent.rejected

(* The job, the agent and the dry run come to an end, and so does a        *)
(* shutdown: nobody waits for a fork that never answers.  Every fork that  *)
(* was opened is then closed, whatever went wrong on the way, and every    *)
(* Anvil ends; only the fork that an agent was opening when the simulator  *)
(* shut down is left (process-impact.ts:76-240, pinned-fork.ts:61-100,     *)
(* main.ts:62-71).                                                         *)
EverythingEnds ==
    <>[]( /\ setting.job /\ sim = "up" =>
                desk.job \in {"completed", "failed"} /\ agent.pc \in {"off", "ended"}
          /\ sim = "exited" => desk.job \in {"waiting", "completed", "failed"}
          /\ sim \in {"up", "exited"}
          /\ setting.prepare # NoPlan => desk.api \in {"ok", "error", "rejected"}
          /\ \A s \in Sessions : fork[s].pc \in {"none", "gone"}
          /\ \A c \in Children :
                Alive(c) => \E s \in SimSessions : fork[s].pc = "gone" /\ fork[s].child = c
          /\ sim = "up" => live = {} )

(* The processes only ever use the forks the way anvil.ts offers.          *)
UsesForksAsOffered == ForkSpec
=============================================================================
