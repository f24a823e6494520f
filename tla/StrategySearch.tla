--------------------------- MODULE StrategySearch ---------------------------
(***************************************************************************)
(* The work of a session on its fork: the comparison of the two rescue     *)
(* strategies, the replay of the change, or the dry run of a plan.  Every  *)
(* read, call, snapshot and revert goes to whichever Anvil answers on the  *)
(* session's port.                                                         *)
(***************************************************************************)
EXTENDS AnvilForks, RescuePlans

CONSTANTS
    MaxProbes,      \* each session's budget of tested amounts
    RaisesBuffer    \* the sessions that raise the buffer to force a search

ASSUME SearchAssumption == MaxProbes \in [Sessions -> Nat \ {0}]

VARIABLES
    node,       \* what each Anvil holds: the wallet's holdings and its snapshots
    work,       \* each session: its task, the stage of it, and what it found
    mixed,      \* the sessions whose fork another session has worked on, or
                \* that have worked on another's fork
    setting,    \* the wallet and the markets at the pinned block, the policy
                \* of each session
    left        \* how often each fault may still happen

workVars == <<node, work, mixed, setting, left>>
searchVars == <<forkVars, workVars>>

Pinned == setting.holdings
Static == setting.static

Purposes == {"measure", "confirm", "branch"}
NoResult == [status |-> "NONE", amount |-> NoAmount, bound |-> 0, planned |-> FALSE]
Statuses == {"NONE", "VERIFIED", "REJECTED", "INFEASIBLE", "NOT_REQUIRED", "INCOMPLETE"}

NoReceipt == [known |-> FALSE]

NoWork(s) ==
    [task |-> "none", stage |-> "idle", purpose |-> "measure", outcome |-> "none",
     policy |-> setting.policy[s], missing |-> AllRead, strategy |-> "REPAY_DEBT",
     search |-> StartSearch(1, 0, 0), verified |-> {}, snapshot |-> 0,
     calls |-> <<>>, ok |-> TRUE, glitched |-> FALSE, receipt |-> NoReceipt,
     results |-> [t \in Strategies |-> NoResult]]

WorkInit ==
    /\ node = [c \in Children |-> [holdings |-> Pinned, snapshots |-> <<>>]]
    /\ work = [s \in Sessions |-> NoWork(s)]
    /\ mixed = {}

Spend1(fault) == left[fault] > 0 /\ left' = [left EXCEPT ![fault] = @ - 1]

-----------------------------------------------------------------------------
(***************************************************************************)
(* Opening and closing.                                                    *)
(***************************************************************************)
Open(s, task, pin, calls) ==
    /\ work[s].stage = "idle"
    /\ Spawn(s, pin)
    /\ work' = [work EXCEPT ![s] =
          [NoWork(s) EXCEPT !.task = task, !.stage = "open", !.calls = calls]]
    /\ mixed' = mixed \ {s}
    /\ UNCHANGED <<node, setting, left>>

(* A child that binds its port starts from the pinned block.               *)
BindFresh(c) ==
    /\ Bind(c)
    /\ node' = [node EXCEPT ![c] = [holdings |-> Pinned, snapshots |-> <<>>]]
    /\ UNCHANGED <<work, mixed, setting, left>>

Finished(s, outcome) ==
    work' = [work EXCEPT ![s].stage = "closed", ![s].outcome = outcome]

OpenFails(s) ==
    /\ StartFails(s)
    /\ Finished(s, "error")
    /\ IF Alive(fork[s].child) THEN Spend1("slow") ELSE UNCHANGED left
    /\ UNCHANGED <<node, mixed, setting>>

(* Some market's call may fail in each multicall.                          *)
Unread == IF left.glitch > 0 THEN {{}} \cup {{m} : m \in Markets} ELSE {{}}
PositionsUnread == [positions: Unread, listing: {{}}]
AnyUnread == [positions: Unread, listing: Unread]

(* A replay reads the positions, a comparison the listing as well.         *)
Begin(s) ==
    /\ fork[s].pc = "ready" /\ work[s].stage = "open"
    /\ \E c \in Children : Answers(s, c)
    /\ \E missing \in CASE work[s].task = "compare" -> AnyUnread
                         [] work[s].task = "replay"  -> PositionsUnread
                         [] work[s].task = "dryrun"  -> {AllRead} :
        /\ work' = [work EXCEPT ![s] =
              [@ EXCEPT !.missing = missing, !.glitched = missing # AllRead,
                        !.stage = CASE work[s].task = "compare" -> "snapshot"
                                    [] work[s].task = "replay"  -> "change"
                                    [] work[s].task = "dryrun"  -> "calls"]]
        /\ IF missing = AllRead THEN UNCHANGED left ELSE Spend1("glitch")
    /\ UNCHANGED <<forkVars, node, mixed, setting>>

\* Mutant of Close: the session forgets its fork.
CloseForgetting(s) ==
    /\ work[s].stage = "close"
    /\ fork' = [fork EXCEPT ![s] = NoFork]
    /\ work' = [work EXCEPT ![s].stage = "closed"]
    /\ UNCHANGED <<anvil, live, sim, sweep, node, mixed, setting, left>>

Close(s) ==
    /\ work[s].stage = "close"
    /\ Stop(s)
    /\ work' = [work EXCEPT ![s].stage = "closed"]
    /\ UNCHANGED <<node, mixed, setting, left>>

-----------------------------------------------------------------------------
(***************************************************************************)
(* Steps on the fork.                                                      *)
(***************************************************************************)
At(s, stage) == fork[s].pc = "ready" /\ work[s].stage = stage

(* A step of s on the Anvil c that answers; s and the owner of c are mixed *)
(* when c is not the child of s.                                           *)
StepOn(s, c) ==
    /\ Answers(s, c)
    /\ mixed' = IF c = fork[s].child THEN mixed
                ELSE mixed \cup {s} \cup {t \in Sessions : fork[t].child = c}
    /\ UNCHANGED <<forkVars, setting>>

(* A call may fail on the way, before the chain took it or after, with the *)
(* receipt: it is recorded as a call that failed.                          *)
MayFail(s, failed, w) ==
    /\ work' = [work EXCEPT ![s] = IF failed THEN [w EXCEPT !.glitched = TRUE] ELSE w]
    /\ IF failed THEN Spend1("glitch") ELSE UNCHANGED left

Target(s) == Best(Pinned, Static, work[s].policy, work[s].strategy, work[s].missing)
TargetBound(s) == BoundOf(Pinned, Static, work[s].policy, work[s].strategy, Target(s))

(* MAX_SAFETY tests the bound only.                                        *)
TestsBoundOnly(s) == work[s].policy.goal = "MAX_SAFETY"
Amount(s) == IF TestsBoundOnly(s) THEN TargetBound(s) ELSE Mid(work[s].search)

BranchPlan(s) ==
    BuildPlan(Pinned, work[s].strategy, Target(s),
              EnabledIn(Pinned, Static, work[s].missing, Target(s)), Amount(s))

TakeSnapshot(s) ==
    /\ At(s, "snapshot")
    /\ \E c \in Children :
        /\ StepOn(s, c)
        /\ node' = [node EXCEPT ![c].snapshots = Append(@, node[c].holdings)]
        /\ work' = [work EXCEPT ![s] =
              [@ EXCEPT !.snapshot = Len(node[c].snapshots) + 1, !.ok = TRUE,
                        !.calls = IF work[s].purpose = "branch" THEN BranchPlan(s) ELSE <<>>,
                        !.stage = IF work[s].purpose = "branch" THEN "calls" ELSE "change"]]
    /\ UNCHANGED left

(* executePlanCalls, one call: the preview, then the transaction.          *)
PlanCall(s) ==
    LET call == Head(work[s].calls)
        rest == Tail(work[s].calls)
        dry  == work[s].task = "dryrun"
    IN  /\ At(s, "calls")
        /\ \E c \in Children, lost \in BOOLEAN :
            LET fits == PreviewOk(node[c].holdings, Static, call)
                done == fits /\ ~lost
            IN  /\ StepOn(s, c)
                /\ \/ fits /\ node' = [node EXCEPT ![c].holdings = Execute(@, call)]
                   \/ ~done /\ node' = node
                /\ MayFail(s, lost,
                     IF done
                     THEN [work[s] EXCEPT !.calls = rest,
                             !.stage = IF rest # <<>> THEN "calls"
                                       ELSE IF dry THEN "close" ELSE "change",
                             !.outcome = IF rest = <<>> /\ dry THEN "ok" ELSE @]
                     ELSE [work[s] EXCEPT !.ok = FALSE,
                             !.stage = IF dry THEN "close" ELSE "judge",
                             !.outcome = IF dry THEN "rejected" ELSE @])

\* Mutant of ReplayChange: a replay does not look at the outcome either.
ReplayChangeUnchecked(s) ==
    /\ At(s, "change")
    /\ \E c \in Children, lost \in BOOLEAN :
        /\ StepOn(s, c)
        /\ \/ node' = [node EXCEPT ![c].holdings = ApplyChange(@, Static)]
           \/ lost /\ node' = node
        /\ MayFail(s, lost, [work[s] EXCEPT !.ok = ~lost, !.stage = "judge"])

(* applyDestinationCall; the replay throws when the call fails.            *)
ReplayChange(s) ==
    /\ At(s, "change")
    /\ \E c \in Children, lost \in BOOLEAN :
        /\ StepOn(s, c)
        /\ \/ node' = [node EXCEPT ![c].holdings = ApplyChange(@, Static)]
           \/ lost /\ node' = node
        /\ MayFail(s, lost,
             [work[s] EXCEPT
                !.ok = ~lost,
                !.stage = IF lost /\ work[s].task = "replay" THEN "close" ELSE "judge",
                !.outcome = IF lost /\ work[s].task = "replay" THEN "error" ELSE @])

-----------------------------------------------------------------------------
(***************************************************************************)
(* What a comparison concludes from a branch.                              *)
(***************************************************************************)
Settle(w, result) ==
    IF w.strategy = "REPAY_DEBT"
    THEN [w EXCEPT !.results["REPAY_DEBT"] = result,
                   !.strategy = "ADD_COLLATERAL", !.stage = "assess"]
    ELSE [w EXCEPT !.results["ADD_COLLATERAL"] = result,
                   !.stage = "close", !.outcome = "ok"]

Result(status, amount, bound) ==
    [status |-> status, amount |-> amount, bound |-> bound,
     planned |-> status = "VERIFIED"]

\* Mutant of FinalizeResult: a spent budget counts as a finished search.
FinalizeResultAnyway(w, amount, complete, bound) ==
    IF amount = NoAmount THEN Result("INFEASIBLE", NoAmount, bound)
    ELSE Result(IF amount \in w.verified THEN "VERIFIED" ELSE "REJECTED", amount, bound)

FinalizeResult(w, amount, complete, bound) ==
    IF ~complete THEN Result("INCOMPLETE", amount, bound)
    ELSE IF amount = NoAmount THEN Result("INFEASIBLE", NoAmount, bound)
    ELSE Result(IF amount \in w.verified THEN "VERIFIED" ELSE "REJECTED", amount, bound)

Assess(s) ==
    LET w == work[s]
    IN  /\ At(s, "assess") /\ \E c \in Children : Answers(s, c)
        /\ work' = [work EXCEPT ![s] =
              IF Feasible(Pinned, Static, w.policy, w.strategy, w.missing) = {}
              THEN Settle(w, Result("INFEASIBLE", NoAmount, 0))
              ELSE [w EXCEPT !.stage = "snapshot", !.purpose = "confirm"]]
        /\ UNCHANGED <<forkVars, node, mixed, setting, left>>

AfterMeasure(s, w, passed, buffer) ==
    [w EXCEPT !.stage = "assess",
              !.policy = IF s \in RaisesBuffer /\ passed THEN RaisedPolicy(@, buffer) ELSE @]

AfterConfirm(s, w, passed) ==
    IF passed THEN Settle(w, Result("NOT_REQUIRED", 0, TargetBound(s)))
    ELSE [w EXCEPT !.stage = "snapshot", !.purpose = "branch", !.verified = {},
                   !.search = StartSearch(1, TargetBound(s), MaxProbes[s])]

AfterBranch(s, w, passed) ==
    LET amount   == Amount(s)
        verified == IF passed THEN w.verified \cup {amount} ELSE w.verified
        search   == Probe(w.search, passed)
        tested   == [w EXCEPT !.verified = verified, !.search = search]
    IN  IF TestsBoundOnly(s)
        THEN Settle(tested, FinalizeResult(tested, IF passed THEN amount ELSE NoAmount,
                                           TRUE, TargetBound(s)))
        ELSE IF Ended(search)
        THEN Settle(tested, FinalizeResult(tested, search.found, Complete(search),
                                           TargetBound(s)))
        ELSE [tested EXCEPT !.stage = "snapshot"]

(* evm_revert: the snapshot and the later ones are dropped; one that is no *)
(* longer there is refused, and the refusal is not looked at.              *)
Revert(n, id) ==
    IF id \in 1..Len(n.snapshots)
    THEN [holdings |-> n.snapshots[id], snapshots |-> SubSeq(n.snapshots, 1, id - 1)]
    ELSE n

\* Mutant of Reverted: it is forgotten.
NotReverted(s, c) == node

\* Mutant of Reverted: not in a finally, so a branch that failed is left.
RevertedWhenOk(s, c) ==
    IF work[s].ok THEN [node EXCEPT ![c] = Revert(@, work[s].snapshot)] ELSE node

(* The finally of a branch.                                                *)
Reverted(s, c) == [node EXCEPT ![c] = Revert(@, work[s].snapshot)]

(* verifyExecutedPlan: every call went through, and the policy is met.     *)
BranchPasses(w, risk) == w.ok /\ PolicyPasses(risk, w.policy)

(* The risk is read, the policy evaluated, and the fork reverted.          *)
Judge(s) ==
    /\ At(s, "judge") /\ work[s].task = "compare"
    /\ \E c \in Children, missing \in PositionsUnread :
        LET w      == work[s]
            risk   == ReadRisk(node[c].holdings, Static, missing)
            passed == BranchPasses(w, risk)
        IN  /\ StepOn(s, c)
            /\ node' = Reverted(s, c)
            /\ MayFail(s, missing # AllRead,
                 CASE w.purpose = "measure" -> AfterMeasure(s, w, passed, risk.buffer)
                   [] w.purpose = "confirm" -> AfterConfirm(s, w, passed)
                   [] w.purpose = "branch"  -> AfterBranch(s, w, passed))

(* The receipt of a replay: the risk at the pinned block, and the risk at  *)
(* the fork's latest, judged by the policy of the environment.             *)
Receipt(s) ==
    /\ At(s, "judge") /\ work[s].task = "replay"
    /\ \E c \in Children :
        /\ StepOn(s, c)
        /\ work' = [work EXCEPT ![s] =
              [@ EXCEPT !.stage = "close", !.outcome = "ok",
                 !.receipt = [known |-> TRUE, mixed |-> FALSE,
                    complete |-> work[s].missing = AllRead, body |->
                    ReceiptBody(RawRisk(Pinned, Static), RawRisk(node[c].holdings, Static),
                                Exposed(Pinned, Static, work[s].missing), setting.env)]]]
    /\ UNCHANGED <<node, left>>

\* Mutant of Throw: the session is not closed on an error.
ThrowUnclosed(s) ==
    /\ \E stage \in {"open", "snapshot", "calls", "change", "judge", "assess"} : At(s, stage)
    /\ Finished(s, "error")
    /\ \/ (\A c \in Children : ~Answers(s, c)) /\ UNCHANGED left
       \/ Spend1("glitch")
    /\ UNCHANGED <<forkVars, node, mixed, setting>>

(* Nobody answers any more, or a read fails: the error passes the finally  *)
(* that reverts the branch and reaches the one that closes the session.    *)
Throw(s) ==
    /\ \E stage \in {"open", "snapshot", "calls", "change", "judge", "assess"} : At(s, stage)
    /\ work' = [work EXCEPT ![s].stage = "close", ![s].outcome = "error"]
    /\ \/ /\ \A c \in Children : ~Answers(s, c)
          /\ UNCHANGED <<forkVars, node, mixed, setting, left>>
       \/ /\ \E c \in Children :
                /\ StepOn(s, c)
                /\ node' = IF work[s].stage \in {"calls", "change", "judge"}
                           THEN Reverted(s, c) ELSE node
          /\ Spend1("glitch")

Working(s) ==
    \/ Begin(s) \/ TakeSnapshot(s) \/ PlanCall(s) \/ ReplayChange(s)
    \/ Assess(s) \/ Judge(s) \/ Receipt(s) \/ Throw(s) \/ Close(s)
=============================================================================
