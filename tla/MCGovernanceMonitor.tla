------------------------ MODULE MCGovernanceMonitor ------------------------
(* Instances of GovernanceMonitor for TLC. *)
EXTENDS GovernanceMonitor

Message(to, readable, calls) == [to |-> to, readable |-> readable, calls |-> calls]

(* The first proposal sets a factor on Base; the others call something     *)
(* else there, and set factors where nobody looks.                         *)
MCCallsOf ==
    [p \in Proposals |->
        IF p = 1 THEN {Message("base", TRUE, {"factor", "call"}), Message("nobody", FALSE, {})}
        ELSE {Message("base", TRUE, {"call"}), Message("base", FALSE, {"factor"}),
              Message("elsewhere", TRUE, {"factor"})}]

NoBudget == [kind \in EventKinds |-> 0]
(* Scenarios: each is explored in full, from every initial state. *)
GovernanceBudget == [NoBudget EXCEPT !["governance"] = 3]
QuietBudget == [NoBudget EXCEPT !["governance"] = 1, !["wallet"] = 1, !["post"] = 1,
                                !["end"] = 1]
OverlapBudget == [NoBudget EXCEPT !["governance"] = 1, !["overlap"] = 1]
FailureBudget == [NoBudget EXCEPT !["governance"] = 1, !["failure"] = 1, !["post"] = 1]
CrashBudget == [NoBudget EXCEPT !["governance"] = 1, !["crash"] = 1, !["rpcError"] = 1]
BlockBudget == [NoBudget EXCEPT !["block"] = 1, !["overlap"] = 1]
ReorgBudget == [NoBudget EXCEPT !["reorg"] = 1, !["post"] = 1]

MonitorBudgets == {GovernanceBudget, QuietBudget, OverlapBudget, FailureBudget,
                   CrashBudget, BlockBudget, ReorgBudget}
ReorgBudgets == {ReorgBudget}
FailureBudgets == {FailureBudget}
=============================================================================
