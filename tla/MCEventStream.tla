--------------------------- MODULE MCEventStream ---------------------------
(* Instances of EventStream for TLC. *)
EXTENDS EventStream

NoBudget == [kind \in StreamEventKinds |-> 0]
(* Scenarios: each is explored in full. *)
OverlapBudget == [NoBudget EXCEPT !["overlap"] = 1]
TraceBudget == [NoBudget EXCEPT !["trace"] = 1]
DropBudget == [NoBudget EXCEPT !["drop"] = 1, !["fetchError"] = 1]
MarkBudget == [NoBudget EXCEPT !["mark"] = 1, !["refused"] = 1]
ReviveBudget == [NoBudget EXCEPT !["requeue"] = 1]
ErrorBudget == [NoBudget EXCEPT !["pollError"] = 1]

StreamBudgets == {OverlapBudget, TraceBudget, DropBudget, MarkBudget, ReviveBudget,
                  ErrorBudget}
=============================================================================
