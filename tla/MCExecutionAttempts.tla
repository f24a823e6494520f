------------------------ MODULE MCExecutionAttempts ------------------------
(* Instances of ExecutionAttempts for TLC. *)
EXTENDS ExecutionAttempts

NoBudget == [kind \in AttemptEvents |-> 0]
OnePlan == [NoBudget EXCEPT !["prepare"] = 1, !["sign"] = 3]

(* The user has a session.                                                 *)
SignedIn(budget) ==
    [budget |-> budget, database |-> TRUE, configured |-> TRUE, signedIn |-> TRUE]

OverlapBudget == [OnePlan EXCEPT !["giveUp"] = 1, !["drift"] = 1]
EditBudget == [OnePlan EXCEPT !["sign"] = 2, !["edit"] = 1, !["drift"] = 1]
TimeoutBudget == [OnePlan EXCEPT !["timeout"] = 1, !["expiry"] = 1]
RestartBudget == [OnePlan EXCEPT !["restart"] = 1, !["refusal"] = 1]
SecondPlanBudget == [NoBudget EXCEPT !["prepare"] = 2, !["sign"] = 3, !["change"] = 1]
PolicyBudget == [NoBudget EXCEPT !["prepare"] = 1, !["put"] = 3, !["putFails"] = 1]
BufferBudget == [NoBudget EXCEPT !["prepare"] = 1, !["sign"] = 2, !["put"] = 1,
                                 !["proof"] = 2]
ExpiryBudget == [NoBudget EXCEPT !["prepare"] = 1, !["sign"] = 2, !["tick"] = 3,
                                 !["logout"] = 1]
SwitchBudget == [NoBudget EXCEPT !["prepare"] = 1, !["sign"] = 1, !["switch"] = 2,
                                 !["prove"] = 1, !["tick"] = 1]

(* The user has to sign in first.                                          *)
ResendBudget == [NoBudget EXCEPT !["prove"] = 1, !["switch"] = 1, !["tick"] = 2,
                                 !["resend"] = 2]
ProveBudget == [NoBudget EXCEPT !["prove"] = 2, !["tick"] = 3, !["proveFails"] = 1,
                                !["reload"] = 1]
EarnBudget == [NoBudget EXCEPT !["prove"] = 1, !["switch"] = 1, !["toggle"] = 1, !["put"] = 1,
                               !["prepare"] = 1, !["restart"] = 1, !["reload"] = 1]

AttemptScenarios ==
    {SignedIn(b) : b \in {OverlapBudget, EditBudget, TimeoutBudget, RestartBudget, SecondPlanBudget,
                          PolicyBudget, BufferBudget, ExpiryBudget, SwitchBudget}}
    \cup [budget : {ResendBudget, ProveBudget}, database : BOOLEAN, configured : {TRUE},
          signedIn : {FALSE}]
    \cup [budget : {EarnBudget}, database : {TRUE}, configured : BOOLEAN, signedIn : {FALSE}]
=============================================================================
