---------------------------- MODULE MCRescueDesk ----------------------------
(***************************************************************************)
(* Wallets, policies and fault budgets for RescueDesk.  Market 1 lends,    *)
(* market 2 is the collateral whose factor the proposal sets.              *)
(***************************************************************************)
EXTENDS RescueDesk

CONSTANTS job, ag, api

MCMaxProbes == (job :> 2) @@ (ag :> 3) @@ (api :> 1)

Prices == [price |-> <<1, 1>>, listed |-> <<TRUE, TRUE>>, mintPaused |-> <<FALSE, FALSE>>,
           cap |-> <<0, 0>>, total |-> <<0, 0>>, changed |-> 2, newFactor |-> 5]
Paused == [Prices EXCEPT !.mintPaused = <<TRUE, TRUE>>]
Capped == [Prices EXCEPT !.cap = <<0, 12>>]

(* Short by one once the factor is five tenths; can repay or add.          *)
Short == [supplied |-> <<0, 10>>, borrowed |-> <<6, 0>>, entered |-> <<FALSE, TRUE>>,
          balance |-> <<3, 2>>, allowance |-> <<1, 0>>, factor |-> <<8, 8>>]
Rich == [Short EXCEPT !.balance = <<5, 6>>]
Poor == [Short EXCEPT !.borrowed = <<7, 0>>, !.balance = <<1, 0>>]
Safe == [Short EXCEPT !.borrowed = <<4, 0>>]
Tight == [Safe EXCEPT !.balance = <<1, 0>>]
Debtless == [Short EXCEPT !.borrowed = <<0, 0>>, !.balance = <<0, 1>>]
Empty == [Debtless EXCEPT !.balance = <<0, 0>>]
(* Two debts; the collateral is supplied but not entered.                  *)
Idle2 == [Short EXCEPT !.borrowed = <<2, 1>>, !.entered = <<FALSE, FALSE>>,
                       !.supplied = <<0, 6>>, !.balance = <<1, 3>>]

NoBuffer == DefaultPolicy(NoAmount, NoAmount)
Buffered == DefaultPolicy(NoAmount, 2000)
Safest == [Buffered EXCEPT !.goal = "MAX_SAFETY"]
Strict == [Buffered EXCEPT !.allowRepay = FALSE, !.maxCollateral = <<{}, {1}>>]

NoFault ==
    [glitch |-> 0, crash |-> 0, slow |-> 0, model |-> 0, deadline |-> 0, trace |-> 0, stop |-> 0]

Setting(holdings, static, policy, replies, prepare, faults) ==
    [holdings |-> holdings, static |-> static, job |-> TRUE,
     policy |-> (job :> policy) @@ (ag :> NoBuffer) @@ (api :> NoBuffer),
     env |-> policy, agent |-> replies # {}, replies |-> replies, prepare |-> prepare,
     left |-> faults]

RepayTwo == [strategy |-> "REPAY_DEBT", amount |-> 2]
AddMost == [strategy |-> "ADD_COLLATERAL", amount |-> NoAmount]

(* Every wallet and policy, one lost call or unread market.                *)
SearchSettings ==
    {Setting(h, Prices, p, {}, NoPlan, [NoFault EXCEPT !.glitch = 1]) :
        h \in {Short, Rich, Poor, Safe, Debtless, Idle2},
        p \in {NoBuffer, Buffered, Safest, Strict}}
    \cup {Setting(Rich, Capped, Buffered, {}, NoPlan, NoFault)}

(* The agent beside the job; the API beside the job.                       *)
Repays == {<<"optimize_repayment">>}
Studies == {<<"run_impact_simulation", "compare_verified_strategies">>}
Simulates == {<<"run_impact_simulation">>}
Wanders == {<<"forbidden", "read">>, <<"get_verified_strategies">>}
CrowdSettings ==
    {Setting(Tight, Paused, NoBuffer, Repays, NoPlan, NoFault),
     Setting(Empty, Prices, NoBuffer, Studies, NoPlan, [NoFault EXCEPT !.trace = 1]),
     Setting(Empty, Prices, NoBuffer, Simulates, NoPlan, [NoFault EXCEPT !.glitch = 1]),
     Setting(Debtless, Prices, NoBuffer, Repays, NoPlan, [NoFault EXCEPT !.stop = 1]),
     Setting(Empty, Prices, NoBuffer, Simulates, NoPlan, [NoFault EXCEPT !.slow = 1]),
     Setting(Empty, Prices, NoBuffer, Wanders, NoPlan,
             [NoFault EXCEPT !.model = 1, !.deadline = 1, !.trace = 1, !.glitch = 1]),
     Setting(Debtless, Prices, NoBuffer, {}, AddMost, [NoFault EXCEPT !.crash = 1]),
     Setting(Safe, Prices, NoBuffer, {}, RepayTwo, [NoFault EXCEPT !.slow = 1])}

(* The API alone, one lost call or unread market.                          *)
PrepareSettings ==
    {[Setting(h, t, NoBuffer, {}, p, [NoFault EXCEPT !.glitch = 1]) EXCEPT !.job = FALSE] :
        h \in {Short, Rich, Debtless, Idle2}, t \in {Prices, Capped}, p \in {RepayTwo, AddMost}}

MCSettings == SearchSettings \cup CrowdSettings \cup PrepareSettings
=============================================================================
