---------------------------- MODULE RescuePlans ----------------------------
(***************************************************************************)
(* What a wallet holds on Moonwell, what the Comptroller and the policy    *)
(* say of it, which strategies are feasible and the calls they plan.  The  *)
(* tokens, the mTokens and the Comptroller are external: their calls are   *)
(* modelled from what the plans expect of them.  Prices are whole units    *)
(* and a collateral factor is counted in tenths.                           *)
(***************************************************************************)
EXTENDS Integers, FiniteSetsExt, Sequences, AmountSearch

CONSTANTS
    Markets,        \* an interval of Nat: the order in which they are listed
    MaxBufferBps    \* the cap of the derived buffer

ASSUME MarketsAssumption ==
    IsFiniteSet(Markets) /\ Markets \subseteq Nat /\ MaxBufferBps \in Nat

Strategies == {"REPAY_DEBT", "ADD_COLLATERAL"}
Goals == {"MIN_CAPITAL", "MAX_SAFETY", "MIN_TX_COUNT"}

Holdings == [supplied: [Markets -> Nat], borrowed: [Markets -> Nat],
             entered: [Markets -> BOOLEAN], balance: [Markets -> Nat],
             allowance: [Markets -> Nat], factor: [Markets -> 0..10]]

Statics == [price: [Markets -> Nat], listed: [Markets -> BOOLEAN],
            mintPaused: [Markets -> BOOLEAN], cap: [Markets -> Nat], total: [Markets -> Nat],
            changed: Markets, newFactor: 0..10]

RiskPolicySet == [minBuffer: Nat, goal: Goals, allowRepay: BOOLEAN, allowAdd: BOOLEAN,
                  maxRepay: [Markets -> SUBSET Nat], maxCollateral: [Markets -> SUBSET Nat]]

(***************************************************************************)
(* Reads.  The positions of the wallet and the listing of the markets are  *)
(* read by multicalls of their own: `missing` is, for each of the two, the *)
(* markets one of whose calls failed, which the adapter leaves out.        *)
(***************************************************************************)
AllRead == [positions |-> {}, listing |-> {}]

ListMarkets(static, unread) == {m \in Markets \ unread : static.listed[m]}

Positions(w, static, missing) ==
    {m \in ListMarkets(static, missing.positions) : w.supplied[m] > 0 \/ w.borrowed[m] > 0}

Worth(static, m, amount) == IF static.price[m] > 0 THEN amount * static.price[m] ELSE 0

Debt(w, static, markets) ==
    SumFunctionOnSet([m \in Markets |-> Worth(static, m, w.borrowed[m])], markets)

(* The Comptroller: without a price it answers an error and no amounts;    *)
(* a negative liquidity is a shortfall.                                    *)
Unpriced(w, static) ==
    \E m \in Markets : (w.entered[m] \/ w.borrowed[m] > 0) /\ static.price[m] = 0

Collateral(w, static) ==
    SumFunctionOnSet([m \in Markets |-> (Worth(static, m, w.supplied[m]) * w.factor[m]) \div 10],
                     {m \in Markets : w.entered[m]})

Liquidity(w, static) ==
    IF Unpriced(w, static) THEN 0 ELSE Collateral(w, static) - Debt(w, static, Markets)

Classify(error, liquidity) ==
    IF error THEN "UNKNOWN"
    ELSE IF liquidity < 0 THEN "SHORTFALL"
    ELSE IF liquidity = 0 THEN "AT_RISK" ELSE "SAFE"

(* getRiskState knows neither the debt nor a buffer.                       *)
RawRisk(w, static) ==
    [status |-> Classify(Unpriced(w, static), Liquidity(w, static)),
     liquidity |-> Liquidity(w, static), debt |-> NoAmount, buffer |-> NoAmount]

SafetyBuffer(liquidity, debt) ==
    IF debt <= 0 THEN NoAmount
    ELSE IF liquidity <= 0 THEN 0 ELSE Min({(liquidity * 10000) \div debt, MaxBufferBps})

WithBuffer(risk, debt) ==
    [risk EXCEPT !.debt = debt, !.buffer = SafetyBuffer(risk.liquidity, debt)]

(* readEnrichedRisk: the debt is summed over the positions that were read. *)
ReadRisk(w, static, missing) ==
    WithBuffer(RawRisk(w, static), Debt(w, static, Positions(w, static, missing)))

(* createUserRiskPolicy: no buffer unless the wallet or else the           *)
(* environment names one.                                                  *)
DefaultPolicy(explicit, env) ==
    [minBuffer |-> IF explicit # NoAmount THEN explicit ELSE IF env # NoAmount THEN env ELSE 0,
     goal |-> "MIN_CAPITAL", allowRepay |-> TRUE, allowAdd |-> TRUE,
     maxRepay |-> [m \in Markets |-> {}], maxCollateral |-> [m \in Markets |-> {}]]

\* Mutant of PolicyPasses: a shortfall passes when no buffer is asked for.
PolicyPassesShort(risk, policy) ==
    /\ risk.status # "UNKNOWN"
    /\ policy.minBuffer > 0 /\ risk.debt # 0 =>
           risk.buffer # NoAmount /\ risk.buffer >= policy.minBuffer

PolicyPasses(risk, policy) ==
    /\ risk.status \notin {"UNKNOWN", "SHORTFALL"}
    /\ policy.minBuffer > 0 /\ risk.debt # 0 =>
           /\ risk.buffer # NoAmount
           /\ risk.buffer >= policy.minBuffer

(***************************************************************************)
(* What a replay of the change reports.                                    *)
(***************************************************************************)

(* A factor matters to a wallet that has collateral in its market.         *)
Exposed(w, static, missing) ==
    LET m == static.changed
    IN  m \in Positions(w, static, missing) /\ w.entered[m] /\ w.supplied[m] > 0

Shortfall(risk) == Max({0, -risk.liquidity})
Surplus(risk) == Max({0, risk.liquidity})

LiquidityDrop(before, after) ==
    IF Surplus(before) = 0 THEN NoAmount
    ELSE IF Surplus(after) >= Surplus(before) THEN 0
    ELSE ((Surplus(before) - Surplus(after)) * 10000) \div Surplus(before)

MaterialRisk(before, after) ==
    [classification |->
        IF before.status # "SHORTFALL" /\ after.status = "SHORTFALL" THEN "SHORTFALL_CREATED"
        ELSE IF Shortfall(after) > Shortfall(before) THEN "SHORTFALL_INCREASED"
        ELSE IF Surplus(after) < Surplus(before) THEN "LIQUIDITY_REDUCED"
        ELSE IF Surplus(after) > Surplus(before) \/ Shortfall(after) < Shortfall(before)
             THEN "IMPROVED" ELSE "UNCHANGED",
     drop |-> LiquidityDrop(before, after)]

(* receiptHashBody: what the hash of a receipt covers.                     *)
ReceiptBody(before, after, exposed, policy) ==
    [before |-> before, after |-> after, exposed |-> exposed,
     material |-> MaterialRisk(before, after),
     minBuffer |-> policy.minBuffer, passed |-> PolicyPasses(after, policy)]

(* comparePinnedStrategies with raiseBufferToForceSearch.                  *)
RaisedPolicy(policy, buffer) ==
    [policy EXCEPT !.minBuffer = (IF buffer = NoAmount THEN 0 ELSE buffer) + 1]

(***************************************************************************)
(* Feasibility, read at the pinned block.  A policy maximum is a set: empty *)
(* when the policy names none for the asset.                               *)
(***************************************************************************)
RepayBound(w, policy, m) ==
    Min({w.borrowed[m], w.balance[m]} \cup policy.maxRepay[m])

RemainingSupply(w, static, m) ==
    IF static.cap[m] = 0 THEN {}
    ELSE {Max({static.cap[m] - (static.total[m] + w.supplied[m]), 0})}

CollateralBound(w, static, policy, m) ==
    Min({w.balance[m]} \cup policy.maxCollateral[m] \cup RemainingSupply(w, static, m))

RepayMarkets(w, static, policy, missing) ==
    {m \in Positions(w, static, missing) :
        policy.allowRepay /\ w.borrowed[m] > 0 /\ RepayBound(w, policy, m) > 0}

CollateralMarkets(w, static, policy, missing) ==
    {m \in ListMarkets(static, missing.listing) :
        /\ policy.allowAdd /\ ~static.mintPaused[m]
        /\ w.balance[m] > 0 /\ CollateralBound(w, static, policy, m) > 0}

Feasible(w, static, policy, strategy, missing) ==
    IF strategy = "REPAY_DEBT" THEN RepayMarkets(w, static, policy, missing)
                               ELSE CollateralMarkets(w, static, policy, missing)

BoundOf(w, static, policy, strategy, m) ==
    IF strategy = "REPAY_DEBT" THEN RepayBound(w, policy, m)
                               ELSE CollateralBound(w, static, policy, m)

(* The candidate worth most; of equals, the one listed first.              *)
Best(w, static, policy, strategy, missing) ==
    LET usd(m) == Worth(static, m, BoundOf(w, static, policy, strategy, m))
        all    == Feasible(w, static, policy, strategy, missing)
    IN  CHOOSE m \in all : \A n \in all : usd(m) > usd(n) \/ (usd(m) = usd(n) /\ m <= n)

(***************************************************************************)
(* Plans: exact approvals, a reset before one that would raise another,    *)
(* and entering the market when it is not collateral yet.                  *)
(***************************************************************************)
Call(rule, m, amount) == [rule |-> rule, market |-> m, amount |-> amount]

ApproveCalls(allowance, m, amount) ==
    IF allowance >= amount THEN <<>>
    ELSE (IF allowance > 0 THEN <<Call("APPROVE_RESET", m, 0)>> ELSE <<>>)
         \o <<Call("APPROVE_EXACT", m, amount)>>

BuildPlan(w, strategy, m, enabled, amount) ==
    ApproveCalls(w.allowance[m], m, amount)
    \o (IF strategy = "REPAY_DEBT" THEN <<Call("REPAY_BORROW", m, amount)>>
        ELSE <<Call("MINT", m, amount)>>
             \o (IF enabled THEN <<>> ELSE <<Call("ENTER_MARKETS", m, 0)>>))

(* collateralEnabled is taken from the positions that were read.           *)
EnabledIn(w, static, missing, m) == m \in Positions(w, static, missing) /\ w.entered[m]

(* buildLiveAllowlistedPlan: the amount that was verified before, if it is *)
(* still within the bound, or else the bound.                              *)
LiveAmount(preferred, bound) == IF preferred \in 1..bound THEN preferred ELSE bound

LivePlan(w, static, policy, strategy, preferred, missing) ==
    LET m      == Best(w, static, policy, strategy, missing)
        amount == LiveAmount(preferred, BoundOf(w, static, policy, strategy, m))
    IN  [market |-> m, amount |-> amount,
         calls |-> BuildPlan(w, strategy, m, EnabledIn(w, static, missing, m), amount)]

(* assertAllowlistedPlan: each call names the plan's market; an approval   *)
(* is a reset or exact, and so is what is moved.                           *)
AllowlistedCall(call, plan) ==
    /\ call.market = plan.market
    /\ CASE call.rule = "APPROVE_RESET" -> call.amount = 0
         [] call.rule = "ENTER_MARKETS" -> TRUE
         [] OTHER -> call.amount = plan.amount

Allowlisted(plan) ==
    /\ plan.amount > 0 /\ plan.calls # <<>>
    /\ \A i \in DOMAIN plan.calls : AllowlistedCall(plan.calls[i], plan)

(***************************************************************************)
(* Executing calls on a fork.  A call whose preview answers an error code  *)
(* is not sent.                                                            *)
(***************************************************************************)
Affordable(w, call) ==
    call.amount <= w.allowance[call.market] /\ call.amount <= w.balance[call.market]

PreviewOk(w, static, call) ==
    CASE call.rule \in {"APPROVE_RESET", "APPROVE_EXACT"} -> TRUE
      [] call.rule = "REPAY_BORROW" ->
            Affordable(w, call) /\ call.amount <= w.borrowed[call.market]
      [] call.rule = "MINT" ->
            /\ Affordable(w, call) /\ ~static.mintPaused[call.market]
            /\ \A rest \in RemainingSupply(w, static, call.market) : call.amount <= rest
      [] call.rule = "ENTER_MARKETS" -> static.listed[call.market]

Spend(w, m, amount) ==
    [w EXCEPT !.balance[m] = @ - amount, !.allowance[m] = @ - amount]

Execute(w, call) ==
    LET m == call.market
    IN  CASE call.rule \in {"APPROVE_RESET", "APPROVE_EXACT"} -> [w EXCEPT !.allowance[m] = call.amount]
          [] call.rule = "REPAY_BORROW" ->
                [Spend(w, m, call.amount) EXCEPT !.borrowed[m] = @ - call.amount]
          [] call.rule = "MINT" ->
                [Spend(w, m, call.amount) EXCEPT !.supplied[m] = @ + call.amount]
          [] call.rule = "ENTER_MARKETS" -> [w EXCEPT !.entered[m] = TRUE]

(* The destination effect of the proposal: one market's factor is set.     *)
ApplyChange(w, static) == [w EXCEPT !.factor[static.changed] = static.newFactor]
=============================================================================
