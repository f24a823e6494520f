------------------------- MODULE RescueDesk_proofs -------------------------
(***************************************************************************)
(* TLAPS proofs about the rescue desk, for any number of children, any     *)
(* ports, wallets, markets, policies and budgets.                          *)
(*                                                                         *)
(* The job, the agent, the API and the shutdown use the forks only as      *)
(* AnvilForks says, so what is proved of the forks in AnvilForks_proofs    *)
(* holds of the desk.                                                      *)
(*                                                                         *)
(* What a comparison verifies is solvent, each branch runs as its plan     *)
(* promises and the agent tells nothing else: from an invariant that says, *)
(* session by session, what is known of its work whatever happens to its   *)
(* fork, and what its own Anvil holds while nobody else works on it.       *)
(*                                                                         *)
(* The types, last, need to know besides that every snapshot of an Anvil   *)
(* is held by a session that works there (SnapshotsHeld).                  *)
(***************************************************************************)
EXTENDS RescueDesk, AnvilForks_proofs, FiniteSetTheorems, WellFoundedInduction,
        SequenceTheorems

LEMMA Callers ==
  /\ Job \in Sessions /\ Api \in Sessions /\ Agent \in Sessions
  /\ 0 \in Pins /\ 1 \in Pins
  BY DeskAssumption, PoolAssumption DEF Pins

LEMMA OpenIsSpawn ==
  ASSUME NEW s \in Sessions, NEW task, NEW pin \in Pins, NEW calls, Open(s, task, pin, calls)
  PROVE  ForkNext
  BY DEF Open, ForkNext, StartNext

LEMMA WorkingOnForks ==
  ASSUME NEW s \in Sessions, Working(s)
  PROVE  [ForkNext]_forkVars
  <1>1. CASE Begin(s) \/ Assess(s)
    BY <1>1 DEF Begin, Assess
  <1>2. CASE TakeSnapshot(s) \/ PlanCall(s) \/ ReplayChange(s) \/ Judge(s) \/ Receipt(s)
    BY <1>2 DEF TakeSnapshot, PlanCall, ReplayChange, Judge, Receipt, StepOn
  <1>3. CASE Throw(s)
    BY <1>3 DEF Throw, StepOn
  <1>4. CASE Close(s)
    BY <1>4 DEF Close, ForkNext
  <1>. QED  BY <1>1, <1>2, <1>3, <1>4 DEF Working

LEMMA AgentOnForks ==
  ASSUME AgentNext
  PROVE  [ForkNext]_forkVars
  <1>1. CASE AskModel
    BY <1>1 DEF AskModel, Answered
  <1>2. CASE ModelFails \/ AgentTimeout \/ TraceFails \/ PlainCall \/ ForkReturns
    BY <1>2 DEF ModelFails, AgentTimeout, TraceFails, PlainCall, ForkReturns
  <1>3. CASE ForkRefused
    BY <1>3 DEF ForkRefused, NoPortLeft
  <1>4. CASE ForkCall
    BY <1>4, Callers, OpenIsSpawn DEF ForkCall
  <1>. QED  BY <1>1, <1>2, <1>3, <1>4 DEF AgentNext

LEMMA SimulatorOnForks ==
  ASSUME SimulatorSteps
  PROVE  [ForkNext]_forkVars
  <1>1. CASE JobStarts \/ JobCompares
    BY <1>1, Callers, OpenIsSpawn DEF JobStarts, JobCompares
  <1>2. CASE JobReplayed \/ JobEnds
    BY <1>2 DEF JobReplayed, JobEnds, agentVars, searchVars
  <1>3. CASE AgentNext
    BY <1>3, AgentOnForks
  <1>. QED  BY <1>1, <1>2, <1>3 DEF SimulatorSteps

LEMMA DeskOnForks ==
  ASSUME [Next]_vars
  PROVE  [ForkNext]_forkVars
  <1>1. ASSUME NEW s \in Sessions, ForkSteps(s) PROVE [ForkNext]_forkVars
    <2>1. CASE Check(s) \/ Healthy(s) \/ Unhealthy(s) \/ Stopped(s)
      BY <2>1 DEF ForkNext, StartNext
    <2>2. CASE OpenFails(s)
      BY <2>2 DEF OpenFails, ForkNext, StartNext
    <2>3. CASE Working(s)
      BY <2>3, WorkingOnForks
    <2>. QED  BY <1>1, <2>1, <2>2, <2>3 DEF ForkSteps
  <1>2. ASSUME SimulatorSteps PROVE [ForkNext]_forkVars
    BY <1>2, SimulatorOnForks
  <1>3. ASSUME Shutdown \/ SignalReceived PROVE [ForkNext]_forkVars
    BY <1>3 DEF Shutdown, SignalReceived, ForkNext
  <1>4. ASSUME Prepare \/ ApiReturns PROVE [ForkNext]_forkVars
    BY <1>4 DEF Prepare, ApiReturns
  <1>5. ASSUME ApiDryRun PROVE [ForkNext]_forkVars
    BY <1>5, Callers, OpenIsSpawn DEF ApiDryRun
  <1>6. ASSUME NEW s \in {Job, Api}, FindsNoPort(s) PROVE [ForkNext]_forkVars
    BY <1>6 DEF FindsNoPort, NoPortLeft
  <1>7. ASSUME NEW c \in Children, ChildSteps(c) \/ ChildCrashes(c) PROVE [ForkNext]_forkVars
    BY <1>7 DEF ChildSteps, ChildCrashes, BindFresh, ForkNext, ChildNext
  <1>8. ASSUME UNCHANGED vars PROVE [ForkNext]_forkVars
    BY <1>8 DEF vars, agentVars, searchVars
  <1>. QED
    BY <1>1, <1>2, <1>3, <1>4, <1>5, <1>6, <1>7, <1>8
       DEF Next, ProcessSteps, OffspringSteps

(* However the processes of the host interleave, and whatever fails, they  *)
(* use their forks only as anvil.ts offers: each fork is started, watched  *)
(* and stopped by the calls of startAnvilFork and stopAnvil.               *)
THEOREM ForksUsedAsOffered == Spec => UsesForksAsOffered
  <1>1. Init => ForkInit
    BY DEF Init
  <1>2. [Next]_vars => [ForkNext]_forkVars
    BY DeskOnForks
  <1>. QED  BY <1>1, <1>2, PTL DEF Spec, UsesForksAsOffered, ForkSpec

(* So no Anvil of the job, the agent or the API outlives those who would   *)
(* stop it, but for the shutdown's blind spot (anvil.ts:134, 194,          *)
(* main.ts:63).                                                            *)
THEOREM DeskLeavesNoForkBehind == Spec => []NoForkLeftBehind
  BY ForksUsedAsOffered, ForksAreStopped, PTL DEF UsesForksAsOffered

(* And what a session of the desk is answered comes from its own fork, or  *)
(* its own fork was raced for the port, crashed or was told to end.        *)
THEOREM DeskForksAreKeptApart == Spec => []ForeignForkIsExplained
  BY ForksUsedAsOffered, ForksAreKeptApart, PTL DEF UsesForksAsOffered

-----------------------------------------------------------------------------
(***************************************************************************)
(* Sums over finite sets.                                                  *)
(***************************************************************************)
(* A set of finite subsets that is not empty has a least one.              *)
LEMMA LeastSubset ==
  ASSUME NEW S, IsFiniteSet(S), NEW T, T \subseteq SUBSET S, T # {}
  PROVE  \E X \in T : \A Y \in SUBSET X : Y # X => Y \notin T
  <1>1. IsWellFoundedOn(StrictSubsetOrdering(S), SUBSET S)
    BY FS_FiniteSubsetsOfFinite, FS_StrictSubsetOrderingWellFounded
  <1>2. PICK X \in T : \A Y \in T : ~(<<Y, X>> \in StrictSubsetOrdering(S))
    BY <1>1, WFMin
  <1>3. ASSUME NEW Y \in SUBSET X, Y # X, Y \in T PROVE FALSE
    <2>1. <<Y, X>> \in (SUBSET S) \X (SUBSET S)
      BY <1>3
    <2>2. <<Y, X>> \in StrictSubsetOrdering(S)
      BY <2>1, <1>3 DEF StrictSubsetOrdering
    <2>. QED  BY <2>2, <1>2, <1>3
  <1>. QED  BY <1>3

LEMMA LeastNumber ==
  ASSUME NEW T, T \subseteq Nat, T # {}
  PROVE  \E x \in T : \A y \in T : x <= y
  <1>1. PICK x \in T : \A y \in T : ~(<<y, x>> \in OpToRel(<, Nat))
    BY NatLessThanWellFounded, WFMin
  <1>2. \A y \in T : ~(y < x)
    BY <1>1 DEF OpToRel
  <1>. QED  BY <1>2

Pick(s) == CHOOSE x \in s : TRUE

(* it adds up f over the subsets of S.                                     *)
AddsUp(it, f, S) ==
    \A s \in SUBSET S : it[s] = IF s = {} THEN 0 ELSE f[Pick(s)] + it[s \ {Pick(s)}]

SumsUp(it, f, S) == it \in [SUBSET S -> Int] /\ AddsUp(it, f, S)

LEMMA Picked == ASSUME NEW S, NEW s \in SUBSET S, s # {}
                PROVE  /\ Pick(s) \in s /\ Pick(s) \in S
                       /\ s \ {Pick(s)} \in SUBSET S /\ s \ {Pick(s)} \in SUBSET s
                       /\ s \ {Pick(s)} # s
  BY DEF Pick

LEMMA SumsAgree ==
  ASSUME NEW S, NEW R, IsFiniteSet(S), NEW f, NEW g, NEW h, AddsUp(g, f, S), AddsUp(h, f, R)
  PROVE  \A s \in SUBSET S : s \in SUBSET R => g[s] = h[s]
  <1>. DEFINE T == {s \in SUBSET S : s \in SUBSET R /\ g[s] # h[s]}
  <1>. SUFFICES ASSUME T # {} PROVE FALSE
    OBVIOUS
  <1>1. T \subseteq SUBSET S
    OBVIOUS
  <1>. HIDE DEF T
  <1>2. PICK X \in T : \A Y \in SUBSET X : Y # X => Y \notin T
    BY <1>1, LeastSubset
  <1>3. X \in SUBSET S /\ X \in SUBSET R /\ g[X] # h[X]
    BY DEF T
  <1>4. X # {}
    BY <1>3 DEF SumsUp, AddsUp
  <1>5. /\ X \ {Pick(X)} \in SUBSET S /\ X \ {Pick(X)} \in SUBSET R
        /\ X \ {Pick(X)} \in SUBSET X /\ X \ {Pick(X)} # X
    BY <1>3, <1>4, Picked
  <1>6. g[X \ {Pick(X)}] = h[X \ {Pick(X)}]
    BY <1>2, <1>5 DEF T
  <1>7. g[X] = f[Pick(X)] + g[X \ {Pick(X)}] /\ h[X] = f[Pick(X)] + h[X \ {Pick(X)}]
    BY <1>3, <1>4 DEF SumsUp, AddsUp
  <1>. QED  BY <1>3, <1>6, <1>7

LEMMA SumsExist ==
  ASSUME NEW S, IsFiniteSet(S), NEW f \in [S -> Int]
  PROVE  \E it : SumsUp(it, f, S)
  <1>. DEFINE T == {s \in SUBSET S : ~\E it : SumsUp(it, f, s)}
  <1>. SUFFICES ASSUME T # {} PROVE FALSE
    OBVIOUS
  <1>1. T \subseteq SUBSET S
    OBVIOUS
  <1>. HIDE DEF T
  <1>2. PICK X \in T : \A Y \in SUBSET X : Y # X => Y \notin T
    BY <1>1, LeastSubset
  <1>3. X \in SUBSET S /\ \A it : ~SumsUp(it, f, X)
    BY DEF T
  <1>. DEFINE part(Y) == CHOOSE it : SumsUp(it, f, Y)
              all == [Y \in SUBSET X |->
                        IF Y = {} THEN 0 ELSE f[Pick(Y)] + part(Y \ {Pick(Y)})[Y \ {Pick(Y)}]]
  <1>4. ASSUME NEW Y \in SUBSET X, Y # X PROVE SumsUp(part(Y), f, Y) /\ IsFiniteSet(Y)
    <2>1. Y \in SUBSET S /\ Y \notin T
      BY <1>2, <1>3, <1>4
    <2>2. \E it : SumsUp(it, f, Y)
      BY <2>1 DEF T
    <2>. QED  BY <2>1, <2>2, FS_Subset
  <1>5. ASSUME NEW Y \in SUBSET X, Y # X PROVE part(Y)[Y] \in Int
    <2>1. Y \in SUBSET Y
      OBVIOUS
    <2>. QED  BY <2>1, <1>4, <1>5 DEF SumsUp, AddsUp
  <1>6. ASSUME NEW Y \in SUBSET X, Y # {}
        PROVE  /\ all[Y] = f[Pick(Y)] + part(Y \ {Pick(Y)})[Y \ {Pick(Y)}] /\ all[Y] \in Int
               /\ Y \ {Pick(Y)} \in SUBSET X /\ Y \ {Pick(Y)} # X
    <2>1. /\ Pick(Y) \in Y /\ Pick(Y) \in S /\ Y \ {Pick(Y)} \in SUBSET X /\ Y \ {Pick(Y)} # X
      BY <1>3, <1>6, Picked
    <2>2. f[Pick(Y)] \in Int /\ part(Y \ {Pick(Y)})[Y \ {Pick(Y)}] \in Int
      BY <2>1, <1>5
    <2>. HIDE DEF part
    <2>. QED  BY <1>6, <2>1, <2>2
  <1>7. all[{}] = 0
    OBVIOUS
  <1>8. ASSUME NEW Y \in SUBSET X, Y # X, Y # {} PROVE all[Y] = part(Y)[Y]
    <2>. DEFINE Z == Y \ {Pick(Y)}
    <2>1. Z \in SUBSET X /\ Z # X /\ Z \in SUBSET Y /\ Z \in SUBSET Z /\ Y \in SUBSET Y
      BY <1>6, <1>8
    <2>2. SumsUp(part(Y), f, Y) /\ SumsUp(part(Z), f, Z) /\ IsFiniteSet(Y)
      BY <2>1, <1>4, <1>8
    <2>. HIDE DEF part, all
    <2>3. part(Y)[Z] = part(Z)[Z]
      BY <2>1, <2>2, SumsAgree DEF SumsUp
    <2>4. part(Y)[Y] = f[Pick(Y)] + part(Y)[Z]
      BY <2>1, <2>2, <1>8 DEF SumsUp, AddsUp
    <2>. QED  BY <2>3, <2>4, <1>6, <1>8
  <1>9. all \in [SUBSET X -> Int]
    <2>. HIDE DEF part
    <2>1. ASSUME NEW Y \in SUBSET X PROVE all[Y] \in Int
      <3>1. CASE Y = {}
        BY <3>1, <1>7
      <3>2. CASE Y # {}
        BY <3>2, <1>6
      <3>. QED  BY <3>1, <3>2
    <2>. QED  BY <2>1
  <1>10. ASSUME NEW Y \in SUBSET X, Y # {} PROVE all[Y] = f[Pick(Y)] + all[Y \ {Pick(Y)}]
    <2>. DEFINE Z == Y \ {Pick(Y)}
    <2>1. Z \in SUBSET X /\ Z # X /\ all[Y] = f[Pick(Y)] + part(Z)[Z]
      BY <1>6, <1>10
    <2>2. CASE Z = {}
      <3>1. AddsUp(part(Z), f, Z) /\ Z \in SUBSET Z
        BY <2>1, <1>4 DEF SumsUp
      <3>2. part(Z)[Z] = 0
        <4>. HIDE DEF part, Z
        <4>. QED  BY <2>2, <3>1 DEF AddsUp
      <3>. HIDE DEF part, all
      <3>. QED  BY <3>2, <2>1, <2>2, <1>7
    <2>3. CASE Z # {}
      <3>. HIDE DEF part, all
      <3>. QED  BY <2>1, <2>3, <1>8
    <2>. QED  BY <2>2, <2>3
  <1>. HIDE DEF all
  <1>11. SumsUp(all, f, X)
    BY <1>7, <1>9, <1>10 DEF SumsUp, AddsUp
  <1>. QED  BY <1>3, <1>11

(* What the sum over a finite set is.                                      *)
LEMMA SumDefined ==
  ASSUME NEW S, IsFiniteSet(S), NEW f, \A x \in S : f[x] \in Int
  PROVE  \E it : SumsUp(it, f, S) /\ SumFunctionOnSet(f, S) = it[S]
  <1>. DEFINE g == [x \in S |-> f[x]]
              Sums(it) ==
                it = [s \in SUBSET S |-> IF s = {} THEN 0 ELSE f[Pick(s)] + it[s \ {Pick(s)}]]
  <1>1. g \in [S -> Int]
    OBVIOUS
  <1>2. PICK it : SumsUp(it, g, S)
    BY <1>1, SumsExist
  <1>3. \A s \in SUBSET S : s # {} => g[Pick(s)] = f[Pick(s)]
    BY Picked
  <1>4. Sums(it)
    BY <1>2, <1>3 DEF SumsUp, AddsUp
  <1>5. SumFunctionOnSet(f, S) = (CHOOSE h : Sums(h))[S]
    BY DEF SumFunctionOnSet, FoldFunctionOnSet, MapThenFoldSet, Pick
  <1>6. PICK h : Sums(h) /\ SumFunctionOnSet(f, S) = h[S]
    BY <1>4, <1>5
  <1>7. AddsUp(h, f, S)
    BY <1>6 DEF AddsUp
  <1>8. AddsUp(it, f, S) /\ SumsUp(it, f, S)
    BY <1>2, <1>3 DEF SumsUp, AddsUp
  <1>9. h[S] = it[S]
    BY <1>7, <1>8, SumsAgree
  <1>. QED  BY <1>6, <1>8, <1>9

(* A sum of integers is one, and so is a sum of naturals.                  *)
LEMMA SumTyped ==
  ASSUME NEW S, IsFiniteSet(S), NEW f, \A x \in S : f[x] \in Int
  PROVE  SumFunctionOnSet(f, S) \in Int
  <1>1. PICK it : SumsUp(it, f, S) /\ SumFunctionOnSet(f, S) = it[S]
    BY SumDefined
  <1>. QED  BY <1>1 DEF SumsUp

-----------------------------------------------------------------------------
(***************************************************************************)
(* What is read of a wallet.                                               *)
(***************************************************************************)
LEMMA LeastOf ==
  ASSUME NEW T, T \subseteq Nat, T # {}
  PROVE  Min(T) \in T /\ \A y \in T : Min(T) <= y
  BY LeastNumber DEF Min

LEMMA HoldingsFields ==
  ASSUME NEW w \in Holdings
  PROVE  /\ w = [supplied |-> w.supplied, borrowed |-> w.borrowed, entered |-> w.entered,
                 balance |-> w.balance, allowance |-> w.allowance, factor |-> w.factor]
         /\ w.supplied \in [Markets -> Nat] /\ w.borrowed \in [Markets -> Nat]
         /\ w.entered \in [Markets -> BOOLEAN] /\ w.balance \in [Markets -> Nat]
         /\ w.allowance \in [Markets -> Nat] /\ w.factor \in [Markets -> 0..10]
  BY DEF Holdings

LEMMA StaticFields ==
  ASSUME NEW static \in Statics
  PROVE  /\ static.price \in [Markets -> Nat] /\ static.listed \in [Markets -> BOOLEAN]
         /\ static.mintPaused \in [Markets -> BOOLEAN]
         /\ static.cap \in [Markets -> Nat] /\ static.total \in [Markets -> Nat]
         /\ static.changed \in Markets /\ static.newFactor \in 0..10
  BY DEF Statics

LEMMA PolicyFields ==
  ASSUME NEW p \in RiskPolicySet
  PROVE  /\ p.minBuffer \in Nat /\ p.allowRepay \in BOOLEAN /\ p.allowAdd \in BOOLEAN
         /\ \A m \in Markets : p.maxRepay[m] \subseteq Nat /\ p.maxCollateral[m] \subseteq Nat
  BY DEF RiskPolicySet

LEMMA WorthTyped ==
  ASSUME NEW static \in Statics, NEW m \in Markets, NEW n \in Nat
  PROVE  Worth(static, m, n) \in Nat
  <1>1. static.price[m] \in Nat
    BY StaticFields
  <1>. QED  BY <1>1 DEF Worth

LEMMA DebtTyped ==
  ASSUME NEW w \in Holdings, NEW static \in Statics, NEW S \in SUBSET Markets
  PROVE  Debt(w, static, S) \in Int
  <1>. DEFINE f == [m \in Markets |-> Worth(static, m, w.borrowed[m])]
  <1>1. \A m \in S : f[m] \in Int
    BY HoldingsFields, WorthTyped
  <1>2. IsFiniteSet(S)
    BY MarketsAssumption, FS_Subset
  <1>. HIDE DEF f
  <1>3. SumFunctionOnSet(f, S) \in Int
    BY <1>1, <1>2, SumTyped
  <1>. QED  BY <1>3 DEF Debt, f

LEMMA CollateralTyped ==
  ASSUME NEW w \in Holdings, NEW static \in Statics
  PROVE  Collateral(w, static) \in Int
  <1>. DEFINE f == [m \in Markets |-> (Worth(static, m, w.supplied[m]) * w.factor[m]) \div 10]
              S == {m \in Markets : w.entered[m]}
  <1>1. ASSUME NEW m \in S PROVE f[m] \in Int
    <2>1. Worth(static, m, w.supplied[m]) \in Nat /\ w.factor[m] \in Nat
      BY HoldingsFields, WorthTyped
    <2>2. Worth(static, m, w.supplied[m]) * w.factor[m] \in Nat
      BY <2>1
    <2>. QED  BY <2>2
  <1>2. IsFiniteSet(S)
    BY MarketsAssumption, FS_Subset
  <1>. HIDE DEF f, S
  <1>3. SumFunctionOnSet(f, S) \in Int
    BY <1>1, <1>2, SumTyped
  <1>. QED  BY <1>3 DEF Collateral, f, S

LEMMA LiquidityTyped ==
  ASSUME NEW w \in Holdings, NEW static \in Statics
  PROVE  Liquidity(w, static) \in Int
  BY CollateralTyped, DebtTyped DEF Liquidity

LEMMA BufferTyped ==
  ASSUME NEW w \in Holdings, NEW static \in Statics, NEW missing
  PROVE  ReadRisk(w, static, missing).buffer \in Nat \cup {NoAmount}
  <1>. DEFINE liq == Liquidity(w, static)
              debt == Debt(w, static, Positions(w, static, missing))
  <1>1. liq \in Int /\ debt \in Int
    BY LiquidityTyped, DebtTyped DEF Positions, ListMarkets
  <1>2. ReadRisk(w, static, missing).buffer = SafetyBuffer(liq, debt)
    BY DEF ReadRisk, WithBuffer, RawRisk
  <1>. HIDE DEF liq, debt
  <1>3. ASSUME ~(debt <= 0), ~(liq <= 0) PROVE Min({(liq * 10000) \div debt, MaxBufferBps}) \in Nat
    <2>1. (liq * 10000) \div debt \in Nat /\ MaxBufferBps \in Nat
      BY <1>1, <1>3, MarketsAssumption, SMT
    <2>. HIDE DEF liq, debt
    <2>. QED  BY <2>1, LeastOf
  <1>. QED  BY <1>2, <1>3 DEF SafetyBuffer

-----------------------------------------------------------------------------
(***************************************************************************)
(* Feasibility.                                                            *)
(***************************************************************************)
LEMMA RemainingTyped ==
  ASSUME NEW w \in Holdings, NEW static \in Statics, NEW m \in Markets
  PROVE  RemainingSupply(w, static, m) \subseteq Nat
  <1>1. /\ static.cap[m] \in Nat /\ static.total[m] \in Nat /\ w.supplied[m] \in Nat
    BY HoldingsFields, StaticFields
  <1>2. Max({static.cap[m] - (static.total[m] + w.supplied[m]), 0}) \in Nat
    <2>. DEFINE d == static.cap[m] - (static.total[m] + w.supplied[m])
    <2>1. d \in Int
      BY <1>1
    <2>. HIDE DEF d
    <2>2. \E x \in {d, 0} : x \in Nat /\ \A y \in {d, 0} : x >= y
      BY <2>1, SMT
    <2>3. Max({d, 0}) \in {d, 0} /\ \A y \in {d, 0} : Max({d, 0}) >= y
      BY <2>1, <2>2 DEF Max
    <2>. QED  BY <2>1, <2>3 DEF d
  <1>. QED  BY <1>2 DEF RemainingSupply

(* A bound is within what the wallet has and owes, and within the cap.     *)
LEMMA BoundWithin ==
  ASSUME NEW w \in Holdings, NEW static \in Statics, NEW p \in RiskPolicySet,
         NEW t \in Strategies, NEW m \in Markets
  PROVE  /\ BoundOf(w, static, p, t, m) \in Nat
         /\ BoundOf(w, static, p, t, m) <= w.balance[m]
         /\ t = "REPAY_DEBT" => BoundOf(w, static, p, t, m) <= w.borrowed[m]
         /\ t = "ADD_COLLATERAL" =>
               \A rest \in RemainingSupply(w, static, m) : BoundOf(w, static, p, t, m) <= rest
  <1>1. w.balance[m] \in Nat /\ w.borrowed[m] \in Nat
    BY HoldingsFields
  <1>2. CASE t = "REPAY_DEBT"
    <2>. DEFINE T == {w.borrowed[m], w.balance[m]} \cup p.maxRepay[m]
    <2>1. T \subseteq Nat /\ T # {}
      BY <1>1, PolicyFields
    <2>2. Min(T) \in T /\ \A y \in T : Min(T) <= y
      BY <2>1, LeastOf
    <2>3. BoundOf(w, static, p, t, m) = Min(T)
      BY <1>2 DEF BoundOf, RepayBound
    <2>. QED  BY <1>2, <2>1, <2>2, <2>3
  <1>3. CASE t = "ADD_COLLATERAL"
    <2>. DEFINE T == {w.balance[m]} \cup p.maxCollateral[m] \cup RemainingSupply(w, static, m)
    <2>1. T \subseteq Nat /\ T # {}
      BY <1>1, PolicyFields, RemainingTyped
    <2>2. Min(T) \in T /\ \A y \in T : Min(T) <= y
      BY <2>1, LeastOf
    <2>3. BoundOf(w, static, p, t, m) = Min(T)
      BY <1>3 DEF BoundOf, CollateralBound
    <2>4. w.balance[m] \in T /\ \A rest \in RemainingSupply(w, static, m) : rest \in T
      OBVIOUS
    <2>. HIDE DEF T
    <2>. QED  BY <1>3, <2>1, <2>2, <2>3, <2>4
  <1>. QED  BY <1>2, <1>3 DEF Strategies

LEMMA FeasibleFacts ==
  ASSUME NEW w \in Holdings, NEW static \in Statics, NEW p \in RiskPolicySet,
         NEW t \in Strategies, NEW missing, NEW m \in Feasible(w, static, p, t, missing)
  PROVE  /\ m \in Markets
         /\ BoundOf(w, static, p, t, m) >= 1
         /\ m \in Feasible(w, static, p, t, AllRead)
         /\ t = "ADD_COLLATERAL" => static.listed[m] /\ ~static.mintPaused[m]
  <1>1. m \in Markets
    BY DEF Feasible, RepayMarkets, CollateralMarkets, Positions, ListMarkets
  <1>2. BoundOf(w, static, p, t, m) > 0
    BY DEF Feasible, RepayMarkets, CollateralMarkets, BoundOf
  <1>3. BoundOf(w, static, p, t, m) \in Nat
    BY <1>1, BoundWithin
  <1>4. m \in Feasible(w, static, p, t, AllRead)
    <2>1. AllRead.positions = {} /\ AllRead.listing = {}
      BY DEF AllRead
    <2>. QED  BY <2>1 DEF Feasible, RepayMarkets, CollateralMarkets, Positions, ListMarkets
  <1>5. t = "ADD_COLLATERAL" => static.listed[m] /\ ~static.mintPaused[m]
    BY DEF Feasible, CollateralMarkets, ListMarkets
  <1>. QED  BY <1>1, <1>2, <1>3, <1>4, <1>5

(* Of finitely many markets one is worth most; of equals one is first.     *)
LEMMA FirstOfBest ==
  ASSUME NEW all, all \subseteq Markets, all # {}, NEW u \in [Markets -> Int]
  PROVE  \E m \in all : \A n \in all : u[m] > u[n] \/ (u[m] = u[n] /\ m <= n)
  <1>. DEFINE Beats(m, n) == u[m] > u[n] \/ (u[m] = u[n] /\ m <= n)
              T == {S \in SUBSET Markets : S # {} /\ ~\E m \in S : \A n \in S : Beats(m, n)}
  <1>1. \A m, n \in Markets : Beats(m, n) \/ Beats(n, m)
    <2>1. \A m \in Markets : m \in Nat /\ u[m] \in Int
      BY MarketsAssumption
    <2>. QED  BY <2>1
  <1>2. \A k, m, n \in Markets : Beats(k, m) /\ Beats(m, n) => Beats(k, n)
    <2>1. \A m \in Markets : m \in Nat /\ u[m] \in Int
      BY MarketsAssumption
    <2>. QED  BY <2>1
  <1>. SUFFICES ASSUME T # {} PROVE FALSE
    OBVIOUS
  <1>3. T \subseteq SUBSET Markets
    OBVIOUS
  <1>. HIDE DEF T, Beats
  <1>4. PICK X \in T : \A Y \in SUBSET X : Y # X => Y \notin T
    BY <1>3, LeastSubset, MarketsAssumption
  <1>5. X \in SUBSET Markets /\ X # {} /\ \A m \in X : ~\A n \in X : Beats(m, n)
    BY DEF T
  <1>6. PICK e \in X : TRUE
    BY <1>5
  <1>. DEFINE Y == X \ {e}
  <1>7. Y # {}
    BY <1>1, <1>5, <1>6
  <1>8. Y \in SUBSET X /\ Y # X /\ Y \in SUBSET Markets
    BY <1>5, <1>6
  <1>9. PICK m \in Y : \A n \in Y : Beats(m, n)
    BY <1>4, <1>7, <1>8 DEF T
  <1>10. Beats(m, m)
    BY <1>9
  <1>11. CASE Beats(m, e)
    BY <1>5, <1>9, <1>11
  <1>12. CASE Beats(e, m)
    <2>1. \A n \in X : Beats(e, n)
      BY <1>1, <1>2, <1>5, <1>8, <1>9, <1>12
    <2>. QED  BY <2>1, <1>5
  <1>. QED  BY <1>1, <1>5, <1>8, <1>11, <1>12

LEMMA BestIsFeasible ==
  ASSUME NEW w \in Holdings, NEW static \in Statics, NEW p \in RiskPolicySet,
         NEW t \in Strategies, NEW missing, Feasible(w, static, p, t, missing) # {}
  PROVE  Best(w, static, p, t, missing) \in Feasible(w, static, p, t, missing)
  <1>. DEFINE all == Feasible(w, static, p, t, missing)
              u == [m \in Markets |-> Worth(static, m, BoundOf(w, static, p, t, m))]
  <1>1. all \subseteq Markets
    BY FeasibleFacts
  <1>2. u \in [Markets -> Int]
    <2>1. \A m \in Markets : Worth(static, m, BoundOf(w, static, p, t, m)) \in Nat
      BY BoundWithin, WorthTyped
    <2>. QED  BY <2>1
  <1>3. \A m \in all : u[m] = Worth(static, m, BoundOf(w, static, p, t, m))
    BY <1>1
  <1>4. Best(w, static, p, t, missing)
          = CHOOSE m \in all : \A n \in all :
               \/ Worth(static, m, BoundOf(w, static, p, t, m))
                     > Worth(static, n, BoundOf(w, static, p, t, n))
               \/ (Worth(static, m, BoundOf(w, static, p, t, m)) = Worth(static, n, BoundOf(w, static, p, t, n)) /\ m <= n)
    BY DEF Best
  <1>. HIDE DEF all, u
  <1>5. \E m \in all : \A n \in all : u[m] > u[n] \/ (u[m] = u[n] /\ m <= n)
    BY <1>1, <1>2, FirstOfBest DEF all
  <1>. QED  BY <1>3, <1>4, <1>5 DEF all

-----------------------------------------------------------------------------
(***************************************************************************)
(* Plans.  Ahead relates what a wallet holds to the calls of its plan that *)
(* are still to be made: the approval is reset, exact, spent.              *)
(***************************************************************************)
MovedFrom(h, t, m, a) ==
    [h EXCEPT
        !.balance[m] = @ - a,
        !.borrowed[m] = IF t = "REPAY_DEBT" THEN @ - a ELSE @,
        !.supplied[m] = IF t = "REPAY_DEBT" THEN @ ELSE @ + a,
        !.entered[m] = (t = "ADD_COLLATERAL") \/ @]

Less(f, m, a) == [f EXCEPT ![m] = @ - a]
More(f, m, a) == [f EXCEPT ![m] = @ + a]

Approved(h, w, m, x) ==
    /\ w \in Holdings
    /\ w.supplied = h.supplied /\ w.borrowed = h.borrowed
    /\ w.entered = h.entered /\ w.balance = h.balance
    /\ w.factor = h.factor
    /\ w.allowance = [h.allowance EXCEPT ![m] = x]

Moves(t, m, a, enabled) ==
    IF t = "REPAY_DEBT" THEN <<Call("REPAY_BORROW", m, a)>>
    ELSE <<Call("MINT", m, a)>> \o (IF enabled THEN <<>> ELSE <<Call("ENTER_MARKETS", m, 0)>>)

(* The amount is there, is owed, and fits under the cap.                   *)
Doable(h, st, t, m, a) ==
    /\ m \in Markets /\ a \in Nat /\ a <= h.balance[m]
    /\ t = "REPAY_DEBT" => a <= h.borrowed[m]
    /\ t = "ADD_COLLATERAL" =>
          /\ st.listed[m] /\ ~st.mintPaused[m]
          /\ \A rest \in RemainingSupply(h, st, m) : a <= rest

BeforeMoves(h, w, calls, m, a, moves) ==
    \/ /\ calls = <<Call("APPROVE_RESET", m, 0)>> \o (<<Call("APPROVE_EXACT", m, a)>> \o moves)
       /\ w = h
    \/ /\ calls = <<Call("APPROVE_EXACT", m, a)>> \o moves
       /\ \E x \in Nat : x <= h.allowance[m] /\ Approved(h, w, m, x)
    \/ /\ calls = moves
       /\ \E x \in Nat : a <= x /\ x - a <= h.allowance[m] /\ Approved(h, w, m, x)

(* The amount is moved; e is which markets are entered.                    *)
HasMoved(h, w, t, m, a, e) ==
    /\ w \in Holdings
    /\ w.supplied = MovedFrom(h, t, m, a).supplied /\ w.borrowed = MovedFrom(h, t, m, a).borrowed
    /\ w.entered = e /\ w.balance = MovedFrom(h, t, m, a).balance
    /\ w.factor = h.factor
    /\ \E y \in Nat : y <= h.allowance[m] /\ w.allowance = [h.allowance EXCEPT ![m] = y]

Ahead(h, w, calls, t, m, a) ==
    \/ \E enabled \in BOOLEAN :
          /\ enabled => h.entered[m]
          /\ BeforeMoves(h, w, calls, m, a, Moves(t, m, a, enabled))
    \/ /\ t = "ADD_COLLATERAL" /\ calls = <<Call("ENTER_MARKETS", m, 0)>>
       /\ HasMoved(h, w, t, m, a, h.entered)
    \/ calls = <<>> /\ HasMoved(h, w, t, m, a, MovedFrom(h, t, m, a).entered)

Rules == {"APPROVE_RESET", "APPROVE_EXACT", "REPAY_BORROW", "MINT", "ENTER_MARKETS"}
Calls == [rule : Rules, market : Markets, amount : Nat]

LEMMA ConsFacts ==
  ASSUME NEW S, NEW e \in S, NEW rest \in Seq(S)
  PROVE  /\ <<e>> \o rest \in Seq(S) /\ <<e>> \o rest # <<>>
         /\ Head(<<e>> \o rest) = e /\ Tail(<<e>> \o rest) = rest
  <1>1. <<e>> \in Seq(S) /\ <<e>> # <<>> /\ Head(<<e>>) = e /\ Tail(<<e>>) = <<>>
    OBVIOUS
  <1>2. /\ <<e>> \o rest \in Seq(S) /\ Len(<<e>> \o rest) = 1 + Len(rest)
    BY <1>1
  <1>3. Head(<<e>> \o rest) = e /\ <<e>> \o rest # <<>>
    BY <1>2
  <1>4. Tail(<<e>> \o rest) = rest
    <2>1. Tail(<<e>> \o rest) \in Seq(S) /\ Len(Tail(<<e>> \o rest)) = Len(rest)
      BY <1>2, <1>3
    <2>2. \A i \in 1..Len(rest) : Tail(<<e>> \o rest)[i] = rest[i]
      BY <1>1, <1>2
    <2>. QED  BY <2>1, <2>2, SeqEqual
  <1>. QED  BY <1>2, <1>3, <1>4

LEMMA MovesTyped ==
  ASSUME NEW t \in Strategies, NEW m \in Markets, NEW a \in Nat, NEW enabled \in BOOLEAN
  PROVE  /\ Moves(t, m, a, enabled) \in Seq(Calls) /\ Moves(t, m, a, enabled) # <<>>
         /\ Head(Moves(t, m, a, enabled))
               = Call(IF t = "REPAY_DEBT" THEN "REPAY_BORROW" ELSE "MINT", m, a)
         /\ Tail(Moves(t, m, a, enabled))
               = IF t = "REPAY_DEBT" \/ enabled THEN <<>> ELSE <<Call("ENTER_MARKETS", m, 0)>>
  <1>1. \A rule \in Rules, n \in Nat : Call(rule, m, n) \in Calls
    BY DEF Call, Calls
  <1>2. Call("REPAY_BORROW", m, a) \in Calls /\ Call("MINT", m, a) \in Calls
           /\ Call("ENTER_MARKETS", m, 0) \in Calls
    BY <1>1 DEF Rules
  <1>. DEFINE rest == IF enabled THEN <<>> ELSE <<Call("ENTER_MARKETS", m, 0)>>
  <1>3. rest \in Seq(Calls)
    BY <1>2
  <1>. HIDE DEF rest
  <1>4. CASE t = "REPAY_DEBT"
    <2>1. Moves(t, m, a, enabled) = <<Call("REPAY_BORROW", m, a)>>
      BY <1>4 DEF Moves
    <2>. QED  BY <2>1, <1>2, <1>4
  <1>5. CASE t # "REPAY_DEBT"
    <2>1. Moves(t, m, a, enabled) = <<Call("MINT", m, a)>> \o rest
      BY <1>5 DEF Moves, rest
    <2>2. /\ <<Call("MINT", m, a)>> \o rest \in Seq(Calls)
          /\ <<Call("MINT", m, a)>> \o rest # <<>>
          /\ Head(<<Call("MINT", m, a)>> \o rest) = Call("MINT", m, a)
          /\ Tail(<<Call("MINT", m, a)>> \o rest) = rest
      BY <1>2, <1>3, ConsFacts
    <2>3. rest = IF t = "REPAY_DEBT" \/ enabled THEN <<>> ELSE <<Call("ENTER_MARKETS", m, 0)>>
      BY <1>5 DEF rest
    <2>. QED  BY <2>1, <2>2, <2>3, <1>5
  <1>. QED  BY <1>4, <1>5

(* A plan begins where the wallet is.                                      *)
LEMMA PlanBegins ==
  ASSUME NEW h \in Holdings, NEW t \in Strategies, NEW m \in Markets, NEW a \in Nat,
         NEW enabled \in BOOLEAN, enabled => h.entered[m]
  PROVE  /\ Ahead(h, h, BuildPlan(h, t, m, enabled, a), t, m, a)
         /\ BuildPlan(h, t, m, enabled, a) # <<>>
  <1>. DEFINE moves == Moves(t, m, a, enabled)
              x == h.allowance[m]
  <1>1. x \in Nat /\ Approved(h, h, m, x)
    BY HoldingsFields DEF Approved
  <1>2. BuildPlan(h, t, m, enabled, a) = ApproveCalls(x, m, a) \o moves
    BY DEF BuildPlan, Moves, Strategies
  <1>3. moves \in Seq(Calls) /\ moves # <<>>
    BY MovesTyped
  <1>4. Call("APPROVE_RESET", m, 0) \in Calls /\ Call("APPROVE_EXACT", m, a) \in Calls
    BY DEF Call, Calls, Rules
  <1>. DEFINE calls == ApproveCalls(x, m, a) \o moves
  <1>5. BeforeMoves(h, h, calls, m, a, moves) /\ calls # <<>>
    <2>. HIDE DEF moves, x
    <2>1. CASE x >= a
      <3>1. calls = moves
        BY <1>1, <1>3, <2>1 DEF ApproveCalls
      <3>2. a <= x /\ x - a <= x
        BY <1>1, <2>1
      <3>. QED  BY <1>1, <1>3, <3>1, <3>2 DEF BeforeMoves, x
    <2>2. CASE ~(x >= a) /\ ~(x > 0)
      <3>1. ApproveCalls(x, m, a) = <<Call("APPROVE_EXACT", m, a)>>
        BY <1>1, <1>4, <2>2 DEF ApproveCalls
      <3>2. calls = <<Call("APPROVE_EXACT", m, a)>> \o moves /\ x <= x
        BY <3>1, <1>1
      <3>3. calls # <<>>
        BY <3>2, <1>3, <1>4, ConsFacts
      <3>. QED  BY <1>1, <3>2, <3>3 DEF BeforeMoves, x
    <2>3. CASE ~(x >= a) /\ x > 0
      <3>1. ApproveCalls(x, m, a) = <<Call("APPROVE_RESET", m, 0)>>
               \o <<Call("APPROVE_EXACT", m, a)>>
        BY <1>1, <1>4, <2>3 DEF ApproveCalls
      <3>2. calls = <<Call("APPROVE_RESET", m, 0)>> \o (<<Call("APPROVE_EXACT", m, a)>> \o moves)
        BY <3>1, <1>3, <1>4, ConcatAssociative
      <3>3. <<Call("APPROVE_EXACT", m, a)>> \o moves \in Seq(Calls)
        BY <1>3, <1>4, ConsFacts
      <3>4. calls # <<>>
        BY <3>2, <3>3, <1>4, ConsFacts
      <3>. QED  BY <3>2, <3>4 DEF BeforeMoves
    <2>. QED  BY <2>1, <2>2, <2>3
  <1>. QED  BY <1>2, <1>5 DEF Ahead

-----------------------------------------------------------------------------
(***************************************************************************)
(* What a call of a plan changes of a wallet.                              *)
(***************************************************************************)
LEMMA MovedFields ==
  ASSUME NEW h \in Holdings, NEW t \in Strategies, NEW m \in Markets, NEW a \in Nat
  PROVE  /\ MovedFrom(h, t, m, a).balance = Less(h.balance, m, a)
         /\ MovedFrom(h, t, m, a).allowance = h.allowance
         /\ MovedFrom(h, t, m, a).factor = h.factor
  BY DEF Holdings, MovedFrom, Less

LEMMA MovedEnters ==
  ASSUME NEW h \in Holdings, NEW t \in Strategies, NEW m \in Markets, NEW a \in Nat
  PROVE  MovedFrom(h, t, m, a).entered
             = [h.entered EXCEPT ![m] = (t = "ADD_COLLATERAL") \/ h.entered[m]]
  BY DEF Holdings, MovedFrom

LEMMA SpendFields ==
  ASSUME NEW w \in Holdings, NEW m \in Markets, NEW a \in Nat
  PROVE  /\ Spend(w, m, a).supplied = w.supplied
         /\ Spend(w, m, a).borrowed = w.borrowed
         /\ Spend(w, m, a).entered = w.entered
         /\ Spend(w, m, a).factor = w.factor
         /\ Spend(w, m, a).balance = Less(w.balance, m, a)
         /\ Spend(w, m, a).allowance = Less(w.allowance, m, a)
  BY DEF Holdings, Spend, Less

LEMMA MovedByStrategy ==
  ASSUME NEW h \in Holdings, NEW t \in Strategies, NEW m \in Markets, NEW a \in Nat
  PROVE  /\ t = "REPAY_DEBT" =>
               /\ MovedFrom(h, t, m, a).supplied = h.supplied
               /\ MovedFrom(h, t, m, a).borrowed = Less(h.borrowed, m, a)
         /\ t # "REPAY_DEBT" =>
               /\ MovedFrom(h, t, m, a).supplied = More(h.supplied, m, a)
               /\ MovedFrom(h, t, m, a).borrowed = h.borrowed
  <1>1. /\ [h.supplied EXCEPT ![m] = h.supplied[m]] = h.supplied
        /\ [h.borrowed EXCEPT ![m] = h.borrowed[m]] = h.borrowed
    BY HoldingsFields
  <1>2. ASSUME t = "REPAY_DEBT"
        PROVE  /\ MovedFrom(h, t, m, a).supplied = [h.supplied EXCEPT ![m] = h.supplied[m]]
               /\ MovedFrom(h, t, m, a).borrowed = Less(h.borrowed, m, a)
    BY <1>2 DEF MovedFrom, Holdings, Less, More
  <1>3. ASSUME t # "REPAY_DEBT"
        PROVE  /\ MovedFrom(h, t, m, a).supplied = More(h.supplied, m, a)
               /\ MovedFrom(h, t, m, a).borrowed = [h.borrowed EXCEPT ![m] = h.borrowed[m]]
    BY <1>3 DEF MovedFrom, Holdings, Less, More
  <1>. QED  BY <1>1, <1>2, <1>3

LEMMA SetHoldings ==
  ASSUME NEW w \in Holdings, NEW x \in [Markets -> Nat]
  PROVE  /\ [w EXCEPT !.supplied = x] \in Holdings /\ [w EXCEPT !.borrowed = x] \in Holdings
         /\ [w EXCEPT !.balance = x] \in Holdings /\ [w EXCEPT !.allowance = x] \in Holdings
  <1>1. [w EXCEPT !.supplied = x] \in Holdings
    BY DEF Holdings
  <1>2. [w EXCEPT !.borrowed = x] \in Holdings
    BY DEF Holdings
  <1>3. [w EXCEPT !.balance = x] \in Holdings
    BY DEF Holdings
  <1>4. [w EXCEPT !.allowance = x] \in Holdings
    BY DEF Holdings
  <1>. QED  BY <1>1, <1>2, <1>3, <1>4

LEMMA SpendTyped ==
  ASSUME NEW w \in Holdings, NEW m \in Markets, NEW a \in Nat,
         a <= w.allowance[m], a <= w.balance[m]
  PROVE  Spend(w, m, a) \in Holdings
  <1>. DEFINE v == Less(w.balance, m, a)
              x == Less(w.allowance, m, a)
  <1>1. v \in [Markets -> Nat] /\ x \in [Markets -> Nat]
    BY HoldingsFields DEF Less
  <1>2. Spend(w, m, a) = [[w EXCEPT !.balance = v] EXCEPT !.allowance = x]
    BY DEF Spend, Holdings, Less, More
  <1>. HIDE DEF v, x
  <1>3. [w EXCEPT !.balance = v] \in Holdings
    BY <1>1, SetHoldings
  <1>. DEFINE u == [w EXCEPT !.balance = v]
  <1>. HIDE DEF u
  <1>4. [u EXCEPT !.allowance = x] \in Holdings
    BY <1>1, <1>3, SetHoldings DEF u
  <1>. QED  BY <1>2, <1>4 DEF u

(* What a call does to what the wallet holds.                              *)
LEMMA ApproveFields ==
  ASSUME NEW w \in Holdings, NEW m \in Markets, NEW a \in Nat, NEW call,
         call.market = m, call.amount = a, call.rule \in {"APPROVE_RESET", "APPROVE_EXACT"}
  PROVE  /\ Execute(w, call) \in Holdings
         /\ Execute(w, call).supplied = w.supplied /\ Execute(w, call).borrowed = w.borrowed
         /\ Execute(w, call).entered = w.entered /\ Execute(w, call).balance = w.balance
         /\ Execute(w, call).factor = w.factor
         /\ Execute(w, call).allowance = [w.allowance EXCEPT ![m] = a]
  <1>1. Execute(w, call) = [w EXCEPT !.allowance[m] = a]
    BY DEF Execute
  <1>. QED  BY <1>1 DEF Holdings

LEMMA RepayFields ==
  ASSUME NEW w \in Holdings, NEW m \in Markets, NEW a \in Nat, NEW call,
         call.market = m, call.amount = a, call.rule = "REPAY_BORROW",
         Affordable(w, call), a <= w.borrowed[m]
  PROVE  /\ Execute(w, call) \in Holdings
         /\ Execute(w, call).supplied = w.supplied
         /\ Execute(w, call).borrowed = Less(w.borrowed, m, a)
         /\ Execute(w, call).entered = w.entered
         /\ Execute(w, call).balance = Less(w.balance, m, a)
         /\ Execute(w, call).factor = w.factor
         /\ Execute(w, call).allowance = Less(w.allowance, m, a)
  <1>1. Execute(w, call) = [Spend(w, m, a) EXCEPT !.borrowed[m] = @ - a]
    BY DEF Execute
  <1>2. a <= w.allowance[m] /\ a <= w.balance[m]
    BY DEF Affordable
  <1>. DEFINE v == Spend(w, m, a)
              x == Less(w.borrowed, m, a)
  <1>3. /\ v \in Holdings /\ v.borrowed = w.borrowed /\ v.supplied = w.supplied
        /\ v.borrowed = w.borrowed /\ v.entered = w.entered /\ v.factor = w.factor
        /\ v.balance = Less(w.balance, m, a)
        /\ v.allowance = Less(w.allowance, m, a)
    BY <1>2, SpendTyped, SpendFields
  <1>4. x \in [Markets -> Nat]
    BY HoldingsFields DEF Less, More
  <1>. HIDE DEF v
  <1>5. Execute(w, call) = [v EXCEPT !.borrowed = x]
    BY <1>1, <1>3 DEF v, Holdings, Less, More
  <1>. HIDE DEF x
  <1>6. [v EXCEPT !.borrowed = x] \in Holdings
    BY <1>3, <1>4, SetHoldings
  <1>7. /\ [v EXCEPT !.borrowed = x].borrowed = x
        /\ \A f \in {"supplied", "borrowed", "entered", "balance", "allowance", "factor"} :
              f # "borrowed" => [v EXCEPT !.borrowed = x][f] = v[f]
    BY <1>3 DEF Holdings
  <1>. QED  BY <1>3, <1>5, <1>6, <1>7 DEF x

LEMMA MintFields ==
  ASSUME NEW w \in Holdings, NEW m \in Markets, NEW a \in Nat, NEW call,
         call.market = m, call.amount = a, call.rule = "MINT", Affordable(w, call)
  PROVE  /\ Execute(w, call) \in Holdings
         /\ Execute(w, call).supplied = More(w.supplied, m, a)
         /\ Execute(w, call).borrowed = w.borrowed
         /\ Execute(w, call).entered = w.entered
         /\ Execute(w, call).balance = Less(w.balance, m, a)
         /\ Execute(w, call).factor = w.factor
         /\ Execute(w, call).allowance = Less(w.allowance, m, a)
  <1>1. Execute(w, call) = [Spend(w, m, a) EXCEPT !.supplied[m] = @ + a]
    BY DEF Execute
  <1>2. a <= w.allowance[m] /\ a <= w.balance[m]
    BY DEF Affordable
  <1>. DEFINE v == Spend(w, m, a)
              x == More(w.supplied, m, a)
  <1>3. /\ v \in Holdings /\ v.supplied = w.supplied /\ v.supplied = w.supplied
        /\ v.borrowed = w.borrowed /\ v.entered = w.entered /\ v.factor = w.factor
        /\ v.balance = Less(w.balance, m, a)
        /\ v.allowance = Less(w.allowance, m, a)
    BY <1>2, SpendTyped, SpendFields
  <1>4. x \in [Markets -> Nat]
    BY HoldingsFields DEF Less, More
  <1>. HIDE DEF v
  <1>5. Execute(w, call) = [v EXCEPT !.supplied = x]
    BY <1>1, <1>3 DEF v, Holdings, Less, More
  <1>. HIDE DEF x
  <1>6. [v EXCEPT !.supplied = x] \in Holdings
    BY <1>3, <1>4, SetHoldings
  <1>7. /\ [v EXCEPT !.supplied = x].supplied = x
        /\ \A f \in {"supplied", "borrowed", "entered", "balance", "allowance", "factor"} :
              f # "supplied" => [v EXCEPT !.supplied = x][f] = v[f]
    BY <1>3 DEF Holdings
  <1>. QED  BY <1>3, <1>5, <1>6, <1>7 DEF x

LEMMA EnterFields ==
  ASSUME NEW w \in Holdings, NEW m \in Markets, NEW call,
         call.market = m, call.rule = "ENTER_MARKETS"
  PROVE  /\ Execute(w, call) \in Holdings
         /\ Execute(w, call).supplied = w.supplied /\ Execute(w, call).borrowed = w.borrowed
         /\ Execute(w, call).entered = [w.entered EXCEPT ![m] = TRUE]
         /\ Execute(w, call).balance = w.balance /\ Execute(w, call).factor = w.factor
         /\ Execute(w, call).allowance = w.allowance
  <1>1. Execute(w, call) = [w EXCEPT !.entered[m] = TRUE]
    BY DEF Execute
  <1>2. [w EXCEPT !.entered[m] = TRUE] \in Holdings
    BY DEF Holdings
  <1>3. /\ Execute(w, call).supplied = w.supplied /\ Execute(w, call).borrowed = w.borrowed
        /\ Execute(w, call).entered = [w.entered EXCEPT ![m] = TRUE]
        /\ Execute(w, call).balance = w.balance /\ Execute(w, call).factor = w.factor
        /\ Execute(w, call).allowance = w.allowance
    BY <1>1 DEF Holdings
  <1>. QED  BY <1>1, <1>2, <1>3

(* Whatever is called of what is answered, the wallet holds amounts.       *)
LEMMA ExecuteTyped ==
  ASSUME NEW w \in Holdings, NEW static, NEW call \in Calls, PreviewOk(w, static, call)
  PROVE  Execute(w, call) \in Holdings
  <1>0. call.market \in Markets /\ call.amount \in Nat /\ call.rule \in Rules
    BY DEF Calls
  <1>1. CASE call.rule \in {"APPROVE_RESET", "APPROVE_EXACT"}
    BY <1>0, <1>1, ApproveFields
  <1>2. CASE call.rule = "REPAY_BORROW"
    BY <1>0, <1>2, RepayFields DEF PreviewOk
  <1>3. CASE call.rule = "MINT"
    BY <1>0, <1>3, MintFields DEF PreviewOk
  <1>4. CASE call.rule = "ENTER_MARKETS"
    BY <1>0, <1>4, EnterFields
  <1>. QED  BY <1>0, <1>1, <1>2, <1>3, <1>4 DEF Rules

LEMMA Spends ==
  ASSUME NEW h \in Holdings, NEW st, NEW t \in Strategies, NEW m \in Markets, NEW a \in Nat,
         Doable(h, st, t, m, a),
         NEW x \in Nat, a <= x, x - a <= h.allowance[m], NEW w, Approved(h, w, m, x),
         NEW call, call = Call(IF t = "REPAY_DEBT" THEN "REPAY_BORROW" ELSE "MINT", m, a)
  PROVE  PreviewOk(w, st, call) /\ HasMoved(h, Execute(w, call), t, m, a, h.entered)
  <1>1. /\ h.supplied \in [Markets -> Nat] /\ h.borrowed \in [Markets -> Nat]
        /\ h.entered \in [Markets -> BOOLEAN] /\ h.balance \in [Markets -> Nat]
        /\ h.allowance \in [Markets -> Nat]
    BY HoldingsFields
  <1>2. /\ w \in Holdings
        /\ w.supplied = h.supplied /\ w.borrowed = h.borrowed
        /\ w.entered = h.entered /\ w.balance = h.balance /\ w.factor = h.factor
        /\ w.allowance = [h.allowance EXCEPT ![m] = x]
    BY DEF Approved
  <1>3. /\ call.rule = (IF t = "REPAY_DEBT" THEN "REPAY_BORROW" ELSE "MINT")
        /\ call.market = m /\ call.amount = a /\ call \in Calls
    BY DEF Call, Calls, Rules
  <1>4. Affordable(w, call)
    BY <1>1, <1>2, <1>3 DEF Affordable, Doable
  <1>5. RemainingSupply(w, st, m) = RemainingSupply(h, st, m)
    BY <1>2 DEF RemainingSupply
  <1>6. x - a \in Nat
    OBVIOUS
  <1>7. Less(w.allowance, m, a) = [h.allowance EXCEPT ![m] = x - a]
    BY <1>1, <1>2 DEF Less
  <1>8. CASE t = "REPAY_DEBT"
    <2>1. a <= w.borrowed[m]
      BY <1>2, <1>8 DEF Doable
    <2>2. PreviewOk(w, st, call)
      BY <1>3, <1>4, <1>8, <2>1 DEF PreviewOk
    <2>4. /\ MovedFrom(h, t, m, a).supplied = h.supplied
          /\ MovedFrom(h, t, m, a).borrowed = Less(h.borrowed, m, a)
          /\ MovedFrom(h, t, m, a).balance = Less(h.balance, m, a)
      <3>1. MovedFrom(h, t, m, a).balance = Less(h.balance, m, a)
        BY MovedFields
      <3>. QED  BY <1>8, <3>1, MovedByStrategy
    <2>5. /\ Execute(w, call) \in Holdings
          /\ Execute(w, call).supplied = w.supplied
          /\ Execute(w, call).borrowed = Less(w.borrowed, m, a)
          /\ Execute(w, call).entered = w.entered
          /\ Execute(w, call).balance = Less(w.balance, m, a)
          /\ Execute(w, call).factor = w.factor
          /\ Execute(w, call).allowance = Less(w.allowance, m, a)
      BY <1>2, <1>3, <1>4, <1>8, <2>1, RepayFields
    <2>. QED  BY <1>2, <1>6, <1>7, <2>2, <2>4, <2>5 DEF HasMoved
  <1>9. CASE t # "REPAY_DEBT"
    <2>1. ~st.mintPaused[m] /\ \A rest \in RemainingSupply(w, st, m) : a <= rest
      BY <1>5, <1>9 DEF Doable, Strategies
    <2>2. PreviewOk(w, st, call)
      BY <1>3, <1>4, <1>9, <2>1 DEF PreviewOk
    <2>4. /\ MovedFrom(h, t, m, a).supplied = More(h.supplied, m, a)
          /\ MovedFrom(h, t, m, a).borrowed = h.borrowed
          /\ MovedFrom(h, t, m, a).balance = Less(h.balance, m, a)
      <3>1. MovedFrom(h, t, m, a).balance = Less(h.balance, m, a)
        BY MovedFields
      <3>. QED  BY <1>9, <3>1, MovedByStrategy
    <2>5. /\ Execute(w, call) \in Holdings
          /\ Execute(w, call).supplied = More(w.supplied, m, a)
          /\ Execute(w, call).borrowed = w.borrowed
          /\ Execute(w, call).entered = w.entered
          /\ Execute(w, call).balance = Less(w.balance, m, a)
          /\ Execute(w, call).factor = w.factor
          /\ Execute(w, call).allowance = Less(w.allowance, m, a)
      BY <1>2, <1>3, <1>4, <1>9, MintFields
    <2>. QED  BY <1>2, <1>6, <1>7, <2>2, <2>4, <2>5 DEF HasMoved
  <1>. QED  BY <1>8, <1>9

LEMMA Approves ==
  ASSUME NEW h, NEW st, NEW w, NEW m \in Markets, NEW x \in Nat,
         Approved(h, w, m, x) \/ (w = h /\ h \in Holdings),
         NEW a \in Nat, NEW rule \in {"APPROVE_RESET", "APPROVE_EXACT"}, NEW call,
         call = Call(rule, m, a)
  PROVE  PreviewOk(w, st, call) /\ Approved(h, Execute(w, call), m, a)
  <1>1. call.rule = rule /\ call.market = m /\ call.amount = a
    BY DEF Call
  <1>2. PreviewOk(w, st, call)
    BY <1>1 DEF PreviewOk
  <1>3. /\ w \in Holdings
        /\ w.supplied = h.supplied /\ w.borrowed = h.borrowed
        /\ w.entered = h.entered /\ w.balance = h.balance /\ w.factor = h.factor
        /\ [w.allowance EXCEPT ![m] = a] = [h.allowance EXCEPT ![m] = a]
    <2>1. CASE w = h /\ h \in Holdings
      BY <2>1
    <2>2. CASE Approved(h, w, m, x)
      <3>1. w.allowance = [h.allowance EXCEPT ![m] = x]
        BY <2>2 DEF Approved
      <3>2. [[h.allowance EXCEPT ![m] = x] EXCEPT ![m] = a] = [h.allowance EXCEPT ![m] = a]
        OBVIOUS
      <3>. QED  BY <2>2, <3>1, <3>2 DEF Approved
    <2>. QED  BY <2>1, <2>2
  <1>4. /\ Execute(w, call) \in Holdings
        /\ Execute(w, call).supplied = w.supplied /\ Execute(w, call).borrowed = w.borrowed
        /\ Execute(w, call).entered = w.entered /\ Execute(w, call).balance = w.balance
        /\ Execute(w, call).factor = w.factor
        /\ Execute(w, call).allowance = [w.allowance EXCEPT ![m] = a]
    BY <1>1, <1>3, ApproveFields
  <1>. QED  BY <1>2, <1>3, <1>4 DEF Approved

LEMMA Enters ==
  ASSUME NEW h \in Holdings, NEW st, NEW t, t = "ADD_COLLATERAL", NEW m \in Markets, NEW a \in Nat,
         Doable(h, st, t, m, a),
         NEW w, HasMoved(h, w, t, m, a, h.entered),
         NEW call, call = Call("ENTER_MARKETS", m, 0)
  PROVE  PreviewOk(w, st, call)
            /\ HasMoved(h, Execute(w, call), t, m, a, MovedFrom(h, t, m, a).entered)
  <1>1. call.rule = "ENTER_MARKETS" /\ call.market = m /\ call \in Calls
    BY DEF Call, Calls, Rules
  <1>2. PreviewOk(w, st, call)
    BY <1>1 DEF PreviewOk, Doable
  <1>3. w \in Holdings /\ w.entered = h.entered
    BY DEF HasMoved
  <1>4. MovedFrom(h, t, m, a).entered = [h.entered EXCEPT ![m] = TRUE]
    BY MovedEnters DEF Strategies
  <1>5. /\ Execute(w, call) \in Holdings
        /\ Execute(w, call).supplied = w.supplied /\ Execute(w, call).borrowed = w.borrowed
        /\ Execute(w, call).entered = [w.entered EXCEPT ![m] = TRUE]
        /\ Execute(w, call).balance = w.balance /\ Execute(w, call).factor = w.factor
        /\ Execute(w, call).allowance = w.allowance
    BY <1>1, <1>3, EnterFields
  <1>. QED  BY <1>2, <1>3, <1>4, <1>5 DEF HasMoved

(* Every call of a plan is answered, and leads on to the rest.             *)
LEMMA PlanGoesOn ==
  ASSUME NEW h \in Holdings, NEW st, NEW t \in Strategies, NEW m \in Markets, NEW a \in Nat,
         Doable(h, st, t, m, a),
         NEW w, NEW calls, calls # <<>>, Ahead(h, w, calls, t, m, a)
  PROVE  /\ PreviewOk(w, st, Head(calls))
         /\ Ahead(h, Execute(w, Head(calls)), Tail(calls), t, m, a)
  <1>. DEFINE reset == Call("APPROVE_RESET", m, 0)
              exact == Call("APPROVE_EXACT", m, a)
              enter == Call("ENTER_MARKETS", m, 0)
  <1>1. reset \in Calls /\ exact \in Calls /\ enter \in Calls
    BY DEF Call, Calls, Rules
  <1>2. ASSUME NEW enabled \in BOOLEAN, enabled => h.entered[m],
               BeforeMoves(h, w, calls, m, a, Moves(t, m, a, enabled))
        PROVE  /\ PreviewOk(w, st, Head(calls))
               /\ Ahead(h, Execute(w, Head(calls)), Tail(calls), t, m, a)
    <2>. DEFINE moves == Moves(t, m, a, enabled)
    <2>1. /\ moves \in Seq(Calls)
          /\ Head(moves) = Call(IF t = "REPAY_DEBT" THEN "REPAY_BORROW" ELSE "MINT", m, a)
          /\ Tail(moves) = IF t = "REPAY_DEBT" \/ enabled THEN <<>> ELSE <<enter>>
      BY MovesTyped
    <2>. HIDE DEF moves
    <2>2. <<exact>> \o moves \in Seq(Calls)
      BY <2>1, <1>1, ConsFacts
    <2>3. CASE calls = <<reset>> \o (<<exact>> \o moves) /\ w = h
      <3>1. Head(calls) = reset /\ Tail(calls) = <<exact>> \o moves
        BY <2>2, <2>3, <1>1, ConsFacts
      <3>5. PreviewOk(w, st, reset) /\ Approved(h, Execute(w, reset), m, 0)
        BY <2>3, Approves
      <3>3. 0 \in Nat /\ 0 <= h.allowance[m]
        BY HoldingsFields
      <3>4. BeforeMoves(h, Execute(w, reset), Tail(calls), m, a, moves)
        BY <3>1, <3>5, <3>3 DEF BeforeMoves
      <3>. QED  BY <3>1, <3>5, <3>4, <1>2 DEF Ahead, moves
    <2>4. CASE /\ calls = <<exact>> \o moves
               /\ \E x \in Nat : x <= h.allowance[m] /\ Approved(h, w, m, x)
      <3>1. Head(calls) = exact /\ Tail(calls) = moves
        BY <2>1, <2>4, <1>1, ConsFacts
      <3>2. PICK x \in Nat : Approved(h, w, m, x)
        BY <2>4
      <3>4. PreviewOk(w, st, exact) /\ Approved(h, Execute(w, exact), m, a)
        BY <3>2, Approves
      <3>5. a <= a /\ a - a <= h.allowance[m]
        BY HoldingsFields
      <3>6. BeforeMoves(h, Execute(w, exact), Tail(calls), m, a, moves)
        BY <3>1, <3>4, <3>5 DEF BeforeMoves
      <3>. QED  BY <3>1, <3>4, <3>6, <1>2 DEF Ahead, moves
    <2>5. CASE /\ calls = moves
               /\ \E x \in Nat : a <= x /\ x - a <= h.allowance[m] /\ Approved(h, w, m, x)
      <3>1. PreviewOk(w, st, Head(calls))
               /\ HasMoved(h, Execute(w, Head(calls)), t, m, a, h.entered)
        BY <2>1, <2>5, Spends
      <3>2. CASE t = "REPAY_DEBT" \/ enabled
        <4>1. MovedFrom(h, t, m, a).entered = h.entered
          <5>1. MovedFrom(h, t, m, a).entered =
                   [h.entered EXCEPT ![m] = (t = "ADD_COLLATERAL") \/ h.entered[m]]
            BY HoldingsFields DEF MovedFrom
          <5>2. ((t = "ADD_COLLATERAL") \/ h.entered[m]) = h.entered[m]
            BY <3>2, <1>2, HoldingsFields
          <5>3. [h.entered EXCEPT ![m] = h.entered[m]] = h.entered
            BY HoldingsFields
          <5>. QED  BY <5>1, <5>2, <5>3
        <4>. QED  BY <2>1, <2>5, <3>1, <3>2, <4>1 DEF Ahead
      <3>3. CASE ~(t = "REPAY_DEBT" \/ enabled)
        BY <2>1, <2>5, <3>1, <3>3 DEF Ahead, Strategies
      <3>. QED  BY <3>1, <3>2, <3>3
    <2>. QED  BY <1>2, <2>3, <2>4, <2>5 DEF BeforeMoves, moves
  <1>3. CASE t = "ADD_COLLATERAL" /\ calls = <<enter>> /\ HasMoved(h, w, t, m, a, h.entered)
    <2>1. Head(calls) = enter /\ Tail(calls) = <<>>
      BY <1>3
    <2>2. PreviewOk(w, st, enter)
             /\ HasMoved(h, Execute(w, enter), t, m, a, MovedFrom(h, t, m, a).entered)
      BY <1>3, Enters
    <2>. QED  BY <2>1, <2>2 DEF Ahead
  <1>. QED  BY <1>2, <1>3 DEF Ahead

-----------------------------------------------------------------------------
(***************************************************************************)
(* The change of the proposal, and what it leaves of a plan.               *)
(***************************************************************************)
HoldingFields == {"supplied", "borrowed", "entered", "balance", "allowance", "factor"}

LEMMA ChangeFields ==
  ASSUME NEW w \in Holdings, NEW static \in Statics
  PROVE  /\ ApplyChange(w, static) \in Holdings
         /\ ApplyChange(w, static).supplied = w.supplied
         /\ ApplyChange(w, static).borrowed = w.borrowed
         /\ ApplyChange(w, static).entered = w.entered
         /\ ApplyChange(w, static).allowance = w.allowance
         /\ ApplyChange(w, static).factor = [w.factor EXCEPT ![static.changed] = static.newFactor]
  <1>1. static.changed \in Markets /\ static.newFactor \in 0..10
    BY StaticFields
  <1>2. ApplyChange(w, static) \in Holdings
    BY <1>1 DEF ApplyChange, Holdings
  <1>3. /\ ApplyChange(w, static).supplied = w.supplied
        /\ ApplyChange(w, static).borrowed = w.borrowed
        /\ ApplyChange(w, static).entered = w.entered
        /\ ApplyChange(w, static).allowance = w.allowance
        /\ ApplyChange(w, static).factor = [w.factor EXCEPT ![static.changed] = static.newFactor]
    BY DEF ApplyChange, Holdings
  <1>. QED  BY <1>2, <1>3

LEMMA MovedShape ==
  ASSUME NEW h \in Holdings, NEW t, NEW m, NEW a
  PROVE  /\ MovedFrom(h, t, m, a) = [f \in HoldingFields |-> MovedFrom(h, t, m, a)[f]]
  BY DEF Holdings, MovedFrom, HoldingFields

LEMMA HasMovedIs ==
  ASSUME NEW h \in Holdings, NEW t \in Strategies, NEW m \in Markets, NEW a \in Nat,
         NEW w, HasMoved(h, w, t, m, a, MovedFrom(h, t, m, a).entered)
  PROVE  w = [MovedFrom(h, t, m, a) EXCEPT !.allowance = w.allowance]
  <1>. DEFINE v == MovedFrom(h, t, m, a)
  <1>1. v = [f \in HoldingFields |-> v[f]] /\ v.factor = h.factor
    BY MovedShape, MovedFields
  <1>2. /\ w \in Holdings /\ w.supplied = v.supplied /\ w.borrowed = v.borrowed
        /\ w.entered = v.entered /\ w.balance = v.balance /\ w.factor = h.factor
    BY DEF HasMoved
  <1>. HIDE DEF v
  <1>3. w = [v EXCEPT !.allowance = w.allowance]
    BY <1>1, <1>2 DEF Holdings, HoldingFields
  <1>. QED  BY <1>3 DEF v

LEMMA RiskAgrees ==
  ASSUME NEW w, NEW v, NEW static,
         w.supplied = v.supplied, w.borrowed = v.borrowed, w.entered = v.entered,
            w.factor = v.factor
  PROVE  RawRisk(w, static) = RawRisk(v, static)
  <1>1. Debt(w, static, Markets) = Debt(v, static, Markets)
    BY DEF Debt
  <1>2. Collateral(w, static) = Collateral(v, static)
    BY DEF Collateral
  <1>3. Unpriced(w, static) = Unpriced(v, static)
    BY DEF Unpriced
  <1>4. Liquidity(w, static) = Liquidity(v, static)
    BY <1>1, <1>2, <1>3 DEF Liquidity
  <1>. QED  BY <1>3, <1>4 DEF RawRisk

LEMMA RescuedRisk ==
  ASSUME NEW h \in Holdings, NEW st \in Statics, NEW t \in Strategies, NEW m \in Markets,
         NEW a \in Nat,
         NEW w, HasMoved(h, w, t, m, a, MovedFrom(h, t, m, a).entered)
  PROVE  RawRisk(ApplyChange(w, st), st) = RawRisk(ApplyChange(MovedFrom(h, t, m, a), st), st)
  <1>. DEFINE v == MovedFrom(h, t, m, a)
              u == ApplyChange(w, st)
              x == ApplyChange(v, st)
  <1>1. v = [f \in HoldingFields |-> v[f]] /\ v.factor = h.factor
    BY MovedShape, MovedFields
  <1>2. /\ w \in Holdings /\ w.supplied = v.supplied /\ w.borrowed = v.borrowed
        /\ w.entered = v.entered /\ w.factor = v.factor
    BY <1>1 DEF HasMoved
  <1>. HIDE DEF v
  <1>3. /\ x.supplied = v.supplied /\ x.borrowed = v.borrowed /\ x.entered = v.entered
        /\ x.factor = [v.factor EXCEPT ![st.changed] = st.newFactor]
    BY <1>1 DEF ApplyChange, HoldingFields
  <1>4. /\ u.supplied = w.supplied /\ u.borrowed = w.borrowed /\ u.entered = w.entered
        /\ u.factor = [w.factor EXCEPT ![st.changed] = st.newFactor]
    BY <1>2, ChangeFields
  <1>. HIDE DEF u, x
  <1>5. RawRisk(u, st) = RawRisk(x, st)
    BY <1>2, <1>3, <1>4, RiskAgrees
  <1>. QED  BY <1>5 DEF u, x, v

LEMMA PassesIsSolvent ==
  ASSUME NEW w, NEW static, NEW missing, NEW p, PolicyPasses(ReadRisk(w, static, missing), p)
  PROVE  RawRisk(w, static).status \notin {"SHORTFALL", "UNKNOWN"}
  <1>1. ReadRisk(w, static, missing).status = RawRisk(w, static).status
    BY DEF ReadRisk, WithBuffer, RawRisk
  <1>. QED  BY <1>1 DEF PolicyPasses

LEMMA ApprovalsAreSpent ==
  ASSUME NEW h \in Holdings, NEW st \in Statics, NEW w, NEW t, NEW m \in Markets, NEW a, NEW e,
         HasMoved(h, w, t, m, a, e)
  PROVE  \A n \in Markets : ApplyChange(w, st).allowance[n] <= h.allowance[n]
  <1>1. ApplyChange(w, st).allowance = w.allowance
    BY ChangeFields DEF HasMoved
  <1>2. PICK y \in Nat : y <= h.allowance[m] /\ w.allowance = [h.allowance EXCEPT ![m] = y]
    BY DEF HasMoved
  <1>3. h.allowance \in [Markets -> Nat]
    BY HoldingsFields
  <1>. QED  BY <1>1, <1>2, <1>3

(* What the derived buffer makes of a policy is a policy.                  *)
LEMMA RaisedTyped ==
  ASSUME NEW p \in RiskPolicySet, NEW b \in Nat \cup {NoAmount}
  PROVE  RaisedPolicy(p, b) \in RiskPolicySet
  <1>1. (IF b = NoAmount THEN 0 ELSE b) + 1 \in Nat
    BY NoAmountAssumption
  <1>. DEFINE x == (IF b = NoAmount THEN 0 ELSE b) + 1
  <1>2. x \in Nat
    BY <1>1
  <1>. HIDE DEF x
  <1>3. [p EXCEPT !.minBuffer = x] \in RiskPolicySet
    BY <1>2 DEF RiskPolicySet
  <1>. QED  BY <1>3 DEF RaisedPolicy, x

-----------------------------------------------------------------------------
(***************************************************************************)
(* What is true of the work of a session, of a wallet that holds h at the  *)
(* pinned block and the markets st.                                        *)
(***************************************************************************)
WorkFields == {"task", "stage", "purpose", "outcome", "policy", "missing", "strategy", "search",
               "verified", "snapshot", "calls", "ok", "glitched", "receipt", "results"}
OnFork == {"snapshot", "calls", "change", "judge"}

Agree(u, w, F) == DOMAIN u = WorkFields /\ \A f \in WorkFields \ F : u[f] = w[f]

TargetOf(h, st, w) == Best(h, st, w.policy, w.strategy, w.missing)
BoundFor(h, st, w) == BoundOf(h, st, w.policy, w.strategy, TargetOf(h, st, w))
AmountOf(h, st, w) ==
    IF w.policy.goal = "MAX_SAFETY" THEN BoundFor(h, st, w) ELSE Mid(w.search)

AllNone(results) == \A t \in Strategies : results[t] = NoResult

WorkTyped(w) ==
    /\ DOMAIN w = WorkFields
    /\ w.task \in {"none", "replay", "compare", "dryrun"}
    /\ w.stage \in {"idle", "open", "assess", "close", "closed"} \cup OnFork
    /\ w.purpose \in Purposes /\ w.strategy \in Strategies /\ w.policy \in RiskPolicySet
    /\ w.calls \in Seq(Calls) /\ w.ok \in BOOLEAN /\ w.glitched \in BOOLEAN
    /\ DOMAIN w.results = Strategies

(* Which stages a task goes through, and what it has found by then.        *)
Ordered(w) ==
    /\ w.stage = "calls" => w.calls # <<>> /\ w.task \in {"compare", "dryrun"}
    /\ w.stage = "open" => w.task # "none" /\ (w.task = "dryrun" => w.calls # <<>>)
    /\ w.stage \in {"snapshot", "assess"} => w.task = "compare"
    /\ w.stage \in {"change", "judge"} => w.task \in {"compare", "replay"}
    /\ w.task # "compare" => w.purpose = "measure" /\ AllNone(w.results)
    /\ w.task = "compare" /\ w.stage = "calls" => w.purpose = "branch"
    /\ w.purpose = "measure" /\ w.stage \in {"open"} \cup OnFork => AllNone(w.results)
    /\ w.stage = "open" => w.purpose = "measure"

(* A rescue is measured of a market where it is feasible, and the amounts  *)
(* between which it is looked for lie within the bound.                    *)
Aimed(h, st, w) ==
    w.task = "compare" /\ w.stage \in OnFork =>
        /\ w.purpose # "measure" => Feasible(h, st, w.policy, w.strategy, w.missing) # {}
        /\ w.purpose = "branch" =>
              /\ w.search.low \in Nat /\ w.search.high \in Nat
              /\ 1 <= w.search.low /\ w.search.low <= w.search.high
              /\ w.search.high <= BoundFor(h, st, w)
              /\ w.search.found \in w.verified \cup {NoAmount}
              /\ w.verified \subseteq Nat

Sound(h, st, w) == WorkTyped(w) /\ Ordered(w) /\ Aimed(h, st, w)

SolventAt(h, st, t, m, a) ==
    RawRisk(ApplyChange(MovedFrom(h, t, m, a), st), st).status \notin {"SHORTFALL", "UNKNOWN"}

Proved(h, st, p, t, r) ==
    r.status = "VERIFIED" =>
        /\ r.planned /\ r.amount \in 1..r.bound
        /\ \E m \in Feasible(h, st, p, t, AllRead) : SolventAt(h, st, t, m, r.amount)

(* What was verified on a fork of one's own.                               *)
Tested(h, st, w) ==
    w.stage \in OnFork /\ w.purpose = "branch" =>
        \A a \in w.verified :
            a \in 1..BoundFor(h, st, w) /\ SolventAt(h, st, w.strategy, TargetOf(h, st, w), a)

Solvent(h, st, w) ==
    /\ \A t \in Strategies : Proved(h, st, w.policy, t, w.results[t])
    /\ Tested(h, st, w)

(* A call fails only when it was lost.                                     *)
Honest(w) ==
    /\ w.outcome = "rejected" => w.stage \in {"close", "closed"}
    /\ w.outcome = "rejected" \/ (w.stage = "judge" /\ ~w.ok) => w.glitched

DryAhead(h, st, v, calls) ==
    \E t \in Strategies, m \in Markets, a \in Nat :
        Doable(h, st, t, m, a) /\ Ahead(h, v, calls, t, m, a)

FreshNode(h) == [holdings |-> h, snapshots |-> <<>>]
Marked(h, w, n) == n.snapshots = <<h>> /\ w.snapshot = 1

MovedAsPlanned(h, st, w, v) ==
    IF w.purpose = "branch"
    THEN LET t == w.strategy
             m == TargetOf(h, st, w)
             a == AmountOf(h, st, w)
         IN  HasMoved(h, v, t, m, a, MovedFrom(h, t, m, a).entered)
    ELSE v = h

(* What an Anvil holds that only this session has worked on.               *)
Expected(h, st, w, n) ==
    /\ w.stage \in {"open", "snapshot", "assess"} => n = FreshNode(h)
    /\ w.task = "dryrun" /\ w.stage = "open" => DryAhead(h, st, h, w.calls)
    /\ w.task = "dryrun" /\ w.stage = "calls" => DryAhead(h, st, n.holdings, w.calls)
    /\ w.task = "compare" /\ w.stage = "calls" =>
          /\ Marked(h, w, n)
          /\ Ahead(h, n.holdings, w.calls, w.strategy, TargetOf(h, st, w), AmountOf(h, st, w))
    /\ w.task = "compare" /\ w.stage = "change" =>
          Marked(h, w, n) /\ MovedAsPlanned(h, st, w, n.holdings)
    /\ w.task = "compare" /\ w.stage = "judge" =>
          /\ Marked(h, w, n)
          /\ w.ok => \E v \in Holdings :
                        n.holdings = ApplyChange(v, st) /\ MovedAsPlanned(h, st, w, v)
    /\ w.task = "replay" /\ w.stage = "change" => n = FreshNode(h)
    /\ w.task = "replay" /\ w.stage = "judge" => w.ok /\ n.holdings = ApplyChange(h, st)

-----------------------------------------------------------------------------
(***************************************************************************)
(* The target and the amount of a branch.                                  *)
(***************************************************************************)
LEMMA BestFacts ==
  ASSUME NEW h \in Holdings, NEW st \in Statics, NEW p \in RiskPolicySet, NEW t \in Strategies,
         NEW missing, Feasible(h, st, p, t, missing) # {}
  PROVE  LET m == Best(h, st, p, t, missing)
             b == BoundOf(h, st, p, t, m)
         IN  /\ m \in Markets /\ b \in Nat /\ 1 <= b
             /\ m \in Feasible(h, st, p, t, AllRead)
             /\ \A a \in 1..b : Doable(h, st, t, m, a)
  <1>. DEFINE m == Best(h, st, p, t, missing)
              b == BoundOf(h, st, p, t, m)
  <1>1. m \in Feasible(h, st, p, t, missing)
    BY BestIsFeasible
  <1>2. /\ m \in Markets /\ b >= 1 /\ m \in Feasible(h, st, p, t, AllRead)
        /\ t = "ADD_COLLATERAL" => st.listed[m] /\ ~st.mintPaused[m]
    BY <1>1, FeasibleFacts
  <1>3. /\ b \in Nat /\ b <= h.balance[m]
        /\ t = "REPAY_DEBT" => b <= h.borrowed[m]
        /\ t = "ADD_COLLATERAL" => \A rest \in RemainingSupply(h, st, m) : b <= rest
    BY <1>2, BoundWithin
  <1>4. h.balance[m] \in Nat /\ h.borrowed[m] \in Nat /\ RemainingSupply(h, st, m) \subseteq Nat
    BY <1>2, HoldingsFields, RemainingTyped
  <1>. HIDE DEF m, b
  <1>5. ASSUME NEW a \in 1..b PROVE Doable(h, st, t, m, a)
    <2>1. a \in Nat /\ a <= b
      BY <1>3
    <2>2. a <= h.balance[m] /\ (t = "REPAY_DEBT" => a <= h.borrowed[m])
      BY <1>3, <1>4, <2>1
    <2>3. t = "ADD_COLLATERAL" => \A rest \in RemainingSupply(h, st, m) : a <= rest
      BY <1>3, <1>4, <2>1
    <2>. QED  BY <1>2, <2>1, <2>2, <2>3 DEF Doable
  <1>. QED  BY <1>2, <1>3, <1>5 DEF m, b

LEMMA TargetFacts ==
  ASSUME NEW h \in Holdings, NEW st \in Statics, NEW w, WorkTyped(w),
         Feasible(h, st, w.policy, w.strategy, w.missing) # {}
  PROVE  LET m == TargetOf(h, st, w)
         IN  /\ m \in Markets /\ BoundFor(h, st, w) \in Nat /\ 1 <= BoundFor(h, st, w)
             /\ m \in Feasible(h, st, w.policy, w.strategy, AllRead)
             /\ \A a \in 1..BoundFor(h, st, w) : Doable(h, st, w.strategy, m, a)
  BY BestFacts DEF TargetOf, BoundFor, WorkTyped

LEMMA MidWithin ==
  ASSUME NEW low \in Nat, NEW high \in Nat, low <= high
  PROVE  LET d == (high - low) \div 2 IN low + d \in Nat /\ low <= low + d /\ low + d <= high
  OBVIOUS

LEMMA AmountFacts ==
  ASSUME NEW h \in Holdings, NEW st \in Statics, NEW w, Sound(h, st, w),
         w.task = "compare", w.stage \in OnFork, w.purpose = "branch"
  PROVE  /\ Feasible(h, st, w.policy, w.strategy, w.missing) # {}
         /\ AmountOf(h, st, w) \in 1..BoundFor(h, st, w) /\ AmountOf(h, st, w) \in Nat
         /\ w.policy.goal # "MAX_SAFETY" =>
               /\ AmountOf(h, st, w) = Mid(w.search)
               /\ w.search.low <= Mid(w.search) /\ Mid(w.search) <= w.search.high
  <1>1. WorkTyped(w) /\ Feasible(h, st, w.policy, w.strategy, w.missing) # {}
    BY DEF Sound, Aimed
  <1>2. /\ w.search.low \in Nat /\ w.search.high \in Nat
        /\ 1 <= w.search.low /\ w.search.low <= w.search.high
        /\ w.search.high <= BoundFor(h, st, w)
    BY DEF Sound, Aimed
  <1>3. BoundFor(h, st, w) \in Nat /\ 1 <= BoundFor(h, st, w)
    BY <1>1, TargetFacts
  <1>4. Mid(w.search) \in Nat /\ w.search.low <= Mid(w.search) /\ Mid(w.search) <= w.search.high
    BY <1>2, MidWithin DEF Mid
  <1>. QED  BY <1>1, <1>2, <1>3, <1>4 DEF AmountOf

LEMMA PlanTyped ==
  ASSUME NEW h \in Holdings, NEW t \in Strategies, NEW m \in Markets, NEW a \in Nat,
         NEW enabled \in BOOLEAN
  PROVE  BuildPlan(h, t, m, enabled, a) \in Seq(Calls)
  <1>1. /\ Call("APPROVE_RESET", m, 0) \in Calls /\ Call("APPROVE_EXACT", m, a) \in Calls
    BY DEF Call, Calls, Rules
  <1>2. ApproveCalls(h.allowance[m], m, a) \in Seq(Calls)
    BY <1>1 DEF ApproveCalls
  <1>3. Moves(t, m, a, enabled) \in Seq(Calls)
    BY MovesTyped
  <1>4. BuildPlan(h, t, m, enabled, a) = ApproveCalls(h.allowance[m], m, a)
           \o Moves(t, m, a, enabled)
    BY DEF BuildPlan, Moves, Strategies
  <1>. QED  BY <1>2, <1>3, <1>4

-----------------------------------------------------------------------------
(***************************************************************************)
(* The steps of a session, as changes of its record.                       *)
(***************************************************************************)
LEMMA SameAim ==
  ASSUME NEW h, NEW st, NEW u, NEW w,
         u.policy = w.policy, u.strategy = w.strategy, u.missing = w.missing
  PROVE  /\ TargetOf(h, st, u) = TargetOf(h, st, w) /\ BoundFor(h, st, u) = BoundFor(h, st, w)
         /\ u.search = w.search => AmountOf(h, st, u) = AmountOf(h, st, w)
  <1>1. TargetOf(h, st, u) = TargetOf(h, st, w)
    BY DEF TargetOf
  <1>2. BoundFor(h, st, u) = BoundFor(h, st, w)
    BY <1>1 DEF BoundFor
  <1>. QED  BY <1>1, <1>2 DEF AmountOf

(* A session that has ended, or is about to, has nothing left to expect.   *)
LEMMA NothingExpected ==
  ASSUME NEW h, NEW st, NEW w, NEW n, w.stage \in {"idle", "close", "closed"}
  PROVE  Expected(h, st, w, n)
  BY DEF Expected

LEMMA Ends ==
  ASSUME NEW h, NEW st, NEW w, Sound(h, st, w), NEW u,
         Agree(u, w, {"stage", "outcome", "glitched", "receipt", "ok"}),
         u.stage \in {"close", "closed"}, u.ok \in BOOLEAN, u.glitched \in BOOLEAN
  PROVE  Sound(h, st, u) /\ (Solvent(h, st, w) => Solvent(h, st, u))
  <1>1. /\ DOMAIN u = WorkFields /\ u.task = w.task /\ u.purpose = w.purpose
        /\ u.policy = w.policy /\ u.strategy = w.strategy /\ u.calls = w.calls
        /\ u.results = w.results
    BY DEF Agree, WorkFields
  <1>2. WorkTyped(u)
    BY <1>1 DEF Sound, WorkTyped, OnFork
  <1>3. Ordered(u)
    BY <1>1 DEF Sound, Ordered, OnFork
  <1>4. Aimed(h, st, u) /\ Tested(h, st, u)
    BY DEF Aimed, Tested, OnFork
  <1>5. Solvent(h, st, w) => Solvent(h, st, u)
    BY <1>1, <1>4 DEF Solvent
  <1>. QED  BY <1>2, <1>3, <1>4, <1>5 DEF Sound

LEMMA Begins ==
  ASSUME NEW h \in Holdings, NEW st, NEW w, Sound(h, st, w), w.stage = "open", NEW u,
         Agree(u, w, {"stage", "missing", "glitched"}), u.glitched \in BOOLEAN,
         u.stage = CASE w.task = "compare" -> "snapshot"
                     [] w.task = "replay"  -> "change"
                     [] w.task = "dryrun"  -> "calls"
  PROVE  /\ Sound(h, st, u) /\ (Solvent(h, st, w) => Solvent(h, st, u))
         /\ \A n : Expected(h, st, w, n) => Expected(h, st, u, n)
  <1>1. /\ DOMAIN u = WorkFields /\ u.task = w.task /\ u.purpose = w.purpose
        /\ u.policy = w.policy /\ u.strategy = w.strategy /\ u.calls = w.calls
        /\ u.results = w.results /\ u.ok = w.ok
    BY DEF Agree, WorkFields
  <1>2. w.task \in {"replay", "compare", "dryrun"} /\ w.purpose = "measure" /\ AllNone(w.results)
    BY DEF Sound, Ordered, WorkTyped
  <1>3. WorkTyped(u)
    BY <1>1, <1>2 DEF Sound, WorkTyped, OnFork
  <1>4. Ordered(u)
    BY <1>1, <1>2 DEF Sound, Ordered, OnFork
  <1>5. Aimed(h, st, u) /\ Tested(h, st, u)
    BY <1>1, <1>2 DEF Aimed, Tested, OnFork
  <1>6. Solvent(h, st, w) => Solvent(h, st, u)
    BY <1>1, <1>5 DEF Solvent
  <1>7. ASSUME NEW n, Expected(h, st, w, n) PROVE Expected(h, st, u, n)
    <2>1. n = FreshNode(h) /\ (w.task = "dryrun" => DryAhead(h, st, h, w.calls))
      BY <1>7 DEF Expected
    <2>2. n.holdings = h
      BY <2>1 DEF FreshNode
    <2>. QED  BY <1>1, <1>2, <2>1, <2>2 DEF Expected
  <1>. QED  BY <1>3, <1>4, <1>5, <1>6, <1>7 DEF Sound

LEMMA Snapshots ==
  ASSUME NEW h \in Holdings, NEW st \in Statics, NEW w, Sound(h, st, w), w.stage = "snapshot",
         NEW u,
         Agree(u, w, {"snapshot", "ok", "calls", "stage"}), u.ok = TRUE, NEW enabled \in BOOLEAN,
         u.calls = IF w.purpose = "branch"
                   THEN BuildPlan(h, w.strategy, TargetOf(h, st, w), enabled, AmountOf(h, st, w))
                   ELSE <<>>,
         enabled => h.entered[TargetOf(h, st, w)],
         u.stage = IF w.purpose = "branch" THEN "calls" ELSE "change"
  PROVE  /\ Sound(h, st, u) /\ (Solvent(h, st, w) => Solvent(h, st, u))
         /\ \A n : /\ Expected(h, st, w, n) /\ u.snapshot = Len(n.snapshots) + 1
                   => Expected(h, st, u, [n EXCEPT !.snapshots = Append(@, n.holdings)])
  <1>1. /\ DOMAIN u = WorkFields /\ u.task = w.task /\ u.purpose = w.purpose
        /\ u.policy = w.policy /\ u.strategy = w.strategy /\ u.missing = w.missing
        /\ u.results = w.results /\ u.glitched = w.glitched /\ u.search = w.search
        /\ u.verified = w.verified
    BY DEF Agree, WorkFields
  <1>. DEFINE t == w.strategy
              m == TargetOf(h, st, w)
              a == AmountOf(h, st, w)
  <1>2. TargetOf(h, st, u) = m /\ BoundFor(h, st, u) = BoundFor(h, st, w) /\ AmountOf(h, st, u) = a
    BY <1>1, SameAim
  <1>3. w.task = "compare" /\ w.stage \in OnFork /\ t \in Strategies
    BY DEF Sound, Ordered, WorkTyped, OnFork
  <1>4. ASSUME w.purpose = "branch"
        PROVE  /\ m \in Markets /\ a \in Nat
               /\ u.calls \in Seq(Calls) /\ u.calls # <<>> /\ Ahead(h, h, u.calls, t, m, a)
    <2>1. Feasible(h, st, w.policy, w.strategy, w.missing) # {} /\ a \in Nat
      BY <1>3, <1>4, AmountFacts
    <2>2. m \in Markets
      BY <2>1, TargetFacts DEF Sound
    <2>3. u.calls = BuildPlan(h, t, m, enabled, a)
      BY <1>4
    <2>. HIDE DEF t, m, a
    <2>. QED  BY <1>3, <2>1, <2>2, <2>3, PlanTyped, PlanBegins DEF m
  <1>. HIDE DEF m, a
  <1>5. WorkTyped(u)
    <2>1. u.calls \in Seq(Calls)
      BY <1>4
    <2>2. u.stage \in {"calls", "change"}
      OBVIOUS
    <2>. QED  BY <1>1, <2>1, <2>2 DEF Sound, WorkTyped, OnFork
  <1>6. Ordered(u)
    BY <1>1, <1>3, <1>4 DEF Sound, Ordered, OnFork
  <1>7. Aimed(h, st, u)
    BY <1>1, <1>2, <1>3 DEF Sound, Aimed, OnFork
  <1>8. Solvent(h, st, w) => Solvent(h, st, u)
    BY <1>1, <1>2, <1>3, m = TargetOf(h, st, w) DEF Solvent, Tested, OnFork, m
  <1>9. ASSUME NEW n, Expected(h, st, w, n), u.snapshot = Len(n.snapshots) + 1
        PROVE  Expected(h, st, u, [n EXCEPT !.snapshots = Append(@, n.holdings)])
    <2>. DEFINE n2 == [n EXCEPT !.snapshots = Append(@, n.holdings)]
    <2>1. n = FreshNode(h)
      BY <1>9 DEF Expected
    <2>2. n2.holdings = h /\ n2.snapshots = <<h>> /\ u.snapshot = 1
      BY <1>9, <2>1 DEF FreshNode
    <2>. HIDE DEF n2
    <2>3. Expected(h, st, u, n2)
      <3>1. CASE w.purpose = "branch"
        <4>1. Ahead(h, n2.holdings, u.calls, u.strategy, TargetOf(h, st, u), AmountOf(h, st, u))
          BY <1>1, <1>2, <1>4, <2>2, <3>1
        <4>. QED  BY <1>1, <1>3, <2>2, <3>1, <4>1 DEF Expected, Marked
      <3>2. CASE w.purpose # "branch"
        <4>1. u.stage = "change" /\ MovedAsPlanned(h, st, u, n2.holdings)
          BY <1>1, <2>2, <3>2 DEF MovedAsPlanned
        <4>. QED  BY <1>1, <1>3, <2>2, <3>2, <4>1 DEF Expected, Marked
      <3>. QED  BY <3>1, <3>2
    <2>. QED  BY <2>3 DEF n2
  <1>. QED  BY <1>5, <1>6, <1>7, <1>8, <1>9 DEF Sound

(* The calls in front of a session lead to those behind them.              *)
LEMMA AheadOf ==
  ASSUME NEW h \in Holdings, NEW st \in Statics, NEW w, Sound(h, st, w), w.stage = "calls",
         NEW n, n.holdings \in Holdings, Expected(h, st, w, n)
  PROVE  LET v == Execute(n.holdings, Head(w.calls))
         IN  /\ PreviewOk(n.holdings, st, Head(w.calls))
             /\ w.task = "dryrun" => DryAhead(h, st, v, Tail(w.calls))
             /\ w.task = "compare" =>
                   /\ w.purpose = "branch"
                   /\ Ahead(h, v, Tail(w.calls), w.strategy, TargetOf(h, st, w), AmountOf(h, st, w))
                   /\ TargetOf(h, st, w) \in Markets /\ AmountOf(h, st, w) \in Nat
  <1>. DEFINE v == Execute(n.holdings, Head(w.calls))
  <1>1. w.calls # <<>> /\ w.task \in {"compare", "dryrun"} /\ w.strategy \in Strategies
    BY DEF Sound, Ordered, WorkTyped
  <1>2. CASE w.task = "dryrun"
    <2>1. PICK t \in Strategies, m \in Markets, a \in Nat :
                Doable(h, st, t, m, a) /\ Ahead(h, n.holdings, w.calls, t, m, a)
      BY <1>2 DEF Expected, DryAhead
    <2>2. PreviewOk(n.holdings, st, Head(w.calls)) /\ Ahead(h, v, Tail(w.calls), t, m, a)
      BY <1>1, <2>1, PlanGoesOn
    <2>. HIDE DEF v
    <2>3. DryAhead(h, st, v, Tail(w.calls))
      BY <2>1, <2>2 DEF DryAhead
    <2>. QED  BY <1>2, <2>2, <2>3 DEF v
  <1>3. CASE w.task = "compare"
    <2>. DEFINE t == w.strategy
                m == TargetOf(h, st, w)
                a == AmountOf(h, st, w)
    <2>1. w.purpose = "branch" /\ w.stage \in OnFork
      BY <1>3 DEF Sound, Ordered, OnFork
    <2>2. /\ Feasible(h, st, w.policy, w.strategy, w.missing) # {}
          /\ a \in 1..BoundFor(h, st, w) /\ a \in Nat
      BY <1>3, <2>1, AmountFacts
    <2>3. m \in Markets /\ Doable(h, st, t, m, a)
      BY <2>2, TargetFacts DEF Sound
    <2>4. Ahead(h, n.holdings, w.calls, t, m, a)
      BY <1>3 DEF Expected
    <2>. HIDE DEF t, m, a
    <2>5. PreviewOk(n.holdings, st, Head(w.calls)) /\ Ahead(h, v, Tail(w.calls), t, m, a)
      BY <1>1, <2>2, <2>3, <2>4, PlanGoesOn DEF t
    <2>. QED  BY <1>3, <2>1, <2>2, <2>3, <2>5 DEF t, m, a
  <1>. QED  BY <1>1, <1>2, <1>3

LEMMA CallMade ==
  ASSUME NEW h \in Holdings, NEW st \in Statics, NEW w, Sound(h, st, w), w.stage = "calls", NEW u,
         Agree(u, w, {"calls", "stage", "outcome"}), u.calls = Tail(w.calls),
         u.stage = IF u.calls # <<>> THEN "calls"
                   ELSE IF w.task = "dryrun" THEN "close" ELSE "change"
  PROVE  /\ Sound(h, st, u) /\ (Solvent(h, st, w) => Solvent(h, st, u))
         /\ \A n, n2 : /\ n.holdings \in Holdings /\ Expected(h, st, w, n)
                       /\ n2.holdings = Execute(n.holdings, Head(w.calls))
                       /\ n2.snapshots = n.snapshots
                       => Expected(h, st, u, n2)
  <1>1. /\ DOMAIN u = WorkFields /\ u.task = w.task /\ u.purpose = w.purpose
        /\ u.policy = w.policy /\ u.strategy = w.strategy /\ u.missing = w.missing
        /\ u.results = w.results /\ u.glitched = w.glitched /\ u.search = w.search
        /\ u.verified = w.verified /\ u.ok = w.ok /\ u.snapshot = w.snapshot
    BY DEF Agree, WorkFields
  <1>2. /\ TargetOf(h, st, u) = TargetOf(h, st, w) /\ BoundFor(h, st, u) = BoundFor(h, st, w)
        /\ AmountOf(h, st, u) = AmountOf(h, st, w)
    BY <1>1, SameAim
  <1>3. /\ w.calls # <<>> /\ w.calls \in Seq(Calls) /\ w.task \in {"compare", "dryrun"}
        /\ w.strategy \in Strategies
        /\ w.task = "compare" => w.purpose = "branch"
    BY DEF Sound, Ordered, WorkTyped
  <1>4. WorkTyped(u)
    <2>1. u.calls \in Seq(Calls)
      BY <1>3
    <2>2. u.stage \in {"calls", "close", "change"}
      OBVIOUS
    <2>. QED  BY <1>1, <2>1, <2>2 DEF Sound, WorkTyped, OnFork
  <1>5. Ordered(u)
    BY <1>1, <1>3 DEF Sound, Ordered, OnFork
  <1>6. Aimed(h, st, u)
    BY <1>1, <1>2, <1>3 DEF Sound, Aimed, OnFork
  <1>7. Solvent(h, st, w) => Solvent(h, st, u)
    BY <1>1, <1>2, <1>3 DEF Solvent, Tested, OnFork
  <1>8. ASSUME NEW n, NEW n2, n.holdings \in Holdings, Expected(h, st, w, n),
               n2.holdings = Execute(n.holdings, Head(w.calls)), n2.snapshots = n.snapshots
        PROVE  Expected(h, st, u, n2)
    <2>. DEFINE v == Execute(n.holdings, Head(w.calls))
                m == TargetOf(h, st, w)
                a == AmountOf(h, st, w)
    <2>1. /\ w.task = "dryrun" => DryAhead(h, st, v, u.calls)
          /\ w.task = "compare" => Ahead(h, v, u.calls, w.strategy, m, a)
      BY <1>8, AheadOf
    <2>2. w.task = "compare" => Marked(h, u, n2)
      BY <1>1, <1>8 DEF Expected, Marked
    <2>3. n2.holdings = v
      BY <1>8
    <2>. HIDE DEF v
    <2>4. CASE u.calls # <<>>
      BY <1>1, <1>2, <1>3, <2>1, <2>2, <2>3, <2>4 DEF Expected
    <2>5. CASE u.calls = <<>> /\ w.task = "dryrun"
      BY <1>1, <2>5 DEF Expected
    <2>6. CASE u.calls = <<>> /\ w.task = "compare"
      <3>. HIDE DEF m, a
      <3>1. HasMoved(h, v, w.strategy, m, a, MovedFrom(h, w.strategy, m, a).entered)
        <4>. DEFINE t == w.strategy
        <4>1. m \in Markets /\ a \in Nat
          BY <1>8, <2>6, AheadOf DEF m, a
        <4>5. t \in Strategies
          BY <1>3
        <4>. HIDE DEF t
        <4>2. ASSUME NEW enabled \in BOOLEAN, BeforeMoves(h, v, <<>>, m, a, Moves(t, m, a, enabled))
              PROVE  FALSE
          <5>. DEFINE moves == Moves(t, m, a, enabled)
                      reset == Call("APPROVE_RESET", m, 0)
                      exact == Call("APPROVE_EXACT", m, a)
          <5>1. moves \in Seq(Calls) /\ moves # <<>>
            BY <4>1, <4>2, <4>5, MovesTyped
          <5>2. reset \in Calls /\ exact \in Calls
            BY <4>1 DEF Call, Calls, Rules
          <5>. HIDE DEF moves, reset, exact
          <5>3. <<exact>> \o moves \in Seq(Calls) /\ <<exact>> \o moves # <<>>
            BY <5>1, <5>2, ConsFacts
          <5>4. <<reset>> \o (<<exact>> \o moves) # <<>>
            BY <5>2, <5>3, ConsFacts
          <5>. QED  BY <4>2, <5>1, <5>3, <5>4 DEF BeforeMoves, moves, reset, exact
        <4>3. Ahead(h, v, <<>>, t, m, a)
          BY <2>1, <2>6 DEF t
        <4>4. <<Call("ENTER_MARKETS", m, 0)>> # <<>>
          OBVIOUS
        <4>. QED  BY <4>2, <4>3, <4>4 DEF Ahead, t
      <3>3. HasMoved(h, n2.holdings, u.strategy, TargetOf(h, st, u), AmountOf(h, st, u),
                     MovedFrom(h, u.strategy, TargetOf(h, st, u), AmountOf(h, st, u)).entered)
        BY <1>1, <1>2, <2>3, <3>1 DEF m, a
      <3>2. MovedAsPlanned(h, st, u, n2.holdings)
        <4>1. u.purpose = "branch"
          BY <1>1, <1>3, <2>6
        <4>. QED  BY <3>3, <4>1 DEF MovedAsPlanned
      <3>. QED  BY <1>1, <2>2, <2>6, <3>2 DEF Expected
    <2>. QED  BY <1>3, <2>4, <2>5, <2>6
  <1>. QED  BY <1>4, <1>5, <1>6, <1>7, <1>8 DEF Sound

LEMMA CallFailed ==
  ASSUME NEW h \in Holdings, NEW st \in Statics, NEW w, Sound(h, st, w), w.stage = "calls", NEW u,
         Agree(u, w, {"ok", "stage", "outcome", "glitched"}), u.ok = FALSE, u.glitched \in BOOLEAN,
         u.stage = IF w.task = "dryrun" THEN "close" ELSE "judge"
  PROVE  /\ Sound(h, st, u) /\ (Solvent(h, st, w) => Solvent(h, st, u))
         /\ \A n, n2 : Expected(h, st, w, n) /\ n2.snapshots = n.snapshots => Expected(h, st, u, n2)
  <1>1. /\ DOMAIN u = WorkFields /\ u.task = w.task /\ u.purpose = w.purpose
        /\ u.policy = w.policy /\ u.strategy = w.strategy /\ u.missing = w.missing
        /\ u.results = w.results /\ u.search = w.search /\ u.calls = w.calls
        /\ u.verified = w.verified /\ u.snapshot = w.snapshot
    BY DEF Agree, WorkFields
  <1>2. /\ TargetOf(h, st, u) = TargetOf(h, st, w) /\ BoundFor(h, st, u) = BoundFor(h, st, w)
        /\ AmountOf(h, st, u) = AmountOf(h, st, w)
    BY <1>1, SameAim
  <1>3. w.task \in {"compare", "dryrun"} /\ (w.task = "compare" => w.purpose = "branch")
    BY DEF Sound, Ordered
  <1>4. WorkTyped(u)
    BY <1>1 DEF Sound, WorkTyped, OnFork
  <1>5. Ordered(u)
    BY <1>1, <1>3 DEF Sound, Ordered, OnFork
  <1>6. Aimed(h, st, u)
    BY <1>1, <1>2, <1>3 DEF Sound, Aimed, OnFork
  <1>7. Solvent(h, st, w) => Solvent(h, st, u)
    BY <1>1, <1>2, <1>3 DEF Solvent, Tested, OnFork
  <1>8. ASSUME NEW n, NEW n2, Expected(h, st, w, n), n2.snapshots = n.snapshots
        PROVE  Expected(h, st, u, n2)
    BY <1>1, <1>3, <1>8 DEF Expected, Marked
  <1>. QED  BY <1>4, <1>5, <1>6, <1>7, <1>8 DEF Sound

LEMMA Changes ==
  ASSUME NEW h \in Holdings, NEW st \in Statics, NEW w, Sound(h, st, w), w.stage = "change",
         NEW lost \in BOOLEAN, NEW u,
         Agree(u, w, {"ok", "stage", "outcome", "glitched"}), u.ok = ~lost, u.glitched \in BOOLEAN,
         u.stage = IF lost /\ w.task = "replay" THEN "close" ELSE "judge"
  PROVE  /\ Sound(h, st, u) /\ (Solvent(h, st, w) => Solvent(h, st, u))
         /\ \A n, n2 : /\ n.holdings \in Holdings /\ Expected(h, st, w, n)
                       /\ n2.holdings = ApplyChange(n.holdings, st) \/ lost
                       /\ n2.snapshots = n.snapshots
                       => Expected(h, st, u, n2)
  <1>1. /\ DOMAIN u = WorkFields /\ u.task = w.task /\ u.purpose = w.purpose
        /\ u.policy = w.policy /\ u.strategy = w.strategy /\ u.missing = w.missing
        /\ u.results = w.results /\ u.search = w.search /\ u.calls = w.calls
        /\ u.verified = w.verified /\ u.snapshot = w.snapshot
    BY DEF Agree, WorkFields
  <1>2. /\ TargetOf(h, st, u) = TargetOf(h, st, w) /\ BoundFor(h, st, u) = BoundFor(h, st, w)
        /\ AmountOf(h, st, u) = AmountOf(h, st, w)
    BY <1>1, SameAim
  <1>3. w.task \in {"compare", "replay"}
    BY DEF Sound, Ordered
  <1>4. WorkTyped(u)
    BY <1>1 DEF Sound, WorkTyped, OnFork
  <1>5. Ordered(u)
    BY <1>1, <1>3 DEF Sound, Ordered, OnFork
  <1>6. Aimed(h, st, u)
    BY <1>1, <1>2, <1>3 DEF Sound, Aimed, OnFork
  <1>7. Solvent(h, st, w) => Solvent(h, st, u)
    BY <1>1, <1>2, <1>3 DEF Solvent, Tested, OnFork
  <1>8. ASSUME NEW n, NEW n2, n.holdings \in Holdings, Expected(h, st, w, n),
               n2.holdings = ApplyChange(n.holdings, st) \/ lost,
               n2.snapshots = n.snapshots
        PROVE  Expected(h, st, u, n2)
    <2>1. CASE w.task = "replay"
      <3>1. n.holdings = h
        BY <2>1, <1>8 DEF Expected, FreshNode
      <3>. QED  BY <1>1, <1>8, <2>1, <3>1 DEF Expected
    <2>2. CASE w.task = "compare"
      <3>1. Marked(h, u, n2) /\ MovedAsPlanned(h, st, w, n.holdings)
        BY <1>1, <1>8, <2>2 DEF Expected, Marked
      <3>2. MovedAsPlanned(h, st, u, n.holdings)
        BY <1>1, <1>2, <3>1 DEF MovedAsPlanned
      <3>. QED  BY <1>1, <1>8, <2>2, <3>1, <3>2 DEF Expected
    <2>. QED  BY <1>3, <2>1, <2>2
  <1>. QED  BY <1>4, <1>5, <1>6, <1>7, <1>8 DEF Sound

-----------------------------------------------------------------------------
(***************************************************************************)
(* A branch reverts to its snapshot, and a session settles.                *)
(***************************************************************************)
LEMMA Reverts ==
  ASSUME NEW h, NEW w, NEW n, Marked(h, w, n)
  PROVE  Revert(n, w.snapshot) = FreshNode(h)
  <1>1. n.snapshots = <<h>> /\ w.snapshot = 1
    BY DEF Marked
  <1>2. Len(n.snapshots) = 1 /\ n.snapshots[1] = h
    BY <1>1
  <1>3. SubSeq(<<h>>, 1, 0) = <<>>
    OBVIOUS
  <1>4. 1 \in 1..Len(n.snapshots) /\ 1 - 1 = 0
    BY <1>2
  <1>. QED  BY <1>1, <1>2, <1>3, <1>4 DEF Revert, FreshNode

LEMMA RevertTyped ==
  ASSUME NEW n \in [holdings : Holdings, snapshots : Seq(Holdings)], NEW id
  PROVE  Revert(n, id) \in [holdings : Holdings, snapshots : Seq(Holdings)]
  <1>1. CASE id \in 1..Len(n.snapshots)
    <2>1. n.snapshots \in Seq(Holdings) /\ id \in Nat /\ 1 <= id /\ id <= Len(n.snapshots)
      BY <1>1
    <2>2. n.snapshots[id] \in Holdings /\ SubSeq(n.snapshots, 1, id - 1) \in Seq(Holdings)
      BY <2>1
    <2>. QED  BY <1>1, <2>2 DEF Revert
  <1>2. CASE id \notin 1..Len(n.snapshots)
    BY <1>2 DEF Revert
  <1>. QED  BY <1>1, <1>2

LEMMA SettleFields ==
  ASSUME NEW w, WorkTyped(w), NEW r, NEW u, u = Settle(w, r)
  PROVE  /\ Agree(u, w, {"results", "strategy", "stage", "outcome"})
         /\ u.results = [w.results EXCEPT ![w.strategy] = r]
         /\ u.strategy \in Strategies /\ u.stage \in {"assess", "close"}
         /\ u.outcome \in {w.outcome, "ok"}
  <1>1. DOMAIN w = WorkFields /\ w.strategy \in Strategies
    BY DEF WorkTyped
  <1>2. CASE w.strategy = "REPAY_DEBT"
    <2>1. u = [w EXCEPT !.results["REPAY_DEBT"] = r, !.strategy = "ADD_COLLATERAL", !.stage = "assess"]
      BY <1>2 DEF Settle
    <2>2. Agree(u, w, {"results", "strategy", "stage", "outcome"})
      BY <1>1, <2>1 DEF Agree, WorkFields
    <2>3. /\ u.results = [w.results EXCEPT !["REPAY_DEBT"] = r] /\ u.strategy = "ADD_COLLATERAL"
          /\ u.stage = "assess" /\ u.outcome = w.outcome
      BY <1>1, <2>1 DEF WorkFields
    <2>. QED  BY <1>2, <2>2, <2>3 DEF Strategies
  <1>3. CASE w.strategy # "REPAY_DEBT"
    <2>1. u = [w EXCEPT !.results["ADD_COLLATERAL"] = r, !.stage = "close", !.outcome = "ok"]
      BY <1>3 DEF Settle
    <2>2. Agree(u, w, {"results", "strategy", "stage", "outcome"})
      BY <1>1, <2>1 DEF Agree, WorkFields
    <2>3. /\ u.results = [w.results EXCEPT !["ADD_COLLATERAL"] = r] /\ u.strategy = w.strategy
          /\ u.stage = "close" /\ u.outcome = "ok"
      BY <1>1, <2>1 DEF WorkFields
    <2>4. w.strategy = "ADD_COLLATERAL"
      BY <1>1, <1>3 DEF Strategies
    <2>. QED  BY <1>1, <2>2, <2>3, <2>4
  <1>. QED  BY <1>2, <1>3

LEMMA Settles ==
  ASSUME NEW h, NEW st, NEW w, Sound(h, st, w), w.task = "compare", NEW r, NEW u,
         Agree(u, w, {"results", "strategy", "stage", "outcome", "search", "verified", "glitched"}),
         u.results = [w.results EXCEPT ![w.strategy] = r],
         u.strategy \in Strategies, u.stage \in {"assess", "close"}, u.glitched \in BOOLEAN
  PROVE  /\ Sound(h, st, u)
         /\ Solvent(h, st, w) /\ Proved(h, st, w.policy, w.strategy, r) => Solvent(h, st, u)
         /\ Expected(h, st, u, FreshNode(h))
  <1>1. /\ DOMAIN u = WorkFields /\ u.task = w.task /\ u.purpose = w.purpose
        /\ u.policy = w.policy /\ u.calls = w.calls /\ u.ok = w.ok
    BY DEF Agree, WorkFields
  <1>2. DOMAIN w.results = Strategies /\ w.strategy \in Strategies
    BY DEF Sound, WorkTyped
  <1>3. WorkTyped(u)
    BY <1>1, <1>2 DEF Sound, WorkTyped, OnFork
  <1>4. Ordered(u)
    BY <1>1 DEF Ordered, OnFork
  <1>5. Aimed(h, st, u) /\ Tested(h, st, u)
    BY DEF Aimed, Tested, OnFork
  <1>6. ASSUME Solvent(h, st, w), Proved(h, st, w.policy, w.strategy, r), NEW t \in Strategies
        PROVE  Proved(h, st, u.policy, t, u.results[t])
    <2>1. u.results[t] = IF t = w.strategy THEN r ELSE w.results[t]
      BY <1>2
    <2>. QED  BY <1>1, <1>6, <2>1 DEF Solvent
  <1>7. Expected(h, st, u, FreshNode(h))
    BY DEF Expected
  <1>. QED  BY <1>3, <1>4, <1>5, <1>6, <1>7 DEF Sound, Solvent

LEMMA Finalized ==
  ASSUME NEW w, NEW amount, NEW complete, NEW bound,
         FinalizeResult(w, amount, complete, bound).status = "VERIFIED"
  PROVE  /\ amount \in w.verified
         /\ FinalizeResult(w, amount, complete, bound).amount = amount
         /\ FinalizeResult(w, amount, complete, bound).bound = bound
         /\ FinalizeResult(w, amount, complete, bound).planned
  BY DEF FinalizeResult, Result

(* To a new measurement, of the fresh fork.                                *)
LEMMA Resumes ==
  ASSUME NEW h, NEW st, NEW w, Sound(h, st, w), w.task = "compare", NEW u,
         Agree(u, w, {"stage", "purpose", "verified", "search", "glitched"}),
         u.stage = "snapshot", u.purpose \in {"confirm", "branch"}, u.glitched \in BOOLEAN,
         Feasible(h, st, w.policy, w.strategy, w.missing) # {},
         u.purpose = "branch" =>
            /\ u.search.low \in Nat /\ u.search.high \in Nat
            /\ 1 <= u.search.low /\ u.search.low <= u.search.high
            /\ u.search.high <= BoundFor(h, st, w)
            /\ u.search.found \in u.verified \cup {NoAmount} /\ u.verified \subseteq Nat
  PROVE  /\ Sound(h, st, u)
         /\ /\ Solvent(h, st, w)
            /\ u.purpose = "branch" =>
                  \A a \in u.verified :
                      a \in 1..BoundFor(h, st, w)
                      /\ SolventAt(h, st, w.strategy, TargetOf(h, st, w), a)
            => Solvent(h, st, u)
         /\ Expected(h, st, u, FreshNode(h))
  <1>1. /\ DOMAIN u = WorkFields /\ u.task = w.task /\ u.policy = w.policy /\ u.calls = w.calls
        /\ u.ok = w.ok /\ u.strategy = w.strategy /\ u.missing = w.missing /\ u.results = w.results
    BY DEF Agree, WorkFields
  <1>2. TargetOf(h, st, u) = TargetOf(h, st, w) /\ BoundFor(h, st, u) = BoundFor(h, st, w)
    BY <1>1, SameAim
  <1>3. WorkTyped(u)
    BY <1>1 DEF Sound, WorkTyped, OnFork, Purposes
  <1>4. Ordered(u)
    BY <1>1 DEF Ordered, OnFork
  <1>5. Aimed(h, st, u)
    BY <1>1, <1>2 DEF Aimed, OnFork
  <1>6. Expected(h, st, u, FreshNode(h))
    BY <1>1 DEF Expected
  <1>7. ASSUME Solvent(h, st, w),
               u.purpose = "branch" =>
                  \A a \in u.verified :
                      a \in 1..BoundFor(h, st, w)
                      /\ SolventAt(h, st, w.strategy, TargetOf(h, st, w), a)
        PROVE  Solvent(h, st, u)
    BY <1>1, <1>2, <1>7 DEF Solvent, Tested
  <1>. QED  BY <1>3, <1>4, <1>5, <1>6, <1>7 DEF Sound

-----------------------------------------------------------------------------
(***************************************************************************)
(* Two records of a session that agree; lost calls; where branches end.    *)
(***************************************************************************)
LEMMA AgreeJoins ==
  ASSUME NEW u, NEW v, NEW w, NEW F, NEW G, Agree(u, v, F), Agree(v, w, G)
  PROVE  Agree(u, w, F \cup G)
  BY DEF Agree

LEMMA AgreeWidens ==
  ASSUME NEW u, NEW w, NEW F, NEW G, Agree(u, w, F), F \subseteq G
  PROVE  Agree(u, w, G)
  BY DEF Agree

(* MayFail: the step with or without the mark of a lost call.              *)
Marking(w, failed) == IF failed THEN [w EXCEPT !.glitched = TRUE] ELSE w

LEMMA MarkingFields ==
  ASSUME NEW w, DOMAIN w = WorkFields, w.glitched \in BOOLEAN, NEW failed \in BOOLEAN
  PROVE  /\ Agree(Marking(w, failed), w, {"glitched"})
         /\ Marking(w, failed).glitched \in BOOLEAN
         /\ failed \/ w.glitched => Marking(w, failed).glitched
         /\ ~failed => Marking(w, failed) = w
  <1>1. CASE failed
    BY <1>1 DEF Marking, Agree, WorkFields
  <1>2. CASE ~failed
    BY <1>2 DEF Marking, Agree, WorkFields
  <1>. QED  BY <1>1, <1>2

LEMMA Measured ==
  ASSUME NEW h, NEW st, NEW w, Sound(h, st, w), w.task = "compare", w.stage = "judge",
         w.purpose = "measure", NEW u, Agree(u, w, {"stage", "policy", "glitched"}),
         u.stage = "assess", u.policy \in RiskPolicySet, u.glitched \in BOOLEAN
  PROVE  /\ Sound(h, st, u) /\ Solvent(h, st, u)
         /\ Expected(h, st, u, FreshNode(h))
  <1>1. /\ DOMAIN u = WorkFields /\ u.task = w.task /\ u.purpose = w.purpose /\ u.calls = w.calls
        /\ u.ok = w.ok /\ u.strategy = w.strategy /\ u.results = w.results
    BY DEF Agree, WorkFields
  <1>2. AllNone(w.results)
    BY DEF Sound, Ordered, OnFork
  <1>3. WorkTyped(u)
    BY <1>1 DEF Sound, WorkTyped, OnFork
  <1>4. Ordered(u)
    BY <1>1 DEF Ordered, OnFork
  <1>5. Aimed(h, st, u) /\ Tested(h, st, u)
    BY DEF Aimed, Tested, OnFork
  <1>6. Solvent(h, st, u)
    BY <1>1, <1>2, <1>5 DEF Solvent, Proved, AllNone, NoResult
  <1>7. Expected(h, st, u, FreshNode(h))
    BY DEF Expected
  <1>. QED  BY <1>3, <1>4, <1>5, <1>6, <1>7 DEF Sound

LEMMA Probed ==
  ASSUME NEW s, s.low \in Nat, s.high \in Nat, 1 <= s.low, s.low <= s.high,
         NEW b \in Nat, s.high <= b, NEW passed \in BOOLEAN
  PROVE  LET p == Probe(s, passed)
         IN  /\ p.low \in Nat /\ 1 <= p.low /\ p.high \in Int /\ p.high <= b
             /\ ~Ended(p) => p.high \in Nat /\ p.low <= p.high
             /\ p.found = IF passed THEN Mid(s) ELSE s.found
  <1>1. Mid(s) \in Nat /\ s.low <= Mid(s) /\ Mid(s) <= s.high
    BY MidWithin DEF Mid
  <1>2. CASE passed
    BY <1>1, <1>2 DEF Probe, Ended, Complete
  <1>3. CASE ~passed
    BY <1>1, <1>3 DEF Probe, Ended, Complete
  <1>. QED  BY <1>2, <1>3

(* The amounts that have passed so far, a branch's own included.           *)
Rescuing(h, st, w, amounts) ==
    \A y \in amounts :
        y \in 1..BoundFor(h, st, w) /\ SolventAt(h, st, w.strategy, TargetOf(h, st, w), y)

LEMMA Tries ==
  ASSUME NEW h \in Holdings, NEW st \in Statics, NEW w, Sound(h, st, w),
         w.task = "compare", w.stage = "judge", w.purpose = "branch", NEW passed \in BOOLEAN,
         NEW verified,
         verified = IF passed THEN w.verified \cup {AmountOf(h, st, w)} ELSE w.verified
  PROVE  /\ Feasible(h, st, w.policy, w.strategy, w.missing) # {}
         /\ AmountOf(h, st, w) \in Nat
         /\ w.policy.goal # "MAX_SAFETY" => AmountOf(h, st, w) = Mid(w.search)
         /\ BoundFor(h, st, w) \in Nat
         /\ TargetOf(h, st, w) \in Feasible(h, st, w.policy, w.strategy, AllRead)
         /\ w.search.low \in Nat /\ w.search.high \in Nat
         /\ 1 <= w.search.low /\ w.search.low <= w.search.high
         /\ w.search.high <= BoundFor(h, st, w)
         /\ w.search.found \in w.verified \cup {NoAmount} /\ w.verified \subseteq Nat
         /\ /\ Solvent(h, st, w)
            /\ passed => SolventAt(h, st, w.strategy, TargetOf(h, st, w), AmountOf(h, st, w))
            => Rescuing(h, st, w, verified)
  <1>. DEFINE b == BoundFor(h, st, w)
              m == TargetOf(h, st, w)
              a == AmountOf(h, st, w)
  <1>1. /\ Feasible(h, st, w.policy, w.strategy, w.missing) # {}
        /\ a \in 1..b /\ a \in Nat
        /\ w.policy.goal # "MAX_SAFETY" => a = Mid(w.search)
    BY AmountFacts DEF OnFork
  <1>2. b \in Nat /\ m \in Feasible(h, st, w.policy, w.strategy, AllRead)
    BY <1>1, TargetFacts DEF Sound
  <1>3. /\ w.search.low \in Nat /\ w.search.high \in Nat
        /\ 1 <= w.search.low /\ w.search.low <= w.search.high /\ w.search.high <= b
        /\ w.search.found \in w.verified \cup {NoAmount} /\ w.verified \subseteq Nat
    BY DEF Sound, Aimed, OnFork
  <1>4. ASSUME Solvent(h, st, w), passed => SolventAt(h, st, w.strategy, m, a)
        PROVE  Rescuing(h, st, w, verified)
    <2>1. \A y \in w.verified : y \in 1..b /\ SolventAt(h, st, w.strategy, m, y)
      BY <1>4 DEF Solvent, Tested, OnFork
    <2>. HIDE DEF b, m, a
    <2>2. \A y \in verified : y \in w.verified \/ (passed /\ y = a)
      BY DEF a
    <2>3. \A y \in verified : y \in 1..b /\ SolventAt(h, st, w.strategy, m, y)
      BY <1>1, <1>4, <2>1, <2>2
    <2>. QED  BY <2>3 DEF Rescuing, b, m
  <1>. QED  BY <1>1, <1>2, <1>3, <1>4

(* A branch was judged, and the result of its strategy is settled.         *)
LEMMA BranchSettles ==
  ASSUME NEW h \in Holdings, NEW st \in Statics, NEW w, Sound(h, st, w),
         w.task = "compare", w.stage = "judge", w.purpose = "branch", NEW passed \in BOOLEAN,
         NEW x, Agree(x, w, {"verified", "search"}),
         x.verified = IF passed THEN w.verified \cup {AmountOf(h, st, w)} ELSE w.verified,
         NEW u, u.glitched \in BOOLEAN, NEW amount, NEW complete,
         Agree(u, x, {"results", "strategy", "stage", "outcome", "glitched"}),
         u.results = [x.results EXCEPT ![x.strategy] =
                         FinalizeResult(x, amount, complete, BoundFor(h, st, w))],
         u.strategy \in Strategies, u.stage \in {"assess", "close"}
  PROVE  /\ Sound(h, st, u)
         /\ /\ Solvent(h, st, w)
            /\ passed => SolventAt(h, st, w.strategy, TargetOf(h, st, w), AmountOf(h, st, w))
            => Solvent(h, st, u)
         /\ Expected(h, st, u, FreshNode(h))
  <1>. DEFINE Was == /\ Solvent(h, st, w)
                     /\ passed => SolventAt(h, st, w.strategy, TargetOf(h, st, w), AmountOf(h, st, w))
              r == FinalizeResult(x, amount, complete, BoundFor(h, st, w))
  <1>1. /\ TargetOf(h, st, w) \in Feasible(h, st, w.policy, w.strategy, AllRead)
        /\ Was => Rescuing(h, st, w, x.verified)
    BY Tries
  <1>2. Agree(u, w, {"results", "strategy", "stage", "outcome", "search", "verified", "glitched"})
    <2>1. Agree(u, w, {"results", "strategy", "stage", "outcome", "glitched"} \cup {"verified", "search"})
      BY AgreeJoins
    <2>. QED  BY <2>1, AgreeWidens
  <1>3. x.results = w.results /\ x.strategy = w.strategy
    BY DEF Agree, WorkFields
  <1>. HIDE DEF Was
  <1>4. Was => Proved(h, st, w.policy, w.strategy, r)
    <2>1. ASSUME Was, r.status = "VERIFIED" PROVE Proved(h, st, w.policy, w.strategy, r)
      <3>1. amount \in x.verified /\ r.amount = amount /\ r.bound = BoundFor(h, st, w) /\ r.planned
        BY <2>1, Finalized
      <3>. HIDE DEF r
      <3>2. r.amount \in 1..r.bound /\ SolventAt(h, st, w.strategy, TargetOf(h, st, w), r.amount)
        BY <1>1, <2>1, <3>1 DEF Rescuing
      <3>. QED  BY <1>1, <3>1, <3>2 DEF Proved
    <2>. QED  BY <2>1 DEF Proved
  <1>. HIDE DEF r
  <1>5. u.results = [w.results EXCEPT ![w.strategy] = r]
    BY <1>3 DEF r
  <1>6. /\ Sound(h, st, u)
        /\ Solvent(h, st, w) /\ Proved(h, st, w.policy, w.strategy, r) => Solvent(h, st, u)
        /\ Expected(h, st, u, FreshNode(h))
    BY <1>2, <1>5, Settles
  <1>. QED  BY <1>4, <1>6 DEF Was

(* Or the search goes on.                                                  *)
LEMMA BranchGoesOn ==
  ASSUME NEW h \in Holdings, NEW st \in Statics, NEW w, Sound(h, st, w),
         w.task = "compare", w.stage = "judge", w.purpose = "branch", NEW passed \in BOOLEAN,
         NEW x, Agree(x, w, {"verified", "search"}),
         x.verified = IF passed THEN w.verified \cup {AmountOf(h, st, w)} ELSE w.verified,
         x.search = Probe(w.search, passed),
         NEW u, u.glitched \in BOOLEAN, Agree(u, x, {"stage", "glitched"}), u.stage = "snapshot",
         w.policy.goal # "MAX_SAFETY", ~Ended(x.search)
  PROVE  /\ Sound(h, st, u)
         /\ /\ Solvent(h, st, w)
            /\ passed => SolventAt(h, st, w.strategy, TargetOf(h, st, w), AmountOf(h, st, w))
            => Solvent(h, st, u)
         /\ Expected(h, st, u, FreshNode(h))
  <1>. DEFINE Was == /\ Solvent(h, st, w)
                     /\ passed => SolventAt(h, st, w.strategy, TargetOf(h, st, w), AmountOf(h, st, w))
              b == BoundFor(h, st, w)
  <1>1. /\ Feasible(h, st, w.policy, w.strategy, w.missing) # {}
        /\ AmountOf(h, st, w) = Mid(w.search) /\ AmountOf(h, st, w) \in Nat /\ b \in Nat
        /\ w.search.low \in Nat /\ w.search.high \in Nat
        /\ 1 <= w.search.low /\ w.search.low <= w.search.high /\ w.search.high <= b
        /\ w.search.found \in w.verified \cup {NoAmount} /\ w.verified \subseteq Nat
        /\ Was => Rescuing(h, st, w, x.verified)
    BY Tries
  <1>2. Agree(u, w, {"stage", "purpose", "verified", "search", "glitched"})
    <2>1. Agree(u, w, {"stage", "glitched"} \cup {"verified", "search"})
      BY AgreeJoins
    <2>. QED  BY <2>1, AgreeWidens
  <1>3. u.purpose = "branch" /\ u.search = x.search /\ u.verified = x.verified
    BY DEF Agree, WorkFields
  <1>. DEFINE p == Probe(w.search, passed)
  <1>. HIDE DEF Was, b
  <1>4. /\ p.low \in Nat /\ 1 <= p.low /\ p.high \in Nat /\ p.high <= b /\ p.low <= p.high
        /\ p.found = IF passed THEN Mid(w.search) ELSE w.search.found
    BY <1>1, Probed
  <1>5. u.search = p
    BY <1>3
  <1>. HIDE DEF p
  <1>6. u.verified \subseteq Nat /\ u.search.found \in u.verified \cup {NoAmount}
    BY <1>1, <1>3, <1>4, <1>5
  <1>7. /\ u.search.low \in Nat /\ u.search.high \in Nat
        /\ 1 <= u.search.low /\ u.search.low <= u.search.high
        /\ u.search.high <= BoundFor(h, st, w)
    BY <1>4, <1>5 DEF b
  <1>8. /\ Sound(h, st, u) /\ Expected(h, st, u, FreshNode(h))
        /\ /\ Solvent(h, st, w)
           /\ \A y \in u.verified :
                  y \in 1..BoundFor(h, st, w)
                  /\ SolventAt(h, st, w.strategy, TargetOf(h, st, w), y)
           => Solvent(h, st, u)
    BY <1>1, <1>2, <1>3, <1>6, <1>7, Resumes
  <1>. QED  BY <1>1, <1>3, <1>8 DEF Was, Rescuing

-----------------------------------------------------------------------------
(***************************************************************************)
(* A session, its own Anvil and what both must agree on.                   *)
(***************************************************************************)
NodeRecords == [holdings : Holdings, snapshots : Seq(Holdings)]

(* What a session has found, and what its own Anvil holds, while nobody    *)
(* else works there: from the pinned block as soon as it is up.            *)
SessionOK(s) ==
    /\ Sound(Pinned, Static, work[s])
    /\ s \notin mixed =>
          /\ Solvent(Pinned, Static, work[s]) /\ Honest(work[s])
          /\ \A c \in Children : fork[s].child = c =>
                /\ anvil[c].st = "serving" => Expected(Pinned, Static, work[s], node[c])
                /\ anvil[c].st = "booting" => Expected(Pinned, Static, work[s], FreshNode(Pinned))

(* A child that t holds after the step it held before, and no other state  *)
(* of the child is reached than its end.                                   *)
Kept(t) ==
    \A c \in Children : fork'[t].child = c =>
        /\ fork[t].child = c
        /\ anvil'[c].st = "none" \/ anvil'[c].st = anvil[c].st

LEMMA SetPcFields ==
  ASSUME ForksInv, NEW s \in Sessions, NEW pc, NEW t \in Sessions
  PROVE  SetPc(s, pc)[t].child = fork[t].child
  BY DEF SetPc, ForksInv, ForksTypeOK

LEMMA LeavesFields ==
  ASSUME ForksInv, NEW s \in Sessions, NEW t \in Sessions, NEW c \in Children,
         [fork EXCEPT ![s] = NoFork][t].child = c
  PROVE  fork[t].child = c /\ t # s
  BY PoolAssumption DEF ForksInv, ForksTypeOK, NoFork

LEMMA ChildStates ==
  ASSUME ForksInv, NEW c, NEW d \in Children
  PROVE  /\ Signalled(c)[d].st = anvil[d].st
         /\ Gone(c)[d].st \in {"none", anvil[d].st}
         /\ Released(c)[d].st \in {"none", anvil[d].st}
         /\ [anvil EXCEPT ![c] = Crashed(anvil[c])][d].st \in {"none", anvil[d].st}
  <1>1. anvil \in [Children -> ChildRecords] /\ anvil[d] \in ChildRecords
    BY Typed DEF ForksInv, ForksTypeOK
  <1>2. /\ Warned(anvil[d]).st = anvil[d].st /\ Dead(anvil[d]).st = "none"
        /\ Crashed(anvil[d]).st = "none"
    BY <1>1, WarnedChild, DeadChild, CrashedChild
  <1>. QED  BY <1>1, <1>2, NothingYet DEF Signalled, Gone, Released

LEMMA SessionKeeps ==
  ASSUME ForksInv, NEW t \in Sessions, NEW s \in Sessions,
         Check(s) \/ Healthy(s) \/ Unhealthy(s) \/ Stopped(s) \/ StartFails(s) \/ Stop(s)
  PROVE  Kept(t)
  <1>1. CASE Check(s) \/ Healthy(s) \/ Unhealthy(s)
    <2>1. /\ anvil' = anvil
          /\ \/ fork' = SetPc(s, "checking")
             \/ fork' = SetPc(s, "ready")
             \/ fork' = SetPc(s, "starting")
      BY <1>1 DEF Check, Healthy, Unhealthy
    <2>2. \A pc : SetPc(s, pc)[t].child = fork[t].child
      BY SetPcFields, Zenon
    <2>3. fork'[t].child = fork[t].child
      BY <2>1, <2>2, Zenon
    <2>. QED  BY <2>1, <2>3 DEF Kept
  <1>2. CASE Stopped(s) \/ StartFails(s)
    <2>1. fork' = [fork EXCEPT ![s] = NoFork]
      BY <1>2 DEF Stopped, StartFails
    <2>2. \E c : anvil' = Released(c) \/ anvil' = Signalled(c)
      BY <1>2 DEF Stopped, StartFails
    <2>3. \A d \in Children : anvil'[d].st \in {"none", anvil[d].st}
      BY <2>2, ChildStates
    <2>. QED  BY <2>1, <2>3, LeavesFields DEF Kept
  <1>3. CASE Stop(s)
    <2>1. \/ fork' = SetPc(s, "closing")
          \/ fork' = [fork EXCEPT ![s] = NoFork]
      BY <1>3 DEF Stop
    <2>2. \E c : anvil' = Released(c) \/ anvil' = Signalled(c) \/ anvil' = anvil
      BY <1>3 DEF Stop
    <2>3. \A d \in Children : anvil'[d].st \in {"none", anvil[d].st}
      BY <2>2, ChildStates
    <2>4. ASSUME NEW c \in Children, fork'[t].child = c PROVE fork[t].child = c
      <3>1. CASE fork' = SetPc(s, "closing")
        BY <2>4, <3>1, SetPcFields, Zenon
      <3>2. CASE fork' = [fork EXCEPT ![s] = NoFork]
        BY <2>4, <3>2, LeavesFields
      <3>. QED  BY <2>1, <3>1, <3>2
    <2>. QED  BY <2>3, <2>4 DEF Kept
  <1>. QED  BY <1>1, <1>2, <1>3

LEMMA ChildKeeps ==
  ASSUME ForksInv, NEW t \in Sessions, NEW c \in Children, Exit(c) \/ Crash(c) \/ SweepKills(c)
  PROVE  Kept(t)
  <1>1. /\ fork' = fork
        /\ anvil' = Gone(c) \/ anvil' = [anvil EXCEPT ![c] = Crashed(anvil[c])]
    BY DEF Exit, Crash, SweepKills
  <1>2. \A d \in Children : anvil'[d].st \in {"none", anvil[d].st}
    BY <1>1, ChildStates
  <1>. QED  BY <1>1, <1>2 DEF Kept

LEMMA ShutdownKeeps ==
  ASSUME ForksInv, NEW t \in Sessions, Terminate \/ Sweep \/ ExitProcess
  PROVE  Kept(t)
  <1>1. CASE Terminate
    BY <1>1 DEF Terminate, Kept
  <1>2. CASE Sweep
    <2>1. \A c \in Children : anvil'[c].st = anvil[c].st
      BY <1>2, Typed, WarnedChild DEF ForksInv, Sweep
    <2>. QED  BY <1>2, <2>1 DEF Sweep, Kept
  <1>3. CASE ExitProcess
    BY <1>3 DEF ExitProcess, Kept
  <1>. QED  BY <1>1, <1>2, <1>3

(* A session whose own Anvil nobody touches stays as it was.               *)
LEMMA Frame ==
  ASSUME NEW t \in Sessions, SessionOK(t), Kept(t), setting' = setting,
         work'[t] = work[t], t \notin mixed' => t \notin mixed,
         t \notin mixed' => \A c \in Children : fork'[t].child = c => node'[c] = node[c]
  PROVE  SessionOK(t)'
  <1>1. Pinned' = Pinned /\ Static' = Static
    BY DEF Pinned, Static
  <1>. QED  BY <1>1 DEF SessionOK, Kept

(* A child that comes up is fresh.                                         *)
LEMMA Binds ==
  ASSUME ForksInv, NEW t \in Sessions, SessionOK(t), NEW c \in Children, BindFresh(c),
         node \in [Children -> NodeRecords]
  PROVE  SessionOK(t)'
  <1>1. Pinned' = Pinned /\ Static' = Static
    BY DEF Pinned, Static, BindFresh
  <1>2. /\ anvil[c].st = "booting" /\ fork' = fork /\ mixed' = mixed /\ work' = work
        /\ node' = [node EXCEPT ![c] = FreshNode(Pinned)]
    BY DEF BindFresh, Bind, FreshNode
  <1>3. anvil'[c].st \in {"none", "serving"} /\ \A d \in Children : d # c => anvil'[d] = anvil[d]
    BY Typed, ListeningChild, DeadChild DEF ForksInv, ForksTypeOK, BindFresh, Bind
  <1>4. node'[c] = FreshNode(Pinned) /\ \A d \in Children : d # c => node'[d] = node[d]
    BY <1>2
  <1>. QED  BY <1>1, <1>2, <1>3, <1>4 DEF SessionOK

Base ==
    /\ ForksInv /\ setting \in Settings
    /\ DOMAIN work = Sessions /\ node \in [Children -> NodeRecords]

SessionsOK == \A s \in Sessions : SessionOK(s)

LEMMA SettingFacts ==
  ASSUME setting \in Settings
  PROVE  /\ Pinned \in Holdings /\ Static \in Statics
         /\ setting.policy \in [Sessions -> RiskPolicySet] /\ setting.policy[Agent].minBuffer = 0
  BY SettingsAssumption DEF Pinned, Static

LEMMA StepFrame ==
  ASSUME Base, NEW s \in Sessions, NEW c \in Children, StepOn(s, c),
         \A d \in Children : d # c => node'[d] = node[d],
         NEW t \in Sessions, t # s, work'[t] = work[t], SessionOK(t)
  PROVE  SessionOK(t)'
  <1>1. Kept(t) /\ setting' = setting /\ fork' = fork
    BY DEF StepOn, forkVars, Kept
  <1>2. CASE c = fork[s].child
    <2>1. fork[t].child # c
      BY <1>2, PoolAssumption DEF Base, ForksInv, HeldOnce
    <2>2. mixed' = mixed
      BY <1>2 DEF StepOn
    <2>. QED  BY <1>1, <2>1, <2>2, Frame
  <1>3. CASE c # fork[s].child
    <2>1. t \notin mixed' => t \notin mixed /\ fork[t].child # c
      BY <1>3 DEF StepOn
    <2>. QED  BY <1>1, <2>1, Frame
  <1>. QED  BY <1>2, <1>3

LEMMA StepOwn ==
  ASSUME Base, NEW s \in Sessions, NEW c \in Children, StepOn(s, c), SessionOK(s),
         Sound(Pinned, Static, work'[s]),
         /\ Solvent(Pinned, Static, work[s]) /\ Honest(work[s])
         /\ Expected(Pinned, Static, work[s], node[c])
         => /\ Solvent(Pinned, Static, work'[s]) /\ Honest(work'[s])
            /\ Expected(Pinned, Static, work'[s], node'[c])
  PROVE  SessionOK(s)'
  <1>1. Pinned' = Pinned /\ Static' = Static /\ fork' = fork /\ anvil' = anvil
    BY DEF Pinned, Static, StepOn, forkVars
  <1>2. anvil[c].st = "serving"
    BY DEF StepOn, Answers, Serves
  <1>3. s \notin mixed' => s \notin mixed /\ fork[s].child = c
    BY DEF StepOn
  <1>. QED  BY <1>1, <1>2, <1>3 DEF SessionOK

(* One session works on an Anvil.                                          *)
LEMMA StepKeeps ==
  ASSUME Base, SessionsOK, NEW s \in Sessions, NEW c \in Children, StepOn(s, c),
         NEW n2 \in NodeRecords, node' = [node EXCEPT ![c] = n2],
         NEW u, work' = [work EXCEPT ![s] = u],
         Sound(Pinned, Static, u),
         /\ Solvent(Pinned, Static, work[s]) /\ Honest(work[s])
         /\ Expected(Pinned, Static, work[s], node[c])
         => /\ Solvent(Pinned, Static, u) /\ Honest(u)
            /\ Expected(Pinned, Static, u, n2)
  PROVE  /\ SessionsOK' /\ DOMAIN work' = Sessions /\ node' \in [Children -> NodeRecords]
         /\ setting' = setting
  <1>1. /\ DOMAIN work' = Sessions /\ work'[s] = u
        /\ \A t \in Sessions : t # s => work'[t] = work[t]
        /\ node' \in [Children -> NodeRecords] /\ node'[c] = n2
        /\ \A d \in Children : d # c => node'[d] = node[d]
    BY DEF Base
  <1>2. \A t \in Sessions : t # s => SessionOK(t)'
    BY <1>1, StepFrame DEF SessionsOK
  <1>3. SessionOK(s)'
    BY <1>1, StepOwn DEF SessionsOK
  <1>4. setting' = setting
    BY DEF StepOn
  <1>. QED  BY <1>1, <1>2, <1>3, <1>4 DEF SessionsOK

(* One session goes on by itself.                                          *)
LEMMA AloneKeeps ==
  ASSUME Base, SessionsOK, NEW s \in Sessions, \A t \in Sessions : Kept(t),
         setting' = setting, mixed' = mixed, node' = node,
         NEW u, work' = [work EXCEPT ![s] = u],
         Sound(Pinned, Static, u),
         s \notin mixed =>
            /\ Solvent(Pinned, Static, work[s]) => Solvent(Pinned, Static, u)
            /\ Honest(work[s]) => Honest(u)
            /\ \A n : Expected(Pinned, Static, work[s], n) => Expected(Pinned, Static, u, n)
  PROVE  SessionsOK' /\ DOMAIN work' = Sessions
  <1>1. /\ DOMAIN work' = Sessions /\ work'[s] = u
        /\ \A t \in Sessions : t # s => work'[t] = work[t]
    BY DEF Base
  <1>2. \A t \in Sessions : t # s => SessionOK(t)'
    BY <1>1, Frame DEF SessionsOK
  <1>3. Pinned' = Pinned /\ Static' = Static
    BY DEF Pinned, Static
  <1>4. SessionOK(s)'
    BY <1>1, <1>3 DEF SessionsOK, SessionOK, Kept
  <1>. QED  BY <1>1, <1>2, <1>4 DEF SessionsOK

LEMMA SameForks ==
  ASSUME UNCHANGED forkVars
  PROVE  \A t \in Sessions : Kept(t)
  BY DEF forkVars, Kept

LEMMA BeginKeeps ==
  ASSUME Base, SessionsOK, NEW s \in Sessions, Begin(s)
  PROVE  /\ SessionsOK' /\ DOMAIN work' = Sessions /\ node' \in [Children -> NodeRecords]
         /\ setting' = setting
  <1>. DEFINE w == work[s]
  <1>1. PICK missing :
          work' = [work EXCEPT ![s] =
              [@ EXCEPT !.missing = missing, !.glitched = missing # AllRead,
                        !.stage = CASE work[s].task = "compare" -> "snapshot"
                                    [] work[s].task = "replay"  -> "change"
                                    [] work[s].task = "dryrun"  -> "calls"]]
    BY DEF Begin
  <1>. DEFINE u == [w EXCEPT !.missing = missing, !.glitched = missing # AllRead,
                        !.stage = CASE w.task = "compare" -> "snapshot"
                                    [] w.task = "replay"  -> "change"
                                    [] w.task = "dryrun"  -> "calls"]
  <1>2. Sound(Pinned, Static, w) /\ DOMAIN w = WorkFields /\ w.stage = "open"
    BY DEF SessionsOK, SessionOK, Sound, WorkTyped, Begin
  <1>3. work' = [work EXCEPT ![s] = u]
    BY <1>1 DEF Base
  <1>4. /\ Agree(u, w, {"stage", "missing", "glitched"}) /\ u.glitched \in BOOLEAN
        /\ u.stage = CASE w.task = "compare" -> "snapshot"
                       [] w.task = "replay"  -> "change"
                       [] w.task = "dryrun"  -> "calls"
    BY <1>2 DEF Agree, WorkFields
  <1>. HIDE DEF w, u
  <1>5. /\ Sound(Pinned, Static, u) /\ (Solvent(Pinned, Static, w) => Solvent(Pinned, Static, u))
        /\ \A n : Expected(Pinned, Static, w, n) => Expected(Pinned, Static, u, n)
    BY <1>2, <1>4, Begins, SettingFacts DEF Base
  <1>6. Honest(w) => Honest(u)
    <2>1. u.outcome = w.outcome /\ u.stage # "judge"
      <3>1. w.task \in {"compare", "replay", "dryrun"}
        BY <1>2 DEF Sound, WorkTyped, Ordered
      <3>. QED  BY <1>4, <3>1 DEF Agree, WorkFields
    <2>. QED  BY <1>2, <2>1 DEF Honest
  <1>7. UNCHANGED <<forkVars, node, mixed, setting>>
    BY DEF Begin
  <1>. QED  BY <1>3, <1>5, <1>6, <1>7, SameForks, AloneKeeps DEF w, Base

-----------------------------------------------------------------------------
(***************************************************************************)
(* The steps of a session that works.                                      *)
(***************************************************************************)
LEMMA NodeFields ==
  ASSUME NEW n \in NodeRecords, NEW v \in Holdings
  PROVE  /\ n.holdings \in Holdings /\ n.snapshots \in Seq(Holdings)
         /\ [n EXCEPT !.snapshots = Append(@, n.holdings)] \in NodeRecords
         /\ [n EXCEPT !.holdings = v] \in NodeRecords
         /\ [n EXCEPT !.holdings = v].holdings = v
         /\ [n EXCEPT !.holdings = v].snapshots = n.snapshots
  <1>1. n.holdings \in Holdings /\ n.snapshots \in Seq(Holdings)
    BY DEF NodeRecords
  <1>. DEFINE kept == Append(n.snapshots, n.holdings)
  <1>2. kept \in Seq(Holdings)
    BY <1>1
  <1>3. [n EXCEPT !.snapshots = Append(@, n.holdings)] = [n EXCEPT !.snapshots = kept]
    OBVIOUS
  <1>. HIDE DEF kept
  <1>4. [n EXCEPT !.snapshots = kept] \in NodeRecords
    BY <1>2 DEF NodeRecords
  <1>5. /\ [n EXCEPT !.holdings = v] \in NodeRecords
        /\ [n EXCEPT !.holdings = v].holdings = v
        /\ [n EXCEPT !.holdings = v].snapshots = n.snapshots
    BY DEF NodeRecords
  <1>. QED  BY <1>1, <1>3, <1>4, <1>5

LEMMA OwnTarget ==
  ASSUME NEW s \in Sessions
  PROVE  /\ Target(s) = TargetOf(Pinned, Static, work[s])
         /\ TargetBound(s) = BoundFor(Pinned, Static, work[s])
         /\ Amount(s) = AmountOf(Pinned, Static, work[s])
         /\ TestsBoundOnly(s) <=> work[s].policy.goal = "MAX_SAFETY"
  <1>1. Target(s) = TargetOf(Pinned, Static, work[s])
    BY DEF Target, TargetOf
  <1>2. TargetBound(s) = BoundFor(Pinned, Static, work[s])
    BY <1>1 DEF TargetBound, BoundFor
  <1>. QED  BY <1>1, <1>2 DEF Amount, AmountOf, TestsBoundOnly

LEMMA SessionWork ==
  ASSUME SessionsOK, NEW s \in Sessions
  PROVE  /\ Sound(Pinned, Static, work[s]) /\ DOMAIN work[s] = WorkFields
         /\ work[s].glitched \in BOOLEAN /\ work[s].ok \in BOOLEAN
  BY DEF SessionsOK, SessionOK, Sound, WorkTyped

LEMMA TakeSnapshotKeeps ==
  ASSUME Base, SessionsOK, NEW s \in Sessions, TakeSnapshot(s)
  PROVE  /\ SessionsOK' /\ DOMAIN work' = Sessions /\ node' \in [Children -> NodeRecords]
         /\ setting' = setting
  <1>. DEFINE w == work[s]
  <1>1. PICK c \in Children :
          /\ StepOn(s, c)
          /\ node' = [node EXCEPT ![c].snapshots = Append(@, node[c].holdings)]
          /\ work' = [work EXCEPT ![s] =
              [@ EXCEPT !.snapshot = Len(node[c].snapshots) + 1, !.ok = TRUE,
                        !.calls = IF work[s].purpose = "branch" THEN BranchPlan(s) ELSE <<>>,
                        !.stage = IF work[s].purpose = "branch" THEN "calls" ELSE "change"]]
    BY DEF TakeSnapshot
  <1>. DEFINE n == node[c]
              n2 == [n EXCEPT !.snapshots = Append(@, n.holdings)]
              m == Target(s)
              enabled == EnabledIn(Pinned, Static, w.missing, m)
              u == [w EXCEPT !.snapshot = Len(n.snapshots) + 1, !.ok = TRUE,
                        !.calls = IF w.purpose = "branch" THEN BranchPlan(s) ELSE <<>>,
                        !.stage = IF w.purpose = "branch" THEN "calls" ELSE "change"]
  <1>2. Sound(Pinned, Static, w) /\ DOMAIN w = WorkFields /\ w.stage = "snapshot"
    BY SessionWork DEF TakeSnapshot, At
  <1>3. work' = [work EXCEPT ![s] = u] /\ node' = [node EXCEPT ![c] = n2]
    BY <1>1 DEF Base
  <1>4. /\ Agree(u, w, {"snapshot", "ok", "calls", "stage"}) /\ u.ok = TRUE
        /\ u.snapshot = Len(n.snapshots) + 1
        /\ u.stage = IF w.purpose = "branch" THEN "calls" ELSE "change"
        /\ u.calls = IF w.purpose = "branch" THEN BranchPlan(s) ELSE <<>>
    BY <1>2 DEF Agree, WorkFields
  <1>5. BranchPlan(s) = BuildPlan(Pinned, w.strategy, TargetOf(Pinned, Static, w), enabled,
                                  AmountOf(Pinned, Static, w))
    BY OwnTarget DEF BranchPlan
  <1>6. enabled \in BOOLEAN /\ (enabled => Pinned.entered[TargetOf(Pinned, Static, w)])
    BY OwnTarget DEF EnabledIn
  <1>7. n2 \in NodeRecords
    BY NodeFields DEF Base, NodeRecords
  <1>. HIDE DEF w, n, n2, enabled, u
  <1>8. /\ Sound(Pinned, Static, u) /\ (Solvent(Pinned, Static, w) => Solvent(Pinned, Static, u))
        /\ \A n1 : /\ Expected(Pinned, Static, w, n1) /\ u.snapshot = Len(n1.snapshots) + 1
                   => Expected(Pinned, Static, u, [n1 EXCEPT !.snapshots = Append(@, n1.holdings)])
    BY <1>2, <1>4, <1>5, <1>6, Snapshots, SettingFacts DEF Base
  <1>9. Honest(w) => Honest(u)
    BY <1>2, <1>4 DEF Honest, Agree, WorkFields
  <1>10. Expected(Pinned, Static, w, n) => Expected(Pinned, Static, u, n2)
    BY <1>4, <1>8 DEF n2
  <1>11. /\ Sound(Pinned, Static, u)
         /\ Solvent(Pinned, Static, w) /\ Honest(w) /\ Expected(Pinned, Static, w, n)
            => Solvent(Pinned, Static, u) /\ Honest(u) /\ Expected(Pinned, Static, u, n2)
    BY <1>8, <1>9, <1>10
  <1>12. StepOn(s, c)
    BY <1>1
  <1>. QED  BY <1>3, <1>7, <1>11, <1>12, StepKeeps DEF w, n

LEMMA Marks ==
  ASSUME Base, NEW s \in Sessions, NEW failed \in BOOLEAN, NEW u, MayFail(s, failed, u)
  PROVE  work' = [work EXCEPT ![s] = Marking(u, failed)]
  BY DEF MayFail, Marking

LEMMA PlanCallKeeps ==
  ASSUME Base, SessionsOK, NEW s \in Sessions, PlanCall(s)
  PROVE  /\ SessionsOK' /\ DOMAIN work' = Sessions /\ node' \in [Children -> NodeRecords]
         /\ setting' = setting
  <1>. DEFINE w == work[s]
              dry == w.task = "dryrun"
              rest == Tail(w.calls)
              call == Head(w.calls)
              made == [w EXCEPT !.calls = rest,
                             !.stage = IF rest # <<>> THEN "calls"
                                       ELSE IF dry THEN "close" ELSE "change",
                             !.outcome = IF rest = <<>> /\ dry THEN "ok" ELSE @]
              not == [w EXCEPT !.ok = FALSE,
                             !.stage = IF dry THEN "close" ELSE "judge",
                             !.outcome = IF dry THEN "rejected" ELSE @]
  <1>1. PICK c \in Children, lost \in BOOLEAN :
          /\ StepOn(s, c)
          /\ \/ /\ PreviewOk(node[c].holdings, Static, call)
                /\ node' = [node EXCEPT ![c].holdings = Execute(@, call)]
             \/ /\ ~(PreviewOk(node[c].holdings, Static, call) /\ ~lost)
                /\ node' = node
          /\ MayFail(s, lost, IF PreviewOk(node[c].holdings, Static, call) /\ ~lost
                              THEN made ELSE not)
    BY DEF PlanCall
  <1>. DEFINE n == node[c]
  <1>2. /\ Sound(Pinned, Static, w) /\ DOMAIN w = WorkFields /\ w.stage = "calls"
        /\ w.glitched \in BOOLEAN
    BY SessionWork DEF PlanCall, At
  <1>3. w.calls \in Seq(Calls) /\ w.calls # <<>> /\ call \in Calls
    BY <1>2 DEF Sound, Ordered, WorkTyped
  <1>4. n \in NodeRecords /\ node \in [Children -> NodeRecords] /\ n.holdings \in Holdings
    BY DEF Base, NodeRecords
  <1>5. Pinned \in Holdings /\ Static \in Statics
    BY SettingFacts DEF Base
  <1>6. /\ Agree(made, w, {"calls", "stage", "outcome"}) /\ made.calls = rest
        /\ made.stage = IF rest # <<>> THEN "calls" ELSE IF dry THEN "close" ELSE "change"
        /\ made.outcome \in {w.outcome, "ok"}
    BY <1>2 DEF Agree, WorkFields
  <1>7. /\ Agree(not, w, {"ok", "stage", "outcome"}) /\ not.ok = FALSE
        /\ not.stage = IF dry THEN "close" ELSE "judge"
        /\ not.outcome = IF dry THEN "rejected" ELSE w.outcome
    BY <1>2 DEF Agree, WorkFields
  <1>8. /\ DOMAIN made = WorkFields /\ made.glitched = w.glitched
        /\ DOMAIN not = WorkFields /\ not.glitched = w.glitched
    BY <1>6, <1>7 DEF Agree, WorkFields
  <1>9. Honest(w) => w.outcome # "rejected"
    BY <1>2 DEF Honest
  <1>. HIDE DEF made, not, n, rest, call
  <1>10. CASE PreviewOk(n.holdings, Static, call) /\ ~lost
    <2>. DEFINE v == Execute(n.holdings, call)
                n2 == [n EXCEPT !.holdings = v]
    <2>1. v \in Holdings
      BY <1>3, <1>4, <1>10, ExecuteTyped
    <2>2. node' = [node EXCEPT ![c] = n2]
      <3>1. node' = [node EXCEPT ![c].holdings = Execute(@, call)]
        BY <1>1, <1>10 DEF n
      <3>. QED  BY <1>4, <3>1 DEF n
    <2>. HIDE DEF v
    <2>3. n2 \in NodeRecords /\ n2.holdings = v /\ n2.snapshots = n.snapshots
      BY <1>4, <2>1, NodeFields
    <2>. HIDE DEF n2
    <2>4. MayFail(s, lost, made)
      BY <1>1, <1>10 DEF n
    <2>5. work' = [work EXCEPT ![s] = made]
      BY <1>10, <2>4 DEF MayFail
    <2>6. /\ Sound(Pinned, Static, made)
          /\ Solvent(Pinned, Static, w) => Solvent(Pinned, Static, made)
          /\ Expected(Pinned, Static, w, n) => Expected(Pinned, Static, made, n2)
      BY <1>2, <1>4, <1>5, <1>6, <2>3, CallMade DEF rest, call, v
    <2>7. Honest(w) => Honest(made)
      BY <1>6, <1>9 DEF Honest
    <2>. HIDE DEF w
    <2>. QED  BY <1>1, <2>2, <2>3, <2>5, <2>6, <2>7, StepKeeps DEF w, n
  <1>11. CASE ~(PreviewOk(n.holdings, Static, call) /\ ~lost)
    <2>. DEFINE u == Marking(not, lost)
    <2>1. \E n2 : n2 \in NodeRecords /\ n2.snapshots = n.snapshots /\ node' = [node EXCEPT ![c] = n2]
      <3>1. CASE node' = node
        <4>1. node' = [node EXCEPT ![c] = n]
          BY <1>4, <3>1 DEF n
        <4>. QED  BY <1>4, <4>1
      <3>2. CASE /\ PreviewOk(n.holdings, Static, call)
                 /\ node' = [node EXCEPT ![c].holdings = Execute(@, call)]
        <4>. DEFINE v == Execute(n.holdings, call)
                    n3 == [n EXCEPT !.holdings = v]
        <4>1. v \in Holdings
          BY <1>3, <1>4, <3>2, ExecuteTyped
        <4>2. node' = [node EXCEPT ![c] = n3]
          BY <1>4, <3>2 DEF n
        <4>. HIDE DEF v
        <4>3. n3 \in NodeRecords /\ n3.snapshots = n.snapshots
          BY <1>4, <4>1, NodeFields
        <4>. HIDE DEF n3
        <4>. QED  BY <4>2, <4>3
      <3>. QED  BY <1>1, <3>1, <3>2 DEF n
    <2>8. PICK n2 : n2 \in NodeRecords /\ n2.snapshots = n.snapshots /\ node' = [node EXCEPT ![c] = n2]
      BY <2>1
    <2>2. MayFail(s, lost, not)
      BY <1>1, <1>11 DEF n
    <2>3. work' = [work EXCEPT ![s] = u]
      BY <2>2, Marks
    <2>4. /\ Agree(u, not, {"glitched"}) /\ u.glitched \in BOOLEAN /\ (lost => u.glitched)
      BY <1>2, <1>8, MarkingFields
    <2>. HIDE DEF u
    <2>5. /\ Agree(u, w, {"ok", "stage", "outcome", "glitched"}) /\ u.ok = FALSE
          /\ u.stage = IF dry THEN "close" ELSE "judge"
          /\ u.outcome = IF dry THEN "rejected" ELSE w.outcome
      BY <1>7, <2>4 DEF Agree, WorkFields
    <2>6. /\ Sound(Pinned, Static, u)
          /\ Solvent(Pinned, Static, w) => Solvent(Pinned, Static, u)
          /\ Expected(Pinned, Static, w, n) => Expected(Pinned, Static, u, n2)
      BY <1>2, <1>5, <2>4, <2>5, <2>8, CallFailed
    <2>7. Honest(w) /\ Expected(Pinned, Static, w, n) => Honest(u)
      <3>1. Expected(Pinned, Static, w, n) => lost
        BY <1>2, <1>4, <1>5, <1>11, AheadOf DEF call
      <3>. QED  BY <1>9, <2>4, <2>5, <3>1 DEF Honest
    <2>. HIDE DEF w
    <2>. QED  BY <1>1, <2>3, <2>6, <2>7, <2>8, StepKeeps DEF w, n
  <1>. QED  BY <1>10, <1>11

LEMMA ReplayChangeKeeps ==
  ASSUME Base, SessionsOK, NEW s \in Sessions, ReplayChange(s)
  PROVE  /\ SessionsOK' /\ DOMAIN work' = Sessions /\ node' \in [Children -> NodeRecords]
         /\ setting' = setting
  <1>. DEFINE w == work[s]
              x(lost) == [w EXCEPT
                            !.ok = ~lost,
                            !.stage = IF lost /\ w.task = "replay" THEN "close" ELSE "judge",
                            !.outcome = IF lost /\ w.task = "replay" THEN "error" ELSE @]
  <1>1. PICK c \in Children, lost \in BOOLEAN :
          /\ StepOn(s, c)
          /\ \/ node' = [node EXCEPT ![c].holdings = ApplyChange(@, Static)]
             \/ lost /\ node' = node
          /\ MayFail(s, lost, x(lost))
    BY DEF ReplayChange
  <1>. DEFINE n == node[c]
              v == IF node' = node THEN n.holdings ELSE ApplyChange(n.holdings, Static)
              n2 == [n EXCEPT !.holdings = v]
              y == x(lost)
              u == Marking(y, lost)
  <1>2. /\ Sound(Pinned, Static, w) /\ DOMAIN w = WorkFields /\ w.stage = "change"
        /\ w.glitched \in BOOLEAN
    BY SessionWork DEF ReplayChange, At
  <1>3. n \in NodeRecords /\ node \in [Children -> NodeRecords] /\ n.holdings \in Holdings
    BY DEF Base, NodeRecords
  <1>4. Pinned \in Holdings /\ Static \in Statics
    BY SettingFacts DEF Base
  <1>5. /\ Agree(y, w, {"ok", "stage", "outcome"}) /\ y.ok = ~lost
        /\ y.stage = IF lost /\ w.task = "replay" THEN "close" ELSE "judge"
        /\ y.outcome = IF lost /\ w.task = "replay" THEN "error" ELSE w.outcome
    BY <1>2 DEF Agree, WorkFields
  <1>6. DOMAIN y = WorkFields /\ y.glitched = w.glitched
    BY <1>5 DEF Agree, WorkFields
  <1>7. v \in Holdings
    BY <1>3, <1>4, ChangeFields
  <1>8. node' = [node EXCEPT ![c] = n2]
    <2>1. CASE node' = node
      <3>1. n2 = n
        BY <1>3, <2>1 DEF NodeRecords
      <3>. QED  BY <1>3, <2>1, <3>1
    <2>2. CASE node' # node
      <3>1. node' = [node EXCEPT ![c].holdings = ApplyChange(@, Static)]
        BY <1>1, <2>2
      <3>. QED  BY <1>3, <2>2, <3>1
    <2>. QED  BY <2>1, <2>2
  <1>16. v = ApplyChange(n.holdings, Static) \/ lost
    <2>1. CASE node' = [node EXCEPT ![c].holdings = ApplyChange(@, Static)] /\ node' = node
      <3>1. node'[c].holdings = ApplyChange(n.holdings, Static)
        BY <1>3, <2>1 DEF NodeRecords
      <3>. QED  BY <2>1, <3>1
    <2>2. CASE node' # node
      BY <2>2
    <2>. QED  BY <1>1, <2>1, <2>2
  <1>9. work' = [work EXCEPT ![s] = u]
    BY <1>1, Marks
  <1>. HIDE DEF x
  <1>10. /\ Agree(u, y, {"glitched"}) /\ u.glitched \in BOOLEAN /\ (lost => u.glitched)
    BY <1>2, <1>6, MarkingFields
  <1>. HIDE DEF y, u, v
  <1>11. n2 \in NodeRecords /\ n2.holdings = v /\ n2.snapshots = n.snapshots
    BY <1>3, <1>7, NodeFields
  <1>. HIDE DEF n2, n, w
  <1>12. /\ Agree(u, w, {"ok", "stage", "outcome", "glitched"}) /\ u.ok = ~lost
         /\ u.stage = IF lost /\ w.task = "replay" THEN "close" ELSE "judge"
         /\ u.outcome = IF lost /\ w.task = "replay" THEN "error" ELSE w.outcome
    BY <1>5, <1>10 DEF Agree, WorkFields
  <1>13. /\ Sound(Pinned, Static, u)
         /\ Solvent(Pinned, Static, w) => Solvent(Pinned, Static, u)
         /\ Expected(Pinned, Static, w, n) => Expected(Pinned, Static, u, n2)
    BY <1>2, <1>3, <1>4, <1>10, <1>11, <1>12, <1>16, Changes
  <1>14. Honest(w) => Honest(u)
    BY <1>2, <1>10, <1>12 DEF Honest
  <1>15. StepOn(s, c)
    BY <1>1
  <1>. QED  BY <1>8, <1>9, <1>11, <1>13, <1>14, <1>15, StepKeeps DEF w, n

LEMMA SettledAgree ==
  ASSUME NEW w, WorkTyped(w), NEW r, NEW failed \in BOOLEAN
  PROVE  LET u == Marking(Settle(w, r), failed)
         IN  /\ Agree(u, w, {"results", "strategy", "stage", "outcome", "glitched"})
             /\ u.results = [w.results EXCEPT ![w.strategy] = r]
             /\ u.strategy \in Strategies /\ u.stage \in {"assess", "close"}
             /\ u.outcome \in {w.outcome, "ok"} /\ u.glitched \in BOOLEAN
  <1>. DEFINE x == Settle(w, r)
              u == Marking(x, failed)
  <1>1. /\ Agree(x, w, {"results", "strategy", "stage", "outcome"})
        /\ x.results = [w.results EXCEPT ![w.strategy] = r]
        /\ x.strategy \in Strategies /\ x.stage \in {"assess", "close"}
        /\ x.outcome \in {w.outcome, "ok"}
    BY SettleFields
  <1>2. DOMAIN x = WorkFields /\ x.glitched \in BOOLEAN
    BY <1>1 DEF Agree, WorkFields, WorkTyped
  <1>. HIDE DEF x
  <1>3. Agree(u, x, {"glitched"}) /\ u.glitched \in BOOLEAN
    BY <1>2, MarkingFields
  <1>. HIDE DEF u
  <1>4. /\ u.results = x.results /\ u.strategy = x.strategy /\ u.stage = x.stage
        /\ u.outcome = x.outcome
    BY <1>3 DEF Agree, WorkFields
  <1>5. Agree(u, w, {"glitched"} \cup {"results", "strategy", "stage", "outcome"})
    BY <1>1, <1>3, AgreeJoins
  <1>6. Agree(u, w, {"results", "strategy", "stage", "outcome", "glitched"})
    BY <1>5, AgreeWidens
  <1>. QED  BY <1>1, <1>3, <1>4, <1>6 DEF u, x

LEMMA AssessKeeps ==
  ASSUME Base, SessionsOK, NEW s \in Sessions, Assess(s)
  PROVE  /\ SessionsOK' /\ DOMAIN work' = Sessions /\ node' \in [Children -> NodeRecords]
         /\ setting' = setting
  <1>. DEFINE w == work[s]
              r == Result("INFEASIBLE", NoAmount, 0)
              next == [w EXCEPT !.stage = "snapshot", !.purpose = "confirm"]
  <1>1. /\ work' = [work EXCEPT ![s] =
                      IF Feasible(Pinned, Static, w.policy, w.strategy, w.missing) = {}
                      THEN Settle(w, r) ELSE next]
        /\ UNCHANGED <<forkVars, node, mixed, setting>>
    BY DEF Assess
  <1>2. /\ Sound(Pinned, Static, w) /\ DOMAIN w = WorkFields /\ w.stage = "assess"
        /\ w.glitched \in BOOLEAN /\ w.task = "compare"
    <2>1. Sound(Pinned, Static, w) /\ DOMAIN w = WorkFields /\ w.stage = "assess"
          /\ w.glitched \in BOOLEAN
      BY SessionWork DEF Assess, At
    <2>. QED  BY <2>1 DEF Sound, Ordered
  <1>3. \A n : Expected(Pinned, Static, w, n) => n = FreshNode(Pinned)
    BY <1>2 DEF Expected
  <1>. HIDE DEF w
  <1>4. CASE Feasible(Pinned, Static, w.policy, w.strategy, w.missing) = {}
    <2>. DEFINE u == Settle(w, r)
    <2>1. work' = [work EXCEPT ![s] = u]
      BY <1>1, <1>4
    <2>2. /\ Agree(u, w, {"results", "strategy", "stage", "outcome"})
          /\ u.results = [w.results EXCEPT ![w.strategy] = r]
          /\ u.strategy \in Strategies /\ u.stage \in {"assess", "close"}
          /\ u.outcome \in {w.outcome, "ok"}
      BY <1>2, SettleFields DEF Sound
    <2>. HIDE DEF u
    <2>3. Agree(u, w, {"results", "strategy", "stage", "outcome", "search", "verified", "glitched"})
          /\ u.glitched \in BOOLEAN
      BY <1>2, <2>2 DEF Agree, WorkFields
    <2>4. Proved(Pinned, Static, w.policy, w.strategy, r)
      BY DEF Proved, Result
    <2>. HIDE DEF r
    <2>5. /\ Sound(Pinned, Static, u)
          /\ Solvent(Pinned, Static, w) => Solvent(Pinned, Static, u)
          /\ Expected(Pinned, Static, u, FreshNode(Pinned))
      BY <1>2, <2>2, <2>3, <2>4, Settles
    <2>6. Honest(w) => Honest(u)
      BY <1>2, <2>2 DEF Honest
    <2>7. \A n : Expected(Pinned, Static, w, n) => Expected(Pinned, Static, u, n)
      BY <1>3, <2>5
    <2>. QED  BY <1>1, <2>1, <2>5, <2>6, <2>7, SameForks, AloneKeeps DEF w, Base
  <1>5. CASE Feasible(Pinned, Static, w.policy, w.strategy, w.missing) # {}
    <2>1. work' = [work EXCEPT ![s] = next]
      BY <1>1, <1>5
    <2>2. /\ Agree(next, w, {"stage", "purpose"}) /\ next.stage = "snapshot"
          /\ next.purpose = "confirm"
      BY <1>2 DEF Agree, WorkFields
    <2>. HIDE DEF next
    <2>3. /\ Agree(next, w, {"stage", "purpose", "verified", "search", "glitched"})
          /\ next.glitched \in BOOLEAN /\ next.outcome = w.outcome
      BY <1>2, <2>2 DEF Agree, WorkFields
    <2>4. /\ Sound(Pinned, Static, next)
          /\ Solvent(Pinned, Static, w) => Solvent(Pinned, Static, next)
          /\ Expected(Pinned, Static, next, FreshNode(Pinned))
      BY <1>2, <1>5, <2>2, <2>3, Resumes
    <2>5. Honest(w) => Honest(next)
      BY <1>2, <2>2, <2>3 DEF Honest
    <2>6. \A n : Expected(Pinned, Static, w, n) => Expected(Pinned, Static, next, n)
      BY <1>3, <2>4
    <2>. QED  BY <1>1, <2>1, <2>4, <2>5, <2>6, SameForks, AloneKeeps DEF w, Base
  <1>. QED  BY <1>4, <1>5

Freed(w, u) ==
    /\ Agree(u, w, {"stage", "outcome", "receipt"})
    /\ u.stage \in {"close", "closed"}
    /\ u.outcome \in {w.outcome, "ok", "error"} /\ u.glitched = w.glitched

(* A session that ends, on its own or on the Anvil c.                      *)
LEMMA FreedIsFine ==
  ASSUME SessionsOK, NEW s \in Sessions, NEW u, Freed(work[s], u),
         Honest(work[s]) /\ work[s].outcome = "rejected" => u.glitched
  PROVE  /\ Sound(Pinned, Static, u)
         /\ Solvent(Pinned, Static, work[s]) => Solvent(Pinned, Static, u)
         /\ Honest(work[s]) => Honest(u)
         /\ \A n : Expected(Pinned, Static, u, n)
  <1>. DEFINE w == work[s]
  <1>1. Sound(Pinned, Static, w) /\ w.glitched \in BOOLEAN /\ w.ok \in BOOLEAN
    BY SessionWork
  <1>. HIDE DEF w
  <1>2. /\ Agree(u, w, {"stage", "outcome", "glitched", "receipt", "ok"})
        /\ u.glitched \in BOOLEAN /\ u.ok \in BOOLEAN /\ u.ok = w.ok
    BY <1>1 DEF Freed, Agree, WorkFields, w
  <1>3. u.stage \in {"close", "closed"} /\ u.outcome \in {w.outcome, "ok", "error"}
    BY DEF Freed, w
  <1>4. Sound(Pinned, Static, u) /\ (Solvent(Pinned, Static, w) => Solvent(Pinned, Static, u))
    BY <1>1, <1>2, <1>3, Ends
  <1>5. Honest(w) => Honest(u)
    BY <1>3 DEF Honest, w
  <1>6. \A n : Expected(Pinned, Static, u, n)
    BY <1>3, NothingExpected
  <1>. QED  BY <1>4, <1>5, <1>6 DEF w

LEMMA FreedKeeps ==
  ASSUME Base, SessionsOK, NEW s \in Sessions, NEW u, Freed(work[s], u),
         work' = [work EXCEPT ![s] = u],
         \/ /\ \A t \in Sessions : Kept(t)
            /\ UNCHANGED <<node, mixed, setting>>
         \/ \E c \in Children, n2 \in NodeRecords :
               StepOn(s, c) /\ node' = [node EXCEPT ![c] = n2]
  PROVE  /\ SessionsOK' /\ DOMAIN work' = Sessions /\ node' \in [Children -> NodeRecords]
         /\ setting' = setting
  <1>0. Honest(work[s]) /\ work[s].outcome = "rejected" => u.glitched
    BY DEF Honest, Freed
  <1>1. /\ Sound(Pinned, Static, u)
        /\ Solvent(Pinned, Static, work[s]) => Solvent(Pinned, Static, u)
        /\ Honest(work[s]) => Honest(u)
        /\ \A n : Expected(Pinned, Static, u, n)
    BY <1>0, FreedIsFine
  <1>2. CASE (\A t \in Sessions : Kept(t)) /\ UNCHANGED <<node, mixed, setting>>
    BY <1>1, <1>2, AloneKeeps DEF Base
  <1>3. ASSUME NEW c \in Children, NEW n2 \in NodeRecords, StepOn(s, c),
               node' = [node EXCEPT ![c] = n2]
        PROVE  /\ SessionsOK' /\ DOMAIN work' = Sessions /\ node' \in [Children -> NodeRecords]
               /\ setting' = setting
    BY <1>1, <1>3, StepKeeps
  <1>. QED  BY <1>2, <1>3

LEMMA EndingFields ==
  ASSUME NEW w, DOMAIN w = WorkFields, NEW stage \in {"close", "closed"},
         NEW outcome \in {"ok", "error"}
  PROVE  /\ Freed(w, [w EXCEPT !.stage = stage, !.outcome = outcome])
         /\ Freed(w, [w EXCEPT !.stage = stage])
         /\ \A r : Freed(w, [w EXCEPT !.stage = stage, !.outcome = outcome, !.receipt = r])
  BY DEF Freed, Agree, WorkFields

LEMMA CloseKeeps ==
  ASSUME Base, SessionsOK, NEW s \in Sessions, Close(s)
  PROVE  /\ SessionsOK' /\ DOMAIN work' = Sessions /\ node' \in [Children -> NodeRecords]
         /\ setting' = setting
  <1>. DEFINE u == [work[s] EXCEPT !.stage = "closed"]
  <1>1. work' = [work EXCEPT ![s] = u] /\ UNCHANGED <<node, mixed, setting>>
    BY DEF Close, Base
  <1>2. Freed(work[s], u)
    BY SessionWork, EndingFields
  <1>3. \A t \in Sessions : Kept(t)
    BY SessionKeeps DEF Base, Close
  <1>. HIDE DEF u
  <1>. QED  BY <1>1, <1>2, <1>3, FreedKeeps

LEMMA OpenFailsKeeps ==
  ASSUME Base, SessionsOK, NEW s \in Sessions, OpenFails(s)
  PROVE  /\ SessionsOK' /\ DOMAIN work' = Sessions /\ node' \in [Children -> NodeRecords]
         /\ setting' = setting
  <1>. DEFINE u == [work[s] EXCEPT !.stage = "closed", !.outcome = "error"]
  <1>1. work' = [work EXCEPT ![s] = u] /\ UNCHANGED <<node, mixed, setting>>
    BY DEF OpenFails, Finished, Base
  <1>2. Freed(work[s], u)
    BY SessionWork, EndingFields
  <1>3. \A t \in Sessions : Kept(t)
    BY SessionKeeps DEF Base, OpenFails
  <1>. HIDE DEF u
  <1>. QED  BY <1>1, <1>2, <1>3, FreedKeeps

LEMMA RevertedIs ==
  ASSUME Base, NEW s \in Sessions, NEW c \in Children
  PROVE  /\ Reverted(s, c) = [node EXCEPT ![c] = Revert(node[c], work[s].snapshot)]
         /\ Revert(node[c], work[s].snapshot) \in NodeRecords
         /\ node = [node EXCEPT ![c] = node[c]] /\ node[c] \in NodeRecords
  BY RevertTyped DEF Base, Reverted, NodeRecords

LEMMA ReceiptKeeps ==
  ASSUME Base, SessionsOK, NEW s \in Sessions, Receipt(s)
  PROVE  /\ SessionsOK' /\ DOMAIN work' = Sessions /\ node' \in [Children -> NodeRecords]
         /\ setting' = setting
  <1>0. PICK c \in Children : \E r :
          /\ StepOn(s, c)
          /\ work' = [work EXCEPT ![s] =
                        [@ EXCEPT !.stage = "close", !.outcome = "ok", !.receipt = r]]
          /\ node' = node
    BY DEF Receipt
  <1>1. PICK r :
          /\ StepOn(s, c)
          /\ work' = [work EXCEPT ![s] =
                        [@ EXCEPT !.stage = "close", !.outcome = "ok", !.receipt = r]]
          /\ node' = node
    BY <1>0
  <1>. DEFINE u == [work[s] EXCEPT !.stage = "close", !.outcome = "ok", !.receipt = r]
  <1>2. work' = [work EXCEPT ![s] = u]
    BY <1>1 DEF Base
  <1>3. Freed(work[s], u)
    BY SessionWork, EndingFields
  <1>. HIDE DEF u
  <1>4. node' = [node EXCEPT ![c] = node[c]] /\ node[c] \in NodeRecords
    BY <1>1, RevertedIs
  <1>. QED  BY <1>1, <1>2, <1>3, <1>4, FreedKeeps

LEMMA ThrowKeeps ==
  ASSUME Base, SessionsOK, NEW s \in Sessions, Throw(s)
  PROVE  /\ SessionsOK' /\ DOMAIN work' = Sessions /\ node' \in [Children -> NodeRecords]
         /\ setting' = setting
  <1>. DEFINE u == [work[s] EXCEPT !.stage = "close", !.outcome = "error"]
  <1>1. work' = [work EXCEPT ![s] = u]
    BY DEF Throw, Base
  <1>2. Freed(work[s], u)
    BY SessionWork, EndingFields
  <1>. HIDE DEF u
  <1>3. CASE UNCHANGED <<forkVars, node, mixed, setting, left>>
    BY <1>1, <1>2, <1>3, SameForks, FreedKeeps
  <1>4. ASSUME NEW c \in Children, StepOn(s, c), node' \in {Reverted(s, c), node}
        PROVE  /\ SessionsOK' /\ DOMAIN work' = Sessions /\ node' \in [Children -> NodeRecords]
               /\ setting' = setting
    <2>1. PICK n2 \in NodeRecords : node' = [node EXCEPT ![c] = n2]
      BY <1>4, RevertedIs
    <2>. QED  BY <1>1, <1>2, <1>4, <2>1, FreedKeeps
  <1>. QED  BY <1>3, <1>4 DEF Throw

-----------------------------------------------------------------------------
(***************************************************************************)
(* What a comparison concludes.                                            *)
(***************************************************************************)
LEMMA MeasureEnds ==
  ASSUME Base, SessionsOK, NEW s \in Sessions, work[s].task = "compare", work[s].stage = "judge",
         work[s].purpose = "measure", NEW passed \in BOOLEAN, NEW failed \in BOOLEAN,
         NEW buffer \in Nat \cup {NoAmount}
  PROVE  LET u == Marking(AfterMeasure(s, work[s], passed, buffer), failed)
         IN  /\ Sound(Pinned, Static, u) /\ Solvent(Pinned, Static, u)
             /\ Expected(Pinned, Static, u, FreshNode(Pinned))
             /\ u.stage = "assess" /\ u.outcome = work[s].outcome
  <1>. DEFINE w == work[s]
              x == AfterMeasure(s, w, passed, buffer)
              u == Marking(x, failed)
              p == IF s \in RaisesBuffer /\ passed THEN RaisedPolicy(w.policy, buffer) ELSE w.policy
  <1>1. /\ Sound(Pinned, Static, w) /\ DOMAIN w = WorkFields /\ w.glitched \in BOOLEAN
        /\ w.policy \in RiskPolicySet
    BY SessionWork DEF Sound, WorkTyped
  <1>2. p \in RiskPolicySet
    BY <1>1, RaisedTyped
  <1>3. x = [w EXCEPT !.stage = "assess", !.policy = p]
    BY DEF AfterMeasure
  <1>. HIDE DEF p, x
  <1>4. /\ Agree(x, w, {"stage", "policy"}) /\ x.stage = "assess" /\ x.policy = p
        /\ DOMAIN x = WorkFields /\ x.glitched = w.glitched /\ x.outcome = w.outcome
    BY <1>1, <1>3 DEF Agree, WorkFields
  <1>5. Agree(u, x, {"glitched"}) /\ u.glitched \in BOOLEAN
    BY <1>1, <1>4, MarkingFields
  <1>. HIDE DEF u
  <1>6. /\ Agree(u, w, {"stage", "policy", "glitched"}) /\ u.stage = "assess"
        /\ u.policy = p /\ u.outcome = w.outcome
    BY <1>4, <1>5 DEF Agree, WorkFields
  <1>7. /\ Sound(Pinned, Static, u) /\ Solvent(Pinned, Static, u)
        /\ Expected(Pinned, Static, u, FreshNode(Pinned))
    BY <1>1, <1>2, <1>5, <1>6, Measured
  <1>. QED  BY <1>6, <1>7 DEF u, x

LEMMA ConfirmEnds ==
  ASSUME Base, SessionsOK, NEW s \in Sessions, work[s].task = "compare", work[s].stage = "judge",
         work[s].purpose = "confirm", NEW passed \in BOOLEAN, NEW failed \in BOOLEAN
  PROVE  LET u == Marking(AfterConfirm(s, work[s], passed), failed)
         IN  /\ Sound(Pinned, Static, u)
             /\ Solvent(Pinned, Static, work[s]) => Solvent(Pinned, Static, u)
             /\ Expected(Pinned, Static, u, FreshNode(Pinned))
             /\ u.stage \in {"assess", "close", "snapshot"} /\ u.outcome \in {work[s].outcome, "ok"}
  <1>. DEFINE w == work[s]
              r == Result("NOT_REQUIRED", 0, TargetBound(s))
              b == TargetBound(s)
              x == AfterConfirm(s, w, passed)
              u == Marking(x, failed)
  <1>1. /\ Sound(Pinned, Static, w) /\ DOMAIN w = WorkFields /\ w.glitched \in BOOLEAN
        /\ WorkTyped(w)
    BY SessionWork DEF Sound
  <1>2. Feasible(Pinned, Static, w.policy, w.strategy, w.missing) # {}
    BY <1>1 DEF Sound, Aimed, OnFork
  <1>3. b \in Nat /\ 1 <= b /\ b = BoundFor(Pinned, Static, w)
    BY <1>1, <1>2, TargetFacts, OwnTarget, SettingFacts DEF Base
  <1>4. CASE passed
    <2>1. x = Settle(w, r)
      BY <1>4 DEF AfterConfirm
    <2>2. Proved(Pinned, Static, w.policy, w.strategy, r)
      BY DEF Proved, Result
    <2>. HIDE DEF r, x
    <2>3. /\ Agree(u, w, {"results", "strategy", "stage", "outcome", "glitched"})
          /\ u.results = [w.results EXCEPT ![w.strategy] = r]
          /\ u.strategy \in Strategies /\ u.stage \in {"assess", "close"}
          /\ u.outcome \in {w.outcome, "ok"} /\ u.glitched \in BOOLEAN
      BY <1>1, <2>1, SettledAgree
    <2>. HIDE DEF u
    <2>4. Agree(u, w, {"results", "strategy", "stage", "outcome", "search", "verified", "glitched"})
      BY <2>3, AgreeWidens
    <2>5. /\ Sound(Pinned, Static, u)
          /\ Solvent(Pinned, Static, w) => Solvent(Pinned, Static, u)
          /\ Expected(Pinned, Static, u, FreshNode(Pinned))
      BY <1>1, <2>2, <2>3, <2>4, Settles
    <2>. QED  BY <2>3, <2>5 DEF u, x
  <1>5. CASE ~passed
    <2>1. x = [w EXCEPT !.stage = "snapshot", !.purpose = "branch", !.verified = {},
                        !.search = StartSearch(1, b, MaxProbes[s])]
      BY <1>5 DEF AfterConfirm
    <2>. DEFINE q == StartSearch(1, b, MaxProbes[s])
    <2>2. q.low = 1 /\ q.high = b /\ q.found = NoAmount
      BY DEF StartSearch
    <2>. HIDE DEF q, x
    <2>3. /\ Agree(x, w, {"stage", "purpose", "verified", "search"}) /\ x.stage = "snapshot"
          /\ x.purpose = "branch" /\ x.verified = {} /\ x.search = q
          /\ DOMAIN x = WorkFields /\ x.glitched = w.glitched /\ x.outcome = w.outcome
      BY <1>1, <2>1 DEF Agree, WorkFields, q
    <2>4. Agree(u, x, {"glitched"}) /\ u.glitched \in BOOLEAN
      BY <1>1, <2>3, MarkingFields
    <2>. HIDE DEF u, b
    <2>5. /\ Agree(u, w, {"stage", "purpose", "verified", "search", "glitched"})
          /\ u.stage = "snapshot" /\ u.purpose = "branch" /\ u.verified = {} /\ u.search = q
          /\ u.outcome = w.outcome
      BY <2>3, <2>4 DEF Agree, WorkFields
    <2>6. /\ Sound(Pinned, Static, u)
          /\ Solvent(Pinned, Static, w) => Solvent(Pinned, Static, u)
          /\ Expected(Pinned, Static, u, FreshNode(Pinned))
      BY <1>1, <1>2, <1>3, <2>2, <2>4, <2>5, Resumes
    <2>. QED  BY <2>5, <2>6 DEF u, x
  <1>. QED  BY <1>4, <1>5

LEMMA BranchEnds ==
  ASSUME Base, SessionsOK, NEW s \in Sessions, work[s].task = "compare", work[s].stage = "judge",
         work[s].purpose = "branch", NEW passed \in BOOLEAN, NEW failed \in BOOLEAN
  PROVE  LET w == work[s]
             u == Marking(AfterBranch(s, w, passed), failed)
         IN  /\ Sound(Pinned, Static, u)
             /\ /\ Solvent(Pinned, Static, w)
                /\ passed => SolventAt(Pinned, Static, w.strategy, TargetOf(Pinned, Static, w),
                                       AmountOf(Pinned, Static, w))
                => Solvent(Pinned, Static, u)
             /\ Expected(Pinned, Static, u, FreshNode(Pinned))
             /\ u.stage \in {"assess", "close", "snapshot"} /\ u.outcome \in {w.outcome, "ok"}
  <1>. DEFINE w == work[s]
              a == Amount(s)
              b == TargetBound(s)
              verified == IF passed THEN w.verified \cup {a} ELSE w.verified
              search == Probe(w.search, passed)
              tested == [w EXCEPT !.verified = verified, !.search = search]
              atBound == FinalizeResult(tested, IF passed THEN a ELSE NoAmount, TRUE, b)
              found == FinalizeResult(tested, search.found, Complete(search), b)
              x == AfterBranch(s, w, passed)
              u == Marking(x, failed)
  <1>1. /\ Sound(Pinned, Static, w) /\ DOMAIN w = WorkFields /\ w.glitched \in BOOLEAN
        /\ WorkTyped(w)
    BY SessionWork DEF Sound
  <1>2. /\ Agree(tested, w, {"verified", "search"}) /\ tested.verified = verified
        /\ tested.search = search
    BY <1>1 DEF Agree, WorkFields
  <1>3. /\ WorkTyped(tested) /\ DOMAIN tested = WorkFields /\ tested.glitched = w.glitched
        /\ tested.outcome = w.outcome
    <2>1. /\ DOMAIN tested = WorkFields
          /\ \A f \in WorkFields \ {"verified", "search"} : tested[f] = w[f]
      BY <1>2 DEF Agree
    <2>. HIDE DEF tested
    <2>. QED  BY <1>1, <2>1 DEF WorkTyped, WorkFields
  <1>4. /\ a = AmountOf(Pinned, Static, w) /\ b = BoundFor(Pinned, Static, w)
        /\ TestsBoundOnly(s) <=> w.policy.goal = "MAX_SAFETY"
    BY OwnTarget
  <1>5. /\ TestsBoundOnly(s) => x = Settle(tested, atBound)
        /\ ~TestsBoundOnly(s) /\ Ended(search) => x = Settle(tested, found)
        /\ ~TestsBoundOnly(s) /\ ~Ended(search) => x = [tested EXCEPT !.stage = "snapshot"]
    BY DEF AfterBranch
  <1>6. Pinned \in Holdings /\ Static \in Statics
    BY SettingFacts DEF Base
  <1>. DEFINE Was == /\ Solvent(Pinned, Static, w)
                     /\ passed => SolventAt(Pinned, Static, w.strategy, TargetOf(Pinned, Static, w),
                                            AmountOf(Pinned, Static, w))
  <1>. HIDE DEF tested, search, x, w, b, a
  <1>7. verified = IF passed THEN w.verified \cup {AmountOf(Pinned, Static, w)} ELSE w.verified
    BY <1>4
  <1>. HIDE DEF verified
  <1>8. ASSUME NEW amount, NEW complete,
                  x = Settle(tested, FinalizeResult(tested, amount, complete, b))
        PROVE  /\ Sound(Pinned, Static, u) /\ (Was => Solvent(Pinned, Static, u))
               /\ Expected(Pinned, Static, u, FreshNode(Pinned))
               /\ u.stage \in {"assess", "close", "snapshot"} /\ u.outcome \in {w.outcome, "ok"}
    <2>. DEFINE r == FinalizeResult(tested, amount, complete, BoundFor(Pinned, Static, w))
    <2>1. x = Settle(tested, r)
      BY <1>4, <1>8
    <2>. HIDE DEF r
    <2>2. /\ Agree(u, tested, {"results", "strategy", "stage", "outcome", "glitched"})
          /\ u.results = [tested.results EXCEPT ![tested.strategy] = r]
          /\ u.strategy \in Strategies /\ u.stage \in {"assess", "close"}
          /\ u.outcome \in {tested.outcome, "ok"} /\ u.glitched \in BOOLEAN
      BY <1>3, <2>1, SettledAgree
    <2>. HIDE DEF u, Was
    <2>3. u.results = [tested.results EXCEPT ![tested.strategy] =
                          FinalizeResult(tested, amount, complete, BoundFor(Pinned, Static, w))]
      BY <2>2 DEF r
    <2>4. /\ w.task = "compare" /\ w.stage = "judge" /\ w.purpose = "branch"
          /\ tested.verified = IF passed THEN w.verified \cup {AmountOf(Pinned, Static, w)}
                                         ELSE w.verified
      BY <1>2, <1>7 DEF w
    <2>5. /\ Sound(Pinned, Static, u) /\ (Was => Solvent(Pinned, Static, u))
          /\ Expected(Pinned, Static, u, FreshNode(Pinned))
      BY <1>1, <1>2, <1>6, <2>2, <2>3, <2>4, BranchSettles, SMTT(30) DEF Was
    <2>. QED  BY <1>3, <2>2, <2>5
  <1>9. ASSUME ~TestsBoundOnly(s), ~Ended(search), x = [tested EXCEPT !.stage = "snapshot"]
        PROVE  /\ Sound(Pinned, Static, u) /\ (Was => Solvent(Pinned, Static, u))
               /\ Expected(Pinned, Static, u, FreshNode(Pinned))
               /\ u.stage \in {"assess", "close", "snapshot"} /\ u.outcome \in {w.outcome, "ok"}
    <2>1. /\ Agree(x, tested, {"stage"}) /\ x.stage = "snapshot" /\ DOMAIN x = WorkFields
          /\ x.glitched = w.glitched /\ x.outcome = w.outcome
      BY <1>3, <1>9 DEF Agree, WorkFields
    <2>2. Agree(u, x, {"glitched"}) /\ u.glitched \in BOOLEAN
      BY <1>1, <2>1, MarkingFields
    <2>. HIDE DEF u, Was
    <2>3. Agree(u, tested, {"stage", "glitched"}) /\ u.stage = "snapshot" /\ u.outcome = w.outcome
      BY <2>1, <2>2 DEF Agree, WorkFields
    <2>4. w.policy.goal # "MAX_SAFETY" /\ ~Ended(tested.search)
      BY <1>2, <1>4, <1>9
    <2>5. /\ Sound(Pinned, Static, u) /\ (Was => Solvent(Pinned, Static, u))
          /\ Expected(Pinned, Static, u, FreshNode(Pinned))
      BY <1>1, <1>2, <1>6, <1>7, <2>2, <2>3, <2>4, BranchGoesOn DEF Was, w, search
    <2>. QED  BY <2>3, <2>5
  <1>. QED  BY <1>5, <1>8, <1>9 DEF w, u, x

(* A branch that passed has rescued the wallet.                            *)
LEMMA PassedBranch ==
  ASSUME NEW h \in Holdings, NEW st \in Statics, NEW w, Sound(h, st, w), w.task = "compare",
         w.stage = "judge", w.purpose = "branch", NEW n, Expected(h, st, w, n), NEW missing,
         BranchPasses(w, ReadRisk(n.holdings, st, missing))
  PROVE  SolventAt(h, st, w.strategy, TargetOf(h, st, w), AmountOf(h, st, w))
  <1>. DEFINE m == TargetOf(h, st, w)
              a == AmountOf(h, st, w)
              t == w.strategy
  <1>1. PICK v \in Holdings : n.holdings = ApplyChange(v, st) /\ MovedAsPlanned(h, st, w, v)
    BY DEF Expected, BranchPasses
  <1>2. HasMoved(h, v, t, m, a, MovedFrom(h, t, m, a).entered)
    BY <1>1 DEF MovedAsPlanned
  <1>3. Feasible(h, st, w.policy, w.strategy, w.missing) # {} /\ a \in Nat
    BY AmountFacts DEF OnFork
  <1>4. m \in Markets /\ t \in Strategies
    BY <1>3, TargetFacts DEF Sound, WorkTyped
  <1>5. RawRisk(n.holdings, st).status \notin {"SHORTFALL", "UNKNOWN"}
    BY PassesIsSolvent DEF BranchPasses
  <1>. HIDE DEF m, a, t
  <1>6. RawRisk(ApplyChange(v, st), st) = RawRisk(ApplyChange(MovedFrom(h, t, m, a), st), st)
    BY <1>2, <1>3, <1>4, RescuedRisk
  <1>7. SolventAt(h, st, t, m, a)
    BY <1>1, <1>5, <1>6 DEF SolventAt
  <1>. QED  BY <1>7 DEF m, a, t

LEMMA JudgeKeeps ==
  ASSUME Base, SessionsOK, NEW s \in Sessions, Judge(s)
  PROVE  /\ SessionsOK' /\ DOMAIN work' = Sessions /\ node' \in [Children -> NodeRecords]
         /\ setting' = setting
  <1>. DEFINE w == work[s]
  <1>1. PICK c \in Children, missing \in PositionsUnread :
          /\ StepOn(s, c) /\ node' = Reverted(s, c)
          /\ LET risk   == ReadRisk(node[c].holdings, Static, missing)
                 passed == BranchPasses(w, risk)
             IN  MayFail(s, missing # AllRead,
                   CASE w.purpose = "measure" -> AfterMeasure(s, w, passed, risk.buffer)
                     [] w.purpose = "confirm" -> AfterConfirm(s, w, passed)
                     [] w.purpose = "branch"  -> AfterBranch(s, w, passed))
    BY DEF Judge
  <1>. DEFINE n == node[c]
              risk == ReadRisk(n.holdings, Static, missing)
              passed == BranchPasses(w, risk)
              failed == missing # AllRead
              x == CASE w.purpose = "measure" -> AfterMeasure(s, w, passed, risk.buffer)
                     [] w.purpose = "confirm" -> AfterConfirm(s, w, passed)
                     [] w.purpose = "branch"  -> AfterBranch(s, w, passed)
              u == Marking(x, failed)
              n2 == Revert(n, w.snapshot)
  <1>2. /\ Sound(Pinned, Static, w) /\ DOMAIN w = WorkFields /\ w.stage = "judge"
        /\ w.task = "compare" /\ w.purpose \in Purposes /\ w.ok \in BOOLEAN
    BY SessionWork DEF Judge, At, Sound, WorkTyped
  <1>3. n \in NodeRecords /\ n.holdings \in Holdings
    BY DEF Base, NodeRecords
  <1>4. Pinned \in Holdings /\ Static \in Statics
    BY SettingFacts DEF Base
  <1>5. node' = [node EXCEPT ![c] = n2] /\ n2 \in NodeRecords
    BY <1>1, RevertedIs
  <1>6. passed \in BOOLEAN /\ failed \in BOOLEAN
    BY <1>2 DEF BranchPasses, PolicyPasses
  <1>7. risk.buffer \in Nat \cup {NoAmount}
    BY <1>3, <1>4, BufferTyped
  <1>8. work' = [work EXCEPT ![s] = u]
    <2>1. MayFail(s, failed, x)
      BY <1>1
    <2>. HIDE DEF x, failed
    <2>. QED  BY <1>6, <2>1, Marks
  <1>9. Expected(Pinned, Static, w, n) => n2 = FreshNode(Pinned)
    <2>1. Expected(Pinned, Static, w, n) => Marked(Pinned, w, n)
      BY <1>2 DEF Expected
    <2>. QED  BY <2>1, Reverts
  <1>10. Expected(Pinned, Static, w, n) /\ passed /\ w.purpose = "branch" =>
           SolventAt(Pinned, Static, w.strategy, TargetOf(Pinned, Static, w), AmountOf(Pinned, Static, w))
    BY <1>2, <1>4, PassedBranch
  <1>. DEFINE Was == Solvent(Pinned, Static, w) /\ Honest(w) /\ Expected(Pinned, Static, w, n)
  <1>11. /\ Sound(Pinned, Static, u) /\ (Was => Solvent(Pinned, Static, u))
         /\ Expected(Pinned, Static, u, FreshNode(Pinned))
         /\ u.stage \in {"assess", "close", "snapshot"} /\ u.outcome \in {w.outcome, "ok"}
    <2>1. CASE w.purpose = "measure"
      <3>1. x = AfterMeasure(s, w, passed, risk.buffer)
        BY <2>1
      <3>. DEFINE y == Marking(AfterMeasure(s, w, passed, risk.buffer), failed)
      <3>. HIDE DEF risk, passed, failed, x
      <3>2. u = y
        BY <3>1
      <3>3. /\ Sound(Pinned, Static, y) /\ Solvent(Pinned, Static, y)
            /\ Expected(Pinned, Static, y, FreshNode(Pinned))
            /\ y.stage = "assess" /\ y.outcome = w.outcome
        BY <1>2, <1>6, <1>7, <2>1, MeasureEnds
      <3>. HIDE DEF u, y
      <3>. QED  BY <3>2, <3>3
    <2>2. CASE w.purpose = "confirm"
      <3>1. x = AfterConfirm(s, w, passed)
        BY <2>2
      <3>. DEFINE y == Marking(AfterConfirm(s, w, passed), failed)
      <3>. HIDE DEF risk, passed, failed, x
      <3>2. u = y
        BY <3>1
      <3>3. /\ Sound(Pinned, Static, y)
            /\ Solvent(Pinned, Static, w) => Solvent(Pinned, Static, y)
            /\ Expected(Pinned, Static, y, FreshNode(Pinned))
            /\ y.stage \in {"assess", "close", "snapshot"} /\ y.outcome \in {w.outcome, "ok"}
        BY <1>2, <1>6, <2>2, ConfirmEnds
      <3>. HIDE DEF u, y
      <3>. QED  BY <3>2, <3>3
    <2>3. CASE w.purpose = "branch"
      <3>1. x = AfterBranch(s, w, passed)
        BY <2>3
      <3>. DEFINE y == Marking(AfterBranch(s, w, passed), failed)
      <3>. HIDE DEF risk, passed, failed, x
      <3>2. u = y
        BY <3>1
      <3>3. /\ Sound(Pinned, Static, y)
            /\ /\ Solvent(Pinned, Static, w)
               /\ passed => SolventAt(Pinned, Static, w.strategy, TargetOf(Pinned, Static, w),
                                      AmountOf(Pinned, Static, w))
               => Solvent(Pinned, Static, y)
            /\ Expected(Pinned, Static, y, FreshNode(Pinned))
            /\ y.stage \in {"assess", "close", "snapshot"} /\ y.outcome \in {w.outcome, "ok"}
        BY <1>2, <1>6, <2>3, BranchEnds
      <3>. HIDE DEF u, y, w
      <3>. QED  BY <1>10, <2>3, <3>2, <3>3
    <2>. QED  BY <1>2, <2>1, <2>2, <2>3 DEF Purposes
  <1>12. Honest(w) => Honest(u)
    <2>. HIDE DEF u
    <2>. QED  BY <1>2, <1>11 DEF Honest
  <1>13. StepOn(s, c)
    BY <1>1
  <1>. HIDE DEF u, n2, n
  <1>14. Was => Solvent(Pinned, Static, u) /\ Honest(u) /\ Expected(Pinned, Static, u, n2)
    BY <1>9, <1>11, <1>12
  <1>15. Sound(Pinned, Static, u)
    BY <1>11
  <1>. HIDE DEF w
  <1>. QED  BY <1>5, <1>8, <1>13, <1>14, <1>15, StepKeeps DEF w, n

LEMMA WorkingKeeps ==
  ASSUME Base, SessionsOK, NEW s \in Sessions, Working(s)
  PROVE  /\ SessionsOK' /\ DOMAIN work' = Sessions /\ node' \in [Children -> NodeRecords]
         /\ setting' = setting
  BY BeginKeeps, TakeSnapshotKeeps, PlanCallKeeps, ReplayChangeKeeps, AssessKeeps, JudgeKeeps,
     ReceiptKeeps, ThrowKeeps, CloseKeeps DEF Working

-----------------------------------------------------------------------------
(***************************************************************************)
(* A session opens a fork, or its own is gone.                             *)
(***************************************************************************)
LEMMA SpawnFields ==
  ASSUME ForksInv, NEW s \in Sessions, NEW pin \in Pins, Spawn(s, pin)
  PROVE  /\ \A t \in Sessions : t # s => Kept(t)
         /\ fork'[s].child \in Children => anvil'[fork'[s].child].st = "booting"
  <1>1. PICK c \in Children, p \in Ports :
          /\ Unused(c)
          /\ anvil' = [d \in Children |->
              IF d = c THEN [st |-> "booting", port |-> p, pin |-> pin, term |-> FALSE,
                             raced |-> \E e \in Children : Booting(e, p),
                             crashed |-> FALSE]
              ELSE IF Booting(d, p) THEN Raced(anvil[d]) ELSE anvil[d]]
          /\ fork' = [fork EXCEPT ![s] = [pc |-> "starting", child |-> c,
                                        port |-> p, pin |-> pin]]
    BY DEF Spawn
  <1>2. /\ fork'[s].child = c /\ anvil'[c].st = "booting"
        /\ \A t \in Sessions : t # s => fork'[t] = fork[t] /\ fork[t].child # c
    BY <1>1 DEF ForksInv, ForksTypeOK, Unused
  <1>3. \A d \in Children : d # c => anvil'[d].st = anvil[d].st
    BY <1>1, Typed, RacedChild DEF ForksInv
  <1>. QED  BY <1>2, <1>3 DEF Kept

(* The record of a session that has found nothing yet.                     *)
Blank(w, p, task, stage, calls) ==
    /\ DOMAIN w = WorkFields /\ w.task = task /\ w.stage = stage /\ w.calls = calls
    /\ w.purpose = "measure" /\ w.strategy \in Strategies /\ w.policy = p
    /\ w.ok = TRUE /\ w.glitched = FALSE /\ w.outcome = "none"
    /\ DOMAIN w.results = Strategies /\ AllNone(w.results) /\ w.receipt = NoReceipt

LEMMA NoWorkIsBlank ==
  ASSUME NEW s
  PROVE  Blank(NoWork(s), setting.policy[s], "none", "idle", <<>>)
  <1>. DEFINE r == [t \in Strategies |-> NoResult]
  <1>1. DOMAIN r = Strategies /\ AllNone(r)
    BY DEF AllNone
  <1>2. "REPAY_DEBT" \in Strategies
    BY DEF Strategies
  <1>. HIDE DEF r
  <1>3. NoWork(s).results = r
    BY DEF NoWork, r
  <1>4. /\ DOMAIN NoWork(s) = WorkFields /\ NoWork(s).task = "none" /\ NoWork(s).stage = "idle"
        /\ NoWork(s).calls = <<>> /\ NoWork(s).purpose = "measure"
        /\ NoWork(s).strategy = "REPAY_DEBT" /\ NoWork(s).policy = setting.policy[s]
        /\ NoWork(s).ok = TRUE /\ NoWork(s).glitched = FALSE /\ NoWork(s).outcome = "none"
        /\ NoWork(s).receipt = NoReceipt
    BY DEF NoWork, WorkFields
  <1>. QED  BY <1>1, <1>2, <1>3, <1>4 DEF Blank

LEMMA OpenIsBlank ==
  ASSUME NEW w, NEW p, Blank(w, p, "none", "idle", <<>>), NEW task, NEW calls
  PROVE  Blank([w EXCEPT !.task = task, !.stage = "open", !.calls = calls], p, task, "open", calls)
  BY DEF Blank, WorkFields

LEMMA NewWork ==
  ASSUME NEW h, NEW st, NEW p \in RiskPolicySet, NEW task, NEW stage, NEW calls \in Seq(Calls),
         \/ task = "none" /\ stage = "idle"
         \/ task \in {"replay", "compare", "dryrun"} /\ stage = "open",
         task = "dryrun" => calls # <<>> /\ DryAhead(h, st, h, calls),
         NEW w, Blank(w, p, task, stage, calls)
  PROVE  /\ Sound(h, st, w) /\ Solvent(h, st, w) /\ Honest(w)
         /\ Expected(h, st, w, FreshNode(h))
         /\ stage = "idle" => \A n : Expected(h, st, w, n)
  <1>1. /\ DOMAIN w = WorkFields /\ w.task = task /\ w.stage = stage /\ w.calls = calls
        /\ w.purpose = "measure" /\ w.strategy \in Strategies /\ w.policy = p
        /\ w.ok = TRUE /\ w.glitched = FALSE /\ w.outcome = "none"
        /\ DOMAIN w.results = Strategies /\ AllNone(w.results)
    BY DEF Blank
  <1>2. WorkTyped(w)
    BY <1>1 DEF WorkTyped, OnFork, Purposes
  <1>3. Ordered(w)
    BY <1>1 DEF Ordered, OnFork
  <1>4. Aimed(h, st, w) /\ Tested(h, st, w)
    BY <1>1 DEF Aimed, Tested, OnFork
  <1>5. Solvent(h, st, w)
    BY <1>1, <1>4 DEF Solvent, Proved, AllNone, NoResult
  <1>6. Honest(w)
    BY <1>1 DEF Honest
  <1>7. Expected(h, st, w, FreshNode(h))
    BY <1>1 DEF Expected
  <1>8. stage = "idle" => \A n : Expected(h, st, w, n)
    BY <1>1, NothingExpected
  <1>. QED  BY <1>2, <1>3, <1>4, <1>5, <1>6, <1>7, <1>8 DEF Sound

LEMMA OpenKeeps ==
  ASSUME Base, SessionsOK, NEW s \in Sessions, NEW task \in {"replay", "compare", "dryrun"},
         NEW pin \in Pins, NEW calls \in Seq(Calls), Open(s, task, pin, calls),
         task = "dryrun" => calls # <<>> /\ DryAhead(Pinned, Static, Pinned, calls)
  PROVE  /\ SessionsOK' /\ DOMAIN work' = Sessions /\ node' \in [Children -> NodeRecords]
         /\ setting' = setting
  <1>. DEFINE x == NoWork(s)
              u == [x EXCEPT !.task = task, !.stage = "open", !.calls = calls]
  <1>1. setting.policy[s] \in RiskPolicySet
    BY SettingFacts DEF Base
  <1>2. work' = [work EXCEPT ![s] = u] /\ mixed' = mixed \ {s} /\ UNCHANGED <<node, setting>>
    BY DEF Open
  <1>3. /\ Sound(Pinned, Static, u) /\ Solvent(Pinned, Static, u) /\ Honest(u)
        /\ Expected(Pinned, Static, u, FreshNode(Pinned))
    <2>1. Blank(x, setting.policy[s], "none", "idle", <<>>)
      BY NoWorkIsBlank
    <2>. HIDE DEF x
    <2>2. Blank(u, setting.policy[s], task, "open", calls)
      BY <2>1, OpenIsBlank
    <2>. HIDE DEF u
    <2>. QED  BY <1>1, <2>2, NewWork
  <1>4. /\ \A t \in Sessions : t # s => Kept(t)
        /\ fork'[s].child \in Children => anvil'[fork'[s].child].st = "booting"
    BY SpawnFields DEF Open, Base
  <1>. HIDE DEF u
  <1>5. DOMAIN work' = Sessions /\ work'[s] = u /\ \A t \in Sessions : t # s => work'[t] = work[t]
    BY <1>2 DEF Base
  <1>6. \A t \in Sessions : t # s => SessionOK(t)'
    BY <1>2, <1>4, <1>5, Frame DEF SessionsOK
  <1>7. SessionOK(s)'
    <2>1. Pinned' = Pinned /\ Static' = Static
      BY <1>2 DEF Pinned, Static
    <2>. QED  BY <1>3, <1>4, <1>5, <2>1 DEF SessionOK
  <1>. QED  BY <1>2, <1>5, <1>6, <1>7 DEF SessionsOK, Base

LEMMA ForgetKeeps ==
  ASSUME Base, SessionsOK, NEW s \in Sessions, work' = [work EXCEPT ![s] = NoWork(s)],
         UNCHANGED <<forkVars, node, mixed, setting>>
  PROVE  /\ SessionsOK' /\ DOMAIN work' = Sessions /\ node' \in [Children -> NodeRecords]
         /\ setting' = setting
  <1>. DEFINE u == NoWork(s)
  <1>1. setting.policy[s] \in RiskPolicySet /\ <<>> \in Seq(Calls)
    BY SettingFacts DEF Base
  <1>2. Blank(u, setting.policy[s], "none", "idle", <<>>)
    BY NoWorkIsBlank
  <1>. HIDE DEF u
  <1>3. /\ Sound(Pinned, Static, u) /\ Solvent(Pinned, Static, u) /\ Honest(u)
        /\ \A n : Expected(Pinned, Static, u, n)
    BY <1>1, <1>2, NewWork
  <1>4. work' = [work EXCEPT ![s] = u]
    BY DEF u
  <1>. QED  BY <1>3, <1>4, SameForks, AloneKeeps DEF Base

(* Nobody works: at most the forks change under the sessions.              *)
LEMMA StillKeeps ==
  ASSUME Base, SessionsOK, \A t \in Sessions : Kept(t), UNCHANGED <<node, work, mixed, setting>>
  PROVE  /\ SessionsOK' /\ DOMAIN work' = Sessions /\ node' \in [Children -> NodeRecords]
         /\ setting' = setting
  BY Frame DEF SessionsOK, Base

LEMMA BindKeeps ==
  ASSUME Base, SessionsOK, NEW c \in Children, BindFresh(c)
  PROVE  /\ SessionsOK' /\ DOMAIN work' = Sessions /\ node' \in [Children -> NodeRecords]
         /\ setting' = setting
  <1>1. \A t \in Sessions : SessionOK(t)'
    BY Binds DEF SessionsOK, Base
  <1>2. node' = [node EXCEPT ![c] = FreshNode(Pinned)] /\ work' = work /\ setting' = setting
    BY DEF BindFresh, FreshNode
  <1>3. FreshNode(Pinned) \in NodeRecords
    BY SettingFacts DEF FreshNode, NodeRecords, Base
  <1>. QED  BY <1>1, <1>2, <1>3 DEF SessionsOK, Base

-----------------------------------------------------------------------------
(***************************************************************************)
(* What the agent keeps of its comparison.                                 *)
(***************************************************************************)
AgentFields == {"pc", "step", "model", "pending", "rejected", "impact", "comparison", "told",
                "forks", "status"}

(* The agent goes on, and what it has found stays.                         *)
KeepsFindings(b, a) ==
    /\ DOMAIN b = AgentFields
    /\ b.comparison = a.comparison /\ b.impact = a.impact /\ b.forks = a.forks
    /\ b.told = a.told /\ b.pc \in {"ask", "call", "ended"}

LEMMA FailsKeeps ==
  ASSUME NEW a, DOMAIN a = AgentFields
  PROVE  KeepsFindings(Fails(a), a) /\ Fails(a).rejected = a.rejected
  BY DEF KeepsFindings, Fails, AgentFields

LEMMA NextStepKeeps ==
  ASSUME NEW a, DOMAIN a = AgentFields
  PROVE  KeepsFindings(NextStep(a), a) /\ NextStep(a).rejected = a.rejected
  <1>. DEFINE b == [a EXCEPT !.step = @ + 1]
              c == [a EXCEPT !.step = @ + 1, !.pc = "ask"]
  <1>1. /\ DOMAIN b = AgentFields /\ b.comparison = a.comparison /\ b.impact = a.impact
        /\ b.forks = a.forks /\ b.told = a.told
        /\ b.rejected = a.rejected /\ KeepsFindings(c, a) /\ c.rejected = a.rejected
    BY DEF KeepsFindings, AgentFields
  <1>2. NextStep(a) \in {Fails(b), c}
    BY DEF NextStep
  <1>. HIDE DEF b, c
  <1>3. KeepsFindings(Fails(b), b) /\ Fails(b).rejected = b.rejected
    BY <1>1, FailsKeeps
  <1>. QED  BY <1>1, <1>2, <1>3 DEF KeepsFindings

LEMMA CallDoneKeeps ==
  ASSUME NEW a, DOMAIN a = AgentFields
  PROVE  KeepsFindings(CallDone(a), a) /\ CallDone(a).rejected = a.rejected
  <1>. DEFINE b == [a EXCEPT !.pending = <<>>]
              c == [a EXCEPT !.pending = Tail(a.pending), !.pc = "call"]
  <1>1. /\ DOMAIN b = AgentFields /\ b.comparison = a.comparison /\ b.impact = a.impact
        /\ b.forks = a.forks /\ b.told = a.told
        /\ b.rejected = a.rejected /\ KeepsFindings(c, a) /\ c.rejected = a.rejected
    BY DEF KeepsFindings, AgentFields
  <1>2. CallDone(a) \in {NextStep(b), c}
    BY DEF CallDone
  <1>. HIDE DEF b, c
  <1>3. KeepsFindings(NextStep(b), b) /\ NextStep(b).rejected = b.rejected
    BY <1>1, NextStepKeeps
  <1>. QED  BY <1>1, <1>2, <1>3 DEF KeepsFindings

LEMMA RejectedKeeps ==
  ASSUME NEW a, DOMAIN a = AgentFields
  PROVE  KeepsFindings(Rejected(a), a) /\ Rejected(a).rejected = a.rejected + 1
  <1>. DEFINE b == [a EXCEPT !.rejected = @ + 1]
  <1>1. /\ DOMAIN b = AgentFields /\ b.comparison = a.comparison /\ b.impact = a.impact
        /\ b.forks = a.forks /\ b.told = a.told /\ b.rejected = a.rejected + 1
    BY DEF AgentFields
  <1>2. Rejected(a) \in {Fails(b), CallDone(b)}
    BY DEF Rejected
  <1>. HIDE DEF b
  <1>3. /\ KeepsFindings(Fails(b), b) /\ KeepsFindings(CallDone(b), b)
        /\ Fails(b).rejected = b.rejected /\ CallDone(b).rejected = b.rejected
    BY <1>1, FailsKeeps, CallDoneKeeps
  <1>. QED  BY <1>1, <1>2, <1>3 DEF KeepsFindings

LEMMA ToldFields ==
  ASSUME NEW a, DOMAIN a = AgentFields, NEW shown \in SUBSET Strategies
  PROVE  /\ DOMAIN Told(a, shown) = AgentFields
         /\ Told(a, shown).comparison = a.comparison /\ Told(a, shown).impact = a.impact
         /\ Told(a, shown).forks = a.forks /\ Told(a, shown).rejected = a.rejected
         /\ \A x \in Told(a, shown).told \ a.told : \E u \in Strategies :
               x = <<u, a.comparison.results[u].amount>>
               /\ a.comparison.results[u].status = "VERIFIED"
  <1>. DEFINE more == {<<t, a.comparison.results[t].amount>> :
                          t \in {u \in shown : a.comparison.results[u].status = "VERIFIED"}}
  <1>2. Told(a, shown) = [a EXCEPT !.told = @ \cup more]
    BY DEF Told
  <1>3. \A x \in more : \E u \in Strategies :
            x = <<u, a.comparison.results[u].amount>> /\ a.comparison.results[u].status = "VERIFIED"
    OBVIOUS
  <1>. HIDE DEF more
  <1>4. /\ DOMAIN Told(a, shown) = AgentFields /\ Told(a, shown).comparison = a.comparison
        /\ Told(a, shown).impact = a.impact /\ Told(a, shown).forks = a.forks
        /\ Told(a, shown).rejected = a.rejected
        /\ Told(a, shown).told = a.told \cup more
    BY <1>2 DEF AgentFields
  <1>. QED  BY <1>3, <1>4

(* The call is done or refused, after what it showed was told.             *)
Heard(b, a) ==
    \E shown \in SUBSET Strategies :
        b = CallDone(Told(a, shown)) \/ b = Rejected(Told(a, shown))

LEMMA Tells ==
  ASSUME NEW a, NEW tool, TellResult(a, tool)
  PROVE  Heard(agent', a)
  <1>1. Shown(tool) \in SUBSET Strategies
    BY DEF Shown, Strategies
  <1>. HIDE DEF Shown
  <1>2. CASE agent' = CallDone(Told(a, Shown(tool)))
    BY <1>1, <1>2 DEF Heard
  <1>3. CASE \E shown \in {{}, Shown(tool) \cap {"REPAY_DEBT"}, Shown(tool)} :
                agent' = Rejected(Told(a, shown))
    BY <1>1, <1>3 DEF Heard
  <1>. QED  BY <1>2, <1>3 DEF TellResult

LEMMA HeardKeeps ==
  ASSUME NEW a, DOMAIN a = AgentFields, NEW b, Heard(b, a)
  PROVE  DOMAIN b = AgentFields /\ b.comparison = a.comparison /\ b.impact = a.impact
  <1>1. PICK shown \in SUBSET Strategies :
            b = CallDone(Told(a, shown)) \/ b = Rejected(Told(a, shown))
    BY DEF Heard
  <1>. DEFINE x == Told(a, shown)
  <1>2. DOMAIN x = AgentFields /\ x.comparison = a.comparison /\ x.impact = a.impact
    BY ToldFields
  <1>3. b = CallDone(x) \/ b = Rejected(x)
    BY <1>1
  <1>. HIDE DEF x
  <1>. QED  BY <1>2, <1>3, CallDoneKeeps, RejectedKeeps DEF KeepsFindings

(* The agent's session closed its fork: what it found becomes the cache.   *)
Cachable(receipt, m) == [receipt EXCEPT !.mixed = m]

Returned(a, w, m) ==
    [a EXCEPT !.impact = IF w.task = "replay" THEN Cachable(w.receipt, m) ELSE @,
              !.comparison = IF w.task = "replay" THEN @
                             ELSE [known |-> TRUE, results |-> w.results,
                                   policy |-> w.policy, mixed |-> m,
                                   glitched |-> w.glitched]]

(* The outcome of a fork is added to what the agent has found.             *)
AddsFinding(b, a, w, m) ==
    /\ DOMAIN b = AgentFields /\ b.told = a.told /\ b.forks = a.forks /\ b.rejected = a.rejected
    /\ w.task = "replay" => b.comparison = a.comparison /\ b.impact = Cachable(w.receipt, m)
    /\ w.task # "replay" => /\ b.impact = a.impact
                            /\ b.comparison.known = TRUE /\ b.comparison.results = w.results
                            /\ b.comparison.policy = w.policy /\ b.comparison.mixed = m

LEMMA ReturnedFields ==
  ASSUME NEW a, DOMAIN a = AgentFields, NEW w, NEW m
  PROVE  AddsFinding(Returned(a, w, m), a, w, m)
  <1>. DEFINE b == Returned(a, w, m)
              i == IF w.task = "replay" THEN Cachable(w.receipt, m) ELSE a.impact
              n == [known |-> TRUE, results |-> w.results, policy |-> w.policy, mixed |-> m,
                    glitched |-> w.glitched]
              c == IF w.task = "replay" THEN a.comparison ELSE n
  <1>1. n.known = TRUE /\ n.results = w.results /\ n.policy = w.policy /\ n.mixed = m
    OBVIOUS
  <1>2. b = [a EXCEPT !.impact = i, !.comparison = c]
    BY DEF Returned, AgentFields
  <1>. HIDE DEF i, n
  <1>. HIDE DEF b
  <1>3. [a EXCEPT !.impact = i, !.comparison = c].comparison = c
    BY DEF AgentFields
  <1>. HIDE DEF c
  <1>4. /\ DOMAIN b = AgentFields /\ b.told = a.told /\ b.forks = a.forks
        /\ b.rejected = a.rejected
        /\ b.impact = i /\ b.comparison = c
    BY <1>2 DEF AgentFields
  <1>. QED  BY <1>1, <1>4 DEF i, c, b, AddsFinding

LEMMA Returns ==
  ASSUME ForkReturns
  PROVE  LET full == Returned(agent, work[Agent], Agent \in mixed)
         IN  \/ Heard(agent', full) /\ work[Agent].outcome = "ok"
             \/ agent' = Rejected(agent)
  <1>. DEFINE full == Returned(agent, work[Agent], Agent \in mixed)
  <1>1. \/ TellResult(full, Tool) /\ work[Agent].outcome = "ok"
        \/ agent' = Rejected(agent)
    BY DEF ForkReturns, Returned, Cachable
  <1>. HIDE DEF full
  <1>2. TellResult(full, Tool) => Heard(agent', full)
    BY Tells
  <1>. QED  BY <1>1, <1>2 DEF full

-----------------------------------------------------------------------------
(***************************************************************************)
(* The desk: the job, the agent, the API and the shutdown.                 *)
(***************************************************************************)
DeskFields == {"job", "receipt", "api", "plan"}

(* A plan that the API will run does what it promises.                     *)
PlanOK ==
    desk.api = "planned" =>
        desk.plan \in Seq(Calls) /\ desk.plan # <<>> /\ DryAhead(Pinned, Static, Pinned, desk.plan)

(* What the agent keeps of its comparison.                                 *)
CacheOK ==
    ~agent.comparison.mixed =>
        \A t \in Strategies :
            Proved(Pinned, Static, agent.comparison.policy, t, agent.comparison.results[t])

DeskInv ==
    /\ Base /\ SessionsOK /\ PlanOK /\ CacheOK
    /\ DOMAIN agent = AgentFields /\ DOMAIN desk = DeskFields

(* All but the forks.                                                      *)
GoesOn ==
    /\ SessionsOK' /\ DOMAIN work' = Sessions /\ node' \in [Children -> NodeRecords]
    /\ setting' = setting

AgentOK == DOMAIN agent = AgentFields /\ CacheOK
ApiOK == DOMAIN desk = DeskFields /\ PlanOK

LEMMA SameAgent ==
  ASSUME AgentOK, setting' = setting, DOMAIN agent' = AgentFields,
         agent'.comparison = agent.comparison
  PROVE  AgentOK'
  BY DEF AgentOK, CacheOK, Pinned, Static

LEMMA SameApi ==
  ASSUME ApiOK, setting' = setting, DOMAIN desk' = DeskFields,
         desk'.api = "planned" => desk.api = "planned" /\ desk'.plan = desk.plan
  PROVE  ApiOK'
  BY DEF ApiOK, PlanOK, Pinned, Static

LEMMA DeskMoves ==
  ASSUME NEW j, DOMAIN desk = DeskFields
  PROVE  /\ DOMAIN [desk EXCEPT !.job = j] = DeskFields
         /\ [desk EXCEPT !.job = j].api = desk.api /\ [desk EXCEPT !.job = j].plan = desk.plan
         /\ DOMAIN [desk EXCEPT !.api = j] = DeskFields
         /\ [desk EXCEPT !.api = j].api = j /\ [desk EXCEPT !.api = j].plan = desk.plan
         /\ \A r : /\ DOMAIN [desk EXCEPT !.job = j, !.receipt = r] = DeskFields
                   /\ [desk EXCEPT !.job = j, !.receipt = r].api = desk.api
                   /\ [desk EXCEPT !.job = j, !.receipt = r].plan = desk.plan
                   /\ DOMAIN [desk EXCEPT !.api = j, !.plan = r] = DeskFields
                   /\ [desk EXCEPT !.api = j, !.plan = r].api = j
                   /\ [desk EXCEPT !.api = j, !.plan = r].plan = r
  BY DEF DeskFields

LEMMA ForksGoOn ==
  ASSUME Base, SessionsOK, NEW s \in Sessions, ForkSteps(s)
  PROVE  GoesOn
  <1>1. CASE (Check(s) \/ Healthy(s) \/ Unhealthy(s) \/ Stopped(s)) /\ Still
    <2>1. \A t \in Sessions : Kept(t)
      BY <1>1, SessionKeeps DEF Base
    <2>. QED  BY <1>1, <2>1, StillKeeps DEF Still, GoesOn
  <1>2. CASE OpenFails(s)
    BY <1>2, OpenFailsKeeps DEF GoesOn
  <1>3. CASE Working(s)
    BY <1>3, WorkingKeeps DEF GoesOn
  <1>. QED  BY <1>1, <1>2, <1>3 DEF ForkSteps

LEMMA ChildrenGoOn ==
  ASSUME Base, SessionsOK, NEW c \in Children, ChildSteps(c) \/ ChildCrashes(c)
  PROVE  GoesOn
  <1>1. CASE BindFresh(c)
    BY <1>1, BindKeeps DEF GoesOn
  <1>2. CASE (Exit(c) \/ SweepKills(c)) /\ Still
    <2>1. \A t \in Sessions : Kept(t)
      BY <1>2, ChildKeeps DEF Base
    <2>. QED  BY <1>2, <2>1, StillKeeps DEF GoesOn, Still
  <1>3. CASE ChildCrashes(c)
    <2>1. \A t \in Sessions : Kept(t)
      BY <1>3, ChildKeeps DEF Base, ChildCrashes
    <2>. QED  BY <1>3, <2>1, StillKeeps DEF GoesOn, ChildCrashes
  <1>. QED  BY <1>1, <1>2, <1>3 DEF ChildSteps

LEMMA ShutdownGoesOn ==
  ASSUME Base, SessionsOK, Shutdown \/ SignalReceived
  PROVE  GoesOn
  <1>1. \A t \in Sessions : Kept(t)
    BY ShutdownKeeps DEF Base, Shutdown, SignalReceived
  <1>2. UNCHANGED <<node, work, mixed, setting>>
    BY DEF Shutdown, SignalReceived, Still
  <1>. QED  BY <1>1, <1>2, StillKeeps DEF GoesOn

LEMMA NobodyWorks ==
  ASSUME Base, SessionsOK, UNCHANGED <<forkVars, node, work, mixed, setting>>
  PROVE  GoesOn
  BY SameForks, StillKeeps DEF GoesOn

LEMMA OpensForJob ==
  ASSUME Base, SessionsOK, NEW s \in Sessions, NEW task \in {"replay", "compare"},
         Open(s, task, 0, <<>>)
  PROVE  GoesOn
  <1>1. <<>> \in Seq(Calls) /\ 0 \in Pins
    BY Callers
  <1>. QED  BY <1>1, OpenKeeps DEF GoesOn

LEMMA AgentGoesOn ==
  ASSUME DeskInv, AgentNext
  PROVE  GoesOn /\ AgentOK'
  <1>0. AgentOK /\ Base /\ SessionsOK /\ Agent \in Sessions
    BY Callers DEF DeskInv, AgentOK
  <1>1. CASE AskModel
    <2>1. PICK reply, m : Answered(reply, m)
      BY <1>1 DEF AskModel
    <2>2. DOMAIN agent' = AgentFields /\ agent'.comparison = agent.comparison
      BY <1>0, <2>1 DEF Answered, AgentOK, AgentFields
    <2>. QED  BY <1>0, <2>1, <2>2, NobodyWorks, SameAgent DEF Answered, GoesOn
  <1>2. CASE ModelFails \/ AgentTimeout \/ TraceFails
    BY <1>0, <1>2, NobodyWorks, SameAgent, FailsKeeps
       DEF ModelFails, AgentTimeout, TraceFails, GoesOn, AgentOK, KeepsFindings
  <1>3. CASE PlainCall
    <2>1. agent' = Rejected(agent) \/ Heard(agent', agent)
      BY <1>3, Tells DEF PlainCall, ForbiddenCall, ReadCall, CachedCall
    <2>2. DOMAIN agent' = AgentFields /\ agent'.comparison = agent.comparison
      BY <1>0, <2>1, RejectedKeeps, HeardKeeps DEF KeepsFindings, AgentOK
    <2>. QED  BY <1>0, <1>3, <2>2, NobodyWorks, SameAgent DEF PlainCall, GoesOn
  <1>4. CASE ForkCall
    <2>1. PICK task \in {"replay", "compare"} : Open(Agent, task, 0, <<>>)
      BY <1>4 DEF ForkCall
    <2>2. GoesOn
      BY <1>0, <2>1, OpensForJob
    <2>3. DOMAIN agent' = AgentFields /\ agent'.comparison = agent.comparison
      BY <1>0, <1>4 DEF ForkCall, AgentOK, AgentFields
    <2>. QED  BY <1>0, <2>2, <2>3, SameAgent DEF GoesOn
  <1>5. CASE ForkRefused
    <2>1. DOMAIN agent' = AgentFields /\ agent'.comparison = agent.comparison
      BY <1>0, <1>5, RejectedKeeps DEF ForkRefused, KeepsFindings, AgentOK
    <2>2. GoesOn
      BY <1>0, <1>5, NobodyWorks DEF ForkRefused, NoPortLeft, workVars
    <2>. QED  BY <1>0, <2>1, <2>2, SameAgent DEF GoesOn
  <1>6. CASE ForkReturns
    <2>. DEFINE w == work[Agent]
                m == Agent \in mixed
                full == Returned(agent, w, m)
    <2>1. GoesOn
      BY <1>0, <1>6, ForgetKeeps DEF ForkReturns, GoesOn
    <2>2. Heard(agent', full) \/ agent' = Rejected(agent)
      BY <1>6, Returns
    <2>. HIDE DEF w, m
    <2>3. AddsFinding(full, agent, w, m)
      BY <1>0, ReturnedFields DEF AgentOK
    <2>. HIDE DEF full
    <2>4. Agent \notin mixed
             => \A t \in Strategies : Proved(Pinned, Static, w.policy, t, w.results[t])
      BY <1>0 DEF SessionsOK, SessionOK, Solvent, w
    <2>5. \/ DOMAIN agent' = AgentFields /\ agent'.comparison = agent.comparison
          \/ DOMAIN agent' = AgentFields /\ agent'.comparison = full.comparison
      BY <1>0, <2>2, <2>3, RejectedKeeps, HeardKeeps DEF KeepsFindings, AgentOK, AddsFinding
    <2>6. CASE DOMAIN agent' = AgentFields /\ agent'.comparison = agent.comparison
      BY <1>0, <2>1, <2>6, SameAgent DEF GoesOn
    <2>7. CASE DOMAIN agent' = AgentFields /\ agent'.comparison = full.comparison
      <3>1. Pinned' = Pinned /\ Static' = Static
        BY <2>1 DEF GoesOn, Pinned, Static
      <3>2. CASE w.task = "replay"
        BY <1>0, <2>1, <2>3, <2>7, <3>2, SameAgent DEF GoesOn, AddsFinding
      <3>3. CASE w.task # "replay"
        BY <2>1, <2>3, <2>4, <2>7, <3>1, <3>3 DEF AgentOK, CacheOK, AddsFinding, m
      <3>. QED  BY <3>2, <3>3
    <2>. QED  BY <2>5, <2>6, <2>7
  <1>. QED  BY <1>1, <1>2, <1>3, <1>4, <1>5, <1>6 DEF AgentNext

LEMMA SimulatorGoesOn ==
  ASSUME DeskInv, SimulatorSteps
  PROVE  GoesOn /\ AgentOK' /\ ApiOK'
  <1>0. /\ AgentOK /\ ApiOK /\ Base /\ SessionsOK /\ Job \in Sessions
    BY Callers DEF DeskInv, AgentOK, ApiOK
  <1>1. CASE JobStarts \/ JobCompares
    <2>1. PICK task \in {"replay", "compare"} : Open(Job, task, 0, <<>>)
      BY <1>1 DEF JobStarts, JobCompares
    <2>2. GoesOn
      BY <1>0, <2>1, OpensForJob
    <2>3. agent' = agent /\ \E j : desk' = [desk EXCEPT !.job = j]
      BY <1>1 DEF JobStarts, JobCompares
    <2>. QED  BY <1>0, <2>2, <2>3, DeskMoves, SameAgent, SameApi DEF GoesOn, AgentOK, ApiOK
  <1>2. CASE JobReplayed
    <2>1. GoesOn
      BY <1>0, <1>2, ForgetKeeps DEF JobReplayed, GoesOn
    <2>2. DOMAIN agent' = AgentFields /\ agent'.comparison = agent.comparison
      BY <1>0, <1>2 DEF JobReplayed, AgentOK, AgentFields
    <2>3. \/ desk' = [desk EXCEPT !.job = "failed"]
          \/ desk' = [desk EXCEPT !.job = "strategies", !.receipt = JobReceipt]
      BY <1>2 DEF JobReplayed
    <2>4. DOMAIN desk' = DeskFields /\ desk'.api = desk.api /\ desk'.plan = desk.plan
      BY <1>0, <2>3 DEF ApiOK, DeskFields
    <2>. QED  BY <1>0, <2>1, <2>2, <2>4, SameAgent, SameApi DEF GoesOn
  <1>3. CASE JobEnds
    <2>1. GoesOn
      BY <1>0, <1>3, NobodyWorks DEF JobEnds, agentVars, searchVars, workVars
    <2>2. agent' = agent /\ \E j : desk' = [desk EXCEPT !.job = j]
      BY <1>3 DEF JobEnds, agentVars
    <2>. QED  BY <1>0, <2>1, <2>2, DeskMoves, SameAgent, SameApi DEF GoesOn, AgentOK, ApiOK
  <1>4. CASE AgentNext /\ UNCHANGED desk
    BY <1>0, <1>4, AgentGoesOn, SameApi DEF GoesOn, ApiOK
  <1>. QED  BY <1>1, <1>2, <1>3, <1>4 DEF SimulatorSteps

-----------------------------------------------------------------------------
(***************************************************************************)
(* How the work of a session ends: a replay that went well has left a      *)
(* receipt.                                                                *)
(***************************************************************************)
HasReceipt(r) == "known" \in DOMAIN r /\ r.known = TRUE

Reported(w) ==
    /\ w.outcome \in {"none", "ok", "error", "rejected"}
    /\ w.task = "replay" /\ w.outcome = "ok" => HasReceipt(w.receipt)

(* From w the session goes on to u.                                        *)
OnTo(u, w) == u.task = w.task /\ (Reported(w) => Reported(u))

Ending(o, w) == o \in {w.outcome, "error", "rejected"} \/ (o = "ok" /\ w.task # "replay")

LEMMA Ongoing ==
  ASSUME NEW w, NEW u, u.task = w.task, u.receipt = w.receipt, Ending(u.outcome, w)
  PROVE  OnTo(u, w)
  BY DEF OnTo, Reported, Ending

LEMMA MarkedGoesOn ==
  ASSUME NEW w, NEW u, DOMAIN u = WorkFields, u.task = w.task, u.receipt = w.receipt,
         Ending(u.outcome, w), NEW failed \in BOOLEAN
  PROVE  OnTo(Marking(u, failed), w)
  <1>1. /\ Marking(u, failed).task = u.task /\ Marking(u, failed).receipt = u.receipt
        /\ Marking(u, failed).outcome = u.outcome
    BY DEF Marking, WorkFields
  <1>. HIDE DEF Marking
  <1>. QED  BY <1>1, Ongoing

LEMMA OneGoesOn ==
  ASSUME NEW s \in Sessions, DOMAIN work = Sessions, NEW u, OnTo(u, work[s]),
         work' = [work EXCEPT ![s] = u]
  PROVE  \A t \in Sessions : OnTo(work'[t], work[t])
  BY DEF OnTo

LEMMA PlanCallGoesOn ==
  ASSUME Base, SessionsOK, NEW s \in Sessions, PlanCall(s)
  PROVE  \A t \in Sessions : OnTo(work'[t], work[t])
  <1>. DEFINE w == work[s]
              dry == w.task = "dryrun"
              rest == Tail(w.calls)
              made == [w EXCEPT !.calls = rest,
                             !.stage = IF rest # <<>> THEN "calls"
                                       ELSE IF dry THEN "close" ELSE "change",
                             !.outcome = IF rest = <<>> /\ dry THEN "ok" ELSE @]
              not == [w EXCEPT !.ok = FALSE,
                             !.stage = IF dry THEN "close" ELSE "judge",
                             !.outcome = IF dry THEN "rejected" ELSE @]
  <1>1. PICK lost \in BOOLEAN : MayFail(s, lost, made) \/ MayFail(s, lost, not)
    BY DEF PlanCall
  <1>2. DOMAIN w = WorkFields
    BY SessionWork
  <1>. HIDE DEF rest
  <1>3. /\ DOMAIN made = WorkFields /\ made.task = w.task /\ made.receipt = w.receipt
        /\ made.outcome = w.outcome \/ (dry /\ made.outcome = "ok")
    BY <1>2 DEF WorkFields
  <1>4. /\ DOMAIN not = WorkFields /\ not.task = w.task /\ not.receipt = w.receipt
        /\ not.outcome = w.outcome \/ not.outcome = "rejected"
    BY <1>2 DEF WorkFields
  <1>5. Ending(made.outcome, w) /\ Ending(not.outcome, w)
    BY <1>3, <1>4 DEF Ending
  <1>. HIDE DEF made, not, w
  <1>6. OnTo(Marking(made, lost), w) /\ OnTo(Marking(not, lost), w)
    BY <1>3, <1>4, <1>5, MarkedGoesOn
  <1>7. work' = [work EXCEPT ![s] = Marking(made, lost)]
           \/ work' = [work EXCEPT ![s] = Marking(not, lost)]
    BY <1>1, Marks
  <1>. QED  BY <1>6, <1>7, OneGoesOn DEF Base, w

LEMMA ReplayChangeGoesOn ==
  ASSUME Base, SessionsOK, NEW s \in Sessions, ReplayChange(s)
  PROVE  \A t \in Sessions : OnTo(work'[t], work[t])
  <1>. DEFINE w == work[s]
              x(lost) == [w EXCEPT
                            !.ok = ~lost,
                            !.stage = IF lost /\ w.task = "replay" THEN "close" ELSE "judge",
                            !.outcome = IF lost /\ w.task = "replay" THEN "error" ELSE @]
  <1>1. PICK lost \in BOOLEAN : MayFail(s, lost, x(lost))
    BY DEF ReplayChange
  <1>2. DOMAIN w = WorkFields
    BY SessionWork
  <1>. DEFINE u == x(lost)
  <1>3. /\ DOMAIN u = WorkFields /\ u.task = w.task /\ u.receipt = w.receipt
        /\ u.outcome \in {w.outcome, "error"}
    BY <1>2 DEF WorkFields
  <1>4. Ending(u.outcome, w)
    BY <1>3 DEF Ending
  <1>5. work' = [work EXCEPT ![s] = Marking(u, lost)]
    BY <1>1, Marks
  <1>. HIDE DEF u, w
  <1>6. OnTo(Marking(u, lost), w)
    BY <1>3, <1>4, MarkedGoesOn
  <1>. QED  BY <1>5, <1>6, OneGoesOn DEF Base, w

(* Only the calls before and the receipt know of another task.             *)
Comparing(u, w) ==
    /\ DOMAIN u = WorkFields /\ u.task = w.task /\ u.receipt = w.receipt
    /\ u.outcome \in {w.outcome, "ok"}

LEMMA SettleCompares ==
  ASSUME NEW w, DOMAIN w = WorkFields, NEW r
  PROVE  Comparing(Settle(w, r), w)
  <1>1. CASE w.strategy = "REPAY_DEBT"
    BY <1>1 DEF Settle, Comparing, WorkFields
  <1>2. CASE w.strategy # "REPAY_DEBT"
    BY <1>2 DEF Settle, Comparing, WorkFields
  <1>. QED  BY <1>1, <1>2

LEMMA MeasureCompares ==
  ASSUME NEW s, NEW w, DOMAIN w = WorkFields, NEW passed \in BOOLEAN, NEW buffer
  PROVE  Comparing(AfterMeasure(s, w, passed, buffer), w)
  <1>. DEFINE p == IF s \in RaisesBuffer /\ passed THEN RaisedPolicy(w.policy, buffer) ELSE w.policy
  <1>1. AfterMeasure(s, w, passed, buffer) = [w EXCEPT !.stage = "assess", !.policy = p]
    BY DEF AfterMeasure
  <1>. HIDE DEF p
  <1>. QED  BY <1>1 DEF Comparing, WorkFields

LEMMA ConfirmCompares ==
  ASSUME NEW s, NEW w, DOMAIN w = WorkFields, NEW passed \in BOOLEAN
  PROVE  Comparing(AfterConfirm(s, w, passed), w)
  <1>. DEFINE q == StartSearch(1, TargetBound(s), MaxProbes[s])
              x == [w EXCEPT !.stage = "snapshot", !.purpose = "branch", !.verified = {},
                             !.search = q]
  <1>1. AfterConfirm(s, w, passed) \in {Settle(w, Result("NOT_REQUIRED", 0, TargetBound(s))), x}
    BY DEF AfterConfirm
  <1>. HIDE DEF q
  <1>2. Comparing(x, w)
    BY DEF Comparing, WorkFields
  <1>. HIDE DEF x
  <1>. QED  BY <1>1, <1>2, SettleCompares

LEMMA BranchCompares ==
  ASSUME NEW s, NEW w, DOMAIN w = WorkFields, NEW passed \in BOOLEAN
  PROVE  Comparing(AfterBranch(s, w, passed), w)
  <1>. DEFINE v == IF passed THEN w.verified \cup {Amount(s)} ELSE w.verified
              q == Probe(w.search, passed)
              x == [w EXCEPT !.verified = v, !.search = q]
              y == [x EXCEPT !.stage = "snapshot"]
  <1>1. \/ \E r : AfterBranch(s, w, passed) = Settle(x, r)
        \/ AfterBranch(s, w, passed) = y
    BY DEF AfterBranch
  <1>. HIDE DEF q, v
  <1>2. Comparing(x, w)
    BY DEF Comparing, WorkFields
  <1>3. DOMAIN x = WorkFields
    BY <1>2 DEF Comparing
  <1>. HIDE DEF x
  <1>4. Comparing(y, w)
    BY <1>2, <1>3 DEF Comparing, WorkFields
  <1>. HIDE DEF y
  <1>5. \A r : Comparing(Settle(x, r), w)
    <2>. TAKE r
    <2>1. Comparing(Settle(x, r), x)
      BY <1>3, SettleCompares
    <2>. HIDE DEF Settle
    <2>. QED  BY <1>2, <2>1 DEF Comparing
  <1>. QED  BY <1>1, <1>4, <1>5

LEMMA JudgeGoesOn ==
  ASSUME Base, SessionsOK, NEW s \in Sessions, Judge(s)
  PROVE  \A t \in Sessions : OnTo(work'[t], work[t])
  <1>. DEFINE w == work[s]
  <1>1. PICK c \in Children, missing \in PositionsUnread :
             LET risk   == ReadRisk(node[c].holdings, Static, missing)
                 passed == BranchPasses(w, risk)
             IN  MayFail(s, missing # AllRead,
                   CASE w.purpose = "measure" -> AfterMeasure(s, w, passed, risk.buffer)
                     [] w.purpose = "confirm" -> AfterConfirm(s, w, passed)
                     [] w.purpose = "branch"  -> AfterBranch(s, w, passed))
    BY DEF Judge
  <1>. DEFINE risk == ReadRisk(node[c].holdings, Static, missing)
              passed == BranchPasses(w, risk)
              failed == missing # AllRead
              x == CASE w.purpose = "measure" -> AfterMeasure(s, w, passed, risk.buffer)
                     [] w.purpose = "confirm" -> AfterConfirm(s, w, passed)
                     [] w.purpose = "branch"  -> AfterBranch(s, w, passed)
  <1>2. /\ DOMAIN w = WorkFields /\ w.task = "compare" /\ w.purpose \in Purposes /\ w.ok \in BOOLEAN
    BY SessionWork DEF Judge, SessionsOK, SessionOK, Sound, WorkTyped
  <1>3. passed \in BOOLEAN /\ failed \in BOOLEAN
    BY <1>2 DEF BranchPasses, PolicyPasses
  <1>4. MayFail(s, failed, x)
    BY <1>1
  <1>. HIDE DEF risk, passed, failed
  <1>5. x \in {AfterMeasure(s, w, passed, risk.buffer), AfterConfirm(s, w, passed), AfterBranch(s, w, passed)}
    BY <1>2 DEF Purposes
  <1>. HIDE DEF x, w
  <1>6. Comparing(x, w)
    BY <1>2, <1>3, <1>5, MeasureCompares, ConfirmCompares, BranchCompares
  <1>7. Ending(x.outcome, w)
    BY <1>2, <1>6 DEF Ending, Comparing
  <1>8. work' = [work EXCEPT ![s] = Marking(x, failed)]
    BY <1>3, <1>4, Marks
  <1>9. OnTo(Marking(x, failed), w)
    BY <1>3, <1>6, <1>7, MarkedGoesOn DEF Comparing
  <1>. QED  BY <1>8, <1>9, OneGoesOn DEF Base, w

LEMMA AssessGoesOn ==
  ASSUME Base, SessionsOK, NEW s \in Sessions, Assess(s)
  PROVE  \A t \in Sessions : OnTo(work'[t], work[t])
  <1>. DEFINE w == work[s]
              r == Result("INFEASIBLE", NoAmount, 0)
              next == [w EXCEPT !.stage = "snapshot", !.purpose = "confirm"]
  <1>1. PICK u \in {Settle(w, r), next} : work' = [work EXCEPT ![s] = u]
    BY DEF Assess
  <1>2. DOMAIN w = WorkFields /\ w.task = "compare"
    BY SessionWork DEF Assess, At, Sound, Ordered
  <1>3. Comparing(next, w)
    BY <1>2 DEF Comparing, WorkFields
  <1>. HIDE DEF next, w, r
  <1>4. Comparing(u, w)
    BY <1>1, <1>2, <1>3, SettleCompares
  <1>5. Ending(u.outcome, w)
    BY <1>2, <1>4 DEF Ending, Comparing
  <1>6. OnTo(u, w)
    BY <1>4, <1>5, Ongoing DEF Comparing
  <1>. QED  BY <1>1, <1>6, OneGoesOn DEF Base, w

LEMMA EndGoesOn ==
  ASSUME Base, SessionsOK, NEW s \in Sessions, Close(s) \/ OpenFails(s) \/ Throw(s)
  PROVE  \A t \in Sessions : OnTo(work'[t], work[t])
  <1>. DEFINE w == work[s]
              ended == [w EXCEPT !.stage = "closed"]
  <1>1. \/ \E stage : work' = [work EXCEPT ![s] = [w EXCEPT !.stage = stage, !.outcome = "error"]]
        \/ work' = [work EXCEPT ![s] = ended]
    BY DEF Close, OpenFails, Throw, Finished, Base
  <1>2. DOMAIN w = WorkFields
    BY SessionWork
  <1>3. \A stage : LET u == [w EXCEPT !.stage = stage, !.outcome = "error"]
                   IN  u.task = w.task /\ u.receipt = w.receipt /\ u.outcome = "error"
    BY <1>2 DEF WorkFields
  <1>4. ended.task = w.task /\ ended.receipt = w.receipt /\ ended.outcome = w.outcome
    BY <1>2 DEF WorkFields
  <1>. HIDE DEF w, ended
  <1>5. OnTo(ended, w)
    BY <1>4, Ongoing DEF Ending
  <1>6. \A stage : OnTo([w EXCEPT !.stage = stage, !.outcome = "error"], w)
    BY <1>3 DEF OnTo, Reported
  <1>. QED  BY <1>1, <1>5, <1>6, OneGoesOn DEF Base, w

LEMMA ReceiptGoesOn ==
  ASSUME Base, SessionsOK, NEW s \in Sessions, Receipt(s)
  PROVE  \A t \in Sessions : OnTo(work'[t], work[t])
  <1>1. PICK all, body : work' = [work EXCEPT ![s] =
           [work[s] EXCEPT !.stage = "close", !.outcome = "ok",
                           !.receipt = [known |-> TRUE, mixed |-> FALSE, complete |-> all,
                                        body |-> body]]]
    BY DEF Receipt
  <1>. DEFINE w == work[s]
              r == [known |-> TRUE, mixed |-> FALSE, complete |-> all, body |-> body]
              u == [w EXCEPT !.stage = "close", !.outcome = "ok", !.receipt = r]
  <1>2. HasReceipt(r)
    BY DEF HasReceipt
  <1>. HIDE DEF r
  <1>3. DOMAIN w = WorkFields
    BY SessionWork
  <1>4. u.task = w.task /\ u.receipt = r /\ u.outcome = "ok"
    BY <1>3 DEF WorkFields
  <1>5. work' = [work EXCEPT ![s] = u]
    BY <1>1 DEF r
  <1>. HIDE DEF u, w
  <1>6. OnTo(u, w)
    BY <1>2, <1>4 DEF OnTo, Reported
  <1>. QED  BY <1>5, <1>6, OneGoesOn DEF Base, w

LEMMA BeginGoesOn ==
  ASSUME Base, SessionsOK, NEW s \in Sessions, Begin(s) \/ TakeSnapshot(s)
  PROVE  \A t \in Sessions : OnTo(work'[t], work[t])
  <1>. DEFINE w == work[s]
  <1>1. DOMAIN w = WorkFields
    BY SessionWork
  <1>2. CASE Begin(s)
    <2>1. PICK missing, stage : work' = [work EXCEPT ![s] =
             [w EXCEPT !.missing = missing, !.glitched = missing # AllRead, !.stage = stage]]
      BY <1>2 DEF Begin, Base
    <2>. DEFINE u == [w EXCEPT !.missing = missing, !.glitched = missing # AllRead, !.stage = stage]
    <2>2. u.task = w.task /\ u.receipt = w.receipt /\ u.outcome = w.outcome
      BY <1>1 DEF WorkFields
    <2>. HIDE DEF u, w
    <2>3. OnTo(u, w)
      BY <2>2, Ongoing DEF Ending
    <2>. QED  BY <2>1, <2>3, OneGoesOn DEF Base, u, w
  <1>3. CASE TakeSnapshot(s)
    <2>. DEFINE calls == IF w.purpose = "branch" THEN BranchPlan(s) ELSE <<>>
                stage == IF w.purpose = "branch" THEN "calls" ELSE "change"
    <2>1. PICK c \in Children : work' = [work EXCEPT ![s] =
             [@ EXCEPT !.snapshot = Len(node[c].snapshots) + 1, !.ok = TRUE,
                       !.calls = calls, !.stage = stage]]
      BY <1>3 DEF TakeSnapshot
    <2>. DEFINE u == [w EXCEPT !.snapshot = Len(node[c].snapshots) + 1, !.ok = TRUE,
                               !.calls = calls, !.stage = stage]
    <2>a. work' = [work EXCEPT ![s] = u]
      BY <2>1 DEF Base
    <2>. HIDE DEF calls, stage
    <2>2. u.task = w.task /\ u.receipt = w.receipt /\ u.outcome = w.outcome
      BY <1>1 DEF WorkFields
    <2>. HIDE DEF u, w
    <2>3. OnTo(u, w)
      BY <2>2, Ongoing DEF Ending
    <2>. QED  BY <2>a, <2>3, OneGoesOn DEF Base, w
  <1>. QED  BY <1>2, <1>3

LEMMA WorkingGoesOn ==
  ASSUME Base, SessionsOK, NEW s \in Sessions, Working(s) \/ OpenFails(s)
  PROVE  \A t \in Sessions : OnTo(work'[t], work[t])
  BY BeginGoesOn, PlanCallGoesOn, ReplayChangeGoesOn, AssessGoesOn, JudgeGoesOn, ReceiptGoesOn,
     EndGoesOn DEF Working

Reports == \A s \in Sessions : Reported(work[s])

(* A session starts anew; the agent's does so by two of its steps.         *)
Anew(s) ==
    /\ \A t \in Sessions : t # s => work'[t] = work[t]
    /\ \E task, stage, calls : Blank(work'[s], setting.policy[s], task, stage, calls)
    /\ s = Agent => ForkCall \/ ForkReturns

Ongoings == \A t \in Sessions : OnTo(work'[t], work[t])

LEMMA NoWorkGoesOn ==
  ASSUME work' = work
  PROVE  Ongoings
  BY DEF Ongoings, OnTo

LEMMA OpenAnew ==
  ASSUME Base, NEW s \in Sessions, NEW task, NEW pin, NEW calls, Open(s, task, pin, calls),
         s = Agent => ForkCall \/ ForkReturns
  PROVE  Anew(s)
  <1>. DEFINE x == NoWork(s)
              u == [x EXCEPT !.task = task, !.stage = "open", !.calls = calls]
  <1>1. Blank(x, setting.policy[s], "none", "idle", <<>>)
    BY NoWorkIsBlank
  <1>2. work' = [work EXCEPT ![s] = u]
    BY DEF Open
  <1>. HIDE DEF x
  <1>3. Blank(u, setting.policy[s], task, "open", calls)
    BY <1>1, OpenIsBlank
  <1>. HIDE DEF u
  <1>. QED  BY <1>2, <1>3 DEF Anew, Base

LEMMA ForgetAnew ==
  ASSUME Base, NEW s \in Sessions, work' = [work EXCEPT ![s] = NoWork(s)],
         s = Agent => ForkCall \/ ForkReturns
  PROVE  Anew(s)
  <1>1. Blank(NoWork(s), setting.policy[s], "none", "idle", <<>>)
    BY NoWorkIsBlank
  <1>. HIDE DEF NoWork
  <1>. QED  BY <1>1 DEF Anew, Base

LEMMA WorkChanges ==
  ASSUME Base, SessionsOK, [Next]_vars
  PROVE  Ongoings \/ \E s \in Sessions : Anew(s)
  <1>0. Job \in Sessions /\ Api \in Sessions /\ Agent \in Sessions /\ Job # Agent /\ Api # Agent
    BY Callers, DeskAssumption
  <1>1. ASSUME NEW s \in Sessions, ForkSteps(s) PROVE Ongoings
    <2>1. CASE Working(s) \/ OpenFails(s)
      BY <2>1, WorkingGoesOn DEF Ongoings
    <2>2. CASE work' = work
      BY <2>2, NoWorkGoesOn
    <2>. QED  BY <1>1, <2>1, <2>2 DEF ForkSteps, Still
  <1>2. ASSUME SimulatorSteps PROVE Ongoings \/ \E s \in Sessions : Anew(s)
    <2>1. CASE JobStarts \/ JobCompares
      <3>1. \E task, pin, calls : Open(Job, task, pin, calls)
        BY <2>1 DEF JobStarts, JobCompares
      <3>. QED  BY <1>0, <3>1, OpenAnew
    <2>2. CASE JobReplayed
      BY <1>0, <2>2, ForgetAnew DEF JobReplayed
    <2>3. CASE JobEnds
      BY <2>3, NoWorkGoesOn DEF JobEnds, agentVars, searchVars, workVars
    <2>4. CASE ForkCall
      <3>1. \E task, pin, calls : Open(Agent, task, pin, calls)
        BY <2>4 DEF ForkCall
      <3>. QED  BY <1>0, <2>4, <3>1, OpenAnew
    <2>5. CASE ForkReturns
      <3>1. work' = [work EXCEPT ![Agent] = NoWork(Agent)]
        BY <2>5 DEF ForkReturns
      <3>. QED  BY <1>0, <2>5, <3>1, ForgetAnew
    <2>6. CASE AskModel \/ ModelFails \/ AgentTimeout \/ TraceFails \/ PlainCall \/ ForkRefused
      <3>1. work' = work
        BY <2>6 DEF AskModel, Answered, ModelFails, AgentTimeout, TraceFails, PlainCall, ForkRefused,
              NoPortLeft,
                    workVars
      <3>. QED  BY <3>1, NoWorkGoesOn
    <2>. QED  BY <1>2, <2>1, <2>2, <2>3, <2>4, <2>5, <2>6 DEF SimulatorSteps, AgentNext
  <1>3. ASSUME Shutdown \/ SignalReceived \/ Prepare PROVE Ongoings
    BY <1>3, NoWorkGoesOn DEF Shutdown, SignalReceived, Prepare, Still
  <1>4. ASSUME ApiDryRun PROVE \E s \in Sessions : Anew(s)
    <2>1. \E task, pin, calls : Open(Api, task, pin, calls)
      BY <1>4 DEF ApiDryRun
    <2>. QED  BY <1>0, <2>1, OpenAnew
  <1>5. ASSUME ApiReturns PROVE \E s \in Sessions : Anew(s)
    BY <1>0, <1>5, ForgetAnew DEF ApiReturns
  <1>6. ASSUME NEW s \in {Job, Api}, FindsNoPort(s) PROVE Ongoings
    BY <1>6, NoWorkGoesOn DEF FindsNoPort, NoPortLeft, workVars
  <1>7. ASSUME NEW c \in Children, ChildSteps(c) \/ ChildCrashes(c) PROVE Ongoings
    BY <1>7, NoWorkGoesOn DEF ChildSteps, ChildCrashes, BindFresh, Still
  <1>8. ASSUME UNCHANGED vars PROVE Ongoings
    BY <1>8, NoWorkGoesOn DEF vars, agentVars, searchVars, workVars
  <1>. QED
    BY <1>1, <1>2, <1>3, <1>4, <1>5, <1>6, <1>7, <1>8 DEF Next, ProcessSteps, OffspringSteps

LEMMA ReportsKept ==
  ASSUME Base, SessionsOK, Reports, [Next]_vars
  PROVE  Reports'
  <1>1. CASE Ongoings
    BY <1>1 DEF Ongoings, OnTo, Reports
  <1>2. ASSUME NEW s \in Sessions, Anew(s) PROVE Reports'
    <2>1. Reported(work'[s])
      BY <1>2 DEF Anew, Blank, Reported
    <2>. QED  BY <1>2, <2>1 DEF Anew, Reports
  <1>. QED  BY <1>1, <1>2, WorkChanges

LEMMA AgentsTask ==
  ASSUME Base, SessionsOK, [Next]_vars, ~ForkCall, ~ForkReturns
  PROVE  work'[Agent].task = work[Agent].task
  <1>1. CASE Ongoings
    BY <1>1, Callers DEF Ongoings, OnTo
  <1>2. ASSUME NEW s \in Sessions, Anew(s) PROVE work'[Agent].task = work[Agent].task
    BY <1>2, Callers DEF Anew
  <1>. QED  BY <1>1, <1>2, WorkChanges

(* The plan that the API makes of what it reads.                           *)
LEMMA PlanMade ==
  ASSUME Base, NEW missing, ~PlanRefused(missing)
  PROVE  /\ ApiPlan(missing).calls \in Seq(Calls) /\ ApiPlan(missing).calls # <<>>
         /\ DryAhead(Pinned, Static, Pinned, ApiPlan(missing).calls)
  <1>. DEFINE h == Pinned
              st == Static
              p == setting.policy[Api]
              t == setting.prepare.strategy
              m == Best(h, st, p, t, missing)
              b == BoundOf(h, st, p, t, m)
              a == LiveAmount(setting.prepare.amount, b)
              e == EnabledIn(h, st, missing, m)
              calls == BuildPlan(h, t, m, e, a)
  <1>1. /\ h \in Holdings /\ st \in Statics /\ p \in RiskPolicySet /\ t \in Strategies
        /\ Feasible(h, st, p, t, missing) # {}
    BY SettingFacts, SettingsAssumption, Callers DEF Base, PlanRefused
  <1>2. ApiPlan(missing).calls = calls
    BY DEF ApiPlan, LivePlan
  <1>. HIDE DEF h, st, p, t
  <1>3. /\ m \in Markets /\ b \in Nat /\ 1 <= b
        /\ \A x \in 1..b : Doable(h, st, t, m, x)
    BY <1>1, BestFacts
  <1>. HIDE DEF m, b
  <1>4. a \in Nat /\ a \in 1..b
    BY <1>3 DEF LiveAmount
  <1>. HIDE DEF a
  <1>5. e \in BOOLEAN /\ (e => h.entered[m])
    BY DEF EnabledIn
  <1>. HIDE DEF e
  <1>6. calls \in Seq(Calls)
    BY <1>1, <1>3, <1>4, <1>5, PlanTyped
  <1>7. Ahead(h, h, calls, t, m, a) /\ calls # <<>>
    BY <1>1, <1>3, <1>4, <1>5, PlanBegins
  <1>8. Doable(h, st, t, m, a)
    BY <1>3, <1>4
  <1>. HIDE DEF calls
  <1>9. DryAhead(h, st, h, calls)
    BY <1>1, <1>3, <1>4, <1>7, <1>8 DEF DryAhead
  <1>. QED  BY <1>2, <1>6, <1>7, <1>9 DEF h, st

LEMMA PrepareGoesOn ==
  ASSUME DeskInv, Prepare
  PROVE  GoesOn /\ AgentOK' /\ ApiOK'
  <1>0. AgentOK /\ ApiOK /\ Base /\ SessionsOK
    BY DEF DeskInv, AgentOK, ApiOK
  <1>1. GoesOn
    BY <1>0, NobodyWorks DEF Prepare
  <1>2. AgentOK'
    BY <1>0, <1>1, SameAgent DEF Prepare, GoesOn, AgentOK
  <1>3. PICK missing :
           \/ desk' = [desk EXCEPT !.api = "error"]
           \/ /\ ~PlanRefused(missing)
              /\ desk' = [desk EXCEPT !.api = "planned", !.plan = ApiPlan(missing).calls]
    BY DEF Prepare
  <1>4. CASE desk' = [desk EXCEPT !.api = "error"]
    <2>1. DOMAIN desk' = DeskFields /\ desk'.api = "error"
      BY <1>0, <1>4, DeskMoves DEF ApiOK
    <2>. QED  BY <1>1, <1>2, <2>1 DEF ApiOK, PlanOK
  <1>5. CASE /\ ~PlanRefused(missing)
             /\ desk' = [desk EXCEPT !.api = "planned", !.plan = ApiPlan(missing).calls]
    <2>. DEFINE calls == ApiPlan(missing).calls
    <2>1. calls \in Seq(Calls) /\ calls # <<>> /\ DryAhead(Pinned, Static, Pinned, calls)
      BY <1>0, <1>5, PlanMade
    <2>2. desk' = [desk EXCEPT !.api = "planned", !.plan = calls]
      BY <1>5
    <2>. HIDE DEF calls
    <2>3. DOMAIN desk' = DeskFields /\ desk'.plan = calls
      BY <1>0, <2>2 DEF ApiOK, DeskFields
    <2>4. Pinned' = Pinned /\ Static' = Static
      BY <1>1 DEF GoesOn, Pinned, Static
    <2>. QED  BY <1>1, <1>2, <2>1, <2>3, <2>4 DEF ApiOK, PlanOK
  <1>. QED  BY <1>1, <1>2, <1>3, <1>4, <1>5

LEMMA ApiGoesOn ==
  ASSUME DeskInv, Reports, ApiDryRun \/ ApiReturns \/ \E s \in {Job, Api} : FindsNoPort(s)
  PROVE  GoesOn /\ AgentOK' /\ ApiOK'
  <1>0. AgentOK /\ ApiOK /\ Base /\ SessionsOK /\ Api \in Sessions /\ 1 \in Pins
    BY Callers DEF DeskInv, AgentOK, ApiOK
  <1>1. CASE ApiDryRun
    <2>1. /\ desk.plan \in Seq(Calls) /\ desk.plan # <<>>
          /\ DryAhead(Pinned, Static, Pinned, desk.plan)
      BY <1>0, <1>1 DEF ApiDryRun, ApiOK, PlanOK
    <2>2. Open(Api, "dryrun", 1, desk.plan)
      BY <1>1 DEF ApiDryRun
    <2>3. GoesOn
      BY <1>0, <2>1, <2>2, OpenKeeps DEF GoesOn
    <2>4. agent' = agent /\ desk' = [desk EXCEPT !.api = "running"]
      BY <1>1 DEF ApiDryRun
    <2>5. DOMAIN desk' = DeskFields /\ desk'.api = "running"
      BY <1>0, <2>4, DeskMoves DEF ApiOK
    <2>. QED  BY <1>0, <2>3, <2>4, <2>5, SameAgent DEF GoesOn, AgentOK, ApiOK, PlanOK
  <1>2. CASE ApiReturns
    <2>1. GoesOn
      BY <1>0, <1>2, ForgetKeeps DEF ApiReturns, GoesOn
    <2>. DEFINE o == work[Api].outcome
    <2>2. agent' = agent /\ desk' = [desk EXCEPT !.api = o]
      BY <1>2 DEF ApiReturns
    <2>3. o # "planned"
      BY <1>0 DEF Reports, Reported
    <2>. HIDE DEF o
    <2>4. DOMAIN desk' = DeskFields /\ desk'.api = o
      BY <1>0, <2>2, DeskMoves DEF ApiOK
    <2>. QED  BY <1>0, <2>1, <2>2, <2>3, <2>4, SameAgent DEF GoesOn, AgentOK, ApiOK, PlanOK
  <1>3. ASSUME NEW s \in {Job, Api}, FindsNoPort(s)
        PROVE  GoesOn /\ AgentOK' /\ ApiOK'
    <2>1. GoesOn
      BY <1>0, <1>3, NobodyWorks DEF FindsNoPort, NoPortLeft, workVars
    <2>2. agent' = agent
      BY <1>3 DEF FindsNoPort
    <2>3. \/ desk' = [desk EXCEPT !.job = "failed"]
          \/ desk' = [desk EXCEPT !.api = "error"]
      BY <1>3 DEF FindsNoPort
    <2>4. CASE desk' = [desk EXCEPT !.job = "failed"]
      BY <1>0, <2>1, <2>2, <2>4, DeskMoves, SameAgent, SameApi DEF GoesOn, AgentOK, ApiOK
    <2>5. CASE desk' = [desk EXCEPT !.api = "error"]
      <3>1. DOMAIN desk' = DeskFields /\ desk'.api = "error"
        BY <1>0, <2>5, DeskMoves DEF ApiOK
      <3>. QED  BY <1>0, <2>1, <2>2, <3>1, SameAgent DEF GoesOn, AgentOK, ApiOK, PlanOK
    <2>. QED  BY <2>3, <2>4, <2>5
  <1>. QED  BY <1>1, <1>2, <1>3

LEMMA DeskGoesOn ==
  ASSUME DeskInv, Reports, [Next]_vars
  PROVE  GoesOn /\ AgentOK' /\ ApiOK'
  <1>0. AgentOK /\ ApiOK /\ Base /\ SessionsOK
    BY DEF DeskInv, AgentOK, ApiOK
  <1>1. CASE /\ UNCHANGED <<agent, desk>>
             /\ \/ \E s \in Sessions : ForkSteps(s)
                \/ \E c \in Children : ChildSteps(c) \/ ChildCrashes(c)
                \/ Shutdown \/ SignalReceived
                \/ UNCHANGED vars
    <2>1. UNCHANGED vars => UNCHANGED <<forkVars, node, work, mixed, setting>>
      BY DEF vars, agentVars, searchVars, workVars
    <2>2. GoesOn
      BY <1>0, <1>1, <2>1, ForksGoOn, ChildrenGoOn, ShutdownGoesOn, NobodyWorks
    <2>. QED  BY <1>0, <1>1, <2>2, SameAgent, SameApi DEF GoesOn, AgentOK, ApiOK
  <1>2. CASE SimulatorSteps
    BY <1>2, SimulatorGoesOn
  <1>3. CASE Prepare
    BY <1>3, PrepareGoesOn
  <1>4. CASE ApiDryRun \/ ApiReturns \/ \E s \in {Job, Api} : FindsNoPort(s)
    BY <1>4, ApiGoesOn
  <1>5. (\E s \in Sessions : ForkSteps(s)) => UNCHANGED <<agent, desk>>
    BY DEF ForkSteps, Quiet
  <1>6. /\ (\E c \in Children : ChildSteps(c) \/ ChildCrashes(c)) => UNCHANGED <<agent, desk>>
        /\ Shutdown \/ SignalReceived => UNCHANGED <<agent, desk>>
        /\ UNCHANGED vars => UNCHANGED <<agent, desk>>
    BY DEF ChildSteps, ChildCrashes, Shutdown, SignalReceived, Quiet, vars, agentVars
  <1>. QED  BY <1>1, <1>2, <1>3, <1>4, <1>5, <1>6 DEF Next, ProcessSteps, OffspringSteps

(* Every step of the desk preserves its invariant.                         *)
LEMMA DeskKeeps ==
  ASSUME DeskInv, Reports, [Next]_vars
  PROVE  DeskInv'
  <1>1. ForksInv'
    BY DeskOnForks, ForksInductive DEF DeskInv, Base
  <1>2. GoesOn /\ AgentOK' /\ ApiOK'
    BY DeskGoesOn
  <1>3. setting' \in Settings
    BY <1>2 DEF GoesOn, DeskInv, Base
  <1>. QED  BY <1>1, <1>2, <1>3 DEF DeskInv, Base, GoesOn, AgentOK, ApiOK

LEMMA DeskStarts ==
  ASSUME Init
  PROVE  DeskInv
  <1>1. ForksInv /\ setting \in Settings
    BY Starts DEF Init
  <1>2. /\ Pinned \in Holdings /\ Static \in Statics
        /\ setting.policy \in [Sessions -> RiskPolicySet]
    BY <1>1, SettingFacts
  <1>3. DOMAIN work = Sessions /\ \A s \in Sessions : work[s] = NoWork(s)
    BY DEF Init, WorkInit
  <1>4. node \in [Children -> NodeRecords]
    <2>1. [holdings |-> Pinned, snapshots |-> <<>>] \in NodeRecords
      BY <1>2 DEF NodeRecords
    <2>. QED  BY <2>1 DEF Init, WorkInit
  <1>5. SessionsOK
    <2>. SUFFICES ASSUME NEW s \in Sessions PROVE SessionOK(s)
      BY DEF SessionsOK
    <2>1. Blank(work[s], setting.policy[s], "none", "idle", <<>>)
      BY <1>3, NoWorkIsBlank
    <2>2. setting.policy[s] \in RiskPolicySet /\ <<>> \in Seq(Calls)
      BY <1>2
    <2>3. /\ Sound(Pinned, Static, work[s]) /\ Solvent(Pinned, Static, work[s]) /\ Honest(work[s])
          /\ \A n : Expected(Pinned, Static, work[s], n)
      BY <2>1, <2>2, NewWork
    <2>. QED  BY <2>3 DEF SessionOK
  <1>6. agent = NewAgent /\ desk.api = "waiting" /\ DOMAIN desk = DeskFields
    BY DEF Init, AgentInit, DeskFields
  <1>7. DOMAIN agent = AgentFields /\ agent.comparison = NoComparison
    BY <1>6 DEF NewAgent, AgentFields
  <1>8. \A t \in Strategies : agent.comparison.results[t].status = "NONE"
    BY <1>7 DEF NoComparison, NoResult
  <1>9. CacheOK
    BY <1>8 DEF CacheOK, Proved
  <1>10. PlanOK
    BY <1>6 DEF PlanOK
  <1>. QED  BY <1>1, <1>3, <1>4, <1>5, <1>6, <1>7, <1>9, <1>10 DEF DeskInv, Base

-----------------------------------------------------------------------------
(***************************************************************************)
(* What the desk owes: VerifiedIsSolvent and BranchesRunAsPlanned.         *)
(***************************************************************************)
LEMMA MovedAgrees ==
  ASSUME NEW t, NEW m, NEW a
  PROVE  /\ Moved(t, m, a) = MovedFrom(Pinned, t, m, a)
         /\ RawRisk(Rescued(t, m, a), Static).status \notin {"SHORTFALL", "UNKNOWN"}
               <=> SolventAt(Pinned, Static, t, m, a)
  <1>1. Moved(t, m, a) = MovedFrom(Pinned, t, m, a)
    BY DEF Moved, MovedFrom
  <1>. QED  BY <1>1 DEF Rescued, SolventAt

LEMMA ProvedIsSolvent ==
  ASSUME DeskInv
  PROVE  VerifiedIsSolvent
  <1>. DEFINE Says(t, p, r) ==
                /\ r.planned /\ r.amount \in 1..r.bound
                /\ \E m \in Feasible(Pinned, Static, p, t, AllRead) :
                      RawRisk(Rescued(t, m, r.amount), Static).status \notin {"SHORTFALL", "UNKNOWN"}
  <1>1. ASSUME NEW t, NEW p, NEW r, Proved(Pinned, Static, p, t, r), r.status = "VERIFIED"
        PROVE  Says(t, p, r)
    BY <1>1, MovedAgrees DEF Proved
  <1>2. ASSUME NEW s \in Sessions, NEW t \in Strategies, work[s].results[t].status = "VERIFIED",
               s \notin mixed
        PROVE  Says(t, work[s].policy, work[s].results[t])
    <2>1. Proved(Pinned, Static, work[s].policy, t, work[s].results[t])
      BY <1>2 DEF DeskInv, SessionsOK, SessionOK, Solvent
    <2>. HIDE DEF Says
    <2>. QED  BY <1>1, <1>2, <2>1
  <1>3. ASSUME NEW t \in Strategies, agent.comparison.results[t].status = "VERIFIED",
               ~agent.comparison.mixed
        PROVE  Says(t, agent.comparison.policy, agent.comparison.results[t])
    <2>1. Proved(Pinned, Static, agent.comparison.policy, t, agent.comparison.results[t])
      BY <1>3 DEF DeskInv, CacheOK
    <2>. HIDE DEF Says
    <2>. QED  BY <1>1, <1>3, <2>1
  <1>4. ASSUME NEW x \in Comparisons, NEW t \in Strategies, x.results[t].status = "VERIFIED",
                  ~x.mixed
        PROVE  Says(t, x.policy, x.results[t])
    <2>1. CASE \E s \in Sessions : x.results = work[s].results /\ x.policy = work[s].policy
                                   /\ (x.mixed <=> s \in mixed)
      <3>. HIDE DEF Says
      <3>. QED  BY <1>2, <1>4, <2>1
    <2>2. CASE x.results = agent.comparison.results /\ x.policy = agent.comparison.policy
               /\ (x.mixed <=> agent.comparison.mixed)
      <3>. HIDE DEF Says
      <3>. QED  BY <1>3, <1>4, <2>2
    <2>. HIDE DEF Says
    <2>3. \/ \E s \in Sessions : x.results = work[s].results /\ x.policy = work[s].policy
                                /\ (x.mixed <=> s \in mixed)
          \/ /\ x.results = agent.comparison.results /\ x.policy = agent.comparison.policy
             /\ (x.mixed <=> agent.comparison.mixed)
      <3>1. ASSUME NEW s \in Sessions,
                   x = [results |-> work[s].results, policy |-> work[s].policy,
                        missing |-> work[s].missing, mixed |-> s \in mixed,
                        glitched |-> work[s].glitched, budget |-> MaxProbes[s]]
            PROVE  x.results = work[s].results /\ x.policy = work[s].policy
                   /\ (x.mixed <=> s \in mixed)
        BY <3>1
      <3>2. ASSUME x = [results |-> agent.comparison.results, policy |-> agent.comparison.policy,
                        missing |-> AllRead, mixed |-> agent.comparison.mixed,
                        glitched |-> agent.comparison.glitched, budget |-> MaxProbes[Agent]]
            PROVE  x.results = agent.comparison.results /\ x.policy = agent.comparison.policy
                   /\ (x.mixed <=> agent.comparison.mixed)
        BY <3>2
      <3>. QED  BY <1>4, <3>1, <3>2 DEF Comparisons
    <2>. QED  BY <2>1, <2>2, <2>3
  <1>. QED  BY <1>4 DEF VerifiedIsSolvent

LEMMA BranchesHold ==
  ASSUME DeskInv
  PROVE  BranchesRunAsPlanned
  <1>. SUFFICES ASSUME NEW s \in Sessions, NEW c \in Children, fork[s].child = c,
                       Answers(s, c), s \notin mixed
                PROVE  LET w    == work[s]
                           have == node[c].holdings
                           m    == Target(s)
                       IN  /\ w.stage = "snapshot" =>
                                  node[c] = [holdings |-> Pinned, snapshots |-> <<>>]
                           /\ w.stage = "change" /\ w.purpose = "branch" =>
                                  have = [Moved(w.strategy, m, Amount(s)) EXCEPT
                                            !.allowance = have.allowance]
                           /\ w.stage = "judge" /\ w.ok =>
                                  \A n \in Markets : have.allowance[n] <= Pinned.allowance[n]
                           /\ w.outcome = "rejected" \/ (w.stage = "judge" /\ ~w.ok) => w.glitched
    BY DEF BranchesRunAsPlanned
  <1>. DEFINE w == work[s]
              v == node[c].holdings
              m == Target(s)
              a == Amount(s)
              t == w.strategy
  <1>1. /\ Sound(Pinned, Static, w) /\ Honest(w) /\ Expected(Pinned, Static, w, node[c])
        /\ Pinned \in Holdings /\ Static \in Statics
    <2>1. Pinned \in Holdings /\ Static \in Statics
      BY SettingFacts DEF DeskInv, Base
    <2>2. SessionOK(s) /\ anvil[c].st = "serving"
      BY DEF DeskInv, SessionsOK, Answers, Serves
    <2>. QED  BY <2>1, <2>2 DEF SessionOK
  <1>2. m = TargetOf(Pinned, Static, w) /\ a = AmountOf(Pinned, Static, w)
    BY OwnTarget
  <1>3. v \in Holdings
    BY DEF DeskInv, Base, NodeRecords
  <1>4. w.stage = "snapshot" => node[c] = [holdings |-> Pinned, snapshots |-> <<>>]
    BY <1>1 DEF Expected, FreshNode
  <1>5. w.outcome = "rejected" \/ (w.stage = "judge" /\ ~w.ok) => w.glitched
    BY <1>1 DEF Honest
  <1>6. /\ Pinned.allowance \in [Markets -> Nat]
        /\ t \in Strategies
    BY <1>1, HoldingsFields DEF Sound, WorkTyped
  <1>. HIDE DEF w, v, m, a
  <1>7. ASSUME w.task = "compare", w.purpose = "branch", w.stage \in OnFork
        PROVE  m \in Markets /\ a \in Nat
    BY <1>1, <1>2, <1>7, AmountFacts, TargetFacts DEF Sound
  <1>8. ASSUME w.stage = "change", w.purpose = "branch"
        PROVE  v = [Moved(t, m, a) EXCEPT !.allowance = v.allowance]
    <2>1. w.task = "compare" /\ w.stage \in OnFork
      BY <1>1, <1>8 DEF Sound, Ordered, OnFork
    <2>2. HasMoved(Pinned, v, t, m, a, MovedFrom(Pinned, t, m, a).entered)
      BY <1>1, <1>2, <1>8, <2>1 DEF Expected, MovedAsPlanned, v, t
    <2>3. v = [MovedFrom(Pinned, t, m, a) EXCEPT !.allowance = v.allowance]
      BY <1>1, <1>6, <1>7, <1>8, <2>1, <2>2, HasMovedIs
    <2>. QED  BY <2>3, MovedAgrees
  <1>9. ASSUME w.stage = "judge", w.ok
        PROVE  \A n \in Markets : v.allowance[n] <= Pinned.allowance[n]
    <2>1. CASE w.task = "replay"
      <3>1. v = ApplyChange(Pinned, Static)
        BY <1>1, <1>9, <2>1 DEF Expected, v
      <3>2. v.allowance = Pinned.allowance
        BY <1>1, <3>1, ChangeFields
      <3>. QED  BY <1>6, <3>2
    <2>2. CASE w.task = "compare"
      <3>1. PICK y \in Holdings : v = ApplyChange(y, Static) /\ MovedAsPlanned(Pinned, Static, w, y)
        BY <1>1, <1>9, <2>2 DEF Expected, v
      <3>2. CASE w.purpose = "branch"
        <4>1. HasMoved(Pinned, y, t, m, a, MovedFrom(Pinned, t, m, a).entered)
          BY <1>2, <3>1, <3>2 DEF MovedAsPlanned, t
        <4>2. m \in Markets
          BY <1>7, <1>9, <2>2, <3>2 DEF OnFork
        <4>. QED  BY <1>1, <3>1, <4>1, <4>2, ApprovalsAreSpent
      <3>3. CASE w.purpose # "branch"
        <4>1. y = Pinned
          BY <3>1, <3>3 DEF MovedAsPlanned
        <4>2. v.allowance = Pinned.allowance
          BY <1>1, <3>1, <4>1, ChangeFields
        <4>. QED  BY <1>6, <4>2
      <3>. QED  BY <3>2, <3>3
    <2>3. w.task \in {"compare", "replay"}
      BY <1>1, <1>9 DEF Sound, Ordered
    <2>. QED  BY <2>1, <2>2, <2>3
  <1>. QED  BY <1>4, <1>5, <1>8, <1>9 DEF w, v, m, a, t

-----------------------------------------------------------------------------
(***************************************************************************)
(* The agent's counters.                                                   *)
(***************************************************************************)
Counts(a) ==
    /\ DOMAIN a = AgentFields /\ a.status \in {"NONE", "COMPLETED", "FAILED"}
    /\ a.step \in 0..MaxSteps /\ a.rejected \in 0..MaxInvalid

InRun(a) == Counts(a) /\ a.step < MaxSteps /\ a.rejected < MaxInvalid

Within(a) ==
    /\ Counts(a) /\ a.pc \in {"off", "ask", "call", "wait", "ended"}
    /\ a.pc # "ended" => InRun(a)

LEMMA FailsWithin ==
  ASSUME NEW a, Counts(a)
  PROVE  Within(Fails(a)) /\ Fails(a).pc = "ended"
  BY DEF Counts, Within, Fails, AgentFields

LEMMA NextStepWithin ==
  ASSUME NEW a, InRun(a)
  PROVE  Within(NextStep(a)) /\ NextStep(a).pc # "off"
  <1>. DEFINE b == [a EXCEPT !.step = @ + 1]
              c == [a EXCEPT !.step = @ + 1, !.pc = "ask"]
  <1>1. /\ DOMAIN b = AgentFields /\ b.step = a.step + 1 /\ b.rejected = a.rejected
        /\ b.status = a.status
        /\ DOMAIN c = AgentFields /\ c.step = a.step + 1 /\ c.rejected = a.rejected
        /\ c.status = a.status /\ c.pc = "ask"
    BY DEF InRun, Counts, AgentFields
  <1>2. NextStep(a) = IF a.step + 1 >= MaxSteps THEN Fails(b) ELSE c
    BY DEF NextStep
  <1>. HIDE DEF b, c
  <1>3. MaxSteps \in Nat /\ MaxInvalid \in Nat
    BY AgentAssumption
  <1>4. Counts(b) /\ (a.step + 1 < MaxSteps => InRun(c))
    BY <1>1, <1>3 DEF InRun, Counts
  <1>5. CASE a.step + 1 >= MaxSteps
    BY <1>2, <1>4, <1>5, FailsWithin
  <1>6. CASE ~(a.step + 1 >= MaxSteps)
    <2>1. a.step + 1 < MaxSteps
      BY <1>3, <1>6 DEF InRun, Counts
    <2>. QED  BY <1>1, <1>2, <1>4, <1>6, <2>1 DEF Within, InRun
  <1>. QED  BY <1>5, <1>6

LEMMA CallDoneWithin ==
  ASSUME NEW a, InRun(a)
  PROVE  Within(CallDone(a)) /\ CallDone(a).pc # "off"
  <1>. DEFINE rest == Tail(a.pending)
              b == [a EXCEPT !.pending = <<>>]
              c == [a EXCEPT !.pending = rest, !.pc = "call"]
  <1>1. /\ DOMAIN b = AgentFields /\ b.step = a.step /\ b.rejected = a.rejected
        /\ b.status = a.status
        /\ DOMAIN c = AgentFields /\ c.step = a.step /\ c.rejected = a.rejected
        /\ c.status = a.status /\ c.pc = "call"
    BY DEF InRun, Counts, AgentFields
  <1>2. CallDone(a) = IF rest = <<>> THEN NextStep(b) ELSE c
    BY DEF CallDone
  <1>. HIDE DEF b, c, rest
  <1>3. InRun(b) /\ InRun(c)
    BY <1>1 DEF InRun, Counts
  <1>. QED  BY <1>1, <1>2, <1>3, NextStepWithin DEF Within, InRun

LEMMA RejectedWithin ==
  ASSUME NEW a, InRun(a)
  PROVE  Within(Rejected(a)) /\ Rejected(a).pc # "off"
  <1>. DEFINE b == [a EXCEPT !.rejected = @ + 1]
  <1>1. /\ DOMAIN b = AgentFields /\ b.step = a.step /\ b.rejected = a.rejected + 1
        /\ b.status = a.status
    BY DEF InRun, Counts, AgentFields
  <1>2. Rejected(a) = IF b.rejected >= MaxInvalid THEN Fails(b) ELSE CallDone(b)
    BY DEF Rejected
  <1>. HIDE DEF b
  <1>3. MaxSteps \in Nat /\ MaxInvalid \in Nat
    BY AgentAssumption
  <1>4. Counts(b) /\ (~(b.rejected >= MaxInvalid) => InRun(b))
    BY <1>1, <1>3 DEF InRun, Counts
  <1>. QED  BY <1>2, <1>4, FailsWithin, CallDoneWithin

LEMMA ToldGoes ==
  ASSUME NEW a, InRun(a), NEW shown
  PROVE  InRun(Told(a, shown))
  <1>. DEFINE x == a.told \cup {<<t, a.comparison.results[t].amount>> :
                        t \in {u \in shown : a.comparison.results[u].status = "VERIFIED"}}
              b == [a EXCEPT !.told = x]
  <1>1. Told(a, shown) = b
    BY DEF Told
  <1>. HIDE DEF x
  <1>2. DOMAIN b = AgentFields /\ b.step = a.step /\ b.rejected = a.rejected /\ b.status = a.status
    BY DEF InRun, Counts, AgentFields
  <1>. HIDE DEF b
  <1>. QED  BY <1>1, <1>2 DEF InRun, Counts

LEMMA HeardWithin ==
  ASSUME NEW a, InRun(a), NEW b, Heard(b, a)
  PROVE  Within(b) /\ b.pc # "off"
  <1>1. PICK shown : b = CallDone(Told(a, shown)) \/ b = Rejected(Told(a, shown))
    BY DEF Heard
  <1>. DEFINE x == Told(a, shown)
  <1>2. InRun(x) /\ (b = CallDone(x) \/ b = Rejected(x))
    BY <1>1, ToldGoes
  <1>. HIDE DEF x
  <1>. QED  BY <1>2, CallDoneWithin, RejectedWithin

LEMMA ReturnedGoing ==
  ASSUME NEW a, InRun(a), NEW w, NEW m
  PROVE  InRun(Returned(a, w, m))
  <1>. DEFINE b == Returned(a, w, m)
  <1>1. DOMAIN b = AgentFields /\ b.step = a.step /\ b.rejected = a.rejected /\ b.status = a.status
    <2>. DEFINE i == IF w.task = "replay" THEN Cachable(w.receipt, m) ELSE a.impact
                n == [known |-> TRUE, results |-> w.results, policy |-> w.policy, mixed |-> m,
                      glitched |-> w.glitched]
                c == IF w.task = "replay" THEN a.comparison ELSE n
                y == [a EXCEPT !.impact = i, !.comparison = c]
    <2>1. b = y
      BY DEF Returned
    <2>. HIDE DEF i, c, b
    <2>2. DOMAIN y = AgentFields /\ y.step = a.step /\ y.rejected = a.rejected /\ y.status = a.status
      BY DEF InRun, Counts, AgentFields
    <2>. QED  BY <2>1, <2>2
  <1>. HIDE DEF b
  <1>2. InRun(b)
    BY <1>1 DEF InRun, Counts
  <1>. QED  BY <1>2 DEF b

AgentWithin == Within(agent) /\ (desk.job \in {"waiting", "replay"} => agent.pc = "off")

LEMMA Answering ==
  ASSUME Within(agent), NEW reply, NEW m, Answered(reply, m)
  PROVE  Within(agent') /\ agent'.pc # "off"
  <1>. DEFINE b == [agent EXCEPT !.model = m, !.pc = "ended", !.status = "COMPLETED"]
              c == [agent EXCEPT !.model = m, !.pc = "call", !.pending = reply]
  <1>1. agent' = b \/ agent' = c
    BY DEF Answered
  <1>2. agent.pc = "ask" /\ InRun(agent)
    BY DEF Answered, Within
  <1>3. /\ DOMAIN b = AgentFields /\ b.step = agent.step /\ b.rejected = agent.rejected
        /\ b.status = "COMPLETED" /\ b.pc = "ended"
        /\ DOMAIN c = AgentFields /\ c.step = agent.step /\ c.rejected = agent.rejected
        /\ c.status = agent.status /\ c.pc = "call"
    BY <1>2 DEF InRun, Counts, AgentFields
  <1>. HIDE DEF b, c
  <1>. QED  BY <1>1, <1>2, <1>3 DEF Within, InRun, Counts

LEMMA AgentGoesOnWithin ==
  ASSUME Within(agent), AgentNext
  PROVE  Within(agent') /\ agent'.pc # "off" /\ agent.pc # "off"
  <1>1. CASE AskModel
    <2>1. agent.pc = "ask" /\ \E reply, m : Answered(reply, m)
      BY <1>1 DEF AskModel, Answered
    <2>. QED  BY <2>1, Answering
  <1>2. CASE ModelFails \/ AgentTimeout \/ TraceFails
    BY <1>2, FailsWithin DEF ModelFails, AgentTimeout, TraceFails, Within, InRun
  <1>3. CASE PlainCall
    <2>1. agent.pc = "call" /\ InRun(agent)
      BY <1>3 DEF PlainCall, Within
    <2>2. agent' = Rejected(agent) \/ Heard(agent', agent)
      BY <1>3, Tells DEF PlainCall, ForbiddenCall, ReadCall, CachedCall
    <2>. QED  BY <2>1, <2>2, RejectedWithin, HeardWithin
  <1>4. CASE ForkCall
    <2>1. /\ agent.pc = "call" /\ InRun(agent)
          /\ agent' = [agent EXCEPT !.pc = "wait", !.forks = @ + 1]
      BY <1>4 DEF ForkCall, Within
    <2>. QED  BY <2>1 DEF Within, InRun, Counts, AgentFields
  <1>5. CASE ForkRefused
    <2>1. agent.pc = "call" /\ InRun(agent) /\ agent' = Rejected(agent)
      BY <1>5 DEF ForkRefused, Within
    <2>. QED  BY <2>1, RejectedWithin
  <1>6. CASE ForkReturns
    <2>. DEFINE w == work[Agent]
                m == Agent \in mixed
                full == Returned(agent, w, m)
    <2>1. Heard(agent', full) \/ agent' = Rejected(agent)
      BY <1>6, Returns
    <2>2. agent.pc = "wait" /\ InRun(agent)
      BY <1>6 DEF ForkReturns, Within
    <2>. HIDE DEF w, m
    <2>3. InRun(full)
      BY <2>2, ReturnedGoing
    <2>. HIDE DEF full
    <2>. QED  BY <2>1, <2>2, <2>3, RejectedWithin, HeardWithin
  <1>. QED  BY <1>1, <1>2, <1>3, <1>4, <1>5, <1>6 DEF AgentNext

LEMMA DeskJobs ==
  ASSUME DOMAIN desk = DeskFields, NEW j
  PROVE  /\ [desk EXCEPT !.job = j].job = j /\ [desk EXCEPT !.api = j].job = desk.job
         /\ \A r : /\ [desk EXCEPT !.job = j, !.receipt = r].job = j
                   /\ [desk EXCEPT !.api = j, !.plan = r].job = desk.job
  BY DEF DeskFields

(* The agent starts once, when the replay is stored.                       *)
LEMMA AgentStaysWithin ==
  ASSUME DOMAIN desk = DeskFields, AgentWithin, [Next]_vars
  PROVE  AgentWithin'
  <1>1. CASE AgentNext /\ UNCHANGED desk
    BY <1>1, AgentGoesOnWithin DEF AgentWithin
  <1>2. CASE JobReplayed
    <2>1. desk.job = "replay" /\ agent.pc = "off"
      BY <1>2 DEF JobReplayed, AgentWithin
    <2>2. desk'.job \in {"strategies", "failed"}
      <3>1. \/ desk' = [desk EXCEPT !.job = "strategies", !.receipt = JobReceipt]
            \/ desk' = [desk EXCEPT !.job = "failed"]
        BY <1>2 DEF JobReplayed
      <3>2. [desk EXCEPT !.job = "strategies", !.receipt = JobReceipt].job = "strategies"
        BY DeskJobs
      <3>3. [desk EXCEPT !.job = "failed"].job = "failed"
        BY DeskJobs
      <3>. QED  BY <3>1, <3>2, <3>3
    <2>3. agent' = agent \/ agent' = [agent EXCEPT !.pc = "ask"]
      BY <1>2 DEF JobReplayed
    <2>4. Within([agent EXCEPT !.pc = "ask"])
      BY <2>1 DEF AgentWithin, Within, InRun, Counts, AgentFields
    <2>. QED  BY <2>2, <2>3, <2>4 DEF AgentWithin
  <1>3. CASE agent' = agent /\ (desk'.job \in {"waiting", "replay"} =>
                                    desk.job \in {"waiting", "replay"})
    BY <1>3 DEF AgentWithin
  <1>4. CASE JobStarts \/ JobCompares \/ JobEnds
    <2>1. agent' = agent
      BY <1>4 DEF JobStarts, JobCompares, JobEnds, agentVars
    <2>2. desk'.job \in {"waiting", "replay"} => desk.job \in {"waiting", "replay"}
      BY <1>4, DeskJobs DEF JobStarts, JobCompares, JobEnds
    <2>. QED  BY <1>3, <2>1, <2>2
  <1>5. CASE Prepare \/ ApiDryRun \/ ApiReturns
    <2>1. agent' = agent
      BY <1>5 DEF Prepare, ApiDryRun, ApiReturns
    <2>2. desk'.job = desk.job
      <3>. DEFINE Step(d) == d.job = desk.job
      <3>1. \A j : Step([desk EXCEPT !.api = j])
        BY DeskJobs
      <3>2. \A calls : Step([desk EXCEPT !.api = "planned", !.plan = calls])
        BY DeskJobs
      <3>3. \/ \E j : desk' = [desk EXCEPT !.api = j]
            \/ \E calls : desk' = [desk EXCEPT !.api = "planned", !.plan = calls]
        BY <1>5 DEF Prepare, ApiDryRun, ApiReturns
      <3>4. Step(desk')
        <4>. HIDE DEF Step
        <4>. QED  BY <3>1, <3>2, <3>3, Zenon
      <3>. QED  BY <3>4
    <2>. QED  BY <1>3, <2>1, <2>2
  <1>6. ASSUME NEW s \in {Job, Api}, FindsNoPort(s) PROVE AgentWithin'
    <2>1. agent' = agent
      BY <1>6 DEF FindsNoPort
    <2>2. desk'.job \in {"failed", desk.job}
      BY <1>6, DeskJobs DEF FindsNoPort
    <2>. QED  BY <1>3, <2>1, <2>2
  <1>7. CASE UNCHANGED <<agent, desk>>
    BY <1>3, <1>7
  <1>8. /\ \A s \in Sessions : ForkSteps(s) => UNCHANGED <<agent, desk>>
        /\ \A c \in Children : ChildSteps(c) \/ ChildCrashes(c) => UNCHANGED <<agent, desk>>
        /\ Shutdown \/ SignalReceived => UNCHANGED <<agent, desk>>
        /\ UNCHANGED vars => UNCHANGED <<agent, desk>>
    BY DEF ForkSteps, ChildSteps, ChildCrashes, Shutdown, SignalReceived, Quiet, vars, agentVars
  <1>. QED
    BY <1>1, <1>2, <1>4, <1>5, <1>6, <1>7, <1>8
       DEF Next, ProcessSteps, OffspringSteps, SimulatorSteps

-----------------------------------------------------------------------------
(***************************************************************************)
(* What the agent says.                                                    *)
(***************************************************************************)
IsKnown(cache) == cache.known = TRUE

Verified(comparison, x) ==
    \E u \in Strategies : /\ x = <<u, comparison.results[u].amount>>
                          /\ comparison.results[u].status = "VERIFIED"

(* It says nothing but what its comparison verified.                       *)
AgentSound(a) ==
    /\ DOMAIN a = AgentFields
    /\ a.comparison.policy \in RiskPolicySet
    /\ \A x \in a.told : Verified(a.comparison, x)
    /\ ~IsKnown(a.comparison) =>
          \A u \in Strategies : a.comparison.results[u].status # "VERIFIED"

(* It has opened a fork for each thing it knows, one for each refusal at   *)
(* the most, and the `open` ones that it waits for.                        *)
Opened(a, open) ==
    /\ a.rejected \in Nat /\ a.forks \in Nat
    /\ a.forks <= (IF IsKnown(a.impact) THEN 1 ELSE 0) + (IF IsKnown(a.comparison) THEN 1 ELSE 0)
                    + a.rejected + open

(* What it waits for it does not know yet.                                 *)
WaitsFor(a, task) ==
    /\ task \in {"replay", "compare"}
    /\ task = "replay" => ~IsKnown(a.impact)
    /\ task = "compare" => ~IsKnown(a.comparison)

AgentKnows ==
    /\ AgentSound(agent) /\ Opened(agent, IF agent.pc = "wait" THEN 1 ELSE 0)
    /\ agent.pc = "wait" => WaitsFor(agent, work[Agent].task)

AgentInv == AgentKnows /\ AgentWithin

LEMMA KeepsSound ==
  ASSUME NEW a, AgentSound(a), NEW open \in {0, 1}, Opened(a, open), NEW b, KeepsFindings(b, a),
         \/ b.rejected = a.rejected /\ open = 0
         \/ b.rejected = a.rejected + 1
  PROVE  AgentSound(b) /\ Opened(b, 0) /\ b.pc # "wait"
  <1>1. AgentSound(b) /\ b.pc # "wait"
    BY DEF AgentSound, KeepsFindings
  <1>2. Opened(b, 0)
    BY DEF Opened, KeepsFindings
  <1>. QED  BY <1>1, <1>2

LEMMA ToldSound ==
  ASSUME NEW a, AgentSound(a), Opened(a, 0), NEW shown \in SUBSET Strategies
  PROVE  AgentSound(Told(a, shown)) /\ Opened(Told(a, shown), 0)
  <1>. DEFINE b == Told(a, shown)
  <1>1. /\ DOMAIN b = AgentFields /\ b.comparison = a.comparison /\ b.impact = a.impact
        /\ b.forks = a.forks /\ b.rejected = a.rejected
    BY ToldFields DEF AgentSound
  <1>2. \A x \in b.told \ a.told : Verified(a.comparison, x)
    BY ToldFields DEF AgentSound, Verified
  <1>. HIDE DEF b
  <1>3. AgentSound(b)
    BY <1>1, <1>2 DEF AgentSound
  <1>4. Opened(b, 0)
    BY <1>1 DEF Opened
  <1>. QED  BY <1>3, <1>4 DEF b

LEMMA HeardSound ==
  ASSUME NEW a, AgentSound(a), Opened(a, 0), NEW b, Heard(b, a)
  PROVE  AgentSound(b) /\ Opened(b, 0) /\ b.pc # "wait"
  <1>1. PICK shown \in SUBSET Strategies :
            b = CallDone(Told(a, shown)) \/ b = Rejected(Told(a, shown))
    BY DEF Heard
  <1>. DEFINE x == Told(a, shown)
  <1>2. AgentSound(x) /\ Opened(x, 0)
    BY ToldSound
  <1>3. b = CallDone(x) \/ b = Rejected(x)
    BY <1>1
  <1>. HIDE DEF x
  <1>4. KeepsFindings(b, x) /\ b.rejected \in {x.rejected, x.rejected + 1}
    BY <1>2, <1>3, CallDoneKeeps, RejectedKeeps DEF AgentSound
  <1>. QED  BY <1>2, <1>4, KeepsSound

LEMMA ReturnedSound ==
  ASSUME NEW a, AgentSound(a), Opened(a, 1), NEW w, WaitsFor(a, w.task), NEW m,
         w.policy \in RiskPolicySet, w.task = "replay" => HasReceipt(w.receipt)
  PROVE  AgentSound(Returned(a, w, m)) /\ Opened(Returned(a, w, m), 0)
  <1>. DEFINE b == Returned(a, w, m)
  <1>1. AddsFinding(b, a, w, m)
    BY ReturnedFields DEF AgentSound
  <1>. HIDE DEF b
  <1>2. /\ DOMAIN b = AgentFields /\ b.told = a.told /\ b.forks = a.forks
        /\ b.rejected = a.rejected
    BY <1>1 DEF AddsFinding
  <1>3. CASE w.task = "replay"
    <2>1. b.comparison = a.comparison /\ b.impact = Cachable(w.receipt, m)
      BY <1>1, <1>3 DEF AddsFinding
    <2>2. IsKnown(b.impact) /\ ~IsKnown(a.impact)
      BY <1>3, <2>1 DEF Cachable, HasReceipt, IsKnown, WaitsFor
    <2>3. AgentSound(b)
      BY <1>2, <2>1 DEF AgentSound
    <2>4. Opened(b, 0)
      BY <1>2, <2>1, <2>2 DEF Opened
    <2>. QED  BY <2>3, <2>4 DEF b
  <1>4. CASE w.task = "compare"
    <2>1. b.impact = a.impact /\ IsKnown(b.comparison) /\ b.comparison.policy \in RiskPolicySet
      BY <1>1, <1>4 DEF AddsFinding, IsKnown
    <2>2. ~IsKnown(a.comparison) /\ a.told = {}
      BY <1>4 DEF WaitsFor, AgentSound, Verified
    <2>3. AgentSound(b)
      BY <1>2, <2>1, <2>2 DEF AgentSound
    <2>4. Opened(b, 0)
      BY <1>2, <2>1, <2>2 DEF Opened
    <2>. QED  BY <2>3, <2>4 DEF b
  <1>. QED  BY <1>3, <1>4 DEF WaitsFor

LEMMA OpensTask ==
  ASSUME Base, NEW s \in Sessions, NEW task, NEW pin, NEW calls, Open(s, task, pin, calls)
  PROVE  work'[s].task = task
  <1>. DEFINE x == NoWork(s)
              u == [x EXCEPT !.task = task, !.stage = "open", !.calls = calls]
  <1>1. Blank(x, setting.policy[s], "none", "idle", <<>>)
    BY NoWorkIsBlank
  <1>2. work' = [work EXCEPT ![s] = u]
    BY DEF Open
  <1>. HIDE DEF x
  <1>3. Blank(u, setting.policy[s], task, "open", calls)
    BY <1>1, OpenIsBlank
  <1>. HIDE DEF u
  <1>. QED  BY <1>2, <1>3 DEF Base, Blank

LEMMA AgentCalls ==
  ASSUME Base, AgentKnows, ForkCall
  PROVE  AgentKnows'
  <1>. DEFINE task == IF Tool = "run_impact_simulation" THEN "replay" ELSE "compare"
  <1>1. /\ Open(Agent, task, 0, <<>>) /\ agent.pc = "call"
        /\ agent' = [agent EXCEPT !.pc = "wait", !.forks = @ + 1]
    BY DEF ForkCall
  <1>2. /\ DOMAIN agent' = AgentFields /\ agent'.comparison = agent.comparison
        /\ agent'.impact = agent.impact /\ agent'.told = agent.told
        /\ agent'.forks = agent.forks + 1 /\ agent'.rejected = agent.rejected
        /\ agent'.pc = "wait"
    BY <1>1 DEF AgentKnows, AgentSound, AgentFields
  <1>3. AgentSound(agent')
    BY <1>2 DEF AgentKnows, AgentSound
  <1>6. Opened(agent', 1)
    BY <1>1, <1>2 DEF AgentKnows, Opened
  <1>4. WaitsFor(agent', task)
    BY <1>2 DEF ForkCall, Cached, WaitsFor, IsKnown
  <1>. HIDE DEF task
  <1>5. work'[Agent].task = task
    BY <1>1, Callers, OpensTask
  <1>. QED  BY <1>2, <1>3, <1>4, <1>5, <1>6 DEF AgentKnows

LEMMA AgentHears ==
  ASSUME Base, SessionsOK, Reports, AgentKnows, ForkReturns
  PROVE  AgentKnows'
  <1>. DEFINE w == work[Agent]
              m == Agent \in mixed
              full == Returned(agent, w, m)
  <1>1. \/ Heard(agent', full) /\ w.outcome = "ok"
        \/ agent' = Rejected(agent)
    BY Returns
  <1>2. WaitsFor(agent, w.task) /\ AgentSound(agent) /\ Opened(agent, 1)
    BY DEF ForkReturns, AgentKnows
  <1>3. w.policy \in RiskPolicySet
    BY Callers DEF SessionsOK, SessionOK, Sound, WorkTyped
  <1>4. Reported(w)
    BY Callers DEF Reports
  <1>. HIDE DEF w, m
  <1>5. CASE Heard(agent', full) /\ w.outcome = "ok"
    <2>1. w.task = "replay" => HasReceipt(w.receipt)
      BY <1>4, <1>5 DEF Reported
    <2>2. AgentSound(full) /\ Opened(full, 0)
      BY <1>2, <1>3, <2>1, ReturnedSound
    <2>. HIDE DEF full
    <2>. QED  BY <1>5, <2>2, HeardSound DEF AgentKnows
  <1>6. CASE agent' = Rejected(agent)
    <2>1. KeepsFindings(agent', agent) /\ agent'.rejected = agent.rejected + 1
      BY <1>2, <1>6, RejectedKeeps DEF AgentSound
    <2>. QED  BY <1>2, <2>1, KeepsSound DEF AgentKnows
  <1>. QED  BY <1>1, <1>5, <1>6

(* The other steps of the agent open no fork.                              *)
LEMMA AgentTalks ==
  ASSUME AgentKnows,
         AskModel \/ ModelFails \/ AgentTimeout \/ TraceFails \/ PlainCall \/ ForkRefused
  PROVE  AgentKnows'
  <1>0. AgentSound(agent) /\ DOMAIN agent = AgentFields /\ Opened(agent, 0)
    BY DEF AgentKnows, AgentSound, AskModel, Answered, ModelFails, AgentTimeout, TraceFails,
           PlainCall, ForkRefused
  <1>1. CASE AskModel
    <2>1. PICK reply, n : Answered(reply, n)
      BY <1>1 DEF AskModel
    <2>2. KeepsFindings(agent', agent) /\ agent'.rejected = agent.rejected
      BY <1>0, <2>1 DEF Answered, KeepsFindings, AgentFields
    <2>. QED  BY <1>0, <2>2, KeepsSound DEF AgentKnows
  <1>2. CASE ModelFails \/ AgentTimeout \/ TraceFails \/ ForkRefused
    <2>1. KeepsFindings(agent', agent) /\ agent'.rejected \in {agent.rejected, agent.rejected + 1}
      BY <1>0, <1>2, FailsKeeps, RejectedKeeps DEF ModelFails, AgentTimeout, TraceFails, ForkRefused
    <2>. QED  BY <1>0, <2>1, KeepsSound DEF AgentKnows
  <1>3. CASE PlainCall
    <2>1. agent' = Rejected(agent) \/ Heard(agent', agent)
      BY <1>3, Tells DEF PlainCall, ForbiddenCall, ReadCall, CachedCall
    <2>2. CASE agent' = Rejected(agent)
      <3>1. KeepsFindings(agent', agent) /\ agent'.rejected = agent.rejected + 1
        BY <1>0, <2>2, RejectedKeeps
      <3>. QED  BY <1>0, <3>1, KeepsSound DEF AgentKnows
    <2>3. CASE Heard(agent', agent)
      BY <1>0, <2>3, HeardSound DEF AgentKnows
    <2>. QED  BY <2>1, <2>2, <2>3
  <1>. QED  BY <1>1, <1>2, <1>3

LEMMA AgentKeeps ==
  ASSUME Base, SessionsOK, Reports, DOMAIN desk = DeskFields, AgentInv, [Next]_vars
  PROVE  AgentInv'
  <1>0. AgentKnows /\ AgentWithin /\ AgentWithin'
    BY AgentStaysWithin DEF AgentInv
  <1>. SUFFICES AgentKnows'
    BY <1>0 DEF AgentInv
  <1>1. CASE ForkCall
    BY <1>0, <1>1, AgentCalls
  <1>2. CASE ForkReturns
    BY <1>0, <1>2, AgentHears
  <1>3. CASE AskModel \/ ModelFails \/ AgentTimeout \/ TraceFails \/ PlainCall \/ ForkRefused
    BY <1>0, <1>3, AgentTalks
  <1>4. CASE JobReplayed
    <2>1. agent' = agent \/ agent' = [agent EXCEPT !.pc = "ask"]
      BY <1>4 DEF JobReplayed
    <2>2. CASE agent' = [agent EXCEPT !.pc = "ask"]
      <3>1. KeepsFindings(agent', agent) /\ agent'.rejected = agent.rejected
        BY <1>0, <2>2 DEF AgentKnows, AgentSound, KeepsFindings, AgentFields
      <3>2. AgentSound(agent) /\ Opened(agent, 0)
        BY <1>0, <1>4 DEF JobReplayed, AgentWithin, AgentKnows
      <3>. QED  BY <3>1, <3>2, KeepsSound DEF AgentKnows
    <2>3. CASE agent' = agent /\ ~ForkCall /\ ~ForkReturns
      BY <1>0, <2>3, AgentsTask DEF AgentKnows
    <2>. QED  BY <1>1, <1>2, <2>1, <2>2, <2>3
  <1>5. CASE agent' = agent /\ ~ForkCall /\ ~ForkReturns
    BY <1>0, <1>5, AgentsTask DEF AgentKnows
  <1>6. AgentNext \/ JobReplayed \/ agent' = agent
    <2>1. SimulatorSteps => AgentNext \/ JobReplayed \/ agent' = agent
      BY DEF SimulatorSteps, JobStarts, JobCompares, JobEnds, agentVars
    <2>2. ASSUME NEW s \in Sessions, ForkSteps(s) PROVE agent' = agent
      BY <2>2 DEF ForkSteps, Quiet
    <2>3. ASSUME NEW c \in Children, ChildSteps(c) \/ ChildCrashes(c) PROVE agent' = agent
      BY <2>3 DEF ChildSteps, ChildCrashes, Quiet
    <2>4. Shutdown \/ SignalReceived \/ Prepare \/ ApiDryRun \/ ApiReturns \/ UNCHANGED vars
             => agent' = agent
      BY DEF Shutdown, SignalReceived, Prepare, ApiDryRun, ApiReturns, vars, agentVars, Quiet
    <2>5. ASSUME NEW s \in {Job, Api}, FindsNoPort(s) PROVE agent' = agent
      BY <2>5 DEF FindsNoPort
    <2>. QED  BY <2>1, <2>2, <2>3, <2>4, <2>5 DEF Next, ProcessSteps, OffspringSteps
  <1>. QED  BY <1>1, <1>2, <1>3, <1>4, <1>5, <1>6 DEF AgentNext

LEMMA AgentStarts ==
  ASSUME Init
  PROVE  AgentInv /\ Reports
  <1>1. setting \in Settings /\ Agent \in Sessions
    BY Callers DEF Init
  <1>2. setting.policy[Agent] \in RiskPolicySet
    BY <1>1, SettingFacts
  <1>3. agent = NewAgent
    BY DEF Init, AgentInit
  <1>4. /\ DOMAIN agent = AgentFields /\ agent.pc = "off" /\ agent.told = {} /\ agent.forks = 0
        /\ agent.rejected = 0 /\ agent.status = "NONE" /\ agent.step = 0
        /\ agent.impact = NoReceipt /\ agent.comparison = NoComparison
    BY <1>3 DEF NewAgent, AgentFields
  <1>5. /\ ~IsKnown(agent.impact) /\ ~IsKnown(agent.comparison)
        /\ agent.comparison.policy = setting.policy[Agent]
        /\ \A u \in Strategies : agent.comparison.results[u].status = "NONE"
    BY <1>4 DEF NoReceipt, NoComparison, NoResult, IsKnown
  <1>6. AgentKnows
    BY <1>2, <1>4, <1>5 DEF AgentKnows, AgentSound, Opened
  <1>8. AgentWithin
    BY <1>4, AgentAssumption DEF AgentWithin, Within, InRun, Counts
  <1>7. ASSUME NEW s \in Sessions PROVE Reported(work[s])
    <2>1. work[s] = NoWork(s)
      BY DEF Init, WorkInit
    <2>2. Blank(NoWork(s), setting.policy[s], "none", "idle", <<>>)
      BY NoWorkIsBlank
    <2>. HIDE DEF NoWork
    <2>. QED  BY <2>1, <2>2 DEF Blank, Reported
  <1>. QED  BY <1>6, <1>7, <1>8 DEF Reports, AgentInv

LEMMA TellsVerified ==
  ASSUME AgentInv
  PROVE  AgentTellsWhatItVerified
  <1>1. AgentKnows
    BY DEF AgentInv
  <1>2. agent.forks <= 2 + agent.rejected
    <2>1. CASE agent.pc = "wait"
      BY <1>1, <2>1 DEF AgentKnows, Opened, WaitsFor
    <2>2. CASE agent.pc # "wait"
      BY <1>1, <2>2 DEF AgentKnows, Opened
    <2>. QED  BY <2>1, <2>2
  <1>3. ASSUME NEW x \in agent.told
        PROVE  /\ agent.comparison.known
               /\ agent.comparison.results[x[1]].status = "VERIFIED"
               /\ agent.comparison.results[x[1]].amount = x[2]
    BY <1>1, <1>3 DEF AgentKnows, AgentSound, Verified, IsKnown
  <1>. QED  BY <1>2, <1>3 DEF AgentTellsWhatItVerified

-----------------------------------------------------------------------------
(***************************************************************************)
(* The shape of every variable.  What a session has found stays within its *)
(* bounds, p being the policy it began with.                               *)
(***************************************************************************)
Bounded(w, p) ==
    /\ w.search \in Searches
    /\ w.policy.minBuffer = p.minBuffer \/ w.policy.minBuffer \in 1..(MaxBufferBps + 1)
    /\ \A t \in Strategies : w.results[t].status \in Statuses

LEMMA SearchTyped ==
  ASSUME NEW b \in Int, NEW n \in Nat
  PROVE  StartSearch(1, b, n) \in Searches
  BY DEF StartSearch, Searches

LEMMA ProbeTyped ==
  ASSUME NEW q \in Searches, NEW passed \in BOOLEAN
  PROVE  Probe(q, passed) \in Searches
  <1>1. q.low \in Int /\ q.high \in Int /\ q.found \in Int \cup {NoAmount}
        /\ q.probes \in Nat /\ q.max \in Int
    BY DEF Searches
  <1>2. Mid(q) \in Int
    BY <1>1 DEF Mid
  <1>. QED  BY <1>1, <1>2 DEF Probe, Searches

LEMMA ResultStatus ==
  ASSUME NEW w, NEW amount, NEW complete, NEW bound
  PROVE  /\ FinalizeResult(w, amount, complete, bound).status \in Statuses
         /\ \A status \in Statuses : Result(status, amount, bound).status \in Statuses
  BY DEF FinalizeResult, Result, Statuses

(* The derived buffer has a cap.                                           *)
LEMMA BufferCapped ==
  ASSUME NEW w \in Holdings, NEW static \in Statics, NEW missing
  PROVE  ReadRisk(w, static, missing).buffer \in 0..MaxBufferBps \cup {NoAmount}
  <1>. DEFINE liq == Liquidity(w, static)
              debt == Debt(w, static, Positions(w, static, missing))
  <1>1. liq \in Int /\ debt \in Int
    BY LiquidityTyped, DebtTyped DEF Positions, ListMarkets
  <1>2. ReadRisk(w, static, missing).buffer = SafetyBuffer(liq, debt)
    BY DEF ReadRisk, WithBuffer, RawRisk
  <1>. HIDE DEF liq, debt
  <1>3. MaxBufferBps \in Nat
    BY MarketsAssumption
  <1>4. ASSUME ~(debt <= 0), ~(liq <= 0)
        PROVE  Min({(liq * 10000) \div debt, MaxBufferBps}) \in 0..MaxBufferBps
    <2>. DEFINE d == (liq * 10000) \div debt
    <2>1. d \in Nat
      BY <1>1, <1>4, SMT
    <2>. HIDE DEF d
    <2>2. Min({d, MaxBufferBps}) \in {d, MaxBufferBps} /\ Min({d, MaxBufferBps}) <= MaxBufferBps
      BY <1>3, <2>1, LeastOf
    <2>. QED  BY <1>3, <2>1, <2>2 DEF d
  <1>5. 0 \in 0..MaxBufferBps
    BY <1>3
  <1>. QED  BY <1>2, <1>4, <1>5 DEF SafetyBuffer

LEMMA RaisedBounded ==
  ASSUME NEW p \in RiskPolicySet, NEW b \in 0..MaxBufferBps \cup {NoAmount}
  PROVE  RaisedPolicy(p, b).minBuffer \in 1..(MaxBufferBps + 1)
  <1>. DEFINE x == (IF b = NoAmount THEN 0 ELSE b) + 1
  <1>1. x \in 1..(MaxBufferBps + 1)
    BY NoAmountAssumption, MarketsAssumption
  <1>. HIDE DEF x
  <1>2. [p EXCEPT !.minBuffer = x].minBuffer = x
    BY DEF RiskPolicySet
  <1>. QED  BY <1>1, <1>2 DEF RaisedPolicy, x

LEMMA BlankBounded ==
  ASSUME NEW s
  PROVE  Bounded(NoWork(s), setting.policy[s])
  <1>1. NoWork(s).search = StartSearch(1, 0, 0) /\ NoWork(s).policy = setting.policy[s]
    BY DEF NoWork
  <1>2. Blank(NoWork(s), setting.policy[s], "none", "idle", <<>>)
    BY NoWorkIsBlank
  <1>. HIDE DEF NoWork
  <1>3. \A t \in Strategies : NoWork(s).results[t].status = "NONE"
    BY <1>2 DEF Blank, AllNone, NoResult
  <1>. QED  BY <1>1, <1>3, SearchTyped DEF Bounded, Statuses

(* Steps that do not touch what is bounded.                                *)
LEMMA SameBounds ==
  ASSUME NEW p, NEW w, Bounded(w, p), NEW u,
         u.search = w.search, u.policy = w.policy, u.results = w.results
  PROVE  Bounded(u, p)
  BY DEF Bounded

LEMMA MarkedBounds ==
  ASSUME NEW x, DOMAIN x = WorkFields, NEW failed
  PROVE  /\ Marking(x, failed).search = x.search /\ Marking(x, failed).policy = x.policy
         /\ Marking(x, failed).results = x.results
  BY DEF Marking, WorkFields

LEMMA SettledBounded ==
  ASSUME NEW p, NEW w, WorkTyped(w), NEW r, r.status \in Statuses, NEW u,
         u.results = [w.results EXCEPT ![w.strategy] = r], u.policy = w.policy,
         u.search \in Searches, Bounded(w, p)
  PROVE  Bounded(u, p)
  <1>1. DOMAIN w.results = Strategies
    BY DEF WorkTyped
  <1>2. \A t \in Strategies : u.results[t] = r \/ u.results[t] = w.results[t]
    BY <1>1
  <1>. QED  BY <1>2 DEF Bounded

-----------------------------------------------------------------------------
(***************************************************************************)
(* What a comparison concludes stays within its bounds.                    *)
(***************************************************************************)
LEMMA MeasureBounded ==
  ASSUME NEW s, NEW w, WorkTyped(w), NEW passed \in BOOLEAN, NEW failed \in BOOLEAN,
         NEW buffer \in 0..MaxBufferBps \cup {NoAmount}, NEW q, Bounded(w, q)
  PROVE  Bounded(Marking(AfterMeasure(s, w, passed, buffer), failed), q)
  <1>. DEFINE p == IF s \in RaisesBuffer /\ passed THEN RaisedPolicy(w.policy, buffer) ELSE w.policy
              x == [w EXCEPT !.stage = "assess", !.policy = p]
              u == Marking(x, failed)
  <1>1. DOMAIN w = WorkFields /\ w.policy \in RiskPolicySet /\ w.glitched \in BOOLEAN
    BY DEF WorkTyped
  <1>2. p.minBuffer = w.policy.minBuffer \/ p.minBuffer \in 1..(MaxBufferBps + 1)
    BY <1>1, RaisedBounded
  <1>3. AfterMeasure(s, w, passed, buffer) = x
    BY DEF AfterMeasure
  <1>. HIDE DEF p
  <1>4. /\ DOMAIN x = WorkFields /\ x.glitched \in BOOLEAN
        /\ x.policy = p /\ x.search = w.search /\ x.results = w.results
    BY <1>1 DEF WorkFields
  <1>. HIDE DEF x
  <1>5. u.policy = p /\ u.search = w.search /\ u.results = w.results
    BY <1>4, MarkedBounds
  <1>. HIDE DEF u
  <1>6. Bounded(u, q)
    BY <1>2, <1>5 DEF Bounded
  <1>. QED  BY <1>3, <1>6 DEF u

LEMMA ConfirmBounded ==
  ASSUME NEW s, NEW w, WorkTyped(w), NEW passed \in BOOLEAN, NEW failed \in BOOLEAN,
         TargetBound(s) \in Int, MaxProbes[s] \in Nat, NEW q, Bounded(w, q)
  PROVE  Bounded(Marking(AfterConfirm(s, w, passed), failed), q)
  <1>. DEFINE r == Result("NOT_REQUIRED", 0, TargetBound(s))
              k == StartSearch(1, TargetBound(s), MaxProbes[s])
              x == AfterConfirm(s, w, passed)
              u == Marking(x, failed)
  <1>1. DOMAIN w = WorkFields /\ w.glitched \in BOOLEAN
    BY DEF WorkTyped
  <1>2. CASE passed
    <2>1. x = Settle(w, r)
      BY <1>2 DEF AfterConfirm
    <2>2. r.status \in Statuses
      BY DEF Result, Statuses
    <2>. HIDE DEF r, x
    <2>3. /\ Agree(u, w, {"results", "strategy", "stage", "outcome", "glitched"})
          /\ u.results = [w.results EXCEPT ![w.strategy] = r]
      BY <2>1, SettledAgree
    <2>. HIDE DEF u
    <2>4. u.search = w.search /\ u.policy = w.policy
      BY <2>3 DEF Agree, WorkFields
    <2>5. u.search \in Searches
      BY <2>4 DEF Bounded
    <2>6. Bounded(u, q)
      BY <2>2, <2>3, <2>4, <2>5, SettledBounded
    <2>. QED  BY <2>6 DEF u, x
  <1>3. CASE ~passed
    <2>1. x = [w EXCEPT !.stage = "snapshot", !.purpose = "branch", !.verified = {},
                        !.search = k]
      BY <1>3 DEF AfterConfirm
    <2>2. k \in Searches
      BY SearchTyped
    <2>. HIDE DEF k, x
    <2>3. /\ DOMAIN x = WorkFields /\ x.glitched \in BOOLEAN
          /\ x.search = k /\ x.policy = w.policy /\ x.results = w.results
      BY <1>1, <2>1 DEF WorkFields
    <2>4. u.search = k /\ u.policy = w.policy /\ u.results = w.results
      BY <2>3, MarkedBounds
    <2>. HIDE DEF u
    <2>5. Bounded(u, q)
      BY <2>2, <2>4 DEF Bounded
    <2>. QED  BY <2>5 DEF u, x
  <1>. QED  BY <1>2, <1>3

LEMMA BranchBounded ==
  ASSUME NEW s, NEW w, WorkTyped(w), NEW passed \in BOOLEAN, NEW failed \in BOOLEAN,
         NEW q, Bounded(w, q)
  PROVE  Bounded(Marking(AfterBranch(s, w, passed), failed), q)
  <1>. DEFINE v == IF passed THEN w.verified \cup {Amount(s)} ELSE w.verified
              k == Probe(w.search, passed)
              y == [w EXCEPT !.verified = v, !.search = k]
              z == [y EXCEPT !.stage = "snapshot"]
              x == AfterBranch(s, w, passed)
              u == Marking(x, failed)
  <1>1. DOMAIN w = WorkFields /\ w.glitched \in BOOLEAN
    BY DEF WorkTyped
  <1>2. \/ \E amount, complete : x = Settle(y, FinalizeResult(y, amount, complete, TargetBound(s)))
        \/ x = z
    BY DEF AfterBranch
  <1>3. k \in Searches
    BY ProbeTyped DEF Bounded
  <1>. HIDE DEF k, v, x
  <1>4. /\ DOMAIN y = WorkFields /\ \A f \in WorkFields \ {"verified", "search"} : y[f] = w[f]
    BY <1>1 DEF WorkFields
  <1>5. y.search = k
    BY <1>1 DEF WorkFields
  <1>. HIDE DEF y
  <1>6. WorkTyped(y)
    BY <1>4 DEF WorkTyped, WorkFields
  <1>7. Bounded(y, q)
    BY <1>3, <1>4, <1>5 DEF Bounded, WorkFields
  <1>8. ASSUME NEW r, r.status \in Statuses, x = Settle(y, r) PROVE Bounded(u, q)
    <2>1. /\ Agree(u, y, {"results", "strategy", "stage", "outcome", "glitched"})
          /\ u.results = [y.results EXCEPT ![y.strategy] = r]
      BY <1>6, <1>8, SettledAgree
    <2>. HIDE DEF u
    <2>2. u.search = k /\ u.policy = y.policy
      BY <1>5, <2>1 DEF Agree, WorkFields
    <2>. QED  BY <1>3, <1>6, <1>7, <1>8, <2>1, <2>2, SettledBounded
  <1>9. ASSUME x = z PROVE Bounded(u, q)
    <2>1. /\ DOMAIN x = WorkFields /\ x.glitched \in BOOLEAN /\ x.search = y.search
          /\ x.policy = y.policy /\ x.results = y.results
      BY <1>6, <1>9 DEF WorkTyped, WorkFields
    <2>2. u.search = y.search /\ u.policy = y.policy /\ u.results = y.results
      BY <2>1, MarkedBounds
    <2>. HIDE DEF u
    <2>. QED  BY <1>7, <2>2, SameBounds
  <1>. QED  BY <1>2, <1>8, <1>9, ResultStatus DEF u, x

-----------------------------------------------------------------------------
(***************************************************************************)
(* Snapshots.  A comparison that runs a branch holds the snapshot it took, *)
(* and each snapshot on an Anvil that serves is held by some session: so   *)
(* there are never more than there are sessions.                           *)
(***************************************************************************)
Holds(w) == w.task = "compare" /\ w.stage \in {"calls", "change", "judge"}
HoldsAt(t, c, k) ==
    Holds(work[t]) /\ fork[t].port = anvil[c].port /\ work[t].snapshot = k

SnapshotsHeld ==
    \A c \in Children : anvil[c].st = "serving" =>
        \A k \in 1..Len(node[c].snapshots) : \E t \in Sessions : HoldsAt(t, c, k)

SnapshotsFew == \A c \in Children : Len(node[c].snapshots) <= Cardinality(Sessions)

(* Two children never serve one port.                                      *)
OneServes ==
    \A c, d \in Children :
        /\ anvil[c].st = "serving" /\ anvil[d].st = "serving" /\ anvil[c].port = anvil[d].port
        => c = d

HoldersReady == \A s \in Sessions : Holds(work[s]) => fork[s].pc \in {"ready", "gone"}

SnapshotsInv == SnapshotsHeld /\ SnapshotsFew /\ OneServes /\ HoldersReady

(* What the steps of the forks leave alone: a session that is ready keeps  *)
(* its port until it stops, and no child comes up but by binding its port. *)
Remains(t) ==
    fork[t].pc \in {"ready", "gone"} =>
        fork'[t].pc \in {"ready", "gone"} /\ fork'[t].port = fork[t].port

StaysUp(c) ==
    anvil'[c].st = "serving" => anvil[c].st = "serving" /\ anvil'[c].port = anvil[c].port

LEMMA ChildPorts ==
  ASSUME ForksInv, NEW c, NEW d \in Children
  PROVE  /\ Signalled(c)[d].st = anvil[d].st /\ Signalled(c)[d].port = anvil[d].port
         /\ Gone(c)[d] = anvil[d] \/ Gone(c)[d].st = "none"
         /\ Released(c)[d] = anvil[d] \/ Released(c)[d].st = "none"
         /\ LET a == [anvil EXCEPT ![c] = Crashed(anvil[c])]
            IN  a[d] = anvil[d] \/ a[d].st = "none"
  <1>1. anvil \in [Children -> ChildRecords] /\ anvil[d] \in ChildRecords
    BY Typed DEF ForksInv, ForksTypeOK
  <1>2. /\ Warned(anvil[d]).st = anvil[d].st /\ Warned(anvil[d]).port = anvil[d].port
        /\ Dead(anvil[d]).st = "none" /\ Crashed(anvil[d]).st = "none"
    BY <1>1, WarnedChild, DeadChild, CrashedChild
  <1>. QED  BY <1>1, <1>2, NothingYet DEF Signalled, Gone, Released

LEMMA SessionForks ==
  ASSUME ForksInv, NEW s \in Sessions,
         Check(s) \/ Healthy(s) \/ Unhealthy(s) \/ Stopped(s) \/ StartFails(s) \/ Stop(s)
  PROVE  /\ \A c \in Children : StaysUp(c)
         /\ \A t \in Sessions : t # s \/ ~Stop(s) => Remains(t)
  <1>1. /\ fork \in [Sessions -> ForkRecords]
        /\ \A t \in Sessions : t # s => \A pc : SetPc(s, pc)[t] = fork[t]
        /\ \A pc : SetPc(s, pc)[s].port = fork[s].port /\ SetPc(s, pc)[s].pc = pc
    BY DEF SetPc, ForksInv, ForksTypeOK
  <1>2. \/ anvil' = anvil
        \/ \E c : anvil' = Signalled(c) \/ anvil' = Released(c)
    BY DEF Check, Healthy, Unhealthy, Stopped, StartFails, Stop
  <1>3. \A c \in Children : StaysUp(c)
    BY <1>2, ChildPorts DEF StaysUp
  <1>4. \A t \in Sessions : t # s => fork'[t] = fork[t]
    BY <1>1 DEF Check, Healthy, Unhealthy, Stopped, StartFails, Stop
  <1>5. ~Stop(s) => Remains(s)
    <2>1. CASE Check(s)
      BY <1>1, <2>1 DEF Check, Remains
    <2>2. CASE Healthy(s)
      BY <1>1, <2>2 DEF Healthy, Remains
    <2>3. CASE Unhealthy(s)
      BY <1>1, <2>3 DEF Unhealthy, Remains
    <2>4. CASE Stopped(s) \/ StartFails(s)
      BY <2>4 DEF Stopped, StartFails, Remains
    <2>. QED  BY <2>1, <2>2, <2>3, <2>4
  <1>. QED  BY <1>3, <1>4, <1>5 DEF Remains

LEMMA SpawnForks ==
  ASSUME ForksInv, NEW s \in Sessions, NEW pin, Spawn(s, pin)
  PROVE  /\ \A c \in Children : StaysUp(c)
         /\ \A t \in Sessions : Remains(t)
  <1>1. PICK c \in Children, p \in Ports :
          /\ anvil' = [d \in Children |->
              IF d = c THEN [st |-> "booting", port |-> p, pin |-> pin, term |-> FALSE,
                             raced |-> \E e \in Children : Booting(e, p),
                             crashed |-> FALSE]
              ELSE IF Booting(d, p) THEN Raced(anvil[d]) ELSE anvil[d]]
          /\ fork' = [fork EXCEPT ![s] = [pc |-> "starting", child |-> c,
                                        port |-> p, pin |-> pin]]
          /\ fork[s].pc = "none"
    BY DEF Spawn
  <1>2. \A t \in Sessions : t # s => fork'[t] = fork[t]
    BY <1>1 DEF ForksInv, ForksTypeOK
  <1>3. anvil'[c].st = "booting" /\ \A d \in Children : d # c => StaysUp(d)
    BY <1>1, Typed, RacedChild DEF ForksInv, StaysUp
  <1>4. StaysUp(c)
    BY <1>3 DEF StaysUp
  <1>. QED  BY <1>1, <1>2, <1>3, <1>4 DEF Remains

LEMMA ChildForks ==
  ASSUME ForksInv, NEW c \in Children, Exit(c) \/ Crash(c) \/ SweepKills(c)
  PROVE  /\ \A d \in Children : StaysUp(d)
         /\ \A t \in Sessions : Remains(t)
  <1>1. /\ fork' = fork
        /\ anvil' = Gone(c) \/ anvil' = [anvil EXCEPT ![c] = Crashed(anvil[c])]
    BY DEF Exit, Crash, SweepKills
  <1>2. ASSUME NEW d \in Children
        PROVE  anvil'[d] = anvil[d] \/ anvil'[d].st = "none"
    <2>1. Gone(c)[d] = anvil[d] \/ Gone(c)[d].st = "none"
      BY ChildPorts
    <2>2. [anvil EXCEPT ![c] = Crashed(anvil[c])][d] = anvil[d]
          \/ [anvil EXCEPT ![c] = Crashed(anvil[c])][d].st = "none"
      BY ChildPorts
    <2>. QED  BY <1>1, <2>1, <2>2
  <1>3. \A d \in Children : StaysUp(d)
    BY <1>2 DEF StaysUp
  <1>. QED  BY <1>1, <1>3 DEF Remains

LEMMA ShutdownForks ==
  ASSUME ForksInv, Terminate \/ Sweep \/ ExitProcess
  PROVE  /\ \A c \in Children : StaysUp(c)
         /\ \A t \in Sessions : Remains(t)
  <1>1. CASE Terminate
    BY <1>1 DEF Terminate, StaysUp, Remains
  <1>2. CASE Sweep
    <2>1. \A c \in Children : anvil'[c].st = anvil[c].st /\ anvil'[c].port = anvil[c].port
      BY <1>2, Typed, WarnedChild DEF ForksInv, Sweep
    <2>. QED  BY <1>2, <2>1 DEF Sweep, StaysUp, Remains
  <1>3. CASE ExitProcess
    BY <1>3 DEF ExitProcess, StaysUp, Remains
  <1>. QED  BY <1>1, <1>2, <1>3

LEMMA SameForkState ==
  ASSUME UNCHANGED forkVars
  PROVE  /\ \A c \in Children : StaysUp(c)
         /\ \A t \in Sessions : Remains(t)
  BY DEF forkVars, StaysUp, Remains

-----------------------------------------------------------------------------
(***************************************************************************)
(* One session goes on, s: what it does to the snapshots of the Anvils, to *)
(* the bounds of its own record, and to nothing else.                      *)
(***************************************************************************)
SameSnapshots == \A c \in Children : node'[c].snapshots = node[c].snapshots

Pushes(s, c) ==
    /\ node'[c].snapshots = Append(node[c].snapshots, node[c].holdings)
    /\ ~Holds(work[s]) /\ Holds(work'[s])
    /\ work'[s].snapshot = Len(node[c].snapshots) + 1

Lifo(s) ==
    \/ /\ SameSnapshots
       /\ \/ \A c \in Children : ~Answers(s, c)
          \/ ~Holds(work[s])
          \/ Holds(work'[s]) /\ work'[s].snapshot = work[s].snapshot
       /\ Holds(work'[s]) => Holds(work[s])
    \/ \E c \in Children :
          /\ Answers(s, c) /\ anvil' = anvil /\ fork[s].pc = "ready"
          /\ \A d \in Children : d # c => node'[d] = node[d]
          /\ \/ ~Holds(work'[s]) /\ node'[c] = Revert(node[c], work[s].snapshot)
             \/ Pushes(s, c)

Goes(s) ==
    /\ \A t \in Sessions : t # s => work'[t] = work[t]
    /\ setting' = setting /\ mixed' \subseteq mixed \cup Sessions
    /\ Bounded(work[s], setting.policy[s]) => Bounded(work'[s], setting.policy[s])
    /\ Lifo(s)

LEMMA StepGoes ==
  ASSUME NEW s \in Sessions, NEW c \in Children, StepOn(s, c)
  PROVE  /\ setting' = setting /\ mixed' \subseteq mixed \cup Sessions
         /\ Answers(s, c) /\ anvil' = anvil /\ fork' = fork
  BY DEF StepOn, forkVars

LEMMA NothingHeld ==
  ASSUME NEW s, SameSnapshots, ~Holds(work[s]), ~Holds(work'[s])
  PROVE  Lifo(s)
  BY DEF Lifo

LEMMA BeginGoes ==
  ASSUME Base, SessionsOK, NEW s \in Sessions, Begin(s)
  PROVE  Goes(s)
  <1>. DEFINE w == work[s]
  <1>1. PICK missing, stage : work' = [work EXCEPT ![s] =
             [w EXCEPT !.missing = missing, !.glitched = missing # AllRead, !.stage = stage]]
             /\ stage = CASE w.task = "compare" -> "snapshot"
                          [] w.task = "replay"  -> "change"
                          [] w.task = "dryrun"  -> "calls"
    BY DEF Begin, Base
  <1>. DEFINE g == missing # AllRead
              u == [w EXCEPT !.missing = missing, !.glitched = g, !.stage = stage]
  <1>2. setting' = setting /\ mixed' = mixed /\ node' = node /\ w.stage = "open"
    BY DEF Begin
  <1>3. DOMAIN w = WorkFields
    BY SessionWork
  <1>4. w.task = "compare" => stage = "snapshot"
    BY <1>1
  <1>. HIDE DEF g
  <1>5. /\ u.search = w.search /\ u.policy = w.policy /\ u.results = w.results
        /\ u.task = w.task /\ u.stage = stage
    BY <1>3 DEF WorkFields
  <1>6. work' = [work EXCEPT ![s] = u]
    BY <1>1 DEF g
  <1>. HIDE DEF u
  <1>7. work'[s] = u /\ \A t \in Sessions : t # s => work'[t] = work[t]
    BY <1>6 DEF Base
  <1>8. Lifo(s)
    BY <1>2, <1>4, <1>5, <1>7, NothingHeld DEF Holds, SameSnapshots
  <1>. QED  BY <1>2, <1>5, <1>7, <1>8, SameBounds DEF Goes

LEMMA TakeSnapshotGoes ==
  ASSUME Base, SessionsOK, NEW s \in Sessions, TakeSnapshot(s)
  PROVE  Goes(s)
  <1>. DEFINE w == work[s]
              calls == IF w.purpose = "branch" THEN BranchPlan(s) ELSE <<>>
              stage == IF w.purpose = "branch" THEN "calls" ELSE "change"
  <1>1. PICK c \in Children :
          /\ StepOn(s, c)
          /\ node' = [node EXCEPT ![c].snapshots = Append(@, node[c].holdings)]
          /\ work' = [work EXCEPT ![s] =
                        [@ EXCEPT !.snapshot = Len(node[c].snapshots) + 1, !.ok = TRUE,
                                  !.calls = calls, !.stage = stage]]
    BY DEF TakeSnapshot
  <1>. DEFINE n == Len(node[c].snapshots) + 1
              u == [w EXCEPT !.snapshot = n, !.ok = TRUE, !.calls = calls, !.stage = stage]
  <1>2. work' = [work EXCEPT ![s] = u]
    BY <1>1 DEF Base
  <1>3. /\ DOMAIN w = WorkFields /\ w.stage = "snapshot" /\ fork[s].pc = "ready"
        /\ w.task = "compare"
    BY SessionWork DEF TakeSnapshot, At, Sound, Ordered
  <1>4. stage \in {"calls", "change"}
    OBVIOUS
  <1>5. /\ node'[c].snapshots = Append(node[c].snapshots, node[c].holdings)
        /\ \A d \in Children : d # c => node'[d] = node[d]
    BY <1>1 DEF Base, NodeRecords
  <1>. HIDE DEF calls, stage
  <1>6. /\ u.search = w.search /\ u.policy = w.policy /\ u.results = w.results
        /\ u.task = w.task /\ u.stage = stage /\ u.snapshot = n
    BY <1>3 DEF WorkFields
  <1>. HIDE DEF u
  <1>7. work'[s] = u /\ \A t \in Sessions : t # s => work'[t] = work[t]
    BY <1>2 DEF Base
  <1>8. Pushes(s, c)
    BY <1>3, <1>4, <1>5, <1>6, <1>7 DEF Pushes, Holds
  <1>9. Lifo(s)
    BY <1>1, <1>3, <1>5, <1>8, StepGoes DEF Lifo
  <1>. QED  BY <1>1, <1>6, <1>7, <1>9, SameBounds, StepGoes DEF Goes

(* A step on an Anvil that leaves its snapshots, and the one held, alone.  *)
LEMMA StaysGoes ==
  ASSUME Base, NEW s \in Sessions, NEW c \in Children, StepOn(s, c),
         NEW u, work' = [work EXCEPT ![s] = u], SameSnapshots,
         u.search = work[s].search, u.policy = work[s].policy, u.results = work[s].results,
         u.task = work[s].task, u.snapshot = work[s].snapshot,
         work[s].task = "compare" => work[s].stage \in {"calls", "change"},
         u.task = "compare" => u.stage \in {"calls", "change", "judge"}
  PROVE  Goes(s)
  <1>1. work'[s] = u /\ \A t \in Sessions : t # s => work'[t] = work[t]
    BY DEF Base
  <1>2. Holds(work'[s]) <=> Holds(work[s])
    BY <1>1 DEF Holds
  <1>3. Lifo(s)
    BY <1>1, <1>2 DEF Lifo
  <1>4. Bounded(work[s], setting.policy[s]) => Bounded(work'[s], setting.policy[s])
    BY <1>1, SameBounds
  <1>. QED  BY <1>1, <1>3, <1>4, StepGoes DEF Goes

LEMMA PlanCallGoes ==
  ASSUME Base, SessionsOK, NEW s \in Sessions, PlanCall(s)
  PROVE  Goes(s)
  <1>. DEFINE w == work[s]
              dry == w.task = "dryrun"
              rest == Tail(w.calls)
              call == Head(w.calls)
              made == [w EXCEPT !.calls = rest,
                             !.stage = IF rest # <<>> THEN "calls"
                                       ELSE IF dry THEN "close" ELSE "change",
                             !.outcome = IF rest = <<>> /\ dry THEN "ok" ELSE @]
              not == [w EXCEPT !.ok = FALSE,
                             !.stage = IF dry THEN "close" ELSE "judge",
                             !.outcome = IF dry THEN "rejected" ELSE @]
  <1>1. PICK c \in Children, lost \in BOOLEAN :
          /\ StepOn(s, c)
          /\ \/ /\ PreviewOk(node[c].holdings, Static, call)
                /\ node' = [node EXCEPT ![c].holdings = Execute(@, call)]
             \/ /\ ~(PreviewOk(node[c].holdings, Static, call) /\ ~lost)
                /\ node' = node
          /\ MayFail(s, lost, IF PreviewOk(node[c].holdings, Static, call) /\ ~lost
                              THEN made ELSE not)
    BY DEF PlanCall
  <1>2. /\ DOMAIN w = WorkFields /\ w.stage = "calls" /\ w.glitched \in BOOLEAN
    BY SessionWork DEF PlanCall, At
  <1>3. SameSnapshots
    BY <1>1 DEF SameSnapshots, Base, NodeRecords
  <1>. DEFINE played == PreviewOk(node[c].holdings, Static, call) /\ ~lost
              z == IF played THEN made ELSE not
  <1>10. work' = [work EXCEPT ![s] = Marking(z, lost)]
    BY <1>1, Marks
  <1>4. PICK x : x \in {made, not} /\ work' = [work EXCEPT ![s] = Marking(x, lost)]
    <2>. HIDE DEF made, not, played
    <2>1. z \in {made, not}
      OBVIOUS
    <2>. HIDE DEF z
    <2>. QED  BY <1>10, <2>1
  <1>5. /\ \A f \in {"search", "policy", "results", "task", "snapshot"} :
              made[f] = w[f] /\ not[f] = w[f]
        /\ DOMAIN made = WorkFields /\ DOMAIN not = WorkFields
        /\ w.task = "compare" => made.stage \in {"calls", "change"} /\ not.stage = "judge"
    BY <1>2 DEF WorkFields
  <1>. HIDE DEF made, not
  <1>6. /\ DOMAIN x = WorkFields /\ x.search = w.search /\ x.policy = w.policy
        /\ x.results = w.results /\ x.task = w.task /\ x.snapshot = w.snapshot
        /\ w.task = "compare" => x.stage \in {"calls", "change", "judge"}
    BY <1>4, <1>5
  <1>. DEFINE u == Marking(x, lost)
  <1>7. u.search = x.search /\ u.policy = x.policy /\ u.results = x.results
    BY <1>6, MarkedBounds
  <1>8. u.task = x.task /\ u.snapshot = x.snapshot /\ u.stage = x.stage
    BY <1>6 DEF Marking, WorkFields
  <1>9. StepOn(s, c) /\ work' = [work EXCEPT ![s] = u]
    BY <1>1, <1>4
  <1>. HIDE DEF u
  <1>. QED  BY <1>2, <1>3, <1>6, <1>7, <1>8, <1>9, StaysGoes

LEMMA ReplayChangeGoes ==
  ASSUME Base, SessionsOK, NEW s \in Sessions, ReplayChange(s)
  PROVE  Goes(s)
  <1>. DEFINE w == work[s]
              x(lost) == [w EXCEPT
                            !.ok = ~lost,
                            !.stage = IF lost /\ w.task = "replay" THEN "close" ELSE "judge",
                            !.outcome = IF lost /\ w.task = "replay" THEN "error" ELSE @]
  <1>1. PICK c \in Children, lost \in BOOLEAN :
          /\ StepOn(s, c)
          /\ \/ node' = [node EXCEPT ![c].holdings = ApplyChange(@, Static)]
             \/ lost /\ node' = node
          /\ MayFail(s, lost, x(lost))
    BY DEF ReplayChange
  <1>2. /\ DOMAIN w = WorkFields /\ w.stage = "change" /\ w.glitched \in BOOLEAN
    BY SessionWork DEF ReplayChange, At
  <1>3. SameSnapshots
    BY <1>1 DEF SameSnapshots, Base, NodeRecords
  <1>. DEFINE y == x(lost)
              u == Marking(y, lost)
  <1>4. work' = [work EXCEPT ![s] = u]
    BY <1>1, Marks
  <1>5. /\ DOMAIN y = WorkFields /\ y.search = w.search /\ y.policy = w.policy
        /\ y.results = w.results /\ y.task = w.task /\ y.snapshot = w.snapshot
        /\ w.task = "compare" => y.stage = "judge"
    BY <1>2 DEF WorkFields
  <1>. HIDE DEF y
  <1>6. u.search = y.search /\ u.policy = y.policy /\ u.results = y.results
    BY <1>5, MarkedBounds
  <1>7. u.task = y.task /\ u.snapshot = y.snapshot /\ u.stage = y.stage
    BY <1>5 DEF Marking, WorkFields
  <1>8. StepOn(s, c)
    BY <1>1
  <1>. HIDE DEF u
  <1>. QED  BY <1>2, <1>3, <1>4, <1>5, <1>6, <1>7, <1>8, StaysGoes

LEMMA ReceiptGoes ==
  ASSUME Base, SessionsOK, NEW s \in Sessions, Receipt(s)
  PROVE  Goes(s)
  <1>0. PICK c \in Children : \E r :
          /\ StepOn(s, c)
          /\ work' = [work EXCEPT ![s] =
                        [@ EXCEPT !.stage = "close", !.outcome = "ok", !.receipt = r]]
          /\ node' = node
    BY DEF Receipt
  <1>1. PICK r :
          /\ StepOn(s, c)
          /\ work' = [work EXCEPT ![s] =
                        [@ EXCEPT !.stage = "close", !.outcome = "ok", !.receipt = r]]
          /\ node' = node
    BY <1>0
  <1>. DEFINE u == [work[s] EXCEPT !.stage = "close", !.outcome = "ok", !.receipt = r]
  <1>2. work' = [work EXCEPT ![s] = u] /\ DOMAIN work[s] = WorkFields /\ work[s].task = "replay"
    BY <1>1, SessionWork DEF Base, Receipt
  <1>3. /\ u.search = work[s].search /\ u.policy = work[s].policy /\ u.results = work[s].results
        /\ u.task = work[s].task /\ u.snapshot = work[s].snapshot
    BY <1>2 DEF WorkFields
  <1>4. SameSnapshots /\ StepOn(s, c)
    BY <1>1 DEF SameSnapshots
  <1>. HIDE DEF u
  <1>. QED  BY <1>2, <1>3, <1>4, StaysGoes

(* A session that holds no snapshot before and after, and does not work on *)
(* an Anvil.                                                               *)
LEMMA ApartGoes ==
  ASSUME Base, NEW s \in Sessions, NEW u, work' = [work EXCEPT ![s] = u],
         node' = node, setting' = setting, mixed' \subseteq mixed,
         ~Holds(work[s]), ~Holds(u),
         Bounded(work[s], setting.policy[s]) => Bounded(u, setting.policy[s])
  PROVE  Goes(s)
  <1>1. work'[s] = u /\ \A t \in Sessions : t # s => work'[t] = work[t]
    BY DEF Base
  <1>2. SameSnapshots
    BY DEF SameSnapshots
  <1>. QED  BY <1>1, <1>2, NothingHeld DEF Goes

LEMMA AssessGoes ==
  ASSUME Base, SessionsOK, NEW s \in Sessions, Assess(s)
  PROVE  Goes(s)
  <1>. DEFINE w == work[s]
              r == Result("INFEASIBLE", NoAmount, 0)
              next == [w EXCEPT !.stage = "snapshot", !.purpose = "confirm"]
  <1>1. /\ \/ work' = [work EXCEPT ![s] = Settle(w, r)]
           \/ work' = [work EXCEPT ![s] = next]
        /\ UNCHANGED <<forkVars, node, mixed, setting>>
    BY DEF Assess
  <1>2. WorkTyped(w) /\ DOMAIN w = WorkFields /\ w.stage = "assess"
    BY SessionWork DEF Assess, At, Sound
  <1>3. ~Holds(w)
    BY <1>2 DEF Holds
  <1>4. /\ Agree(Settle(w, r), w, {"results", "strategy", "stage", "outcome"})
        /\ Settle(w, r).results = [w.results EXCEPT ![w.strategy] = r]
        /\ Settle(w, r).stage \in {"assess", "close"}
    BY <1>2, SettleFields
  <1>5. r.status \in Statuses
    BY DEF Result, Statuses
  <1>6. CASE work' = [work EXCEPT ![s] = Settle(w, r)]
    <2>. DEFINE u == Settle(w, r)
    <2>. HIDE DEF u, r
    <2>1. u.search = w.search /\ u.policy = w.policy /\ ~Holds(u)
      BY <1>4 DEF u, Agree, WorkFields, Holds
    <2>2. Bounded(w, setting.policy[s]) => Bounded(u, setting.policy[s])
      <3>. SUFFICES ASSUME Bounded(w, setting.policy[s]) PROVE Bounded(u, setting.policy[s])
        OBVIOUS
      <3>1. u.search \in Searches
        BY <2>1 DEF Bounded
      <3>2. u.results = [w.results EXCEPT ![w.strategy] = r]
        BY <1>4 DEF u
      <3>. QED  BY <1>2, <1>5, <2>1, <3>1, <3>2, SettledBounded
    <2>3. work' = [work EXCEPT ![s] = u]
      BY <1>6 DEF u
    <2>. QED  BY <1>1, <1>3, <2>1, <2>2, <2>3, ApartGoes
  <1>7. CASE work' = [work EXCEPT ![s] = next]
    <2>1. /\ next.search = w.search /\ next.policy = w.policy /\ next.results = w.results
          /\ ~Holds(next)
      BY <1>2 DEF WorkFields, Holds
    <2>. HIDE DEF next
    <2>2. Bounded(w, setting.policy[s]) => Bounded(next, setting.policy[s])
      BY <2>1, SameBounds
    <2>. QED  BY <1>1, <1>3, <1>7, <2>1, <2>2, ApartGoes
  <1>. QED  BY <1>1, <1>6, <1>7

(* A branch ends: its snapshot is reverted, and held no more.              *)
LEMMA PopGoes ==
  ASSUME Base, NEW s \in Sessions, NEW c \in Children, StepOn(s, c), fork[s].pc = "ready",
         NEW u, work' = [work EXCEPT ![s] = u], node' = Reverted(s, c), ~Holds(u),
         Bounded(work[s], setting.policy[s]) => Bounded(u, setting.policy[s])
  PROVE  Goes(s)
  <1>1. work'[s] = u /\ \A t \in Sessions : t # s => work'[t] = work[t]
    BY DEF Base
  <1>2. /\ node'[c] = Revert(node[c], work[s].snapshot)
        /\ \A d \in Children : d # c => node'[d] = node[d]
    BY DEF Reverted, Base
  <1>3. Lifo(s)
    BY <1>1, <1>2, StepGoes DEF Lifo
  <1>. QED  BY <1>1, <1>3, StepGoes DEF Goes

LEMMA EndedBounds ==
  ASSUME NEW w, DOMAIN w = WorkFields, NEW stage \in {"close", "closed"}, NEW outcome
  PROVE  LET u == [w EXCEPT !.stage = stage, !.outcome = outcome]
             v == [w EXCEPT !.stage = stage]
         IN  /\ u.search = w.search /\ u.policy = w.policy /\ u.results = w.results /\ ~Holds(u)
             /\ v.search = w.search /\ v.policy = w.policy /\ v.results = w.results /\ ~Holds(v)
  BY DEF WorkFields, Holds

LEMMA ThrowGoes ==
  ASSUME Base, SessionsOK, NEW s \in Sessions, Throw(s)
  PROVE  Goes(s)
  <1>. DEFINE w == work[s]
              u == [w EXCEPT !.stage = "close", !.outcome = "error"]
  <1>1. work' = [work EXCEPT ![s] = u] /\ fork[s].pc = "ready" /\ DOMAIN w = WorkFields
    BY SessionWork DEF Throw, Base, At
  <1>2. u.search = w.search /\ u.policy = w.policy /\ u.results = w.results /\ ~Holds(u)
    BY <1>1, EndedBounds
  <1>. HIDE DEF u
  <1>3. Bounded(w, setting.policy[s]) => Bounded(u, setting.policy[s])
    BY <1>2, SameBounds
  <1>4. CASE (\A c \in Children : ~Answers(s, c)) /\ UNCHANGED <<forkVars, node, mixed, setting>>
    <2>1. work'[s] = u /\ \A t \in Sessions : t # s => work'[t] = work[t]
      BY <1>1 DEF Base
    <2>2. Lifo(s)
      BY <1>2, <1>4, <2>1 DEF Lifo, SameSnapshots
    <2>. QED  BY <1>3, <1>4, <2>1, <2>2 DEF Goes
  <1>5. ASSUME NEW c \in Children, StepOn(s, c),
               node' = IF w.stage \in {"calls", "change", "judge"} THEN Reverted(s, c) ELSE node
        PROVE  Goes(s)
    <2>1. CASE w.stage \in {"calls", "change", "judge"}
      BY <1>1, <1>2, <1>3, <1>5, <2>1, PopGoes
    <2>2. CASE w.stage \notin {"calls", "change", "judge"}
      <3>1. node' = node /\ ~Holds(w)
        BY <1>5, <2>2 DEF Holds
      <3>2. work'[s] = u /\ \A t \in Sessions : t # s => work'[t] = work[t]
        BY <1>1 DEF Base
      <3>3. Lifo(s)
        BY <1>2, <3>1, <3>2 DEF Lifo, SameSnapshots
      <3>. QED  BY <1>3, <1>5, <3>2, <3>3, StepGoes DEF Goes
    <2>. QED  BY <2>1, <2>2
  <1>. QED  BY <1>4, <1>5 DEF Throw

LEMMA JudgeGoes ==
  ASSUME Base, SessionsOK, NEW s \in Sessions, Judge(s)
  PROVE  Goes(s)
  <1>. DEFINE w == work[s]
  <1>0. PICK c \in Children, missing \in PositionsUnread :
             LET risk   == ReadRisk(node[c].holdings, Static, missing)
                 passed == BranchPasses(w, risk)
             IN  /\ StepOn(s, c)
                 /\ node' = Reverted(s, c)
                 /\ MayFail(s, missing # AllRead,
                      CASE w.purpose = "measure" -> AfterMeasure(s, w, passed, risk.buffer)
                        [] w.purpose = "confirm" -> AfterConfirm(s, w, passed)
                        [] w.purpose = "branch"  -> AfterBranch(s, w, passed))
    BY DEF Judge
  <1>. DEFINE risk == ReadRisk(node[c].holdings, Static, missing)
              passed == BranchPasses(w, risk)
              failed == missing # AllRead
              x == CASE w.purpose = "measure" -> AfterMeasure(s, w, passed, risk.buffer)
                     [] w.purpose = "confirm" -> AfterConfirm(s, w, passed)
                     [] w.purpose = "branch"  -> AfterBranch(s, w, passed)
              u == Marking(x, failed)
  <1>1. StepOn(s, c) /\ node' = Reverted(s, c) /\ MayFail(s, failed, x)
    BY <1>0
  <1>2. work' = [work EXCEPT ![s] = u]
    BY <1>1, Marks
  <1>3. fork[s].pc = "ready" /\ w.task = "compare" /\ w.stage = "judge" /\ Sound(Pinned, Static, w)
    BY SessionWork DEF Judge, At
  <1>4. WorkTyped(w) /\ w.purpose \in {"measure", "confirm", "branch"}
    BY <1>3 DEF Sound, WorkTyped, Purposes
  <1>5. risk.buffer \in 0..MaxBufferBps \cup {NoAmount}
    BY BufferCapped, SettingFacts DEF Base, NodeRecords
  <1>6. passed \in BOOLEAN /\ failed \in BOOLEAN
    BY <1>4 DEF BranchPasses, PolicyPasses, WorkTyped
  <1>7. /\ w.purpose = "measure" => x = AfterMeasure(s, w, passed, risk.buffer)
        /\ w.purpose = "confirm" => x = AfterConfirm(s, w, passed)
        /\ w.purpose = "branch" => x = AfterBranch(s, w, passed)
    OBVIOUS
  <1>. DEFINE p == setting.policy[s]
              Done(y) == /\ y.stage \in {"assess", "close", "snapshot"}
                         /\ Bounded(w, p) => Bounded(y, p)
  <1>8. ASSUME w.purpose = "measure" PROVE Done(u)
    <2>. DEFINE y == Marking(AfterMeasure(s, w, passed, risk.buffer), failed)
    <2>. HIDE DEF risk, passed, failed, x
    <2>1. u = y
      BY <1>7, <1>8
    <2>2. risk.buffer \in Nat \cup {NoAmount}
      BY <1>5, MarketsAssumption
    <2>3. y.stage = "assess"
      BY <1>3, <1>6, <1>8, <2>2, MeasureEnds
    <2>4. Bounded(w, p) => Bounded(y, p)
      BY <1>4, <1>5, <1>6, MeasureBounded
    <2>. HIDE DEF y, u, w, p
    <2>. QED  BY <2>1, <2>3, <2>4
  <1>9. ASSUME w.purpose = "confirm" PROVE Done(u)
    <2>. DEFINE y == Marking(AfterConfirm(s, w, passed), failed)
    <2>. HIDE DEF risk, passed, failed, x
    <2>1. u = y
      BY <1>7, <1>9
    <2>2. TargetBound(s) \in Int /\ MaxProbes[s] \in Nat
      <3>1. Feasible(Pinned, Static, w.policy, w.strategy, w.missing) # {}
        BY <1>3, <1>9 DEF Sound, Aimed, OnFork
      <3>2. BoundFor(Pinned, Static, w) \in Nat
        BY <1>4, <3>1, TargetFacts, SettingFacts DEF Base
      <3>. QED  BY <3>2, OwnTarget, SearchAssumption
    <2>3. y.stage \in {"assess", "close", "snapshot"}
      BY <1>3, <1>6, <1>9, ConfirmEnds
    <2>4. Bounded(w, p) => Bounded(y, p)
      BY <1>4, <1>6, <2>2, ConfirmBounded
    <2>. HIDE DEF y, u, w, p
    <2>. QED  BY <2>1, <2>3, <2>4
  <1>10. ASSUME w.purpose = "branch" PROVE Done(u)
    <2>. DEFINE y == Marking(AfterBranch(s, w, passed), failed)
    <2>. HIDE DEF risk, passed, failed, x
    <2>1. u = y
      BY <1>7, <1>10
    <2>3. y.stage \in {"assess", "close", "snapshot"}
      BY <1>3, <1>6, <1>10, BranchEnds
    <2>4. Bounded(w, p) => Bounded(y, p)
      BY <1>4, <1>6, BranchBounded
    <2>. HIDE DEF y, u, w, p
    <2>. QED  BY <2>1, <2>3, <2>4
  <1>11. Done(u)
    BY <1>4, <1>8, <1>9, <1>10
  <1>. HIDE DEF x, passed, failed, risk, u
  <1>12. ~Holds(u)
    BY <1>11 DEF Holds
  <1>. QED  BY <1>1, <1>2, <1>3, <1>11, <1>12, PopGoes

(* A session that ends.                                                    *)
LEMMA ClosedGoes ==
  ASSUME Base, SessionsOK, HoldersReady, NEW s \in Sessions, Close(s) \/ OpenFails(s)
  PROVE  Goes(s) /\ work'[s].stage = "closed"
  <1>. DEFINE w == work[s]
  <1>1. DOMAIN w = WorkFields
    BY SessionWork
  <1>2. /\ \/ work' = [work EXCEPT ![s] = [w EXCEPT !.stage = "closed"]]
           \/ work' = [work EXCEPT ![s] = [w EXCEPT !.stage = "closed", !.outcome = "error"]]
        /\ UNCHANGED <<node, mixed, setting>>
    BY DEF Close, OpenFails, Finished, Base
  <1>3. ~Holds(w)
    BY DEF Close, OpenFails, StartFails, Holds, HoldersReady
  <1>. DEFINE LeavesOff(u) == /\ u.search = w.search /\ u.policy = w.policy
                          /\ u.results = w.results /\ ~Holds(u) /\ u.stage = "closed"
  <1>8. LeavesOff([w EXCEPT !.stage = "closed"])
    BY <1>1, EndedBounds DEF WorkFields
  <1>9. LeavesOff([w EXCEPT !.stage = "closed", !.outcome = "error"])
    BY <1>1, EndedBounds DEF WorkFields
  <1>4. PICK u : LeavesOff(u) /\ work' = [work EXCEPT ![s] = u]
    <2>. HIDE DEF LeavesOff
    <2>. QED  BY <1>2, <1>8, <1>9
  <1>5. LeavesOff(u)
    BY <1>4
  <1>6. Bounded(w, setting.policy[s]) => Bounded(u, setting.policy[s])
    BY <1>5, SameBounds
  <1>7. work'[s] = u
    BY <1>4 DEF Base
  <1>. QED  BY <1>2, <1>3, <1>4, <1>5, <1>6, <1>7, ApartGoes

LEMMA WorkingGoes ==
  ASSUME Base, SessionsOK, HoldersReady, NEW s \in Sessions, Working(s)
  PROVE  Goes(s)
  BY BeginGoes, TakeSnapshotGoes, PlanCallGoes, ReplayChangeGoes, AssessGoes, JudgeGoes,
     ReceiptGoes, ThrowGoes, ClosedGoes DEF Working

(* A session that opens a fork, or forgets one.                            *)
LEMMA OpenGoes ==
  ASSUME Base, NEW s \in Sessions, NEW task, NEW pin, NEW calls, Open(s, task, pin, calls)
  PROVE  Goes(s)
  <1>. DEFINE x == NoWork(s)
              u == [x EXCEPT !.task = task, !.stage = "open", !.calls = calls]
  <1>1. /\ work' = [work EXCEPT ![s] = u] /\ ~Holds(work[s]) /\ UNCHANGED <<node, setting>>
        /\ mixed' \subseteq mixed
    BY DEF Open, Holds
  <1>2. Blank(x, setting.policy[s], "none", "idle", <<>>)
    BY NoWorkIsBlank
  <1>3. Bounded(x, setting.policy[s])
    BY BlankBounded
  <1>. HIDE DEF x
  <1>4. u.search = x.search /\ u.policy = x.policy /\ u.results = x.results /\ ~Holds(u)
    BY <1>2 DEF Blank, WorkFields, Holds
  <1>. HIDE DEF u
  <1>5. Bounded(u, setting.policy[s])
    BY <1>3, <1>4, SameBounds
  <1>. QED  BY <1>1, <1>4, <1>5, ApartGoes

LEMMA ForgetGoes ==
  ASSUME Base, NEW s \in Sessions, work' = [work EXCEPT ![s] = NoWork(s)],
         work[s].stage = "closed", UNCHANGED <<node, mixed, setting>>
  PROVE  Goes(s)
  <1>. DEFINE x == NoWork(s)
  <1>1. x.stage = "idle"
    BY NoWorkIsBlank DEF Blank
  <1>2. Bounded(x, setting.policy[s])
    BY BlankBounded
  <1>. HIDE DEF x
  <1>3. ~Holds(work[s]) /\ ~Holds(x)
    BY <1>1 DEF Holds
  <1>4. work' = [work EXCEPT ![s] = x]
    BY DEF x
  <1>. QED  BY <1>2, <1>3, <1>4, ApartGoes

LEMMA IdleGoes ==
  ASSUME NEW s \in Sessions, UNCHANGED <<node, work, mixed, setting>>
  PROVE  Goes(s)
  BY DEF Goes, Lifo, SameSnapshots

-----------------------------------------------------------------------------
(***************************************************************************)
(* Every step of the desk is a step of one session, or of none.            *)
(***************************************************************************)
ForksMove ==
    /\ \A c \in Children : StaysUp(c)
    /\ \A t \in Sessions : Remains(t) \/ work'[t].stage = "closed"

LEMMA ForkStepsGo ==
  ASSUME Base, SessionsOK, HoldersReady, NEW s \in Sessions, ForkSteps(s)
  PROVE  Goes(s) /\ ForksMove
  <1>0. ForksInv
    BY DEF Base
  <1>1. CASE (Check(s) \/ Healthy(s) \/ Unhealthy(s) \/ Stopped(s)) /\ Still
    <2>1. ~Stop(s)
      BY <1>1 DEF Check, Healthy, Unhealthy, Stopped, Stop
    <2>2. ForksMove
      BY <1>0, <1>1, <2>1, SessionForks DEF ForksMove
    <2>3. Goes(s)
      BY <1>1, IdleGoes DEF Still
    <2>. QED  BY <2>2, <2>3
  <1>2. CASE OpenFails(s)
    <2>1. StartFails(s) /\ ~Stop(s)
      BY <1>2 DEF OpenFails, StartFails, Stop
    <2>2. ForksMove
      BY <1>0, <2>1, SessionForks DEF ForksMove
    <2>. QED  BY <1>2, <2>2, ClosedGoes
  <1>3. CASE Close(s)
    <2>1. Stop(s)
      BY <1>3 DEF Close
    <2>2. Goes(s) /\ work'[s].stage = "closed"
      BY <1>3, ClosedGoes
    <2>3. ForksMove
      BY <1>0, <2>1, <2>2, SessionForks DEF ForksMove
    <2>. QED  BY <2>2, <2>3
  <1>4. CASE Working(s) /\ ~Close(s)
    <2>1. UNCHANGED forkVars
      BY <1>4 DEF Working, Begin, TakeSnapshot, PlanCall, ReplayChange, Assess, Judge, Receipt,
                  Throw, StepOn
    <2>2. ForksMove
      BY <2>1, SameForkState DEF ForksMove
    <2>. QED  BY <1>4, <2>2, WorkingGoes
  <1>. QED  BY <1>1, <1>2, <1>3, <1>4 DEF ForkSteps

LEMMA OpenMoves ==
  ASSUME Base, NEW s \in Sessions, NEW task, NEW pin, NEW calls, Open(s, task, pin, calls)
  PROVE  Goes(s) /\ ForksMove
  BY OpenGoes, SpawnForks DEF Open, Base, ForksMove

LEMMA ForgetMoves ==
  ASSUME Base, NEW s \in Sessions, work' = [work EXCEPT ![s] = NoWork(s)],
         work[s].stage = "closed", UNCHANGED <<forkVars, node, mixed, setting>>
  PROVE  Goes(s) /\ ForksMove
  BY ForgetGoes, SameForkState DEF ForksMove

LEMMA IdleMoves ==
  ASSUME NEW s \in Sessions, UNCHANGED <<node, work, mixed, setting>>,
         /\ \A c \in Children : StaysUp(c)
         /\ \A t \in Sessions : Remains(t)
  PROVE  Goes(s) /\ ForksMove
  BY IdleGoes DEF ForksMove

LEMMA NextGoes ==
  ASSUME Base, SessionsOK, HoldersReady, [Next]_vars,
         \A c \in Children : ~BindFresh(c)
  PROVE  ForksMove /\ \E s \in Sessions : Goes(s)
  <1>0. Job \in Sessions /\ Api \in Sessions /\ Agent \in Sessions /\ ForksInv
    BY Callers DEF Base
  <1>. DEFINE Result1 == ForksMove /\ \E s \in Sessions : Goes(s)
  <1>1. ASSUME NEW s \in Sessions, ForkSteps(s) PROVE Result1
    BY <1>1, ForkStepsGo
  <1>2. ASSUME NEW s \in Sessions, \E task, pin, calls : Open(s, task, pin, calls) PROVE Result1
    BY <1>2, OpenMoves
  <1>3. CASE UNCHANGED <<forkVars, node, work, mixed, setting>>
    BY <1>0, <1>3, IdleMoves, SameForkState
  <1>4. CASE SimulatorSteps
    <2>1. CASE JobStarts \/ JobCompares
      <3>1. \E task, pin, calls : Open(Job, task, pin, calls)
        BY <2>1 DEF JobStarts, JobCompares
      <3>. QED  BY <1>0, <1>2, <3>1
    <2>2. CASE JobReplayed
      <3>1. /\ work' = [work EXCEPT ![Job] = NoWork(Job)] /\ work[Job].stage = "closed"
            /\ UNCHANGED <<forkVars, node, mixed, setting>>
        BY <2>2 DEF JobReplayed
      <3>. QED  BY <1>0, <3>1, ForgetMoves
    <2>3. CASE JobEnds
      BY <1>3, <2>3 DEF JobEnds, agentVars, searchVars, workVars
    <2>4. CASE ForkCall
      <3>1. \E task, pin, calls : Open(Agent, task, pin, calls)
        BY <2>4 DEF ForkCall
      <3>. QED  BY <1>0, <1>2, <3>1
    <2>5. CASE ForkReturns
      <3>1. /\ work' = [work EXCEPT ![Agent] = NoWork(Agent)] /\ work[Agent].stage = "closed"
            /\ UNCHANGED <<forkVars, node, mixed, setting>>
        BY <2>5 DEF ForkReturns
      <3>. QED  BY <1>0, <3>1, ForgetMoves
    <2>6. CASE AskModel \/ ModelFails \/ AgentTimeout \/ TraceFails \/ PlainCall \/ ForkRefused
      <3>1. UNCHANGED <<forkVars, node, work, mixed, setting>>
        BY <2>6 DEF AskModel, Answered, ModelFails, AgentTimeout, TraceFails, PlainCall, ForkRefused,
                    NoPortLeft, workVars
      <3>. QED  BY <1>3, <3>1
    <2>. QED  BY <1>4, <2>1, <2>2, <2>3, <2>4, <2>5, <2>6 DEF SimulatorSteps, AgentNext
  <1>5. CASE Shutdown \/ SignalReceived
    <2>1. Terminate \/ Sweep \/ ExitProcess
      BY <1>5 DEF Shutdown, SignalReceived
    <2>2. UNCHANGED <<node, work, mixed, setting>>
      BY <1>5 DEF Shutdown, SignalReceived, Still
    <2>. QED  BY <1>0, <2>1, <2>2, ShutdownForks, IdleMoves
  <1>6. CASE Prepare
    BY <1>3, <1>6 DEF Prepare
  <1>7. CASE ApiDryRun
    <2>1. \E task, pin, calls : Open(Api, task, pin, calls)
      BY <1>7 DEF ApiDryRun
    <2>. QED  BY <1>0, <1>2, <2>1
  <1>8. CASE ApiReturns
    <2>1. /\ work' = [work EXCEPT ![Api] = NoWork(Api)] /\ work[Api].stage = "closed"
          /\ UNCHANGED <<forkVars, node, mixed, setting>>
      BY <1>8 DEF ApiReturns
    <2>. QED  BY <1>0, <2>1, ForgetMoves
  <1>9. ASSUME NEW s \in {Job, Api}, FindsNoPort(s) PROVE Result1
    BY <1>3, <1>9 DEF FindsNoPort, NoPortLeft, workVars
  <1>10. ASSUME NEW c \in Children, ChildSteps(c) \/ ChildCrashes(c) PROVE Result1
    <2>1. Exit(c) \/ Crash(c) \/ SweepKills(c)
      BY <1>10 DEF ChildSteps, ChildCrashes
    <2>2. UNCHANGED <<node, work, mixed, setting>>
      BY <1>10 DEF ChildSteps, ChildCrashes, Still
    <2>. QED  BY <1>0, <2>1, <2>2, ChildForks, IdleMoves
  <1>11. CASE UNCHANGED vars
    BY <1>3, <1>11 DEF vars, agentVars, searchVars, workVars
  <1>. QED
    BY <1>1, <1>4, <1>5, <1>6, <1>7, <1>8, <1>9, <1>10, <1>11
       DEF Next, ProcessSteps, OffspringSteps

-----------------------------------------------------------------------------
(***************************************************************************)
(* So snapshots are always held, and few.                                  *)
(***************************************************************************)
LEMMA AnswersAt ==
  ASSUME NEW t \in Sessions, NEW c \in Children, anvil[c].st = "serving",
         fork[t].port = anvil[c].port
  PROVE  Answers(t, c)
  BY DEF Answers, Serves

(* Whoever holds a snapshot and does not go on holds it after the step.    *)
LEMMA OthersHold ==
  ASSUME HoldersReady, ForksMove, NEW c \in Children, anvil'[c].st = "serving",
         NEW t \in Sessions, work'[t] = work[t], NEW k, HoldsAt(t, c, k)
  PROVE  HoldsAt(t, c, k)'
  <1>1. Holds(work[t]) /\ work[t].stage # "closed" /\ fork[t].pc \in {"ready", "gone"}
    BY DEF HoldsAt, Holds, HoldersReady
  <1>2. fork'[t].port = fork[t].port
    BY <1>1 DEF ForksMove, Remains
  <1>3. anvil'[c].port = anvil[c].port
    BY DEF ForksMove, StaysUp
  <1>. QED  BY <1>1, <1>2, <1>3 DEF HoldsAt

LEMMA ReadyKept ==
  ASSUME HoldersReady, ForksMove, NEW s \in Sessions, Goes(s)
  PROVE  HoldersReady'
  <1>. SUFFICES ASSUME NEW t \in Sessions, Holds(work'[t])
                PROVE  fork'[t].pc \in {"ready", "gone"}
    BY DEF HoldersReady
  <1>1. work'[t].stage # "closed"
    BY DEF Holds
  <1>2. fork[t].pc \in {"ready", "gone"}
    <2>1. CASE t # s
      BY <2>1 DEF Goes, HoldersReady
    <2>2. CASE t = s
      BY <2>2 DEF Goes, Lifo, HoldersReady
    <2>. QED  BY <2>1, <2>2
  <1>. QED  BY <1>1, <1>2 DEF ForksMove, Remains

LEMMA HeldKept ==
  ASSUME Base, SnapshotsHeld, OneServes, HoldersReady, ForksMove, NEW s \in Sessions, Goes(s)
  PROVE  SnapshotsHeld'
  <1>. SUFFICES ASSUME NEW c \in Children, anvil'[c].st = "serving",
                       NEW k \in 1..Len(node'[c].snapshots)
                PROVE  \E t \in Sessions : HoldsAt(t, c, k)'
    BY DEF SnapshotsHeld
  <1>1. anvil[c].st = "serving" /\ anvil'[c].port = anvil[c].port
    BY DEF ForksMove, StaysUp
  <1>2. node[c].snapshots \in Seq(Holdings)
    BY DEF Base, NodeRecords
  <1>3. \A t \in Sessions : t # s => work'[t] = work[t]
    BY DEF Goes
  <1>4. \A j \in 1..Len(node[c].snapshots) : \E t \in Sessions : HoldsAt(t, c, j)
    BY <1>1 DEF SnapshotsHeld
  <1>5. \A d \in Children : Answers(s, d) /\ fork[s].port = anvil[c].port => c = d
    BY <1>1 DEF Answers, Serves, OneServes
  <1>6. CASE k \in 1..Len(node[c].snapshots) /\ node'[c] = node[c]
             /\ \A t \in Sessions : HoldsAt(t, c, k) => t # s
    <2>1. PICK t \in Sessions : HoldsAt(t, c, k)
      BY <1>4, <1>6
    <2>. QED  BY <1>3, <1>6, <2>1, OthersHold
  <1>7. CASE /\ SameSnapshots
             /\ \/ \A d \in Children : ~Answers(s, d)
                \/ ~Holds(work[s])
                \/ Holds(work'[s]) /\ work'[s].snapshot = work[s].snapshot
    <2>1. k \in 1..Len(node[c].snapshots)
      BY <1>7 DEF SameSnapshots
    <2>2. PICK t \in Sessions : HoldsAt(t, c, k)
      BY <1>4, <2>1
    <2>3. CASE t # s
      BY <1>3, <2>2, <2>3, OthersHold
    <2>4. CASE t = s
      <3>1. Holds(work[s]) /\ fork[s].port = anvil[c].port /\ work[s].snapshot = k
        BY <2>2, <2>4 DEF HoldsAt
      <3>2. Holds(work'[s]) /\ work'[s].snapshot = k
        BY <1>1, <1>7, <3>1, AnswersAt
      <3>3. fork'[s].port = fork[s].port
        BY <3>1, <3>2 DEF HoldersReady, ForksMove, Remains, Holds
      <3>4. HoldsAt(s, c, k)'
        BY <1>1, <3>1, <3>2, <3>3 DEF HoldsAt
      <3>. QED  BY <3>4
    <2>. QED  BY <2>3, <2>4
  <1>8. ASSUME NEW e \in Children, Answers(s, e), anvil' = anvil, fork[s].pc = "ready",
               \A d \in Children : d # e => node'[d] = node[d],
               \/ ~Holds(work'[s]) /\ node'[e] = Revert(node[e], work[s].snapshot)
               \/ Pushes(s, e)
        PROVE  \E t \in Sessions : HoldsAt(t, c, k)'
    <2>1. CASE c # e
      <3>1. node'[c] = node[c]
        BY <1>8, <2>1
      <3>2. fork[s].port # anvil[c].port
        BY <1>5, <1>8, <2>1
      <3>3. \A t \in Sessions : HoldsAt(t, c, k) => t # s
        BY <3>2 DEF HoldsAt
      <3>4. k \in 1..Len(node[c].snapshots)
        BY <3>1
      <3>. QED  BY <1>6, <3>1, <3>3, <3>4
    <2>2. CASE c = e /\ Pushes(s, c)
      <3>1. /\ node'[c].snapshots = Append(node[c].snapshots, node[c].holdings)
            /\ ~Holds(work[s]) /\ Holds(work'[s])
            /\ work'[s].snapshot = Len(node[c].snapshots) + 1
        BY <2>2 DEF Pushes
      <3>2. Len(node'[c].snapshots) = Len(node[c].snapshots) + 1
        BY <1>2, <3>1 DEF Base, NodeRecords
      <3>3. CASE k = Len(node[c].snapshots) + 1
        <4>1. fork'[s].port = fork[s].port
          BY <1>8, <3>1 DEF ForksMove, Remains, Holds
        <4>2. fork[s].port = anvil[c].port
          BY <1>8, <2>2 DEF Answers, Serves
        <4>3. HoldsAt(s, c, k)'
          BY <1>1, <3>1, <3>3, <4>1, <4>2 DEF HoldsAt
        <4>. QED  BY <4>3
      <3>4. CASE k # Len(node[c].snapshots) + 1
        <4>1. k \in 1..Len(node[c].snapshots)
          BY <1>2, <3>2, <3>4
        <4>2. PICK t \in Sessions : HoldsAt(t, c, k)
          BY <1>4, <4>1
        <4>3. t # s
          BY <3>1, <4>2 DEF HoldsAt
        <4>. QED  BY <1>3, <4>2, <4>3, OthersHold
      <3>. QED  BY <3>3, <3>4
    <2>3. CASE c = e /\ node'[c] = Revert(node[c], work[s].snapshot)
      <3>. DEFINE id == work[s].snapshot
      <3>1. k \in 1..Len(node[c].snapshots) /\ k # id
        <4>1. CASE id \in 1..Len(node[c].snapshots)
          <5>1. node'[c].snapshots = SubSeq(node[c].snapshots, 1, id - 1)
            BY <2>3, <4>1 DEF Revert
          <5>2. Len(node'[c].snapshots) = id - 1
            BY <1>2, <4>1, <5>1
          <5>. QED  BY <1>2, <4>1, <5>2
        <4>2. CASE id \notin 1..Len(node[c].snapshots)
          <5>1. node'[c] = node[c]
            BY <2>3, <4>2 DEF Revert
          <5>. QED  BY <4>2, <5>1
        <4>. QED  BY <4>1, <4>2
      <3>2. PICK t \in Sessions : HoldsAt(t, c, k)
        BY <1>4, <3>1
      <3>3. t # s
        BY <3>1, <3>2 DEF HoldsAt
      <3>. QED  BY <1>3, <3>2, <3>3, OthersHold
    <2>. QED  BY <1>8, <2>1, <2>2, <2>3
  <1>. QED  BY <1>7, <1>8 DEF Goes, Lifo

(* A session holds one snapshot at a time, h[t].                           *)
LEMMA HeldAreFew ==
  ASSUME NEW h, NEW n \in Nat, \A k \in 1..n : \E t \in Sessions : h[t] = k
  PROVE  n <= Cardinality(Sessions)
  <1>. DEFINE g == [k \in 1..n |-> CHOOSE t \in Sessions : h[t] = k]
  <1>1. \A k \in 1..n : g[k] \in Sessions /\ h[g[k]] = k
    OBVIOUS
  <1>2. g \in [1..n -> Sessions]
    BY <1>1
  <1>. HIDE DEF g
  <1>3. \A j, k \in 1..n : g[j] = g[k] => j = k
    BY <1>1
  <1>4. g \in Injection(1..n, Sessions)
    BY <1>2, <1>3 DEF Injection, IsInjective
  <1>5. IsFiniteSet(Sessions)
    <2>1. IsFiniteSet({Job}) /\ IsFiniteSet({Job} \cup {Api})
      BY FS_Singleton, FS_AddElement
    <2>2. IsFiniteSet(({Job} \cup {Api}) \cup {Agent})
      BY <2>1, FS_AddElement
    <2>3. ({Job} \cup {Api}) \cup {Agent} = Sessions
      BY DeskAssumption
    <2>. QED  BY <2>2, <2>3
  <1>6. Cardinality(1..n) <= Cardinality(Sessions)
    BY <1>4, <1>5, FS_Injection
  <1>7. Cardinality(1..n) = n
    BY FS_Interval
  <1>. QED  BY <1>6, <1>7

LEMMA FewKept ==
  ASSUME SnapshotsFew, SnapshotsHeld', NEW s \in Sessions, Goes(s),
         node' \in [Children -> NodeRecords]
  PROVE  SnapshotsFew'
  <1>. SUFFICES ASSUME NEW c \in Children
                PROVE  Len(node'[c].snapshots) <= Cardinality(Sessions)
    BY DEF SnapshotsFew
  <1>1. CASE node'[c].snapshots = node[c].snapshots
    BY <1>1 DEF SnapshotsFew
  <1>2. CASE anvil'[c].st = "serving"
    <2>. DEFINE h == [t \in Sessions |-> work'[t].snapshot]
                n == Len(node'[c].snapshots)
    <2>1. \A k \in 1..n : \E t \in Sessions : h[t] = k
      BY <1>2 DEF SnapshotsHeld, HoldsAt
    <2>2. n \in Nat
      BY DEF NodeRecords
    <2>. HIDE DEF h, n
    <2>3. n <= Cardinality(Sessions)
      BY <2>1, <2>2, HeldAreFew
    <2>. QED  BY <2>3 DEF n
  <1>3. node'[c] = node[c] \/ anvil'[c].st = "serving" \/ node'[c].snapshots = node[c].snapshots
    BY DEF Goes, Lifo, SameSnapshots, Answers, Serves
  <1>. QED  BY <1>1, <1>2, <1>3

(* A child that comes up serves its port alone, with no snapshot.          *)
LEMMA BindKeepsSnapshots ==
  ASSUME Base, SnapshotsInv, NEW c \in Children, BindFresh(c)
  PROVE  SnapshotsInv'
  <1>1. /\ fork' = fork /\ work' = work
        /\ node' = [node EXCEPT ![c] = [holdings |-> Pinned, snapshots |-> <<>>]]
        /\ anvil' = [anvil EXCEPT ![c] = IF PortFree(anvil[c].port) THEN Listening(anvil[c])
                                         ELSE Dead(anvil[c])]
    BY DEF BindFresh, Bind
  <1>2. anvil \in [Children -> ChildRecords] /\ anvil[c] \in ChildRecords
    BY Typed DEF Base, ForksInv, ForksTypeOK
  <1>3. \A d \in Children : d # c => anvil'[d] = anvil[d] /\ node'[d] = node[d]
    BY <1>1, <1>2 DEF Base
  <1>4. Len(node'[c].snapshots) = 0
    <2>1. node'[c] = [holdings |-> Pinned, snapshots |-> <<>>]
      BY <1>1 DEF Base
    <2>. QED  BY <2>1
  <1>5. anvil'[c].st = "serving" =>
            anvil'[c].port = anvil[c].port /\ \A d \in Children : ~Serves(d, anvil[c].port)
    BY <1>1, <1>2, ListeningChild, DeadChild DEF PortFree
  <1>6. OneServes'
    BY <1>3, <1>5 DEF SnapshotsInv, OneServes, Serves
  <1>7. HoldersReady'
    BY <1>1 DEF SnapshotsInv, HoldersReady
  <1>8. SnapshotsHeld'
    <2>. SUFFICES ASSUME NEW d \in Children, anvil'[d].st = "serving",
                         NEW k \in 1..Len(node'[d].snapshots)
                  PROVE  \E t \in Sessions : HoldsAt(t, d, k)'
      BY DEF SnapshotsHeld
    <2>1. d # c
      BY <1>4
    <2>2. PICK t \in Sessions : HoldsAt(t, d, k)
      BY <1>3, <2>1 DEF SnapshotsInv, SnapshotsHeld
    <2>3. HoldsAt(t, d, k)'
      BY <1>1, <1>3, <2>1, <2>2 DEF HoldsAt
    <2>. QED  BY <2>3
  <1>9. SnapshotsFew'
    <2>. SUFFICES ASSUME NEW d \in Children
                  PROVE  Len(node'[d].snapshots) <= Cardinality(Sessions)
      BY DEF SnapshotsFew
    <2>1. CASE d # c
      BY <1>3, <2>1 DEF SnapshotsInv, SnapshotsFew
    <2>2. CASE d = c
      <3>. DEFINE h == [t \in Sessions |-> t]
      <3>1. 0 <= Cardinality(Sessions)
        <4>1. \A k \in 1..0 : \E t \in Sessions : h[t] = k
          OBVIOUS
        <4>. HIDE DEF h
        <4>. QED  BY <4>1, HeldAreFew
      <3>. QED  BY <1>4, <2>2, <3>1
    <2>. QED  BY <2>1, <2>2
  <1>. QED  BY <1>6, <1>7, <1>8, <1>9 DEF SnapshotsInv

LEMMA SnapshotsKept ==
  ASSUME Base, SessionsOK, SnapshotsInv, [Next]_vars, node' \in [Children -> NodeRecords]
  PROVE  SnapshotsInv'
  <1>1. ASSUME NEW c \in Children, BindFresh(c) PROVE SnapshotsInv'
    BY <1>1, BindKeepsSnapshots
  <1>2. ASSUME \A c \in Children : ~BindFresh(c) PROVE SnapshotsInv'
    <2>1. HoldersReady /\ SnapshotsHeld /\ SnapshotsFew /\ OneServes
      BY DEF SnapshotsInv
    <2>2. ForksMove /\ \E s \in Sessions : Goes(s)
      BY <1>2, <2>1, NextGoes
    <2>3. PICK s \in Sessions : Goes(s)
      BY <2>2
    <2>4. OneServes'
      BY <2>1, <2>2 DEF OneServes, ForksMove, StaysUp
    <2>5. HoldersReady'
      BY <2>1, <2>2, <2>3, ReadyKept
    <2>6. SnapshotsHeld'
      BY <2>1, <2>2, <2>3, HeldKept
    <2>7. SnapshotsFew'
      BY <2>1, <2>3, <2>6, FewKept
    <2>. QED  BY <2>4, <2>5, <2>6, <2>7 DEF SnapshotsInv
  <1>. QED  BY <1>1, <1>2

(* The bounds of every session.                                            *)
BoundsInv ==
    /\ \A s \in Sessions : Bounded(work[s], setting.policy[s])
    /\ mixed \subseteq Sessions

LEMMA BoundsKept ==
  ASSUME Base, SessionsOK, HoldersReady, BoundsInv, [Next]_vars
  PROVE  BoundsInv'
  <1>1. ASSUME NEW c \in Children, BindFresh(c) PROVE BoundsInv'
    BY <1>1 DEF BindFresh, BoundsInv
  <1>2. ASSUME \A c \in Children : ~BindFresh(c) PROVE BoundsInv'
    <2>1. PICK s \in Sessions : Goes(s)
      BY <1>2, NextGoes
    <2>. QED  BY <2>1 DEF Goes, BoundsInv
  <1>. QED  BY <1>1, <1>2

-----------------------------------------------------------------------------
(***************************************************************************)
(* The theorems.                                                           *)
(***************************************************************************)
RescueInv == DeskInv /\ Reports /\ AgentInv

(* What is known of every session, its fork, the API's plan and the agent  *)
(* holds always, whatever is lost, crashes or shares a port.               *)
THEOREM RescueInvariant == Spec => []RescueInv
  <1>1. Init => RescueInv
    BY DeskStarts, AgentStarts DEF RescueInv
  <1>2. ASSUME RescueInv, [Next]_vars PROVE RescueInv'
    BY <1>2, DeskKeeps, ReportsKept, AgentKeeps DEF RescueInv, DeskInv
  <1>. QED  BY <1>1, <1>2, PTL DEF Spec

(* What a comparison reports as verified rescues the wallet, within the    *)
(* feasible bound (search.ts:200-240, execute.ts:105-171).                 *)
THEOREM VerifiedIsAlwaysSolvent == Spec => []VerifiedIsSolvent
  <1>1. RescueInv => VerifiedIsSolvent
    BY ProvedIsSolvent DEF RescueInv
  <1>. QED  BY <1>1, RescueInvariant, PTL

(* Each branch starts from the pinned block and its calls do what the plan *)
(* promises (search.ts:104-145, plans.ts:34, live-plan.ts:113-152).        *)
THEOREM BranchesAlwaysRunAsPlanned == Spec => []BranchesRunAsPlanned
  <1>1. RescueInv => BranchesRunAsPlanned
    BY BranchesHold DEF RescueInv
  <1>. QED  BY <1>1, RescueInvariant, PTL

(* The agent says nothing but what the comparison it keeps has verified,   *)
(* and opens a fork at most once for each kind of evidence                 *)
(* (loop.ts:239-269, session.ts:168-181).                                  *)
THEOREM AgentAlwaysTellsWhatItVerified == Spec => []AgentTellsWhatItVerified
  <1>1. RescueInv => AgentTellsWhatItVerified
    BY TellsVerified DEF RescueInv, DeskInv
  <1>. QED  BY <1>1, RescueInvariant, PTL

(* The type invariant needs no more than bounds of its own: each snapshot  *)
(* of an Anvil is held by a session, and the agent counts its steps.       *)
ShapeInv == RescueInv /\ SnapshotsInv /\ BoundsInv

LEMMA ShapeStarts ==
  ASSUME Init
  PROVE  ShapeInv
  <1>1. RescueInv
    BY DeskStarts, AgentStarts DEF RescueInv
  <1>2. /\ \A c \in Children : /\ anvil[c] = NoProcess
                               /\ node[c] = [holdings |-> Pinned, snapshots |-> <<>>]
        /\ \A s \in Sessions : work[s] = NoWork(s)
        /\ mixed = {}
    BY DEF Init, ForkInit, WorkInit
  <1>3. BoundsInv
    BY <1>2, BlankBounded DEF BoundsInv
  <1>4. SnapshotsInv
    <2>1. \A c \in Children : anvil[c].st # "serving" /\ Len(node[c].snapshots) = 0
      <3>1. NoProcess.st = "none"
        BY DEF NoProcess
      <3>2. \A c \in Children : node[c].snapshots = <<>>
        BY <1>2
      <3>. QED  BY <1>2, <3>1, <3>2
    <2>2. \A s \in Sessions : work[s].stage = "idle"
      <3>. SUFFICES ASSUME NEW s \in Sessions PROVE work[s].stage = "idle"
        OBVIOUS
      <3>1. Blank(NoWork(s), setting.policy[s], "none", "idle", <<>>)
        BY NoWorkIsBlank
      <3>. QED  BY <1>2, <3>1 DEF Blank
    <2>3. 0 <= Cardinality(Sessions)
      <3>. DEFINE h == [t \in Sessions |-> t]
      <3>1. \A k \in 1..0 : \E t \in Sessions : h[t] = k
        OBVIOUS
      <3>. HIDE DEF h
      <3>. QED  BY <3>1, HeldAreFew
    <2>. QED
      BY <2>1, <2>2, <2>3
         DEF SnapshotsInv, SnapshotsHeld, SnapshotsFew, OneServes, HoldersReady, Holds
  <1>. QED  BY <1>1, <1>3, <1>4 DEF ShapeInv

LEMMA ShapeKept ==
  ASSUME ShapeInv, [Next]_vars
  PROVE  ShapeInv'
  <1>1. Base /\ SessionsOK /\ HoldersReady /\ SnapshotsInv /\ BoundsInv /\ DOMAIN desk = DeskFields
    BY DEF ShapeInv, RescueInv, DeskInv, SnapshotsInv
  <1>2. RescueInv'
    BY DeskKeeps, ReportsKept, AgentKeeps DEF ShapeInv, RescueInv, DeskInv
  <1>3. node' \in [Children -> NodeRecords]
    BY <1>2 DEF RescueInv, DeskInv, Base
  <1>4. SnapshotsInv'
    BY <1>1, <1>3, SnapshotsKept
  <1>5. BoundsInv'
    BY <1>1, BoundsKept
  <1>. QED  BY <1>2, <1>4, <1>5 DEF ShapeInv

LEMMA ShapeIsTyped ==
  ASSUME ShapeInv
  PROVE  RescueTypeOK
  <1>1. ForksTypeOK /\ SessionsOK /\ Reports /\ node \in [Children -> NodeRecords]
    BY DEF ShapeInv, RescueInv, DeskInv, Base, ForksInv
  <1>2. WorkTypeOK
    <2>. SUFFICES ASSUME NEW s \in Sessions
                  PROVE  /\ work[s].search \in Searches
                         /\ work[s].outcome \in {"none", "ok", "error", "rejected"}
                         /\ work[s].policy \in RiskPolicySet
                         /\ \/ work[s].policy.minBuffer = setting.policy[s].minBuffer
                            \/ work[s].policy.minBuffer \in 1..(MaxBufferBps + 1)
                         /\ \A t \in Strategies : work[s].results[t].status \in Statuses
      BY DEF WorkTypeOK
    <2>1. Bounded(work[s], setting.policy[s])
      BY DEF ShapeInv, BoundsInv
    <2>2. work[s].policy \in RiskPolicySet
      BY <1>1 DEF SessionsOK, SessionOK, Sound, WorkTyped
    <2>3. work[s].outcome \in {"none", "ok", "error", "rejected"}
      BY <1>1 DEF Reports, Reported
    <2>. QED  BY <2>1, <2>2, <2>3 DEF Bounded
  <1>3. \A c \in Children : node[c].holdings \in Holdings
    BY <1>1 DEF NodeRecords
  <1>4. \A c \in Children : Len(node[c].snapshots) <= Cardinality(Sessions)
    BY DEF ShapeInv, SnapshotsInv, SnapshotsFew
  <1>5. mixed \subseteq Sessions
    BY DEF ShapeInv, BoundsInv
  <1>. QED
    BY <1>1, <1>2, <1>3, <1>4, <1>5
       DEF RescueTypeOK, ShapeInv, RescueInv, AgentInv, AgentWithin, Within, Counts

(* So every variable keeps its shape, whatever is lost, crashes or shares  *)
(* a port: an Anvil never holds more snapshots than there are sessions,    *)
(* and an agent that has not ended has steps and refusals left             *)
(* (search.ts:104-145, 225-262, loop.ts:72, 183).                          *)
THEOREM RescueTypeCorrect == Spec => []RescueTypeOK
  <1>1. Spec => []ShapeInv
    <2>1. Init => ShapeInv
      BY ShapeStarts
    <2>2. ASSUME ShapeInv, [Next]_vars PROVE ShapeInv'
      BY <2>2, ShapeKept
    <2>. QED  BY <2>1, <2>2, PTL DEF Spec
  <1>2. ShapeInv => RescueTypeOK
    BY ShapeIsTyped
  <1>. QED  BY <1>1, <1>2, PTL
=============================================================================
