------------------------- MODULE GovernanceMonitor -------------------------
(***************************************************************************)
(* The indexer's monitor tick (apps/indexer monitor.ts) with everything it *)
(* calls: the governor sync, the refresh of source and of destination      *)
(* statuses, the marking of open simulations, and the enqueueing of        *)
(* simulations for the monitored wallet.  setInterval starts a tick while  *)
(* another one may be running; a tick fails at any await; the process dies *)
(* and finds its JSON file, or an unreadable one.                          *)
(*                                                                         *)
(* The governance store is in memory and in one file, written in the same  *)
(* turn: one variable.  All reads of a phase are made at one safe block,   *)
(* so they are one snapshot.  Marking the runs of a change, which          *)
(* ImpactPipeline does write by write, is one step, and a run is one of    *)
(* six statuses.  There is one wallet.                                     *)
(***************************************************************************)
EXTENDS GovernanceStatus, Sequences, FiniteSets

CONSTANTS
    LastProposal,   \* proposals are 1..LastProposal
    CallsOf,        \* the calls of each of them
    Pinned,         \* the proposals shouldEnqueueImpact lets through
    InitialCount,   \* how many there are when the indexer is started
    InitialWallets, \* what the wallet may be when the indexer is started
    Lookback,       \* REORG_LOOKBACK_BLOCKS
    Ticks,          \* ticks that may overlap
    Budgets         \* how often each event of the environment may happen: some choices

Proposals == 1..LastProposal
Chains == {"eth", "base"}
EventKinds == {"governance", "block", "reorg", "rpcError", "failure", "crash",
               "overlap", "wallet", "post", "end"}

ASSUME MonitorAssumption ==
    /\ LastProposal \in Nat \ {0}
    /\ CallsOf \in [Proposals -> SUBSET SourceCalls]
    /\ Pinned \subseteq Proposals
    /\ InitialCount \in Proposals
    /\ InitialWallets \subseteq Holdings \cup {"unmonitored"}
    /\ Lookback \in Nat
    /\ Budgets \subseteq [EventKinds -> Nat]

KindOf == [p \in Proposals |-> ChangeKind(CallsOf[p])]

(* The proposals whose destination status can be read off Base.            *)
Watched == {p \in Proposals : KindOf[p] = "factor" /\ NamesMarket(CallsOf[p])}

VARIABLES
    chain,      \* per chain, for every safe block the fork that made it
    governor,   \* the raw state of every proposal
    count,      \* proposalCount
    inForce,    \* the proposals whose collateral factor is the one on Base
    wallet,     \* the wallet: "unmonitored", or what it holds
    store,      \* the indexed changes
    cursor,     \* the two index cursors
    exposure,   \* the exposures collection: the stored "relevant" flags
    run,        \* the wallet's simulation of every change
    tick,       \* the ticks in progress
    left,       \* what remains of the budget
    happened    \* the kinds of events there were so far

world == <<chain, governor, count, inForce, wallet>>
vars == <<chain, governor, count, inForce, wallet, store, cursor, exposure, run,
          tick, left, happened>>
-----------------------------------------------------------------------------
NoRecord == [raw |-> 0, destination |-> "none", status |-> "none"]
Indexed(p) == store[p].status # "none"

\* A block hash is a height and the fork that made the block; forks are numbered
\* by the reorgs still to come, and genesis is in none.
NoHash == <<0, 0>>
Hashes == Nat \X Nat
Cursor == [block : Nat, hash : Hashes, last : Nat]
NoCursor == [block |-> 0, hash |-> NoHash, last |-> 0]

Height(c) == Len(chain[c])
HashOf(c, n) == IF n = 0 THEN NoHash ELSE <<n, chain[c][n]>>
SafeHash(c) == HashOf(c, Height(c))

RunStatuses == {"none", "open", "COMPLETED", "FAILED", "STALE", "CANCELLED"}

WritingPcs == {"upsert", "saveEth", "refresh", "destination", "saveBase"}
TickPcs == WritingPcs \cup {"idle", "detectEth", "anchorEth", "readSource", "detectBase",
                            "anchorBase", "list", "mark", "markAll", "wallet",
                            "expose", "enqueue"}

Tick == [pc : TickPcs,
         todo : SUBSET Proposals,                   \* what the loop still has to do
         previous : [Proposals -> {"none"} \cup SourceStatuses \cup {"DESTINATION_PENDING"}],
         seen : [Proposals -> Record \cup {NoRecord}],   \* the last listing
         raws : [Proposals -> RawStates],           \* read at the anchor
         factors : SUBSET Proposals,                \* read at the anchor; at the
                                                    \* end, what the wallet is exposed to
         safe : Hashes,                             \* the anchor
         last : Nat,                                \* proposalCount at the anchor
         cursor : Cursor,                           \* the cursor that was read
         reorg : [Chains -> BOOLEAN]]

NoStatuses == [p \in Proposals |-> "none"]
NoRecords == [p \in Proposals |-> NoRecord]
NoRaws == [p \in Proposals |-> 0]
IdleTick == [pc |-> "idle", todo |-> {}, previous |-> NoStatuses, seen |-> NoRecords,
             raws |-> NoRaws, factors |-> {}, safe |-> NoHash, last |-> 0,
             cursor |-> NoCursor, reorg |-> [c \in Chains |-> FALSE]]

Init ==
    /\ count = InitialCount
    /\ governor \in [Proposals -> {0, 4, 5}]
    /\ \A p \in Proposals : governor[p] = 0 <=> p > count
    /\ inForce \in SUBSET {p \in Watched : governor[p] = 5}
    /\ wallet \in InitialWallets
    /\ store = NoRecords
    /\ cursor = [c \in Chains |-> NoCursor]
    /\ exposure = [p \in Proposals |-> FALSE]
    /\ run = [p \in Proposals |-> "none"]
    /\ tick = [t \in Ticks |-> IdleTick]
    /\ left \in Budgets
    /\ chain = [c \in Chains |-> <<left["reorg"], left["reorg"]>>]
    /\ happened = {}

Spend(kind) ==
    /\ left[kind] > 0
    /\ left' = [left EXCEPT ![kind] = @ - 1]
    /\ happened' = happened \cup {kind}

SpendNothing == UNCHANGED <<left, happened>>
At(t, pc) == tick[t].pc = pc
Next1(todo) == CHOOSE p \in todo : \A q \in todo : p <= q
-----------------------------------------------------------------------------
(* runMonitorTick begins: the statuses before anything is read.  Which of  *)
(* the free names a tick gets makes no difference.                         *)
Begin(t) ==
    /\ At(t, "idle")
    /\ t = CHOOSE u \in Ticks : At(u, "idle")
    /\ IF \A u \in Ticks : At(u, "idle") THEN SpendNothing ELSE Spend("overlap")
    /\ tick' = [tick EXCEPT ![t].pc = "detectEth",
                            ![t].previous = [p \in Proposals |-> store[p].status]]
    /\ UNCHANGED <<world, store, cursor, exposure, run>>

(* getCursor and detectReorg: a block that cannot be read is a reorg too.  *)
ReadCursor(t, c, found, to) ==
    tick' = [tick EXCEPT ![t].pc = to, ![t].cursor = cursor[c], ![t].reorg[c] = found]

CursorStale(c) == \/ cursor[c].block > Height(c)
                  \/ cursor[c].hash # HashOf(c, cursor[c].block)

DetectReorg(t, c, to) ==
    /\ \/ /\ ReadCursor(t, c, cursor[c] # NoCursor /\ CursorStale(c), to)
          /\ SpendNothing
       \/ /\ cursor[c] # NoCursor
          /\ Spend("rpcError")
          /\ ReadCursor(t, c, TRUE, to)
    /\ UNCHANGED <<world, store, cursor, exposure, run>>

(* The cursor a phase saves: the anchor, but the block of the old cursor   *)
(* rolled back when there was a reorg.                                     *)
Smaller(a, b) == IF a < b THEN a ELSE b

\* Mutant of RolledBack: without the floor at genesis.
RolledBackBelow(c) == c.block - Lookback

RolledBack(c) == IF c.block > Lookback THEN c.block - Lookback ELSE 0

\* Mutant of Saved: the roll-back is not guarded by the reorg.
SavedRolledBack(t, c, last) ==
    [block |-> IF tick[t].cursor # NoCursor
                 THEN Smaller(RolledBack(tick[t].cursor), tick[t].safe[1])
                 ELSE tick[t].safe[1],
     hash |-> tick[t].safe, last |-> last]

Saved(t, c, last) ==
    [block |-> IF tick[t].reorg[c]
                 THEN Smaller(RolledBack(tick[t].cursor), tick[t].safe[1])
                 ELSE tick[t].safe[1],
     hash |-> tick[t].safe, last |-> last]

(* syncMoonwellGovernor: from the last proposal of the cursor to the last  *)
(* there is, then the cursor.                                              *)
DetectEth(t) == At(t, "detectEth") /\ DetectReorg(t, "eth", "anchorEth")

AnchorEth(t) ==
    LET first == IF tick[t].cursor = NoCursor THEN 1 ELSE tick[t].cursor.last IN
    /\ At(t, "anchorEth")
    /\ tick' = [tick EXCEPT ![t].pc = "upsert", ![t].todo = first..count,
                            ![t].raws = governor, ![t].safe = SafeHash("eth"),
                            ![t].last = count]
    /\ UNCHANGED <<world, store, cursor, exposure, run, left, happened>>

UpsertProposal(t) ==
    LET p == Next1(tick[t].todo) IN
    /\ At(t, "upsert")
    /\ store' = IF CallsOf[p] = {} THEN store
                ELSE [store EXCEPT ![p] = Normalized(tick[t].raws[p], KindOf[p])]
    /\ tick' = [tick EXCEPT ![t].todo = @ \ {p},
                            ![t].pc = IF tick[t].todo = {p} THEN "saveEth" ELSE @]
    /\ UNCHANGED <<world, cursor, exposure, run, left, happened>>

SaveEth(t) ==
    /\ At(t, "saveEth")
    /\ cursor' = [cursor EXCEPT !["eth"] = Saved(t, "eth", tick[t].last)]
    /\ tick' = [tick EXCEPT ![t].pc = "readSource", ![t].raws = NoRaws,
                            ![t].safe = NoHash, ![t].last = 0, ![t].cursor = NoCursor]
    /\ UNCHANGED <<world, store, exposure, run, left, happened>>

(* refreshIndexedChangeStatuses: an anchor, a listing, then every record   *)
(* of the listing, whatever became of it in the store meanwhile.           *)
Listed == {p \in Proposals : Indexed(p)}

ReadSource(t) ==
    /\ At(t, "readSource")
    /\ tick' = [tick EXCEPT ![t].pc = IF Listed = {} THEN "detectBase" ELSE "refresh",
                            ![t].todo = Listed, ![t].seen = store, ![t].raws = governor]
    /\ UNCHANGED <<world, store, cursor, exposure, run, left, happened>>

RefreshRecord(t) ==
    LET p == Next1(tick[t].todo)
        record == tick[t].seen[p]
        raw == tick[t].raws[p]
        done == tick[t].todo = {p} IN
    /\ At(t, "refresh")
    /\ store' = IF raw = record.raw THEN store
                ELSE [store EXCEPT ![p] = Refreshed(record, raw)]
    /\ tick' = [tick EXCEPT ![t].todo = @ \ {p},
                            ![t].pc = IF done THEN "detectBase" ELSE @,
                            ![t].seen = IF done THEN NoRecords ELSE @,
                            ![t].raws = IF done THEN NoRaws ELSE @]
    /\ UNCHANGED <<world, cursor, exposure, run, left, happened>>

(* refreshDestinationStatuses.                                             *)
DetectBase(t) == At(t, "detectBase") /\ DetectReorg(t, "base", "anchorBase")

AnchorBase(t) ==
    LET todo == Listed \cap Watched IN
    /\ At(t, "anchorBase")
    /\ tick' = [tick EXCEPT ![t].pc = IF todo = {} THEN "saveBase" ELSE "destination",
                            ![t].todo = todo, ![t].seen = store,
                            ![t].factors = inForce, ![t].safe = SafeHash("base")]
    /\ UNCHANGED <<world, store, cursor, exposure, run, left, happened>>

RefreshDestination(t) ==
    LET p == Next1(tick[t].todo)
        next == WithDestination(tick[t].seen[p], p \in tick[t].factors)
        done == tick[t].todo = {p} IN
    /\ At(t, "destination")
    /\ store' = IF next = tick[t].seen[p] THEN store ELSE [store EXCEPT ![p] = next]
    /\ tick' = [tick EXCEPT ![t].todo = @ \ {p},
                            ![t].pc = IF done THEN "saveBase" ELSE @,
                            ![t].seen = IF done THEN NoRecords ELSE @,
                            ![t].factors = IF done THEN {} ELSE @]
    /\ UNCHANGED <<world, cursor, exposure, run, left, happened>>

SaveBase(t) ==
    /\ At(t, "saveBase")
    /\ cursor' = [cursor EXCEPT !["base"] = Saved(t, "base", tick[t].cursor.last)]
    /\ tick' = [tick EXCEPT ![t].pc = "list", ![t].seen = NoRecords, ![t].factors = {},
                            ![t].safe = NoHash, ![t].cursor = NoCursor]
    /\ UNCHANGED <<world, store, exposure, run, left, happened>>
-----------------------------------------------------------------------------
(* The second listing, and the transitions it shows.                       *)
ListNext(t) ==
    /\ At(t, "list")
    /\ tick' = [tick EXCEPT ![t].pc = "mark", ![t].seen = store,
                            ![t].todo = {p \in Listed : Transition(tick[t].previous[p],
                                                                   store[p].status)}]
    /\ UNCHANGED <<world, store, cursor, exposure, run, left, happened>>

(* markOpenRunsForChange on the next record of the loop.                   *)
MarkOpen(t, p) ==
    run' = IF run[p] = "open"
             THEN [run EXCEPT ![p] = Verdict(tick[t].seen[p].status)] ELSE run

Known(t) == {p \in Proposals : tick[t].seen[p] # NoRecord}

Mark(t) ==
    LET p == Next1(tick[t].todo) IN
    /\ At(t, "mark") \/ At(t, "markAll")
    /\ tick[t].todo # {}
    /\ MarkOpen(t, p)
    /\ tick' = [tick EXCEPT ![t].todo = @ \ {p}]
    /\ UNCHANGED <<world, store, cursor, exposure, left, happened>>

\* Mutant of MarkAll: only a reorg of the source chain counts.
MarkAllIfEth(t) ==
    /\ At(t, "mark")
    /\ tick[t].todo = {}
    /\ IF tick[t].reorg["eth"]
         THEN tick' = [tick EXCEPT ![t].pc = "markAll", ![t].todo = Known(t)]
         ELSE tick' = [tick EXCEPT ![t].pc = "wallet"]
    /\ UNCHANGED <<world, store, cursor, exposure, run, left, happened>>

MarkAll(t) ==
    /\ At(t, "mark")
    /\ tick[t].todo = {}
    /\ IF \E c \in Chains : tick[t].reorg[c]
         THEN tick' = [tick EXCEPT ![t].pc = "markAll", ![t].todo = Known(t)]
         ELSE tick' = [tick EXCEPT ![t].pc = "wallet"]
    /\ UNCHANGED <<world, store, cursor, exposure, run, left, happened>>

(* The wallets that are monitored and their positions, which decide what   *)
(* is relevant; without one, or without records, the tick is over.  In any *)
(* record the asset may be missing, from a read that failed when the       *)
(* record was made.                                                        *)
ExposedTo(holding, listed, unread) ==
    {p \in listed : Relevant(CallsOf[p], p \notin unread, holding)}

ReadWallet(t) ==
    /\ At(t, "wallet") \/ (At(t, "markAll") /\ tick[t].todo = {})
    /\ \E unread \in SUBSET Known(t) :
         tick' = [tick EXCEPT ![t] =
                    IF wallet = "unmonitored" \/ Known(t) = {} THEN IdleTick
                    ELSE [@ EXCEPT !.pc = "expose", !.todo = Known(t),
                                   !.factors = ExposedTo(wallet, Known(t), unread)]]
    /\ UNCHANGED <<world, store, cursor, exposure, run, left, happened>>

NextRecord(t, p) == IF tick[t].todo = {p} THEN IdleTick
                    ELSE [tick[t] EXCEPT !.pc = "expose", !.todo = @ \ {p}]

Expose(t) ==
    LET p == Next1(tick[t].todo)
        relevant == p \in tick[t].factors
        enqueue == ShouldEnqueue(KindOf[p], p \in Pinned, tick[t].seen[p].status, relevant,
                                 Transition(tick[t].previous[p], tick[t].seen[p].status),
                                 relevant /\ ~exposure[p]) IN
    /\ At(t, "expose")
    /\ exposure' = [exposure EXCEPT ![p] = relevant]
    /\ tick' = [tick EXCEPT ![t] = IF enqueue THEN [@ EXCEPT !.pc = "enqueue"]
                                   ELSE NextRecord(t, p)]
    /\ UNCHANGED <<world, store, cursor, run, left, happened>>

(* enqueuePinnedImpact: at capacity, too, the run is claimed or requeued.  *)
Enqueue(t) ==
    LET p == Next1(tick[t].todo) IN
    /\ At(t, "enqueue")
    /\ run' = IF run[p] = "COMPLETED" THEN run ELSE [run EXCEPT ![p] = "open"]
    /\ tick' = [tick EXCEPT ![t] = NextRecord(t, p)]
    /\ UNCHANGED <<world, store, cursor, exposure, left, happened>>

TickStep(t) ==
    \/ DetectEth(t) \/ AnchorEth(t) \/ UpsertProposal(t) \/ SaveEth(t)
    \/ ReadSource(t) \/ RefreshRecord(t)
    \/ DetectBase(t) \/ AnchorBase(t) \/ RefreshDestination(t) \/ SaveBase(t)
    \/ ListNext(t) \/ Mark(t) \/ MarkAll(t)
    \/ ReadWallet(t) \/ Expose(t) \/ Enqueue(t)

(* An await of the tick rejects: logged, and the tick is over.             *)
FailTick(t) ==
    /\ ~At(t, "idle")
    /\ Spend("failure")
    /\ tick' = [tick EXCEPT ![t] = IdleTick]
    /\ UNCHANGED <<world, store, cursor, exposure, run>>

(* The process dies.  The file is rewritten in place, so it may be cut     *)
(* off, and hydrate takes a file it cannot parse for an empty one.         *)
Crash ==
    /\ \E t \in Ticks : ~At(t, "idle")
    /\ Spend("crash")
    /\ tick' = [t \in Ticks |-> IdleTick]
    /\ \/ UNCHANGED <<store, cursor>>
       \/ /\ \E t \in Ticks : tick[t].pc \in WritingPcs
          /\ store' = NoRecords
          /\ cursor' = [c \in Chains |-> NoCursor]
    /\ UNCHANGED <<world, exposure, run>>
-----------------------------------------------------------------------------
(* The chains, the wallet's owner, the API and the simulator.              *)

Successors(raw) == CASE raw = 0 -> {1, 2}
                     [] raw = 1 -> {3, 4}
                     [] raw = 4 -> {2, 5, 6}
                     [] OTHER -> {}

GovernorMoves(p) ==
    /\ p <= count
    /\ Spend("governance")
    /\ \E raw \in Successors(governor[p]) : governor' = [governor EXCEPT ![p] = raw]
    /\ UNCHANGED <<chain, count, inForce, wallet, store, cursor, exposure, run, tick>>

NewProposal ==
    /\ count < LastProposal
    /\ Spend("governance")
    /\ count' = count + 1
    /\ UNCHANGED <<chain, governor, inForce, wallet, store, cursor, exposure, run, tick>>

\* Applied by its own execution, or replaced by a later proposal's.
FactorMoves(p) ==
    /\ p \in Watched
    /\ governor[p] = 5
    /\ Spend("governance")
    /\ inForce' = IF p \in inForce THEN inForce \ {p} ELSE inForce \cup {p}
    /\ UNCHANGED <<chain, governor, count, wallet, store, cursor, exposure, run, tick>>

NewBlock(c) ==
    /\ Spend("block")
    /\ chain' = [chain EXCEPT ![c] = Append(@, left["reorg"])]
    /\ UNCHANGED <<governor, count, inForce, wallet, store, cursor, exposure, run, tick>>

\* The blocks from n on are replaced by one of a new fork.
Reorganise(c, n) ==
    /\ n <= Height(c)
    /\ Spend("reorg")
    /\ chain' = [chain EXCEPT ![c] = Append(SubSeq(@, 1, n - 1), left["reorg"] - 1)]
    /\ \/ UNCHANGED governor
       \/ \E p \in Proposals : /\ c = "eth"
                               /\ governor[p] = 5
                               /\ governor' = [governor EXCEPT ![p] = 4]
    /\ UNCHANGED <<count, inForce, wallet, store, cursor, exposure, run, tick>>

WalletMoves ==
    /\ Spend("wallet")
    /\ wallet' \in (Holdings \cup {"unmonitored"}) \ {wallet}
    /\ UNCHANGED <<chain, governor, count, inForce, store, cursor, exposure, run, tick>>

PostImpact(p) ==
    /\ p <= count
    /\ run[p] \notin {"open", "COMPLETED"}
    /\ Spend("post")
    /\ run' = [run EXCEPT ![p] = "open"]
    /\ UNCHANGED <<world, store, cursor, exposure, tick>>

EndRun(p) ==
    /\ run[p] = "open"
    /\ Spend("end")
    /\ run' \in {[run EXCEPT ![p] = "COMPLETED"], [run EXCEPT ![p] = "FAILED"]}
    /\ UNCHANGED <<world, store, cursor, exposure, tick>>

Environment ==
    \/ \E p \in Proposals : GovernorMoves(p) \/ FactorMoves(p) \/ PostImpact(p) \/ EndRun(p)
    \/ NewProposal \/ WalletMoves
    \/ \E c \in Chains : NewBlock(c) \/ \E n \in 1..Height(c) : Reorganise(c, n)

Next ==
    \/ \E t \in Ticks : Begin(t) \/ TickStep(t) \/ FailTick(t)
    \/ Crash
    \/ Environment

Spec == Init /\ [][Next]_vars

(* The timer keeps starting ticks, and a tick's calls return or reject.    *)
Fairness == /\ WF_vars(\E t \in Ticks : Begin(t))
            /\ \A t \in Ticks : WF_vars(TickStep(t))

FairSpec == Spec /\ Fairness
-----------------------------------------------------------------------------
(* Every variable holds values of its type. *)
MonitorTypeOK ==
    /\ chain \in [Chains -> Seq(Nat)]
    /\ governor \in [Proposals -> RawStates]
    /\ count \in Proposals
    /\ inForce \subseteq Proposals
    /\ wallet \in Holdings \cup {"unmonitored"}
    /\ store \in [Proposals -> Record \cup {NoRecord}]
    /\ cursor \in [Chains -> Cursor]
    /\ exposure \in [Proposals -> BOOLEAN]
    /\ run \in [Proposals -> RunStatuses]
    /\ tick \in [Ticks -> Tick]
    /\ left \in [EventKinds -> Nat]
    /\ happened \subseteq EventKinds

Unspent(kinds) == happened \cap kinds = {}
Undisturbed == Unspent({"failure", "crash", "overlap"})

(* What the two chains say of a change, without the indexer's functions.   *)
CallsBase(p) == \E c \in CallsOf[p] : c.to = "base" /\ c.readable /\ c.calls # {}

TrueStatus(p) ==
    CASE governor[p] = 5 /\ CallsBase(p) /\ p \notin inForce -> "DESTINATION_PENDING"
      [] OTHER -> MapGovernorState(governor[p])

(* Whatever fails, crashes or overlaps, the store keeps coming back to     *)
(* what the chains say of every proposal (syncMoonwellGovernor visits the  *)
(* newest ones only, the refreshes the others), once the chains rest.      *)
(* Changes without calls for Base are left out: the refresh takes their    *)
(* source calls for destination calls, and an executed one stays           *)
(* DESTINATION_PENDING.                                                    *)
Converges ==
    \A p \in Proposals :
        CallsBase(p) => []<>(p > count \/ store[p].status = TrueStatus(p))

(* As long as nothing moved on either chain and no tick was disturbed, no  *)
(* open simulation is marked: the sync resets the newest executed change   *)
(* to DESTINATION_PENDING in every tick, and no tick may take that for a   *)
(* transition.                                                             *)
QuietChainsMarkNothing ==
    [][\A p \in Proposals :
         /\ Undisturbed
         /\ Unspent({"governance", "reorg", "rpcError"})
         /\ run[p] = "open"
         => run'[p] \notin {"STALE", "CANCELLED"}]_vars

(* No tick reports a reorg before a block was replaced or could not be     *)
(* read, although overlapping ticks save cursors out of order.             *)
NoFalseReorg ==
    Unspent({"reorg", "rpcError"}) =>
        \A t \in Ticks, c \in Chains : ~tick[t].reorg[c]

(* In undisturbed ticks, a simulation that is open while its change dies   *)
(* on chain, unknown to the store, does not stay open.                     *)
DiesUnseen(p) ==
    /\ run[p] = "open"
    /\ Indexed(p)
    /\ store[p].status \notin Dead
    /\ TrueStatus(p) \in Dead
    /\ \A t \in Ticks : ~At(t, "idle") => tick[t].previous[p] # "none"

TransitionsReachRuns ==
    \A p \in Proposals : DiesUnseen(p) ~> (run[p] # "open" \/ ~Undisturbed)

(* In undisturbed ticks, a reorg of either chain, once a tick has seen it, *)
(* closes every open simulation of an indexed change.                      *)
SeenInReorg(p) ==
    /\ run[p] = "open"
    /\ Indexed(p)
    /\ \E t \in Ticks, c \in Chains :
         tick[t].reorg[c] /\ tick[t].pc \notin {"markAll", "wallet", "expose", "enqueue"}

ReorgReachesRuns ==
    \A p \in Proposals : SeenInReorg(p) ~> (run[p] # "open" \/ ~Undisturbed)

(* In undisturbed ticks, a monitored wallet that keeps collateral in the   *)
(* market of a pinned, living change, from the start or by a later move,   *)
(* gets a simulation of it.  An enqueue that fails is a disturbance: the   *)
(* exposure is stored by then, and the code does not enqueue again.        *)
ExposedWalletGetsRun ==
    \A p \in Pinned :
        \/ []<>(wallet # "collateral" \/ p > count)
        \/ <>(run[p] # "none" \/ TrueStatus(p) \in Dead \/ ~Undisturbed)
-----------------------------------------------------------------------------
(* What the docs say of the monitor and the code does not do.              *)

(* Monitoring survives a reorg: some later tick finds the chains unchanged *)
(* again.                                                                  *)
ReorgIsSurvived ==
    []<>\E t \in Ticks : At(t, "list") /\ \A c \in Chains : ~tick[t].reorg[c]

(* Simulations are cancelled when the source truth changes, also when a    *)
(* tick fails on the way.                                                  *)
DeathReachesRuns == \A p \in Proposals : DiesUnseen(p) ~> run[p] # "open"
=============================================================================
