---------------------- MODULE GovernanceMonitor_proofs ----------------------
(***************************************************************************)
(* TLAPS proofs about GovernanceMonitor: for every number of proposals and *)
(* of ticks that overlap, whatever the proposals call, every lookback and  *)
(* every budget of events.                                                 *)
(*                                                                         *)
(* TypeInv: the types, with what a tick still has to do (Busy).            *)
(*                                                                         *)
(* ChainsTrusted: as long as no block was replaced and every read          *)
(* succeeded, cursors and anchors name blocks that are on their chain, in  *)
(* whatever order ticks save them.                                         *)
(*                                                                         *)
(* QuietInv: as long as nothing moves on chain and no tick is disturbed,   *)
(* there is one tick at a time, and the store holds nothing but what the   *)
(* sync makes of a proposal (Normal) or what the destination refresh makes *)
(* of that (Settled), and between ticks the latter: so no tick finds a     *)
(* status that differs from the one it began with.                         *)
(***************************************************************************)
EXTENDS GovernanceMonitor, FiniteSetTheorems, SequenceTheorems, WellFoundedInduction, TLAPS

(* What a tick still has to do, and what it read for it.                   *)
Busy(k) ==
    /\ k.pc \in {"upsert", "refresh", "destination", "expose", "enqueue"} => k.todo # {}
    /\ k.pc \in {"refresh", "destination"} => \A p \in k.todo : k.seen[p] # NoRecord
    /\ k.pc = "anchorEth" => k.cursor = NoCursor \/ k.cursor.last \in 1..count
    /\ k.pc \in {"upsert", "saveEth"} => k.last \in 1..count

TypeInv ==
    /\ MonitorTypeOK
    /\ cursor["eth"] = NoCursor \/ cursor["eth"].last \in 1..count
    /\ \A t \in Ticks : Busy(tick[t])

(* A hash that is one of the chain's.                                      *)
OnChain(c, hash) == hash[1] <= Height(c) /\ hash = HashOf(c, hash[1])

EthPcs == {"upsert", "saveEth"}
BasePcs == {"destination", "saveBase"}

Trusted(k) ==
    /\ k.pc \in EthPcs => OnChain("eth", k.safe)
    /\ k.pc \in BasePcs => OnChain("base", k.safe)
    /\ \A c \in Chains : ~k.reorg[c]

ChainsTrusted ==
    Unspent({"reorg", "rpcError"}) =>
        /\ \A c \in Chains : OnChain(c, cursor[c].hash) /\ cursor[c].block = cursor[c].hash[1]
        /\ \A t \in Ticks : Trusted(tick[t])
-----------------------------------------------------------------------------
(* What the sync stores of a proposal, and what is left of that after the  *)
(* refresh of destination statuses.                                        *)
Normal(p) == IF p > count \/ CallsOf[p] = {} THEN NoRecord
             ELSE Normalized(governor[p], KindOf[p])

Settled(p) == IF p \in Watched /\ Normal(p) # NoRecord
                THEN WithDestination(Normal(p), p \in inForce) ELSE Normal(p)

Quiet == Undisturbed /\ Unspent({"governance", "reorg", "rpcError"})

HoldsOne(p) == store[p] \in {Normal(p), Settled(p)}

AllSettled == \A p \in Proposals : store[p] = Settled(p)

(* Between two ticks: the first has yet to come, or the store is settled.  *)
Rest == \/ cursor["eth"] = NoCursor /\ \A p \in Proposals : store[p] = NoRecord
        \/ AllSettled

Early == {"detectEth", "anchorEth"}
Between == {"saveEth", "readSource", "refresh", "detectBase", "anchorBase"}
Late == {"saveBase", "list", "mark", "wallet", "expose", "enqueue"}

QuietTick(k) ==
    /\ k.pc # "markAll"
    /\ k.pc # "idle" => \A p \in Proposals : k.previous[p] \in {"none", Settled(p).status}
    /\ k.pc = "anchorEth" => k.cursor = cursor["eth"]
    /\ k.pc \in Early => Rest
    /\ k.pc = "upsert" =>
         /\ k.raws = governor /\ k.todo \subseteq 1..count
         /\ \A p \in Proposals : HoldsOne(p) \/ (p \in k.todo /\ CallsOf[p] # {})
    /\ k.pc \in Between => \A p \in Proposals : HoldsOne(p)
    /\ k.pc = "refresh" => k.raws = governor /\ k.seen = store
    /\ k.pc = "destination" =>
         /\ k.factors = inForce /\ k.todo \subseteq Watched
         /\ \A p \in Proposals : IF p \in k.todo THEN k.seen[p] = store[p] /\ HoldsOne(p)
                                 ELSE store[p] = Settled(p)
    /\ k.pc \in Late => AllSettled
    /\ k.pc = "mark" => k.todo = {}

QuietInv ==
    Quiet => /\ \A t, u \in Ticks : ~At(t, "idle") /\ ~At(u, "idle") => t = u
             /\ (\A t \in Ticks : At(t, "idle")) => Rest
             /\ \A t \in Ticks : QuietTick(tick[t])
-----------------------------------------------------------------------------
(* Statuses and records.                                                   *)

LEMMA MonitorNumbers ==
    /\ LastProposal \in Nat /\ LastProposal >= 1 /\ InitialCount \in Proposals
    /\ Proposals = 1..LastProposal /\ Proposals \subseteq Nat
    /\ CallsOf \in [Proposals -> SUBSET SourceCalls]
    /\ Lookback \in Nat /\ Budgets \subseteq [EventKinds -> Nat]
    /\ IsFiniteSet(Proposals)
  BY MonitorAssumption, FS_Interval DEF Proposals

LEMMA SourceTyped == \A raw \in RawStates : MapGovernorState(raw) \in SourceStatuses
  BY DEF RawStates, MapGovernorState, SourceStatuses

LEMMA RecordsTyped ==
    /\ \A raw \in RawStates : \A kind : Normalized(raw, kind) \in Record /\ Normalized(raw, kind).raw = raw
    /\ \A record \in Record, raw \in RawStates :
         Refreshed(record, raw) \in Record /\ Refreshed(record, raw).raw = raw
    /\ \A record \in Record, force \in BOOLEAN :
         /\ WithDestination(record, force) \in Record
         /\ WithDestination(record, force).raw = record.raw
    /\ \A record \in Record : record # NoRecord /\ record.status # "none" /\ record.raw \in RawStates
<1> DEFINE all == SourceStatuses \cup {"DESTINATION_PENDING"}
<1>1. \A source \in SourceStatuses : \A destination, has : Combine(source, destination, has) \in all
  BY DEF Combine
<1>2. \A source \in SourceStatuses, force \in BOOLEAN : DestinationStatus(source, force) \in all
  BY DEF DestinationStatus, SourceStatuses, Dead
<1>3. ASSUME NEW raw \in RawStates, NEW kind
      PROVE  Normalized(raw, kind) \in Record /\ Normalized(raw, kind).raw = raw
  <2>1. MapGovernorState(raw) \in SourceStatuses
    BY SourceTyped
  <2> DEFINE destination == IF MapGovernorState(raw) = "EXECUTED" /\ kind # "source"
                              THEN "DESTINATION_PENDING" ELSE "UNKNOWN"
  <2>2. destination \in all
    BY DEF SourceStatuses
  <2>3. Normalized(raw, kind) = [raw |-> raw, destination |-> destination,
                                 status |-> Combine(MapGovernorState(raw), destination, kind # "source")]
    BY DEF Normalized
  <2> HIDE DEF destination
  <2> QED
    BY <1>1, <2>1, <2>2, <2>3 DEF Record
<1>4. ASSUME NEW record \in Record, NEW raw \in RawStates
      PROVE  Refreshed(record, raw) \in Record /\ Refreshed(record, raw).raw = raw
  <2>1. Combine(MapGovernorState(raw), record.destination, TRUE) \in all
    BY <1>1, SourceTyped
  <2> QED
    BY <2>1 DEF Refreshed, Record
<1>5. ASSUME NEW record \in Record, NEW force \in BOOLEAN
      PROVE  /\ WithDestination(record, force) \in Record
             /\ WithDestination(record, force).raw = record.raw
  <2>1. Source(record) \in SourceStatuses
    BY SourceTyped DEF Source, Record
  <2> DEFINE destination == DestinationStatus(Source(record), force)
  <2>2. destination \in all /\ Combine(Source(record), destination, TRUE) \in all
    BY <1>1, <1>2, <2>1
  <2>3. WithDestination(record, force) =
          [record EXCEPT !.destination = destination,
                         !.status = Combine(Source(record), destination, TRUE)]
    BY DEF WithDestination
  <2> HIDE DEF destination
  <2> QED
    BY <2>2, <2>3 DEF Record
<1>6. ASSUME NEW record \in Record
      PROVE  record # NoRecord /\ record.status # "none" /\ record.raw \in RawStates
  BY DEF Record, NoRecord, SourceStatuses
<1> QED
  BY <1>3, <1>4, <1>5, <1>6

LEMMA DestinationTypedRecord ==
    ASSUME NEW record \in Record, NEW force \in BOOLEAN
    PROVE  WithDestination(record, force) \in Record /\ WithDestination(record, force).raw = record.raw
  BY RecordsTyped

(* A destination status is found anew from the raw state: twice is once.   *)
LEMMA DestinationAgain ==
    ASSUME NEW record \in Record, NEW force \in BOOLEAN
    PROVE  WithDestination(WithDestination(record, force), force) = WithDestination(record, force)
<1> DEFINE destination == DestinationStatus(Source(record), force)
           once == WithDestination(record, force)
           status == Combine(Source(record), destination, TRUE)
<1>1. once = [record EXCEPT !.destination = destination, !.status = status]
  BY DEF WithDestination
<1>2. once \in Record /\ once.raw = record.raw
  BY RecordsTyped
<1>3. once.destination = destination /\ once.status = status
  BY <1>1 DEF Record
<1>4. Source(once) = Source(record)
  BY <1>2 DEF Source
<1>5. WithDestination(once, force) = [once EXCEPT !.destination = destination, !.status = status]
  BY <1>4 DEF WithDestination
<1> HIDE DEF once, destination, status
<1>6. [once EXCEPT !.destination = destination, !.status = status] = once
  BY <1>2, <1>3 DEF Record
<1> QED
  BY <1>5, <1>6 DEF once

(* A loop takes the smallest proposal that is left.                        *)
LEMMA NextOfLoop ==
    ASSUME NEW todo \in SUBSET Proposals, todo # {}
    PROVE  Next1(todo) \in todo
<1> DEFINE Below(x) == {y \in todo : y <= x}
           below == {Below(x) : x \in todo}
<1>1. IsFiniteSet(todo) /\ todo \subseteq Nat
  BY MonitorNumbers, FS_Subset
<1>2. below \subseteq FiniteSubsetsOf(todo) /\ below # {}
  <2>1. ASSUME NEW x \in todo PROVE Below(x) \in FiniteSubsetsOf(todo)
    <3>1. Below(x) \in SUBSET todo
      OBVIOUS
    <3>2. IsFiniteSet(Below(x))
      BY <1>1, <3>1, FS_Subset
    <3> QED
      BY <3>1, <3>2 DEF FiniteSubsetsOf
  <2> QED
    BY <2>1
<1>3. PICK least \in below : \A other \in below : ~(<<other, least>> \in StrictSubsetOrdering(todo))
  BY <1>2, WFMin, FS_StrictSubsetOrderingWellFounded
<1>4. PICK p \in todo : least = Below(p)
  OBVIOUS
<1>5. ASSUME NEW q \in todo, ~(p <= q) PROVE FALSE
  <2>1. p \in Nat /\ q \in Nat /\ q < p
    BY <1>1, <1>5
  <2>3. \A y \in todo : y <= q => y <= p
    BY <1>1, <2>1
  <2>4. p \in Below(p) /\ p \notin Below(q) /\ q \in Below(q)
    BY <1>1, <2>1
  <2>5. Below(q) \subseteq Below(p) /\ Below(q) # Below(p)
    BY <2>3, <2>4
  <2>2. <<Below(q), Below(p)>> \in StrictSubsetOrdering(todo)
    BY <2>5 DEF StrictSubsetOrdering
  <2> QED
    BY <1>3, <1>4, <2>2
<1> QED
  BY <1>5 DEF Next1

-----------------------------------------------------------------------------
(* The types.                                                              *)

(* One tick moves, and the world does not.                                 *)
Moves(t, k) == tick' = [tick EXCEPT ![t] = k]

(* What a step may do to the store, the cursors and the counts.            *)
StoreTyped ==
    /\ store \in [Proposals -> Record \cup {NoRecord}]
    /\ cursor \in [Chains -> Cursor]
    /\ cursor["eth"] = NoCursor \/ cursor["eth"].last \in 1..count
    /\ exposure \in [Proposals -> BOOLEAN]
    /\ run \in [Proposals -> RunStatuses]
    /\ left \in [EventKinds -> Nat]
    /\ happened \subseteq EventKinds

LEMMA TickMoves ==
    ASSUME TypeInv, NEW t \in Ticks, NEW k \in Tick, Busy(k), Moves(t, k),
           UNCHANGED world, StoreTyped'
    PROVE  /\ TypeInv' /\ tick'[t] = k
           /\ \A u \in Ticks \ {t} : tick'[u] = tick[u]
<1>1. /\ tick' \in [Ticks -> Tick] /\ tick'[t] = k
      /\ \A u \in Ticks \ {t} : tick'[u] = tick[u]
  BY DEF TypeInv, MonitorTypeOK, Moves
<1>2. MonitorTypeOK'
  BY <1>1 DEF TypeInv, MonitorTypeOK, StoreTyped, world
<1>3. ASSUME NEW u \in Ticks PROVE Busy(tick[u])'
  <2>1. Busy(tick'[u])
    BY <1>1 DEF TypeInv
  <2> QED
    BY <2>1 DEF Busy, world
<1> QED
  BY <1>1, <1>2, <1>3 DEF TypeInv, StoreTyped

LEMMA SpendTyped ==
    ASSUME TypeInv, NEW kind \in EventKinds, Spend(kind)
    PROVE  /\ left' \in [EventKinds -> Nat] /\ happened' \subseteq EventKinds
           /\ happened' = happened \cup {kind}
  BY DEF Spend, TypeInv, MonitorTypeOK

LEMMA NothingRead ==
    /\ NoStatuses \in [Proposals -> {"none"} \cup SourceStatuses \cup {"DESTINATION_PENDING"}]
    /\ NoRecords \in [Proposals -> Record \cup {NoRecord}]
    /\ NoRaws \in [Proposals -> RawStates]
    /\ NoHash \in Hashes /\ NoCursor \in Cursor
    /\ IdleTick \in Tick /\ Busy(IdleTick) /\ IdleTick.pc = "idle"
    /\ \A c \in Chains : ~IdleTick.reorg[c]
<1>1. /\ NoStatuses \in [Proposals -> {"none"} \cup SourceStatuses \cup {"DESTINATION_PENDING"}]
      /\ NoRecords \in [Proposals -> Record \cup {NoRecord}]
      /\ NoRaws \in [Proposals -> RawStates]
  BY DEF NoStatuses, NoRecords, NoRaws, RawStates
<1>2. NoHash \in Hashes /\ NoCursor \in Cursor
  BY DEF NoHash, Hashes, NoCursor, Cursor
<1>3. IdleTick \in Tick
  BY <1>1, <1>2 DEF IdleTick, Tick, TickPcs
<1> QED
  BY <1>1, <1>2, <1>3 DEF Busy, IdleTick

LEMMA BeginTyped ==
    ASSUME TypeInv, NEW t \in Ticks, Begin(t)
    PROVE  /\ TypeInv'
           /\ tick'[t] = [tick[t] EXCEPT !.pc = "detectEth",
                                         !.previous = [p \in Proposals |-> store[p].status]]
           /\ \A u \in Ticks \ {t} : tick'[u] = tick[u]
<1> DEFINE k == [tick[t] EXCEPT !.pc = "detectEth",
                                !.previous = [p \in Proposals |-> store[p].status]]
<1>1. \A p \in Proposals : store[p].status \in {"none"} \cup SourceStatuses \cup {"DESTINATION_PENDING"}
  BY DEF TypeInv, MonitorTypeOK, Record, NoRecord
<1>2. tick[t] \in Tick
  BY DEF TypeInv, MonitorTypeOK
<1>3. k \in Tick /\ k.pc = "detectEth"
  BY <1>1, <1>2 DEF Tick, TickPcs
<1>4. Busy(k)
  BY <1>3 DEF Busy
<1>5. Moves(t, k)
  BY DEF Begin, Moves, TypeInv, MonitorTypeOK
<1>6. StoreTyped' /\ UNCHANGED world
  <2>1. left' \in [EventKinds -> Nat] /\ happened' \subseteq EventKinds
    BY SpendTyped DEF Begin, SpendNothing, EventKinds, TypeInv, MonitorTypeOK
  <2> QED
    BY <2>1 DEF StoreTyped, Begin, TypeInv, MonitorTypeOK, world
<1> HIDE DEF k
<1>7. TypeInv' /\ tick'[t] = k /\ \A u \in Ticks \ {t} : tick'[u] = tick[u]
  BY <1>3, <1>4, <1>5, <1>6, TickMoves
<1> QED
  BY <1>7 DEF k

Detected(t, c, to) ==
    \E found \in BOOLEAN :
        /\ tick'[t].pc = to /\ tick'[t].cursor = cursor[c]
        /\ tick'[t].reorg = [tick[t].reorg EXCEPT ![c] = found]
        /\ tick'[t].previous = tick[t].previous
        /\ found => \/ cursor[c] # NoCursor /\ CursorStale(c)
                    \/ "rpcError" \in happened'

LEMMA DetectTyped ==
    ASSUME TypeInv, NEW t \in Ticks, NEW c \in Chains, NEW to \in {"anchorEth", "anchorBase"},
           to = "anchorEth" => c = "eth", DetectReorg(t, c, to)
    PROVE  /\ TypeInv' /\ Detected(t, c, to)
           /\ \A u \in Ticks \ {t} : tick'[u] = tick[u]
<1>1. PICK found \in BOOLEAN :
        /\ ReadCursor(t, c, found, to)
        /\ found => (cursor[c] # NoCursor /\ CursorStale(c)) \/ "rpcError" \in happened'
  <2>1. CASE ReadCursor(t, c, cursor[c] # NoCursor /\ CursorStale(c), to)
    BY <2>1
  <2>2. CASE Spend("rpcError") /\ ReadCursor(t, c, TRUE, to)
    BY <2>2, SpendTyped DEF EventKinds
  <2> QED
    BY <2>1, <2>2 DEF DetectReorg
<1> DEFINE k == [tick[t] EXCEPT !.pc = to, !.cursor = cursor[c], !.reorg[c] = found]
<1>2. tick[t] \in Tick /\ cursor[c] \in Cursor
  BY DEF TypeInv, MonitorTypeOK
<1>3. /\ k \in Tick /\ k.pc = to /\ k.cursor = cursor[c] /\ k.previous = tick[t].previous
      /\ k.reorg = [tick[t].reorg EXCEPT ![c] = found]
  BY <1>2 DEF Tick, TickPcs
<1>4. Busy(k)
  BY <1>3 DEF Busy, TypeInv
<1>5. Moves(t, k)
  BY <1>1 DEF ReadCursor, Moves, TypeInv, MonitorTypeOK
<1>6. StoreTyped' /\ UNCHANGED world
  <2>1. left' \in [EventKinds -> Nat] /\ happened' \subseteq EventKinds
    BY SpendTyped DEF DetectReorg, SpendNothing, EventKinds, TypeInv, MonitorTypeOK
  <2> QED
    BY <2>1 DEF StoreTyped, DetectReorg, TypeInv, MonitorTypeOK, world
<1> HIDE DEF k
<1>7. TypeInv' /\ tick'[t] = k /\ \A u \in Ticks \ {t} : tick'[u] = tick[u]
  BY <1>3, <1>4, <1>5, <1>6, TickMoves
<1> QED
  BY <1>1, <1>3, <1>7 DEF Detected

LEMMA HashTyped ==
    ASSUME TypeInv, NEW c \in Chains
    PROVE  SafeHash(c) \in Hashes /\ Height(c) \in Nat
<1>1. chain[c] \in Seq(Nat) /\ Height(c) \in Nat
  BY DEF TypeInv, MonitorTypeOK, Height
<1>2. Height(c) # 0 => chain[c][Height(c)] \in Nat
  BY <1>1, ElementOfSeq DEF Height
<1> QED
  BY <1>1, <1>2, NothingRead DEF SafeHash, HashOf, Hashes

LEMMA AnchorEthTyped ==
    ASSUME TypeInv, NEW t \in Ticks, AnchorEth(t)
    PROVE  /\ TypeInv'
           /\ \E first \in 1..count :
                /\ first = IF tick[t].cursor = NoCursor THEN 1 ELSE tick[t].cursor.last
                /\ tick'[t] = [tick[t] EXCEPT !.pc = "upsert", !.todo = first..count,
                                              !.raws = governor, !.safe = SafeHash("eth"),
                                              !.last = count]
           /\ \A u \in Ticks \ {t} : tick'[u] = tick[u]
<1> DEFINE first == IF tick[t].cursor = NoCursor THEN 1 ELSE tick[t].cursor.last
           k == [tick[t] EXCEPT !.pc = "upsert", !.todo = first..count, !.raws = governor,
                                !.safe = SafeHash("eth"), !.last = count]
<1>1. tick[t] \in Tick /\ Busy(tick[t]) /\ tick[t].pc = "anchorEth"
  BY DEF TypeInv, MonitorTypeOK, AnchorEth, At
<1>2. count \in Proposals /\ count \in Nat /\ count >= 1 /\ 1..count \subseteq Proposals
  BY MonitorNumbers DEF TypeInv, MonitorTypeOK, Proposals
<1>3. first \in 1..count
  BY <1>1, <1>2 DEF Busy
<1>4. first..count \in SUBSET Proposals /\ first..count # {}
  BY <1>2, <1>3
<1>5. Moves(t, k)
  BY DEF AnchorEth, Moves, TypeInv, MonitorTypeOK
<1> HIDE DEF first
<1>6. k \in Tick /\ k.pc = "upsert" /\ k.todo # {} /\ k.last = count
  BY <1>1, <1>2, <1>4, HashTyped DEF Tick, TickPcs, WritingPcs, TypeInv, MonitorTypeOK, Chains
<1>7. Busy(k)
  BY <1>2, <1>6 DEF Busy
<1>8. StoreTyped' /\ UNCHANGED world
  BY DEF StoreTyped, AnchorEth, TypeInv, MonitorTypeOK, world
<1> HIDE DEF k
<1>9. TypeInv' /\ tick'[t] = k /\ \A u \in Ticks \ {t} : tick'[u] = tick[u]
  BY <1>5, <1>6, <1>7, <1>8, TickMoves
<1> QED
  BY <1>3, <1>9 DEF k, first

LEMMA UpsertTyped ==
    ASSUME TypeInv, NEW t \in Ticks, UpsertProposal(t)
    PROVE  /\ TypeInv'
           /\ Next1(tick[t].todo) \in tick[t].todo
           /\ tick'[t] = [tick[t] EXCEPT
                            !.todo = @ \ {Next1(tick[t].todo)},
                            !.pc = IF tick[t].todo = {Next1(tick[t].todo)} THEN "saveEth" ELSE @]
           /\ \A u \in Ticks \ {t} : tick'[u] = tick[u]
<1> DEFINE p == Next1(tick[t].todo)
           k == [tick[t] EXCEPT !.todo = @ \ {p},
                                !.pc = IF tick[t].todo = {p} THEN "saveEth" ELSE @]
<1>1. tick[t] \in Tick /\ Busy(tick[t]) /\ tick[t].pc = "upsert"
  BY DEF TypeInv, MonitorTypeOK, UpsertProposal, At
<1>2. p \in tick[t].todo /\ tick[t].todo \in SUBSET Proposals
  BY <1>1, NextOfLoop DEF Busy, Tick
<1>3. Moves(t, k)
  BY DEF UpsertProposal, Moves, TypeInv, MonitorTypeOK
<1>4. StoreTyped' /\ UNCHANGED world
  <2>1. tick[t].raws[p] \in RawStates
    BY <1>1, <1>2 DEF Tick
  <2>2. Normalized(tick[t].raws[p], KindOf[p]) \in Record
    BY <2>1, RecordsTyped
  <2>3. store' \in [Proposals -> Record \cup {NoRecord}]
    BY <2>2 DEF UpsertProposal, TypeInv, MonitorTypeOK
  <2> QED
    BY <2>3 DEF StoreTyped, UpsertProposal, TypeInv, MonitorTypeOK, world
<1> HIDE DEF p
<1>5. /\ k \in Tick /\ k.todo = tick[t].todo \ {p} /\ k.last = tick[t].last
      /\ k.pc = IF tick[t].todo = {p} THEN "saveEth" ELSE "upsert"
  BY <1>1, <1>2 DEF Tick, TickPcs, WritingPcs
<1>6. Busy(k)
  BY <1>1, <1>2, <1>5 DEF Busy
<1> HIDE DEF k
<1>7. TypeInv' /\ tick'[t] = k /\ \A u \in Ticks \ {t} : tick'[u] = tick[u]
  BY <1>3, <1>4, <1>5, <1>6, TickMoves
<1> QED
  BY <1>2, <1>7 DEF k, p

LEMMA SavedTyped ==
    ASSUME TypeInv, NEW t \in Ticks, NEW c \in Chains, NEW last \in Nat
    PROVE  Saved(t, c, last) \in Cursor /\ Saved(t, c, last).last = last
<1>1. /\ tick[t].cursor.block \in Nat /\ tick[t].safe \in Hashes
      /\ tick[t].safe[1] \in Nat
  BY DEF TypeInv, MonitorTypeOK, Tick, Cursor, Hashes
<1>2. RolledBack(tick[t].cursor) \in Nat
  BY <1>1, MonitorNumbers DEF RolledBack
<1>3. Saved(t, c, last).block \in Nat
  BY <1>1, <1>2 DEF Saved, Smaller
<1> QED
  BY <1>1, <1>3 DEF Saved, Cursor

LEMMA SaveEthTyped ==
    ASSUME TypeInv, NEW t \in Ticks, SaveEth(t)
    PROVE  /\ TypeInv'
           /\ tick'[t] = [tick[t] EXCEPT !.pc = "readSource", !.raws = NoRaws, !.safe = NoHash,
                                         !.last = 0, !.cursor = NoCursor]
           /\ \A u \in Ticks \ {t} : tick'[u] = tick[u]
           /\ cursor'["eth"] = Saved(t, "eth", tick[t].last) /\ cursor'["base"] = cursor["base"]
<1> DEFINE k == [tick[t] EXCEPT !.pc = "readSource", !.raws = NoRaws, !.safe = NoHash,
                                !.last = 0, !.cursor = NoCursor]
<1>1. tick[t] \in Tick /\ tick[t].last \in 1..count /\ tick[t].last \in Nat
  BY DEF TypeInv, MonitorTypeOK, SaveEth, At, Busy
<1>2. k \in Tick /\ k.pc = "readSource"
  BY <1>1, NothingRead DEF Tick, TickPcs
<1>3. Busy(k)
  BY <1>2 DEF Busy
<1>4. Moves(t, k)
  BY DEF SaveEth, Moves, TypeInv, MonitorTypeOK
<1>5. Saved(t, "eth", tick[t].last) \in Cursor /\ Saved(t, "eth", tick[t].last).last \in 1..count
  BY <1>1, SavedTyped DEF Chains
<1>6. /\ cursor'["eth"] = Saved(t, "eth", tick[t].last) /\ cursor'["base"] = cursor["base"]
      /\ cursor' \in [Chains -> Cursor]
  BY <1>5 DEF SaveEth, TypeInv, MonitorTypeOK, Chains
<1>7. StoreTyped' /\ UNCHANGED world
  BY <1>5, <1>6 DEF StoreTyped, SaveEth, TypeInv, MonitorTypeOK, world
<1> HIDE DEF k
<1>8. TypeInv' /\ tick'[t] = k /\ \A u \in Ticks \ {t} : tick'[u] = tick[u]
  BY <1>2, <1>3, <1>4, <1>7, TickMoves
<1> QED
  BY <1>6, <1>8 DEF k

LEMMA ListedTyped ==
    ASSUME TypeInv
    PROVE  Listed \in SUBSET Proposals /\ \A p \in Listed : store[p] # NoRecord
  BY DEF Listed, Indexed, NoRecord

LEMMA ReadSourceTyped ==
    ASSUME TypeInv, NEW t \in Ticks, ReadSource(t)
    PROVE  /\ TypeInv'
           /\ tick'[t] = [tick[t] EXCEPT
                            !.pc = IF Listed = {} THEN "detectBase" ELSE "refresh",
                            !.todo = Listed, !.seen = store, !.raws = governor]
           /\ \A u \in Ticks \ {t} : tick'[u] = tick[u]
<1> DEFINE k == [tick[t] EXCEPT !.pc = IF Listed = {} THEN "detectBase" ELSE "refresh",
                                !.todo = Listed, !.seen = store, !.raws = governor]
<1>1. tick[t] \in Tick
  BY DEF TypeInv, MonitorTypeOK
<1>2. /\ k \in Tick /\ k.pc = IF Listed = {} THEN "detectBase" ELSE "refresh"
      /\ k.todo = Listed /\ k.seen = store
  BY <1>1, ListedTyped DEF Tick, TickPcs, WritingPcs, TypeInv, MonitorTypeOK
<1>3. Busy(k)
  BY <1>2, ListedTyped DEF Busy
<1>4. Moves(t, k)
  BY DEF ReadSource, Moves, TypeInv, MonitorTypeOK
<1>5. StoreTyped' /\ UNCHANGED world
  BY DEF StoreTyped, ReadSource, TypeInv, MonitorTypeOK, world
<1> HIDE DEF k
<1>6. TypeInv' /\ tick'[t] = k /\ \A u \in Ticks \ {t} : tick'[u] = tick[u]
  BY <1>2, <1>3, <1>4, <1>5, TickMoves
<1> QED
  BY <1>6 DEF k

(* Both refreshes go through their list, and forget it with its last       *)
(* record.                                                                 *)
LEMMA RefreshTyped ==
    ASSUME TypeInv, NEW t \in Ticks, RefreshRecord(t)
    PROVE  /\ TypeInv'
           /\ Next1(tick[t].todo) \in tick[t].todo
           /\ tick[t].seen[Next1(tick[t].todo)] \in Record
           /\ tick'[t] = LET done == tick[t].todo = {Next1(tick[t].todo)} IN
                         [tick[t] EXCEPT !.todo = @ \ {Next1(tick[t].todo)},
                                         !.pc = IF done THEN "detectBase" ELSE @,
                                         !.seen = IF done THEN NoRecords ELSE @,
                                         !.raws = IF done THEN NoRaws ELSE @]
           /\ \A u \in Ticks \ {t} : tick'[u] = tick[u]
<1> DEFINE p == Next1(tick[t].todo)
           done == tick[t].todo = {p}
           k == [tick[t] EXCEPT !.todo = @ \ {p}, !.pc = IF done THEN "detectBase" ELSE @,
                                !.seen = IF done THEN NoRecords ELSE @,
                                !.raws = IF done THEN NoRaws ELSE @]
<1>1. tick[t] \in Tick /\ Busy(tick[t]) /\ tick[t].pc = "refresh"
  BY DEF TypeInv, MonitorTypeOK, RefreshRecord, At
<1>2. p \in tick[t].todo /\ tick[t].todo \in SUBSET Proposals
  BY <1>1, NextOfLoop DEF Busy, Tick
<1>3. tick[t].seen[p] \in Record /\ tick[t].raws[p] \in RawStates
  BY <1>1, <1>2 DEF Busy, Tick
<1>4. Moves(t, k)
  BY DEF RefreshRecord, Moves, TypeInv, MonitorTypeOK
<1>5. StoreTyped' /\ UNCHANGED world
  <2>1. Refreshed(tick[t].seen[p], tick[t].raws[p]) \in Record
    BY <1>3, RecordsTyped
  <2>2. store' \in [Proposals -> Record \cup {NoRecord}]
    BY <2>1 DEF RefreshRecord, TypeInv, MonitorTypeOK
  <2> QED
    BY <2>2 DEF StoreTyped, RefreshRecord, TypeInv, MonitorTypeOK, world
<1> HIDE DEF p
<1>6. /\ k \in Tick /\ k.todo = tick[t].todo \ {p}
      /\ k.pc = IF done THEN "detectBase" ELSE "refresh"
      /\ k.seen = IF done THEN NoRecords ELSE tick[t].seen
  BY <1>1, <1>2, NothingRead DEF Tick, TickPcs, WritingPcs
<1>7. Busy(k)
  BY <1>1, <1>2, <1>6 DEF Busy
<1> HIDE DEF k
<1>8. TypeInv' /\ tick'[t] = k /\ \A u \in Ticks \ {t} : tick'[u] = tick[u]
  BY <1>4, <1>5, <1>6, <1>7, TickMoves
<1> QED
  BY <1>2, <1>3, <1>8 DEF k, p

LEMMA AnchorBaseTyped ==
    ASSUME TypeInv, NEW t \in Ticks, AnchorBase(t)
    PROVE  /\ TypeInv'
           /\ tick'[t] = [tick[t] EXCEPT
                            !.pc = IF Listed \cap Watched = {} THEN "saveBase" ELSE "destination",
                            !.todo = Listed \cap Watched, !.seen = store,
                            !.factors = inForce, !.safe = SafeHash("base")]
           /\ \A u \in Ticks \ {t} : tick'[u] = tick[u]
<1> DEFINE todo == Listed \cap Watched
           k == [tick[t] EXCEPT !.pc = IF todo = {} THEN "saveBase" ELSE "destination",
                                !.todo = todo, !.seen = store, !.factors = inForce,
                                !.safe = SafeHash("base")]
<1>1. tick[t] \in Tick
  BY DEF TypeInv, MonitorTypeOK
<1>2. todo \in SUBSET Proposals /\ \A p \in todo : store[p] # NoRecord
  BY ListedTyped
<1>3. Moves(t, k)
  BY DEF AnchorBase, Moves, TypeInv, MonitorTypeOK
<1> HIDE DEF todo
<1>4. /\ k \in Tick /\ k.pc = IF todo = {} THEN "saveBase" ELSE "destination"
      /\ k.todo = todo /\ k.seen = store
  BY <1>1, <1>2, HashTyped DEF Tick, TickPcs, WritingPcs, TypeInv, MonitorTypeOK, Chains
<1>5. Busy(k)
  BY <1>2, <1>4 DEF Busy
<1>6. StoreTyped' /\ UNCHANGED world
  BY DEF StoreTyped, AnchorBase, TypeInv, MonitorTypeOK, world
<1> HIDE DEF k
<1>7. TypeInv' /\ tick'[t] = k /\ \A u \in Ticks \ {t} : tick'[u] = tick[u]
  BY <1>3, <1>4, <1>5, <1>6, TickMoves
<1> QED
  BY <1>7 DEF k, todo

LEMMA DestinationTyped ==
    ASSUME TypeInv, NEW t \in Ticks, RefreshDestination(t)
    PROVE  /\ TypeInv'
           /\ Next1(tick[t].todo) \in tick[t].todo
           /\ tick[t].seen[Next1(tick[t].todo)] \in Record
           /\ tick'[t] = LET done == tick[t].todo = {Next1(tick[t].todo)} IN
                         [tick[t] EXCEPT !.todo = @ \ {Next1(tick[t].todo)},
                                         !.pc = IF done THEN "saveBase" ELSE @,
                                         !.seen = IF done THEN NoRecords ELSE @,
                                         !.factors = IF done THEN {} ELSE @]
           /\ \A u \in Ticks \ {t} : tick'[u] = tick[u]
<1> DEFINE p == Next1(tick[t].todo)
           done == tick[t].todo = {p}
           k == [tick[t] EXCEPT !.todo = @ \ {p}, !.pc = IF done THEN "saveBase" ELSE @,
                                !.seen = IF done THEN NoRecords ELSE @,
                                !.factors = IF done THEN {} ELSE @]
<1>1. tick[t] \in Tick /\ Busy(tick[t]) /\ tick[t].pc = "destination"
  BY DEF TypeInv, MonitorTypeOK, RefreshDestination, At
<1>2. p \in tick[t].todo /\ tick[t].todo \in SUBSET Proposals
  BY <1>1, NextOfLoop DEF Busy, Tick
<1>3. tick[t].seen[p] \in Record
  BY <1>1, <1>2 DEF Busy, Tick
<1>4. Moves(t, k)
  BY DEF RefreshDestination, Moves, TypeInv, MonitorTypeOK
<1>5. StoreTyped' /\ UNCHANGED world
  <2>1. WithDestination(tick[t].seen[p], p \in tick[t].factors) \in Record
    <3>1. (p \in tick[t].factors) \in BOOLEAN
      OBVIOUS
    <3> QED
      BY <1>3, <3>1, DestinationTypedRecord
  <2>2. store' \in [Proposals -> Record \cup {NoRecord}]
    BY <2>1 DEF RefreshDestination, TypeInv, MonitorTypeOK
  <2> QED
    BY <2>2 DEF StoreTyped, RefreshDestination, TypeInv, MonitorTypeOK, world
<1> HIDE DEF p
<1>6. /\ k \in Tick /\ k.todo = tick[t].todo \ {p}
      /\ k.pc = IF done THEN "saveBase" ELSE "destination"
      /\ k.seen = IF done THEN NoRecords ELSE tick[t].seen
  BY <1>1, <1>2, NothingRead DEF Tick, TickPcs, WritingPcs
<1>7. Busy(k)
  BY <1>1, <1>2, <1>6 DEF Busy
<1> HIDE DEF k
<1>8. TypeInv' /\ tick'[t] = k /\ \A u \in Ticks \ {t} : tick'[u] = tick[u]
  BY <1>4, <1>5, <1>6, <1>7, TickMoves
<1> QED
  BY <1>2, <1>3, <1>8 DEF k, p

LEMMA SaveBaseTyped ==
    ASSUME TypeInv, NEW t \in Ticks, SaveBase(t)
    PROVE  /\ TypeInv'
           /\ tick'[t] = [tick[t] EXCEPT !.pc = "list", !.seen = NoRecords, !.factors = {},
                                         !.safe = NoHash, !.cursor = NoCursor]
           /\ \A u \in Ticks \ {t} : tick'[u] = tick[u]
           /\ cursor'["base"] = Saved(t, "base", tick[t].cursor.last)
           /\ cursor'["eth"] = cursor["eth"]
<1> DEFINE k == [tick[t] EXCEPT !.pc = "list", !.seen = NoRecords, !.factors = {},
                                !.safe = NoHash, !.cursor = NoCursor]
<1>1. tick[t] \in Tick /\ tick[t].cursor.last \in Nat
  BY DEF TypeInv, MonitorTypeOK, Tick, Cursor
<1>2. k \in Tick /\ k.pc = "list"
  BY <1>1, NothingRead DEF Tick, TickPcs
<1>3. Busy(k)
  BY <1>2 DEF Busy
<1>4. Moves(t, k)
  BY DEF SaveBase, Moves, TypeInv, MonitorTypeOK
<1>5. Saved(t, "base", tick[t].cursor.last) \in Cursor
  BY <1>1, SavedTyped DEF Chains
<1>6. /\ cursor'["base"] = Saved(t, "base", tick[t].cursor.last)
      /\ cursor'["eth"] = cursor["eth"]
      /\ cursor' \in [Chains -> Cursor]
  BY <1>5 DEF SaveBase, TypeInv, MonitorTypeOK, Chains
<1>7. StoreTyped' /\ UNCHANGED world
  BY <1>5, <1>6 DEF StoreTyped, SaveBase, TypeInv, MonitorTypeOK, world
<1> HIDE DEF k
<1>8. TypeInv' /\ tick'[t] = k /\ \A u \in Ticks \ {t} : tick'[u] = tick[u]
  BY <1>2, <1>3, <1>4, <1>7, TickMoves
<1> QED
  BY <1>6, <1>8 DEF k

LEMMA ListNextTyped ==
    ASSUME TypeInv, NEW t \in Ticks, ListNext(t)
    PROVE  /\ TypeInv'
           /\ tick'[t] = [tick[t] EXCEPT
                            !.pc = "mark", !.seen = store,
                            !.todo = {p \in Listed : Transition(tick[t].previous[p],
                                                                store[p].status)}]
           /\ \A u \in Ticks \ {t} : tick'[u] = tick[u]
<1> DEFINE todo == {p \in Listed : Transition(tick[t].previous[p], store[p].status)}
           k == [tick[t] EXCEPT !.pc = "mark", !.seen = store, !.todo = todo]
<1>1. tick[t] \in Tick /\ todo \in SUBSET Proposals
  BY ListedTyped DEF TypeInv, MonitorTypeOK
<1>2. Moves(t, k)
  BY DEF ListNext, Moves, TypeInv, MonitorTypeOK
<1> HIDE DEF todo
<1>3. k \in Tick /\ k.pc = "mark"
  BY <1>1 DEF Tick, TickPcs, TypeInv, MonitorTypeOK
<1>4. Busy(k)
  BY <1>3 DEF Busy
<1>5. StoreTyped' /\ UNCHANGED world
  BY DEF StoreTyped, ListNext, TypeInv, MonitorTypeOK, world
<1> HIDE DEF k
<1>6. TypeInv' /\ tick'[t] = k /\ \A u \in Ticks \ {t} : tick'[u] = tick[u]
  BY <1>2, <1>3, <1>4, <1>5, TickMoves
<1> QED
  BY <1>6 DEF k, todo

LEMMA MarkTyped ==
    ASSUME TypeInv, NEW t \in Ticks, Mark(t)
    PROVE  /\ TypeInv'
           /\ tick'[t] = [tick[t] EXCEPT !.todo = @ \ {Next1(tick[t].todo)}]
           /\ \A u \in Ticks \ {t} : tick'[u] = tick[u]
<1> DEFINE p == Next1(tick[t].todo)
           k == [tick[t] EXCEPT !.todo = @ \ {p}]
<1>1. tick[t] \in Tick /\ tick[t].pc \in {"mark", "markAll"} /\ tick[t].todo # {}
  BY DEF TypeInv, MonitorTypeOK, Mark, At
<1>2. Moves(t, k)
  BY DEF Mark, Moves, TypeInv, MonitorTypeOK
<1>3. StoreTyped' /\ UNCHANGED world
  <2>1. run' \in [Proposals -> RunStatuses]
    BY DEF Mark, MarkOpen, Verdict, RunStatuses, TypeInv, MonitorTypeOK
  <2> QED
    BY <2>1 DEF StoreTyped, Mark, TypeInv, MonitorTypeOK, world
<1> HIDE DEF p
<1>4. k \in Tick /\ k.pc = tick[t].pc
  BY <1>1 DEF Tick
<1>5. Busy(k)
  BY <1>1, <1>4 DEF Busy
<1> HIDE DEF k
<1>6. TypeInv' /\ tick'[t] = k /\ \A u \in Ticks \ {t} : tick'[u] = tick[u]
  BY <1>2, <1>3, <1>4, <1>5, TickMoves
<1> QED
  BY <1>6 DEF k, p

LEMMA MarkAllTyped ==
    ASSUME TypeInv, NEW t \in Ticks, MarkAll(t)
    PROVE  /\ TypeInv'
           /\ tick'[t] = IF \E c \in Chains : tick[t].reorg[c]
                           THEN [tick[t] EXCEPT !.pc = "markAll", !.todo = Known(t)]
                           ELSE [tick[t] EXCEPT !.pc = "wallet"]
           /\ \A u \in Ticks \ {t} : tick'[u] = tick[u]
<1> DEFINE k == IF \E c \in Chains : tick[t].reorg[c]
                  THEN [tick[t] EXCEPT !.pc = "markAll", !.todo = Known(t)]
                  ELSE [tick[t] EXCEPT !.pc = "wallet"]
<1>1. tick[t] \in Tick /\ Known(t) \in SUBSET Proposals
  BY DEF TypeInv, MonitorTypeOK, Known
<1>2. k \in Tick /\ k.pc \in {"markAll", "wallet"}
  BY <1>1 DEF Tick, TickPcs
<1>3. Busy(k)
  BY <1>2 DEF Busy
<1>4. Moves(t, k)
  BY DEF MarkAll, Moves, TypeInv, MonitorTypeOK
<1>5. StoreTyped' /\ UNCHANGED world
  BY DEF StoreTyped, MarkAll, TypeInv, MonitorTypeOK, world
<1> HIDE DEF k
<1>6. TypeInv' /\ tick'[t] = k /\ \A u \in Ticks \ {t} : tick'[u] = tick[u]
  BY <1>2, <1>3, <1>4, <1>5, TickMoves
<1> QED
  BY <1>6 DEF k

LEMMA ReadWalletTyped ==
    ASSUME TypeInv, NEW t \in Ticks, ReadWallet(t)
    PROVE  /\ TypeInv'
           /\ \/ tick'[t] = IdleTick
              \/ \E factors \in SUBSET Proposals :
                   tick'[t] = [tick[t] EXCEPT !.pc = "expose", !.todo = Known(t),
                                              !.factors = factors]
           /\ \A u \in Ticks \ {t} : tick'[u] = tick[u]
<1>0. PICK unread \in SUBSET Known(t) :
             tick' = [tick EXCEPT ![t] =
                        IF wallet = "unmonitored" \/ Known(t) = {} THEN IdleTick
                        ELSE [@ EXCEPT !.pc = "expose", !.todo = Known(t),
                                       !.factors = ExposedTo(wallet, Known(t), unread)]]
  BY DEF ReadWallet
<1> DEFINE factors == ExposedTo(wallet, Known(t), unread)
           over == wallet = "unmonitored" \/ Known(t) = {}
           busy == [tick[t] EXCEPT !.pc = "expose", !.todo = Known(t), !.factors = factors]
           k == IF over THEN IdleTick ELSE busy
<1>1. /\ tick[t] \in Tick /\ Known(t) \in SUBSET Proposals /\ factors \in SUBSET Proposals
      /\ ~over => Known(t) # {}
  BY DEF TypeInv, MonitorTypeOK, Known, ExposedTo
<1>2. Moves(t, k)
  BY <1>0 DEF Moves, TypeInv, MonitorTypeOK
<1> HIDE DEF factors, over
<1>3. busy \in Tick /\ busy.pc = "expose" /\ busy.todo = Known(t)
  BY <1>1 DEF Tick, TickPcs
<1>4. k \in Tick /\ Busy(k)
  BY <1>1, <1>3, NothingRead DEF Busy
<1>5. StoreTyped' /\ UNCHANGED world
  BY DEF StoreTyped, ReadWallet, TypeInv, MonitorTypeOK, world
<1>6. k = IdleTick \/ k = busy
  OBVIOUS
<1> HIDE DEF k
<1>7. TypeInv' /\ tick'[t] = k /\ \A u \in Ticks \ {t} : tick'[u] = tick[u]
  BY <1>2, <1>4, <1>5, TickMoves
<1> QED
  BY <1>1, <1>6, <1>7

LEMMA NextRecordTyped ==
    ASSUME TypeInv, NEW t \in Ticks, NEW p \in tick[t].todo, tick[t].pc \in {"expose", "enqueue"}
    PROVE  /\ NextRecord(t, p) \in Tick /\ Busy(NextRecord(t, p))
           /\ \/ NextRecord(t, p) = IdleTick
              \/ NextRecord(t, p) = [tick[t] EXCEPT !.pc = "expose", !.todo = @ \ {p}]
<1> DEFINE k == [tick[t] EXCEPT !.pc = "expose", !.todo = @ \ {p}]
<1>1. tick[t] \in Tick
  BY DEF TypeInv, MonitorTypeOK
<1>2. k \in Tick /\ k.pc = "expose" /\ k.todo = tick[t].todo \ {p}
  BY <1>1 DEF Tick, TickPcs
<1>3. tick[t].todo # {p} => Busy(k)
  BY <1>2 DEF Busy
<1> HIDE DEF k
<1>4. NextRecord(t, p) = IF tick[t].todo = {p} THEN IdleTick ELSE k
  BY DEF NextRecord, k
<1>5. /\ NextRecord(t, p) \in Tick /\ Busy(NextRecord(t, p))
      /\ NextRecord(t, p) = IdleTick \/ NextRecord(t, p) = k
  BY <1>2, <1>3, <1>4, NothingRead
<1> QED
  BY <1>5 DEF k

LEMMA ExposeTyped ==
    ASSUME TypeInv, NEW t \in Ticks, Expose(t)
    PROVE  /\ TypeInv'
           /\ \/ tick'[t] = IdleTick
              \/ \E todo \in SUBSET Proposals, pc \in {"expose", "enqueue"} :
                   tick'[t] = [tick[t] EXCEPT !.pc = pc, !.todo = todo]
           /\ \A u \in Ticks \ {t} : tick'[u] = tick[u]
<1> DEFINE p == Next1(tick[t].todo)
           busy == [tick[t] EXCEPT !.pc = "enqueue"]
<1>1. tick[t] \in Tick /\ Busy(tick[t]) /\ tick[t].pc = "expose" /\ tick[t].todo # {}
  BY DEF TypeInv, MonitorTypeOK, Expose, At, Busy
<1>2. p \in tick[t].todo /\ tick[t].todo \in SUBSET Proposals
  BY <1>1, NextOfLoop DEF Tick
<1>3. busy \in Tick /\ busy.pc = "enqueue" /\ busy.todo = tick[t].todo
  BY <1>1 DEF Tick, TickPcs
<1>4. Busy(busy)
  BY <1>1, <1>3 DEF Busy
<1>5. busy = [tick[t] EXCEPT !.pc = "enqueue", !.todo = tick[t].todo]
  BY <1>1 DEF Tick
<1>6. Moves(t, busy) \/ Moves(t, NextRecord(t, p))
  BY DEF Expose, Moves, TypeInv, MonitorTypeOK
<1>7. StoreTyped' /\ UNCHANGED world
  <2>1. (p \in tick[t].factors) \in BOOLEAN
    OBVIOUS
  <2>2. exposure' = [exposure EXCEPT ![p] = p \in tick[t].factors]
    BY DEF Expose
  <2>3. exposure' \in [Proposals -> BOOLEAN]
    BY <2>1, <2>2 DEF TypeInv, MonitorTypeOK
  <2> QED
    BY <2>3 DEF StoreTyped, Expose, TypeInv, MonitorTypeOK, world
<1> HIDE DEF p, busy
<1>8. CASE Moves(t, busy)
  <2>1. TypeInv' /\ tick'[t] = busy /\ \A u \in Ticks \ {t} : tick'[u] = tick[u]
    BY <1>3, <1>4, <1>7, <1>8, TickMoves
  <2> QED
    BY <1>2, <1>5, <2>1
<1>9. CASE Moves(t, NextRecord(t, p))
  <2>1. /\ NextRecord(t, p) \in Tick /\ Busy(NextRecord(t, p))
        /\ \/ NextRecord(t, p) = IdleTick
           \/ NextRecord(t, p) = [tick[t] EXCEPT !.pc = "expose", !.todo = @ \ {p}]
    BY <1>1, <1>2, NextRecordTyped
  <2>2. TypeInv' /\ tick'[t] = NextRecord(t, p) /\ \A u \in Ticks \ {t} : tick'[u] = tick[u]
    BY <1>7, <1>9, <2>1, TickMoves
  <2>3. [tick[t] EXCEPT !.pc = "expose", !.todo = @ \ {p}]
          = [tick[t] EXCEPT !.pc = "expose", !.todo = tick[t].todo \ {p}]
    BY <1>1 DEF Tick
  <2>4. tick[t].todo \ {p} \in SUBSET Proposals
    BY <1>2
  <2> QED
    BY <2>1, <2>2, <2>3, <2>4
<1> QED
  BY <1>6, <1>8, <1>9

LEMMA EnqueueTyped ==
    ASSUME TypeInv, NEW t \in Ticks, Enqueue(t)
    PROVE  /\ TypeInv'
           /\ \/ tick'[t] = IdleTick
              \/ \E todo \in SUBSET Proposals :
                   tick'[t] = [tick[t] EXCEPT !.pc = "expose", !.todo = todo]
           /\ \A u \in Ticks \ {t} : tick'[u] = tick[u]
<1> DEFINE p == Next1(tick[t].todo)
<1>1. tick[t] \in Tick /\ tick[t].pc = "enqueue" /\ tick[t].todo # {}
  BY DEF TypeInv, MonitorTypeOK, Enqueue, At, Busy
<1>2. p \in tick[t].todo /\ tick[t].todo \in SUBSET Proposals
  BY <1>1, NextOfLoop DEF Tick
<1>3. Moves(t, NextRecord(t, p))
  BY DEF Enqueue, Moves
<1>4. StoreTyped' /\ UNCHANGED world
  BY DEF StoreTyped, Enqueue, RunStatuses, TypeInv, MonitorTypeOK, world
<1> HIDE DEF p
<1>5. /\ NextRecord(t, p) \in Tick /\ Busy(NextRecord(t, p))
      /\ \/ NextRecord(t, p) = IdleTick
         \/ NextRecord(t, p) = [tick[t] EXCEPT !.pc = "expose", !.todo = @ \ {p}]
  BY <1>1, <1>2, NextRecordTyped
<1>6. TypeInv' /\ tick'[t] = NextRecord(t, p) /\ \A u \in Ticks \ {t} : tick'[u] = tick[u]
  BY <1>3, <1>4, <1>5, TickMoves
<1>7. [tick[t] EXCEPT !.pc = "expose", !.todo = @ \ {p}]
        = [tick[t] EXCEPT !.pc = "expose", !.todo = tick[t].todo \ {p}]
  BY <1>1 DEF Tick
<1>8. tick[t].todo \ {p} \in SUBSET Proposals
  BY <1>2
<1> QED
  BY <1>5, <1>6, <1>7, <1>8

LEMMA FailTyped ==
    ASSUME TypeInv, NEW t \in Ticks, FailTick(t)
    PROVE  TypeInv' /\ tick'[t] = IdleTick /\ \A u \in Ticks \ {t} : tick'[u] = tick[u]
<1>1. left' \in [EventKinds -> Nat] /\ happened' \subseteq EventKinds
  BY SpendTyped DEF FailTick, EventKinds
<1>2. StoreTyped' /\ UNCHANGED world
  BY <1>1 DEF StoreTyped, FailTick, TypeInv, MonitorTypeOK, world
<1>3. Moves(t, IdleTick)
  BY DEF FailTick, Moves
<1> QED
  BY <1>2, <1>3, NothingRead, TickMoves

LEMMA CrashTyped ==
    ASSUME TypeInv, Crash
    PROVE  TypeInv' /\ \A t \in Ticks : tick'[t] = IdleTick
<1>1. left' \in [EventKinds -> Nat] /\ happened' \subseteq EventKinds
  BY SpendTyped DEF Crash, EventKinds
<1>2. \A t \in Ticks : tick'[t] = IdleTick
  BY DEF Crash
<1>3. tick' \in [Ticks -> Tick]
  BY NothingRead DEF Crash
<1>4. /\ store' \in [Proposals -> Record \cup {NoRecord}] /\ cursor' \in [Chains -> Cursor]
      /\ cursor'["eth"] = cursor["eth"] \/ cursor'["eth"] = NoCursor
  BY NothingRead DEF Crash, TypeInv, MonitorTypeOK, Chains
<1>5. UNCHANGED <<world, exposure, run>>
  BY DEF Crash
<1>6. MonitorTypeOK'
  BY <1>1, <1>3, <1>4, <1>5 DEF TypeInv, MonitorTypeOK, world
<1>7. \A t \in Ticks : Busy(tick[t])'
  <2>1. \A t \in Ticks : tick'[t].pc = "idle"
    BY <1>2, NothingRead
  <2> QED
    BY <2>1 DEF Busy
<1> QED
  BY <1>2, <1>4, <1>5, <1>6, <1>7 DEF TypeInv, world

(* The environment leaves the indexer's own state alone.                   *)
LEMMA EnvironmentTyped ==
    ASSUME TypeInv, Environment
    PROVE  TypeInv' /\ UNCHANGED <<tick, store, cursor, exposure>> /\ \E kind \in EventKinds : Spend(kind)
<1>1. /\ UNCHANGED <<tick, store, cursor, exposure>>
      /\ \E kind \in EventKinds : Spend(kind)
      /\ count' = count \/ (count < LastProposal /\ count' = count + 1)
  BY DEF Environment, GovernorMoves, FactorMoves, PostImpact, EndRun, NewProposal, WalletMoves,
         NewBlock, Reorganise, EventKinds, world
<1>2. left' \in [EventKinds -> Nat] /\ happened' \subseteq EventKinds
  BY <1>1, SpendTyped
<1>3. count \in Nat /\ count' \in Proposals /\ count <= count' /\ 1..count \subseteq 1..count'
  BY <1>1, MonitorNumbers DEF TypeInv, MonitorTypeOK, Proposals
<1>4. governor' \in [Proposals -> RawStates]
  <2>1. CASE \E p \in Proposals : GovernorMoves(p)
    <3>1. PICK p \in Proposals : GovernorMoves(p)
      BY <2>1
    <3>2. \A raw \in RawStates : Successors(raw) \subseteq RawStates
      BY DEF Successors, RawStates
    <3>3. PICK raw \in RawStates : governor' = [governor EXCEPT ![p] = raw]
      BY <3>1, <3>2 DEF GovernorMoves, TypeInv, MonitorTypeOK
    <3> QED
      BY <3>3 DEF TypeInv, MonitorTypeOK
  <2>2. CASE \E c \in Chains : \E n \in 1..Height(c) : Reorganise(c, n)
    <3>1. governor' = governor \/ \E p \in Proposals : governor' = [governor EXCEPT ![p] = 4]
      BY <2>2 DEF Reorganise
    <3>2. 4 \in RawStates
      BY DEF RawStates
    <3> QED
      BY <3>1, <3>2 DEF TypeInv, MonitorTypeOK
  <2>3. CASE governor' = governor
    BY <2>3 DEF TypeInv, MonitorTypeOK
  <2> QED
    BY <2>1, <2>2, <2>3 DEF Environment, FactorMoves, PostImpact, EndRun, NewProposal,
                            WalletMoves, NewBlock, world
<1>5. chain' \in [Chains -> Seq(Nat)]
  <2>1. \A c \in Chains : chain[c] \in Seq(Nat) /\ Len(chain[c]) \in Nat
    BY DEF TypeInv, MonitorTypeOK
  <2>2. left["reorg"] \in Nat
    BY DEF TypeInv, MonitorTypeOK, EventKinds
  <2>3. ASSUME NEW c \in Chains, NewBlock(c) PROVE chain' \in [Chains -> Seq(Nat)]
    <3>1. Append(chain[c], left["reorg"]) \in Seq(Nat)
      BY <2>1, <2>2, AppendProperties
    <3> QED
      BY <2>3, <3>1 DEF NewBlock, TypeInv, MonitorTypeOK
  <2>4. ASSUME NEW c \in Chains, NEW n \in 1..Height(c), Reorganise(c, n)
        PROVE  chain' \in [Chains -> Seq(Nat)]
    <3>1. n \in Nat /\ n - 1 \in Int /\ n - 1 < n /\ n - 1 <= Len(chain[c])
      BY <2>1 DEF Height
    <3>2. SubSeq(chain[c], 1, n - 1) \in Seq(Nat)
      BY <2>1, <3>1, SubSeqProperties
    <3>3. left["reorg"] - 1 \in Nat
      BY <2>2, <2>4 DEF Reorganise, Spend
    <3>4. Append(SubSeq(chain[c], 1, n - 1), left["reorg"] - 1) \in Seq(Nat)
      BY <3>2, <3>3, AppendProperties
    <3> QED
      BY <2>4, <3>4 DEF Reorganise, TypeInv, MonitorTypeOK
  <2>5. CASE chain' = chain
    BY <2>5 DEF TypeInv, MonitorTypeOK
  <2> QED
    BY <2>3, <2>4, <2>5 DEF Environment, GovernorMoves, FactorMoves, PostImpact, EndRun,
                            NewProposal, WalletMoves, world
<1>6. inForce' \subseteq Proposals /\ wallet' \in Holdings \cup {"unmonitored"}
  BY DEF Environment, GovernorMoves, FactorMoves, PostImpact, EndRun, NewProposal, WalletMoves,
         NewBlock, Reorganise, TypeInv, MonitorTypeOK, world
<1>7. run' \in [Proposals -> RunStatuses]
  BY DEF Environment, GovernorMoves, FactorMoves, PostImpact, EndRun, NewProposal, WalletMoves,
         NewBlock, Reorganise, TypeInv, MonitorTypeOK, RunStatuses
<1>8. MonitorTypeOK'
  BY <1>1, <1>2, <1>3, <1>4, <1>5, <1>6, <1>7 DEF TypeInv, MonitorTypeOK
<1>9. \A t \in Ticks : Busy(tick[t])'
  BY <1>1, <1>3 DEF TypeInv, Busy
<1> QED
  BY <1>1, <1>3, <1>8, <1>9 DEF TypeInv

LEMMA InitTyped == Init => TypeInv
<1> SUFFICES ASSUME Init PROVE TypeInv
  OBVIOUS
<1>1. left \in [EventKinds -> Nat] /\ left["reorg"] \in Nat
  BY MonitorNumbers DEF Init, EventKinds
<1>2. <<left["reorg"], left["reorg"]>> \in Seq(Nat)
  BY <1>1
<1>3. chain \in [Chains -> Seq(Nat)]
  BY <1>2 DEF Init
<1>4. tick \in [Ticks -> Tick] /\ \A t \in Ticks : tick[t] = IdleTick
  BY NothingRead DEF Init
<1>5. store \in [Proposals -> Record \cup {NoRecord}] /\ cursor \in [Chains -> Cursor]
  BY NothingRead DEF Init
<1>6. governor \in [Proposals -> RawStates] /\ inForce \subseteq Proposals
  BY DEF Init, RawStates, Watched
<1>7. MonitorTypeOK
  <2>1. wallet \in Holdings \cup {"unmonitored"}
    BY MonitorAssumption DEF Init
  <2> QED
    BY <1>1, <1>3, <1>4, <1>5, <1>6, <2>1, MonitorNumbers DEF Init, MonitorTypeOK, RunStatuses
<1>8. cursor["eth"] = NoCursor
  BY DEF Init, Chains
<1> QED
  BY <1>4, <1>7, <1>8, NothingRead DEF TypeInv

LEMMA StepTyped == TypeInv /\ [Next]_vars => TypeInv'
<1> SUFFICES ASSUME TypeInv, [Next]_vars PROVE TypeInv'
  OBVIOUS
<1>1. ASSUME NEW t \in Ticks, TickStep(t) PROVE TypeInv'
  <2>1. CASE DetectEth(t)
    BY <2>1, DetectTyped DEF DetectEth, Chains
  <2>2. CASE DetectBase(t)
    BY <2>2, DetectTyped DEF DetectBase, Chains
  <2> QED
    BY <1>1, <2>1, <2>2, AnchorEthTyped, UpsertTyped, SaveEthTyped, ReadSourceTyped,
       RefreshTyped, AnchorBaseTyped, DestinationTyped, SaveBaseTyped, ListNextTyped, MarkTyped,
       MarkAllTyped, ReadWalletTyped, ExposeTyped, EnqueueTyped DEF TickStep
<1>2. CASE UNCHANGED vars
  BY <1>2 DEF TypeInv, MonitorTypeOK, Busy, vars
<1> QED
  BY <1>1, <1>2, BeginTyped, FailTyped, CrashTyped, EnvironmentTyped DEF Next

(* Every variable has its type, whatever ticks, chains and crashes do.     *)
THEOREM MonitorTypeCorrect == Spec => []MonitorTypeOK
<1>1. TypeInv => MonitorTypeOK
  BY DEF TypeInv
<1> QED
  BY <1>1, InitTyped, StepTyped, PTL DEF Spec

-----------------------------------------------------------------------------
(* Chains that only grow.                                                  *)

LEMMA NothingUnspent ==
    ASSUME TypeInv, [Next]_vars
    PROVE  happened \subseteq happened'
<1>1. \A kind : Spend(kind) => happened \subseteq happened'
  BY DEF Spend
<1>2. ASSUME NEW t \in Ticks, TickStep(t) PROVE happened \subseteq happened'
  BY <1>1, <1>2
     DEF TickStep, DetectEth, DetectBase, DetectReorg, SpendNothing, AnchorEth, UpsertProposal,
         SaveEth, ReadSource, RefreshRecord, AnchorBase, RefreshDestination, SaveBase, ListNext,
         Mark, MarkAll, ReadWallet, Expose, Enqueue
<1>3. ASSUME NEW t \in Ticks, Begin(t) \/ FailTick(t) PROVE happened \subseteq happened'
  BY <1>1, <1>3 DEF Begin, FailTick, SpendNothing
<1>4. CASE Crash \/ Environment
  BY <1>1, <1>4, EnvironmentTyped DEF Crash
<1> QED
  BY <1>2, <1>3, <1>4 DEF Next, vars

(* What the newest safe block is called, and that it stays on its chain.   *)
LEMMA SafeOnChain ==
    ASSUME TypeInv, NEW c \in Chains
    PROVE  OnChain(c, SafeHash(c)) /\ OnChain(c, NoHash)
<1>1. Height(c) \in Nat
  BY HashTyped
<1>2. SafeHash(c)[1] = Height(c) /\ NoHash[1] = 0
  BY DEF SafeHash, HashOf, NoHash
<1> QED
  BY <1>1, <1>2 DEF OnChain, SafeHash, HashOf

OnNextChain(c, hash) ==
    /\ hash[1] <= Len(chain'[c])
    /\ hash = IF hash[1] = 0 THEN NoHash ELSE <<hash[1], chain'[c][hash[1]]>>

LEMMA BlocksStay ==
    ASSUME TypeInv, NEW c \in Chains, NEW hash \in Hashes, OnChain(c, hash),
           chain'[c] = chain[c] \/ \E fork \in Nat : chain'[c] = Append(chain[c], fork)
    PROVE  OnNextChain(c, hash)
<1>1. chain[c] \in Seq(Nat) /\ Len(chain[c]) \in Nat /\ hash[1] \in Nat
  BY DEF TypeInv, MonitorTypeOK, Hashes
<1>2. CASE chain'[c] = chain[c]
  BY <1>2 DEF OnChain, OnNextChain, Height, HashOf
<1>3. ASSUME NEW fork \in Nat, chain'[c] = Append(chain[c], fork) PROVE OnNextChain(c, hash)
  <2>1. /\ Len(chain'[c]) = Len(chain[c]) + 1
        /\ \A n \in 1..Len(chain[c]) : chain'[c][n] = chain[c][n]
    BY <1>1, <1>3, AppendProperties
  <2>2. hash[1] <= Len(chain[c]) /\ hash = HashOf(c, hash[1])
    BY DEF OnChain, Height
  <2>3. hash[1] # 0 => chain'[c][hash[1]] = chain[c][hash[1]]
    BY <1>1, <2>1, <2>2
  <2> QED
    BY <1>1, <2>1, <2>2, <2>3 DEF OnNextChain, HashOf
<1> QED
  BY <1>2, <1>3

(* A step that replaces no block and saves no cursor keeps the trust, when *)
(* the tick that it moves is trusted.                                      *)
LEMMA TrustKept ==
    ASSUME TypeInv, ChainsTrusted, Unspent({"reorg", "rpcError"}),
           \A c \in Chains : chain'[c] = chain[c] \/ \E fork \in Nat : chain'[c] = Append(chain[c], fork),
           \A c \in Chains : cursor'[c] = cursor[c] \/
                             (OnChain(c, cursor[c].hash)' /\ cursor'[c].block = cursor'[c].hash[1]),
           \A t \in Ticks : tick'[t] = tick[t] \/ Trusted(tick[t])'
    PROVE  ChainsTrusted'
<1>1. /\ \A c \in Chains : OnChain(c, cursor[c].hash) /\ cursor[c].block = cursor[c].hash[1]
      /\ \A t \in Ticks : Trusted(tick[t])
  BY DEF ChainsTrusted
<1>2. ASSUME NEW c \in Chains
      PROVE  OnChain(c, cursor[c].hash)' /\ cursor'[c].block = cursor'[c].hash[1]
  <2>1. cursor[c].hash \in Hashes
    BY DEF TypeInv, MonitorTypeOK, Cursor
  <2>2. OnChain(c, cursor[c].hash) /\ cursor[c].block = cursor[c].hash[1]
    BY <1>1
  <2>3. CASE cursor'[c] = cursor[c]
    <3>1. OnNextChain(c, cursor[c].hash)
      BY <2>1, <2>2, BlocksStay
    <3> QED
      BY <2>2, <2>3, <3>1 DEF OnChain, OnNextChain, HashOf, Height
  <2> QED
    BY <2>3
<1>3. ASSUME NEW t \in Ticks PROVE Trusted(tick[t])'
  <2>1. CASE tick'[t] = tick[t]
    <3>1. tick[t].safe \in Hashes /\ Trusted(tick[t])
      BY <1>1 DEF TypeInv, MonitorTypeOK, Tick
    <3>2. \A c \in Chains : OnChain(c, tick[t].safe) => OnNextChain(c, tick[t].safe)
      BY <3>1, BlocksStay
    <3> QED
      BY <2>1, <3>1, <3>2 DEF Trusted, OnChain, OnNextChain, HashOf, Height, Chains
  <2> QED
    BY <2>1
<1> QED
  BY <1>2, <1>3 DEF ChainsTrusted

(* A tick that leaves anchors and reorgs as they are.                      *)
LEMMA TrustMoves ==
    ASSUME TypeInv, ChainsTrusted, Unspent({"reorg", "rpcError"}), UNCHANGED <<chain, cursor>>,
           NEW t \in Ticks, Trusted(tick[t])',
           \A u \in Ticks \ {t} : tick'[u] = tick[u]
    PROVE  ChainsTrusted'
<1>1. \A c \in Chains : chain'[c] = chain[c] /\ cursor'[c] = cursor[c]
  OBVIOUS
<1>2. \A u \in Ticks : tick'[u] = tick[u] \/ Trusted(tick[u])'
  OBVIOUS
<1> QED
  BY <1>1, <1>2, TrustKept

LEMMA DetectTrusted ==
    ASSUME TypeInv, ChainsTrusted, Unspent({"reorg", "rpcError"})', happened \subseteq happened',
           NEW t \in Ticks, NEW c \in Chains, NEW to \in {"anchorEth", "anchorBase"},
           to = "anchorEth" => c = "eth", DetectReorg(t, c, to)
    PROVE  ChainsTrusted'
<1>1. Unspent({"reorg", "rpcError"}) /\ "rpcError" \notin happened'
  BY DEF Unspent
<1>2. cursor[c].block = cursor[c].hash[1] /\ OnChain(c, cursor[c].hash) /\ Trusted(tick[t])
  BY <1>1 DEF ChainsTrusted
<1>3. ~CursorStale(c)
  <2>1. Height(c) \in Nat /\ cursor[c].block \in Nat
    BY HashTyped DEF TypeInv, MonitorTypeOK, Cursor
  <2> QED
    BY <1>2, <2>1 DEF CursorStale, OnChain
<1>4. PICK found \in BOOLEAN :
        /\ tick'[t].pc = to /\ tick'[t].cursor = cursor[c]
        /\ tick'[t].reorg = [tick[t].reorg EXCEPT ![c] = found]
        /\ tick'[t].previous = tick[t].previous
        /\ found => \/ cursor[c] # NoCursor /\ CursorStale(c)
                    \/ "rpcError" \in happened'
  <2>1. Detected(t, c, to)
    BY DetectTyped
  <2> QED
    BY <2>1 DEF Detected
<1>5. tick'[t].pc = to /\ tick'[t].reorg = [tick[t].reorg EXCEPT ![c] = FALSE]
  BY <1>1, <1>3, <1>4
<1>6. Trusted(tick[t])'
  <2>1. tick[t].reorg \in [Chains -> BOOLEAN]
    BY DEF TypeInv, MonitorTypeOK, Tick
  <2> QED
    BY <1>2, <1>5, <2>1 DEF Trusted, EthPcs, BasePcs
<1>7. UNCHANGED <<chain, cursor>> /\ \A u \in Ticks \ {t} : tick'[u] = tick[u]
  BY DetectTyped DEF DetectReorg, world
<1> QED
  BY <1>1, <1>6, <1>7, TrustMoves

LEMMA AnchorTrusted ==
    ASSUME TypeInv, ChainsTrusted, Unspent({"reorg", "rpcError"}), NEW t \in Ticks,
           AnchorEth(t) \/ AnchorBase(t)
    PROVE  ChainsTrusted'
<1>1. tick[t] \in Tick /\ Trusted(tick[t]) /\ UNCHANGED <<chain, cursor>>
  BY DEF TypeInv, MonitorTypeOK, ChainsTrusted, AnchorEth, AnchorBase, world
<1>2. CASE AnchorEth(t)
  <2>1. /\ tick'[t].pc = "upsert" /\ tick'[t].safe = SafeHash("eth") /\ tick'[t].reorg = tick[t].reorg
        /\ \A u \in Ticks \ {t} : tick'[u] = tick[u]
    <3>1. PICK first \in 1..count :
            tick'[t] = [tick[t] EXCEPT !.pc = "upsert", !.todo = first..count, !.raws = governor,
                                       !.safe = SafeHash("eth"), !.last = count]
      BY <1>2, AnchorEthTyped
    <3>2. \A u \in Ticks \ {t} : tick'[u] = tick[u]
      BY <1>2, AnchorEthTyped
    <3> QED
      BY <1>1, <3>1, <3>2 DEF Tick
  <2>2. OnChain("eth", tick[t].safe)'
    BY <1>1, <2>1, SafeOnChain DEF OnChain, HashOf, Height, Chains
  <2>3. Trusted(tick[t])'
    BY <1>1, <2>1, <2>2 DEF Trusted, EthPcs, BasePcs
  <2> QED
    BY <1>1, <2>1, <2>3, TrustMoves
<1>3. CASE AnchorBase(t)
  <2>1. /\ tick'[t].pc \in {"saveBase", "destination"} /\ tick'[t].safe = SafeHash("base")
        /\ tick'[t].reorg = tick[t].reorg
        /\ \A u \in Ticks \ {t} : tick'[u] = tick[u]
    <3>1. /\ tick'[t] = [tick[t] EXCEPT
                           !.pc = IF Listed \cap Watched = {} THEN "saveBase" ELSE "destination",
                           !.todo = Listed \cap Watched, !.seen = store,
                           !.factors = inForce, !.safe = SafeHash("base")]
          /\ \A u \in Ticks \ {t} : tick'[u] = tick[u]
      BY <1>3, AnchorBaseTyped
    <3> QED
      BY <1>1, <3>1 DEF Tick
  <2>2. OnChain("base", tick[t].safe)'
    BY <1>1, <2>1, SafeOnChain DEF OnChain, HashOf, Height, Chains
  <2>3. Trusted(tick[t])'
    BY <1>1, <2>1, <2>2 DEF Trusted, EthPcs, BasePcs
  <2> QED
    BY <1>1, <2>1, <2>3, TrustMoves
<1> QED
  BY <1>2, <1>3

LEMMA SaveTrusted ==
    ASSUME TypeInv, ChainsTrusted, Unspent({"reorg", "rpcError"}), NEW t \in Ticks,
           SaveEth(t) \/ SaveBase(t)
    PROVE  ChainsTrusted'
<1>1. tick[t] \in Tick /\ Trusted(tick[t]) /\ chain' = chain
  BY DEF TypeInv, MonitorTypeOK, ChainsTrusted, SaveEth, SaveBase, world
<1>2. \A c \in Chains, last \in Nat :
        Saved(t, c, last).block = tick[t].safe[1] /\ Saved(t, c, last).hash = tick[t].safe
  BY <1>1 DEF Trusted, Saved
<1>3. \A c \in Chains : OnChain(c, cursor[c].hash)' <=> OnNextChain(c, cursor'[c].hash)
  BY DEF OnChain, OnNextChain, HashOf, Height
<1>4. \A c \in Chains : OnChain(c, tick[t].safe) => OnNextChain(c, tick[t].safe)
  BY <1>1, BlocksStay DEF Tick
<1>5. CASE SaveEth(t)
  <2>1. /\ tick[t].pc \in EthPcs /\ tick[t].last \in Nat
    BY <1>1, <1>5 DEF SaveEth, At, EthPcs, Tick
  <2>2. /\ cursor'["eth"].block = tick[t].safe[1] /\ cursor'["eth"].hash = tick[t].safe
        /\ cursor'["base"] = cursor["base"]
    <3>1. cursor'["eth"] = Saved(t, "eth", tick[t].last) /\ cursor'["base"] = cursor["base"]
      BY <1>5, SaveEthTyped
    <3>2. "eth" \in Chains
      BY DEF Chains
    <3> QED
      BY <1>2, <2>1, <3>1, <3>2
  <2>3. /\ tick'[t].pc = "readSource" /\ tick'[t].reorg = tick[t].reorg
        /\ \A u \in Ticks \ {t} : tick'[u] = tick[u]
    BY <1>1, <1>5, SaveEthTyped DEF Tick
  <2>4. Trusted(tick[t])'
    BY <1>1, <2>3 DEF Trusted, EthPcs, BasePcs
  <2>5. OnChain("eth", cursor["eth"].hash)'
    BY <1>1, <1>3, <1>4, <2>1, <2>2 DEF Trusted, Chains
  <2>6. \A c \in Chains : cursor'[c] = cursor[c] \/
                          (OnChain(c, cursor[c].hash)' /\ cursor'[c].block = cursor'[c].hash[1])
    BY <2>2, <2>5 DEF Chains
  <2>7. \A u \in Ticks : tick'[u] = tick[u] \/ Trusted(tick[u])'
    BY <2>3, <2>4
  <2> QED
    BY <1>1, <2>6, <2>7, TrustKept
<1>6. CASE SaveBase(t)
  <2>1. tick[t].pc \in BasePcs /\ tick[t].cursor.last \in Nat
    BY <1>1, <1>6 DEF SaveBase, At, BasePcs, Tick, Cursor
  <2>2. /\ cursor'["base"].block = tick[t].safe[1] /\ cursor'["base"].hash = tick[t].safe
        /\ cursor'["eth"] = cursor["eth"]
    <3>1. /\ cursor'["base"] = Saved(t, "base", tick[t].cursor.last)
          /\ cursor'["eth"] = cursor["eth"]
      BY <1>6, SaveBaseTyped
    <3>2. "base" \in Chains
      BY DEF Chains
    <3> QED
      BY <1>2, <2>1, <3>1, <3>2
  <2>3. /\ tick'[t].pc = "list" /\ tick'[t].reorg = tick[t].reorg
        /\ \A u \in Ticks \ {t} : tick'[u] = tick[u]
    BY <1>1, <1>6, SaveBaseTyped DEF Tick
  <2>4. Trusted(tick[t])'
    BY <1>1, <2>3 DEF Trusted, EthPcs, BasePcs
  <2>5. OnChain("base", cursor["base"].hash)'
    BY <1>1, <1>3, <1>4, <2>1, <2>2 DEF Trusted, Chains
  <2>6. \A c \in Chains : cursor'[c] = cursor[c] \/
                          (OnChain(c, cursor[c].hash)' /\ cursor'[c].block = cursor'[c].hash[1])
    BY <2>2, <2>5 DEF Chains
  <2>7. \A u \in Ticks : tick'[u] = tick[u] \/ Trusted(tick[u])'
    BY <2>3, <2>4
  <2> QED
    BY <1>1, <2>6, <2>7, TrustKept
<1> QED
  BY <1>5, <1>6

(* All other steps of a tick.                                              *)
LEMMA TickTrusted ==
    ASSUME TypeInv, ChainsTrusted, Unspent({"reorg", "rpcError"}), NEW t \in Ticks,
           \/ Begin(t) \/ UpsertProposal(t) \/ ReadSource(t) \/ RefreshRecord(t)
           \/ RefreshDestination(t) \/ ListNext(t) \/ Mark(t) \/ MarkAll(t) \/ ReadWallet(t)
           \/ Expose(t) \/ Enqueue(t) \/ FailTick(t)
    PROVE  ChainsTrusted'
<1> DEFINE Kept == /\ tick'[t].safe = tick[t].safe /\ tick'[t].reorg = tick[t].reorg
                   /\ tick'[t].pc \in EthPcs => tick[t].pc \in EthPcs
                   /\ tick'[t].pc \in BasePcs => tick[t].pc \in BasePcs
           Others == \A u \in Ticks \ {t} : tick'[u] = tick[u]
<1>1. tick[t] \in Tick /\ Trusted(tick[t])
  BY DEF TypeInv, MonitorTypeOK, ChainsTrusted
<1>2. UNCHANGED <<chain, cursor>>
  BY DEF Begin, UpsertProposal, ReadSource, RefreshRecord, RefreshDestination, ListNext, Mark,
         MarkAll, ReadWallet, Expose, Enqueue, FailTick, world
<1>3. ASSUME Kept PROVE Trusted(tick[t])'
  BY <1>1, <1>2, <1>3 DEF Trusted, OnChain, HashOf, Height
<1>4. ASSUME tick'[t] = IdleTick PROVE Trusted(tick[t])'
  BY <1>4, NothingRead DEF Trusted, EthPcs, BasePcs
<1>5. CASE Begin(t)
  <2>1. /\ tick'[t] = [tick[t] EXCEPT !.pc = "detectEth",
                                      !.previous = [p \in Proposals |-> store[p].status]]
        /\ Others
    BY <1>5, BeginTyped
  <2>2. Kept
    BY <1>1, <2>1 DEF Tick, EthPcs, BasePcs
  <2> QED
    BY <1>2, <1>3, <2>1, <2>2, TrustMoves
<1>6. CASE UpsertProposal(t)
  <2>1. /\ tick'[t] = [tick[t] EXCEPT
                         !.todo = @ \ {Next1(tick[t].todo)},
                         !.pc = IF tick[t].todo = {Next1(tick[t].todo)} THEN "saveEth" ELSE @]
        /\ Others
    BY <1>6, UpsertTyped
  <2>3. tick[t].pc = "upsert"
    BY <1>6 DEF UpsertProposal, At
  <2>2. Kept
    BY <1>1, <2>1, <2>3 DEF Tick, EthPcs, BasePcs
  <2> QED
    BY <1>2, <1>3, <2>1, <2>2, TrustMoves
<1>7. CASE ReadSource(t)
  <2>1. /\ tick'[t] = [tick[t] EXCEPT
                         !.pc = IF Listed = {} THEN "detectBase" ELSE "refresh",
                         !.todo = Listed, !.seen = store, !.raws = governor]
        /\ Others
    BY <1>7, ReadSourceTyped
  <2>2. Kept
    BY <1>1, <2>1 DEF Tick, EthPcs, BasePcs
  <2> QED
    BY <1>2, <1>3, <2>1, <2>2, TrustMoves
<1>8. CASE RefreshRecord(t)
  <2>1. /\ tick'[t] = LET done == tick[t].todo = {Next1(tick[t].todo)} IN
                      [tick[t] EXCEPT !.todo = @ \ {Next1(tick[t].todo)},
                                      !.pc = IF done THEN "detectBase" ELSE @,
                                      !.seen = IF done THEN NoRecords ELSE @,
                                      !.raws = IF done THEN NoRaws ELSE @]
        /\ Others
    BY <1>8, RefreshTyped
  <2>2. Kept
    BY <1>1, <2>1 DEF Tick, EthPcs, BasePcs
  <2> QED
    BY <1>2, <1>3, <2>1, <2>2, TrustMoves
<1>9. CASE RefreshDestination(t)
  <2>1. /\ tick'[t] = LET done == tick[t].todo = {Next1(tick[t].todo)} IN
                      [tick[t] EXCEPT !.todo = @ \ {Next1(tick[t].todo)},
                                      !.pc = IF done THEN "saveBase" ELSE @,
                                      !.seen = IF done THEN NoRecords ELSE @,
                                      !.factors = IF done THEN {} ELSE @]
        /\ Others
    BY <1>9, DestinationTyped
  <2>3. tick[t].pc = "destination"
    BY <1>9 DEF RefreshDestination, At
  <2>2. Kept
    BY <1>1, <2>1, <2>3 DEF Tick, EthPcs, BasePcs
  <2> QED
    BY <1>2, <1>3, <2>1, <2>2, TrustMoves
<1>10. CASE ListNext(t)
  <2>1. /\ tick'[t] = [tick[t] EXCEPT
                         !.pc = "mark", !.seen = store,
                         !.todo = {p \in Listed : Transition(tick[t].previous[p],
                                                             store[p].status)}]
        /\ Others
    BY <1>10, ListNextTyped
  <2>2. Kept
    BY <1>1, <2>1 DEF Tick, EthPcs, BasePcs
  <2> QED
    BY <1>2, <1>3, <2>1, <2>2, TrustMoves
<1>11. CASE Mark(t)
  <2>1. tick'[t] = [tick[t] EXCEPT !.todo = @ \ {Next1(tick[t].todo)}] /\ Others
    BY <1>11, MarkTyped
  <2>2. Kept
    BY <1>1, <2>1 DEF Tick
  <2> QED
    BY <1>2, <1>3, <2>1, <2>2, TrustMoves
<1>12. CASE MarkAll(t)
  <2>1. /\ tick'[t] = IF \E c \in Chains : tick[t].reorg[c]
                        THEN [tick[t] EXCEPT !.pc = "markAll", !.todo = Known(t)]
                        ELSE [tick[t] EXCEPT !.pc = "wallet"]
        /\ Others
    BY <1>12, MarkAllTyped
  <2>2. tick'[t] = [tick[t] EXCEPT !.pc = "wallet"]
    BY <1>1, <2>1 DEF Trusted
  <2>3. Kept
    BY <1>1, <2>2 DEF Tick, EthPcs, BasePcs
  <2> QED
    BY <1>2, <1>3, <2>1, <2>3, TrustMoves
<1>13. CASE ReadWallet(t)
  <2>1. /\ \/ tick'[t] = IdleTick
           \/ \E factors \in SUBSET Proposals :
                tick'[t] = [tick[t] EXCEPT !.pc = "expose", !.todo = Known(t), !.factors = factors]
        /\ Others
    BY <1>13, ReadWalletTyped
  <2>2. tick'[t] = IdleTick \/ Kept
    BY <1>1, <2>1 DEF Tick, EthPcs, BasePcs
  <2> QED
    BY <1>2, <1>3, <1>4, <2>1, <2>2, TrustMoves
<1>14. CASE Expose(t)
  <2>1. /\ \/ tick'[t] = IdleTick
           \/ \E todo \in SUBSET Proposals, pc \in {"expose", "enqueue"} :
                tick'[t] = [tick[t] EXCEPT !.pc = pc, !.todo = todo]
        /\ Others
    BY <1>14, ExposeTyped
  <2>2. tick'[t] = IdleTick \/ Kept
    BY <1>1, <2>1 DEF Tick, EthPcs, BasePcs
  <2> QED
    BY <1>2, <1>3, <1>4, <2>1, <2>2, TrustMoves
<1>15. CASE Enqueue(t)
  <2>1. /\ \/ tick'[t] = IdleTick
           \/ \E todo \in SUBSET Proposals :
                tick'[t] = [tick[t] EXCEPT !.pc = "expose", !.todo = todo]
        /\ Others
    BY <1>15, EnqueueTyped
  <2>2. tick'[t] = IdleTick \/ Kept
    BY <1>1, <2>1 DEF Tick, EthPcs, BasePcs
  <2> QED
    BY <1>2, <1>3, <1>4, <2>1, <2>2, TrustMoves
<1>16. CASE FailTick(t)
  BY <1>2, <1>4, <1>16, FailTyped, TrustMoves
<1> QED
  BY <1>5, <1>6, <1>7, <1>8, <1>9, <1>10, <1>11, <1>12, <1>13, <1>14, <1>15, <1>16

LEMMA StepTrusted == TypeInv /\ ChainsTrusted /\ [Next]_vars => ChainsTrusted'
<1> SUFFICES ASSUME TypeInv, ChainsTrusted, [Next]_vars PROVE ChainsTrusted'
  OBVIOUS
<1> USE NothingUnspent
<1>1. SUFFICES ASSUME Unspent({"reorg", "rpcError"})' PROVE ChainsTrusted'
  BY DEF ChainsTrusted
<1>2. Unspent({"reorg", "rpcError"})
  BY <1>1 DEF Unspent
<1>3. ASSUME NEW t \in Ticks, DetectEth(t) \/ DetectBase(t) PROVE ChainsTrusted'
  BY <1>1, <1>3, DetectTrusted DEF DetectEth, DetectBase, Chains
<1>4. ASSUME NEW t \in Ticks, Begin(t) \/ TickStep(t) \/ FailTick(t) PROVE ChainsTrusted'
  BY <1>2, <1>3, <1>4, AnchorTrusted, SaveTrusted, TickTrusted DEF TickStep
<1>5. CASE Crash
  <2>1. \A t \in Ticks : tick'[t] = IdleTick /\ chain' = chain
    BY <1>5, CrashTyped DEF Crash, world
  <2>2. \A t \in Ticks : Trusted(tick[t])'
    BY <2>1, NothingRead DEF Trusted, EthPcs, BasePcs
  <2>3. \A c \in Chains : OnChain(c, NoHash)' /\ NoCursor.block = 0 /\ NoCursor.hash = NoHash
                          /\ NoHash[1] = 0
    <3>1. TypeInv'
      BY <1>5, CrashTyped
    <3>2. \A c \in Chains : Height(c)' \in Nat
      BY <3>1 DEF TypeInv, MonitorTypeOK, Height
    <3> QED
      BY <3>2 DEF OnChain, HashOf, NoHash, NoCursor
  <2>4. \A c \in Chains : cursor'[c] = cursor[c] \/ cursor'[c] = NoCursor
    BY <1>5 DEF Crash
  <2>5. \A c \in Chains : cursor'[c] = cursor[c] \/
                          (OnChain(c, cursor[c].hash)' /\ cursor'[c].block = cursor'[c].hash[1])
    BY <2>3, <2>4 DEF OnChain, HashOf, Height
  <2>6. chain' = chain
    BY <1>5 DEF Crash, world
  <2> QED
    BY <1>2, <2>2, <2>5, <2>6, TrustKept
<1>6. CASE Environment
  <2>1. UNCHANGED <<tick, cursor>>
    BY <1>6, EnvironmentTyped
  <2>2. \A c \in Chains : chain'[c] = chain[c] \/ \E fork \in Nat : chain'[c] = Append(chain[c], fork)
    <3>1. left["reorg"] \in Nat /\ chain \in [Chains -> Seq(Nat)]
      BY DEF TypeInv, MonitorTypeOK, EventKinds
    <3>2. ~\E c \in Chains : \E n \in 1..Height(c) : Reorganise(c, n)
      BY <1>1 DEF Reorganise, Spend, Unspent
    <3>3. ASSUME NEW c \in Chains, NewBlock(c)
          PROVE  chain' = [chain EXCEPT ![c] = Append(@, left["reorg"])]
      BY <3>3 DEF NewBlock
    <3>4. chain' = chain \/ \E c \in Chains : NewBlock(c)
      BY <1>6, <3>2 DEF Environment, GovernorMoves, FactorMoves, PostImpact, EndRun, NewProposal,
                        WalletMoves, world
    <3> QED
      BY <3>1, <3>3, <3>4
  <2>3. \A c \in Chains : cursor'[c] = cursor[c]
    BY <2>1
  <2>4. \A t \in Ticks : tick'[t] = tick[t]
    BY <2>1
  <2> QED
    BY <1>2, <2>2, <2>3, <2>4, TrustKept
<1>7. CASE UNCHANGED vars
  <2>1. UNCHANGED <<tick, cursor, chain>>
    BY <1>7 DEF vars
  <2> QED
    BY <1>2, <2>1, TrustKept
<1> QED
  BY <1>4, <1>5, <1>6, <1>7 DEF Next

LEMMA InitTrusted == Init => ChainsTrusted
<1> SUFFICES ASSUME Init PROVE ChainsTrusted
  OBVIOUS
<1>1. TypeInv
  BY InitTyped
<1>2. \A c \in Chains : cursor[c] = NoCursor
  BY DEF Init
<1>3. \A t \in Ticks : tick[t] = IdleTick
  BY DEF Init
<1>4. \A t \in Ticks : Trusted(tick[t])
  BY <1>3, NothingRead DEF Trusted, EthPcs, BasePcs
<1>5. \A c \in Chains : OnChain(c, NoCursor.hash) /\ NoCursor.block = NoCursor.hash[1]
  BY <1>1, SafeOnChain DEF NoCursor, NoHash
<1> QED
  BY <1>2, <1>4, <1>5 DEF ChainsTrusted

(* Before a block is replaced or a read fails no tick reports a reorg,     *)
(* whatever else happens and in whatever order overlapping ticks read and  *)
(* save the two cursors.                                                   *)
THEOREM ReorgsAreReal == Spec => []NoFalseReorg
<1>1. ChainsTrusted => NoFalseReorg
  BY DEF ChainsTrusted, NoFalseReorg, Trusted
<1> QED
  BY <1>1, InitTyped, StepTyped, InitTrusted, StepTrusted, PTL DEF Spec

-----------------------------------------------------------------------------
(* Quiet chains.                                                           *)

LEMMA NormalTyped ==
    ASSUME TypeInv, NEW p \in Proposals
    PROVE  /\ Normal(p) \in Record \cup {NoRecord} /\ Settled(p) \in Record \cup {NoRecord}
           /\ Normal(p) # NoRecord => Normal(p) \in Record /\ Normal(p).raw = governor[p]
           /\ Settled(p) = NoRecord <=> Normal(p) = NoRecord
           /\ Settled(p) # NoRecord => Settled(p).raw = governor[p]
           /\ p \in Watched /\ Normal(p) # NoRecord => Settled(p) = WithDestination(Normal(p), p \in inForce)
<1>1. governor[p] \in RawStates
  BY DEF TypeInv, MonitorTypeOK
<1>2. /\ Normalized(governor[p], KindOf[p]) \in Record
      /\ Normalized(governor[p], KindOf[p]).raw = governor[p]
  BY <1>1, RecordsTyped
<1>3. /\ Normal(p) \in Record \cup {NoRecord}
      /\ Normal(p) # NoRecord => Normal(p) \in Record /\ Normal(p).raw = governor[p]
  BY <1>2 DEF Normal
<1>4. \A record \in Record : record # NoRecord
  BY RecordsTyped
<1>5. (p \in inForce) \in BOOLEAN
  OBVIOUS
<1>6. ASSUME Normal(p) # NoRecord
      PROVE  /\ WithDestination(Normal(p), p \in inForce) \in Record
             /\ WithDestination(Normal(p), p \in inForce).raw = governor[p]
  BY <1>3, <1>5, <1>6, DestinationTypedRecord
<1>7. CASE p \in Watched /\ Normal(p) # NoRecord
  <2>1. Settled(p) = WithDestination(Normal(p), p \in inForce)
    BY <1>7 DEF Settled
  <2> QED
    BY <1>3, <1>4, <1>6, <1>7, <2>1
<1>8. CASE ~(p \in Watched /\ Normal(p) # NoRecord)
  <2>1. Settled(p) = Normal(p)
    BY <1>8 DEF Settled
  <2> QED
    BY <1>3, <1>8, <2>1
<1> QED
  BY <1>7, <1>8

(* The refresh of a watched change settles it, from either form.           *)
LEMMA WatchedSettles ==
    ASSUME TypeInv, NEW p \in Watched, p \in Proposals, HoldsOne(p), store[p] # NoRecord
    PROVE  WithDestination(store[p], p \in inForce) = Settled(p)
<1>1. /\ Normal(p) # NoRecord /\ Normal(p) \in Record
      /\ Settled(p) = WithDestination(Normal(p), p \in inForce)
  BY NormalTyped DEF HoldsOne
<1>2. (p \in inForce) \in BOOLEAN
  OBVIOUS
<1>3. WithDestination(WithDestination(Normal(p), p \in inForce), p \in inForce)
        = WithDestination(Normal(p), p \in inForce)
  BY <1>1, <1>2, DestinationAgain
<1>4. store[p] = Normal(p) \/ store[p] = Settled(p)
  BY DEF HoldsOne
<1>5. CASE store[p] = Normal(p)
  BY <1>1, <1>5
<1>6. CASE store[p] = Settled(p)
  BY <1>1, <1>3, <1>6
<1> QED
  BY <1>4, <1>5, <1>6

(* In a quiet step only one tick moves.                                    *)
LEMMA QuietMoves ==
    ASSUME TypeInv, QuietInv, Quiet, NEW t \in Ticks,
           \A u \in Ticks \ {t} : At(u, "idle") /\ tick'[u] = tick[u],
           QuietTick(tick[t])', tick'[t].pc = "idle" => Rest'
    PROVE  QuietInv'
<1>1. \A u \in Ticks \ {t} : tick'[u].pc = "idle"
  BY DEF At
<1>2. \A u \in Ticks \ {t} : QuietTick(tick[u])'
  BY <1>1 DEF QuietTick, Early, Between, Late
<1>3. \A u \in Ticks : QuietTick(tick[u])'
  BY <1>2
<1>4. (\A u, v \in Ticks : ~At(u, "idle") /\ ~At(v, "idle") => u = v)'
  BY <1>1 DEF At
<1>5. ((\A u \in Ticks : At(u, "idle")) => Rest)'
  BY DEF At
<1> QED
  BY <1>3, <1>4, <1>5 DEF QuietInv

LEMMA OthersIdle ==
    ASSUME QuietInv, Quiet, NEW t \in Ticks, tick[t].pc # "idle"
    PROVE  QuietTick(tick[t]) /\ \A u \in Ticks \ {t} : At(u, "idle")
  BY DEF QuietInv, At

(* What the chains say has not changed.                                    *)
LEMMA SameChains ==
    ASSUME UNCHANGED <<governor, count, inForce>>
    PROVE  \A p \in Proposals : Normal(p)' = Normal(p) /\ Settled(p)' = Settled(p)
  BY DEF Normal, Settled

LEMMA SameRest ==
    ASSUME UNCHANGED <<governor, count, inForce, store>>
    PROVE  /\ AllSettled' <=> AllSettled
           /\ \A p \in Proposals : HoldsOne(p)' <=> HoldsOne(p)
           /\ cursor' = cursor => (Rest' <=> Rest)
  BY SameChains DEF AllSettled, HoldsOne, Rest

LEMMA BeginQuiet ==
    ASSUME TypeInv, QuietInv, Quiet, Quiet', NEW t \in Ticks, Begin(t)
    PROVE  QuietInv'
<1>1. \A u \in Ticks : At(u, "idle")
  BY DEF Begin, Spend, Quiet, Undisturbed, Unspent
<1>2. Rest
  BY <1>1 DEF QuietInv
<1>3. /\ tick'[t] = [tick[t] EXCEPT !.pc = "detectEth",
                                    !.previous = [p \in Proposals |-> store[p].status]]
      /\ \A u \in Ticks \ {t} : tick'[u] = tick[u]
  BY BeginTyped
<1>4. tick'[t].pc = "detectEth" /\ tick'[t].previous = [p \in Proposals |-> store[p].status]
  <2>1. tick[t] \in Tick
    BY DEF TypeInv, MonitorTypeOK
  <2> QED
    BY <1>3, <2>1 DEF Tick
<1>5. UNCHANGED <<governor, count, inForce, store, cursor>>
  BY DEF Begin, world
<1>6. Rest' /\ \A p \in Proposals : Settled(p)' = Settled(p)
  BY <1>2, <1>5, SameRest, SameChains
<1>7. \A p \in Proposals : store[p].status \in {"none", Settled(p).status}
  BY <1>2 DEF Rest, AllSettled, NoRecord
<1>8. QuietTick(tick[t])'
  BY <1>4, <1>6, <1>7 DEF QuietTick, Early, Between, Late
<1> QED
  BY <1>1, <1>3, <1>4, <1>8, QuietMoves

LEMMA DetectQuiet ==
    ASSUME TypeInv, QuietInv, Quiet, NEW t \in Ticks, DetectEth(t) \/ DetectBase(t)
    PROVE  QuietInv'
<1>1. UNCHANGED <<governor, count, inForce, store, cursor>>
  BY DEF DetectEth, DetectBase, DetectReorg, world
<1>2. \A p \in Proposals : Settled(p)' = Settled(p)
  BY <1>1, SameChains
<1>3. CASE DetectEth(t)
  <2>1. tick[t].pc = "detectEth"
    BY <1>3 DEF DetectEth, At
  <2>2. Detected(t, "eth", "anchorEth") /\ \A u \in Ticks \ {t} : tick'[u] = tick[u]
    BY <1>3, DetectTyped DEF DetectEth, Chains
  <2>3. /\ tick'[t].pc = "anchorEth" /\ tick'[t].cursor = cursor["eth"]
        /\ tick'[t].previous = tick[t].previous
    BY <2>2 DEF Detected
  <2>4. QuietTick(tick[t]) /\ \A u \in Ticks \ {t} : At(u, "idle")
    BY <2>1, OthersIdle
  <2>5. Rest'
    BY <1>1, <2>1, <2>4, SameRest DEF QuietTick, Early
  <2>6. QuietTick(tick[t])'
    BY <1>1, <1>2, <2>1, <2>3, <2>4, <2>5 DEF QuietTick, Early, Between, Late
  <2> QED
    BY <2>2, <2>3, <2>4, <2>6, QuietMoves
<1>4. CASE DetectBase(t)
  <2>1. tick[t].pc = "detectBase"
    BY <1>4 DEF DetectBase, At
  <2>2. Detected(t, "base", "anchorBase") /\ \A u \in Ticks \ {t} : tick'[u] = tick[u]
    BY <1>4, DetectTyped DEF DetectBase, Chains
  <2>3. tick'[t].pc = "anchorBase" /\ tick'[t].previous = tick[t].previous
    BY <2>2 DEF Detected
  <2>4. QuietTick(tick[t]) /\ \A u \in Ticks \ {t} : At(u, "idle")
    BY <2>1, OthersIdle
  <2>5. \A p \in Proposals : HoldsOne(p)'
    BY <1>1, <2>1, <2>4, SameRest DEF QuietTick, Between
  <2>6. QuietTick(tick[t])'
    BY <1>2, <2>1, <2>3, <2>4, <2>5 DEF QuietTick, Early, Between, Late
  <2> QED
    BY <2>2, <2>3, <2>4, <2>6, QuietMoves
<1> QED
  BY <1>3, <1>4

LEMMA AnchorEthQuiet ==
    ASSUME TypeInv, QuietInv, Quiet, NEW t \in Ticks, AnchorEth(t)
    PROVE  QuietInv'
<1>1. tick[t].pc = "anchorEth" /\ tick[t] \in Tick
  BY DEF AnchorEth, At, TypeInv, MonitorTypeOK
<1>2. QuietTick(tick[t]) /\ \A u \in Ticks \ {t} : At(u, "idle")
  BY <1>1, OthersIdle
<1>3. PICK first \in 1..count :
        /\ first = IF tick[t].cursor = NoCursor THEN 1 ELSE tick[t].cursor.last
        /\ tick'[t] = [tick[t] EXCEPT !.pc = "upsert", !.todo = first..count, !.raws = governor,
                                      !.safe = SafeHash("eth"), !.last = count]
  BY AnchorEthTyped
<1>4. \A u \in Ticks \ {t} : tick'[u] = tick[u]
  BY AnchorEthTyped
<1>5. /\ tick'[t].pc = "upsert" /\ tick'[t].raws = governor /\ tick'[t].todo = first..count
      /\ tick'[t].previous = tick[t].previous
  BY <1>1, <1>3 DEF Tick
<1>6. UNCHANGED <<governor, count, inForce, store, cursor>>
  BY DEF AnchorEth, world
<1>7. tick'[t].todo \subseteq 1..count
  BY <1>3, <1>5
<1>8. ASSUME NEW p \in Proposals
      PROVE  HoldsOne(p) \/ (p \in tick'[t].todo /\ CallsOf[p] # {})
  <2>1. CASE AllSettled
    BY <2>1 DEF AllSettled, HoldsOne
  <2>2. CASE cursor["eth"] = NoCursor /\ store[p] = NoRecord /\ p <= count /\ CallsOf[p] # {}
    <3>1. first = 1
      BY <1>1, <1>2, <1>3, <2>2 DEF QuietTick
    <3>2. p \in 1..count
      BY <2>2, MonitorNumbers DEF Proposals, TypeInv, MonitorTypeOK
    <3> QED
      BY <1>5, <2>2, <3>1, <3>2
  <2>3. CASE store[p] = NoRecord /\ ~(p <= count /\ CallsOf[p] # {})
    <3>1. p \in Nat /\ count \in Nat
      BY MonitorNumbers DEF TypeInv, MonitorTypeOK
    <3> QED
      BY <2>3, <3>1 DEF HoldsOne, Normal
  <2>4. Rest
    BY <1>1, <1>2 DEF QuietTick, Early
  <2> QED
    BY <2>1, <2>2, <2>3, <2>4 DEF Rest
<1>9. \A p \in Proposals : HoldsOne(p)' \/ (p \in tick'[t].todo /\ CallsOf[p] # {})
  BY <1>6, <1>8, SameRest
<1>10. \A p \in Proposals : tick'[t].previous[p] \in {"none", Settled(p)'.status}
  BY <1>1, <1>2, <1>5, <1>6, SameChains DEF QuietTick
<1>11. QuietTick(tick[t])'
  BY <1>5, <1>6, <1>7, <1>9, <1>10 DEF QuietTick, Early, Between, Late
<1> QED
  BY <1>2, <1>4, <1>5, <1>11, QuietMoves

LEMMA UpsertQuiet ==
    ASSUME TypeInv, QuietInv, Quiet, NEW t \in Ticks, UpsertProposal(t)
    PROVE  QuietInv'
<1>1. tick[t].pc = "upsert" /\ tick[t] \in Tick
  BY DEF UpsertProposal, At, TypeInv, MonitorTypeOK
<1>2. QuietTick(tick[t]) /\ \A u \in Ticks \ {t} : At(u, "idle")
  BY <1>1, OthersIdle
<1>3. PICK p : p = Next1(tick[t].todo)
  OBVIOUS
<1>4. /\ p \in tick[t].todo
      /\ tick'[t] = [tick[t] EXCEPT !.todo = @ \ {p},
                                    !.pc = IF tick[t].todo = {p} THEN "saveEth" ELSE @]
      /\ \A u \in Ticks \ {t} : tick'[u] = tick[u]
  BY <1>3, UpsertTyped
<1>5. UNCHANGED <<governor, count, inForce, cursor>>
  BY DEF UpsertProposal, world
<1>6. store' = IF CallsOf[p] = {} THEN store
               ELSE [store EXCEPT ![p] = Normalized(tick[t].raws[p], KindOf[p])]
  BY <1>3 DEF UpsertProposal
<1>7. /\ tick'[t].pc = IF tick[t].todo = {p} THEN "saveEth" ELSE "upsert"
      /\ tick'[t].raws = tick[t].raws /\ tick'[t].todo = tick[t].todo \ {p}
      /\ tick'[t].previous = tick[t].previous
  BY <1>1, <1>4 DEF Tick
<1>8. /\ tick[t].raws = governor /\ tick[t].todo \subseteq 1..count /\ p \in Proposals
      /\ \A q \in Proposals : HoldsOne(q) \/ (q \in tick[t].todo /\ CallsOf[q] # {})
  BY <1>1, <1>2, <1>4 DEF QuietTick, Tick
<1>9. CallsOf[p] # {} => store'[p] = Normal(p)
  <2>1. p \in 1..count /\ count \in Nat /\ p \in Nat
    BY <1>4, <1>8, MonitorNumbers DEF TypeInv, MonitorTypeOK
  <2>2. ~(p > count)
    BY <2>1
  <2>3. store \in [Proposals -> Record \cup {NoRecord}]
    BY DEF TypeInv, MonitorTypeOK
  <2> QED
    BY <1>6, <1>8, <2>2, <2>3 DEF Normal
<1>10. \A q \in Proposals : Normal(q)' = Normal(q) /\ Settled(q)' = Settled(q)
  BY <1>5, SameChains
<1>11. HoldsOne(p)'
  BY <1>6, <1>8, <1>9, <1>10 DEF HoldsOne
<1>12. \A q \in Proposals \ {p} : store'[q] = store[q]
  BY <1>6 DEF TypeInv, MonitorTypeOK
<1>13. \A q \in Proposals \ {p} : HoldsOne(q)' <=> HoldsOne(q)
  BY <1>10, <1>12 DEF HoldsOne
<1>14. \A q \in Proposals : HoldsOne(q)' \/ (q \in tick'[t].todo /\ CallsOf[q] # {})
  BY <1>7, <1>8, <1>11, <1>13
<1>15. tick[t].todo = {p} => \A q \in Proposals : HoldsOne(q)'
  BY <1>7, <1>14
<1>16. \A q \in Proposals : tick'[t].previous[q] \in {"none", Settled(q)'.status}
  BY <1>1, <1>2, <1>7, <1>10 DEF QuietTick
<1>17. QuietTick(tick[t])'
  BY <1>5, <1>7, <1>8, <1>14, <1>15, <1>16 DEF QuietTick, Early, Between, Late
<1> QED
  BY <1>2, <1>4, <1>7, <1>17, QuietMoves

LEMMA SaveEthQuiet ==
    ASSUME TypeInv, QuietInv, Quiet, NEW t \in Ticks, SaveEth(t)
    PROVE  QuietInv'
<1>1. tick[t].pc = "saveEth" /\ tick[t] \in Tick
  BY DEF SaveEth, At, TypeInv, MonitorTypeOK
<1>2. QuietTick(tick[t]) /\ \A u \in Ticks \ {t} : At(u, "idle")
  BY <1>1, OthersIdle
<1>3. /\ tick'[t] = [tick[t] EXCEPT !.pc = "readSource", !.raws = NoRaws, !.safe = NoHash,
                                    !.last = 0, !.cursor = NoCursor]
      /\ \A u \in Ticks \ {t} : tick'[u] = tick[u]
  BY SaveEthTyped
<1>4. tick'[t].pc = "readSource" /\ tick'[t].previous = tick[t].previous
  BY <1>1, <1>3 DEF Tick
<1>5. UNCHANGED <<governor, count, inForce, store>>
  BY DEF SaveEth, world
<1>6. \A p \in Proposals : HoldsOne(p)' /\ Settled(p)' = Settled(p)
  BY <1>1, <1>2, <1>5, SameRest, SameChains DEF QuietTick, Between
<1>7. \A p \in Proposals : tick'[t].previous[p] \in {"none", Settled(p)'.status}
  BY <1>1, <1>2, <1>4, <1>6 DEF QuietTick
<1>8. QuietTick(tick[t])'
  BY <1>4, <1>6, <1>7 DEF QuietTick, Early, Between, Late
<1> QED
  BY <1>2, <1>3, <1>4, <1>8, QuietMoves

LEMMA ReadSourceQuiet ==
    ASSUME TypeInv, QuietInv, Quiet, NEW t \in Ticks, ReadSource(t)
    PROVE  QuietInv'
<1>1. tick[t].pc = "readSource" /\ tick[t] \in Tick
  BY DEF ReadSource, At, TypeInv, MonitorTypeOK
<1>2. QuietTick(tick[t]) /\ \A u \in Ticks \ {t} : At(u, "idle")
  BY <1>1, OthersIdle
<1>3. /\ tick'[t] = [tick[t] EXCEPT
                       !.pc = IF Listed = {} THEN "detectBase" ELSE "refresh",
                       !.todo = Listed, !.seen = store, !.raws = governor]
      /\ \A u \in Ticks \ {t} : tick'[u] = tick[u]
  BY ReadSourceTyped
<1>4. /\ tick'[t].pc \in {"detectBase", "refresh"} /\ tick'[t].previous = tick[t].previous
      /\ tick'[t].raws = governor /\ tick'[t].seen = store
  BY <1>1, <1>3 DEF Tick
<1>5. UNCHANGED <<governor, count, inForce, store>>
  BY DEF ReadSource, world
<1>6. \A p \in Proposals : HoldsOne(p)' /\ Settled(p)' = Settled(p)
  BY <1>1, <1>2, <1>5, SameRest, SameChains DEF QuietTick, Between
<1>7. \A p \in Proposals : tick'[t].previous[p] \in {"none", Settled(p)'.status}
  BY <1>1, <1>2, <1>4, <1>6 DEF QuietTick
<1>8. QuietTick(tick[t])'
  BY <1>4, <1>5, <1>6, <1>7 DEF QuietTick, Early, Between, Late
<1> QED
  BY <1>2, <1>3, <1>4, <1>8, QuietMoves

(* The source refresh finds every raw state as it was.                     *)
LEMMA RefreshQuiet ==
    ASSUME TypeInv, QuietInv, Quiet, NEW t \in Ticks, RefreshRecord(t)
    PROVE  QuietInv'
<1> DEFINE p == Next1(tick[t].todo)
           done == tick[t].todo = {p}
<1>1. tick[t].pc = "refresh" /\ tick[t] \in Tick
  BY DEF RefreshRecord, At, TypeInv, MonitorTypeOK
<1>2. QuietTick(tick[t]) /\ \A u \in Ticks \ {t} : At(u, "idle")
  BY <1>1, OthersIdle
<1>3. /\ p \in tick[t].todo /\ tick[t].seen[p] \in Record
      /\ tick'[t] = [tick[t] EXCEPT !.todo = @ \ {p}, !.pc = IF done THEN "detectBase" ELSE @,
                                    !.seen = IF done THEN NoRecords ELSE @,
                                    !.raws = IF done THEN NoRaws ELSE @]
      /\ \A u \in Ticks \ {t} : tick'[u] = tick[u]
  BY RefreshTyped
<1>4. UNCHANGED <<governor, count, inForce, cursor>>
  BY DEF RefreshRecord, world
<1>5. store' = IF tick[t].raws[p] = tick[t].seen[p].raw THEN store
               ELSE [store EXCEPT ![p] = Refreshed(tick[t].seen[p], tick[t].raws[p])]
  BY DEF RefreshRecord
<1> HIDE DEF p
<1>6. /\ tick'[t].pc = IF done THEN "detectBase" ELSE "refresh"
      /\ ~done => tick'[t].raws = tick[t].raws /\ tick'[t].seen = tick[t].seen
      /\ tick'[t].previous = tick[t].previous
  BY <1>1, <1>3 DEF Tick
<1>7. tick[t].raws = governor /\ tick[t].seen = store /\ p \in Proposals /\ HoldsOne(p)
  BY <1>1, <1>2, <1>3 DEF QuietTick, Tick, Between
<1>8. store' = store
  <2>1. store[p] # NoRecord
    BY <1>3, <1>7, RecordsTyped
  <2>2. store[p].raw = governor[p]
    BY <1>7, <2>1, NormalTyped DEF HoldsOne
  <2> QED
    BY <1>5, <1>7, <2>2
<1>9. \A q \in Proposals : HoldsOne(q)' /\ Settled(q)' = Settled(q)
  BY <1>1, <1>2, <1>4, <1>8, SameRest, SameChains DEF QuietTick, Between
<1>10. \A q \in Proposals : tick'[t].previous[q] \in {"none", Settled(q)'.status}
  BY <1>1, <1>2, <1>6, <1>9 DEF QuietTick
<1>11. QuietTick(tick[t])'
  BY <1>4, <1>6, <1>7, <1>8, <1>9, <1>10 DEF QuietTick, Early, Between, Late
<1> QED
  BY <1>2, <1>3, <1>6, <1>11, QuietMoves

LEMMA AnchorBaseQuiet ==
    ASSUME TypeInv, QuietInv, Quiet, NEW t \in Ticks, AnchorBase(t)
    PROVE  QuietInv'
<1> DEFINE todo == Listed \cap Watched
<1>1. tick[t].pc = "anchorBase" /\ tick[t] \in Tick
  BY DEF AnchorBase, At, TypeInv, MonitorTypeOK
<1>2. QuietTick(tick[t]) /\ \A u \in Ticks \ {t} : At(u, "idle")
  BY <1>1, OthersIdle
<1>3. /\ tick'[t] = [tick[t] EXCEPT !.pc = IF todo = {} THEN "saveBase" ELSE "destination",
                                    !.todo = todo, !.seen = store,
                                    !.factors = inForce, !.safe = SafeHash("base")]
      /\ \A u \in Ticks \ {t} : tick'[u] = tick[u]
  BY AnchorBaseTyped
<1>4. UNCHANGED <<governor, count, inForce, store, cursor>>
  BY DEF AnchorBase, world
<1>5. \A p \in Proposals : HoldsOne(p)
  BY <1>1, <1>2 DEF QuietTick, Between
<1>6. ASSUME NEW p \in Proposals, p \notin todo PROVE store[p] = Settled(p)
  <2>1. CASE p \notin Watched
    BY <1>5, <2>1 DEF HoldsOne, Settled
  <2>2. CASE p \notin Listed
    <3>1. store[p] = NoRecord
      BY <2>2, RecordsTyped DEF Listed, Indexed, TypeInv, MonitorTypeOK
    <3> QED
      BY <1>5, <3>1, NormalTyped DEF HoldsOne
  <2> QED
    BY <1>6, <2>1, <2>2
<1>7. todo = {} => AllSettled
  BY <1>6 DEF AllSettled
<1>8. todo \subseteq Watched
  OBVIOUS
<1> HIDE DEF todo
<1>9. /\ tick'[t].pc = IF todo = {} THEN "saveBase" ELSE "destination"
      /\ tick'[t].todo = todo /\ tick'[t].seen = store /\ tick'[t].factors = inForce
      /\ tick'[t].previous = tick[t].previous
  BY <1>1, <1>3 DEF Tick
<1>10. /\ \A p \in Proposals : (HoldsOne(p)' <=> HoldsOne(p)) /\ Settled(p)' = Settled(p)
       /\ AllSettled' <=> AllSettled
  BY <1>4, SameRest, SameChains
<1>11. \A p \in Proposals : tick'[t].previous[p] \in {"none", Settled(p)'.status}
  BY <1>1, <1>2, <1>9, <1>10 DEF QuietTick
<1>12. \A p \in Proposals : IF p \in tick'[t].todo
                              THEN tick'[t].seen[p] = store'[p] /\ HoldsOne(p)'
                              ELSE store'[p] = Settled(p)'
  BY <1>4, <1>5, <1>6, <1>9, <1>10
<1>13. QuietTick(tick[t])'
  BY <1>4, <1>7, <1>8, <1>9, <1>10, <1>11, <1>12 DEF QuietTick, Early, Between, Late
<1> QED
  BY <1>2, <1>3, <1>9, <1>13, QuietMoves

(* The destination refresh settles every watched change.                   *)
LEMMA DestinationQuiet ==
    ASSUME TypeInv, QuietInv, Quiet, NEW t \in Ticks, RefreshDestination(t)
    PROVE  QuietInv'
<1>1. tick[t].pc = "destination" /\ tick[t] \in Tick
  BY DEF RefreshDestination, At, TypeInv, MonitorTypeOK
<1>2. QuietTick(tick[t]) /\ \A u \in Ticks \ {t} : At(u, "idle")
  BY <1>1, OthersIdle
<1>3. PICK p : p = Next1(tick[t].todo)
  OBVIOUS
<1>4. /\ p \in tick[t].todo /\ tick[t].seen[p] \in Record
      /\ tick'[t] = [tick[t] EXCEPT !.todo = @ \ {p},
                                    !.pc = IF tick[t].todo = {p} THEN "saveBase" ELSE @,
                                    !.seen = IF tick[t].todo = {p} THEN NoRecords ELSE @,
                                    !.factors = IF tick[t].todo = {p} THEN {} ELSE @]
      /\ \A u \in Ticks \ {t} : tick'[u] = tick[u]
  BY <1>3, DestinationTyped
<1>5. UNCHANGED <<governor, count, inForce, cursor>>
  BY DEF RefreshDestination, world
<1>6. LET next == WithDestination(tick[t].seen[p], p \in tick[t].factors) IN
      store' = IF next = tick[t].seen[p] THEN store ELSE [store EXCEPT ![p] = next]
  BY <1>3 DEF RefreshDestination
<1>7. /\ tick'[t].pc = IF tick[t].todo = {p} THEN "saveBase" ELSE "destination"
      /\ tick'[t].todo = tick[t].todo \ {p}
      /\ tick[t].todo # {p} => /\ tick'[t].seen = tick[t].seen
                               /\ tick'[t].factors = tick[t].factors
      /\ tick'[t].previous = tick[t].previous
  BY <1>1, <1>4 DEF Tick
<1>8. /\ tick[t].factors = inForce /\ tick[t].todo \subseteq Watched /\ p \in Proposals
      /\ \A q \in Proposals : IF q \in tick[t].todo THEN tick[t].seen[q] = store[q] /\ HoldsOne(q)
                              ELSE store[q] = Settled(q)
  BY <1>1, <1>2, <1>4 DEF QuietTick, Tick
<1>9. store[p] = tick[t].seen[p] /\ HoldsOne(p) /\ store[p] # NoRecord /\ p \in Watched
  BY <1>4, <1>8, RecordsTyped
<1>10. WithDestination(store[p], p \in inForce) = Settled(p)
  BY <1>8, <1>9, WatchedSettles
<1>11. store' = [store EXCEPT ![p] = Settled(p)]
  BY <1>6, <1>8, <1>9, <1>10 DEF TypeInv, MonitorTypeOK
<1>12. store'[p] = Settled(p) /\ \A q \in Proposals \ {p} : store'[q] = store[q]
  BY <1>8, <1>11 DEF TypeInv, MonitorTypeOK
<1>13. \A q \in Proposals : Normal(q)' = Normal(q) /\ Settled(q)' = Settled(q)
  BY <1>5, SameChains
<1>14. \A q \in Proposals \ {p} : HoldsOne(q)' <=> HoldsOne(q)
  BY <1>12, <1>13 DEF HoldsOne
<1>15. \A q \in Proposals : IF q \in tick'[t].todo
                              THEN tick[t].seen[q] = store'[q] /\ HoldsOne(q)'
                              ELSE store'[q] = Settled(q)'
  BY <1>7, <1>8, <1>12, <1>13, <1>14
<1>16. tick[t].todo = {p} => AllSettled'
  BY <1>7, <1>15 DEF AllSettled
<1>17. \A q \in Proposals : tick'[t].previous[q] \in {"none", Settled(q)'.status}
  BY <1>1, <1>2, <1>7, <1>13 DEF QuietTick
<1>18. QuietTick(tick[t])'
  BY <1>5, <1>7, <1>8, <1>15, <1>16, <1>17 DEF QuietTick, Early, Between, Late
<1> QED
  BY <1>2, <1>4, <1>7, <1>18, QuietMoves

(* From here on the store is settled, and stays so to the end of the tick. *)
LEMMA LateQuiet ==
    ASSUME TypeInv, QuietInv, Quiet, NEW t \in Ticks, tick[t].pc \in Late,
           UNCHANGED <<governor, count, inForce, store>>,
           \A u \in Ticks \ {t} : tick'[u] = tick[u],
           \/ tick'[t] = IdleTick
           \/ /\ tick'[t].pc \in Late /\ tick'[t].previous = tick[t].previous
              /\ tick'[t].pc = "mark" => tick'[t].todo = {}
    PROVE  QuietInv'
<1>1. QuietTick(tick[t]) /\ \A u \in Ticks \ {t} : At(u, "idle")
  BY OthersIdle DEF Late
<1>2. AllSettled
  BY <1>1 DEF QuietTick
<1>3. AllSettled' /\ Rest' /\ \A p \in Proposals : Settled(p)' = Settled(p)
  BY <1>2, SameRest, SameChains DEF Rest
<1>4. CASE tick'[t] = IdleTick
  <2>1. QuietTick(tick[t])'
    BY <1>4, NothingRead DEF QuietTick, Early, Between, Late
  <2> QED
    BY <1>1, <1>3, <2>1, QuietMoves
<1>5. CASE /\ tick'[t].pc \in Late /\ tick'[t].previous = tick[t].previous
           /\ tick'[t].pc = "mark" => tick'[t].todo = {}
  <2>1. \A p \in Proposals : tick'[t].previous[p] \in {"none", Settled(p)'.status}
    BY <1>1, <1>3, <1>5 DEF QuietTick, Late
  <2>2. QuietTick(tick[t])'
    BY <1>3, <1>5, <2>1 DEF QuietTick, Early, Between, Late
  <2> QED
    BY <1>1, <1>3, <2>2, QuietMoves
<1> QED
  BY <1>4, <1>5

LEMMA SaveBaseQuiet ==
    ASSUME TypeInv, QuietInv, Quiet, NEW t \in Ticks, SaveBase(t)
    PROVE  QuietInv'
<1>1. tick[t].pc = "saveBase" /\ tick[t] \in Tick
  BY DEF SaveBase, At, TypeInv, MonitorTypeOK
<1>2. /\ tick'[t] = [tick[t] EXCEPT !.pc = "list", !.seen = NoRecords, !.factors = {},
                                    !.safe = NoHash, !.cursor = NoCursor]
      /\ \A u \in Ticks \ {t} : tick'[u] = tick[u]
  BY SaveBaseTyped
<1>3. tick'[t].pc = "list" /\ tick'[t].previous = tick[t].previous
  BY <1>1, <1>2 DEF Tick
<1>4. UNCHANGED <<governor, count, inForce, store>>
  BY DEF SaveBase, world
<1> QED
  BY <1>1, <1>2, <1>3, <1>4, LateQuiet DEF Late

(* No status of the second listing differs from the first.                 *)
LEMMA ListNextQuiet ==
    ASSUME TypeInv, QuietInv, Quiet, NEW t \in Ticks, ListNext(t)
    PROVE  QuietInv'
<1> DEFINE todo == {p \in Listed : Transition(tick[t].previous[p], store[p].status)}
<1>1. tick[t].pc = "list" /\ tick[t] \in Tick
  BY DEF ListNext, At, TypeInv, MonitorTypeOK
<1>2. QuietTick(tick[t])
  BY <1>1, OthersIdle
<1>3. todo = {}
  BY <1>1, <1>2, ListedTyped DEF QuietTick, Late, AllSettled, Transition
<1>4. /\ tick'[t] = [tick[t] EXCEPT !.pc = "mark", !.seen = store, !.todo = todo]
      /\ \A u \in Ticks \ {t} : tick'[u] = tick[u]
  BY ListNextTyped
<1> HIDE DEF todo
<1>5. tick'[t].pc = "mark" /\ tick'[t].previous = tick[t].previous /\ tick'[t].todo = {}
  BY <1>1, <1>3, <1>4 DEF Tick
<1>6. UNCHANGED <<governor, count, inForce, store>>
  BY DEF ListNext, world
<1> QED
  BY <1>1, <1>4, <1>5, <1>6, LateQuiet DEF Late

(* So the loops that mark have nothing to do.                              *)
LEMMA NothingToMark ==
    ASSUME TypeInv, QuietInv, Quiet, NEW t \in Ticks
    PROVE  ~Mark(t)
<1> SUFFICES ASSUME Mark(t) PROVE FALSE
  OBVIOUS
<1>1. tick[t].pc \in {"mark", "markAll"} /\ tick[t].todo # {}
  BY DEF Mark, At
<1> QED
  BY <1>1, OthersIdle DEF QuietTick

LEMMA MarkAllQuiet ==
    ASSUME TypeInv, ChainsTrusted, QuietInv, Quiet, NEW t \in Ticks, MarkAll(t)
    PROVE  QuietInv'
<1>1. tick[t].pc = "mark" /\ tick[t] \in Tick
  BY DEF MarkAll, At, TypeInv, MonitorTypeOK
<1>2. Unspent({"reorg", "rpcError"})
  BY DEF Quiet, Unspent
<1>3. \A c \in Chains : ~tick[t].reorg[c]
  BY <1>2 DEF ChainsTrusted, Trusted
<1>4. tick'[t] = [tick[t] EXCEPT !.pc = "wallet"] /\ \A u \in Ticks \ {t} : tick'[u] = tick[u]
  BY <1>3, MarkAllTyped
<1>5. tick'[t].pc = "wallet" /\ tick'[t].previous = tick[t].previous
  BY <1>1, <1>4 DEF Tick
<1>6. UNCHANGED <<governor, count, inForce, store>>
  BY DEF MarkAll, world
<1> QED
  BY <1>1, <1>4, <1>5, <1>6, LateQuiet DEF Late

LEMMA WalletQuiet ==
    ASSUME TypeInv, QuietInv, Quiet, NEW t \in Ticks, ReadWallet(t) \/ Expose(t) \/ Enqueue(t)
    PROVE  QuietInv'
<1>1. tick[t].pc \in Late /\ tick[t] \in Tick
  <2>1. tick[t].pc \in {"wallet", "markAll", "expose", "enqueue"}
    BY DEF ReadWallet, Expose, Enqueue, At
  <2>2. tick[t].pc # "markAll"
    BY <2>1, OthersIdle DEF QuietTick
  <2> QED
    BY <2>1, <2>2 DEF Late, TypeInv, MonitorTypeOK
<1>2. UNCHANGED <<governor, count, inForce, store>>
  BY DEF ReadWallet, Expose, Enqueue, world
<1>3. /\ \/ tick'[t] = IdleTick
         \/ \E todo \in SUBSET Proposals, factors \in SUBSET Proposals, pc \in {"expose", "enqueue"} :
              \/ tick'[t] = [tick[t] EXCEPT !.pc = pc, !.todo = todo]
              \/ tick'[t] = [tick[t] EXCEPT !.pc = pc, !.todo = todo, !.factors = factors]
      /\ \A u \in Ticks \ {t} : tick'[u] = tick[u]
  <2>1. Known(t) \in SUBSET Proposals
    BY DEF Known
  <2>2. CASE ReadWallet(t)
    BY <2>1, <2>2, ReadWalletTyped
  <2>3. CASE Expose(t)
    BY <2>3, ExposeTyped
  <2>4. CASE Enqueue(t)
    BY <2>4, EnqueueTyped
  <2> QED
    BY <2>2, <2>3, <2>4
<1>4. \/ tick'[t] = IdleTick
      \/ tick'[t].pc \in {"expose", "enqueue"} /\ tick'[t].previous = tick[t].previous
  BY <1>1, <1>3 DEF Tick
<1> QED
  BY <1>1, <1>2, <1>3, <1>4, LateQuiet DEF Late

(* Blocks, the wallet's owner, the API and the simulator do not disturb.   *)
LEMMA SameQuiet ==
    ASSUME QuietInv, Quiet, UNCHANGED <<governor, count, inForce, store, cursor, tick>>
    PROVE  QuietInv'
<1>1. /\ AllSettled' <=> AllSettled
      /\ Rest' <=> Rest
      /\ \A p \in Proposals : (HoldsOne(p)' <=> HoldsOne(p)) /\ Settled(p)' = Settled(p)
  BY SameRest, SameChains
<1>2. ASSUME NEW t \in Ticks PROVE QuietTick(tick[t])'
  <2>1. QuietTick(tick[t])
    BY DEF QuietInv
  <2>2. \A p \in Proposals : tick[t].pc # "idle" => tick[t].previous[p] \in {"none", Settled(p)'.status}
    BY <1>1, <2>1 DEF QuietTick
  <2>3. tick'[t] = tick[t]
    OBVIOUS
  <2> QED
    BY <1>1, <2>1, <2>2, <2>3 DEF QuietTick
<1>3. /\ (\A t, u \in Ticks : ~At(t, "idle") /\ ~At(u, "idle") => t = u)'
      /\ ((\A t \in Ticks : At(t, "idle")) => Rest)'
  BY <1>1 DEF QuietInv, At
<1> QED
  BY <1>2, <1>3 DEF QuietInv

LEMMA StepQuiet == TypeInv /\ ChainsTrusted /\ QuietInv /\ [Next]_vars => QuietInv'
<1> SUFFICES ASSUME TypeInv, ChainsTrusted, QuietInv, [Next]_vars, Quiet' PROVE QuietInv'
  BY DEF QuietInv
<1>1. Quiet
  BY NothingUnspent DEF Quiet, Undisturbed, Unspent
<1>2. ASSUME NEW t \in Ticks, Begin(t) \/ TickStep(t) PROVE QuietInv'
  BY <1>1, <1>2, BeginQuiet, DetectQuiet, AnchorEthQuiet, UpsertQuiet, SaveEthQuiet,
     ReadSourceQuiet, RefreshQuiet, AnchorBaseQuiet, DestinationQuiet, SaveBaseQuiet,
     ListNextQuiet, NothingToMark, MarkAllQuiet, WalletQuiet DEF TickStep
<1>3. ASSUME NEW t \in Ticks PROVE ~FailTick(t)
  BY DEF FailTick, Spend, Quiet, Undisturbed, Unspent
<1>4. ~Crash
  BY DEF Crash, Spend, Quiet, Undisturbed, Unspent
<1>5. CASE Environment
  <2>1. UNCHANGED <<tick, store, cursor>>
    BY <1>5, EnvironmentTyped
  <2>2. UNCHANGED <<governor, count, inForce>>
    BY <1>5 DEF Environment, GovernorMoves, FactorMoves, PostImpact, EndRun, NewProposal,
                WalletMoves, NewBlock, Reorganise, Spend, Quiet, Unspent, world
  <2> QED
    BY <1>1, <2>1, <2>2, SameQuiet
<1>6. CASE UNCHANGED vars
  <2>1. UNCHANGED <<governor, count, inForce, store, cursor, tick>>
    BY <1>6 DEF vars
  <2> QED
    BY <1>1, <2>1, SameQuiet
<1> QED
  BY <1>2, <1>3, <1>4, <1>5, <1>6 DEF Next

LEMMA InitQuiet == Init => QuietInv
<1> SUFFICES ASSUME Init PROVE QuietInv
  OBVIOUS
<1>1. \A t \in Ticks : tick[t] = IdleTick
  BY DEF Init
<1>2. \A t \in Ticks : At(t, "idle") /\ QuietTick(tick[t])
  BY <1>1, NothingRead DEF At, QuietTick, Early, Between, Late
<1>3. Rest
  BY DEF Init, Rest, NoRecords, Chains
<1> QED
  BY <1>2, <1>3 DEF QuietInv

(* The inductive invariant of the monitor.                                 *)
THEOREM MonitorInductive == Spec => [](TypeInv /\ ChainsTrusted /\ QuietInv)
  BY InitTyped, StepTyped, InitTrusted, StepTrusted, InitQuiet, StepQuiet, PTL DEF Spec

LEMMA QuietMarksNothing ==
    ASSUME TypeInv, QuietInv, [Next]_vars, Quiet, NEW p \in Proposals, run[p] = "open"
    PROVE  run'[p] \notin {"STALE", "CANCELLED"}
<1>1. run \in [Proposals -> RunStatuses]
  BY DEF TypeInv, MonitorTypeOK
<1>2. CASE run' = run
  BY <1>2
<1>3. ASSUME NEW t \in Ticks, Enqueue(t) PROVE run'[p] \notin {"STALE", "CANCELLED"}
  BY <1>1, <1>3 DEF Enqueue
<1>4. ASSUME NEW q \in Proposals, PostImpact(q) \/ EndRun(q)
      PROVE  run'[p] \notin {"STALE", "CANCELLED"}
  BY <1>1, <1>4 DEF PostImpact, EndRun
<1>5. ASSUME NEW t \in Ticks, Begin(t) \/ TickStep(t) \/ FailTick(t)
      PROVE  run' = run \/ Enqueue(t)
  BY <1>5, NothingToMark
     DEF TickStep, Begin, FailTick, DetectEth, DetectBase, DetectReorg, AnchorEth, UpsertProposal,
         SaveEth, ReadSource, RefreshRecord, AnchorBase, RefreshDestination, SaveBase, ListNext,
         MarkAll, ReadWallet, Expose
<1>6. CASE Environment
  <2>1. run' = run \/ \E q \in Proposals : PostImpact(q) \/ EndRun(q)
    BY <1>6 DEF Environment, GovernorMoves, FactorMoves, NewProposal, WalletMoves, NewBlock,
                Reorganise
  <2> QED
    BY <1>2, <1>4, <2>1
<1>7. CASE Crash \/ UNCHANGED vars
  BY <1>2, <1>7 DEF Crash, vars
<1> QED
  BY <1>2, <1>3, <1>5, <1>6, <1>7 DEF Next

(* As long as nothing moves on either chain and no tick is disturbed, no   *)
(* open simulation is marked stale or cancelled: what the sync does to the *)
(* newest changes in every tick, the refreshes have undone before the tick *)
(* compares statuses.                                                      *)
THEOREM QuietChainsAreQuiet == Spec => QuietChainsMarkNothing
<1>1. TypeInv /\ QuietInv /\ [Next]_vars =>
        [\A p \in Proposals :
           /\ Undisturbed
           /\ Unspent({"governance", "reorg", "rpcError"})
           /\ run[p] = "open"
           => run'[p] \notin {"STALE", "CANCELLED"}]_vars
  BY QuietMarksNothing DEF Quiet
<1> QED
  BY <1>1, MonitorInductive, PTL DEF Spec, QuietChainsMarkNothing
=============================================================================
