-------------------------- MODULE GovernanceStatus --------------------------
(***************************************************************************)
(* How the indexer reads a governance change: its kind from the calls of   *)
(* the proposal, the source status from the governor's raw state, the      *)
(* destination status from the collateral factor in force on Base, their   *)
(* combination, and the decisions taken from it (governance-core status.ts *)
(* and reorg.ts, protocol-moonwell decode.ts, normalize.ts and             *)
(* destination.ts).  No state.                                             *)
(*                                                                         *)
(* A change is one of three kinds: "factor" sets a collateral factor on    *)
(* Base, "other" has different calls for Base, "source" none for Base.     *)
(* A call that sets a factor is one of the Comptroller's, for the market   *)
(* that the wallet may hold.                                               *)
(***************************************************************************)
EXTENDS Naturals

ChangeKinds == {"factor", "other", "source"}

(* A call for a destination chain has the selector of a collateral factor  *)
(* change, with readable arguments ("factor") or not ("garbled"), or it    *)
(* has another one.                                                        *)
DestinationCalls == {"factor", "garbled", "call"}

(* A call of the governor is a Wormhole message with calls for the         *)
(* temporal governor of one chain, or an ordinary call, to nobody.         *)
SourceCalls == [to : {"nobody", "base", "elsewhere"}, readable : BOOLEAN,
                calls : SUBSET DestinationCalls]

(* A message that cannot be decoded is passed over.                        *)
Batches(calls) == {c \in calls : c.to # "nobody" /\ c.readable}

BaseCalls(calls) == UNION {b.calls : b \in {c \in Batches(calls) : c.to = "base"}}

(* The selector decides, whatever its arguments.                           *)
ChangeKind(calls) ==
    CASE BaseCalls(calls) \cap {"factor", "garbled"} # {} -> "factor"
      [] BaseCalls(calls) = {} -> "source"
      [] OTHER -> "other"

(* The affected markets are those of the calls for Base that can be read.  *)
(* The affected assets are the underlyings of the markets in the calls for *)
(* any chain; one that cannot be read off Base is left out.                *)
NamesMarket(calls) == "factor" \in BaseCalls(calls)
NamesAsset(calls) == "factor" \in UNION {b.calls : b \in Batches(calls)}

(* A wallet has no position; an enabled supply in the market as its        *)
(* "collateral"; a position there without one, as a "debt"; or an enabled  *)
(* supply of the market's "asset" in another market.                       *)
Holdings == {"empty", "collateral", "debt", "asset"}

(* matchMoonwellExposure: a position in the market or in its asset; for a  *)
(* change of the factor, one that is an enabled supply.                    *)
Relevant(calls, assetRead, holding) ==
    /\ \/ NamesMarket(calls) /\ holding \in {"collateral", "debt"}
       \/ NamesAsset(calls) /\ assetRead /\ holding # "empty"
    /\ ChangeKind(calls) = "factor" => holding # "debt"

RawStates == 0..6
SourceStatuses == {"PROPOSED", "APPROVED", "EXECUTED", "CANCELLED", "EXPIRED", "UNKNOWN"}
Dead == {"CANCELLED", "EXPIRED"}

MapGovernorState(raw) ==
    CASE raw = 0 -> "PROPOSED"
      [] raw \in {1, 4} -> "APPROVED"
      [] raw = 2 -> "CANCELLED"
      [] raw = 5 -> "EXECUTED"
      [] raw = 6 -> "EXPIRED"
      [] OTHER -> "UNKNOWN"

Combine(source, destination, hasDestinationCalls) ==
    IF source = "EXECUTED" /\ hasDestinationCalls /\ destination # "EXECUTED"
      THEN "DESTINATION_PENDING"
      ELSE source

\* Mutant of DestinationStatus: the factor in force is not looked at.
DestinationStatusPending(source, inForce) ==
    IF source \in Dead THEN source
    ELSE IF source = "EXECUTED" THEN "DESTINATION_PENDING" ELSE "UNKNOWN"

DestinationStatus(source, inForce) ==
    IF source \in Dead THEN source
    ELSE IF source # "EXECUTED" THEN "UNKNOWN"
    ELSE IF inForce THEN "EXECUTED" ELSE "DESTINATION_PENDING"

(* A record keeps the raw state; sourceStatus is always mapped from it.    *)
Source(record) == MapGovernorState(record.raw)

Record == [raw : RawStates,
           destination : SourceStatuses \cup {"DESTINATION_PENDING"},
           status : SourceStatuses \cup {"DESTINATION_PENDING"}]

Normalized(raw, kind) ==
    LET source == MapGovernorState(raw)
        destination == IF source = "EXECUTED" /\ kind # "source"
                         THEN "DESTINATION_PENDING" ELSE "UNKNOWN"
    IN [raw |-> raw, destination |-> destination,
        status |-> Combine(source, destination, kind # "source")]

(* The refresh takes any target call for a destination call, and the       *)
(* target calls of a "source" change are its source calls.                 *)
Refreshed(record, raw) ==
    [record EXCEPT !.raw = raw,
                   !.status = Combine(MapGovernorState(raw), record.destination, TRUE)]

WithDestination(record, inForce) ==
    LET destination == DestinationStatus(Source(record), inForce)
    IN [record EXCEPT !.destination = destination,
                      !.status = Combine(Source(record), destination, TRUE)]

\* Mutants of Transition: a change that is new, or not one that was cancelled.
TransitionOrNew(from, to) == from # to
TransitionUnlessCancelled(from, to) == from # "none" /\ from # to /\ to # "CANCELLED"

(* shouldRefreshSimulations, and the statusChanged of the enqueue loop.    *)
Transition(from, to) == from # "none" /\ from # to

SupportedReplay(kind) == kind = "factor"

\* Mutant of ShouldEnqueue: only a transition counts.
ShouldEnqueueOnChange(kind, pinned, status, relevant, changed, firstRelevant) ==
    relevant /\ status \notin Dead /\ SupportedReplay(kind) /\ pinned /\ changed

ShouldEnqueue(kind, pinned, status, relevant, changed, firstRelevant) ==
    /\ relevant
    /\ status \notin Dead
    /\ SupportedReplay(kind)
    /\ pinned
    /\ changed \/ firstRelevant

Verdict(status) == IF status \in Dead THEN "CANCELLED" ELSE "STALE"
=============================================================================
