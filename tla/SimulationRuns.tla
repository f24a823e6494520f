--------------------------- MODULE SimulationRuns ---------------------------
(***************************************************************************)
(* The durable state of an impact simulation: the run documents and the    *)
(* receipts of packages/persistence/src/runs.ts, and the single-document   *)
(* updates every process applies to them.  MongoDB updates one document    *)
(* atomically; nothing here is guarded by the status a caller read before. *)
(*                                                                         *)
(* Abstractions.  A run is the fields some property tells apart; of its    *)
(* event list it keeps the hash in the data of the last PROOF_READY since  *)
(* the run was queued, which is what clients are told, and an event that   *)
(* is appended without a patch leaves the document as it is.  A receipt's  *)
(* hash covers the wallet, but also what the replay read of its exposure   *)
(* (markets a multicall lost are missing from it), the policy and the      *)
(* engine version (receipt.ts): one wallet may have several hashes, and    *)
(* two replays of one run may differ.                                      *)
(***************************************************************************)
EXTENDS Naturals, FiniteSets

CONSTANTS
    Keys,       \* idempotency keys, each naming one impact request
    RunIds,     \* document ids
    Wallets,
    WalletOf,   \* the wallet a key was built from
    Hashes,     \* receipt hashes
    HashWallet, \* the wallet of the receipt with that hash
    NoKey, NoRun, NoHash

ASSUME KeysAssumption ==
    /\ WalletOf \in [Keys -> Wallets]
    /\ HashWallet \in [Hashes -> Wallets]
    /\ NoKey \notin Keys
    /\ NoRun \notin RunIds
    /\ NoHash \notin Hashes

VARIABLES
    runs,       \* the simulationRuns collection, by document id
    receipts    \* the receipts collection: the run that stored each hash

runVars == <<runs, receipts>>
-----------------------------------------------------------------------------
OpenStatuses == {"QUEUED", "RUNNING"}
RequeueStatuses == {"FAILED", "STALE", "CANCELLED"}
TerminalStatuses == RequeueStatuses \cup {"COMPLETED"}
Statuses == OpenStatuses \cup TerminalStatuses

\* A document with status "NONE" is one that was never inserted.
Run == [key : Keys \cup {NoKey},
        status : Statuses \cup {"NONE"},
        strategies : BOOLEAN,
        receiptHash : Hashes \cup {NoHash},
        announced : Hashes \cup {NoHash}]

NoDocument == [key |-> NoKey, status |-> "NONE", strategies |-> FALSE,
               receiptHash |-> NoHash, announced |-> NoHash]

Exists(id) == runs[id].status # "NONE"
RunsOf(k) == {id \in RunIds : Exists(id) /\ runs[id].key = k}

RunsInit ==
    /\ runs = [id \in RunIds |-> NoDocument]
    /\ receipts = [h \in Hashes |-> NoRun]
-----------------------------------------------------------------------------
(* insertSimulationRun, under the unique index on idempotencyKey. *)
NewRun(k, strategies) ==
    [key |-> k, status |-> "QUEUED", strategies |-> strategies,
     receiptHash |-> NoHash, announced |-> NoHash]

InsertRun(id, k, strategies) ==
    /\ ~Exists(id)
    /\ RunsOf(k) = {}
    /\ runs' = [runs EXCEPT ![id] = NewRun(k, strategies)]

(* requeueSimulationRun: unconditional, and it drops the proof pointer. *)
Requeued(run, strategies) ==
    [run EXCEPT !.status = "QUEUED", !.strategies = strategies,
                !.receiptHash = NoHash, !.announced = NoHash]

(* appendRunEvent with a patch: a status; the proof pointer of             *)
(* RISK_MEASURED; PROOF_READY, which announces a hash and completes.       *)
WithStatus(run, status) == [run EXCEPT !.status = status]
Measured(run, hash) == [run EXCEPT !.receiptHash = hash]
Published(run, hash) == [run EXCEPT !.status = "COMPLETED", !.announced = hash]

\* Mutant of SavedReceipt: no upsert.
SavedReceiptNoUpsert(hash, id) ==
    IF receipts[hash] = NoRun THEN receipts ELSE [receipts EXCEPT ![hash] = id]

(* saveReceipt: an upsert with $setOnInsert, so the first writer wins. *)
SavedReceipt(hash, id) ==
    IF receipts[hash] = NoRun THEN [receipts EXCEPT ![hash] = id] ELSE receipts
=============================================================================
