--------------------------- MODULE ImpactPipeline ---------------------------
(***************************************************************************)
(* The life of an impact simulation across the processes that touch it:    *)
(*                                                                         *)
(*  - producers: API requests (apps/api simulations.service.ts) and the    *)
(*    indexer (apps/indexer enqueue.ts).  Both claim the run document,     *)
(*    requeue it when it ended without a proof, and see that a job exists; *)
(*  - workers: the slots of the simulator (process-impact.ts);             *)
(*  - markers: the indexer telling open runs that their protocol change    *)
(*    moved (stale.ts); ticks may overlap, so there may be several.        *)
(*                                                                         *)
(* Every await is a step of its own: what a process read before it may be  *)
(* out of date after it.  The budget bounds what the environment does.     *)
(***************************************************************************)
EXTENDS ImpactQueue

CONSTANTS
    Producers, Markers,
    RerunKeys,      \* keys with a nonce, made by POST /simulations/:id/rerun
    SupportedKeys,  \* keys whose payload parseImpactSimulationJob accepts
    ConfigOk,       \* createForkClients succeeds and BASE_RPC_URL is set
    AgentEnabled,   \* GROQ_API_KEY is set
    StrategyFlags,  \* the values of includeStrategies that requests send
    Budget          \* how often each environment event may happen

Kinds == {"post", "mark", "replayError", "fault", "requestError", "crash", "lockLoss"}

ASSUME PipelineAssumption ==
    /\ IsFiniteSet(Producers)
    /\ RerunKeys \subseteq Keys
    /\ SupportedKeys \subseteq Keys
    /\ ConfigOk \in BOOLEAN
    /\ AgentEnabled \in BOOLEAN
    /\ StrategyFlags \subseteq BOOLEAN
    /\ Budget \in [Kinds -> Nat]

VARIABLES
    producer,   \* one request or enqueue in progress per producer
    worker,     \* the handler running in each worker slot
    marker,     \* the marking pass of each overlapping tick
    left        \* what remains of the budget

vars == <<runs, receipts, job, producer, worker, marker, left>>

Spend(kind) ==
    /\ left[kind] > 0
    /\ left' = [left EXCEPT ![kind] = @ - 1]
-----------------------------------------------------------------------------
ProducerPcs == {"idle", "find", "insert", "requeue", "count", "getJob", "getState",
                "remove", "add"}

Producer == [pc : ProducerPcs,
             key : Keys \cup {NoKey},
             run : RunIds \cup {NoRun},
             strategies : BOOLEAN]

IdleProducer == [pc |-> "idle", key |-> NoKey, run |-> NoRun, strategies |-> FALSE]

WorkerPcs == {"idle", "find", "start", "announce", "replay", "save", "replayed",
              "measure", "agent", "optimize", "compare", "branch", "recommend",
              "prove", "catch", "return", "throw"}

Worker == [pc : WorkerPcs,
           key : Keys \cup {NoKey},
           run : RunIds \cup {NoRun},
           strategies : BOOLEAN,
           hash : Hashes \cup {NoHash},
           retryable : BOOLEAN]

IdleWorker == [pc |-> "idle", key |-> NoKey, run |-> NoRun, strategies |-> FALSE,
               hash |-> NoHash, retryable |-> FALSE]

Marker == [targets : SUBSET RunIds, verdict : {"STALE", "CANCELLED"}]
IdleMarker == [targets |-> {}, verdict |-> "STALE"]

Init ==
    /\ RunsInit
    /\ QueueInit
    /\ producer = [p \in Producers |-> IdleProducer]
    /\ worker = [w \in Workers |-> IdleWorker]
    /\ marker = [m \in Markers |-> IdleMarker]
    /\ left = Budget
-----------------------------------------------------------------------------
(* Producers.                                                              *)

AtP(p, pc) == producer[p].pc = pc
GoP(p, pc) == producer' = [producer EXCEPT ![p].pc = pc]
DoneP(p) == producer' = [producer EXCEPT ![p] = IdleProducer]

Request(p, k, strategies) ==
    /\ AtP(p, "idle")
    /\ Spend("post")
    /\ producer' = [producer EXCEPT ![p] = [pc |-> "find", key |-> k, run |-> NoRun,
                                            strategies |-> strategies]]
    /\ UNCHANGED <<runs, receipts, job, worker, marker>>

(* createImpact and enqueuePinnedImpact derive the same key. *)
CreateImpact(p, k, strategies) ==
    /\ k \in Keys \ RerunKeys
    /\ Request(p, k, strategies)

(* rerunImpact: wallet and strategies of an existing run, a fresh nonce.   *)
RerunImpact(p, k) ==
    /\ k \in RerunKeys
    /\ RunsOf(k) = {}
    /\ \A q \in Producers : producer[q].key # k
    /\ \E id \in RunIds :
         /\ Exists(id)
         /\ WalletOf[runs[id].key] = WalletOf[k]
         /\ Request(p, k, runs[id].strategies)

(* The read of claimSimulationRun, and where resumeExistingRun goes with   *)
(* the status it saw.                                                      *)
ClaimFind(p) ==
    /\ AtP(p, "find")
    /\ \/ /\ RunsOf(producer[p].key) = {}
          /\ GoP(p, "insert")
       \/ \E id \in RunsOf(producer[p].key) :
            \/ /\ runs[id].status = "COMPLETED"
               /\ DoneP(p)
            \/ /\ runs[id].status \in RequeueStatuses
               /\ producer' = [producer EXCEPT ![p].pc = "requeue", ![p].run = id]
            \/ /\ runs[id].status \in OpenStatuses
               /\ producer' = [producer EXCEPT ![p].pc = "count", ![p].run = id]
    /\ UNCHANGED <<runs, receipts, job, worker, marker, left>>

(* The insert of claimSimulationRun; a duplicate key sends it back to find. *)
ClaimInsert(p) ==
    /\ AtP(p, "insert")
    /\ \/ \E id \in RunIds :
            /\ InsertRun(id, producer[p].key, producer[p].strategies)
            /\ producer' = [producer EXCEPT ![p].pc = "count", ![p].run = id]
       \/ /\ RunsOf(producer[p].key) # {}
          /\ GoP(p, "find")
          /\ UNCHANGED runs
    /\ UNCHANGED <<receipts, job, worker, marker, left>>

Requeue(p) ==
    /\ AtP(p, "requeue")
    /\ runs' = [runs EXCEPT ![producer[p].run] = Requeued(@, producer[p].strategies)]
    /\ GoP(p, "count")
    /\ UNCHANGED <<receipts, job, worker, marker, left>>

\* Mutant of CountInflight: one job more than the cap is let in.
CountInflightOver(p) ==
    /\ AtP(p, "count")
    /\ IF Inflight > MaxInflight THEN DoneP(p) ELSE GoP(p, "getJob")
    /\ UNCHANGED <<runs, receipts, job, worker, marker, left>>

(* At capacity the API answers 503 and the indexer skips: the run stays.   *)
CountInflight(p) ==
    /\ AtP(p, "count")
    /\ IF Inflight >= MaxInflight THEN DoneP(p) ELSE GoP(p, "getJob")
    /\ UNCHANGED <<runs, receipts, job, worker, marker, left>>

GetJob(p) ==
    /\ AtP(p, "getJob")
    /\ GoP(p, IF job[producer[p].key].state = "none" THEN "add" ELSE "getState")
    /\ UNCHANGED <<runs, receipts, job, worker, marker, left>>

GetState(p) ==
    /\ AtP(p, "getState")
    /\ IF Live(producer[p].key) THEN DoneP(p) ELSE GoP(p, "remove")
    /\ UNCHANGED <<runs, receipts, job, worker, marker, left>>

\* Mutant of RemoveJob: the removal ignores the lock.
RemoveJobForced(p) ==
    /\ AtP(p, "remove")
    /\ Remove(producer[p].key)
    /\ GoP(p, "add")
    /\ UNCHANGED <<runs, receipts, worker, marker, left>>

RemoveJob(p) ==
    /\ AtP(p, "remove")
    /\ \/ /\ Locked(producer[p].key)
          /\ DoneP(p)
          /\ UNCHANGED job
       \/ /\ ~Locked(producer[p].key)
          /\ Remove(producer[p].key)
          /\ GoP(p, "add")
    /\ UNCHANGED <<runs, receipts, worker, marker, left>>

AddJob(p) ==
    /\ AtP(p, "add")
    /\ Add(producer[p].key, producer[p].run, producer[p].strategies)
    /\ DoneP(p)
    /\ UNCHANGED <<runs, receipts, worker, marker, left>>

(* The request dies between two awaits: Mongo or Redis rejects, or the     *)
(* process stops.                                                          *)
AbandonRequest(p) ==
    /\ ~AtP(p, "idle")
    /\ Spend("requestError")
    /\ DoneP(p)
    /\ UNCHANGED <<runs, receipts, job, worker, marker>>

ProducerStep(p) ==
    \/ ClaimFind(p) \/ ClaimInsert(p) \/ Requeue(p) \/ CountInflight(p)
    \/ GetJob(p) \/ GetState(p) \/ RemoveJob(p) \/ AddJob(p)
-----------------------------------------------------------------------------
(* Workers.                                                                *)

AtW(w, pc) == worker[w].pc = pc
GoW(w, pc) == worker' = [worker EXCEPT ![w].pc = pc]
MyRun(w) == runs[worker[w].run]

(* Write one document on the way from this step to the next.  A write that *)
(* rejects may or may not have been applied.                               *)
WriteRun(w, run, next, onError) ==
    LET written == [runs EXCEPT ![worker[w].run] = run] IN
    \/ /\ runs' = written
       /\ GoW(w, next)
       /\ UNCHANGED left
    \/ /\ Spend("fault")
       /\ runs' \in {runs, written}
       /\ GoW(w, onError)

(* BullMQ hands a job to a free slot; a payload the parser rejects never   *)
(* reaches processImpactSimulation.                                        *)
TakeJob(w, k) ==
    /\ AtW(w, "idle")
    /\ Lock(w, k)
    /\ worker' = [worker EXCEPT ![w] =
                    [pc |-> IF k \in SupportedKeys THEN "find" ELSE "throw",
                     key |-> k, run |-> job[k].run, strategies |-> job[k].strategies,
                     hash |-> NoHash, retryable |-> FALSE]]
    /\ UNCHANGED <<runs, receipts, producer, marker, left>>

\* Mutants of FindRun: the status is not looked at; a RUNNING run is someone
\* else's; the wallets, compared case by case, never match.
FindRunAlways(w) ==
    /\ AtW(w, "find")
    /\ GoW(w, "start")
    /\ UNCHANGED <<runs, receipts, job, producer, marker, left>>

FindRunIfQueued(w) ==
    /\ AtW(w, "find")
    /\ GoW(w, IF MyRun(w).status = "QUEUED" THEN "start" ELSE "return")
    /\ UNCHANGED <<runs, receipts, job, producer, marker, left>>

FindRun(w) ==
    /\ AtW(w, "find")
    /\ GoW(w, IF MyRun(w).status \in TerminalStatuses THEN "return" ELSE "start")
    /\ UNCHANGED <<runs, receipts, job, producer, marker, left>>

(* FORK_STARTING, then the configuration check: both outside the try.      *)
StartFork(w) ==
    /\ AtW(w, "start")
    /\ WriteRun(w, WithStatus(MyRun(w), "RUNNING"),
                IF ConfigOk THEN "announce" ELSE "throw", "throw")
    /\ UNCHANGED <<receipts, job, producer, marker>>

AnnounceReplay(w) ==
    /\ AtW(w, "announce")
    /\ WriteRun(w, MyRun(w), "replay", "catch")
    /\ UNCHANGED <<receipts, job, producer, marker>>

(* The replay yields a receipt of the wallet, whatever its hash.           *)
ReplayTo(w, pc) ==
    /\ AtW(w, "replay")
    /\ \E h \in Hashes :
         /\ HashWallet[h] = WalletOf[worker[w].key]
         /\ worker' = [worker EXCEPT ![w].pc = pc, ![w].hash = h]

\* Mutant of Compute: the save of the receipt is skipped.
ComputeUnsaved(w) ==
    /\ \/ ReplayTo(w, "replayed")
       \/ AtW(w, "compare") /\ GoW(w, "branch")
    /\ UNCHANGED <<runs, receipts, job, producer, marker, left>>

(* replayPinnedCollateralFactor and comparePinnedStrategies work on a fork *)
(* of their own; here they succeed, or throw an error that is or is not    *)
(* marked retryable.                                                       *)
Compute(w) ==
    /\ \/ ReplayTo(w, "save") /\ UNCHANGED left
       \/ AtW(w, "compare") /\ GoW(w, "branch") /\ UNCHANGED left
       \/ /\ AtW(w, "replay") \/ AtW(w, "compare")
          /\ Spend("replayError")
          /\ \E retryable \in BOOLEAN :
               worker' = [worker EXCEPT ![w].pc = "catch", ![w].retryable = retryable]
    /\ UNCHANGED <<runs, receipts, job, producer, marker>>

SaveReceipt(w) ==
    LET saved == SavedReceipt(worker[w].hash, worker[w].run) IN
    /\ AtW(w, "save")
    /\ \/ /\ receipts' = saved
          /\ GoW(w, "replayed")
          /\ UNCHANGED left
       \/ /\ Spend("fault")
          /\ receipts' \in {receipts, saved}
          /\ GoW(w, "catch")
    /\ UNCHANGED <<runs, job, producer, marker>>

FinishReplay(w) ==
    /\ AtW(w, "replayed")
    /\ WriteRun(w, MyRun(w), "measure", "catch")
    /\ UNCHANGED <<receipts, job, producer, marker>>

AfterMeasure(w) ==
    CASE worker[w].strategies /\ AgentEnabled -> "agent"
      [] worker[w].strategies /\ ~AgentEnabled -> "optimize"
      [] OTHER -> "prove"

\* Mutant of MeasureRisk: the pointer of an earlier attempt is kept.
MeasureRiskOnce(w) ==
    /\ AtW(w, "measure")
    /\ WriteRun(w, IF MyRun(w).receiptHash = NoHash
                     THEN Measured(MyRun(w), worker[w].hash) ELSE MyRun(w),
                AfterMeasure(w), "catch")
    /\ UNCHANGED <<receipts, job, producer, marker>>

(* RISK_MEASURED carries the proof pointer in its patch. *)
MeasureRisk(w) ==
    /\ AtW(w, "measure")
    /\ WriteRun(w, Measured(MyRun(w), worker[w].hash), AfterMeasure(w), "catch")
    /\ UNCHANGED <<receipts, job, producer, marker>>

(* The steps of the strategy branch that only append an event; the agent   *)
(* runs on in the background and touches neither status nor receipt.       *)
StrategyEvent(w) ==
    /\ \/ AtW(w, "agent") /\ WriteRun(w, MyRun(w), "optimize", "catch")
       \/ AtW(w, "optimize") /\ WriteRun(w, MyRun(w), "compare", "catch")
       \/ AtW(w, "branch") /\ WriteRun(w, MyRun(w), "recommend", "catch")
       \/ AtW(w, "recommend") /\ WriteRun(w, MyRun(w), "prove", "catch")
    /\ UNCHANGED <<receipts, job, producer, marker>>

PublishProof(w) ==
    /\ AtW(w, "prove")
    /\ WriteRun(w, Published(MyRun(w), worker[w].hash), "return", "catch")
    /\ UNCHANGED <<receipts, job, producer, marker>>

(* The catch block: FAILED is written first, then a retryable error is     *)
(* thrown again for BullMQ.                                                *)
RecordFailure(w) ==
    /\ AtW(w, "catch")
    /\ WriteRun(w, WithStatus(MyRun(w), "FAILED"),
                IF worker[w].retryable THEN "throw" ELSE "return", "throw")
    /\ UNCHANGED <<receipts, job, producer, marker>>

\* Mutant of EndJob: a handler that throws never settles.
EndJobOnReturn(w) ==
    /\ AtW(w, "return")
    /\ Settle(w, worker[w].key, TRUE)
    /\ worker' = [worker EXCEPT ![w] = IdleWorker]
    /\ UNCHANGED <<runs, receipts, producer, marker, left>>

(* The handler's promise settled; BullMQ moves the job in a call of its    *)
(* own, and the slot is free.                                              *)
EndJob(w) ==
    /\ AtW(w, "return") \/ AtW(w, "throw")
    /\ Settle(w, worker[w].key, AtW(w, "return"))
    /\ worker' = [worker EXCEPT ![w] = IdleWorker]
    /\ UNCHANGED <<runs, receipts, producer, marker, left>>

WorkerStep(w) ==
    \/ FindRun(w) \/ StartFork(w) \/ AnnounceReplay(w) \/ Compute(w)
    \/ SaveReceipt(w) \/ FinishReplay(w) \/ MeasureRisk(w) \/ StrategyEvent(w)
    \/ PublishProof(w) \/ RecordFailure(w) \/ EndJob(w)
-----------------------------------------------------------------------------
(* The queue's own timers, and what can go wrong in the simulator.         *)

PromoteDelayed(k) ==
    /\ Promote(k)
    /\ UNCHANGED <<runs, receipts, producer, worker, marker, left>>

(* An active job whose slot no longer processes it has lost its lock.      *)
ReclaimStalled(k) ==
    /\ job[k].state = "active"
    /\ worker[job[k].owner].key # k
    /\ Reclaim(k)
    /\ UNCHANGED <<runs, receipts, producer, worker, marker, left>>

(* The simulator process dies and is started again: every slot is lost.    *)
CrashSimulator ==
    /\ \E w \in Workers : ~AtW(w, "idle")
    /\ Spend("crash")
    /\ worker' = [w \in Workers |-> IdleWorker]
    /\ UNCHANGED <<runs, receipts, job, producer, marker>>

(* Redis is out of reach for longer than a lock lasts: the job is handed   *)
(* out again while the handler of its slot runs on.                        *)
LoseLock(w) ==
    /\ ~AtW(w, "idle")
    /\ job[worker[w].key].owner = w
    /\ Spend("lockLoss")
    /\ Reclaim(worker[w].key)
    /\ UNCHANGED <<runs, receipts, producer, worker, marker>>
-----------------------------------------------------------------------------
(* Markers: markOpenRunsForChange reads the open runs, then writes each.   *)

FindOpenRuns(m, verdict) ==
    /\ marker[m].targets = {}
    /\ Spend("mark")
    /\ marker' = [marker EXCEPT ![m] =
                    [targets |-> {id \in RunIds : runs[id].status \in OpenStatuses},
                     verdict |-> verdict]]
    /\ UNCHANGED <<runs, receipts, job, producer, worker>>

MarkRun(m, id) ==
    /\ id \in marker[m].targets
    /\ runs' = [runs EXCEPT ![id] = WithStatus(@, marker[m].verdict)]
    /\ marker' = [marker EXCEPT ![m].targets = @ \ {id}]
    /\ UNCHANGED <<receipts, job, producer, worker, left>>

(* A write of the loop rejects: the tick is over and the rest unmarked.    *)
AbandonMarking(m) ==
    /\ marker[m].targets # {}
    /\ Spend("fault")
    /\ marker' = [marker EXCEPT ![m] = IdleMarker]
    /\ UNCHANGED <<runs, receipts, job, producer, worker>>
-----------------------------------------------------------------------------
Next ==
    \/ \E p \in Producers, k \in Keys, s \in StrategyFlags : CreateImpact(p, k, s)
    \/ \E p \in Producers, k \in Keys : RerunImpact(p, k)
    \/ \E p \in Producers : ProducerStep(p) \/ AbandonRequest(p)
    \/ \E w \in Workers, k \in Keys : TakeJob(w, k)
    \/ \E w \in Workers : WorkerStep(w) \/ LoseLock(w)
    \/ \E k \in Keys : PromoteDelayed(k) \/ ReclaimStalled(k)
    \/ CrashSimulator
    \/ \E m \in Markers, verdict \in {"STALE", "CANCELLED"} : FindOpenRuns(m, verdict)
    \/ \E m \in Markers, id \in RunIds : MarkRun(m, id)
    \/ \E m \in Markers : AbandonMarking(m)

Spec == Init /\ [][Next]_vars

(* What the processes' own event loops and timers guarantee.  A waiting    *)
(* job is taken in FIFO order, so a job that keeps waiting is not passed   *)
(* over for ever although the slots are only free now and then; requests   *)
(* and the environment need not do anything.                               *)
Fairness ==
    /\ \A p \in Producers : WF_vars(ProducerStep(p))
    /\ \A w \in Workers : WF_vars(WorkerStep(w))
    /\ \A k \in Keys : SF_vars(\E w \in Workers : TakeJob(w, k))
    /\ \A k \in Keys : WF_vars(PromoteDelayed(k) \/ ReclaimStalled(k))
    /\ \A m \in Markers : WF_vars(\E id \in RunIds : MarkRun(m, id))

FairSpec == Spec /\ Fairness
-----------------------------------------------------------------------------
(* Every variable holds values of its type. *)
TypeOK ==
    /\ runs \in [RunIds -> Run]
    /\ receipts \in [Hashes -> RunIds \cup {NoRun}]
    /\ job \in [Keys -> Job]
    /\ producer \in [Producers -> Producer]
    /\ worker \in [Workers -> Worker]
    /\ marker \in [Markers -> Marker]
    /\ left \in [Kinds -> Nat]

(* The document's proof pointer, if any, names a stored receipt of the     *)
(* document's own wallet.                                                  *)
Retrievable(run) ==
    run.receiptHash # NoHash => /\ HashWallet[run.receiptHash] = WalletOf[run.key]
                                /\ receipts[run.receiptHash] # NoRun

(* A run that points at a proof can serve it, whatever step the worker     *)
(* died in and whoever requeued the run meanwhile: getProof never reports  *)
(* a missing receipt.                                                      *)
ProofRetrievable == \A id \in RunIds : Retrievable(runs[id])

(* What a run's completion announced is what its document shows: the hash  *)
(* in PROOF_READY is the document's pointer, unless a requeue dropped the  *)
(* pointer meanwhile (as long as no lock is lost).  An attempt that died   *)
(* after RISK_MEASURED may have left the pointer to another receipt.       *)
AnnouncedProofIsShown ==
    \A id \in RunIds :
        runs[id].status = "COMPLETED" => runs[id].receiptHash \in {NoHash, runs[id].announced}

(* Count-then-add admits one job too many per producer that raced, and no  *)
(* more: retries, stalls and replaced jobs never push the queue further.   *)
InflightBound == Inflight <= MaxInflight + Cardinality(Producers) - 1

(* Two slots never process the same run, although jobs are removed, added  *)
(* again, retried and reclaimed while producers race (as long as no lock   *)
(* is lost).                                                               *)
NoSharedRun ==
    \A v, w \in Workers :
        ~AtW(v, "idle") /\ ~AtW(w, "idle") /\ worker[v].run = worker[w].run => v = w

(* A run that completed or failed is not run again, nor completed after it *)
(* failed, unless a producer requeued it first: no attempt BullMQ repeats  *)
(* and no handler that lagged behind reopens it.                           *)
EndedRunStaysEnded ==
    [][\A id \in RunIds :
         /\ runs[id].status \in {"COMPLETED", "FAILED"} => runs'[id].status # "RUNNING"
         /\ runs[id].status = "FAILED" => runs'[id].status # "COMPLETED"]_vars

(* A run that started ends, whatever is requeued meanwhile, and although   *)
(* the simulator crashed once: it stays RUNNING only if its job has failed *)
(* on every attempt it had (a run requeued while its job is delayed        *)
(* inherits the attempts that are left).                                   *)
AttemptsSpent(k) == k \in Keys /\ job[k].state = "failed" /\ job[k].attempts = MaxAttempts

RunningSettles ==
    \A id \in RunIds :
        runs[id].status = "RUNNING"
            ~> runs[id].status \in TerminalStatuses \/ AttemptsSpent(runs[id].key)

(* Every job is worked off: payloads that are refused and errors thrown    *)
(* on every attempt, crashes and requeues do not keep a job in the queue   *)
(* (whose length the producers are limited by) for ever.                   *)
JobsDrain == \A k \in Keys : Live(k) ~> ~Live(k)

(* The pipeline implements ProofLedger, as long as no lock is lost: the    *)
(* ledger's stored hashes are the keys of the receipts collection, its     *)
(* proofs the receiptHash fields, its settled runs the COMPLETED ones.     *)
Ledger == INSTANCE ProofLedger WITH
    Runs <- RunIds,
    stored <- {h \in Hashes : receipts[h] # NoRun},
    proof <- [id \in RunIds |-> runs[id].receiptHash],
    settled <- {id \in RunIds : runs[id].status = "COMPLETED"}

ImplementsLedger == Ledger!LedgerSpec
-----------------------------------------------------------------------------
(* What docs and tests say of the pipeline and the code does not do: each  *)
(* of these is refuted by a run.                                           *)

(* Cooperative cancellation: a run whose source change was cancelled or    *)
(* went stale is not carried on by the worker that was processing it.      *)
StopsWhenSourceChanges ==
    [][\A id \in RunIds :
         runs[id].status \in {"STALE", "CANCELLED"}
             => runs'[id].status \notin {"RUNNING", "COMPLETED"}]_vars

(* A completed run has a proof to serve. *)
CompletedHasProof ==
    \A id \in RunIds : runs[id].status = "COMPLETED" => runs[id].receiptHash # NoHash

(* A queued simulation gets going. *)
QueuedRunsStart ==
    \A id \in RunIds : runs[id].status = "QUEUED" ~> runs[id].status # "QUEUED"
=============================================================================
