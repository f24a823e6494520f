----------------------------- MODULE ImpactQueue -----------------------------
(***************************************************************************)
(* The impact-simulation queue, as the API, the indexer and the simulator  *)
(* use it.  BullMQ and Redis are outside the repository: this module is    *)
(* the part of their contract src/ relies on.  A job is named by the       *)
(* idempotency key of its run, so there is at most one job per key; it     *)
(* is locked by the worker slot that processes it; a rejected handler is   *)
(* retried after a back-off while attempts remain; a job whose lock holder *)
(* has gone is handed out again once, then failed.                         *)
(***************************************************************************)
EXTENDS SimulationRuns

CONSTANTS
    Workers,        \* worker slots: MAX_PARALLEL_FORKS of them
    NoWorker,
    MaxInflight,    \* IMPACT_QUEUE_MAX_INFLIGHT
    MaxAttempts     \* the "attempts" option of every job

ASSUME QueueAssumption ==
    /\ NoWorker \notin Workers
    /\ MaxInflight \in Nat \ {0}
    /\ MaxAttempts \in Nat \ {0}

VARIABLE job        \* the job of each key

LiveStates == {"waiting", "delayed", "active"}
FinishedStates == {"completed", "failed"}

Job == [state : LiveStates \cup FinishedStates \cup {"none"},
        run : RunIds \cup {NoRun},
        strategies : BOOLEAN,
        attempts : Nat,
        stalled : BOOLEAN,
        owner : Workers \cup {NoWorker}]

NoJob == [state |-> "none", run |-> NoRun, strategies |-> FALSE,
          attempts |-> 0, stalled |-> FALSE, owner |-> NoWorker]

Live(k) == job[k].state \in LiveStates

(* getJobCounts("waiting", "delayed", "active"), summed. *)
Inflight == Cardinality({k \in Keys : Live(k)})

QueueInit == job = [k \in Keys |-> NoJob]
-----------------------------------------------------------------------------
\* Mutant of Add: the payload's runId and idempotencyKey swapped.
AddSwapped(k, id, strategies) ==
    job' = IF job[k].state = "none"
             THEN [job EXCEPT ![k] = [NoJob EXCEPT !.state = "waiting", !.run = k,
                                                   !.strategies = strategies]]
             ELSE job

(* queue.add under a jobId: a job that exists is left as it is. *)
Add(k, id, strategies) ==
    job' = IF job[k].state = "none"
             THEN [job EXCEPT ![k] = [NoJob EXCEPT !.state = "waiting", !.run = id,
                                                   !.strategies = strategies]]
             ELSE job

(* job.remove rejects while a worker holds the lock. *)
Locked(k) == job[k].owner # NoWorker
Remove(k) == job' = [job EXCEPT ![k] = NoJob]

Lock(w, k) ==
    /\ job[k].state = "waiting"
    /\ job' = [job EXCEPT ![k].state = "active", ![k].owner = w]

(* The handler of w settled: only the lock holder moves the job. *)
Settle(w, k, resolved) ==
    IF job[k].owner # w THEN UNCHANGED job
    ELSE IF resolved
      THEN job' = [job EXCEPT ![k].state = "completed", ![k].owner = NoWorker]
      ELSE job' = [job EXCEPT
                     ![k].state = IF job[k].attempts + 1 < MaxAttempts
                                    THEN "delayed" ELSE "failed",
                     ![k].attempts = @ + 1,
                     ![k].owner = NoWorker]

Promote(k) ==
    /\ job[k].state = "delayed"
    /\ job' = [job EXCEPT ![k].state = "waiting"]

(* The stalled-job check, on a job whose lock has expired. *)
Reclaim(k) ==
    job' = [job EXCEPT ![k].state = IF job[k].stalled THEN "failed" ELSE "waiting",
                       ![k].stalled = TRUE,
                       ![k].owner = NoWorker]
=============================================================================
