----------------------- MODULE ImpactPipeline_proofs -----------------------
(***************************************************************************)
(* TLAPS proofs about ImpactPipeline, for every set of keys, producers,    *)
(* workers and markers and every budget.                                   *)
(*                                                                         *)
(* The inductive invariant IInv says what every process may rely on when   *)
(* it resumes after an await: the document it holds still exists under the *)
(* key it was found by, and a worker past its save finds the receipt       *)
(* stored.  Each action changes one part of the state; the frame lemmas    *)
(* carry the other parts over.  Three invariants on top of it say why      *)
(* slots do not share a run while no lock is lost (ExclusiveInv), why the  *)
(* pointer under a handler is the handler's own (Pointed), and how far     *)
(* producers that race overshoot the queue's cap (Room).                   *)
(***************************************************************************)
EXTENDS ImpactPipeline, FiniteSetTheorems, TLAPS

(* What the unique index enforces. *)
OneRunPerKey ==
    \A i, j \in RunIds : Exists(i) /\ Exists(j) /\ runs[i].key = runs[j].key => i = j

RunsOK ==
    /\ runs \in [RunIds -> Run]
    /\ receipts \in [Hashes -> RunIds \cup {NoRun}]
    /\ \A id \in RunIds : runs[id].status # "NONE" => runs[id].key \in Keys
    /\ OneRunPerKey
    /\ ProofRetrievable

(* id is the document of key k. *)
Names(id, k) ==
    /\ id \in RunIds
    /\ k \in Keys
    /\ Exists(id)
    /\ runs[id].key = k

JobsOK ==
    /\ job \in [Keys -> Job]
    /\ \A k \in Keys :
         /\ job[k].state # "none" => Names(job[k].run, k)
         /\ job[k].state = "active" <=> job[k].owner # NoWorker

ProducersOK ==
    /\ producer \in [Producers -> Producer]
    /\ \A p \in Producers :
         /\ producer[p].pc # "idle" => producer[p].key \in Keys
         /\ producer[p].pc \notin {"idle", "find", "insert"}
              => Names(producer[p].run, producer[p].key)

(* A handler that replayed holds a hash of its wallet; once it is past its *)
(* save, the receipt is stored.                                            *)
HashOK(x) ==
    /\ x.pc \in {"save", "replayed", "measure"}
         => x.hash \in Hashes /\ HashWallet[x.hash] = WalletOf[x.key]
    /\ x.pc \in {"replayed", "measure"} => receipts[x.hash] # NoRun

WorkersOK ==
    /\ worker \in [Workers -> Worker]
    /\ \A w \in Workers :
         /\ worker[w].pc # "idle" => Names(worker[w].run, worker[w].key)
         /\ HashOK(worker[w])

MarkersOK ==
    /\ marker \in [Markers -> Marker]
    /\ \A m \in Markers : \A id \in marker[m].targets : Exists(id)

BudgetOK == left \in [Kinds -> Nat]

IInv == RunsOK /\ JobsOK /\ ProducersOK /\ WorkersOK /\ MarkersOK /\ BudgetOK

-----------------------------------------------------------------------------
(* What no step takes away: documents with their keys, and receipts. *)
Kept ==
    /\ \A id \in RunIds : Exists(id) => Exists(id)' /\ runs'[id].key = runs[id].key
    /\ \A h \in Hashes : receipts[h] # NoRun => receipts'[h] # NoRun

(* What a process read before an await still names its document after it.  *)
LEMMA KeptNames ==
    ASSUME Kept, NEW id, NEW k, Names(id, k)
    PROVE  Names(id, k)'
BY DEF Kept, Names, Exists

(* A receipt a handler relies on is still stored after any step. *)
LEMMA KeptHash ==
    ASSUME Kept, NEW x, HashOK(x)
    PROVE  HashOK(x)'
BY DEF Kept, HashOK

(* Steps that write neither collection take nothing away. *)
LEMMA KeptUnchanged ==
    ASSUME UNCHANGED <<runs, receipts>>
    PROVE  Kept
BY DEF Kept, Exists

(* Replacing an existing document by one that keeps its key and shows only *)
(* a stored proof preserves all that is said of the collection.            *)
LEMMA RunUpdate ==
    ASSUME RunsOK,
           NEW id \in RunIds, Exists(id),
           NEW run \in Run, run.key = runs[id].key, run.status # "NONE",
           Retrievable(run),
           runs' = [runs EXCEPT ![id] = run],
           UNCHANGED receipts
    PROVE  RunsOK' /\ Kept
<1>1. runs' \in [RunIds -> Run]
  BY DEF RunsOK
<1>2. \A x \in RunIds : runs'[x] = IF x = id THEN run ELSE runs[x]
  BY DEF RunsOK
<1>3. \A x \in RunIds : Exists(x)' <=> Exists(x)
  BY <1>2 DEF Exists
<1>4. \A x \in RunIds : runs'[x].key = runs[x].key
  BY <1>2
<1>5. OneRunPerKey'
  BY <1>3, <1>4 DEF RunsOK, OneRunPerKey
<1>6. ProofRetrievable'
  BY <1>2 DEF RunsOK, ProofRetrievable, Retrievable
<1>7. \A x \in RunIds : runs'[x].status # "NONE" => runs'[x].key \in Keys
  BY <1>3, <1>4 DEF RunsOK, Exists
<1>8. Kept
  BY <1>3, <1>4 DEF Kept
<1> QED
  BY <1>1, <1>5, <1>6, <1>7, <1>8 DEF RunsOK

(* A step that leaves the queue alone leaves every job with its document. *)
LEMMA JobsFrame ==
    ASSUME JobsOK, Kept, UNCHANGED job
    PROVE  JobsOK'
BY KeptNames DEF JobsOK

(* A step no producer takes leaves every producer with its document. *)
LEMMA ProducersFrame ==
    ASSUME ProducersOK, Kept, UNCHANGED producer
    PROVE  ProducersOK'
BY KeptNames DEF ProducersOK

(* A step no worker takes leaves every slot with its document and receipt. *)
LEMMA WorkersFrame ==
    ASSUME WorkersOK, Kept, UNCHANGED worker
    PROVE  WorkersOK'
<1>1. \A w \in Workers : worker[w].pc # "idle" => Names(worker[w].run, worker[w].key)'
  BY KeptNames DEF WorkersOK
<1>2. \A w \in Workers : HashOK(worker[w])'
  BY DEF WorkersOK, Kept, HashOK
<1> QED
  BY <1>1, <1>2 DEF WorkersOK

(* A step no marker takes leaves every target in the collection. *)
LEMMA MarkersFrame ==
    ASSUME MarkersOK, Kept, UNCHANGED marker
    PROVE  MarkersOK'
BY DEF MarkersOK, Kept, Marker

(* What is said of the documents depends on the collections alone. *)
LEMMA RunsFrame ==
    ASSUME RunsOK, UNCHANGED <<runs, receipts>>
    PROVE  RunsOK'
BY DEF RunsOK, OneRunPerKey, ProofRetrievable, Retrievable, Exists

(* An environment event takes its cost from a positive balance. *)
LEMMA Spending ==
    ASSUME BudgetOK, NEW kind \in Kinds, Spend(kind)
    PROVE  BudgetOK'
BY DEF BudgetOK, Spend
-----------------------------------------------------------------------------
(* The empty collections, the empty queue and idle processes satisfy IInv. *)
LEMMA InitOK == Init => IInv
<1> SUFFICES ASSUME Init PROVE IInv
  OBVIOUS
<1>1. RunsOK
  BY KeysAssumption DEF Init, RunsInit, RunsOK, NoDocument, Run, Exists, OneRunPerKey,
     ProofRetrievable, Retrievable
<1>2. JobsOK
  BY DEF Init, QueueInit, JobsOK, NoJob, Job
<1>3. ProducersOK
  BY DEF Init, ProducersOK, IdleProducer, Producer, ProducerPcs
<1>4. WorkersOK
  BY DEF Init, WorkersOK, HashOK, IdleWorker, Worker, WorkerPcs
<1>5. MarkersOK
  BY DEF Init, MarkersOK, IdleMarker, Marker
<1>6. BudgetOK
  BY PipelineAssumption DEF Init, BudgetOK
<1> QED
  BY <1>1, <1>2, <1>3, <1>4, <1>5, <1>6 DEF IInv

(* A producer may move to any state whose document, if it needs one, is    *)
(* the document of its key.                                                *)
LEMMA ProducerMove ==
    ASSUME ProducersOK, Kept, NEW p \in Producers,
           NEW x \in Producer,
           x.pc # "idle" => x.key \in Keys,
           x.pc \notin {"idle", "find", "insert"} => Names(x.run, x.key)',
           producer' = [producer EXCEPT ![p] = x]
    PROVE  ProducersOK'
<1>1. producer' \in [Producers -> Producer]
  BY DEF ProducersOK
<1>2. ASSUME NEW q \in Producers
      PROVE  (/\ producer[q].pc # "idle" => producer[q].key \in Keys
              /\ producer[q].pc \notin {"idle", "find", "insert"}
                   => Names(producer[q].run, producer[q].key))'
  <2>1. CASE q = p
    <3>1. producer'[q] = x
      BY <2>1 DEF ProducersOK
    <3> QED
      BY <3>1
  <2>2. CASE q # p
    <3>1. producer'[q] = producer[q]
      BY <2>2 DEF ProducersOK
    <3>2. producer[q].pc \notin {"idle", "find", "insert"}
            => Names(producer[q].run, producer[q].key)
      BY DEF ProducersOK
    <3> QED
      BY <3>1, <3>2, KeptNames DEF ProducersOK
  <2> QED
    BY <2>1, <2>2
<1> QED
  BY <1>1, <1>2 DEF ProducersOK

(* A producer that answers or gives up holds no document any more. *)
LEMMA ProducerDone ==
    ASSUME ProducersOK, Kept, NEW p \in Producers, DoneP(p)
    PROVE  ProducersOK'
<1>1. IdleProducer \in Producer
  BY DEF IdleProducer, Producer, ProducerPcs
<1> QED
  BY <1>1, ProducerMove DEF DoneP, IdleProducer

(* A producer past its claim goes on with the document it claimed. *)
LEMMA ProducerGo ==
    ASSUME ProducersOK, Kept, NEW p \in Producers,
           NEW pc \in ProducerPcs, ~AtP(p, "idle"),
           pc \notin {"idle", "find", "insert"} => ~AtP(p, "find") /\ ~AtP(p, "insert"),
           GoP(p, pc)
    PROVE  ProducersOK'
<1>1. [producer[p] EXCEPT !.pc = pc] \in Producer
  BY DEF ProducersOK, Producer
<1>2. PICK x \in Producer : x = [producer[p] EXCEPT !.pc = pc]
  BY <1>1
<1>3. x.pc = pc /\ x.run = producer[p].run /\ x.key = producer[p].key
  BY <1>2 DEF ProducersOK, Producer
<1>4. x.key \in Keys
  BY <1>3 DEF ProducersOK, AtP
<1>5. pc \notin {"idle", "find", "insert"} => Names(producer[p].run, producer[p].key)
  BY DEF ProducersOK, AtP
<1>6. x.pc \notin {"idle", "find", "insert"} => Names(x.run, x.key)'
  BY <1>3, <1>5, KeptNames
<1>7. producer' = [producer EXCEPT ![p] = x]
  BY <1>2 DEF GoP, ProducersOK
<1> QED
  BY <1>4, <1>6, <1>7, ProducerMove

(* A worker slot may move to any state that names the document it holds.   *)
LEMMA WorkerMove ==
    ASSUME WorkersOK, Kept, NEW w \in Workers,
           NEW x \in Worker,
           x.pc # "idle" => Names(x.run, x.key)',
           HashOK(x)',
           worker' = [worker EXCEPT ![w] = x]
    PROVE  WorkersOK'
<1>1. worker' \in [Workers -> Worker]
  BY DEF WorkersOK
<1>2. ASSUME NEW v \in Workers
      PROVE  (/\ worker[v].pc # "idle" => Names(worker[v].run, worker[v].key)
              /\ HashOK(worker[v]))'
  <2>1. CASE v = w
    <3>1. worker'[v] = x
      BY <2>1 DEF WorkersOK
    <3> QED
      BY <3>1
  <2>2. CASE v # w
    <3>1. worker'[v] = worker[v]
      BY <2>2 DEF WorkersOK
    <3>2. PICK y : y = worker[v]
      OBVIOUS
    <3>3. (y.pc # "idle" => Names(y.run, y.key)) /\ HashOK(y)
      BY <3>2 DEF WorkersOK
    <3> QED
      BY <3>1, <3>2, <3>3, KeptNames, KeptHash
  <2> QED
    BY <2>1, <2>2
<1> QED
  BY <1>1, <1>2 DEF WorkersOK

(* A slot that is given up holds no document any more. *)
LEMMA WorkerIdles ==
    ASSUME WorkersOK, Kept, NEW w \in Workers,
           worker' = [worker EXCEPT ![w] = IdleWorker]
    PROVE  WorkersOK'
<1>1. IdleWorker \in Worker /\ IdleWorker.pc = "idle"
  BY DEF IdleWorker, Worker, WorkerPcs
<1>2. PICK x \in Worker : x = IdleWorker
  BY <1>1
<1>3. HashOK(x)'
  BY <1>1, <1>2 DEF HashOK
<1> QED
  BY <1>1, <1>2, <1>3, WorkerMove

(* A step of a handler keeps its slot on the same document. *)
LEMMA WorkerKeepsJob ==
    ASSUME WorkersOK, Kept, NEW w \in Workers, ~AtW(w, "idle"),
           NEW x \in Worker, x.run = worker[w].run, x.key = worker[w].key,
           HashOK(x)',
           worker' = [worker EXCEPT ![w] = x]
    PROVE  WorkersOK'
<1>1. Names(worker[w].run, worker[w].key)
  BY DEF WorkersOK, AtW
<1>2. Names(x.run, x.key)'
  BY <1>1, KeptNames
<1> QED
  BY <1>2, WorkerMove

(* A handler goes on with its document; past the save the receipt is there. *)
LEMMA WorkerGo ==
    ASSUME WorkersOK, Kept, NEW w \in Workers, ~AtW(w, "idle"),
           NEW pc \in WorkerPcs, pc # "save",
           pc = "replayed" => AtW(w, "save") /\ receipts'[worker[w].hash] # NoRun,
           pc = "measure" => AtW(w, "replayed"),
           GoW(w, pc)
    PROVE  WorkersOK'
<1>1. [worker[w] EXCEPT !.pc = pc] \in Worker
  BY DEF WorkersOK, Worker
<1>2. PICK x \in Worker : x = [worker[w] EXCEPT !.pc = pc]
  BY <1>1
<1>3. /\ x.pc = pc /\ x.run = worker[w].run /\ x.key = worker[w].key
      /\ x.hash = worker[w].hash
  BY <1>2 DEF WorkersOK, Worker
<1>4. worker' = [worker EXCEPT ![w] = x]
  BY <1>2 DEF GoW, WorkersOK
<1>5. HashOK(x)'
  <2>1. HashOK(worker[w])
    BY DEF WorkersOK
  <2>2. pc \in {"replayed", "measure"}
          => x.hash \in Hashes /\ HashWallet[x.hash] = WalletOf[x.key]
    BY <1>3, <2>1 DEF HashOK, AtW
  <2>3. pc \in {"replayed", "measure"} => receipts'[x.hash] # NoRun
    BY <1>3, <2>1, <2>2 DEF HashOK, AtW, Kept
  <2> QED
    BY <1>3, <2>2, <2>3 DEF HashOK
<1> QED
  BY <1>3, <1>4, <1>5, WorkerKeepsJob

(* Every document write of the worker, whether or not it rejects and       *)
(* whether or not a rejected write took effect.                            *)
LEMMA WriteOK ==
    ASSUME RunsOK, WorkersOK, BudgetOK, NEW w \in Workers, ~AtW(w, "idle"),
           NEW run \in Run, run.key = MyRun(w).key, run.status # "NONE",
           Retrievable(run),
           NEW next \in WorkerPcs, next # "save", next # "replayed",
           next = "measure" => AtW(w, "replayed"),
           NEW onError \in {"catch", "throw"},
           WriteRun(w, run, next, onError),
           UNCHANGED receipts
    PROVE  RunsOK' /\ Kept /\ WorkersOK' /\ BudgetOK'
<1>1. worker[w].run \in RunIds /\ Exists(worker[w].run)
  BY DEF WorkersOK, AtW, Names
<1>2. PICK id \in RunIds : id = worker[w].run
  BY <1>1
<1>3. runs' \in {runs, [runs EXCEPT ![id] = run]}
  BY <1>2 DEF WriteRun
<1>4. RunsOK' /\ Kept
  <2>1. CASE runs' = runs
    BY <2>1, RunsFrame, KeptUnchanged
  <2>2. CASE runs' = [runs EXCEPT ![id] = run]
    BY <1>1, <1>2, <2>2, RunUpdate DEF MyRun
  <2> QED
    BY <1>3, <2>1, <2>2
<1>5. WorkersOK'
  <2>1. CASE GoW(w, next)
    BY <1>4, <2>1, WorkerGo
  <2>2. CASE GoW(w, onError)
    <3>1. onError \in WorkerPcs /\ onError \notin {"save", "replayed", "measure"}
      BY DEF WorkerPcs
    <3> QED
      BY <1>4, <2>2, <3>1, WorkerGo
  <2> QED
    BY <2>1, <2>2 DEF WriteRun
<1>6. BudgetOK'
  BY Spending DEF WriteRun, Kinds, BudgetOK
<1> QED
  BY <1>4, <1>5, <1>6

(* Whether a document may be served depends on its key and its pointer. *)
LEMMA SameProof ==
    ASSUME NEW old, Retrievable(old), NEW new, new.key = old.key,
           new.receiptHash = old.receiptHash
    PROVE  Retrievable(new)
BY DEF Retrievable

(* The patches of appendRunEvent yield documents like any other, and leave *)
(* key and pointer unless they write them.                                 *)
LEMMA Patches ==
    ASSUME NEW run \in Run
    PROVE  /\ \A status \in Statuses :
                /\ WithStatus(run, status) \in Run
                /\ WithStatus(run, status).key = run.key
                /\ WithStatus(run, status).status = status
                /\ WithStatus(run, status).receiptHash = run.receiptHash
           /\ \A hash \in Hashes :
                /\ Measured(run, hash) \in Run
                /\ Measured(run, hash).key = run.key
                /\ Measured(run, hash).status = run.status
                /\ Measured(run, hash).receiptHash = hash
           /\ \A hash \in Hashes \cup {NoHash} :
                /\ Published(run, hash) \in Run
                /\ Published(run, hash).key = run.key
                /\ Published(run, hash).status = "COMPLETED"
                /\ Published(run, hash).receiptHash = run.receiptHash
                /\ Published(run, hash).announced = hash
<1>1. ASSUME NEW status \in Statuses
      PROVE  /\ WithStatus(run, status) \in Run
             /\ WithStatus(run, status).key = run.key
             /\ WithStatus(run, status).status = status
             /\ WithStatus(run, status).receiptHash = run.receiptHash
  BY DEF WithStatus, Run
<1>2. ASSUME NEW hash \in Hashes
      PROVE  /\ Measured(run, hash) \in Run
             /\ Measured(run, hash).key = run.key
             /\ Measured(run, hash).status = run.status
             /\ Measured(run, hash).receiptHash = hash
  BY DEF Measured, Run
<1>3. ASSUME NEW hash \in Hashes \cup {NoHash}
      PROVE  /\ Published(run, hash) \in Run
             /\ Published(run, hash).key = run.key
             /\ Published(run, hash).status = "COMPLETED"
             /\ Published(run, hash).receiptHash = run.receiptHash
             /\ Published(run, hash).announced = hash
  BY DEF Published, Run, Statuses, TerminalStatuses
<1> QED
  BY <1>1, <1>2, <1>3

(* The document a busy worker holds. *)
LEMMA HeldRun ==
    ASSUME RunsOK, WorkersOK, NEW w \in Workers, ~AtW(w, "idle")
    PROVE  /\ worker[w].run \in RunIds
           /\ worker[w].key \in Keys
           /\ MyRun(w) \in Run
           /\ MyRun(w).status # "NONE"
           /\ MyRun(w).key = worker[w].key
           /\ Retrievable(MyRun(w))
BY DEF RunsOK, WorkersOK, AtW, Names, Exists, MyRun, ProofRetrievable
-----------------------------------------------------------------------------
(* Steps of producers. *)

(* A step that moves only producers and the budget. *)
LEMMA ProducerOnly ==
    ASSUME IInv, UNCHANGED <<runs, receipts, job, worker, marker>>,
           ProducersOK', BudgetOK'
    PROVE  IInv'
<1>1. Kept
  BY KeptUnchanged
<1> QED
  BY <1>1, RunsFrame, JobsFrame, WorkersFrame, MarkersFrame DEF IInv

(* A new request holds a key and no document yet. *)
LEMMA RequestOK ==
    ASSUME IInv, NEW p \in Producers, NEW k \in Keys, NEW s \in BOOLEAN,
           Request(p, k, s)
    PROVE  IInv'
<1>1. PICK x \in Producer :
        x = [pc |-> "find", key |-> k, run |-> NoRun, strategies |-> s]
  BY DEF Producer, ProducerPcs
<1>2. ProducersOK'
  BY <1>1, KeptUnchanged, ProducerMove DEF Request, IInv
<1>3. BudgetOK'
  BY Spending DEF Request, Kinds, IInv
<1> QED
  BY <1>2, <1>3, ProducerOnly DEF Request

(* A producer that reads a document, the counts or a job. *)
LEMMA ProducerReadOK ==
    ASSUME IInv, NEW p \in Producers,
           ClaimFind(p) \/ CountInflight(p) \/ GetJob(p) \/ GetState(p)
    PROVE  IInv'
<1>1. Kept /\ UNCHANGED <<runs, receipts, job, worker, marker, left>>
  BY KeptUnchanged DEF ClaimFind, CountInflight, GetJob, GetState
<1>2. ASSUME ClaimFind(p) PROVE ProducersOK'
  <2>1. CASE GoP(p, "insert")
    BY <1>1, <1>2, <2>1, ProducerGo DEF ClaimFind, AtP, ProducerPcs, IInv
  <2>2. CASE DoneP(p)
    BY <1>1, <2>2, ProducerDone DEF IInv
  <2>3. ASSUME NEW id \in RunsOf(producer[p].key), NEW pc \in {"requeue", "count"},
               producer' = [producer EXCEPT ![p].pc = pc, ![p].run = id]
        PROVE  ProducersOK'
    <3>1. [producer[p] EXCEPT !.pc = pc, !.run = id] \in Producer
      BY DEF IInv, ProducersOK, Producer, ProducerPcs, RunsOf
    <3>2. PICK x \in Producer : x = [producer[p] EXCEPT !.pc = pc, !.run = id]
      BY <3>1
    <3>3. x.pc = pc /\ x.run = id /\ x.key = producer[p].key
      BY <3>2 DEF IInv, ProducersOK, Producer
    <3>4. producer[p].key \in Keys
      BY <1>2 DEF IInv, ProducersOK, ClaimFind, AtP
    <3>5. Names(x.run, x.key)
      BY <3>3, <3>4 DEF RunsOf, Names
    <3>6. producer' = [producer EXCEPT ![p] = x]
      BY <2>3, <3>2 DEF IInv, ProducersOK
    <3> QED
      BY <1>1, <3>3, <3>4, <3>5, <3>6, KeptNames, ProducerMove DEF IInv
  <2> QED
    BY <1>2, <2>1, <2>2, <2>3 DEF ClaimFind
<1>3. ASSUME CountInflight(p) PROVE ProducersOK'
  BY <1>1, <1>3, ProducerDone, ProducerGo DEF CountInflight, AtP, ProducerPcs, IInv
<1>4. ASSUME GetJob(p) PROVE ProducersOK'
  BY <1>1, <1>4, ProducerGo DEF GetJob, AtP, ProducerPcs, IInv
<1>5. ASSUME GetState(p) PROVE ProducersOK'
  BY <1>1, <1>5, ProducerDone, ProducerGo DEF GetState, AtP, ProducerPcs, IInv
<1>6. BudgetOK'
  BY <1>1 DEF IInv, BudgetOK
<1> QED
  BY <1>1, <1>2, <1>3, <1>4, <1>5, <1>6, ProducerOnly

(* The document a producer past its claim holds. *)
LEMMA ClaimedRun ==
    ASSUME IInv, NEW p \in Producers,
           producer[p].pc \notin {"idle", "find", "insert"}
    PROVE  Names(producer[p].run, producer[p].key)
BY DEF IInv, ProducersOK

(* Inserting a document under a key that has none keeps one per key. *)
LEMMA InsertOK ==
    ASSUME RunsOK, NEW id \in RunIds, NEW k \in Keys, NEW s \in BOOLEAN,
           InsertRun(id, k, s), UNCHANGED receipts
    PROVE  RunsOK' /\ Kept /\ Names(id, k)'
<1>1. NewRun(k, s) \in Run
  BY DEF NewRun, Run, Statuses, OpenStatuses
<1>2. \A x \in RunIds : runs'[x] = IF x = id THEN NewRun(k, s) ELSE runs[x]
  BY DEF RunsOK, InsertRun
<1>3. runs' \in [RunIds -> Run]
  BY <1>1 DEF RunsOK, InsertRun
<1>4. Kept /\ Names(id, k)'
  BY <1>2 DEF Kept, Names, Exists, InsertRun, NewRun
<1>5. OneRunPerKey'
  BY <1>2 DEF RunsOK, OneRunPerKey, Exists, InsertRun, RunsOf, NewRun
<1>6. ProofRetrievable'
  BY <1>2 DEF RunsOK, ProofRetrievable, Retrievable, NewRun
<1>7. \A x \in RunIds : runs'[x].status # "NONE" => runs'[x].key \in Keys
  BY <1>2 DEF RunsOK, NewRun
<1> QED
  BY <1>3, <1>4, <1>5, <1>6, <1>7 DEF RunsOK

(* A step that moves only documents, producers and the budget. *)
LEMMA ProducerWrites ==
    ASSUME IInv, RunsOK', Kept, UNCHANGED <<job, worker, marker>>,
           ProducersOK', BudgetOK'
    PROVE  IInv'
BY JobsFrame, WorkersFrame, MarkersFrame DEF IInv

(* The insert of a claim, or the duplicate-key answer. *)
LEMMA ClaimInsertOK ==
    ASSUME IInv, NEW p \in Producers, ClaimInsert(p)
    PROVE  IInv'
<1>1. producer[p].key \in Keys /\ producer[p].strategies \in BOOLEAN
  BY DEF IInv, ProducersOK, ClaimInsert, AtP, Producer
<1>2. BudgetOK'
  BY DEF IInv, BudgetOK, ClaimInsert
<1>3. ASSUME NEW id \in RunIds, InsertRun(id, producer[p].key, producer[p].strategies),
             producer' = [producer EXCEPT ![p].pc = "count", ![p].run = id]
      PROVE  IInv'
  <2>1. PICK k \in Keys, s \in BOOLEAN : k = producer[p].key /\ s = producer[p].strategies
    BY <1>1
  <2>2. RunsOK' /\ Kept /\ Names(id, k)'
    BY <1>3, <2>1, InsertOK DEF IInv, ClaimInsert
  <2>3. [producer[p] EXCEPT !.pc = "count", !.run = id] \in Producer
    BY DEF IInv, ProducersOK, Producer, ProducerPcs
  <2>4. PICK x \in Producer : x = [producer[p] EXCEPT !.pc = "count", !.run = id]
    BY <2>3
  <2>5. x.run = id /\ x.key = k
    BY <2>1, <2>4 DEF IInv, ProducersOK, Producer
  <2>6. producer' = [producer EXCEPT ![p] = x]
    BY <1>3, <2>4 DEF IInv, ProducersOK
  <2>7. ProducersOK'
    BY <2>2, <2>5, <2>6, ProducerMove DEF IInv
  <2> QED
    BY <1>2, <2>2, <2>7, ProducerWrites DEF ClaimInsert
<1>4. ASSUME GoP(p, "find"), UNCHANGED runs
      PROVE  IInv'
  <2>1. Kept
    BY <1>4, KeptUnchanged DEF ClaimInsert
  <2>2. ProducersOK'
    BY <1>4, <2>1, ProducerGo DEF ClaimInsert, AtP, ProducerPcs, IInv
  <2> QED
    BY <1>2, <1>4, <2>2, ProducerOnly DEF ClaimInsert
<1> QED
  BY <1>3, <1>4 DEF ClaimInsert

(* Requeueing drops the status and the proof pointer together. *)
LEMMA RequeueOK ==
    ASSUME IInv, NEW p \in Producers, Requeue(p)
    PROVE  IInv'
<1>1. Names(producer[p].run, producer[p].key)
  BY ClaimedRun DEF Requeue, AtP
<1>2. PICK id \in RunIds, s \in BOOLEAN : id = producer[p].run /\ s = producer[p].strategies
  BY <1>1 DEF Names, IInv, ProducersOK, Producer
<1>3. runs[id] \in Run
  BY DEF IInv, RunsOK
<1>4. Requeued(runs[id], s) \in Run
  BY <1>3 DEF Requeued, Run, Statuses, OpenStatuses
<1>5. PICK run \in Run : run = Requeued(runs[id], s)
  BY <1>4
<1>6. run.key = runs[id].key /\ run.status = "QUEUED" /\ run.receiptHash = NoHash
  BY <1>3, <1>5 DEF Requeued, Run
<1>7. Retrievable(run)
  BY <1>6 DEF Retrievable
<1>8. runs' = [runs EXCEPT ![id] = run]
  BY <1>2, <1>5 DEF Requeue, IInv, RunsOK
<1>9. RunsOK' /\ Kept
  BY <1>1, <1>2, <1>6, <1>7, <1>8, RunUpdate DEF Requeue, IInv, Names
<1>10. ProducersOK'
  BY <1>9, ProducerGo DEF Requeue, AtP, ProducerPcs, IInv
<1>11. BudgetOK'
  BY DEF IInv, BudgetOK, Requeue
<1> QED
  BY <1>9, <1>10, <1>11, ProducerWrites DEF Requeue

(* A job may be replaced by any job that names the document of its key. *)
LEMMA JobMove ==
    ASSUME JobsOK, Kept, NEW k \in Keys, NEW x \in Job,
           x.state # "none" => Names(x.run, k)',
           x.state = "active" <=> x.owner # NoWorker,
           job' = [job EXCEPT ![k] = x]
    PROVE  JobsOK'
<1>1. job' \in [Keys -> Job]
  BY DEF JobsOK
<1>2. ASSUME NEW j \in Keys
      PROVE  (/\ job[j].state # "none" => Names(job[j].run, j)
              /\ job[j].state = "active" <=> job[j].owner # NoWorker)'
  <2>1. CASE j = k
    BY <2>1 DEF JobsOK
  <2>2. CASE j # k
    <3>1. job'[j] = job[j]
      BY <2>2 DEF JobsOK
    <3>2. /\ job[j].state # "none" => Names(job[j].run, j)
          /\ job[j].state = "active" <=> job[j].owner # NoWorker
      BY DEF JobsOK
    <3> QED
      BY <3>1, <3>2, KeptNames
  <2> QED
    BY <2>1, <2>2
<1> QED
  BY <1>1, <1>2 DEF JobsOK

(* Moving a job that exists leaves it with its document. *)
LEMMA JobUpdate ==
    ASSUME JobsOK, Kept, NEW k \in Keys, NEW x \in Job,
           job[k].state # "none", x.run = job[k].run,
           x.state = "active" <=> x.owner # NoWorker,
           job' = [job EXCEPT ![k] = x]
    PROVE  JobsOK'
<1>1. Names(job[k].run, k)
  BY DEF JobsOK
<1>2. Names(x.run, k)'
  BY <1>1, KeptNames
<1> QED
  BY <1>2, JobMove

(* A job the producer finds finished is removed and added for its document. *)
LEMMA ProducerJobOK ==
    ASSUME IInv, NEW p \in Producers, RemoveJob(p) \/ AddJob(p)
    PROVE  IInv'
<1>1. Kept /\ UNCHANGED <<runs, receipts, worker, marker, left>>
  BY KeptUnchanged DEF RemoveJob, AddJob
<1>2. Names(producer[p].run, producer[p].key)
  BY ClaimedRun DEF RemoveJob, AddJob, AtP
<1>3. PICK k \in Keys, id \in RunIds : k = producer[p].key /\ id = producer[p].run
  BY <1>2 DEF Names
<1>4. Names(id, k)'
  BY <1>1, <1>2, <1>3, KeptNames
<1>5. ProducersOK'
  BY <1>1, ProducerDone, ProducerGo DEF RemoveJob, AddJob, AtP, ProducerPcs, IInv
<1>6. NoJob \in Job /\ NoJob.state = "none" /\ NoJob.owner = NoWorker
  BY DEF NoJob, Job
<1>7. CASE UNCHANGED job
  BY <1>1, <1>5, <1>7, RunsFrame, JobsFrame, WorkersFrame, MarkersFrame
     DEF IInv, BudgetOK
<1>8. CASE Remove(k)
  <2>1. PICK x \in Job : x = NoJob
    BY <1>6
  <2>2. JobsOK'
    BY <1>1, <1>6, <1>8, <2>1, JobMove DEF Remove, IInv
  <2> QED
    BY <1>1, <1>5, <2>2, RunsFrame, WorkersFrame, MarkersFrame DEF IInv, BudgetOK
<1>9. CASE Add(k, id, producer[p].strategies)
  <2>1. producer[p].strategies \in BOOLEAN
    BY DEF IInv, ProducersOK, Producer
  <2>2. PICK x \in Job : x = [NoJob EXCEPT !.state = "waiting", !.run = id,
                                         !.strategies = producer[p].strategies]
    BY <2>1 DEF NoJob, Job, LiveStates
  <2>3. x.run = id /\ x.state = "waiting" /\ x.owner = NoWorker
    BY <2>2 DEF NoJob
  <2>4. UNCHANGED job \/ job' = [job EXCEPT ![k] = x]
    BY <1>9, <2>2 DEF Add
  <2>5. JobsOK'
    BY <1>1, <1>4, <2>3, <2>4, JobMove, JobsFrame DEF IInv
  <2> QED
    BY <1>1, <1>5, <2>5, RunsFrame, WorkersFrame, MarkersFrame DEF IInv, BudgetOK
<1> QED
  BY <1>3, <1>7, <1>8, <1>9 DEF RemoveJob, AddJob

(* A request that dies leaves what it wrote so far. *)
LEMMA AbandonRequestOK ==
    ASSUME IInv, NEW p \in Producers, AbandonRequest(p)
    PROVE  IInv'
<1>1. ProducersOK'
  BY KeptUnchanged, ProducerDone DEF AbandonRequest, IInv
<1>2. BudgetOK'
  BY Spending DEF AbandonRequest, Kinds, IInv
<1> QED
  BY <1>1, <1>2, ProducerOnly DEF AbandonRequest

-----------------------------------------------------------------------------
(* Steps of workers. *)

(* A step that moves only documents, receipts, slots and the budget. *)
LEMMA WorkerWrites ==
    ASSUME IInv, RunsOK', Kept, UNCHANGED <<job, producer, marker>>,
           WorkersOK', BudgetOK'
    PROVE  IInv'
BY JobsFrame, ProducersFrame, MarkersFrame DEF IInv

(* A handler that writes a document which is like any other. *)
LEMMA WriteStep ==
    ASSUME IInv, NEW w \in Workers, ~AtW(w, "idle"),
           NEW run, run \in Run, run.key = MyRun(w).key, run.status # "NONE",
           Retrievable(run),
           NEW next \in WorkerPcs, next # "save", next # "replayed",
           next = "measure" => AtW(w, "replayed"),
           NEW onError \in {"catch", "throw"},
           WriteRun(w, run, next, onError),
           UNCHANGED <<receipts, job, producer, marker>>
    PROVE  IInv'
<1>1. PICK r \in Run : r = run
  OBVIOUS
<1>2. RunsOK' /\ Kept /\ WorkersOK' /\ BudgetOK'
  BY <1>1, WriteOK DEF IInv
<1> QED
  BY <1>2, WorkerWrites

(* The appends of the handler that leave the document as it is. *)
LEMMA AppendsOK ==
    ASSUME IInv, NEW w \in Workers,
           AnnounceReplay(w) \/ FinishReplay(w) \/ StrategyEvent(w)
    PROVE  IInv'
<1>1. ~AtW(w, "idle") /\ UNCHANGED <<receipts, job, producer, marker>>
  BY DEF AnnounceReplay, FinishReplay, StrategyEvent, AtW
<1>2. /\ MyRun(w) \in Run /\ MyRun(w).status # "NONE" /\ Retrievable(MyRun(w))
  BY <1>1, HeldRun DEF IInv
<1>3. ASSUME AnnounceReplay(w) PROVE IInv'
  BY <1>1, <1>2, <1>3, WriteStep DEF AnnounceReplay, WorkerPcs
<1>4. ASSUME FinishReplay(w) PROVE IInv'
  BY <1>1, <1>2, <1>4, WriteStep DEF FinishReplay, WorkerPcs
<1>5. ASSUME StrategyEvent(w) PROVE IInv'
  <2>1. PICK next \in {"optimize", "compare", "recommend", "prove"} :
          WriteRun(w, MyRun(w), next, "catch")
    BY <1>5 DEF StrategyEvent
  <2> QED
    BY <1>1, <1>2, <2>1, WriteStep DEF WorkerPcs
<1> QED
  BY <1>3, <1>4, <1>5

(* RUNNING, COMPLETED and FAILED. *)
LEMMA StatusesOK ==
    ASSUME IInv, NEW w \in Workers,
           StartFork(w) \/ PublishProof(w) \/ RecordFailure(w)
    PROVE  IInv'
<1>1. ~AtW(w, "idle") /\ UNCHANGED <<receipts, job, producer, marker>>
  BY DEF StartFork, PublishProof, RecordFailure, AtW
<1>2. PICK run \in Run : run = MyRun(w)
  BY <1>1, HeldRun DEF IInv
<1>3. Retrievable(run)
  BY <1>1, <1>2, HeldRun DEF IInv
<1>4. worker[w].hash \in Hashes \cup {NoHash}
  BY DEF IInv, WorkersOK, Worker
<1>5. ASSUME NEW new, new \in Run, new.key = run.key, new.status # "NONE",
             new.receiptHash = run.receiptHash,
             NEW next \in {"announce", "return", "throw"},
             NEW onError \in {"catch", "throw"},
             WriteRun(w, new, next, onError)
      PROVE  IInv'
  <2>1. Retrievable(new)
    BY <1>3, <1>5, SameProof
  <2> QED
    BY <1>1, <1>2, <1>5, <2>1, WriteStep DEF WorkerPcs
<1>6. ASSUME StartFork(w) PROVE IInv'
  <2>1. PICK next \in {"announce", "throw"} :
          WriteRun(w, WithStatus(run, "RUNNING"), next, "throw")
    BY <1>2, <1>6 DEF StartFork
  <2> QED
    BY <1>5, <2>1, Patches DEF Statuses, OpenStatuses
<1>7. ASSUME PublishProof(w) PROVE IInv'
  BY <1>2, <1>4, <1>5, <1>7, Patches DEF PublishProof
<1>8. ASSUME RecordFailure(w) PROVE IInv'
  <2>1. PICK next \in {"throw", "return"} :
          WriteRun(w, WithStatus(run, "FAILED"), next, "throw")
    BY <1>2, <1>8 DEF RecordFailure
  <2> QED
    BY <1>5, <2>1, Patches DEF Statuses, TerminalStatuses, RequeueStatuses
<1> QED
  BY <1>6, <1>7, <1>8

(* The proof pointer is written with its event, over a stored receipt. *)
LEMMA MeasureRiskOK ==
    ASSUME IInv, NEW w \in Workers, MeasureRisk(w)
    PROVE  IInv'
<1>1. ~AtW(w, "idle") /\ AtW(w, "measure")
  BY DEF MeasureRisk, AtW
<1>2. PICK run \in Run : run = MyRun(w)
  BY <1>1, HeldRun DEF IInv
<1>3. run.status # "NONE" /\ run.key = worker[w].key
  BY <1>1, <1>2, HeldRun DEF IInv
<1>4. PICK h \in Hashes : h = worker[w].hash
  BY <1>1 DEF IInv, WorkersOK, HashOK, AtW
<1>5. receipts[h] # NoRun /\ HashWallet[h] = WalletOf[run.key]
  BY <1>1, <1>3, <1>4 DEF IInv, WorkersOK, HashOK, AtW
<1>6. PICK new : new = Measured(run, h)
  OBVIOUS
<1>7. new \in Run /\ new.key = run.key /\ new.status = run.status /\ new.receiptHash = h
  BY <1>6, Patches
<1>8. Retrievable(new)
  BY <1>5, <1>7 DEF Retrievable
<1>9. PICK next \in {"agent", "optimize", "prove"} : next = AfterMeasure(w)
  BY DEF AfterMeasure
<1>10. /\ WriteRun(w, new, next, "catch")
       /\ UNCHANGED <<receipts, job, producer, marker>>
  BY <1>2, <1>4, <1>6, <1>9 DEF MeasureRisk
<1> QED
  BY <1>1, <1>2, <1>3, <1>7, <1>8, <1>10, WriteStep DEF WorkerPcs

(* Reading the document decides how the handler goes on. *)
LEMMA FindRunOK ==
    ASSUME IInv, NEW w \in Workers, FindRun(w)
    PROVE  IInv'
<1>1. Kept
  BY KeptUnchanged DEF FindRun
<1>2. PICK next \in WorkerPcs :
        next = IF MyRun(w).status \in TerminalStatuses THEN "return" ELSE "start"
  BY DEF WorkerPcs
<1>3. WorkersOK'
  BY <1>1, <1>2, WorkerGo DEF FindRun, AtW, IInv
<1> QED
  BY <1>1, <1>3, RunsFrame, WorkerWrites DEF FindRun, IInv, BudgetOK

(* A replay or a comparison moves the slot alone. *)
LEMMA ComputeOK ==
    ASSUME IInv, NEW w \in Workers, Compute(w)
    PROVE  IInv'
<1>1. Kept
  BY KeptUnchanged DEF Compute
<1>2. BudgetOK'
  BY Spending DEF Compute, Kinds, IInv, BudgetOK
<1>3. ~AtW(w, "idle")
  BY DEF Compute, ReplayTo, AtW
<1>4. ASSUME ReplayTo(w, "save") PROVE WorkersOK'
  <2>1. PICK h \in Hashes :
          /\ HashWallet[h] = WalletOf[worker[w].key]
          /\ worker' = [worker EXCEPT ![w].pc = "save", ![w].hash = h]
    BY <1>4 DEF ReplayTo
  <2>2. [worker[w] EXCEPT !.pc = "save", !.hash = h] \in Worker
    BY DEF IInv, WorkersOK, Worker, WorkerPcs
  <2>3. PICK x \in Worker : x = [worker[w] EXCEPT !.pc = "save", !.hash = h]
    BY <2>2
  <2>4. x.pc = "save" /\ x.hash = h /\ x.run = worker[w].run /\ x.key = worker[w].key
    BY <2>3 DEF IInv, WorkersOK, Worker
  <2>5. worker' = [worker EXCEPT ![w] = x]
    BY <2>1, <2>3 DEF IInv, WorkersOK
  <2>6. HashOK(x)'
    BY <2>1, <2>4 DEF HashOK
  <2> QED
    BY <1>1, <1>3, <2>4, <2>5, <2>6, WorkerKeepsJob DEF IInv
<1>5. ASSUME GoW(w, "branch") PROVE WorkersOK'
  BY <1>1, <1>3, <1>5, WorkerGo DEF WorkerPcs, IInv
<1>6. ASSUME NEW retryable \in BOOLEAN,
             worker' = [worker EXCEPT ![w].pc = "catch", ![w].retryable = retryable]
      PROVE  WorkersOK'
  <2>1. [worker[w] EXCEPT !.pc = "catch", !.retryable = retryable] \in Worker
    BY DEF IInv, WorkersOK, Worker, WorkerPcs
  <2>2. PICK x \in Worker :
          x = [worker[w] EXCEPT !.pc = "catch", !.retryable = retryable]
    BY <2>1
  <2>3. x.pc = "catch" /\ x.run = worker[w].run /\ x.key = worker[w].key
    BY <2>2 DEF IInv, WorkersOK, Worker
  <2>4. worker' = [worker EXCEPT ![w] = x]
    BY <1>6, <2>2 DEF IInv, WorkersOK
  <2>5. HashOK(x)'
    BY <2>3 DEF HashOK
  <2> QED
    BY <1>1, <1>3, <2>3, <2>4, <2>5, WorkerKeepsJob DEF IInv
<1>7. WorkersOK'
  BY <1>4, <1>5, <1>6 DEF Compute
<1> QED
  BY <1>1, <1>2, <1>7, RunsFrame, WorkerWrites DEF Compute, IInv

(* Storing a receipt never drops one, and leaves its own stored. *)
LEMMA SavedOK ==
    ASSUME RunsOK, NEW h \in Hashes, NEW id \in RunIds,
           UNCHANGED runs, receipts' \in {receipts, SavedReceipt(h, id)}
    PROVE  /\ RunsOK' /\ Kept
           /\ receipts' = SavedReceipt(h, id) => receipts'[h] # NoRun
<1>1. receipts' \in [Hashes -> RunIds \cup {NoRun}]
  BY DEF RunsOK, SavedReceipt
<1>2. \A x \in Hashes : receipts[x] # NoRun => receipts'[x] = receipts[x]
  BY DEF RunsOK, SavedReceipt
<1>3. Kept
  BY <1>2 DEF Kept, Exists
<1>4. ProofRetrievable'
  <2> SUFFICES ASSUME NEW x \in RunIds PROVE Retrievable(runs[x])'
    BY DEF ProofRetrievable
  <2>1. Retrievable(runs[x]) /\ runs[x] \in Run
    BY DEF RunsOK, ProofRetrievable
  <2>2. runs'[x] = runs[x] /\ runs[x].receiptHash \in Hashes \cup {NoHash}
    BY <2>1 DEF Run
  <2> QED
    BY <1>2, <2>1, <2>2 DEF Retrievable
<1>5. RunsOK'
  BY <1>1, <1>4 DEF RunsOK, OneRunPerKey, Exists
<1>6. receipts' = SavedReceipt(h, id) => receipts'[h] # NoRun
  BY KeysAssumption DEF SavedReceipt, RunsOK
<1> QED
  BY <1>3, <1>5, <1>6

(* The save of the receipt, whether or not the write rejects. *)
LEMMA SaveReceiptOK ==
    ASSUME IInv, NEW w \in Workers, SaveReceipt(w)
    PROVE  IInv'
<1>1. ~AtW(w, "idle")
  BY DEF SaveReceipt, AtW
<1>2. worker[w].run \in RunIds /\ worker[w].hash \in Hashes
  BY <1>1, HeldRun DEF IInv, SaveReceipt, AtW, WorkersOK, HashOK
<1>3. PICK h \in Hashes, id \in RunIds : h = worker[w].hash /\ id = worker[w].run
  BY <1>2
<1>4. receipts' \in {receipts, SavedReceipt(h, id)} /\ UNCHANGED runs
  BY <1>3 DEF SaveReceipt
<1>5. RunsOK' /\ Kept /\ (receipts' = SavedReceipt(h, id) => receipts'[h] # NoRun)
  BY <1>4, SavedOK DEF IInv
<1>6. WorkersOK'
  <2>1. CASE receipts' = SavedReceipt(h, id) /\ GoW(w, "replayed")
    <3>1. receipts'[worker[w].hash] # NoRun /\ AtW(w, "save")
      BY <1>3, <1>5, <2>1 DEF SaveReceipt
    <3> QED
      BY <1>1, <1>5, <2>1, <3>1, WorkerGo DEF WorkerPcs, IInv
  <2>2. CASE GoW(w, "catch")
    BY <1>1, <1>5, <2>2, WorkerGo DEF WorkerPcs, IInv
  <2> QED
    BY <1>3, <2>1, <2>2 DEF SaveReceipt
<1>7. BudgetOK'
  BY Spending DEF SaveReceipt, Kinds, IInv, BudgetOK
<1> QED
  BY <1>5, <1>6, <1>7, WorkerWrites DEF SaveReceipt

(* A slot takes the document its job names. *)
LEMMA TakeJobOK ==
    ASSUME IInv, NEW w \in Workers, NEW k \in Keys, TakeJob(w, k)
    PROVE  IInv'
<1>1. Kept /\ UNCHANGED <<runs, receipts, producer, marker, left>>
  BY KeptUnchanged DEF TakeJob
<1>2. job[k].state = "waiting" /\ job[k] \in Job
  BY DEF TakeJob, Lock, IInv, JobsOK
<1>3. Names(job[k].run, k)
  BY <1>2 DEF IInv, JobsOK
<1>4. JobsOK'
  <2>1. [job[k] EXCEPT !.state = "active", !.owner = w] \in Job
    BY <1>2 DEF Job, LiveStates
  <2>2. PICK x \in Job : x = [job[k] EXCEPT !.state = "active", !.owner = w]
    BY <2>1
  <2>3. x.run = job[k].run /\ x.state = "active" /\ x.owner # NoWorker
    BY <1>2, <2>2, QueueAssumption DEF Job
  <2>4. job' = [job EXCEPT ![k] = x]
    BY <2>2 DEF TakeJob, Lock, IInv, JobsOK
  <2> QED
    BY <1>1, <1>2, <2>3, <2>4, JobUpdate DEF IInv
<1>5. WorkersOK'
  <2> DEFINE taken == [pc |-> IF k \in SupportedKeys THEN "find" ELSE "throw",
                       key |-> k, run |-> job[k].run,
                       strategies |-> job[k].strategies, hash |-> NoHash,
                       retryable |-> FALSE]
  <2>1. taken \in Worker
    BY <1>2, <1>3 DEF Worker, WorkerPcs, Job, Names
  <2>2. PICK x \in Worker : x = taken
    BY <2>1
  <2>3. x.run = job[k].run /\ x.key = k /\ x.pc \in {"find", "throw"}
    BY <2>2
  <2>4. Names(x.run, x.key)'
    BY <1>1, <1>3, <2>3, KeptNames
  <2>5. worker' = [worker EXCEPT ![w] = x]
    BY <2>2 DEF TakeJob
  <2>6. HashOK(x)'
    BY <2>3 DEF HashOK
  <2> QED
    BY <1>1, <2>3, <2>4, <2>5, <2>6, WorkerMove DEF IInv
<1> QED
  BY <1>1, <1>4, <1>5, RunsFrame, ProducersFrame, MarkersFrame DEF IInv, BudgetOK
-----------------------------------------------------------------------------
(* Steps of the queue, and failures of the simulator. *)

(* The queue never changes which document a job is for. *)
LEMMA QueueMoves ==
    ASSUME JobsOK, Kept, NEW k \in Keys,
           \/ job[k].state # "none" /\ Reclaim(k)
           \/ Promote(k)
           \/ \E w \in Workers, resolved \in BOOLEAN :
                job[k].state # "none" /\ Settle(w, k, resolved)
    PROVE  JobsOK'
<1>1. job[k] \in Job /\ job \in [Keys -> Job]
  BY DEF JobsOK
<1>2. ASSUME job[k].state # "none", Reclaim(k) PROVE JobsOK'
  <2>1. PICK x : x = [job[k] EXCEPT !.state = IF job[k].stalled THEN "failed" ELSE "waiting",
                                    !.stalled = TRUE, !.owner = NoWorker]
    OBVIOUS
  <2>2. x \in Job /\ x.run = job[k].run /\ x.state # "active" /\ x.owner = NoWorker
    BY <1>1, <2>1 DEF Job, LiveStates, FinishedStates
  <2>3. job' = [job EXCEPT ![k] = x]
    BY <1>1, <1>2, <2>1 DEF Reclaim
  <2> QED
    BY <1>2, <2>2, <2>3, JobUpdate
<1>3. ASSUME Promote(k) PROVE JobsOK'
  <2>1. PICK x : x = [job[k] EXCEPT !.state = "waiting"]
    OBVIOUS
  <2>2. x \in Job /\ x.run = job[k].run /\ x.state # "active" /\ x.owner = NoWorker
    BY <1>1, <1>3, <2>1 DEF Job, LiveStates, Promote, JobsOK
  <2>3. job' = [job EXCEPT ![k] = x] /\ job[k].state # "none"
    BY <1>1, <1>3, <2>1 DEF Promote
  <2> QED
    BY <2>2, <2>3, JobUpdate
<1>4. ASSUME NEW w \in Workers, NEW resolved \in BOOLEAN, job[k].state # "none",
             Settle(w, k, resolved)
      PROVE  JobsOK'
  <2>1. CASE UNCHANGED job
    BY <2>1, JobsFrame
  <2>2. CASE job' = [job EXCEPT ![k].state = "completed", ![k].owner = NoWorker]
    <3>1. PICK x : x = [job[k] EXCEPT !.state = "completed", !.owner = NoWorker]
      OBVIOUS
    <3>2. x \in Job /\ x.run = job[k].run /\ x.state # "active" /\ x.owner = NoWorker
      BY <1>1, <3>1 DEF Job, FinishedStates
    <3>3. job' = [job EXCEPT ![k] = x]
      BY <1>1, <2>2, <3>1
    <3> QED
      BY <1>4, <3>2, <3>3, JobUpdate
  <2>3. CASE job' = [job EXCEPT ![k].state = IF job[k].attempts + 1 < MaxAttempts
                                               THEN "delayed" ELSE "failed",
                                ![k].attempts = @ + 1,
                                ![k].owner = NoWorker]
    <3>1. PICK x : x = [job[k] EXCEPT !.state = IF job[k].attempts + 1 < MaxAttempts
                                                  THEN "delayed" ELSE "failed",
                                      !.attempts = @ + 1,
                                      !.owner = NoWorker]
      OBVIOUS
    <3>2. x \in Job /\ x.run = job[k].run /\ x.state # "active" /\ x.owner = NoWorker
      <4>1. job[k].attempts \in Nat /\ job[k].attempts + 1 \in Nat
        BY <1>1 DEF Job
      <4>2. PICK n \in Nat : n = job[k].attempts + 1
        BY <4>1
      <4>3. PICK state \in {"delayed", "failed"} :
              x = [job[k] EXCEPT !.state = state, !.attempts = n, !.owner = NoWorker]
        BY <1>1, <3>1, <4>2 DEF Job
      <4> QED
        BY <1>1, <4>3 DEF Job, LiveStates, FinishedStates
    <3>3. job' = [job EXCEPT ![k] = x]
      BY <1>1, <2>3, <3>1
    <3> QED
      BY <1>4, <3>2, <3>3, JobUpdate
  <2> QED
    BY <1>4, <2>1, <2>2, <2>3 DEF Settle
<1> QED
  BY <1>2, <1>3, <1>4

(* The handler settled: the slot is free, the job moved on if it was held. *)
LEMMA EndJobOK ==
    ASSUME IInv, NEW w \in Workers, EndJob(w)
    PROVE  IInv'
<1>1. Kept /\ UNCHANGED <<runs, receipts, producer, marker, left>>
  BY KeptUnchanged DEF EndJob
<1>2. worker[w].key \in Keys
  BY HeldRun DEF EndJob, AtW, IInv
<1>3. WorkersOK'
  BY <1>1, WorkerIdles DEF EndJob, IInv
<1>4. JobsOK'
  <2>1. PICK k \in Keys, resolved \in BOOLEAN :
          k = worker[w].key /\ Settle(w, k, resolved)
    BY <1>2 DEF EndJob, AtW
  <2>2. CASE job[k].state = "none"
    <3>1. job[k].owner = NoWorker /\ w # NoWorker
      BY <2>1, <2>2, QueueAssumption DEF IInv, JobsOK
    <3> QED
      BY <1>1, <2>1, <3>1, JobsFrame DEF Settle, IInv
  <2>3. CASE job[k].state # "none"
    BY <1>1, <2>1, <2>3, QueueMoves DEF IInv
  <2> QED
    BY <2>2, <2>3
<1> QED
  BY <1>1, <1>3, <1>4, RunsFrame, ProducersFrame, MarkersFrame DEF IInv, BudgetOK

(* Back-off timers, stalled checks and lost locks move a job that exists. *)
LEMMA QueueOK ==
    ASSUME IInv, NEW k \in Keys,
           \/ PromoteDelayed(k)
           \/ ReclaimStalled(k)
           \/ \E w \in Workers : worker[w].key = k /\ LoseLock(w)
    PROVE  IInv'
<1>1. Kept /\ UNCHANGED <<runs, receipts, producer, worker, marker>>
  BY KeptUnchanged DEF PromoteDelayed, ReclaimStalled, LoseLock
<1>2. ASSUME PromoteDelayed(k) PROVE JobsOK'
  BY <1>1, <1>2, QueueMoves DEF PromoteDelayed, IInv
<1>3. ASSUME ReclaimStalled(k) PROVE JobsOK'
  BY <1>1, <1>3, QueueMoves DEF ReclaimStalled, IInv
<1>4. ASSUME NEW w \in Workers, worker[w].key = k, LoseLock(w) PROVE JobsOK'
  <2>1. job[k].owner = w /\ Reclaim(k)
    BY <1>4 DEF LoseLock
  <2>2. job[k].state # "none"
    BY <2>1, QueueAssumption DEF IInv, JobsOK
  <2> QED
    BY <1>1, <2>1, <2>2, QueueMoves DEF IInv
<1>5. BudgetOK'
  BY Spending DEF PromoteDelayed, ReclaimStalled, LoseLock, Kinds, IInv, BudgetOK
<1> QED
  BY <1>1, <1>2, <1>3, <1>4, <1>5, RunsFrame, ProducersFrame, WorkersFrame, MarkersFrame
     DEF IInv

(* A crash empties every slot and leaves documents, receipts and jobs. *)
LEMMA CrashOK ==
    ASSUME IInv, CrashSimulator
    PROVE  IInv'
<1>1. Kept
  BY KeptUnchanged DEF CrashSimulator
<1>2. IdleWorker \in Worker /\ IdleWorker.pc = "idle"
  BY DEF IdleWorker, Worker, WorkerPcs
<1>3. WorkersOK'
  BY <1>2 DEF WorkersOK, HashOK, CrashSimulator
<1>4. BudgetOK'
  BY Spending DEF CrashSimulator, Kinds, IInv
<1> QED
  BY <1>1, <1>3, <1>4, RunsFrame, WorkerWrites DEF CrashSimulator, IInv
-----------------------------------------------------------------------------
(* Steps of markers. *)

(* Reading the open runs collects documents that exist. *)
LEMMA FindOpenRunsOK ==
    ASSUME IInv, NEW m \in Markers, NEW verdict \in {"STALE", "CANCELLED"},
           FindOpenRuns(m, verdict)
    PROVE  IInv'
<1>1. Kept
  BY KeptUnchanged DEF FindOpenRuns
<1> DEFINE open == {id \in RunIds : runs[id].status \in OpenStatuses}
<1>2. \A id \in open : Exists(id)
  BY DEF OpenStatuses, Exists
<1>3. MarkersOK'
  <2>1. PICK x \in Marker : x.targets = open /\ x = [targets |-> open, verdict |-> verdict]
    BY DEF Marker
  <2>2. marker' = [marker EXCEPT ![m] = x]
    BY <2>1 DEF FindOpenRuns
  <2>3. marker' \in [Markers -> Marker]
    BY <2>2 DEF IInv, MarkersOK
  <2>4. ASSUME NEW n \in Markers, NEW id \in marker'[n].targets
        PROVE  Exists(id) /\ id \in RunIds
    BY <1>2, <2>1, <2>2, <2>4 DEF IInv, MarkersOK, Marker
  <2>5. \A n \in Markers : \A id \in marker'[n].targets : Exists(id)'
    BY <1>1, <2>4 DEF Kept
  <2> QED
    BY <2>3, <2>5 DEF MarkersOK
<1>4. BudgetOK'
  BY Spending DEF FindOpenRuns, Kinds, IInv
<1> QED
  BY <1>1, <1>3, <1>4, RunsFrame, JobsFrame, ProducersFrame, WorkersFrame
     DEF FindOpenRuns, IInv

(* A mark writes a verdict, whatever the document says now. *)
LEMMA MarkRunOK ==
    ASSUME IInv, NEW m \in Markers, NEW id \in RunIds, MarkRun(m, id)
    PROVE  IInv'
<1>1. Exists(id) /\ runs[id] \in Run /\ Retrievable(runs[id])
  BY DEF MarkRun, IInv, MarkersOK, RunsOK, ProofRetrievable
<1>2. marker[m].verdict \in Statuses
  BY DEF IInv, MarkersOK, Marker, Statuses, TerminalStatuses, RequeueStatuses
<1>3. PICK run \in Run : run = WithStatus(runs[id], marker[m].verdict)
  BY <1>1, <1>2, Patches
<1>4. run.key = runs[id].key /\ run.status # "NONE" /\ Retrievable(run)
  <2>1. /\ run.key = runs[id].key /\ run.receiptHash = runs[id].receiptHash
        /\ run.status = marker[m].verdict
    BY <1>1, <1>2, <1>3, Patches
  <2> QED
    BY <1>1, <2>1, SameProof DEF IInv, MarkersOK, Marker
<1>5. runs' = [runs EXCEPT ![id] = run]
  BY <1>3 DEF MarkRun, IInv, RunsOK
<1>6. RunsOK' /\ Kept
  BY <1>1, <1>4, <1>5, RunUpdate DEF MarkRun, IInv
<1>7. MarkersOK'
  BY <1>6 DEF MarkRun, IInv, MarkersOK, Marker, Kept
<1> QED
  BY <1>6, <1>7, JobsFrame, ProducersFrame, WorkersFrame DEF MarkRun, IInv, BudgetOK

(* A pass that stops early forgets its remaining targets. *)
LEMMA AbandonMarkingOK ==
    ASSUME IInv, NEW m \in Markers, AbandonMarking(m)
    PROVE  IInv'
<1>1. Kept
  BY KeptUnchanged DEF AbandonMarking
<1>2. MarkersOK'
  <2>1. PICK x \in Marker : x.targets = {} /\ x = IdleMarker
    BY DEF Marker, IdleMarker
  <2>2. marker' = [marker EXCEPT ![m] = x]
    BY <2>1 DEF AbandonMarking
  <2>3. marker' \in [Markers -> Marker]
    BY <2>2 DEF IInv, MarkersOK
  <2>4. \A n \in Markers : \A id \in marker'[n].targets : Exists(id) /\ id \in RunIds
    BY <2>1, <2>2 DEF IInv, MarkersOK, Marker
  <2>5. \A n \in Markers : \A id \in marker'[n].targets : Exists(id)'
    BY <1>1, <2>4 DEF Kept
  <2> QED
    BY <2>3, <2>5 DEF MarkersOK
<1>3. BudgetOK'
  BY Spending DEF AbandonMarking, Kinds, IInv
<1> QED
  BY <1>1, <1>2, <1>3, RunsFrame, JobsFrame, ProducersFrame, WorkersFrame
     DEF AbandonMarking, IInv
-----------------------------------------------------------------------------
(* Every step, and a step that changes nothing, preserves the invariant. *)
LEMMA StepOK == IInv /\ [Next]_vars => IInv'
<1> SUFFICES ASSUME IInv, [Next]_vars PROVE IInv'
  OBVIOUS
<1>1. CASE UNCHANGED vars
  BY <1>1, KeptUnchanged, RunsFrame, JobsFrame, ProducersFrame, WorkersFrame, MarkersFrame
     DEF vars, IInv, BudgetOK
<1>2. ASSUME NEW p \in Producers, NEW k \in Keys, NEW s \in StrategyFlags,
             CreateImpact(p, k, s)
      PROVE  IInv'
  BY <1>2, RequestOK, PipelineAssumption DEF CreateImpact
<1>3. ASSUME NEW p \in Producers, NEW k \in Keys, RerunImpact(p, k)
      PROVE  IInv'
  <2>1. PICK s \in BOOLEAN : Request(p, k, s)
    BY <1>3 DEF RerunImpact, IInv, RunsOK, Run
  <2> QED
    BY <2>1, RequestOK
<1>4. ASSUME NEW p \in Producers, ProducerStep(p) \/ AbandonRequest(p)
      PROVE  IInv'
  BY <1>4, ProducerReadOK, ClaimInsertOK, RequeueOK, ProducerJobOK, AbandonRequestOK
     DEF ProducerStep
<1>5. ASSUME NEW w \in Workers, NEW k \in Keys, TakeJob(w, k)
      PROVE  IInv'
  BY <1>5, TakeJobOK
<1>6. ASSUME NEW w \in Workers, WorkerStep(w)
      PROVE  IInv'
  BY <1>6, FindRunOK, AppendsOK, StatusesOK, MeasureRiskOK, ComputeOK, SaveReceiptOK,
     EndJobOK DEF WorkerStep
<1>7. ASSUME NEW w \in Workers, LoseLock(w)
      PROVE  IInv'
  <2>1. worker[w].key \in Keys
    BY <1>7, HeldRun DEF LoseLock, IInv
  <2> QED
    BY <1>7, <2>1, QueueOK
<1>8. ASSUME NEW k \in Keys, PromoteDelayed(k) \/ ReclaimStalled(k)
      PROVE  IInv'
  BY <1>8, QueueOK
<1>9. ASSUME NEW m \in Markers, NEW verdict \in {"STALE", "CANCELLED"},
             FindOpenRuns(m, verdict)
      PROVE  IInv'
  BY <1>9, FindOpenRunsOK
<1>10. ASSUME NEW m \in Markers, NEW id \in RunIds, MarkRun(m, id)
       PROVE  IInv'
  BY <1>10, MarkRunOK
<1>11. ASSUME NEW m \in Markers, AbandonMarking(m)
       PROVE  IInv'
  BY <1>11, AbandonMarkingOK
<1> QED
  BY <1>1, <1>2, <1>3, <1>4, <1>5, <1>6, <1>7, <1>8, <1>9, <1>10, <1>11, CrashOK DEF Next

(* The invariant holds in every reachable state. *)
THEOREM Inductive == Spec => []IInv
BY InitOK, StepOK, PTL DEF Spec

(* Every variable keeps its type. *)
THEOREM TypeCorrect == Spec => []TypeOK
<1>1. IInv => TypeOK
  BY DEF IInv, RunsOK, JobsOK, ProducersOK, WorkersOK, MarkersOK, BudgetOK, TypeOK
<1> QED
  BY <1>1, Inductive, PTL

(* The proof endpoint never finds a hash without its receipt: with retries, *)
(* crashes, lost locks and requeues in any order.                          *)
THEOREM ProofsAreRetrievable == Spec => []ProofRetrievable
<1>1. IInv => ProofRetrievable
  BY DEF IInv, RunsOK
<1> QED
  BY <1>1, Inductive, PTL

-----------------------------------------------------------------------------
(* Exclusive slots.  While no lock is lost, the slot that processes a job  *)
(* is the one that holds its lock: a crash empties the slots, and the      *)
(* stalled check takes a job only from a slot that no longer processes it. *)

OwnLocks == \A w \in Workers : ~AtW(w, "idle") => job[worker[w].key].owner = w

(* A handler between its first read and its last write works on a run      *)
(* nobody has ended: only the handler itself writes COMPLETED and FAILED.  *)
OpenPcs == {"start", "announce", "replay", "save", "replayed", "measure", "agent",
            "optimize", "compare", "branch", "recommend", "prove"}
Ended == {"COMPLETED", "FAILED"}

Unended == \A w \in Workers : worker[w].pc \in OpenPcs => MyRun(w).status \notin Ended

ExclusiveInv == IInv /\ left["lockLoss"] = 0 /\ OwnLocks /\ Unended

(* With nothing to spend on it, no lock is ever lost. *)
LEMMA LocksSpared ==
    ASSUME BudgetOK, left["lockLoss"] = 0, [Next]_vars
    PROVE  left'["lockLoss"] = 0 /\ \A w \in Workers : ~LoseLock(w)
<1>1. "lockLoss" \in Kinds
  BY DEF Kinds
<1>2. ASSUME NEW kind \in Kinds, Spend(kind)
      PROVE  kind # "lockLoss" /\ left'["lockLoss"] = 0
  BY <1>1, <1>2 DEF Spend, BudgetOK
<1>3. \A w \in Workers : ~LoseLock(w)
  BY <1>1, <1>2 DEF LoseLock
<1>4. CASE UNCHANGED left
  BY <1>3, <1>4
<1>5. CASE \E kind \in Kinds : Spend(kind)
  BY <1>2, <1>3, <1>5
<1>6. ASSUME NEW w \in Workers, WorkerStep(w)
      PROVE  UNCHANGED left \/ \E kind \in Kinds : Spend(kind)
  BY <1>6 DEF WorkerStep, FindRun, StartFork, AnnounceReplay, Compute, SaveReceipt,
              FinishReplay, MeasureRisk, StrategyEvent, PublishProof, RecordFailure,
              EndJob, WriteRun, Kinds
<1>7. ASSUME NEW p \in Producers, ProducerStep(p) \/ AbandonRequest(p)
      PROVE  UNCHANGED left \/ \E kind \in Kinds : Spend(kind)
  BY <1>7 DEF ProducerStep, AbandonRequest, ClaimFind, ClaimInsert, Requeue,
              CountInflight, GetJob, GetState, RemoveJob, AddJob, Kinds
<1> QED
  BY <1>3, <1>4, <1>5, <1>6, <1>7
     DEF Next, vars, CreateImpact, RerunImpact, Request, TakeJob, PromoteDelayed,
         ReclaimStalled, CrashSimulator, FindOpenRuns, MarkRun, AbandonMarking, Kinds

(* One document is held by one slot. *)
LEMMA SlotsDiffer == IInv /\ OwnLocks => NoSharedRun
<1> SUFFICES ASSUME IInv, OwnLocks, NEW v \in Workers, NEW w \in Workers,
                    ~AtW(v, "idle"), ~AtW(w, "idle"), worker[v].run = worker[w].run
             PROVE  v = w
  BY DEF NoSharedRun
<1>1. worker[v].key = worker[w].key
  BY HeldRun DEF IInv, MyRun
<1> QED
  BY <1>1 DEF OwnLocks
-----------------------------------------------------------------------------
(* The locks. *)

(* Slots that are not taken keep their locks while no job moves. *)
LEMMA LocksFrame ==
    ASSUME OwnLocks, UNCHANGED job,
           \A w \in Workers :
              worker'[w].pc # "idle" => ~AtW(w, "idle") /\ worker'[w].key = worker[w].key
    PROVE  OwnLocks'
BY DEF OwnLocks, AtW

(* A job moves under its lock holder, or while no slot processes it. *)
LEMMA LocksMove ==
    ASSUME JobsOK, OwnLocks, UNCHANGED worker,
           NEW k \in Keys, NEW x, job' = [job EXCEPT ![k] = x],
           \/ x.owner = job[k].owner
           \/ \A w \in Workers : ~AtW(w, "idle") => worker[w].key # k
    PROVE  OwnLocks'
BY DEF OwnLocks, AtW, JobsOK

(* A job without a lock holder is processed by no slot. *)
LEMMA Unlocked ==
    ASSUME OwnLocks, NEW k \in Keys, job[k].owner = NoWorker
    PROVE  \A w \in Workers : ~AtW(w, "idle") => worker[w].key # k
BY QueueAssumption DEF OwnLocks

(* The handler's own steps move its slot on, under the same lock. *)
LEMMA HandlerMoves ==
    ASSUME WorkersOK, NEW w \in Workers, WorkerStep(w), ~EndJob(w)
    PROVE  /\ ~AtW(w, "idle") /\ UNCHANGED job
           /\ worker'[w].key = worker[w].key /\ worker'[w].run = worker[w].run
           /\ \A v \in Workers \ {w} : worker'[v] = worker[v]
<1>1. ASSUME NEW pc, NEW retryable,
             worker' = [worker EXCEPT ![w].pc = pc, ![w].retryable = retryable]
      PROVE  /\ worker'[w].key = worker[w].key /\ worker'[w].run = worker[w].run
             /\ \A v \in Workers \ {w} : worker'[v] = worker[v]
  BY <1>1 DEF WorkersOK, Worker
<1>2. ASSUME NEW pc, GoW(w, pc)
      PROVE  /\ worker'[w].key = worker[w].key /\ worker'[w].run = worker[w].run
             /\ \A v \in Workers \ {w} : worker'[v] = worker[v]
  BY <1>2 DEF GoW, WorkersOK, Worker
<1>3. ASSUME NEW pc, NEW hash,
             worker' = [worker EXCEPT ![w].pc = pc, ![w].hash = hash]
      PROVE  /\ worker'[w].key = worker[w].key /\ worker'[w].run = worker[w].run
             /\ \A v \in Workers \ {w} : worker'[v] = worker[v]
  BY <1>3 DEF WorkersOK, Worker
<1>4. \/ \E pc : GoW(w, pc)
      \/ \E pc, retryable :
           worker' = [worker EXCEPT ![w].pc = pc, ![w].retryable = retryable]
      \/ \E pc, hash : worker' = [worker EXCEPT ![w].pc = pc, ![w].hash = hash]
  BY DEF WorkerStep, FindRun, StartFork, AnnounceReplay, Compute, ReplayTo, SaveReceipt,
         FinishReplay, MeasureRisk, StrategyEvent, PublishProof, RecordFailure, WriteRun
<1>5. ~AtW(w, "idle") /\ UNCHANGED job
  BY DEF WorkerStep, FindRun, StartFork, AnnounceReplay, Compute, SaveReceipt,
         FinishReplay, MeasureRisk, StrategyEvent, PublishProof, RecordFailure, AtW, ReplayTo
<1> QED
  BY <1>1, <1>2, <1>3, <1>4, <1>5

(* A slot that settles gives up its own lock and no other. *)
LEMMA EndJobLocks ==
    ASSUME IInv, OwnLocks, NEW w \in Workers, EndJob(w)
    PROVE  OwnLocks'
<1>1. ~AtW(w, "idle") /\ worker[w].key \in Keys
  BY HeldRun DEF EndJob, AtW, IInv
<1>2. PICK k \in Keys : k = worker[w].key
  BY <1>1
<1>3. \A j \in Keys \ {k} : job'[j] = job[j]
  BY <1>2 DEF EndJob, Settle, IInv, JobsOK
<1>4. \A v \in Workers :
         worker'[v].pc # "idle" => v # w /\ worker'[v] = worker[v] /\ ~AtW(v, "idle")
  BY DEF EndJob, IdleWorker, IInv, WorkersOK, AtW
<1>5. job[k].owner = w
  BY <1>1, <1>2 DEF OwnLocks
<1>6. \A v \in Workers : v # w /\ ~AtW(v, "idle") => worker[v].key \in Keys \ {k}
  BY <1>5, HeldRun DEF OwnLocks, IInv
<1>7. \A v \in Workers :
         worker'[v].pc # "idle" => job'[worker'[v].key].owner = v
  BY <1>3, <1>4, <1>6 DEF OwnLocks
<1> QED
  BY <1>7 DEF OwnLocks, AtW

(* A slot is handed a job together with its lock. *)
LEMMA TakeJobLocks ==
    ASSUME IInv, OwnLocks, NEW w \in Workers, NEW k \in Keys, TakeJob(w, k)
    PROVE  OwnLocks'
<1>1. job[k].owner = NoWorker
  BY DEF TakeJob, Lock, IInv, JobsOK
<1>2. \A v \in Workers : ~AtW(v, "idle") => worker[v].key # k /\ worker[v].key \in Keys
  BY <1>1, Unlocked, HeldRun DEF IInv
<1>3. \A j \in Keys \ {k} : job'[j] = job[j]
  BY DEF TakeJob, Lock, IInv, JobsOK
<1>4. job'[k].owner = w
  BY DEF TakeJob, Lock, IInv, JobsOK, Job
<1>5. worker'[w].key = k /\ \A v \in Workers \ {w} : worker'[v] = worker[v]
  BY DEF TakeJob, IInv, WorkersOK
<1>6. \A v \in Workers : worker'[v].pc # "idle" => job'[worker'[v].key].owner = v
  BY <1>2, <1>3, <1>4, <1>5 DEF OwnLocks, AtW
<1> QED
  BY <1>6 DEF OwnLocks, AtW

(* Producers remove a job only while nobody holds it, and add one only     *)
(* where there is none.                                                    *)
LEMMA ProducerLocks ==
    ASSUME IInv, OwnLocks, NEW p \in Producers, ProducerStep(p) \/ AbandonRequest(p)
    PROVE  OwnLocks'
<1>1. UNCHANGED worker
  BY DEF ProducerStep, AbandonRequest, ClaimFind, ClaimInsert, Requeue, CountInflight,
         GetJob, GetState, RemoveJob, AddJob
<1>2. CASE UNCHANGED job
  BY <1>1, <1>2, LocksFrame DEF AtW
<1>3. ASSUME RemoveJob(p) \/ AddJob(p), ~UNCHANGED job PROVE OwnLocks'
  <2>1. PICK k \in Keys : k = producer[p].key
    BY <1>3, ClaimedRun DEF RemoveJob, AddJob, AtP, Names
  <2>2. job[k].owner = NoWorker
    BY <1>3, <2>1, QueueAssumption DEF RemoveJob, AddJob, Add, Locked, IInv, JobsOK
  <2>3. PICK x : job' = [job EXCEPT ![k] = x]
    BY <1>3, <2>1 DEF RemoveJob, AddJob, Add, Remove
  <2> QED
    BY <1>1, <2>2, <2>3, Unlocked, LocksMove DEF IInv
<1> QED
  BY <1>2, <1>3
     DEF ProducerStep, AbandonRequest, ClaimFind, ClaimInsert, Requeue, CountInflight,
         GetJob, GetState

(* Back-off timers leave the owner, and the stalled check finds the owner  *)
(* at work on another job or on none.                                      *)
LEMMA TimerLocks ==
    ASSUME IInv, OwnLocks, NEW k \in Keys, PromoteDelayed(k) \/ ReclaimStalled(k)
    PROVE  OwnLocks'
<1>1. UNCHANGED worker /\ job[k] \in Job /\ job \in [Keys -> Job]
  BY DEF PromoteDelayed, ReclaimStalled, IInv, JobsOK
<1>2. ASSUME PromoteDelayed(k) PROVE OwnLocks'
  <2>1. PICK x : x = [job[k] EXCEPT !.state = "waiting"]
    OBVIOUS
  <2>2. job' = [job EXCEPT ![k] = x] /\ x.owner = job[k].owner
    BY <1>1, <1>2, <2>1 DEF PromoteDelayed, Promote, Job
  <2> QED
    BY <1>1, <2>2, LocksMove DEF IInv
<1>3. ASSUME ReclaimStalled(k) PROVE OwnLocks'
  <2>1. PICK x : job' = [job EXCEPT ![k] = x]
    <3>1. PICK x : x = [job[k] EXCEPT
                          !.state = IF job[k].stalled THEN "failed" ELSE "waiting",
                          !.stalled = TRUE, !.owner = NoWorker]
      OBVIOUS
    <3>2. job' = [job EXCEPT ![k] = x]
      BY <1>1, <1>3, <3>1 DEF ReclaimStalled, Reclaim
    <3> QED
      BY <3>2
  <2>2. \A w \in Workers : ~AtW(w, "idle") => worker[w].key # k
    BY <1>3 DEF ReclaimStalled, OwnLocks
  <2> QED
    BY <1>1, <2>1, <2>2, LocksMove DEF IInv
<1> QED
  BY <1>2, <1>3

(* Every step but a lost lock leaves each busy slot its lock. *)
LEMMA LocksOK ==
    ASSUME IInv, OwnLocks, [Next]_vars, \A w \in Workers : ~LoseLock(w)
    PROVE  OwnLocks'
<1>1. CASE UNCHANGED <<job, worker>>
  BY <1>1, LocksFrame DEF AtW
<1>2. ASSUME NEW w \in Workers, WorkerStep(w) PROVE OwnLocks'
  <2>1. CASE EndJob(w)
    BY <2>1, EndJobLocks
  <2>2. CASE ~EndJob(w)
    BY <1>2, <2>2, HandlerMoves, LocksFrame DEF IInv, AtW
  <2> QED
    BY <2>1, <2>2
<1>3. CASE CrashSimulator
  BY <1>3 DEF CrashSimulator, OwnLocks, AtW, IdleWorker
<1> QED
  BY <1>1, <1>2, <1>3, TakeJobLocks, ProducerLocks, TimerLocks
     DEF Next, vars, CreateImpact, RerunImpact, Request, FindOpenRuns, MarkRun,
         AbandonMarking
-----------------------------------------------------------------------------
(* The documents under the handlers. *)

(* A step that leaves the documents, or writes one that no busy slot       *)
(* holds, or an open or marked status, ends no run under its handler.      *)
LEMMA UnendedFrame ==
    ASSUME WorkersOK, RunsOK, Unended,
           \A w \in Workers : worker'[w].pc \in OpenPcs =>
              worker[w].pc \in OpenPcs /\ worker'[w].run = worker[w].run,
           \A id \in RunIds : \/ runs'[id].status = runs[id].status
                              \/ runs'[id].status \notin Ended
    PROVE  Unended'
<1> SUFFICES ASSUME NEW w \in Workers, worker'[w].pc \in OpenPcs
             PROVE  runs'[worker'[w].run].status \notin Ended
  BY DEF Unended, MyRun
<1>1. ~AtW(w, "idle") /\ worker'[w].run = worker[w].run /\ MyRun(w).status \notin Ended
  BY DEF Unended, AtW, OpenPcs
<1>2. worker[w].run \in RunIds
  BY <1>1, HeldRun
<1> QED
  BY <1>1, <1>2 DEF MyRun

(* What a handler may do to its document and where it may go next. *)
Writes(w, run) ==
    /\ runs' \in {runs, [runs EXCEPT ![worker[w].run] = run]}
    /\ worker'[w].pc \in OpenPcs =>
         /\ runs' = [runs EXCEPT ![worker[w].run] = run]
         /\ run.status \notin Ended

LEMMA UnendedWrites ==
    ASSUME WorkersOK, RunsOK, NoSharedRun, Unended, NEW w \in Workers, ~AtW(w, "idle"),
           worker'[w].run = worker[w].run,
           \A v \in Workers \ {w} : worker'[v] = worker[v],
           NEW run, Writes(w, run)
    PROVE  Unended'
<1> SUFFICES ASSUME NEW v \in Workers, worker'[v].pc \in OpenPcs
             PROVE  runs'[worker'[v].run].status \notin Ended
  BY DEF Unended, MyRun
<1>1. PICK id \in RunIds : id = worker[w].run
  BY HeldRun
<1>2. CASE v = w
  BY <1>1, <1>2 DEF Writes, RunsOK
<1>3. CASE v # w
  <2>1. ~AtW(v, "idle") /\ worker'[v] = worker[v] /\ runs[worker[v].run].status \notin Ended
    BY <1>3 DEF Unended, AtW, OpenPcs, MyRun
  <2>2. worker[v].run \in RunIds /\ worker[v].run # id
    BY <1>1, <1>3, <2>1, HeldRun DEF NoSharedRun
  <2>3. runs'[worker[v].run] = runs[worker[v].run]
    BY <1>1, <2>2 DEF Writes, RunsOK
  <2> QED
    BY <2>1, <2>3
<1> QED
  BY <1>2, <1>3

(* A write that goes on to an open step writes a document not ended. *)
LEMMA WriteRunWrites ==
    ASSUME WorkersOK, NEW w \in Workers, NEW run, NEW next, NEW onError \in {"catch", "throw"},
           WriteRun(w, run, next, onError),
           next \in OpenPcs => run.status \notin Ended
    PROVE  Writes(w, run)
<1>1. CASE runs' = [runs EXCEPT ![worker[w].run] = run] /\ GoW(w, next)
  <2>1. worker'[w].pc = next
    BY <1>1 DEF GoW, WorkersOK, Worker
  <2> QED
    BY <1>1, <2>1 DEF Writes
<1>2. CASE runs' \in {runs, [runs EXCEPT ![worker[w].run] = run]} /\ GoW(w, onError)
  <2>1. worker'[w].pc \in {"catch", "throw"}
    BY <1>2 DEF GoW, WorkersOK, Worker
  <2> QED
    BY <1>2, <2>1 DEF Writes, OpenPcs
<1> QED
  BY <1>1, <1>2 DEF WriteRun

(* What each of a handler's steps makes of its document: nothing; RUNNING  *)
(* while it is open; the pointer to the receipt the handler stored; the    *)
(* announcement of that receipt, with COMPLETED; or FAILED.                *)
DocumentMove(w, run) ==
    \/ run = MyRun(w)
    \/ /\ worker[w].pc = "start"
       /\ run.status = "RUNNING" /\ run.receiptHash = MyRun(w).receiptHash
    \/ /\ worker[w].pc = "measure"
       /\ run.status = MyRun(w).status /\ run.receiptHash = worker[w].hash
    \/ /\ worker[w].pc = "prove"
       /\ run.status = "COMPLETED" /\ run.receiptHash = MyRun(w).receiptHash
       /\ run.announced = worker[w].hash
    \/ run.status = "FAILED" /\ run.receiptHash = MyRun(w).receiptHash

(* The steps after the pointer is written, up to the proof.                *)
PointedPcs == {"agent", "optimize", "compare", "branch", "recommend", "prove"}

(* A handler that goes on among those steps left the document as it was,   *)
(* or wrote the pointer itself.                                            *)
Points(w, run) ==
    worker'[w].pc \in PointedPcs =>
        /\ worker'[w].hash = worker[w].hash
        /\ \/ worker[w].pc \in PointedPcs /\ run = MyRun(w)
           \/ run.receiptHash = worker[w].hash

HandlerWrite(w, run) == Writes(w, run) /\ DocumentMove(w, run) /\ Points(w, run)

(* A handler that goes nowhere among those steps need not point anywhere.  *)
LEMMA WriteRunPoints ==
    ASSUME WorkersOK, NEW w \in Workers, NEW run, NEW next, NEW onError \in {"catch", "throw"},
           WriteRun(w, run, next, onError),
           next \in PointedPcs => \/ worker[w].pc \in PointedPcs /\ run = MyRun(w)
                                  \/ run.receiptHash = worker[w].hash
    PROVE  Points(w, run)
<1>1. ASSUME NEW pc, GoW(w, pc)
      PROVE  worker'[w].pc = pc /\ worker'[w].hash = worker[w].hash
  BY <1>1 DEF GoW, WorkersOK, Worker
<1>2. CASE GoW(w, next)
  BY <1>1, <1>2 DEF Points
<1>3. CASE GoW(w, onError)
  BY <1>1, <1>3 DEF Points, PointedPcs
<1> QED
  BY <1>2, <1>3 DEF WriteRun

LEMMA HandlerWrites ==
    ASSUME IInv, Unended, NEW w \in Workers, WorkerStep(w), ~EndJob(w)
    PROVE  \E run : HandlerWrite(w, run)
<1>1. /\ ~AtW(w, "idle") /\ worker[w].run \in RunIds
      /\ MyRun(w) \in Run /\ MyRun(w).key = worker[w].key
  BY HandlerMoves, HeldRun DEF IInv
<1>2. PICK run \in Run : run = MyRun(w)
  BY <1>1
<1>3. runs = [runs EXCEPT ![worker[w].run] = run]
  BY <1>1, <1>2 DEF MyRun, IInv, RunsOK
<1>4. worker[w].pc \in OpenPcs => run.status \notin Ended
  BY <1>2 DEF Unended
<1>5. ASSUME UNCHANGED runs, worker'[w].pc \in OpenPcs => run.status \notin Ended,
             Points(w, run)
      PROVE  HandlerWrite(w, run)
  BY <1>2, <1>3, <1>5 DEF Writes, DocumentMove, HandlerWrite
<1>6. CASE FindRun(w)
  <2>1. worker'[w].pc \in OpenPcs => run.status \notin TerminalStatuses
    BY <1>2, <1>6 DEF FindRun, GoW, OpenPcs, IInv, WorkersOK, Worker
  <2>2. Points(w, run)
    BY <1>6 DEF FindRun, GoW, Points, PointedPcs, IInv, WorkersOK, Worker
  <2> QED
    BY <1>5, <1>6, <2>1, <2>2 DEF FindRun, TerminalStatuses, RequeueStatuses, Ended
<1>7. CASE Compute(w) \/ SaveReceipt(w)
  <2>1. worker[w].pc \in OpenPcs /\ UNCHANGED runs
    BY <1>7 DEF Compute, ReplayTo, SaveReceipt, AtW, OpenPcs
  <2>2. ASSUME worker'[w].pc \in {"save", "replayed", "catch"} PROVE Points(w, run)
    BY <2>2 DEF Points, PointedPcs
  <2>3. ASSUME AtW(w, "compare"), GoW(w, "branch") PROVE Points(w, run)
    BY <1>2, <2>3 DEF Points, PointedPcs, AtW, GoW, IInv, WorkersOK, Worker
  <2>4. worker'[w].pc \in {"save", "replayed", "catch"} \/ (AtW(w, "compare") /\ GoW(w, "branch"))
    BY <1>7 DEF Compute, ReplayTo, SaveReceipt, GoW, IInv, WorkersOK, Worker
  <2> QED
    BY <1>4, <1>5, <2>1, <2>2, <2>3, <2>4
<1>8. CASE AnnounceReplay(w) \/ FinishReplay(w) \/ StrategyEvent(w)
  <2>1. worker[w].pc \in OpenPcs
    BY <1>8 DEF AnnounceReplay, FinishReplay, StrategyEvent, AtW, OpenPcs
  <2>2. PICK next : /\ WriteRun(w, run, next, "catch")
                    /\ next \in PointedPcs => worker[w].pc \in PointedPcs
    BY <1>2, <1>8 DEF AnnounceReplay, FinishReplay, StrategyEvent, AtW, PointedPcs
  <2> QED
    BY <1>2, <1>4, <2>1, <2>2, WriteRunWrites, WriteRunPoints
       DEF IInv, HandlerWrite, DocumentMove
<1>9. CASE MeasureRisk(w)
  <2>1. worker[w].pc = "measure"
    BY <1>9 DEF MeasureRisk, AtW
  <2>2. PICK h \in Hashes : h = worker[w].hash
    BY <2>1 DEF IInv, WorkersOK, HashOK
  <2>3. PICK new : new = Measured(run, h)
    OBVIOUS
  <2>4. new.status = run.status /\ new.receiptHash = h
    BY <2>3, Patches
  <2>5. PICK next : WriteRun(w, new, next, "catch")
    BY <1>2, <1>9, <2>2, <2>3 DEF MeasureRisk
  <2>6. Writes(w, new) /\ Points(w, new)
    BY <1>4, <2>1, <2>2, <2>4, <2>5, WriteRunWrites, WriteRunPoints DEF IInv, OpenPcs
  <2> QED
    BY <1>2, <2>1, <2>2, <2>4, <2>6 DEF DocumentMove, HandlerWrite
<1>10. CASE StartFork(w)
  <2>1. worker[w].pc = "start"
    BY <1>10 DEF StartFork, AtW
  <2>2. PICK new : new = WithStatus(run, "RUNNING")
    OBVIOUS
  <2>3. new.status = "RUNNING" /\ new.receiptHash = run.receiptHash
    BY <2>2, Patches DEF Statuses, OpenStatuses
  <2>4. PICK next \in {"announce", "throw"} : WriteRun(w, new, next, "throw")
    BY <1>2, <1>10, <2>2 DEF StartFork
  <2>5. Writes(w, new) /\ Points(w, new)
    BY <2>3, <2>4, WriteRunWrites, WriteRunPoints DEF IInv, Ended, PointedPcs
  <2> QED
    BY <1>2, <2>1, <2>3, <2>5 DEF DocumentMove, HandlerWrite
<1>11. CASE PublishProof(w)
  <2>1. worker[w].pc = "prove"
    BY <1>11 DEF PublishProof, AtW
  <2>2. PICK h \in Hashes \cup {NoHash} : h = worker[w].hash
    BY DEF IInv, WorkersOK, Worker
  <2>3. PICK new : new = Published(run, h)
    OBVIOUS
  <2>4. new.status = "COMPLETED" /\ new.receiptHash = run.receiptHash /\ new.announced = h
    BY <2>3, Patches
  <2>5. WriteRun(w, new, "return", "catch")
    BY <1>2, <1>11, <2>2, <2>3 DEF PublishProof
  <2>6. Writes(w, new) /\ Points(w, new)
    BY <2>5, WriteRunWrites, WriteRunPoints DEF IInv, OpenPcs, PointedPcs
  <2> QED
    BY <1>2, <2>1, <2>2, <2>4, <2>6 DEF DocumentMove, HandlerWrite
<1>12. CASE RecordFailure(w)
  <2>1. PICK new : new = WithStatus(run, "FAILED")
    OBVIOUS
  <2>2. new.status = "FAILED" /\ new.receiptHash = run.receiptHash
    BY <2>1, Patches DEF Statuses, TerminalStatuses, RequeueStatuses
  <2>3. PICK next \in {"throw", "return"} : WriteRun(w, new, next, "throw")
    BY <1>2, <1>12, <2>1 DEF RecordFailure
  <2>4. Writes(w, new) /\ Points(w, new)
    BY <2>3, WriteRunWrites, WriteRunPoints DEF IInv, OpenPcs, PointedPcs
  <2> QED
    BY <1>2, <2>2, <2>4 DEF DocumentMove, HandlerWrite
<1> QED
  BY <1>5, <1>6, <1>7, <1>8, <1>9, <1>10, <1>11, <1>12 DEF WorkerStep

(* A handler that ends has written nothing. *)
LEMMA EndJobWrites ==
    ASSUME NEW w \in Workers, EndJob(w)
    PROVE  UNCHANGED <<runs, receipts>>
BY DEF EndJob

(* What producers and markers make of a document: queued again or marked,  *)
(* with the pointer dropped or kept.                                       *)
OtherWrite(x, run) ==
    /\ runs' = [runs EXCEPT ![x] = run]
    /\ run.status \in {"QUEUED", "STALE", "CANCELLED"}
    /\ run.receiptHash \in {NoHash, runs[x].receiptHash}

(* Producers requeue and insert, markers mark: none of them ends a run.    *)
LEMMA OthersWrite ==
    ASSUME IInv, [Next]_vars, \A w \in Workers : ~WorkerStep(w)
    PROVE  /\ UNCHANGED receipts
           /\ UNCHANGED runs \/ \E x \in RunIds : \E run : OtherWrite(x, run)
<1>1. ASSUME NEW p \in Producers, ClaimInsert(p), ~UNCHANGED runs
      PROVE  \E x \in RunIds : \E run : OtherWrite(x, run)
  <2>1. PICK run : run = NewRun(producer[p].key, producer[p].strategies)
    OBVIOUS
  <2>2. run.status = "QUEUED" /\ run.receiptHash = NoHash
    BY <2>1 DEF NewRun
  <2>3. \E x \in RunIds : runs' = [runs EXCEPT ![x] = run]
    BY <1>1, <2>1 DEF ClaimInsert, InsertRun
  <2> QED
    BY <2>2, <2>3 DEF OtherWrite
<1>2. ASSUME NEW p \in Producers, Requeue(p)
      PROVE  \E x \in RunIds : \E run : OtherWrite(x, run)
  <2>1. PICK x \in RunIds : x = producer[p].run
    BY <1>2, ClaimedRun DEF Requeue, AtP, Names
  <2>2. PICK run : run = Requeued(runs[x], producer[p].strategies)
    OBVIOUS
  <2>3. run.status = "QUEUED" /\ run.receiptHash = NoHash
    BY <2>2 DEF Requeued, IInv, RunsOK, Run
  <2>4. runs' = [runs EXCEPT ![x] = run]
    BY <1>2, <2>1, <2>2 DEF Requeue, IInv, RunsOK
  <2> QED
    BY <2>3, <2>4 DEF OtherWrite
<1>3. ASSUME NEW m \in Markers, NEW x \in RunIds, MarkRun(m, x)
      PROVE  \E run : OtherWrite(x, run)
  <2>1. PICK run : run = WithStatus(runs[x], marker[m].verdict)
    OBVIOUS
  <2>2. marker[m].verdict \in {"STALE", "CANCELLED"}
    BY DEF IInv, MarkersOK, Marker
  <2>3. run.status = marker[m].verdict /\ run.receiptHash = runs[x].receiptHash
    BY <2>1, <2>2, Patches DEF IInv, RunsOK, Statuses, TerminalStatuses, RequeueStatuses
  <2>4. runs' = [runs EXCEPT ![x] = run]
    BY <1>3, <2>1 DEF MarkRun, IInv, RunsOK
  <2> QED
    BY <2>2, <2>3, <2>4 DEF OtherWrite
<1>4. ASSUME NEW p \in Producers, ProducerStep(p) \/ AbandonRequest(p), ~UNCHANGED runs
      PROVE  ClaimInsert(p) \/ Requeue(p)
  BY <1>4 DEF ProducerStep, AbandonRequest, ClaimFind, CountInflight, GetJob, GetState,
              RemoveJob, AddJob
<1>5. ASSUME NEW p \in Producers, ProducerStep(p) \/ AbandonRequest(p)
      PROVE  UNCHANGED receipts
  BY <1>5 DEF ProducerStep, AbandonRequest, ClaimFind, ClaimInsert, Requeue,
              CountInflight, GetJob, GetState, RemoveJob, AddJob
<1> QED
  BY <1>1, <1>2, <1>3, <1>4, <1>5
     DEF Next, vars, CreateImpact, RerunImpact, Request, TakeJob, LoseLock, MarkRun,
         PromoteDelayed, ReclaimStalled, CrashSimulator, FindOpenRuns, AbandonMarking

LEMMA OthersEndNothing ==
    ASSUME IInv, [Next]_vars, \A w \in Workers : ~WorkerStep(w)
    PROVE  \A id \in RunIds : \/ runs'[id] = runs[id]
                              \/ /\ runs'[id].status \in {"QUEUED", "STALE", "CANCELLED"}
                                 /\ runs'[id].receiptHash \in {NoHash, runs[id].receiptHash}
<1>1. CASE UNCHANGED runs
  BY <1>1
<1>2. ASSUME NEW x \in RunIds, NEW run, OtherWrite(x, run)
      PROVE  \A id \in RunIds :
                \/ runs'[id] = runs[id]
                \/ /\ runs'[id].status \in {"QUEUED", "STALE", "CANCELLED"}
                   /\ runs'[id].receiptHash \in {NoHash, runs[id].receiptHash}
  BY <1>2 DEF OtherWrite, IInv, RunsOK
<1> QED
  BY <1>1, <1>2, OthersWrite

(* Steps that are not a handler's own leave each handler's hash and step,  *)
(* or give it a new job, or none.                                          *)
LEMMA OthersMoveNoHandler ==
    ASSUME IInv, [Next]_vars, \A w \in Workers : ~WorkerStep(w)
    PROVE  \A w \in Workers : worker'[w].pc \in OpenPcs => worker'[w] = worker[w]
<1>1. CASE UNCHANGED worker
  BY <1>1
<1>2. ASSUME NEW w \in Workers, NEW k \in Keys, TakeJob(w, k)
      PROVE  \A v \in Workers : worker'[v].pc \in OpenPcs => worker'[v] = worker[v]
  BY <1>2 DEF TakeJob, OpenPcs, IInv, WorkersOK
<1>3. CASE CrashSimulator
  BY <1>3 DEF CrashSimulator, IdleWorker, OpenPcs
<1>4. ASSUME NEW p \in Producers, ProducerStep(p) \/ AbandonRequest(p)
      PROVE  UNCHANGED worker
  BY <1>4 DEF ProducerStep, AbandonRequest, ClaimFind, ClaimInsert, Requeue,
              CountInflight, GetJob, GetState, RemoveJob, AddJob
<1> QED
  BY <1>1, <1>2, <1>3, <1>4
     DEF Next, vars, CreateImpact, RerunImpact, Request, LoseLock, PromoteDelayed,
         ReclaimStalled, FindOpenRuns, MarkRun, AbandonMarking

(* Only the handler of a run ends it, on the way out of its open steps. *)
LEMMA UnendedOK ==
    ASSUME IInv, OwnLocks, Unended, [Next]_vars
    PROVE  Unended'
<1>1. CASE \A w \in Workers : ~WorkerStep(w)
  <2>1. \A id \in RunIds : \/ runs'[id].status = runs[id].status
                           \/ runs'[id].status \notin Ended
    BY <1>1, OthersEndNothing DEF Ended
  <2>2. \A w \in Workers : worker'[w].pc \in OpenPcs =>
              worker[w].pc \in OpenPcs /\ worker'[w].run = worker[w].run
    BY <1>1, OthersMoveNoHandler
  <2> QED
    BY <2>1, <2>2, UnendedFrame DEF IInv
<1>2. ASSUME NEW w \in Workers, WorkerStep(w) PROVE Unended'
  <2>1. CASE EndJob(w)
    <3>1. \A v \in Workers : worker'[v].pc \in OpenPcs =>
              worker[v].pc \in OpenPcs /\ worker'[v].run = worker[v].run
      BY <2>1 DEF EndJob, IdleWorker, OpenPcs, IInv, WorkersOK
    <3> QED
      BY <2>1, <3>1, UnendedFrame DEF EndJob, IInv
  <2>2. CASE ~EndJob(w)
    <3>1. PICK run : Writes(w, run)
      BY <1>2, <2>2, HandlerWrites DEF HandlerWrite
    <3> QED
      BY <1>2, <2>2, <3>1, HandlerMoves, SlotsDiffer, UnendedWrites DEF IInv
  <2> QED
    BY <2>1, <2>2
<1> QED
  BY <1>1, <1>2
-----------------------------------------------------------------------------
(* With no lock to lose, the invariant of exclusive slots is inductive. *)
LEMMA ExclusiveStep == ExclusiveInv /\ [Next]_vars => ExclusiveInv'
BY StepOK, LocksSpared, LocksOK, UnendedOK DEF ExclusiveInv, IInv

LEMMA ExclusiveInit == Budget["lockLoss"] = 0 /\ Init => ExclusiveInv
BY InitOK DEF ExclusiveInv, Init, OwnLocks, Unended, AtW, IdleWorker, OpenPcs

THEOREM Exclusive ==
    ASSUME Budget["lockLoss"] = 0
    PROVE  Spec => []ExclusiveInv
<1>1. Init => ExclusiveInv
  BY ExclusiveInit
<1> QED
  BY <1>1, ExclusiveStep, PTL DEF Spec

(* As long as no lock is lost, two slots never process the same run,       *)
(* however jobs are removed, added again, retried and reclaimed.           *)
THEOREM SlotsAreExclusive ==
    ASSUME Budget["lockLoss"] = 0
    PROVE  Spec => []NoSharedRun
<1>1. ExclusiveInv => NoSharedRun
  BY SlotsDiffer DEF ExclusiveInv
<1> QED
  BY <1>1, Exclusive, PTL

(* As long as no lock is lost, a run that ended is opened again only by a  *)
(* producer that requeues it.                                              *)
THEOREM EndedStays ==
    ASSUME Budget["lockLoss"] = 0
    PROVE  Spec => EndedRunStaysEnded
<1> DEFINE Stays == \A id \in RunIds :
              /\ runs[id].status \in {"COMPLETED", "FAILED"} => runs'[id].status # "RUNNING"
              /\ runs[id].status = "FAILED" => runs'[id].status # "COMPLETED"
<1>1. ASSUME ExclusiveInv, [Next]_vars PROVE Stays
  <2>1. CASE \A w \in Workers : ~WorkerStep(w)
    BY <1>1, <2>1, OthersEndNothing DEF ExclusiveInv
  <2>2. ASSUME NEW w \in Workers, WorkerStep(w) PROVE Stays
    <3>1. CASE EndJob(w)
      BY <3>1 DEF EndJob
    <3>2. CASE ~EndJob(w)
      <4>1. PICK run : Writes(w, run) /\ DocumentMove(w, run)
        BY <1>1, <2>2, <3>2, HandlerWrites DEF ExclusiveInv, HandlerWrite
      <4>2. PICK x \in RunIds : x = worker[w].run
        BY <1>1, <2>2, <3>2, HandlerMoves, HeldRun DEF ExclusiveInv, IInv
      <4>3. \A id \in RunIds : runs'[id] = runs[id] \/ (id = x /\ runs'[id] = run)
        BY <1>1, <4>1, <4>2 DEF Writes, ExclusiveInv, IInv, RunsOK
      <4>4. \/ run.status = runs[x].status
            \/ runs[x].status \notin Ended
            \/ run.status = "FAILED"
        BY <1>1, <4>1, <4>2 DEF DocumentMove, ExclusiveInv, Unended, MyRun, OpenPcs
      <4> QED
        BY <4>3, <4>4 DEF Ended
    <3> QED
      BY <3>1, <3>2
  <2> QED
    BY <2>1, <2>2
<1>2. ExclusiveInv /\ [Next]_vars => [Stays]_vars
  BY <1>1
<1> QED
  BY <1>2, Exclusive, PTL DEF Spec, EndedRunStaysEnded
-----------------------------------------------------------------------------
(* What completion announces.  A handler past RISK_MEASURED finds its own  *)
(* hash in the document, or none after a requeue, because nobody else      *)
(* writes a pointer there.                                                 *)

Pointed == \A w \in Workers :
    worker[w].pc \in PointedPcs => MyRun(w).receiptHash \in {NoHash, worker[w].hash}

AnnouncedInv == ExclusiveInv /\ Pointed /\ AnnouncedProofIsShown

(* A step of the others leaves pointers or drops them, and completes no    *)
(* run.                                                                    *)
LEMMA AnnouncedFrame ==
    ASSUME IInv, Pointed, AnnouncedProofIsShown,
           \A w \in Workers : worker'[w].pc \in PointedPcs => worker'[w] = worker[w],
           \A id \in RunIds : \/ runs'[id] = runs[id]
                              \/ /\ runs'[id].status # "COMPLETED"
                                 /\ runs'[id].receiptHash \in {NoHash, runs[id].receiptHash}
    PROVE  Pointed' /\ AnnouncedProofIsShown'
<1>1. AnnouncedProofIsShown'
  BY DEF AnnouncedProofIsShown
<1>2. ASSUME NEW w \in Workers, worker'[w].pc \in PointedPcs
      PROVE  runs'[worker'[w].run].receiptHash \in {NoHash, worker'[w].hash}
  <2>1. worker'[w] = worker[w] /\ ~AtW(w, "idle")
    BY <1>2 DEF AtW, PointedPcs
  <2>2. worker[w].run \in RunIds
    BY <2>1, HeldRun DEF IInv
  <2> QED
    BY <1>2, <2>1, <2>2 DEF Pointed, MyRun
<1> QED
  BY <1>1, <1>2 DEF Pointed, MyRun

(* A handler's step writes its own document only. *)
LEMMA AnnouncedHandler ==
    ASSUME IInv, NoSharedRun, Unended, Pointed, AnnouncedProofIsShown,
           NEW w \in Workers, ~AtW(w, "idle"), worker'[w].run = worker[w].run,
           \A v \in Workers \ {w} : worker'[v] = worker[v],
           NEW run, HandlerWrite(w, run)
    PROVE  Pointed' /\ AnnouncedProofIsShown'
<1>1. PICK x \in RunIds : x = worker[w].run
  BY HeldRun DEF IInv
<1>2. \A id \in RunIds : runs'[id] = runs[id] \/ (id = x /\ runs'[id] = run)
  BY <1>1 DEF HandlerWrite, Writes, IInv, RunsOK
<1>3. run.status = "COMPLETED" => run.receiptHash \in {NoHash, run.announced}
  <2>1. CASE run = MyRun(w)
    BY <1>1, <2>1 DEF AnnouncedProofIsShown, MyRun
  <2>2. CASE worker[w].pc = "measure" /\ run.status = MyRun(w).status
    BY <2>2 DEF Unended, OpenPcs, Ended
  <2>3. CASE /\ worker[w].pc = "prove" /\ run.receiptHash = MyRun(w).receiptHash
             /\ run.announced = worker[w].hash
    BY <2>3 DEF Pointed, PointedPcs
  <2> QED
    BY <2>1, <2>2, <2>3 DEF HandlerWrite, DocumentMove
<1>4. AnnouncedProofIsShown'
  BY <1>2, <1>3 DEF AnnouncedProofIsShown
<1>5. ASSUME worker'[w].pc \in PointedPcs
      PROVE  runs'[worker'[w].run].receiptHash \in {NoHash, worker'[w].hash}
  <2>1. runs'[x] = run
    BY <1>1, <1>5 DEF HandlerWrite, Writes, PointedPcs, OpenPcs, IInv, RunsOK
  <2>2. worker'[w].hash = worker[w].hash
    BY <1>5 DEF HandlerWrite, Points
  <2>3. run.receiptHash \in {NoHash, worker[w].hash}
    BY <1>5 DEF HandlerWrite, Points, Pointed
  <2> QED
    BY <1>1, <2>1, <2>2, <2>3
<1>6. ASSUME NEW v \in Workers \ {w}, worker'[v].pc \in PointedPcs
      PROVE  runs'[worker'[v].run].receiptHash \in {NoHash, worker'[v].hash}
  <2>1. worker'[v] = worker[v] /\ ~AtW(v, "idle")
    BY <1>6 DEF AtW, PointedPcs
  <2>2. worker[v].run \in RunIds /\ worker[v].run # x
    BY <1>1, <2>1, HeldRun DEF IInv, NoSharedRun
  <2>3. runs'[worker[v].run] = runs[worker[v].run]
    BY <1>2, <2>2
  <2> QED
    BY <1>6, <2>1, <2>3 DEF Pointed, MyRun
<1>7. Pointed'
  BY <1>5, <1>6 DEF Pointed, MyRun
<1> QED
  BY <1>4, <1>7

LEMMA AnnouncedStep == AnnouncedInv /\ [Next]_vars => AnnouncedInv'
<1> SUFFICES ASSUME AnnouncedInv, [Next]_vars PROVE AnnouncedInv'
  OBVIOUS
<1>1. ExclusiveInv' /\ IInv /\ NoSharedRun /\ Unended
  BY ExclusiveStep, SlotsDiffer DEF AnnouncedInv, ExclusiveInv
<1>2. CASE \A w \in Workers : ~WorkerStep(w)
  <2>1. \A id \in RunIds : \/ runs'[id] = runs[id]
                           \/ /\ runs'[id].status # "COMPLETED"
                              /\ runs'[id].receiptHash \in {NoHash, runs[id].receiptHash}
    BY <1>1, <1>2, OthersEndNothing
  <2>2. \A w \in Workers : worker'[w].pc \in PointedPcs => worker'[w] = worker[w]
    BY <1>1, <1>2, OthersMoveNoHandler DEF PointedPcs, OpenPcs
  <2> QED
    BY <1>1, <2>1, <2>2, AnnouncedFrame DEF AnnouncedInv
<1>3. ASSUME NEW w \in Workers, WorkerStep(w) PROVE AnnouncedInv'
  <2>1. CASE EndJob(w)
    <3>1. \A v \in Workers : worker'[v].pc \in PointedPcs => worker'[v] = worker[v]
      BY <1>1, <2>1 DEF EndJob, IdleWorker, PointedPcs, IInv, WorkersOK
    <3> QED
      BY <1>1, <2>1, <3>1, EndJobWrites, AnnouncedFrame DEF AnnouncedInv
  <2>2. CASE ~EndJob(w)
    <3>1. PICK run : HandlerWrite(w, run)
      BY <1>1, <1>3, <2>2, HandlerWrites
    <3>2. /\ ~AtW(w, "idle") /\ worker'[w].run = worker[w].run
          /\ \A v \in Workers \ {w} : worker'[v] = worker[v]
      BY <1>1, <1>3, <2>2, HandlerMoves DEF IInv
    <3> QED
      BY <1>1, <3>1, <3>2, AnnouncedHandler DEF AnnouncedInv
  <2> QED
    BY <2>1, <2>2
<1> QED
  BY <1>2, <1>3

(* As long as no lock is lost, a completed run shows the very receipt its  *)
(* completion announced, however many attempts stored others, unless a     *)
(* requeue dropped the pointer.                                            *)
THEOREM AnnouncementsAreShown ==
    ASSUME Budget["lockLoss"] = 0
    PROVE  Spec => []AnnouncedProofIsShown
<1>1. Init => AnnouncedInv
  BY ExclusiveInit
     DEF AnnouncedInv, Pointed, AnnouncedProofIsShown, Init, RunsInit, NoDocument,
         IdleWorker, PointedPcs
<1>2. AnnouncedInv => AnnouncedProofIsShown
  BY DEF AnnouncedInv
<1> QED
  BY <1>1, <1>2, AnnouncedStep, PTL DEF Spec
-----------------------------------------------------------------------------
(* The pipeline implements ProofLedger.  A step stores one receipt, or     *)
(* rewrites one document; a handler moves the pointer only while its run   *)
(* is not settled, which is what Unended says.                             *)

Stored == {h \in Hashes : receipts[h] # NoRun}
Shown == [id \in RunIds |-> runs[id].receiptHash]
Settled == {id \in RunIds : runs[id].status = "COMPLETED"}

LedgerStep == [Ledger!LedgerNext]_(Ledger!ledgerVars)

(* A step that writes neither collection is a stutter of the ledger. *)
LEMMA LedgerStutter ==
    ASSUME UNCHANGED <<runs, receipts>>
    PROVE  LedgerStep
BY DEF LedgerStep, Ledger!ledgerVars

(* Rewriting a document completes, disputes or reopens its run, or leaves  *)
(* the run as settled as it was; only an unsettled run gets another proof. *)
LEMMA LedgerWrite ==
    ASSUME RunsOK, NEW id \in RunIds, NEW run,
           runs' = [runs EXCEPT ![id] = run], UNCHANGED receipts,
           \/ run.receiptHash = runs[id].receiptHash
           \/ run.receiptHash = NoHash /\ run.status # "COMPLETED"
           \/ /\ run.receiptHash \in Stored
              /\ runs[id].status # "COMPLETED" /\ run.status # "COMPLETED"
    PROVE  LedgerStep
<1>1. Shown' = [Shown EXCEPT ![id] = run.receiptHash]
  BY DEF RunsOK, Shown
<1>2. Stored' = Stored
  BY DEF Stored
<1>3. Settled' = IF run.status = "COMPLETED" THEN Settled \cup {id} ELSE Settled \ {id}
  BY DEF RunsOK, Settled
<1>4. CASE run.receiptHash = runs[id].receiptHash
  <2>1. Shown' = Shown
    BY <1>1, <1>4 DEF Shown
  <2>2. Ledger!Complete(id) \/ Ledger!Dispute(id)
    BY <1>2, <1>3, <2>1 DEF Ledger!Complete, Ledger!Dispute, Stored, Shown, Settled
  <2> QED
    BY <2>2 DEF LedgerStep, Ledger!LedgerNext
<1>5. CASE run.receiptHash = NoHash /\ run.status # "COMPLETED"
  <2>1. Ledger!Reopen(id)
    BY <1>1, <1>2, <1>3, <1>5 DEF Ledger!Reopen, Stored, Shown, Settled
  <2> QED
    BY <2>1 DEF LedgerStep, Ledger!LedgerNext
<1>6. CASE /\ run.receiptHash \in Stored
           /\ runs[id].status # "COMPLETED" /\ run.status # "COMPLETED"
  <2>1. Settled' = Settled /\ id \notin Settled
    BY <1>3, <1>6 DEF Settled
  <2>2. Ledger!Publish(id, run.receiptHash)
    BY <1>1, <1>2, <1>6, <2>1 DEF Ledger!Publish, Stored, Shown, Settled
  <2>3. run.receiptHash \in Hashes
    BY <1>6 DEF Stored
  <2> QED
    BY <2>2, <2>3 DEF LedgerStep, Ledger!LedgerNext
<1> QED
  BY <1>4, <1>5, <1>6

(* A handler's step stores a receipt or writes its document. *)
LEMMA LedgerHandler ==
    ASSUME IInv, Unended, NEW w \in Workers, WorkerStep(w)
    PROVE  LedgerStep
<1>1. CASE EndJob(w)
  BY <1>1, EndJobWrites, LedgerStutter
<1>2. CASE SaveReceipt(w)
  <2>1. PICK h \in Hashes, id \in RunIds : h = worker[w].hash /\ id = worker[w].run
    BY <1>2, HeldRun DEF IInv, SaveReceipt, AtW, WorkersOK, HashOK
  <2>2. receipts' \in {receipts, SavedReceipt(h, id)} /\ UNCHANGED runs
    BY <1>2, <2>1 DEF SaveReceipt
  <2>3. CASE UNCHANGED receipts
    BY <2>2, <2>3, LedgerStutter
  <2>4. CASE receipts' = SavedReceipt(h, id)
    <3>1. Stored' = Stored \cup {h}
      BY <2>4, KeysAssumption DEF Stored, SavedReceipt, IInv, RunsOK
    <3>2. Ledger!Store(h)
      BY <2>2, <3>1 DEF Ledger!Store, Stored
    <3> QED
      BY <3>2 DEF LedgerStep, Ledger!LedgerNext
  <2> QED
    BY <2>2, <2>3, <2>4
<1>3. CASE ~EndJob(w) /\ ~SaveReceipt(w)
  <2>1. UNCHANGED receipts
    BY <1>3 DEF WorkerStep, FindRun, StartFork, AnnounceReplay, Compute, FinishReplay,
                MeasureRisk, StrategyEvent, PublishProof, RecordFailure
  <2>2. PICK run : HandlerWrite(w, run)
    BY <1>3, HandlerWrites
  <2>3. PICK id \in RunIds : id = worker[w].run
    BY <1>3, HandlerMoves, HeldRun DEF IInv
  <2>4. CASE UNCHANGED runs
    BY <2>1, <2>4, LedgerStutter
  <2>5. CASE runs' = [runs EXCEPT ![id] = run]
    <3>1. CASE run.receiptHash = runs[id].receiptHash
      BY <2>1, <2>5, <3>1, LedgerWrite DEF IInv
    <3>2. CASE /\ worker[w].pc = "measure" /\ run.status = MyRun(w).status
               /\ run.receiptHash = worker[w].hash
      <4>1. runs[id].status # "COMPLETED" /\ run.status # "COMPLETED"
        BY <2>3, <3>2 DEF Unended, OpenPcs, Ended, MyRun
      <4>2. run.receiptHash \in Stored
        BY <3>2 DEF IInv, WorkersOK, HashOK, Stored
      <4> QED
        BY <2>1, <2>5, <4>1, <4>2, LedgerWrite DEF IInv
    <3> QED
      BY <2>2, <2>3, <3>1, <3>2 DEF HandlerWrite, DocumentMove, MyRun
  <2> QED
    BY <2>2, <2>3, <2>4, <2>5 DEF HandlerWrite, Writes
<1> QED
  BY <1>1, <1>2, <1>3

(* Every step of the pipeline is a step of the ledger. *)
LEMMA LedgerSteps == IInv /\ Unended /\ [Next]_vars => LedgerStep
<1> SUFFICES ASSUME IInv, Unended, [Next]_vars PROVE LedgerStep
  OBVIOUS
<1>1. CASE \A w \in Workers : ~WorkerStep(w)
  <2>1. /\ UNCHANGED receipts
        /\ UNCHANGED runs \/ \E x \in RunIds : \E run : OtherWrite(x, run)
    BY <1>1, OthersWrite
  <2>2. CASE UNCHANGED runs
    BY <2>1, <2>2, LedgerStutter
  <2>3. ASSUME NEW x \in RunIds, NEW run, OtherWrite(x, run) PROVE LedgerStep
    BY <2>1, <2>3, LedgerWrite DEF OtherWrite, IInv
  <2> QED
    BY <2>1, <2>2, <2>3
<1> QED
  BY <1>1, LedgerHandler

(* As long as no lock is lost, receipts are stored for good, a run shows a *)
(* proof only once its receipt is stored, and the proof of a run that      *)
(* completed is final until the run is reopened: although two attempts of  *)
(* one run may store different receipts, and any process may die anywhere. *)
THEOREM LedgerImplemented ==
    ASSUME Budget["lockLoss"] = 0
    PROVE  Spec => ImplementsLedger
<1>1. Init => Ledger!LedgerInit
  BY KeysAssumption DEF Init, RunsInit, NoDocument, Ledger!LedgerInit
<1>2. ExclusiveInv /\ [Next]_vars => [Ledger!LedgerNext]_(Ledger!ledgerVars)
  BY LedgerSteps DEF LedgerStep, ExclusiveInv
<1> QED
  BY <1>1, <1>2, Exclusive, PTL DEF Spec, ImplementsLedger, Ledger!LedgerSpec
-----------------------------------------------------------------------------
(* The length of the queue.  Every producer that may still add a job was   *)
(* let in when the queue was below its cap, and adds one job at most.      *)

LiveKeys == {k \in Keys : Live(k)}
AdmittedPcs == {"getJob", "getState", "remove", "add"}
Admitted == {p \in Producers : producer[p].pc \in AdmittedPcs}

Room ==
    /\ IsFiniteSet(LiveKeys)
    /\ Cardinality(LiveKeys) + Cardinality(Admitted) < MaxInflight + Cardinality(Producers)

(* The admitted producers are finitely many, at most all of them. *)
LEMMA AdmittedFinite ==
    /\ IsFiniteSet(Producers) /\ Cardinality(Producers) \in Nat
    /\ IsFiniteSet(Admitted) /\ Cardinality(Admitted) \in Nat
    /\ Cardinality(Admitted) <= Cardinality(Producers)
<1>1. IsFiniteSet(Producers)
  BY PipelineAssumption
<1>2. Admitted \subseteq Producers
  BY DEF Admitted
<1> QED
  BY <1>1, <1>2, FS_Subset, FS_CardinalityType

(* Neither a job that ends nor a producer that leaves takes room. *)
LEMMA RoomShrinks ==
    ASSUME Room, LiveKeys' \subseteq LiveKeys, Admitted' \subseteq Admitted
    PROVE  Room'
<1>1. /\ IsFiniteSet(LiveKeys') /\ Cardinality(LiveKeys') <= Cardinality(LiveKeys)
      /\ Cardinality(Admitted') <= Cardinality(Admitted)
  BY AdmittedFinite, FS_Subset DEF Room
<1>2. /\ Cardinality(LiveKeys) \in Nat /\ Cardinality(LiveKeys') \in Nat
      /\ Cardinality(Admitted) \in Nat /\ Cardinality(Admitted') \in Nat
      /\ Cardinality(Producers) \in Nat /\ MaxInflight \in Nat
  BY <1>1, AdmittedFinite, FS_Subset, FS_CardinalityType, QueueAssumption DEF Room
<1> QED
  BY <1>1, <1>2 DEF Room

(* A job that moves was live before, or is not live after. *)
LEMMA LiveMoves ==
    ASSUME JobsOK, NEW k \in Keys, NEW x, job' = [job EXCEPT ![k] = x],
           Live(k) \/ x.state \notin LiveStates
    PROVE  LiveKeys' \subseteq LiveKeys
BY DEF JobsOK, LiveKeys, Live

(* Letting a producer in below the cap leaves room for all of them. *)
LEMMA CountRoom ==
    ASSUME Room, NEW p \in Producers, CountInflight(p), IInv
    PROVE  Room'
<1>1. LiveKeys' = LiveKeys
  BY DEF CountInflight, LiveKeys, Live
<1>2. CASE Inflight >= MaxInflight
  <2>1. Admitted' \subseteq Admitted
    BY <1>2 DEF CountInflight, DoneP, IdleProducer, Admitted, AdmittedPcs, IInv, ProducersOK
  <2> QED
    BY <1>1, <2>1, RoomShrinks
<1>3. CASE ~(Inflight >= MaxInflight)
  <2>1. Admitted' \subseteq Producers
    BY DEF Admitted
  <2>2. /\ Cardinality(LiveKeys) \in Nat /\ Cardinality(Producers) \in Nat
        /\ Cardinality(Admitted') \in Nat /\ Cardinality(Admitted') <= Cardinality(Producers)
        /\ MaxInflight \in Nat
    BY <2>1, AdmittedFinite, FS_Subset, FS_CardinalityType, QueueAssumption DEF Room
  <2>3. Cardinality(LiveKeys) < MaxInflight
    BY <1>3, <2>2 DEF Inflight, LiveKeys
  <2> QED
    BY <1>1, <2>2, <2>3 DEF Room
<1> QED
  BY <1>2, <1>3

(* Adding the job uses up the producer's admission. *)
LEMMA AddRoom ==
    ASSUME Room, NEW p \in Producers, AddJob(p), IInv
    PROVE  Room'
<1>1. PICK k \in Keys : k = producer[p].key
  BY ClaimedRun DEF AddJob, AtP, Names
<1>2. LiveKeys' \subseteq LiveKeys \cup {k}
  BY <1>1 DEF AddJob, Add, LiveKeys, Live, IInv, JobsOK
<1>3. p \in Admitted /\ Admitted' = Admitted \ {p}
  BY DEF AddJob, AtP, DoneP, IdleProducer, Admitted, AdmittedPcs, IInv, ProducersOK
<1>4. /\ IsFiniteSet(LiveKeys') /\ Cardinality(LiveKeys') <= Cardinality(LiveKeys) + 1
      /\ Cardinality(LiveKeys') \in Nat /\ Cardinality(LiveKeys) \in Nat
  <2>1. /\ IsFiniteSet(LiveKeys \cup {k})
        /\ Cardinality(LiveKeys \cup {k}) <= Cardinality(LiveKeys) + 1
        /\ Cardinality(LiveKeys) \in Nat
    <3>1. IsFiniteSet(LiveKeys) /\ Cardinality(LiveKeys) \in Nat
      BY FS_CardinalityType DEF Room
    <3>2. /\ IsFiniteSet(LiveKeys \cup {k})
          /\ Cardinality(LiveKeys \cup {k})
               = IF k \in LiveKeys THEN Cardinality(LiveKeys) ELSE Cardinality(LiveKeys) + 1
      BY <3>1, FS_AddElement
    <3> QED
      BY <3>1, <3>2
  <2>2. /\ IsFiniteSet(LiveKeys') /\ Cardinality(LiveKeys') <= Cardinality(LiveKeys \cup {k})
        /\ Cardinality(LiveKeys') \in Nat /\ Cardinality(LiveKeys \cup {k}) \in Nat
    BY <1>2, <2>1, FS_Subset, FS_CardinalityType
  <2> QED
    BY <2>1, <2>2
<1>5. Cardinality(Admitted') = Cardinality(Admitted) - 1
  BY <1>3, AdmittedFinite, FS_RemoveElement
<1>6. /\ Cardinality(Admitted) \in Nat /\ Cardinality(Producers) \in Nat /\ MaxInflight \in Nat
  BY AdmittedFinite, QueueAssumption
<1> QED
  BY <1>4, <1>5, <1>6 DEF Room

(* What producers do besides lets nobody in and adds nothing. *)
LEMMA ProducerRoom ==
    ASSUME Room, IInv, NEW p \in Producers,
           \/ AbandonRequest(p)
           \/ ProducerStep(p) /\ ~CountInflight(p) /\ ~AddJob(p)
           \/ \E k \in Keys, s \in BOOLEAN : Request(p, k, s)
    PROVE  Room'
<1>1. LiveKeys' \subseteq LiveKeys
  <2>1. CASE UNCHANGED job
    BY <2>1 DEF LiveKeys, Live
  <2>2. CASE RemoveJob(p) /\ ~UNCHANGED job
    <3>1. PICK k \in Keys : k = producer[p].key
      BY <2>2, ClaimedRun DEF RemoveJob, AtP, Names
    <3>2. PICK x : x = NoJob
      OBVIOUS
    <3>3. job' = [job EXCEPT ![k] = x] /\ x.state = "none"
      BY <2>2, <3>1, <3>2 DEF RemoveJob, Remove, NoJob
    <3> QED
      BY <3>3, LiveMoves DEF LiveStates, IInv
  <2> QED
    BY <2>1, <2>2 DEF AbandonRequest, ProducerStep, ClaimFind, ClaimInsert, Requeue,
                      GetJob, GetState, Request
<1>2. ASSUME NEW q \in Producers, producer'[q].pc \in AdmittedPcs
      PROVE  producer[q].pc \in AdmittedPcs
  <2>1. CASE q # p
    <3>1. producer'[q] = producer[q]
      BY <2>1 DEF AbandonRequest, ProducerStep, ClaimFind, ClaimInsert, Requeue, GetJob,
                  GetState, RemoveJob, Request, GoP, DoneP, IInv, ProducersOK
    <3> QED
      BY <1>2, <3>1
  <2>2. CASE q = p
    <3>1. CASE GetJob(p) \/ GetState(p) \/ RemoveJob(p)
      BY <2>2, <3>1 DEF GetJob, GetState, RemoveJob, AtP, AdmittedPcs
    <3>2. CASE DoneP(p)
      BY <1>2, <2>2, <3>2 DEF DoneP, IdleProducer, AdmittedPcs, IInv, ProducersOK
    <3>3. producer[p] \in Producer /\ producer \in [Producers -> Producer]
      BY DEF IInv, ProducersOK
    <3>4. CASE ClaimFind(p) \/ ClaimInsert(p) \/ Requeue(p)
      <4>1. DoneP(p) \/ producer'[p].pc \in {"insert", "requeue", "count", "find"}
        BY <3>3, <3>4 DEF ClaimFind, ClaimInsert, Requeue, GoP, Producer
      <4> QED
        BY <1>2, <2>2, <3>2, <4>1 DEF AdmittedPcs
    <3>5. CASE \E k \in Keys, s \in BOOLEAN : Request(p, k, s)
      BY <1>2, <2>2, <3>3, <3>5 DEF Request, AdmittedPcs
    <3> QED
      BY <3>1, <3>2, <3>4, <3>5 DEF AbandonRequest, ProducerStep
  <2> QED
    BY <2>1, <2>2
<1>3. Admitted' \subseteq Admitted
  BY <1>2 DEF Admitted
<1> QED
  BY <1>1, <1>3, RoomShrinks

(* Workers, timers, crashes and lost locks move live jobs only. *)
LEMMA QueueRoom ==
    ASSUME Room, IInv, UNCHANGED producer, NEW k \in Keys,
           \/ PromoteDelayed(k) \/ ReclaimStalled(k)
           \/ \E w \in Workers : \/ TakeJob(w, k)
                                 \/ worker[w].key = k /\ (EndJob(w) \/ LoseLock(w))
    PROVE  Room'
<1>1. job[k].owner # NoWorker => Live(k)
  BY DEF IInv, JobsOK, Live, LiveStates
<1>2. UNCHANGED job \/ Live(k)
  BY <1>1, QueueAssumption
     DEF PromoteDelayed, ReclaimStalled, TakeJob, Lock, EndJob, LoseLock, Settle, Promote,
         Live, LiveStates
<1>3. \A j \in Keys \ {k} : job'[j] = job[j]
  BY DEF PromoteDelayed, ReclaimStalled, TakeJob, Lock, EndJob, LoseLock, Settle, Promote,
         Reclaim, IInv, JobsOK
<1>4. LiveKeys' \subseteq LiveKeys
  BY <1>2, <1>3 DEF LiveKeys, Live
<1>5. Admitted' = Admitted
  BY DEF Admitted
<1> QED
  BY <1>4, <1>5, RoomShrinks

LEMMA RoomInit == Init => Room
<1> SUFFICES ASSUME Init PROVE Room
  OBVIOUS
<1>1. LiveKeys = {} /\ Admitted = {}
  BY DEF Init, QueueInit, NoJob, LiveKeys, Live, LiveStates, IdleProducer, Admitted, AdmittedPcs
<1> QED
  BY <1>1, AdmittedFinite, FS_EmptySet, QueueAssumption DEF Room

LEMMA RoomStep == IInv /\ Room /\ [Next]_vars => Room'
<1> SUFFICES ASSUME IInv, Room, [Next]_vars PROVE Room'
  OBVIOUS
<1>1. CASE UNCHANGED <<job, producer>>
  <2>1. LiveKeys' = LiveKeys /\ Admitted' = Admitted
    BY <1>1 DEF LiveKeys, Live, Admitted
  <2> QED
    BY <2>1, RoomShrinks
<1>2. ASSUME NEW p \in Producers, NEW k \in Keys, NEW s \in StrategyFlags,
             CreateImpact(p, k, s)
      PROVE  Room'
  BY <1>2, ProducerRoom, PipelineAssumption DEF CreateImpact
<1>3. ASSUME NEW p \in Producers, ProducerStep(p) \/ AbandonRequest(p)
      PROVE  Room'
  BY <1>3, ProducerRoom, CountRoom, AddRoom
<1>4. ASSUME NEW w \in Workers, WorkerStep(w) \/ LoseLock(w)
      PROVE  Room'
  <2>1. CASE EndJob(w) \/ LoseLock(w)
    <3>1. worker[w].key \in Keys /\ UNCHANGED producer
      BY <2>1, HeldRun DEF EndJob, LoseLock, AtW, IInv
    <3> QED
      BY <2>1, <3>1, QueueRoom
  <2>2. CASE WorkerStep(w) /\ ~EndJob(w)
    BY <1>1, <2>2
       DEF WorkerStep, FindRun, StartFork, AnnounceReplay, Compute, SaveReceipt,
           FinishReplay, MeasureRisk, StrategyEvent, PublishProof, RecordFailure
  <2> QED
    BY <1>4, <2>1, <2>2
<1>5. ASSUME NEW k \in Keys,
             \/ PromoteDelayed(k) \/ ReclaimStalled(k)
             \/ \E w \in Workers : TakeJob(w, k)
      PROVE  Room'
  <2>1. UNCHANGED producer
    BY <1>5 DEF PromoteDelayed, ReclaimStalled, TakeJob
  <2> QED
    BY <1>5, <2>1, QueueRoom
<1>6. ASSUME NEW p \in Producers, NEW k \in Keys, RerunImpact(p, k)
      PROVE  Room'
  <2>1. PICK s \in BOOLEAN : Request(p, k, s)
    BY <1>6 DEF RerunImpact, IInv, RunsOK, Run
  <2> QED
    BY <2>1, ProducerRoom
<1> QED
  BY <1>1, <1>2, <1>3, <1>4, <1>5, <1>6
     DEF Next, vars, CrashSimulator, FindOpenRuns, MarkRun, AbandonMarking

(* Racing producers overshoot the queue's cap by one job each but one, and *)
(* no retry, stall, crash or lost lock pushes it further: for any number   *)
(* of keys, finite or not.                                                 *)
THEOREM InflightIsBounded == Spec => []InflightBound
<1>1. Room => InflightBound
  <2> SUFFICES ASSUME Room PROVE InflightBound
    OBVIOUS
  <2>1. /\ Cardinality(LiveKeys) \in Nat /\ Cardinality(Admitted) \in Nat
        /\ Cardinality(Producers) \in Nat /\ MaxInflight \in Nat
    BY AdmittedFinite, FS_CardinalityType, QueueAssumption DEF Room
  <2>2. Inflight = Cardinality(LiveKeys)
    BY DEF Inflight, LiveKeys
  <2> QED
    BY <2>1, <2>2 DEF Room, InflightBound
<1> QED
  BY <1>1, RoomInit, RoomStep, Inductive, PTL DEF Spec
=============================================================================
