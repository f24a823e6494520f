# Fork: a TLA+ verification of the pre-execution risk agent

Fork watches governance of the Moonwell lending protocol and tells a wallet, before a
change is executed, what it will do to the wallet's position: it replays the change on
a local fork of Base, measures the risk before and after, searches for a rescue, and
stores a receipt that anyone can verify. This directory models the program: what its
processes write, in which order, and what can go wrong between two of their steps.

`PROJECT.json` is the machine-readable side of this file: components, runs, mutants, the
map from definitions to source lines, hazards, findings and theorems. Paths below are
relative to the repository.

## 1. Inventory

### Processes and what they share

```
 browser (apps/web)
   | HTTP, server-sent events
 API (apps/api, NestJS) ------------.------------> MongoDB: simulationRuns, receipts,
   | queue.add / getJob / remove     \             wallets, exposures, agentRuns,
 Redis: BullMQ queue "impact"         \            authNonces, policies, attempts
   | jobs, locks, retries              \             ^   ^
 simulator (apps/simulator) ------------`------------'   |
   | spawns                                              |
 anvil (a fork per replay, comparison or dry run;        |
   the API spawns its own, on the same ports)           |
                                                         |
 indexer (apps/indexer): a monitor tick on setInterval --'
   | governance-store.json (records, cursors), read by the API per request
 Ethereum RPC (governor), Base RPC (markets)
```

No two processes call each other. Everything they agree on is a MongoDB document, which
is updated atomically one at a time and never conditionally on a status that was read
before; a BullMQ job, named by the idempotency key of its run; or the indexer's JSON file.

### Components

| Component (source) | State | Operations | What makes it correct |
| --- | --- | --- | --- |
| Run store (`packages/persistence/src/runs.ts`) | run documents (status, events, proof pointer); receipts | claim, requeue, append an event with a patch, save a receipt | a proof pointer leads to a receipt of the run's wallet; a completed run shows the proof its completion announced (one document per key is the unique index's doing, an immutable receipt that of `$setOnInsert`) |
| Impact queue (BullMQ, as used by API, indexer, simulator) | one job per key: state, attempts, lock | add, get, remove, lock, settle, retry, stall | a job somebody waits for is served; jobs of ended runs drain |
| Simulation requests (`apps/api/src/simulations`, `apps/indexer/src/enqueue.ts`) | none of its own | create, rerun, resume, ensure queued | the queue stays within its cap as far as racing producers allow |
| Simulator worker (`apps/simulator/src/process-impact.ts`) | the handler in each slot | the ten writes of an attempt, the catch block | a RUNNING run settles; an ended run is not taken up by a repeated attempt; no two slots in one run |
| Marking (`apps/indexer/src/stale.ts`) | none | read open runs, write each STALE or CANCELLED | an ended run stays ended |
| Governance status (`packages/governance-core`, `normalize.ts`) | none | map, combine, decide | used by the monitor |
| Governance monitor (`apps/indexer/src/monitor.ts`, `packages/protocol-moonwell/src/governance`) | indexed changes and cursors; exposures | a tick: sync, two refreshes, marking, exposure, enqueue | the store converges to the chains; deaths and reorgs reach open runs; quiet chains disturb nothing |
| Event stream (`simulations.controller.ts`, `use-simulation-stream.ts`, `use-api.ts`) | cursor of each connection; the page's copy of the run | connect, poll, replay, end; apply, refetch | nothing is skipped; the copy converges; streams end |
| Wallet authentication (`apps/api/src/auth`, `prove-ownership.tsx`) | nonces; the cookie, and what the pages remember of it | challenge, verify, session, logout | an accepted session was earned by a signature; a nonce gives one session |
| Execution attempts (`apps/api/src/execution`, `execution-review.tsx`) | attempts; the page's copy of one | prepare, register a transaction, judge; sign, refetch | the status is explained by the receipts; VERIFIED is never read off receipts alone; the page settles on what is stored |
| Wallet risk policy (`apps/api/src/wallets/policy.controller.ts`) | versions of a policy | put | at most one version is in force, the newest |
| Strategy search (`packages/protocol-moonwell/src/strategy`, `packages/strategy-engine`, `packages/risk-engine`) | a comparison in progress on a fork | feasibility, branches, bisection, verdicts | an amount said to be verified leaves no shortfall and is the least; the other verdicts are true |
| Replay and receipt (`replay.ts`, `packages/simulation-core/src/receipt.ts`) | a replay in progress on a fork | apply the change, measure, judge | a receipt agrees with the strategies and with a second replay |
| Anvil processes (`packages/simulation-core/src/anvil.ts`, `pinned-fork.ts`) | child processes, ports, `liveAnvils` | start, health, stop, stop all | no two sessions on one fork; no process left behind |
| Agent (`packages/agent-core`) | step, refusals, cached evidence | ask, authorise, call a tool, fall back | only verified strategies are told; a fork for each kind of evidence, and another only for a refused call |

### What is hard here

* **Interleaving.** Every `await` is a point where another process may write the same
  document. No write looks at the status again, so every order of the writes of worker,
  indexer and request is a real one. Ticks of the indexer overlap (`main.ts:36`), and so
  do polls of one stream (`simulations.controller.ts:107`).
* **Partial failure.** A request claims a run and is refused by a full queue; a tick
  fails after the statuses were stored and before the runs were marked; a write rejects
  though it was applied.
* **Crash and restart.** BullMQ hands a job out again on a half-done document; the
  indexer's file may be cut off and is then read as empty.
* **Processes of the operating system.** A fork is a child process on a port found free a
  moment before; it may die, answer late, or be told to end while a session still works on
  it, and the port then belongs to whoever comes next. Sessions of three processes (job,
  agent, API) take from one range of ports.
* **Time.** Nonces and sessions expire between two calls of one request's chain, the
  wallet may be switched between a challenge and its signature, and a page does not learn
  that its session has ended.
* **Stale reads.** The state of a job is read and acted on two calls later; the page's
  fetches answer in any order and overwrite what the stream brought.

The list `hazards` in `PROJECT.json` has each of these at its line with the properties
that would notice it going wrong.

## 2. Modules

| Module | Models | Role |
| --- | --- | --- |
| `SimulationRuns` | the documents and their single-document updates | state shared by all writers |
| `ImpactQueue` | BullMQ as `src/` relies on it (external), over `SimulationRuns` | contract of the queue |
| `ImpactPipeline` | producers, worker slots, markers over both | the core of the system |
| `ProofLedger` | what the pipeline promises about proofs | abstract specification |
| `ImpactPipeline_proofs` | | theorems about `ImpactPipeline` |
| `GovernanceStatus` | the pure rules for kinds, markets and statuses | operators |
| `GovernanceMonitor` | the indexer's tick, the chains, the store | second core component |
| `GovernanceMonitor_proofs` | | theorems about `GovernanceMonitor` |
| `EventStream` | the stream handler and the page that follows it | |
| `EventStream_proofs` | | theorems about `EventStream` |
| `RiskPolicies` | the PUT of a wallet's policy, call by call | state read by the attempts |
| `WalletSessions` | proof of ownership, call by call, and the session it gives; the monitoring toggle | state read by the attempts |
| `ExecutionAttempts` | prepare and registerTx, the page, the wallet's transactions, over `RiskPolicies` and `WalletSessions` | third core component |
| `ExecutionAttempts_proofs` | | theorems about `ExecutionAttempts`, `WalletSessions` and `RiskPolicies` |
| `AmountSearch` | the bisection, a record per search | operators |
| `RescuePlans` | holdings, feasibility, plans, policy, receipts; the contracts (external) | operators |
| `AnvilForks` | the child processes and those who open them | contract of the forks |
| `StrategySearch` | the work of a session on its fork, over `AnvilForks`, `RescuePlans`, `AmountSearch` | |
| `AgentLoop` | the agent, over `StrategySearch` | |
| `RescueDesk` | the job, its agent, the API's dry run and the shutdown, composed | fourth core component |
| `AmountSearch_proofs`, `AnvilForks_proofs`, `RescueDesk_proofs` | | theorems about these |
| `RescueVerdicts_proofs` | over `RescueDesk_proofs` | theorems about the verdicts and receipts of the desk |
| `MC...` | instances for TLC: budgets, symmetry | |

How the state corresponds to the code:

* **`ImpactPipeline`.** `runs[id]` is a document of `simulationRuns` reduced to `key`,
  `status`, `strategies`, the proof pointer `receiptHash`, and `announced`, the hash in the
  payload of its last `PROOF_READY`. `receipts[h]` is the run whose body was stored under hash
  `h`. A hash belongs to one wallet (`HashWallet`), but a wallet has several: the hash covers the
  exposure, which a multicall with `allowFailure` reads, the policy of the environment and the
  engine's version (receipt.ts:131), so each attempt's replay yields any of its wallet's hashes
  and keeps it in `worker[w].hash`. A rerun passes on the earlier run's strategies flag.
  `job[k]` is the BullMQ job named by key `k`. Each producer, worker slot and marker is a
  record with a program counter that names the next call it awaits, and what it read
  before: `ClaimFind`/`ClaimInsert`/`Requeue` are `claimSimulationRun` and
  `requeueSimulationRun`, `CountInflight`/`GetJob`/`GetState`/`RemoveJob`/`AddJob` are
  `ensureQueued`, one worker action per `appendRunEvent`/`saveReceipt` of
  `processImpactSimulation`. A fault rejects any of the worker's writes with or without
  the write having been applied; a crash clears every slot; a lost lock lets BullMQ hand
  out a job whose handler is still running.
* **`GovernanceMonitor`.** A tick is a record whose `pc` names the phase and whose other
  fields are the phase's local variables. The store is a variable because memory and file
  are written in the same turn. The reads of one phase are made at one safe block and
  are one snapshot. Marking, which `ImpactPipeline` does write by write, is one step.
  A proposal carries calls, some of them Wormhole messages for Base or elsewhere, readable
  or not; its kind, its market and whether it is watched are decoded from them.
  There is one wallet: at the start it is not monitored or holds collateral, and it may come to
  hold nothing, collateral, a debt or an idle asset at any time, or be switched on and off;
  of any market the underlying or the snapshot may be unread when the tick measures what it is
  exposed to. All infrastructure is configured. `chain[c]` gives each
  block the number of the fork that made it, so a hash is a height and a fork.
* **`EventStream`.** A read of the document is its length and status, because the event
  list only grows. `conn` is the request handler (cursor, polls under way), `wire` the
  response body not yet read, `view` the page's query cache. The writers of the document
  are the worker, marker and request of `ImpactPipeline`, reduced to what a stream can
  tell apart, again with a read before the write.
* **`ExecutionAttempts`.** `attempts[id]` is a document: `hashes` and `results` are the arrays
  `txHashes` and `callReceipts`. `register[h]` is the request that registers transaction `h`,
  with the document as it read it: `GetAttempt` is everything up to the last guard,
  `GetReceipt` the wait for the receipt, `ReadRisk` the judgement, and `WriteAttempt` the
  update, which sets what was read before the waits. `page` is the execution page, `page.seen`
  its copy of the attempt, from which it decides which calls it offers. Its buttons do not
  disable each other, so a prepare and a registration overlap freely, and a prepare that fails
  leaves the earlier plan on the page. The owner may change a transaction in the wallet before
  it is sent, which nobody compares with the plan: such a transaction is registered like any
  other and improves nothing (`txs[h].same` tells). Risk is one number, liquidity minus
  shortfall; the last call of a plan improves it, the others are approvals. `gaveUp` remembers
  whether the page ever abandoned a transaction it had signed. `proof` and `dead` stand for
  what the pipeline and the monitor store about the run and its change; `prepare` reads the
  run and its strategies in two calls. Every request carries the cookie the browser had when
  it was sent, and is refused where the code calls `assertOwns`.
* **`WalletSessions`.** `nonces[n]` is a challenge in the database or in memory, `verify[v]`
  a request of `verify-signature` with a program counter between the read of the nonce, its
  marking and the check of the signature; in memory the first two are one step. A signature
  is the wallet that signed and the message it signed. `clock` advances on its own up to a
  bound, and expiry is a comparison with it. `earned` and `overlapped` are history.
* **`AnvilForks`.** `anvil[c]` is a child process: booting, then serving on its port, then
  gone; `term` says it was signalled, `raced` and `crashed` are history. `fork[s]` is what
  the session `s` awaits in `startAnvilFork` or `stopAnvil`. A port is free if nobody
  listens on it, which a child that still boots does not do. Whoever serves on a session's
  port answers it.
* **`StrategySearch`.** `work[s]` is the function a session is in, `stage` the next call to
  its fork; a branch is snapshot, calls, change, measurement and revert. `node[c]` is what
  the fork `c` holds for the wallet, and its snapshots. `mixed` are the sessions that met on
  one fork. The order of the markets, prices, factors, limits and holdings are small
  numbers, and the outcome of every call is computed from them. Positions and listings are two
  multicalls, of which each may lose other markets (`missing`). A call whose answer is lost may
  have been applied. A receipt remembers whether all markets were read (`complete`).
* **`AgentLoop`.** `agent` is the loop of `runAgent`: `ask` before a completion, `call` with
  the tool calls still to do, `wait` while a tool has a fork open. What the model says is a
  member of `setting.replies`, a set of lists of tools. `agent.forks` counts
  every fork the agent asked for, the ones that failed too, and a trace that cannot be written
  ends the run (`TraceFails`).
* **`RescueDesk`.** `desk` holds where the job and the API's request are. The agent is started
  before the comparison and not awaited (`process-impact.ts`), so it and the job have forks
  open at once. `setting` is the wallet, the markets, the policies and the replies, and never
  changes; `left` is how often each fault may still happen.
* **`RiskPolicies`.** `policies[v]` is version `v` of one wallet's policy, `put[p]` a
  request between two of its three calls; the unique index on wallet and version is the
  guard of `CreatePolicy`.

## 3. Runs

TLC explores every run completely. The environment is bounded by a *budget*: how many
requests, marking passes, faults, crashes, lost locks and so on may happen in a
behaviour, at any time. Identifiers that play the same part are symmetric (never in a
run with a liveness property).

| Run | Instance | Question | Properties |
| --- | --- | --- | --- |
| `pipeline_safety` | a key and its rerun, 2 hashes, 2 producers, 2 slots, 1 marker; 2 requests, 1 marking, 1 faulty write, 1 lost lock; strategies and agent on | do documents and receipts stay consistent in every order of writes? | `TypeOK`, `ProofRetrievable` |
| `pipeline_exclusive` | 3 keys (one the worker accepts), 2 producers, 2 slots, 1 marker, a cap of 1; 3 requests, 1 marking, 1 replay error, 1 failing request, 1 crash; no lost lock | is a run processed by one slot at a time and not again once it has ended, and how far do racing producers exceed the cap? | `NoSharedRun`, `InflightBound`, `EndedRunStaysEnded` |
| `pipeline_progress` | 2 keys (one whose payload is refused on every attempt), 2 hashes, 2 producers, 1 slot, 2 attempts; 2 requests, 1 replay error, 2 faulty writes, 1 crash; fair | does everything that was started end, and does a run show the proof it announced, whatever its attempts measured? | `AnnouncedProofIsShown`, `RunningSettles`, `JobsDrain`, `ImplementsLedger` |
| `monitor_ticks` | 2 proposals (a collateral factor change; another, with a message nobody can read and one for elsewhere), 2 overlapping ticks, seven scenarios; fair | does the store follow the chains, and do runs and wallets hear of what matters? | `MonitorTypeOK`, `NoFalseReorg`, `QuietChainsMarkNothing`, `Converges`, `TransitionsReachRuns`, `ReorgReachesRuns`, `ExposedWalletGetsRun` |
| `stream_follow` | a log of up to 5 events, overlapping polls, cut and refused connections, failing polls and fetches, in six scenarios; fair | does a page that follows a run end up with what is stored? | `StreamTypeOK`, `NothingSkipped`, `ViewConverges`, `StreamsEnd` |
| `execution_register` | plans of 2 calls, 2 attempts, 3 transactions, 2 policy requests at once; 2 wallets, 2 nonces that last 1 tick, 2 verify requests at once, sessions that last 2 ticks, a clock up to 3; fifteen scenarios, in six of which the user proves ownership first; fair | do attempts say what happened on chain, in every order of registrations, is the policy in force the newest, and is everything that needs a session behind a signature? | `ApiTypeOK`, `NewestPolicyInForce`, `StatusExplained`, `VerifiedMeansDone`, `SessionsAreEarned`, `RegistrationsLast`, `PageSettles` |
| `rescue_desk` | 2 markets, 2 ports, 3 children, budgets of 2, 3 and 1 tests, 49 settings of wallet, markets, policy and replies, each with at most one fault of a kind; fair | are verdicts true whatever fails, are forks kept apart and stopped, does everything end? | `RescueTypeOK`, `NoForkLeftBehind`, `ForeignForkIsExplained`, `VerifiedIsSolvent`, `VerifiedIsLeast`, `OtherVerdictsAreTrue`, `BranchesRunAsPlanned`, `ReceiptsAgree`, `AgentTellsWhatItVerified`, `EverythingEnds`, `UsesForksAsOffered` |
| `refute_cancellation` | 1 key, 1 request, 1 marking | is a run cancelled when its source changes? **no** | `StopsWhenSourceChanges` |
| `refute_proof` | 1 key, 2 requests, 1 marking | does a COMPLETED run have a proof? **no** | `CompletedHasProof` |
| `refute_start` | 1 key, 2 requests, 1 replay error; fair | does a QUEUED run start? **no** | `QueuedRunsStart` |
| `refute_reorg` | 1 proposal, 1 reorg; fair | does monitoring survive a reorg? **no** | `ReorgIsSurvived` |
| `refute_transition` | 1 proposal, 1 failed tick; fair | are runs cancelled although a tick fails? **no** | `DeathReachesRuns` |

**Why the bounds are enough.** The hazards of the pipeline are races of two or three writers
on one document, so two producers, two slots and one marker, each able to act at every step of
the others, show every pair and the triple of different roles. A third request is needed only
where a job has to be in the way of two others (`pipeline_exclusive`). `pipeline_progress` has
one slot, because slots meet only in one run, which without lost locks they never do
(`NoSharedRun`). Its failures suffice to use up both attempts of a job, the ones of the
refused payload always do; then a run may stay RUNNING, which `RunningSettles` excepts: a
failed write before the `try` (`process-impact.ts:71`) is recorded nowhere. It has no marker:
marks beside changing hashes, crashes and failures are left to the theorems
`AnnouncementsAreShown` and `LedgerImplemented`. The theorems of section 5 remove the bounds
for the safety properties. In the monitor every property relates one change to one or two
ticks; two proposals make the sync's window (the newest ones) differ from the records the
refresh visits; the scenarios combine the events whose interplay matters and keep the product
small. The stream needs a log long enough for a start, a measure, a trace and an end. Two
calls are the least that can be registered out of order, and a third transaction is what a
call signed twice takes; a stale policy request needs two others that complete while it waits.
A session of two ticks outlives a nonce and ends within the clock; two nonces and two requests
show a challenge repeated and a request resent. In `rescue_desk` the settings cover a wallet
that needs no rescue, one that a repayment or a collateral saves, one that neither does, one
without debt, one with two debts and idle collateral, and for each every goal of a policy, a
budget that suffices and one that does not, and a market that is capped or closed. Two ports
and three children let two sessions start at once, share a port, and find none left; the crowd
of job and agent, or job and API, is explored with one crash, one slow start, or one SIGTERM
each. Deadlock is not checked: a system whose requests are spent rests.

**Fairness.** Weak fairness of every step of a process that is under way: a call returns
or rejects, a timer keeps firing, BullMQ polls its queue, promotes delayed jobs and
reclaims stalled ones (`main.ts` starts a `Worker`, which does all three), the browser
reconnects. No fairness for requests, marking passes, chains, faults, or wallets. For
several slots, fairness is per slot: a slot that is idle while a job waits takes it. In
`rescue_desk` weak fairness is asked of all steps of the processes together and of all steps
of their children together, the weakest that lets anything end: nothing is assumed of which
session is served first. A child that ignores SIGTERM gets a SIGKILL, so a child that was
told to end does.

**Disagreements with the documentation** that the refuting runs show are listed as `findings`,
with the lines they contradict. Others were met while modelling and have no run of their own:
the cap of the queue is soft (`docs/KNOWN_LIMITATIONS.md:33` calls it hard; `InflightBound`
shows how far it is exceeded); a retryable failure is not retried, because FAILED is written
before the error is rethrown and the next attempt returns at once (`process-impact.ts:226`;
`docs/PRD.md:389`); a payload the worker refuses is retried three times and its run never
leaves QUEUED (`docs/PRD.md:390`); a simulator without `BASE_RPC_URL` leaves the run RUNNING
(`process-impact.ts:76`); an executed change without Base calls stays DESTINATION_PENDING
(`refresh.ts:37`); a reorg between the comparison of the cursor and the new anchor is not seen
(`sync.ts:95`); an exposure is stored before the run is enqueued, so a failure in between
loses the run (`monitor.ts:106`), and `ExposedWalletGetsRun` says nothing of a wallet to which
that happened; a page whose first fetch is overtaken by the stream may lack an event of a run
that ends STALE or CANCELLED, and a page that closed its stream does not see a FAILED run
being requeued. In the execution API, a hash is stored only after `waitForTransactionReceipt`
(`execution.service.ts:248`), so a timeout loses it, and the page, which does not refresh its
copy from the answer either, offers the call again: one call of a plan may run twice (`Sign`
allows it; `VerifiedMeansDone` asks for at least one success per call). The API checks that a
registered transaction is the wallet's and mined, not that it is the plan's call
(`execution.service.ts:218`): `VerifiedMeansDone` speaks of a transaction sent for each call,
which the owner may have changed, and of the risk measured after. Two registrations that
overlap after a lost connection may put an attempt back from VERIFIED to SUBMITTED or FAILED,
which the guard at `execution.service.ts:230` means to exclude; `RegistrationsLast` therefore
speaks of pages that gave nothing up. A policy with a buffer always ends in MISMATCH, since no
buffer is derived for the comparison (`verify-state.ts:25`; `docs/KNOWN_LIMITATIONS.md:12`
says it fails closed); a wallet that is worse off but without shortfall is VERIFIED
(`verify-state.ts:40`); EXPIRED and PARTIAL (`docs/TECHNICAL_SPECIFICATION.md:586`) are never
stored. Two policy requests that race, or a crash between the two writes, may leave no active
policy, after which every later request asks for version 1 and fails on the index
(`policy.controller.ts:68`).

Of the forks: a port is taken when the child listens, not when it is found free, so two
sessions that start at once may share one, and one of them may verify its strategies on the
fork of the other (`anvil.ts:71`; `docs/PRD.md:302` speaks of isolated forks);
`VerifiedIsSolvent` and its neighbours therefore speak of sessions that shared none, and
`ForeignForkIsExplained` says when that is. The agent is not awaited at shutdown, so the fork
it is opening is left behind (`docs/RELEASE_GATE.md:97` reports none). The dry run of the API
spawns Anvil (`execution.service.ts:312`), which `docs/TECHNICAL_SPECIFICATION.md:438` leaves
to the simulator. A child that a signal has ended has no exit code: its start is waited for
until the timeout, and its stop for two seconds (`anvil.ts:119`, `anvil.ts:168`). The agent
compares under a policy without buffer, the job under the buffer of the environment, and
neither under the wallet's registered policy. The receipt's risk has no derived buffer, so with a
buffer its policy always fails. The refresh and the replay look at the first factor call of
a proposal only, the exposure at all. A repeated refused tool call is meant to be blocked
(`loop.ts:149`, `docs/TECHNICAL_SPECIFICATION.md:660`), but the fingerprint of parsed arguments is
compared with that of raw ones and never matches; the budget of refusals ends the run instead.

Of the sessions: a nonce of the database is read, then marked, without looking at whether the
mark changed anything, so two overlapping requests with one signature get a session each
(`auth.service.ts:195`; the test that a signature is accepted once uses the memory);
`NonceGivesOneSession` excepts these. A refused refetch
leaves the page with the session it remembers, so after an expiry or a logout elsewhere it
says that ownership is proved, offers what the API refuses, and no new proof, until it is loaded
again (`prove-ownership.tsx:40`). If the session ends between signing and registering, the
hash is refused and the page offers the call again. `prepare` may read strategies that an
earlier attempt of the run appended (`simulations.service.ts:219`).

## 4. Plan

The order is by importance; each step adds a module, its runs, mutants and map entries.

1. *Done:* `SimulationRuns`, `ImpactQueue`, `ImpactPipeline`, `ProofLedger` and their
   proofs; `GovernanceStatus`, `GovernanceMonitor`; `EventStream`; `RiskPolicies` with its
   proof and `ExecutionAttempts`.
2. *Done:* `AmountSearch` with its proof; `AnvilForks`, the contract of the forks, with its
   proof; `RescuePlans`, `StrategySearch`, `AgentLoop` and `RescueDesk`, which is proved to use
   the forks as the contract offers; `WalletSessions` under `ExecutionAttempts`.
3. *Done:* theorems about the safety of pipeline, monitor, stream, attempts and sessions, and
   of the rescue desk, for every value of their constants: every safety property of section 3
   is a theorem.
4. An abstract specification of an attempt (a one-way life cycle per transaction), which
   `ExecutionAttempts` implements for pages that give nothing up.
5. The agent's report, its storage and its place in the run's log; the rate limiter; the
   retry of RPC calls.

## 5. Proofs

`ImpactPipeline_proofs` proves, for every set of keys, runs, producers, workers and
markers, every cap, every number of attempts and every budget:

| Theorem | Statement |
| --- | --- |
| `Inductive` | `Spec => []IInv` |
| `TypeCorrect` | `Spec => []TypeOK` |
| `ProofsAreRetrievable` | `Spec => []ProofRetrievable` |
| `InflightIsBounded` | `Spec => []InflightBound` |
| `Exclusive` | `Spec => []ExclusiveInv`, if no lock is lost |
| `SlotsAreExclusive` | `Spec => []NoSharedRun`, if no lock is lost |
| `EndedStays` | `Spec => EndedRunStaysEnded`, if no lock is lost |
| `AnnouncementsAreShown` | `Spec => []AnnouncedProofIsShown`, if no lock is lost |
| `LedgerImplemented` | `Spec => Ledger!LedgerSpec`, if no lock is lost: the pipeline implements `ProofLedger` |

The last five assume `Budget["lockLoss"] = 0`, as `pipeline_exclusive` and `pipeline_progress`
do: with a lost lock BullMQ hands out a job whose handler runs on, and none of the five is
true. Crashes, stalls, retries, removed jobs and rejected writes are not limited.

`GovernanceMonitor_proofs` proves, for every number of proposals, calls and overlapping ticks,
every set of scenarios and every budget:

| Theorem | Statement |
| --- | --- |
| `MonitorInductive` | `Spec => [](TypeInv /\ ChainsTrusted /\ QuietInv)` |
| `MonitorTypeCorrect` | `Spec => []MonitorTypeOK` |
| `ReorgsAreReal` | `Spec => []NoFalseReorg` |
| `QuietChainsAreQuiet` | `Spec => QuietChainsMarkNothing` |

`EventStream_proofs` proves, for every length of the log, every number of fetches and every
budget:

| Theorem | Statement |
| --- | --- |
| `StreamInductive` | `Spec => []StreamInv` |
| `StreamTypeCorrect` | `Spec => []StreamTypeOK` |
| `NothingIsSkipped` | `Spec => []NothingSkipped` |
| `PageHearsABeginning` | `Spec => [][lastId' <= lastId + 1]_vars` |

`ExecutionAttempts_proofs` proves, for every number of wallets, nonces, calls, attempts and
transactions, every lifetime of nonces and sessions and every set of scenarios:

| Theorem | Statement |
| --- | --- |
| `ApiInductive` | `Spec => []ApiInv` |
| `ApiTypeCorrect` | `Spec => []ApiTypeOK` |
| `OwnersAct` | `Spec => []SessionsAreEarned` |
| `StoredIsReceipted` | `Spec => []StatusExplained` |
| `VerifiedWasDone` | `Spec => []VerifiedMeansDone` |
| `NothingRegisteredIsLost` | `Spec => RegistrationsLast` |

and of the policies under them, for every set of requests, every bound on the versions and
every budget:

| Theorem | Statement |
| --- | --- |
| `PoliciesInductive` | `Spec => []PolicyInv` |
| `NewestVersionInForce` | `Spec => []NewestPolicyInForce` |

`AmountSearch_proofs` proves, for every interval, budget and set of passing amounts:

| Theorem | Statement |
| --- | --- |
| `ProbeKeepsLeast` | a test of the middle amount, judged by the threshold itself, keeps the least passing amount in the interval or makes it the one found, and leaves less than half of the amounts |
| `LeastIsFound` | `Monotone => (SearchLoop => []LeastOnCompletion)`: what is found passes, and when the search is complete it is the least |

`AnvilForks_proofs` proves, for every set of sessions and children, every range of ports and
every range of blocks:

| Theorem | Statement |
| --- | --- |
| `ForksInvariant` | `ForkSpec => []ForksInv` |
| `ForksAreStopped` | `ForkSpec => []NoForkLeftBehind` |
| `ForksAreKeptApart` | `ForkSpec => []ForeignForkIsExplained` |

`RescueDesk_proofs` proves, for every wallet, market, policy, model and budget of faults:

| Theorem | Statement |
| --- | --- |
| `ForksUsedAsOffered` | `Spec => UsesForksAsOffered`: the desk implements `AnvilForks` |
| `DeskLeavesNoForkBehind` | `Spec => []NoForkLeftBehind` |
| `DeskForksAreKeptApart` | `Spec => []ForeignForkIsExplained` |
| `RescueInvariant` | `Spec => []RescueInv` |
| `VerifiedIsAlwaysSolvent` | `Spec => []VerifiedIsSolvent` |
| `BranchesAlwaysRunAsPlanned` | `Spec => []BranchesRunAsPlanned` |
| `AgentAlwaysTellsWhatItVerified` | `Spec => []AgentTellsWhatItVerified` |
| `RescueTypeCorrect` | `Spec => []RescueTypeOK` |

`RescueVerdicts_proofs` proves, for the same, that verdicts are complete and receipts agree:

| Theorem | Statement |
| --- | --- |
| `VerdictsInvariant` | `Spec => []VerdictsInv` |
| `VerifiedIsAlwaysLeast` | `Spec => []VerifiedIsLeast` |
| `OtherVerdictsAreAlwaysTrue` | `Spec => []OtherVerdictsAreTrue` |
| `ReceiptsAlwaysAgree` | `Spec => []ReceiptsAgree` |

All rest on the assumptions that the modules name: `KeysAssumption`, `QueueAssumption`,
`PipelineAssumption`, `MonitorAssumption`, `StreamAssumption`, `PolicyAssumption`,
`SessionAssumption`, `AttemptAssumption`, `NoAmountAssumption`, `PoolAssumption`,
`MarketsAssumption`, `SearchAssumption`, `AgentAssumption`, `DeskAssumption` and
`SettingsAssumption` (null values are outside their sets, numbers and bounds are natural and
those that count something positive, key sets and the simulator's sessions are subsets,
budgets and scenarios are functions and records of their kind, producers are finitely many,
the wallet's owner is a wallet, markets are finitely many and numbered, the desk has three
different sessions of which two are the simulator's, wallets, markets and policies have their
types). Each is evaluated by the run that extends its module. `SettingsAssumption` also says
that the agent's policy names no buffer: the simulator starts it without a policy
(process-impact.ts:158), so session.ts:58 takes the default of policy.ts:25. It matters: a
comparison of the agent's may set the buffer to a fixed one, which could be less than another.
The finite number of producers, the requests in flight at one moment, is needed to count them,
for `InflightIsBounded` only.

*The argument.* None of the safety properties is inductive, because a process acts on
what it read earlier. `IInv` is the conjunction of what has to be remembered:

* `RunsOK`: documents are well typed; a key has at most one (`OneRunPerKey`, which the unique
  index gives); a proof pointer is a stored hash of the run's wallet;
* `JobsOK`: a job is active exactly if a slot owns it, and names a document of its key;
* `ProducersOK`, `WorkersOK`, `MarkersOK`: a document that a process holds still exists
  under the key it was found with, and the hash of a worker that replayed is one of its
  wallet, stored once it is past `saveReceipt` (`HashOK`);
* `BudgetOK`: the budget stays a function to the naturals.

The step is proved with one lemma per action, over frame lemmas that say which parts of
`IInv` an update of one document, job or process leaves alone.

`ExclusiveInv` adds to `IInv` that a slot which works on a job owns the job's lock
(`OwnLocks`), so that two slots have two jobs, and two keys, and two runs; and that a run is
neither COMPLETED nor FAILED between its handler's first read and its last write (`Unended`),
which needs the locks, because only handlers write the two. `Room` counts for
`InflightBound` the jobs that wait or run together with the producers that were admitted and
have not added theirs: their sum stays below the cap plus the number of producers, because
who is admitted saw room, and who adds a job leaves the admitted.

Attempts of one run may measure different hashes, so what a completed run shows is not clear
from the wallet. `Pointed` says that a handler past `RISK_MEASURED` finds its own hash in the
document, or none after a requeue: no other handler writes there. The document therefore
shows, when it is completed, what the completion announces, and from then on until it is
requeued. The refinement maps `stored` to the hashes with a receipt, `proof[r]` to the document's
pointer and `settled` to the COMPLETED runs: saving is `Store`, `RISK_MEASURED` is `Publish`,
which `Unended` allows, since the run is not settled, `PROOF_READY` is `Complete`, a mark or a
recorded failure is `Dispute`, a requeue is `Reopen`, and everything else stutters.

Of the monitor, `ChainsTrusted` says that until a reorg or a failed read every anchor, stored
or on its way to be stored, lies on its chain and has the height it says, however overlapping
ticks save theirs. `QuietInv` says, as long as nothing moves and nothing is disturbed, that at
most one tick is under way, that at rest every record is the one sync and refresh together
derive from the chain (`Settled`), and of each phase how far between `Normal`, what the sync
stores, and `Settled` the records are: marking compares statuses from before the sync with
statuses from after the last refresh, and both are `Settled`.

`StreamInv` adds to `NothingSkipped` the types and where things are: nothing sent, heard or
remembered is past the log (`PastOnly`), and a connection's cursor is never ahead of what was sent
last, so no poll starts beyond the successor (`NotAhead`).

`ApiInv` joins `PolicyInv` and four more. `SessionInv`: the wallet of a cookie was
proved, and no longer ago than a session lasts (`EarnedToken`); what is signed or verified names a
nonce of its wallet (`ProofNamed`, `RequestsNamed`, `OwnNonce`); and a nonce has one claim unless
two requests overlapped (`OneClaim`). `EarnedFirst`: what was
stored for the wallet by a step that asks no session was preceded by one that did.
`AttemptInv`: what a registration read (`Held`) was explained by receipts when it was read and
still is, since receipts do not change; so what it writes is explained too, whatever it
overwrites. `PageInv`, while the page gave nothing up: it waits for what is under way, so no two
requests are, and what a registration holds has every hash that is stored (`Upheld`).

`PolicyInv` adds to `NewestPolicyInForce` what a request about to create its version
relies on: stored versions have no gap (`NoGaps`), the version before its own is stored
(`FollowsStored`), and no older version than its own became active since it made all of
them inactive (`NothingOlder`). If its version is still missing, these leave it the newest
and nothing active (`MissingIsNext`); if not, the index turns it away.

`SearchInv` says of a search that everything below its interval fails and that the amount
found passes and ends the interval: when the interval is empty, what was found is the least.
`ProbeKeepsLeast` says of one test why the search is short as well as right.

`ForksInv` adds to the two properties of the forks what a session relies on between its
calls: a child has one session (`HeldOnce`), a session that opened a fork holds a child
(`HoldsChild`), whose port and block are the ones it asked for and which ended only for a reason
that is remembered (`OwnChild`), two children that boot or serve on one port have raced
(`AloneOnPort`), and the children of a sweep were told to end (`SweptAreTold`). Without
`AloneOnPort` a port could change hands unnoticed; without `OwnChild` a dead child would not
explain who answers in its place. For these two the desk needs no invariant of its own: each of
its steps takes a step of `AnvilForks` or leaves its variables alone, one lemma per component.

`RescueInv` says what the desk knows of each session's work and of its Anvil. `Sound` holds
whatever happens, of shared forks too: the types, which stages belong to which task
(`Ordered`), and that a branch has a feasible market and searches within its bound (`Aimed`).
The rest is said of a session that nobody else has worked with (`mixed`), which is where
`AloneOnPort` and `OwnChild` are needed again: only then does an Anvil hold what its session
left there. `Solvent`: every amount that passed, and every verified result, is solvent at the
pinned block. `Expected`: before a branch the Anvil is the pinned block without a snapshot;
within one it has one snapshot, of the pinned block, and the calls that are still to be made
lead from what it holds to what the plan promises (`Ahead`: the approval reset, set to the
exact amount, spent, the market entered). So a branch that reverts is back at the pinned block
whatever its calls did, and one that passed measured the wallet with exactly the amount moved;
lost reads and calls only fail a branch or leave debts out of the buffer, which no shortfall
depends on. `Honest`: a call that failed was lost, since `PlanGoesOn` shows that each call
ahead is accepted. `PlanOK` says the same of the plan that the API holds, `CacheOK` of the
comparison that the agent keeps, `Reports` that a replay which went well left a receipt.
`AgentInv` joins what the agent's caches and answers say of each other and how many forks they
cost (`AgentKnows`: one for each cache that is filled, one for each refused call, one under
way) with `AgentWithin`: an agent which has not ended has steps and refusals left, and has not
begun before the replay is stored. There is one lemma per action, most on records alone (what
a step does to `work[s]` and `node[c]`), lifted to the desk by frame lemmas for the sessions
that a step leaves alone.

What a wallet owes and holds are sums over the markets, folds in the community modules. That
such a sum is a number, and depends only on what it adds (`SumTyped`, `SumsAgree`), is proved
from the definition of the fold with the well-founded order of the finite subsets: a least
subset on which two sums differ, or on which none exists, has an element to take away.

`VerdictsInv` adds to `RescueInv` what a search must remember to say that nothing smaller
would do. The key is `PassesGrow`: up to the bound, an amount above one that passes passes
too. It is not assumed but follows from the contracts as they are modelled: a larger amount
leaves the wallet owing no more and holding no less once the change was executed, in every
market (`MoreIsEasier`, `WorthGrows`), and neither less debt nor more collateral makes a
policy fail that passed. It discharges for the desk what `LeastIsFound` assumes of any search.
`Narrowed` says of a search under way that all below its interval fails, that what was found
passes, and that the width of the interval is what the tests so far leave of the bound, from
which an `INCOMPLETE` one had a bound of at least two to the power of its budget.
`SessionsRight` says of a session that met nobody on its fork and lost no call that it
measures exactly the wallet: each branch's verdict is the one `Rescues` computes without calls
(`Exact`), and a receipt's body is the one of the pinned wallet and its change, its exposure
that of the markets the replay read, which are all of them if the receipt says so (`Telling`).
`FindingsRight` keeps both for what has left the session: the agent's cache and the job's
stored receipt. The three properties only compare what two such measurements found, and two
measurements of one wallet are equal.

`ShapeInv`, for the types, adds to `RescueInv` bounds that nothing else needs. An Anvil that
two sessions share could collect snapshots; it does not, because each of them is held by a
session that still works there and holds one at a time (`SnapshotsHeld`): a revert takes the
reverted and the later ones away, and whoever takes one holds none. That needs a port to be
served by one child (`OneServes`) and a holder's fork to be ready (`HoldersReady`); an
injection into the sessions then counts them (`HeldAreFew`).

*Only model-checked.* Liveness (everything under a fair specification: `EverythingEnds`,
`Converges` and their like), which the prover does not do, nor `ENABLED`. The violations of
section 3 are traces that TLC finds. Every invariant and every action property of a passing
run is the statement of a theorem.

## 6. What is not modelled

Reads of contracts, the bytes of call data (what decoding makes of them is modelled), ABIs,
schemas, configuration, logging, metrics and presentation have no state of their own or only
output; the models take their results as inputs. The canonical form of a receipt and its hash
are wording and layout: the ledger models what depends on the hash, `RescuePlans` what the
hash covers. Signatures, cookies and their encryption are modelled by what they attest. The
text of the model's answers, prompts and traces is left out, as are storage proofs, the
fixed-point scales of prices and the accrual of interest. Not modelled are the rate limiter,
the retry of RPC calls, and of the page a wallet on the wrong network or without connection,
nor that the last write of an agent's status, which nobody awaits, may reject and end the
process. `PROJECT.json` gives the reason for each component, and section 4 the order in which
the remaining ones follow.
