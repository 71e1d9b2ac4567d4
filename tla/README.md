# TLA+ verification of teams-app

teams-app is a Microsoft Teams tab and bot whose server lets a user start
coding-agent jobs, watch and cancel them, and publish their results. A job runs
on the server's own machine, on an Azure worker fed by a storage queue, or on a
Mac that polls the server over HTTP. The logic that is hard to test is the
bookkeeping around a job: how many may run, who may settle one, and what
survives a crash, a lost reply or a failed write. That is what is modelled here.

Paths below are relative to `src/server/` of the repository unless they say
otherwise.

## 1. Inventory

| Component | State it keeps | Operations | What makes it hard | What makes it correct |
|---|---|---|---|---|
| Admission controller (`agent-admission-controller.ts`) | map of reservations, index from job to token, closing flag, a journal file | `tryAcquire`, `bindJob`, `markTerminalPending`, `markUnresolved`, `release` by lease or by job, `reconstruct`, `close` | the maps change before the awaited write; a failed write rolls back; the journal and the job store disagree after a crash; operations look tokens up before they queue | limits hold over every interleaving; index and reservations agree; the journal says what callers were told; capacity is freed only by a release |
| Azure dispatch queue (`azure-agent-dispatch-queue.ts`, `queue/`, `storage/agent-dispatch-state-port.ts`) | a record per job under compare-and-swap, a storage queue, a poison queue | `enqueue`, `requestCancellation`, `lease`, `heartbeat`, `complete`, `fail`, `cancel` | messages delivered again, pop receipts that expire, leases taken over, calls that fail half way | one holder at a time; no second execution after a completion; a task is neither lost nor quarantined without evidence; cancellation bars completion |
| Azure worker (`../worker/index.ts`) | the run in hand, its renewal chain | `runOnce` | renewals race the end of the execution; the process crashes and is restarted by systemd | what the holder decides is recorded; a sent task settles |
| Pull worker host (`pull-worker.ts`, `pull-worker-http.ts`) | a ledger file of hand-offs with leases | `dispatch`, `observe`, `cancel`, `claim`, `begin`, `heartbeat`, `finish` | leases expire inside the next transaction, replies are lost, a write fails | a started job is never handed out again; finish can be replayed |
| Mac pull worker (`mac-pull-worker.ts`, `portable-mac-runtime.ts`) | the active execution, blocked and uncertain flags | `step`, `reconnect`, `disconnect`, `close` | a start answers after its timeout, cleanup fails, the lease expires during an execution | no claim while an execution may still run |
| Agent service (`agent-service.ts`) | timers, active executions, projections | submit, approve, reject, cancel, execute, reconcile | many awaits between reading a job and writing it; external observations arrive late | a terminal job stays terminal; a cancelled job is not executed; an admission is released with its job |
| Agent job store (`agent-job-store.ts`, `storage/agent-job-durable-ledger.ts`) | jobs in memory, a file, or a record per job | create, idempotent create, update, staged mutations | rollback when persisting fails; records written one by one | the same idempotency key yields one job; memory is never ahead of what is stored |
| Runtime store (`storage/`) | versioned records and idempotency records | read, compare-and-swap, begin and complete an idempotent request | conflicts, validation of values, Cosmos or memory | an update never overwrites one it has not seen |
| Provider mutation replay (`provider-mutation-replay-store.ts`) | reservations and results in a file | replay | success that cannot be recorded, concurrent calls with one key | a side effect happens once |
| GenUI actions (`genui-action-store.ts`) | single-use grants in a file | issue, consume, complete | consume rolled back when the write fails | a grant is used once |
| Result publication (`core-result-publication.ts`) | publications with a state | preview, publish, reconcile | a restart in the middle of sending | published at most once without an operator |
| Process lease (`process-lease.ts`) | a directory per store, one for the private home | acquire, reclaim, release, reserve | two processes reclaim one stale lease; a rename moves what it did not look at | a lease in use is never deleted; processes that start together do not all give up; the home has one user |
| Job progress and notifications (`teams-job-progress*.ts`, `personal-notification.ts`) | a card reference per job | deliver, update | retries of deliveries of unknown outcome | one card per job, updates in order |
| A2A (`a2a-store.ts`, `a2a-execution.ts`) | tasks, messages, run claims | send, run, cancel, recover | runs that outlive their claim | a task has one run; terminal tasks do not move |
| Collaboration (`collaboration-service.ts`, `collaboration-store.ts`) | sessions of several agents | start, contribute, approve, cancel | many jobs move one session | the session follows its jobs |
| Work items (`work-item-service.ts`, `work-item-store.ts`) | records in a file | create, update, link | as the job store | as the job store |

The remaining parts (the React client, response engines, Atlassian, Bitbucket
and GitHub adapters, execution policy and isolation, infrastructure) transform
data, render or validate, and keep no protocol state of their own; they are
listed in `PROJECT.json` with the reason.

How the parts interact: the agent service asks the admission controller for a
lease, creates the job in the store, binds the lease to the job, and hands the
job to a local runner or to a dispatcher (`AgentExecutionDispatcher`). The Azure
dispatcher and the pull worker host keep records of their own; the agent service
polls them (`observe`) and copies what they say into the job. The admission is
released when the job is terminal and its cleanup verified. After a restart the
service reconstructs admissions from the job store. All stores share
`atomic-file.ts` and, per process, `process-lease.ts`.

## 2. Plan

Done:

1. `AgentAdmission`: every job passes through it, and it is a complete
   component with crash and rollback. Proofs in `AgentAdmissionProofs`.
2. `AzureDispatch`: queue, record and workers together, because their
   properties are about the three of them. Proofs in `AzureDispatchProofs`.

3. `PullWorkerHost`, `PullWorker`, and `Handoff`, the abstract specification the
   two together implement. Proofs in `PullWorkerProofs` and `HandoffProofs`.

4. `AgentJobs`: submission, approval, execution, cancellation, observation and
   reconciliation of a job over the job store, with the admission and the worker
   as the service sees them. Proofs in `AgentJobsProofs` and
   `AgentJobsEndingProofs`.
5. `ProcessLease`: leases of stores and of the private home among processes that
   share nothing but a file system. Proofs in `ProcessLeaseProofs`.
6. `MutationReplay`: at-most-once effects over a file that may refuse a write.
   Proofs in `MutationReplayProofs`.
7. `Admissions`, the contract between the service and the admission controller:
   the journal of `AgentAdmission` implements it, and so does what
   `AgentJobs` says of reservations.
8. `Dispatching`, the contract between the service and a dispatcher: the ledger
   of the pull worker implements it, so does the storage queue with one worker,
   and the worker of `AgentJobs` may do whatever it allows.

Left, in this order: `GenUiActions` and `ResultPublication` (the same write
chain as `MutationReplay`, with grants and publications in place of results);
a worker in `AgentJobs` that takes a settled task up again, as two Azure workers
may; the per-record writes of the durable ledger; `A2AExecution` and `Collaboration`.

## 3. The modules

### AgentAdmission

| TLA+ | Code |
|---|---|
| `reservations`, `jobTokens`, `closing` | the maps and the flag of the controller |
| `journal` | the file: its entries and its closing flag |
| `chain`, `writing`, `saved` | `journalChain`, the awaited write of its head, and the snapshot `mutate` takes |
| `leases`, `drawnFor` | the `AgentAdmissionLease` objects callers hold; which requester a uuid was drawn for |
| `CallAcquire`, `CallBind`, `CallByLease`, `CallByJob`, `CallClose` | a public method up to the point where it joins the chain; `CallByJob` looks its token up there, as `releaseJob` and the others do |
| `Run` | the turn of the head of the chain: `TryAcquire`, `BindJob`, `MarkTerminalPending`, `MarkUnresolved`, `ReleaseToken`, `Reconstruct` or `Close` changes the maps in place, or throws and changes nothing |
| `WriteOk`, `WriteFail` | the journal write ends; a failed one restores the snapshot |
| `Crash`, `Load` | the process ends anywhere; a new one reads the journal and runs `reconstruct` with the jobs its store calls active |

A lease object outlives failures of its own operations, so every call may be
repeated. `Load` offers every set of jobs as active: a job is created before it
is bound, and its status is written independently of the journal.

`Admissions` is the part of this that the agent service can see: per job, the
phase of the reservation bound to it, and whether the controller serves calls.
The journal, not the memory, implements it (`ImplementsAdmissions`): a call has
happened when its write has, and a reservation that is not bound yet belongs to
no job. `Serving` is false from a crash to the end of the new process's
reconstruction, the first request of its chain.

Not modelled: attempts, retry times and failure codes of a release that is
retried (they do not guard anything); the 2000 entries the journal keeps (the
limit of reservations is at most 64); a journal that cannot be read or reopened
(the controller then refuses to start).

### AzureDispatch

One task, since records of different tasks do not touch each other.

| TLA+ | Code |
|---|---|
| `rec` | the dispatch record; `gen` is `leaseGeneration`, `expiry` says whether `leaseExpiresAt` is absent, ahead or past, `receipt` is the generation that wrote a completion |
| `queue`, `poisoned` | the storage queue, with the pop receipt issued last, and the poison queue (external) |
| `run[w]` | the worker's `runOnce`: where it stands and the message, receipt, delivery count and generation it carries |
| `beat[w]` | its renewal in flight, with the values it captured |
| `EnqueueCreate` to `EnqueueMark`, `CancelRead`, `CancelWrite` | `enqueue` and `requestCancellation`, one action per await |
| `Receive`, `ReadRecord`, `Claim`, `Discard`, `SendPoison`, `Quarantine` | `lease()`, one action per await; `AfterRead` is its branch on the record |
| `Observe`, `Finish`, `Drain`, `Settle`, `Ack` | `runOnce` after `lease()`: the first observation, the end of the execution, waiting for renewals, the terminal update, deleting the message |
| `BeatStart`, `BeatObserve`, `BeatUpdate`, `BeatSave` | a renewal by the timer (which observes first) or by an event of the execution |
| `Throw`, `Restart`, `Crash` | a rejected `runOnce` ends the process once its renewal has ended; systemd restarts it |
| `BecomesVisible`, `LeaseLapses` | time |

Time is not counted: visibility timeouts and lease expiry may strike at any
step, because a process may stall for any time between two awaits and the clocks
of queue, store and workers are unrelated. `pastExpiry` holds the claimers that
took their `nowMs` after the expiry they read.

`Answered` is what the dispatcher of the server (`createQueueExecutionDispatcher`
in `index.ts`) makes of the record when the service observes it. With one worker
the answers keep the contract `Dispatching` (`ImplementsDispatching`, for a set of
one task). With two they do not: a settled task may be leased again (section 6).

Not modelled: migration of records of an older format; messages that do not
parse or match no record; four lost compare-and-swaps in a row (the update is
one atomic step); the lost reply of `updateMessage` and calls that take effect
after the caller crashed; two renewals of one worker at once (the code chains
their updates, only a timer's observation may overlap); a cancellation noticed
while an execution that has already failed waits for its renewals.

### PullWorkerHost, PullWorker and Handoff

`PullWorkerHost` is the ledger of the server, which is complete without knowing
who calls it (`HostSpec` lets anybody make any call with any lease).
`PullWorker` extends it with the one Mac that does call it, the HTTP calls in
between and the executions on the Mac. `Handoff` is the abstract specification:
one slot, a job that is begun in it leaves it only with the outcome of its one
execution. `PullWorker` implements it under the mapping `Contract`.

| TLA+ | Code |
|---|---|
| `ledger` | the records of the file: state, `leaseId`, `lapsed` for an `expiresAt` that has passed, `cancellationRequested`, the status of `result`, `at` for the position in `records` (absent records have none) |
| `Swept`, `Publish` | `transaction` (`pull-worker.ts:70`): the sweep of its copy, then the operation, the write and the publication |
| `Dispatch`, `Observe`, `Cancel` | the dispatcher the agent service calls; `taskFor` only refuses |
| `ClaimAgain`, `ClaimNext`, `ClaimNothing` | the three ends of `claim` |
| `Begin`, `Heartbeat`, `Finish` | the operations of the same names |
| `LeaseLapses` | time |
| `pc` | the await the operation at the head of the connector's chain stands at (`mac-pull-worker.ts`) |
| `call`, `answer`, `orphans` | the awaited `post` of `pull-worker-http.ts`, its reply, and calls given up that the server may still serve |
| `active` | `this.active`; `failed` as in the code, `watched` when `stepOnce` (and not a late start) created it. `cleanupVerified` is set with `outcome` only and not kept |
| `start` | the promise of `executor.start`, `late` once its deadline has passed |
| `blocked`, `uncertain`, `closed`, `stopAsked` | the three flags, and a `disconnect` or `close` waiting in the chain |
| `execution` | what the local agent service and its process do with the job |
| `provable`, `cancelling` | jobs for which `waitForExecutionSettlement` may find a proof in this process (`localSettlements`); jobs given to `cancelStrict` |
| `Step` to `FinishAcknowledged` | `stepOnce` from await to await |
| `CallFails`, `Fail` | the deadline, a refusal or an answer that does not validate, and the `catch` of `stepOnce` |
| `StopSucceeds`, `StopFails` | the ends of `stopOwned`; a stop in a step after a cancellation goes on to `finish` |
| `StartLaunches` to `LateStartFails` | `start` of `createAgentServiceMacExecutor` and `startBounded` |
| `Reconnect`, `Disconnect`, `RunStop` | `reconnect`, `disconnect` and `close`, and their turn in the chain |
| `MacRestarts` | the process of the Mac ends, or is closed and started again; nothing of the connector survives, the local job store and perhaps the processes do |
| `ServeCall`, `ServeOrphan` | the route of the call runs its transaction |

One transaction is one step: the operations share one promise chain, `ledger` is
replaced after the write, and a transaction that throws or cannot be written has
changed nothing. For the same reason a restart of the server is a call that
fails. The 30-second lease and the deadlines are not counted: a lease may lapse
and a deadline may pass at any step, so no property depends on polling in time.

`Answered` is what `observe` says of a record, as the service reads it: a leased
job counts as queued, a quarantined one as failed. `ImplementsDispatching` says
that these answers, and the recorded cancellations, keep the contract
`Dispatching`. A step of the contract is about every task, since the sweep of a
transaction may touch any record. `OneOutstanding`, that one job at most is
leased, running or quarantined, is the lemma behind `OneExecution` and is proved,
not run.

Not modelled: identities other than the one the Mac authenticates as (the owner
check refuses them); the text of results (a repeated finish with another text is
refused, and refusing is always allowed for here); the reports `observe` sends,
and the poll timer, which only decides when `Step` happens.

### AgentJobs

The service is a set of asynchronous methods over one job store. A process of
the model is a request under way (`Caller`), the execution of a job (named by the
job), the observation timer (`Poller`) or the approval timer (`Expirer`); `op[p]`
says where it stands and what it read before its last await.

| TLA+ | Code |
|---|---|
| `rec` | the stored job: mode, status, state of `durableApproval`, `cancellationRequestedAt` (`asked`), an error that begins with `AGENT_RECONCILIATION_REQUIRED:` (`marked`), `durableNotifications.delivered` |
| `reservation`, `held` | the phase of the job's reservation in the admission journal; `admissionLeases` with `executionWorkspaces` |
| `reconciling` | the map `reconciliation` |
| `work`, `stop` | the command of the runner, or the task of the worker, and who was told to stop |
| `lock`, `tree` | `withJobMutationLock`, `withWorkspaceWriteLock` |
| `notices` | a history: the set of endings announced to the user, so repetitions are not counted (delivery is at least once, `agent-service.ts:833`) |
| `Submit`, `Create`, `Bind`, `Dispatch`, `Undispatched` | `submitOnce` and `dispatchExternally` |
| `Decide` (`Accept`, `Refuse`, `Replay`), `DeadlinePasses` | `decideApproval`, `expirePendingApprovals` and the transition of `core-approval-recovery.ts` |
| `Cancel`, `Await`; `CancelExternal`, `Ask`, `Asked` | `cancel` of a job here, and of one at a worker |
| `Observe`, `Look`, `Apply`, `Deliver`, `Ack`, `Finish` | `observe`, `reconcileDurableObservation`, `deliverDurableNotification`, all under the lock |
| `TakeTree`, `Claim`, `Invoke`, `RunnerEnds`, `Record`, `Unrecorded` | `execute`, `executeUnlocked`, `markReconciliationRequired` |
| `End`, `Mark`, `Release`, `Error`, `Done` | `finalizeAdmission` and what its caller does next |
| `Reconcile`, `Commit` | `reconcileTerminal`, `commit` (as a holder of both locks) |
| `Crash`, `Initialize` | the process ends; `initialize` recovers jobs and admissions |

`Fault` names the calls that may fail: of the store (`create`, `start`, `update`,
`asked`, `ack`, `marker`), of the dispatcher (`dispatch`; `sent`, a dispatch
that throws although the worker got the task; and `belated`, a task given up as
failed that is reported cancelled after all) and of the admission or workspace
(`bind`, `unresolve`, which nobody awaits the success of, and `release`). A
submission whose binding fails gives its reservation back and answers with an
error; its job stays in the store.

Of the reservation the service sees what `Admissions` says of it, and does to it
what `Admissions` allows (`ImplementsAdmissions`, with `PhaseOf` for the mapping).
Here `tryAcquire` shows as the phase `reserved`, which is no job's yet.

Of a worker the service sees what `Dispatching` says of a task, and the worker of
the model takes any step the contract leaves it (`WorkerStep`). A failure that is
taken back, the one change of an outcome the contract has, is a fault to be able
to say what holds without it; it needs a quarantined job of the pull worker, and
those are read-only.

Not modelled: `close`; model catalogues and policies, which refuse before
anything is changed; idempotency keys; `retry` and `continue`, which submit;
progress, tools and results; the limits of the admission (`AgentAdmission`); a
failed submission whose workspace cannot be disposed of either (its reservation
is then marked, of a job nobody is told about); rows of older versions. A disposal of the workspace and the release after it are
one step.

### ProcessLease

One step is one call of the file system. A directory stands for the process that
wrote its `owner.json`.

| TLA+ | Code |
|---|---|
| `final`, `strays`, `aside` | whose directory is at the final path; quarantines left behind; the one a process works on |
| `pc`, `at`, `seen` | the next call, the store it is about, the owner `readOwner` returned |
| `Commit`, `Blocked` | the rename of the staged directory |
| `Look`, `Read`, `Judge`, `Move`, `Verify`, `Restore`, `Putback` | `tryReclaimStaleLease` and `restoreQuarantine` |
| `Conflict` | `leaseConflict`, and `releaseLeases` of the stores already held |
| `Release`, `ReleaseMove` to `ReleasePutback` | `release` or `releaseSync` |
| `Reserve` to `RmdirHome` | `acquirePrivateDirectoryProcessLease` and its strict release |
| `Crash` | the process dies between two calls |

`Exclusive`, which the comment at `process-lease.ts:32` promises, is stated and
not checked by a run, because it does not hold: with three processes and one
store, one judges the lease of a dead owner stale, a second reclaims it and
acquires, the first then renames the live lease away, and a third acquires. The
first finds another token, and puts the directory back if it still can. What
does hold is `LiveLeaseKept`: the moved lease is never deleted.

Not modelled: owners on other hosts and malformed owners (a conflict), errors of
the file system other than those the code tells apart.

### MutationReplay

| TLA+ | Code |
|---|---|
| `records`, `disk`, `saved` | `state.records`, the file, the clone of `enqueueMutation` |
| `chain`, `writing` | `writeChain`, and the write its head awaits |
| `exec`, `inFlight` | the execution of a key and the promise the map holds for it |
| `Execute`, `OperationReturns`, `OperationThrows` | `execute` up to its next mutation |
| `Mutate`, `WriteOk`, `WriteFail` | the turn of the head of the chain and the end of its write |
| `Effect` | the provider makes the change (external) |
| `Crash`, `Initialize`, `Expire` | the process ends; `initialize`; `ttlMs` passes |
| `settled` | a history: what anybody was told about the change |

Two more statements are defined and not checked by a run, since they do not
hold: `DoneOnce` (an operation that returned is not repeated: it is, when its
result cannot be recorded and the cleanup then succeeds) and `Retryable` (a key
without record or execution is free: it is not, when its last call was refused or
replayed in its first mutation, whose promise stays in the map).

Not modelled: `replay`, which only reads; validation; a second process on the
same file (`index.ts:881` does not lease this store).

## 4. The runs

| Run | Instance | What it shows |
|---|---|---|
| `admission` | two requesters of one tenant, a job each, two uuids; limits 1 per requester, 2 per tenant, 2 in all; two requests outstanding | types, index, limits, journal and freeing of capacity through failed writes, crashes and reloads; the journal implements `Admissions`; a full chain drains |
| `dispatch` | two workers, one message received three times, quarantine after the second, one renewal, one cancellation | fencing, evidence, cancellation and settlement among racing workers |
| `dispatch_one_worker` | one worker, two enqueue calls, two messages, a crash, a cancellation | a leased or unclaimed task keeps a message; nothing is executed after its completion; a sent task settles |
| `dispatch_completed_twice`, `dispatch_lost_task`, `dispatch_cosmos` | | findings, section 6 |
| `pull_worker` | two jobs, two leases, one call given up and still under way, one restart of the Mac | one execution at a time; settled means stopped; cancellation honoured; no claim while something runs; `PullWorker` implements `Handoff`, and `Dispatching` towards the service |
| `pull_live` | one job, one lease, one call given up | the connector's chain never hangs |
| `lease` | three processes and a dead one, two stores, the home | a lease in use is never deleted; somebody gets the stores; the home changes hands only through its owner; acquisitions end |
| `replay` | two keys, two requests, two records, two effects, a failed write, a crash | what was answered is not made again nor answered to another request; executions end |
| `agent_jobs` | one job, two requests, both timers, two decisions, one fault of any kind but `sent`, `ack`, `bind`, `unresolve` and `belated` | capacity of active jobs is counted, of ended ones visible; one ending that stands, and only that one announced; one start; results and requests end |
| `agent_jobs_replay` | the same without faults | finding, section 6 |

Bounds. In `admission` a second requester and a limit of one make acquires
compete, two outstanding requests let any operation fall between the lookup and
the turn of another, and two uuids, one per lease, let a lease object
outlive its reservation and be used again. With two of them only the limit per
requester can be reached; for the others there is `LimitsAlwaysHold`. In the
dispatch runs the third delivery is the one over the limit, so a message is
delivered, redelivered and quarantined; all but `dispatch_cosmos` assume a store
that accepts undefined fields, without which nothing settles; two workers are enough
for one to be overtaken by the other. Two-worker runs have no crash (a worker
that throws or stalls for ever covers most of it, and the theorems allow any
number); the one-worker run has one, before or after the settlement, and its
bound on receives is one that no behaviour reaches.
In the pull worker runs two jobs are what it takes to start a second one too
early; two leases let a job be claimed, swept and claimed again, and one call
given up can be served after the connector has claimed the other job. In `lease`
the third process is the one that takes a store while the lease that was there
lies in a quarantine, and the second store is what processes can wait for
crosswise; every lease an earlier process may have left is an initial state. A
process starts once, so an acquisition meets finitely many others
(`AcquisitionEnds` says nothing of an endless stream of new ones). In `replay` two keys share the chain and two requests
compete for one. In `agent_jobs` two requests are enough for one to overtake the
other between any two awaits, and one job leaves out only executions that contend
for a workspace with each other (they contend with commits); the invariants were
also checked with two faults. Every bound is a CONSTANT (`MaxChain`,
`MaxReceives`, `MaxRenewals`, `MaxCrashes`, `MaxLeases`, `MaxOrphans`,
`MaxEffects`, `MaxFailures`, `MaxFaults`, `MaxDecisions`) or the size of a set.
Deadlock is not checked where the system may stop: a settled task, a process
that has ended, a job that is over and announced.

Symmetry is used in two safety runs, over the workers of `dispatch` and the jobs
of `pull_worker`, which the specifications do not tell apart.

Fairness. `AgentAdmission`: a promise whose turn has come runs, and a file write
ends, well or badly. `AzureDispatch`: workers keep taking steps, are restarted
when they exit (`Restart=always` in `infra/azure/cloud-init/codex-worker.yml`),
renewals end, and a hidden message becomes visible again. Nothing is assumed of
the server's calls or of the outcome of a call; an execution is assumed to end,
which the time limit of `codex-runner.ts` provides. `PullWorker`: what the chain awaits ends, because every call has a deadline of
3 to 5 seconds, every start and every stop one of 15, and `Progress` is their
disjunction: a deadline alone suffices, and no call need be answered, no start
return and no execution end. `RunStop` is a promise whose turn has come.
`ProcessLease`: a process that has not died makes its next call; nothing is
assumed of when it starts or releases. `MutationReplay`: writes end, well or
badly, mutations take their turn, and an operation ends, which the deadlines of
the provider clients see to. `AgentJobs`: calls return; the locks are promise
chains, so who waits for one gets it although others come and go (strong
fairness of the steps that wait for a lock); the poller comes round; a command
ends. Nothing is assumed of the worker, of users or of operators.

## 5. The proofs

`AgentAdmissionProofs`, for every set of requesters, tenants, jobs and uuids and
all nested limits. No safety property is inductive: a failed write puts back
`saved`, a reload puts back `journal`, and the request at the head of the chain
was made in an earlier state. The invariant therefore says the same of the three
copies of the maps (each is `Sound`: well shaped, indexed exactly, within the
limits, and closed under the uuids drawn so far), and of the requests that they
name tokens with the properties their caller saw. Counting uses the theorems on
cardinality of the library. Proved: `TypeCorrect`, `JobIndexAlwaysExact`,
`LimitsAlwaysHold`, `JournalAlwaysAgrees`, `CapacityFreedOnlyByRelease`,
`UnresolvedAlwaysSticks`. `AdmissionsImplemented` is the refinement of
`Admissions`. The maps run ahead of the journal, so the step of the contract is
taken when the write ends, and what it will be must be known while it is awaited
(`Promised`): between `saved` and the maps one job has moved as a call of
`Admissions` moves it, or the reconstruction has been applied; a failed write
then moves nothing, and a reload leaves the journal alone. Only the first request
of a process reconstructs, so a call never ends before the contract is open.

`AzureDispatchProofs`, for any workers, callers, messages, crashes and delivery
limit. Besides the types the invariant has four parts: no lease is ahead of the
record's generation, and the lease object made of a terminal record is behind
once the record is leased again (for `UniqueHolder`); while the task is only
queued nobody is past the claim and nothing is deleted (for
`UnclaimedTaskIsQueued`); who is about to quarantine has poisoned its message and
counts are monotone (for `QuarantineLeavesEvidence`); a cancellation about to
write has an attempt left. `CalmStep` is the frame lemma: a step
that only advances what the parts compare keeps them, which settles most actions.
`OutcomesTakeEffect` says for either kind of store what becomes of an outcome: no
step but its own update takes a worker past it (`SettlesItself`), and that update
records the outcome or, where the worker may not settle, changes nothing and ends
it. With the store the worker is composed with (`composition.ts:12`) the second
is always the case: `NothingSettlesThere` proves the finding `dispatch_cosmos`
for every instance. The other theorems hold with either store, but what they say
of settled tasks (receipts, quarantine) has cases only with one that accepts
undefined fields. `LoneTaskIsRecoverable` and `LoneWorkerStopsAtReceipt` assume one worker
(`Alone`), and the runs `dispatch_lost_task` and `dispatch_completed_twice` why: a
worker alone never finds the record settled or claimed between its read and its
claim, and takes for a duplicate only a message the record does not name
(`SoloInv`). The same worker settles only a task that is leased, and nothing is
known of a task that was never enqueued (`KnownInv`); hence every step moves the
record as `Dispatching` says (`LoneWorkerDispatches`), which no run of the project
checks.

`PullWorkerProofs`, for any jobs, capacity, leases, lost calls and restarts. The
ledger comes first and alone: `RecordsInv` (a record's result and state agree,
one job is outstanding) is inductive under any call, and each operation is
`Gentle` to every record: what is begun stays begun, and a result appears only
by a cancellation of a job not begun. Finish is the exception, and there the
record is that of the call. `OneJobOutstanding` and `CancellationIsHonoured`
follow. For the two sides together the invariant says what a message or a flag
stands for: a finish under way, lost or not, carries the outcome of an execution
that has ended (`CallInv`); a start, and an acknowledged begin, stand for a job
that was begun (`StartInv`); what the connector owns was launched (`ActiveInv`);
what runs and can be proved to have stopped is owned, or the connector is
uncertain and blocked (`OwnerInv`). Since outcomes do not change, the transaction
of such a call is `Faithful` to every record, whenever it is served, and
`FaithfulStep` carries the rest over. Proved: `TypeCorrect`,
`AtMostOneExecution`, `SettledIsStopped`, `ClaimsWhenStopped`. For the contract of
the service each operation is looked at again, by what it makes `observe` answer
(`Told`, of a record; `AllTold`, of the ledger): `LedgerDispatches` holds for the
ledger alone and any caller, `PullWorkerDispatches` with the Mac.

`HandoffProofs` shows `Implements`: every behaviour of `PullWorker` is one of
`Handoff`. A transaction begins with the sweep, which leaves what `Handoff` sees
of the ledger or takes the job in the slot back (`SweptSlots`); the rest of it is
then one step of `Handoff`. The invariant of `PullWorkerProofs` makes it the right
one: one job is outstanding, so the slot is no choice (`SlotIs`); a finish carries
the outcome of the execution, so recording it is `Settle`; what is launched for
the first time was begun, so it is still in the slot.

`ProcessLeaseProofs`, for any processes and any number of stores. `LiveLeaseKept`
is preserved once it is known which calls a process makes while it works on a
quarantine (`AsideInv`: it has one exactly between the rename that made it and
the call that deletes it, puts it back or gives up on it) and where a process
that has not started stands (`FreshInv`). The proof has two halves: no step
deletes the directory of a live process except its own release (`KeptStep`), and
a process comes to count on a store only by its own commit (`LeasedStep`).
`HomeInv` says that whoever is inside the private home owns it.
`SomeoneGetsTheStores` has an invariant of its own (`RaceInv`) for the time in
which no process has died or stopped (`Calm`). A directory in sight of a process,
at the path, read or moved, is either the one an earlier run left there, which is
unique per store, or that of a process that has got past this store and is still
in the race (`StoreOk`, `Past`); so a conflict always leaves somebody in the race
who has got as far (`PastConflict`), also when the path was found empty, because
then somebody is about to take it (`About`). A process that was refused hence
leaves one that acquires or has the stores. The common order of the stores is
what makes "past" the same for everybody. Proved: `TypeCorrect`,
`LiveLeaseAlwaysKept`, `HomeIsExclusive`, `SomeoneAlwaysGetsTheStores`. Assumed:
there is a store, `None` is no process, and the earlier processes are processes.

`MutationReplayProofs`, for any keys, requests, `MAX_RECORDS`, failures and
crashes. The execution at the head of the chain is the one whose write is awaited
(`WritingInv`); an execution keeps its promise in the map, so no second one starts
for its key (`FlightInv`); the clone a failed write goes back to is the content
of the file (`StoredInv`); from its reservation on, the fresh record of a key is
bound to the request of its execution, in memory and in the file (`BoundInv`).
Hence the record of an answered or lost request stands in both (`AnswerInv`), and
its key is replayed or refused. Proved: `TypeCorrect`, `AnswersAreFinal`
(`AnsweredOnce`), and `MemoryIsAlwaysStored`, which no run checks. Assumed: the
bounds are natural numbers, and `None` is no request.

`AgentJobsProofs`, for any jobs, callers, crashes and decisions, and requests
made before a submission has answered included. `JobInv` relates the record of a
job to its work and its reservation. `OpInv` says what an operation relies on at
each of its awaits, which is what the other operations must leave it;
`OneLauncher`, that at most one of them is about to launch a job. A step is judged
by what it does to the job it is about (`JobStep`: an active record keeps its
reservation, an ending stands, work begins once and only by a launcher), and
`Combine` carries the invariant over the operations that were not looked at. The
invariant is proved under every failure (`InvHolds`); the parts of it that a
failure breaks are conditional on its absence: `Honest` excludes `"sent"` (the job
is failed and its capacity released while the worker runs it), `Counted` excludes
`"bind"` too (the job is in the store without a reservation). Proved without any
hypothesis: `TypeCorrect` (`TypeOK`; `Kept` adds what no other proof relies on)
and `WorkStartsOnce` (`StartsOnce`). `EndingsStand` (`EndingStands`) assumes
`Honest`, `CapacityIsCounted` (`ActiveJobsAreCounted`) `Counted`. Assumed of the
constants: jobs, callers and the two timers are distinct processes
(`ProcessAssumption`), and `None` is none of them.

`AdmissionsHonoured`, in the same module, says that the service does to the
reservations only what `Admissions` allows. It needs to know who handles a
reservation that is not bound yet: the one submission of that job
(`AdmInv`), so nobody marks or releases one on its way to being bound, and a
restart, which is the only step that touches many jobs, binds the active ones and
frees nothing. With `AdmissionsImplemented` this ties the two modules together:
the reservation the service's model keeps and the journal of the controller move
by the same rules. It is not a theorem about one module in which both run.
In the same sense `PullWorkerDispatches` and `LoneWorkerDispatches` stand behind
the worker of `AgentJobs`, which assumes no more of it than they prove. Two Azure
workers fall outside: what is proved here of external jobs is not proved of them.

`AgentJobsEndingProofs` builds on that invariant. `CapacityIsVisible`
(`HeldCapacityIsVisible`) speaks of jobs nobody works on, so its invariant names
who works: while a job that is over keeps a bound reservation, an operation on its
way to the end of the admission is there (`Ender`); a step may take the last one
away only by ending the admission or marking it. It assumes `Orderly`: no fault
`"sent"`, `"ack"` or `"unresolve"`, and no request that names a job before its
submission was answered (`EarlyOk`); section 6 says what each of them would break.
`EndingIsOne` (`OneEnding`) assumes only that there is no fault `"sent"` and no
`"belated"` (`Final`). The other theorems hold with it: what an operation has
observed may then be a failure that is a cancellation by now (`Belated`), and
either is the end of the job. For a
job that ran here, nothing is announced before the one operation that will
announce it (`Announcer`, at most one per job) is done; for a job at a worker,
everybody announces the same thing, because its outcome no longer changes once it
is over (`Outcome`).

Only model-checked: liveness (`ChainDrains`, `EverySentTaskSettles`,
`ChainMoves`, `AcquisitionEnds`, `ExecutionEnds`, `ResultsArrive`,
`RequestsEnd`), which is out of the prover's reach; and `HolderCompletes`, which
`OutcomesTakeEffect` implies for a store that accepts undefined fields and which
fails with the other.

## 6. Findings

* `dispatch_completed_twice` (`azure-agent-dispatch-queue.ts:376`): the claim's
  compare-and-swap repeats the expiry and redelivery checks but not the terminal
  one, and a terminal update keeps the lease owner and generation the claim
  compares. A worker that read the record before its holder completed it may
  lease the completed record again and execute the task twice.
* `dispatch_lost_task` (`:393`): a worker whose claim loses deletes its message,
  which may be the newer delivery of the message the winner works on. If the
  winner then stops, nothing delivers the task again.
* `dispatch_cosmos` (`:524`): the terminal update sets fields to `undefined`,
  which the Cosmos runtime store refuses; a holder can then never settle.
* `agent_jobs_replay` (`agent-service.ts:503`): a decision that was taken before
  is answered with the job as it is, and the admission is ended if that says
  cancelled. While a cancellation awaits the end of the command the job already
  says so: accepting it once more releases its capacity and disposes of its
  workspace under the running command. The comment at `:1298` takes it for
  granted that a replay has no local resources.

Seen in the models and not a run of its own: the failed acknowledgement of an
announcement (`agent-service.ts:834`, fault `ack`) keeps an ended job's capacity
bound, because later observations find a job that was over already; a job
cancelled between its creation and its binding (`:350`, `EarlyRequests`) gets
capacity bound to it afterwards; a job whose binding fails (fault `bind`) stays in
the store, where it can be approved, and then runs without being counted until a
restart reconstructs its reservation; a mark that cannot be written (`:1314`,
fault `unresolve`) leaves the capacity of an ended job bound, and nobody told,
until a restart; a dispatch that throws after the worker got the
task (`:1577`, fault `sent`) is stored as failed and later overwritten by the
worker's result; a task of the Mac whose lease lapses while it runs is quarantined
(`pull-worker.ts:76`), which the service stores and announces as a failure, and it
releases the admission although the command may still run, against the comment at
`agent-service.ts:631`; when the Mac then reports the cancellation
(`pull-worker.ts:183`, fault `belated`), the job is stored as cancelled and a
second ending announced; two processes may lease one store (`process-lease.ts:265`,
`Exclusive`).
