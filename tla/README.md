# internalCMDB: TLA+ models, checks and proofs

internalCMDB is a configuration management database with a governance layer: agents on the
hosts report what they see, the server stores it, cognitive components propose actions, and
a governance layer decides which of them run, who has to agree, and that no two of them run
on the same entity at the same time. The program is Python (FastAPI, SQLAlchemy on
PostgreSQL, Redis); the package is `src/src/internalcmdb/`, and every path below without a
prefix is relative to it.

This directory holds TLA+ modules for its parts, from the review queue down to the
migrations that build its tables, TLC configurations that check them on small instances, and
TLAPS proofs that carry most of the safety properties from those instances to any number of
processes, rows and messages. `PROJECT.json` says which lines each definition models, which property
guards which hazard, and for each property a mutation of the model that breaks it.

    tlc -workers 2 -config hitl_races.cfg MCHitlWorkflow     # any run
    tlapm HitlWorkflow_proofs.tla                             # any proof module

## 1. The system

### Components, their state and their operations

| component | state | operations | concurrency and failure |
|---|---|---|---|
| HITL review queue: `governance/hitl_workflow.py`, `api/routers/hitl.py`, `api/main.py` | rows of `governance.hitl_item` (status, risk class, escalation count, reviewer) and `hitl_feedback` | submit; approve, reject, modify; bulk decision; manual escalation; the escalation sweep of each API worker | several reviewers, two API worker processes (`Dockerfile.api`, `--workers 2`) with a sweep each, one transaction per request; lost transactions, rejected statements, PostgreSQL deadlocks |
| plan execution: `governance/action_workflow.py`, `motor/execution_lock.py`, `governance/policy_enforcer.py` | Redis keys `infraq:execlock:*` with random tokens; the tokens each call holds | execute_plan (policy check, review, locks, playbooks, release) | calls in several processes share only Redis; expiry, lost replies, failed releases, crashes |
| mediated action requests: `control/action_workflow.py`, `control/policy_matrix.py` | rows of `agent_control.action_request`, `ChangeLog` rows, approval records | create, approve, begin_execution, complete, fail, revoke, deny | every method loads without a lock, checks the copy and writes in the caller's session; approvals expire |
| event bus and reactive loop: `nervous/event_bus.py`, `nervous/reactor.py` | Redis streams with a consumer group; per-process memory of processed ids | publish, subscribe, ack; run loop; shutdown | several consumers, Redis errors before or after the effect, crash and restart, trimming, repeated event ids |
| agent daemon and snapshot ingest: `collectors/agent/daemon.py`, `api/routers/collectors.py` | the daemon's buffer and last hashes; rows of `collector_snapshot` | collect, flush, ping, stop, restart; ingest, heartbeat | an answer that comes after the client's timeout, resent batches, several transactions of one agent, restarts |
| agent registry and fleet health: `api/routers/collectors.py`, `collectors/fleet_health.py`, `collectors/staleness.py` | rows of `collector_agent` (active, status, last heartbeat) | enrol, report, retire; staleness sweep | enrolments of one host at the same time, sweeps that write what an earlier read implied |
| worker jobs and scheduler: `workers/executor.py`, `workers/scheduler.py`, `api/routers/workers.py` | rows of `worker.job_history` and `worker_schedule`, the threads of the API processes | run, retry, cancel; create, update, delete a schedule; tick | status written by key after an earlier read; job row and list entry are written by separate steps; a cron expression that cannot be read; processes die inside a script |
| remediation, playbooks and self-healing: `motor/remediation.py`, `motor/playbooks.py`, `cognitive/self_heal_disk.py`, `self_heal_check` in `workers/cognitive_tasks.py` | hashes of the insights handled; a playbook's phase and its thread; rows of `cognitive.self_heal_action` and `insight`; the Docker host | propose and route; precheck, execute, verify, roll back; analyse and clean a host | awaits between test and set of the memory; a timeout ends the wait for a thread, never the thread; ARQ cancels a job at its own timeout; the heal is recorded last; other users of the Docker host, an engine that does not answer |
| token bucket: `motor/concurrency.py` | semaphore permits, `_current_tokens`, waiters | start, stop, acquire, release, refill | two counters moved at different moments; waits that time out while they are served |
| chaos engine: `motor/chaos.py` | registered runs, host locks, aborted runs | run_experiment (pre-flight, dry run, approval), abort | kill switch and cancellation at any moment |
| notifications: `motor/notifications.py` | none but the call's | escalate_notify over the webhook and two placeholder channels | lost answers, retries |
| LLM client, budget: `llm/client.py`, `llm/budget.py` | circuits per backend; spent tokens and their window | all request methods with retries; check, record | checked before an await, changed after it |
| guards: `governance/guard_gate.py`, `llm/guard.py`, `governance/policy_enforcer.py` | active policies | guarded call; evaluate at five levels | a guard service that fails, policies edited meanwhile |
| audit ledger, prompt governance: `control/audit_ledger.py`, `control/prompt_governance.py` | `agent_run` rows with a JSON scope, templates and their versions | start, record, deny, close a run; register, deactivate, read a template | sessions with copies over READ COMMITTED rows |
| retrieval: `retrieval/broker.py`, `ranker.py`, `task_types.py`, `chunker.py` | packs under assembly, chunks | chunk and deduplicate; assemble a pack in five stages under a token budget | queries that fail inside a transaction, a foreign key that refuses documents |
| loaders and seeds: `loaders/`, `seeds/` | registry, discovery and taxonomy rows | three audit loaders, two seeds | several at a time, a node that fails inside the one transaction |
| migrations and retention: `migrations/versions/0001` to `0011`, `workers/retention.py` | schemas, relations and their dependencies, the version row; monthly partitions | upgrade, downgrade; create and drop partitions, delete old rows | two alembic processes, an optional extension, statements that fail, months that pass |
| cognitive statistics, SLO framework, middleware, observability, knowledge graph, agent updater, frontend, deployment, audit subprojects | counters, configuration, one-shot data | - | not modelled, section 6 |

### How they interact

- A daemon enrols, then posts snapshots and heartbeats; both take the agent's row lock, so
  SnapshotPipeline (what is stored) and AgentRegistry (what the agent's row says) are two
  views of the same transactions. They share nothing but that row: the pipeline never reads
  the status and the registry never reads a snapshot, so each is modelled with the other
  left out.
- Stored snapshots may raise events on the bus; the reactive loop forwards them by type and
  risk class to the motor, review or alert streams.
- A plan whose risk class or policy demands it is submitted to the review queue by
  execute_plan; only the others reach the lock and the playbooks. Nothing in the repository
  executes a plan after its review item is approved, so ActionExecution ends at the
  submission and HitlWorkflow begins with it.
- The remediation engine only proposes; its plans are what execute_plan takes (nothing in the
  repository joins the two yet), whose playbooks run through the executor that SelfHeal models. The cron job `self_heal_check` calls the same
  executor directly, past the lock, the policies and the review, so SelfHeal has both users.
- Guarded LLM calls go through `llm/guard.py` to the client; GuardGate is a second user of the
  guard service. They share no state.
- The loaders and the seeds meet in the registry's tables: both write shared services and the
  terms they are described by. `Catalogue` holds what the seeds write.
- The control package's requests are a second, separate governance path; within the
  repository only the tests instantiate it. Likewise nothing instantiates ReactiveLoop yet.
  Both are modelled as the library code they are.

### What is hard in this code

1. Decisions on one review item by several people and two sweeps, each in its own
   transaction, where an UPDATE waits for a row lock and judges its WHERE clause again.
2. Locks that expire while their owner works, and everything that may go wrong between
   Redis doing something and the caller learning of it.
3. Load, check and write without a lock (action requests, enrolment, staleness sweep).
4. At-least-once processing with a memory that is bounded, expires and dies with its process.
5. A client that gives up while the server goes on, and then repeats itself.
6. Work that outlives the wait for it: threads behind a timeout, tokens refilled while held,
   answers to requests sent before a circuit opened.
7. Error handling inside a PostgreSQL transaction: an exception that is caught leaves the
   transaction aborted, and its COMMIT undoes everything in silence.

`hazards` in PROJECT.json lists where each of these bites, with the property that guards it.

## 2. The modules

All modules are TLA+ proper, with one action per step between two points at which another
process can interfere: a database statement that may wait, a COMMIT, a Redis call, an HTTP
exchange. What happens between two such points is one action, with everything the handler
does there.

**HitlWorkflow** - `items` are the committed rows; `lock` and `dirty` the row locks and
uncommitted versions of PostgreSQL (READ COMMITTED); `pc`, `work` and `ask` where each
reviewer's request and each worker's sweep is. `Submit`, `DecideBegin`, `BulkBegin`,
`DecideUpdate`, `DecideRefused`, `RecordFeedback`, `FeedbackError`, `CommitDecision`,
`CommitAborted` follow `submit`, the endpoints, `_decide` and `_record_feedback`;
`Escalate` is the manual escalation; `SweepClass`, `SweepRow`, `SweepCommit` are
`check_escalations`, one UPDATE per risk class that visits its rows one by one, in any
order. `Rollback` and `DeadlockVictim` end a transaction as PostgreSQL would.
`BecomeOverdue` is time. `accepted` records what reviewers were told.
Assumptions: a statement the server rejects aborts the transaction, and COMMIT of an aborted
transaction is a ROLLBACK that raises nothing (asyncpg). `cognitive_tasks.hitl_escalation`
is a stub and does nothing.

**ActionExecution** - `redis` maps keys to tokens; each worker's `pc`, `plan`, `tokens` and
`at` are the local variables of one `execute_plan`. `ExecutePlan` is routing with all its
early returns, `Acquire`, `AcquireDenied`, `AcquireError` the SET NX with its three answers
(an error before or after the effect), `BeginPlaybooks` to `EndPlaybooks` the loop over the
actions, `Release` and `ReleaseError` the compare-and-delete script, `Return` the end.
`Crash` and `Expire` come at any time. Two actions may have one key, because `_lock_key`
replaces ":" by "_". The TTL is not related to how long playbooks take (four stages of up to
`timeout_s` may exceed the 300 s window), so the model covers every window.

**RequestLifecycle** is the abstract specification: the order of statuses a request may go
through. **ActionRequest** implements it: `Load`, then `Refuse` or `Flush`, then `Commit` or
`Rollback`, for each of the six transition methods, with `FromStatus` (the status tests of the
methods), `Allowed`, `NewStatus`, `TraceRows` and `ApprovalEligible` holding what distinguishes
them, and `PolicyCheck` for `create`. A commit writes the columns that differ from the copy, so
the approval record only when `approve` sets another one (`Attaches`). The refinement holds for one caller at a time; the races are the
subject of another part of the same run.

**Reactor** - `log`, `trimmed`, `delivered`, `pel` are the stream and its group; each reactor
has a `batch`, a memory `seen` (with `stale` entries past their TTL) and a `pc`. `Read`,
`Duplicate`, `Forward`, `Ack` and their error variants are `run` and
`_handle_event_safely`; `GoStale`, `RequestShutdown`, `Stop`, `Crash`, `Start` the rest.

**SnapshotPipeline** - `buffer`, `last`, `posts` are the daemon's; `requests`, `rowLock`,
`store` the server's. `Collect`, `Flush`, `FlushDone`, `FlushFailed`, `FlushTimeout`, `Ping`,
`Stop`, `End`, `Start` follow the daemon, `LockAgent`, `StoreNext`, `CommitRequest`,
`FailRequest` the endpoints. A request goes on in the API when its client has given up.
`stop()` only clears `_running`, which the loops test between their rounds: `left` holds what may
still come of the rounds that were under way (`Runs`) - a pass over the collectors, the flush
loop's flush, a ping - beside the flush of `stop()` itself, until the process ends.

**AgentRegistry** - `rows` are the agents of one host. Enrolment and sweep are a read and a
later write of the changed columns only (SQLAlchemy), so `EnrollRead`/`EnrollCommit` and
`SweepRead`/`SweepCommit` are separate actions; `Report` and `Retire` are one step each.
The heartbeat's age is one of four classes, as far as `derive_agent_status` tells ages apart.

**WorkerJobs** - `jobs` are the committed job rows in the order of creation, `thread` and
`home` the thread that runs `run_script` for a job and its API process, `cancels` the cancel
requests between their read and their write, `table` the schedules, `tick` where the
scheduler is in `_tick_sync`. `RunTask` and `RetryJob` insert a row
and start a thread; `Begin`, `Finish`, `CommitError` are `run_script`; `CancelRead` and
`CancelCommit` are `cancel_job`; `ProcessDies` takes the daemon threads of a process along.
`TickBegin`, `Skip` or `Choose`, `Insert`, `Push` are a tick; `TickFails` is a statement or a
connection that fails in it. Nobody tests a cron_expression before croniter does, in the tick:
a schedule whose expression cannot be read (`valid`, `BadCron`) ends every tick that comes to it
(`CronRaises`), as it stays due. `PushRefused`: Redis refuses the LPUSH while ARQ's sorted set
has the key. The list itself has no reader and is no variable: a row of the scheduler stays
queued whether it was pushed or not.
A commit expires the copies of the schedule rows that SQLAlchemy holds, so the tick reads them
again and fails when one has been deleted (`RowGone`). `lost` is a history variable: jobs
whose thread or tick ended without its last write. Of `next_run_at` only whether it is due is kept. The run
has one scheduler; the code has nothing that would keep two apart, and with two the jobs of a
task do pile up (section 5).

**TokenBucket** - `sem` and `queue` are the asyncio semaphore (external: it hands a released
permit to the oldest waiter, which resumes later), `tokens` is `_current_tokens`. `acquire`,
`resume`, `give_up`, `release`, `refill`, `start`, `stop` are the methods, cut at their awaits.

**TokenBudget** - `used` and `stale` are one caller's entry and whether its window has ended;
`check_budget`, the call, `record_usage` are separate steps of each task. `behind` (in a task:
what others have recorded since its check) and `excess` (what the check of the call recorded
last could not know of) are history.

**LlmClient** - `circuit` is the breaker of the reasoning backend, the only one that is read;
`call` is where each caller is in the retry loop, in the rounds of `reason_structured` or in
the scan, generate, scan of `llm/guard.py`. `Respond` is an answer of each kind, `CooledDown`
time. The guard service's verdict is an input, and it may be an error.

**GuardGate** - `evaluate` up to its await of the guard service, the levels after it, and
`PolicyChanges` in between, with `PolicyEnforcer.check` translated rule by rule. The setting
LLM_GUARD_FAIL_CLOSED has its default, true. The guard service may answer without a verdict
(`silent`), which the code takes for safe.

**Remediation** - `propose` with its tests, the await in `_route`, and what is remembered
after it; confidence and risk classes are the code's tables.

**Chaos** - a run's pre-flight checks, registration, simulation, cancellation and `abort`.
`_check_hitl_approval` answers False, so no live experiment gets further than that.

**Notifications** - `escalate_notify` with the webhook's attempts and a receiver that may
take a notice whose answer is lost; the e-mail and Slack notifiers of the higher levels are
placeholders, which reach nobody and answer True. `webhook` is the webhook's answer, `any` that
of the call.

**SelfHeal** - `job` is where each run of `self_heal_check` or each playbook of a plan is
(`pre_check`, `execute_*`, `post_check`, `rollback` of PlaybookExecutor), `thread` the thread
that drives the Docker socket for it, with one action per request (`prune_*`, `list_*`,
`try_remove`); `docker` is the host, changed by others through `OthersChange`, and its engine, which answers,
keeps silent or is gone. A thread goes on after its job has timed out, and after `job_timeout`,
ARQ's own, which cancels the job at an await: CancelledError is caught nowhere, so there is no
rollback, no result and no record. `acts` are the records of the last hour, which `query` reads
and `persist_action` writes after everything else; `heals`, history, are the cleanups that began
in that hour, recorded or not. `JobFails` is an INSERT that raises. Sizes are left out: whether
there is enough to reclaim is free, whenever the engine tells of anything. So are the insights,
which no job reads, but not the failure of their INSERT. `thread` keeps whether any phase of
the cleanup met an error, which is all that its own `success` can say. Deleting without force is
Docker's own guard (external).

**Ledger**, **PromptRegistry** - sessions that load a row, work on the copy and flush the
columns that differ, then commit or roll back. `template_code` is UNIQUE, so an INSERT waits
for another session's row of it and fails after its commit.

**EvidencePack** - the five stages of `assemble` over contracts taken from `task_types.py`,
with the ranker's order and tiers, a query that aborts the transaction, and the two flushes,
which raise in an aborted transaction and at an item of `UnknownKind`: documents and chunks carry
`_UNKNOWN_KIND_TERM_ID`, a foreign key to a term that nothing inserts. Every contract but those of
TT-001 and TT-003 requires a class that is a document or that no stage collects, so packs of
these two are the only ones that are ever persisted. **Chunker** - the
chunker on paragraphs of equal characters: splitting, overlap, flushing, merging and
deduplication are computed as the code computes them. Both loops are recursive functions over the
paragraphs, chunks or items done so far (`Assembling`, `Tagging`, `Kept`), so that a proof can go
from one to the next. **SubSequences** has the list comprehension with a condition that both use.

**Loaders** - one transaction per script; a row is a key with a value, and an INSERT of a
UNIQUE key waits for another transaction that holds it (`Row` and `Over` write a row over
others: the provers know nothing of TLC's `:>` and `@@`, so neither module uses them). Each node of an audit is an action
that inserts all the rows the loader inserts for it, or raises where it raises. **Catalogue**
holds the terms and services of the two seeds, and how a service kind is inferred.

**Migrations** - the eleven revisions as sequences of DDL statements on relations, schemas,
foreign keys, views, triggers and the altered columns, with what PostgreSQL refuses (an object
that exists, one that is missing, one that others depend on), under alembic's transaction.
`Running` is what a list of statements has made of a database after each of them.
**Retention** - the monthly job statement by statement in AUTOCOMMIT mode beside the writers.

`*_proofs` extend the module they are named for and begin with the lemmas about sequences (cut,
joined, appended to, shortened) and sets that they cite. `MC*` give TLC the constants a configuration cannot write (specifications and approval records,
policies, insights, hosts, audit files, documents, results of queries); the modules themselves take them as CONSTANTS, so
that the proofs are about all of them. MCActions, MCMotor and MCProvisioning hold several modules that share no state:
a variable `part` says which of them moves while the rest stays at its initial state, so that
one run explores each by itself and their state counts add instead of multiply. Parts that do
share state (heals and plans in SelfHeal, the loaders and the seeds) are one module, or, for
the daemon and the registry, two views of the same transactions as said above.

## 3. The runs

| run | instance | properties | states |
|---|---|---|---|
| hitl_races | 2 items of 2 classes, 2 reviewers, 2 sweepers, 2 escalations | TypeOK, BlockedIffExhausted, AcceptedDecisionStands, FeedbackMatchesDecision, TerminalRowsAreFinal | 2.0 M |
| hitl_live | 2 items of one class, 1 reviewer, 2 sweepers, 1 escalation, 1 fault | EventuallyClosed | 350 k |
| hitl_feedback_error | 1 item, 1 reviewer, 1 sweeper | AcceptedDecisionStands is violated | - |
| actions | plans: 2 workers, 3 actions on 2 keys, 6 plans, 3 runs, 1 fault; requests: 2 with 1 caller at a time, or 1 with 2 sessions, 4 specifications, 5 records | TypeOK, NoDuplicateExecution, NoForgottenLock, OnlyOwnerReleases, ExecutionIsApproved, TraceSound, ImplementsLifecycle | 2.5 M |
| reactor | 2 reactors, 3 events, 3 messages, batch of 2, stream of 2, memory of 1, 2 faults | AckedIsForwarded, MemoryIsSound, EveryMessageIsRead | 320 k |
| reactor_redelivery | 1 reactor, 2 messages, 1 fault | PendingIsRedelivered is violated | - |
| pipeline | 1 kind, 2 payloads, buffer of 1, batch of 1, 3 snapshots, 3 requests, 3 faults | StoredOnce, BufferIsSound, EventuallyStored | 1.3 M |
| agent_registry | 2 daemons, 1 sweeper, 2 agents, 1 failed sweep | RowsAreSound, EnrolmentLeavesOneAgent, StatusSettles | 750 k |
| worker_jobs | 1 task, 2 schedules with readable or unreadable cron expressions, 1 process, 1 scheduler, 2 jobs, 1 fault or deletion | RowsAreAccountedFor, SchedulerDoesNotPileUp, JobSettles, ScheduleIsServed | 630 k |
| motor | bucket of 2 with 3 callers; 3 proposers; 3 chaos runs on 2 targets, 2 at a time; 1 notice, 3 attempts; 2 heals or 1 plan over 2 hosts and 3 images, one of them in use, 1 disturbance; 2 LLM callers, threshold 2, 1 retry; 2 tasks on a budget of 3; 1 evaluator, 2 policies | TokensAreConserved, DuplicatesNeedOverlap, GuardsHold, CleanupIsSafe, ReportsAreBounded, FailuresBlock, WaitsEnd, RecoveryCloses | 390 k |
| provisioning | 2 alembic processes; 2 scripts, 4 runs, 2 audits, 1 fault; 5 months, 1 failure; 2 sessions with 2 events and 3 commits, or 4 prompt calls of 3 versions; 3 lists and 5 entity lists per stage; documents of up to 3 paragraphs | SchemaIsTracked, LoadsAreSound, SeedIsAuthoritative, PartitionsCover, PackIsSound, BooksAreRight | 230 k |
| retention_partitions | 5 months, 1 failure | OldPartitionsAreDropped is violated | - |

Why the bounds are enough for what is asked:

- HITL. Two reviewers and two sweepers are every pair of actors that can meet on a row; two
  items are what a deadlock and a bulk decision need; with two escalations a row passes
  through pending, escalated and blocked. The races run without faults (a fault ends a
  transaction, which hitl_live includes) so that four actors fit.
- Execution. Two keys taken in both orders, one of them through two names, show lock order,
  partial acquisition and key clashes; three runs let a worker come back to a key that has
  passed to the other and on.
- Requests. The four specifications are one of each way `check` distinguishes risk classes
  (read-only, supervised, bulk with and without snapshot), the five records one of each way a
  record can be wrong, the empty scope included.
- Reactor. A memory of one id and a stream of two messages are full after two messages, so
  eviction and trimming happen with three; two faults allow an error and a crash.
- Pipeline. With a buffer of one a batch of one that comes back overflows the buffer, by one
  batch while the daemon runs and by two while it stops: two batches are under way then, and
  the third snapshot has taken their room. Three requests are these, or a batch, its repetition and a ping;
  two payloads let A, B, A happen; three faults are the stop and two batches that come back.
- Registry. Two daemons leave two active agents by racing; a third enrolment cleans up.
  One sweeper suffices for a write after a stale read; two sweepers differ only in that two
  stale writes may be under way, and that instance is too large for the liveness check.
- Jobs. Two jobs of one task are a job and its retry, two jobs of the scheduler, or one of
  each; two schedules of the task are what one tick can pile up with, or one that stands in the
  way of the other; one fault is a thread or a tick that fails, or a schedule that is deleted
  under a tick. Cron expressions that cannot be read and refused pushes come as often as they like.

- Motor. Three callers of a bucket of two are two holders and a waiter; the refill then
  overcommits. Three proposers: two that overlap and one that comes later. Three chaos runs
  on a limit of two. Two heals are every pair; plans use the same steps and are explored with
  one. A disturbance is a change by others, a Docker request that fails or an INSERT that
  raises: one of them is each alone (with two, 1.9 M states, the safety properties hold as well).
  Timeouts and cancellations are not bounded. An hour passes only while a job is still to come,
  since nobody else can tell. A threshold of two trips on a retry, and two callers are two probes, or a probe and a
  late failure. A budget of three with estimates of one to three is met exactly, undershot
  and passed. One evaluator suffices, evaluations share only the policies.
- Provisioning. Commands go up to the head, to 0008 from either side, and down by one
  step, so every revision is crossed in both directions, alone and in a batch. Four runs of the scripts are
  two loads and the two seeds, or a load twice with a seed between; each audit has a node that
  works and one that does not. Of the 43 services of the seed three are written: two whose
  codes a loader also writes, in the opposite order, and one that is only planned; the
  property looks at these rows. Five months let the three-month window pass. Texts of three
  paragraphs are one to merge, one to overlap and one after it. Documents, query results and the
limits of the chunker are CONSTANTS, given by the configuration: chunks of at most 3 tokens of 2
characters (the code's are 4), an overlap of 1 and a minimum of 2, against paragraphs of 1, 2 and 5
characters; costs of 1, 6 and 7 against budgets of 2 to 12.

The abbreviated properties: MemoryIsSound is TypeOK and ForwardedOncePerMemory, StoredOnce
NoDuplicateSnapshots and VersionsContiguous, BufferIsSound TypeOK, BufferBounded and
NothingLost, RowsAreSound TypeOK and RetiredIsFinal, RowsAreAccountedFor TypeOK,
PendingIsAccountedFor and SchedulerRowsStayQueued. The properties of motor and provisioning conjoin those of the parts.

`motor`, `provisioning`, `reactor`, `pipeline` and `worker_jobs` do not check deadlock: proposals,
experiments and scripts come to an end, a reactor may be shut down for
good, an agent stopped, and the bounds on faults, requests and jobs may be used up (in the
program a job can always be asked for). Everywhere else some process can always move.

### Fairness

- hitl_live: requests and sweeps that have begun go on (the event loop and the database
  drive them), every API worker sweeps again and again (`_escalation_loop` survives every
  exception), and time passes. A sweep that waits for a row lock gets it although others
  take and release that lock meanwhile - strong fairness of `SweepRow` - because PostgreSQL
  queues the waiters of a row. Nobody has to decide anything.
- reactor: a reactor that is up keeps running its loop. Nobody has to publish, or to restart
  one that has gone down.
- pipeline: the daemon's flush loop keeps flushing while it is up, and an API worker finishes
  the request it has begun. The property is excused when the agent goes down or the bound on
  requests is used up; the bound on faults keeps timeouts from going on forever, which the
  code cannot rule out either.
- agent_registry: every API worker sweeps again and again. No agent has to report.
- motor: the refill task wakes up and a waiter that was handed a permit resumes (asyncio runs
  what is ready); a self-heal that has begun goes on, but its thread need not, because the
  Docker socket has no timeout; of LLM calls, the cooldown passes, a sleep before a retry
  ends, and a request is answered or times out. Nobody has to acquire, call or release.
- worker_jobs: a thread that was started runs and its script ends (`subprocess.run` has no
  timeout, so that is an assumption on the scripts), and the scheduler ticks again and again
  (`run` survives every exception). Nobody has to run, retry or cancel anything. A schedule is
  excused while a due one has a cron expression that cannot be read.

## 4. What the properties say

- *A decision stands.* Whoever is told that a decision was taken finds it, under their name,
  in the row forever (AcceptedDecisionStands); closed rows never change
  (TerminalRowsAreFinal); count and status agree (BlockedIffExhausted); the statistics the
  LLM is judged by have one right row per decision (FeedbackMatchesDecision); an overdue item
  is closed in the end (EventuallyClosed).
- *Playbooks exclude each other* as far as the window reaches (NoDuplicateExecution), a late
  release never takes the next owner's lock (OnlyOwnerReleases), and no path through
  execute_plan forgets a lock (NoForgottenLock).
- *Nothing executes unapproved,* however callers race (ExecutionIsApproved); a trace means an
  execution, and for one caller at a time there is one for each (TraceSound), whose life is
  the abstract one (ImplementsLifecycle).
- *Events:* acknowledged means forwarded (AckedIsForwarded), at most once per memory
  (MemoryIsSound), and the loop survives its errors (EveryMessageIsRead).
- *Snapshots:* stored once and numbered without gaps (StoredOnce), not lost once their hash
  counts as reported, in a bounded buffer (BufferIsSound: over its limit by one batch at most, or two
  while stopping), stored in the end (EventuallyStored).
- *Agents:* a retired agent stays inactive (RowsAreSound), an enrolment that no other
  overtakes leaves one agent (EnrolmentLeavesOneAgent), and the stored status settles on what
  the heartbeats say (StatusSettles).
- *Jobs:* a row of the API that counts as pending and so holds its task back is one that a
  thread will still run or runs, or that a failure explains; a row of the scheduler is run by
  nobody and holds its task back until it is cancelled (RowsAreAccountedFor). The scheduler does
  not pile up jobs of a task (SchedulerDoesNotPileUp), the status of a job settles although a cancel
  may land at any moment (JobSettles), and a due schedule is served although ticks fail, unless a
  cron expression that cannot be read ends them all (ScheduleIsServed). RowsAreAccountedFor and
  ScheduleIsServed say in these two places what the code does, not what one would wish.
- *The motor:* no permit is lost or made up and a budget is overdrawn only by what the
  check of the last call could not know: what others recorded after it, and what the call used
  beyond its estimate (TokensAreConserved); a second plan for an insight needs an overlap, and so does a second
  cleaning of a host within the hour, unless the job of the first one failed or was cancelled before
  it had recorded it (DuplicatesNeedOverlap: it looks at what was done, not at the records); only logging is approved without a human, chaos
  runs keep to their hosts and their number, and an abort that was confirmed is final
  (GuardsHold); no image is removed that a container uses or a protected tag names, also by a
  thread that nobody waits for any more (CleanupIsSafe); a run that reports success has nothing under
  way, and its cleanup met errors only if the engine or other people disturbed it; one that reports
  an error was rolled back exactly when its execution had begun; the webhook's yes means that the
  notice was received, and a yes without a receiver comes from a placeholder (ReportsAreBounded);
  waits end (WaitsEnd).
- *Language models:* an error, an objection or a rule lets nothing through; an answer of the
  gate's scanner that gives no verdict does (FailuresBlock). A backend that has recovered is used
  again in spite of late failures (RecoveryCloses).
- *The database:* version row and schema agree after every alembic command (relations, schemas,
  foreign keys, views and what is added to a relation later; the embedding's type, its index and the extension
  depend on the server and are not compared, nor is the right to create the extension modelled), and
  no upgrade fails on what a downgrade left (SchemaIsTracked); what a load reports is all there or all
  gone, and rows without a UNIQUE constraint double only by overlap (LoadsAreSound); a
  service of the seed has the seed's terms and no lookup raises (SeedIsAuthoritative); there is
  a partition to write to (PartitionsCover).
- *The books:* an ended run stays ended unless a stale copy overwrote it - which the code lets it
  do - and one template is active (BooksAreRight); a stored pack has every mandatory class and no
  forbidden one, lacks nothing that was collected, comes mandatory first and fits its budget, it is
  of an audit or a reconciliation, and chunking loses no paragraph (PackIsSound).

### Where the code and its words differ

Three runs end in a counterexample, each against a sentence in the source:

- hitl_feedback_error - `hitl_workflow.py:269` logs "decision still saved" when feedback
  fails. If the database rejected the statement the transaction is lost, the decision with
  it, and `_decide` still returns True. If `_record_feedback` raises in Python, the decision
  is saved and only the feedback row is missing; the model has both.
- reactor_redelivery - `nervous/reactor.py:157` says a message whose ACK failed "will be
  redelivered"; `subscribe` asks for new messages only and nothing calls
  `claim_stale_messages`.
- retention_partitions - `workers/retention.py:3` "Drops old partitions and stale rows" and
  line 8 gives `telemetry.metric_point` 90 days. The interval is passed through an identifier
  check as `90_days`, which begins with a digit and is refused; the error is caught, the job
  answers "completed", and no partition is ever dropped. Repairing only the check would not do:
  an empty partition counts as old, so the job would then drop the ones it has just created.

Noted while modelling, without a run: `control/action_workflow.py:4` promises "non-expired"
approvals at execution, and `begin_execution` does not look at the expiry;
`control/action_workflow.py:398` says executing requests cannot be revoked, and a revoke that
loaded the row earlier does it; `run_script` marks a cancelled job running and runs it; the
scheduler pushes its jobs to `infraq:arq:queue`, a list that nothing in the repository reads,
so they stay queued and `_has_pending_job` skips the task from then on (and nothing
instantiates `CronScheduler` yet); ARQ keeps its own queue, a sorted set, under that very key
(`workers/queue.py:53`), so the LPUSH may be refused with WRONGTYPE; `cron_expression` is any
string (`api/schemas/ops.py:103-107`), and one that croniter refuses ends every tick
(`workers/scheduler.py:148`, `188` and `210`), so the schedules after it are never served;
`stop()` of the daemon does not stop a pass over the collectors that is under way, so the buffer
may pass its limit by two batches; RC-3 is described as dual approval
(`motor/remediation.py:9`), one decision closes every item; an empty approval scope covers
everything for `create` (`control/policy_matrix.py:243`) and nothing for `approve`; the loop
that routes anomalies never reads `cortex:anomaly`, where it sends them
(`nervous/reactor.py:8`); `PolicyEnforcer` looks at a plan's first action only; a report of
a retired agent sets its status to online while `is_active` stays false; the server compares
a payload with every earlier one of its kind, so in A, B, A the return to A is not recorded;
`cancel_job` answers "Only queued jobs can be cancelled" (`api/routers/workers.py:157`) after a
test of the row it has loaded, so a job that began or ended meanwhile becomes cancelled.

In the motor: the RC-4 branch of `_route` cannot be reached; escalation levels from two on
report True from placeholders; `_clear_disk_post` looks at no threshold, and
`motor/playbooks.py:190-195` runs the cleanup without looking at the `success` it returns, so a
clean-up that failed can be reported as a success; the heal is recorded last, so a job whose INSERT
fails, or that ARQ cancels at its `job_timeout` of 600 s (`workers/queue.py:17` and `55`), leaves no
record, and the next job cleans the host again; a cancelled playbook is not rolled back either
(`motor/playbooks.py:551` and `567` catch no CancelledError); the table
`cognitive.self_heal_action` and the column `insight.evidence` are created by no migration
(the model starts with and without them); threads that hang on the Docker socket occupy the
executor for good; `governance/guard_gate.py:116` lets a body without `safe` pass (`body.get("safe", True)`)
although the docstring above it, lines 98-99, says that the scan fails closed; policies are compared case-sensitively while `classify_risk` lowercases.

In the database: a downgrade is not always reversible although the release notes say
"Reversible if downgrade script exists"; 0006 asks for an HNSW index over 4096 dimensions,
which pgvector refuses, so on a server with the extension the chain stops there;
`record_event` extends the list inside the stored JSON, SQLAlchemy sees no change and the
events after the first of a session are lost; `template_code` is UNIQUE, so a second version
of a template can never be registered; packs for TT-004 and TT-005 can never be assembled,
because no stage fetches a class they require, and those for TT-002, TT-006 and TT-007 never be
stored, because they require a document: documents and chunks get the entity kind
`_UNKNOWN_KIND_TERM_ID` (`retrieval/broker.py:140`), a foreign key (0001, lines 1457 to 1462) to a
term that no migration and no seed inserts, and the flush at `broker.py:627` fails - for the other
two contracts as well once they collect one; a database error in stage 4 is swallowed and leaves
the transaction aborted, but only TT-005 has a semantic stage, so no pack is lost by it today; recommended artifacts may take the budget of
mandatory documents; `max_tokens` of a chunk is not a hard bound.

## 5. The proofs

TLC's instances above are small. The theorems hold for every value of the constants: any
number of actors, rows, messages, steps and faults. They start from the named assumptions of
the modules (types of the parameters, disjoint sets of processes, limits above zero) and from
nothing else, except where a theorem says so in an ASSUME. Two need such a hypothesis, and
both for a reason that is a fact about the code:

- with FeedbackMayFail = FALSE, that is, while the INSERT of the feedback is not rejected
  (`DecisionsStand`, `FeedbackIsExact`). hitl_feedback_error is the counterexample without it;
- with one scheduler (`OneSchedulerDoesNotPileUp`). Two may both find no pending job
  (`_has_pending_job`) and both insert one; the run has one scheduler as well.

Every proof has one shape. The invariant a run checks is not inductive by itself; a
strengthening is, and there is one lemma for each action, or group of actions, that says the
step preserves it.

**HitlWorkflow_proofs.** TerminalRowsAreFinal and BlockedIffExhausted speak of committed
rows, but a row changes by a COMMIT that installs a version written earlier. So the inductive
invariant `TypeLock` is TypeOK together with `LockInv`: a row somebody has locked is open,
and its uncommitted version is a legal successor of the committed one (a decision by the lock
holder, or an escalation). The heart is that nobody else can change the row while it is
locked. From it:

- `TypeCorrect`: TypeOK, rows hold only the statuses of the CHECK constraint;
- `RowsAreFinal`: TerminalRowsAreFinal, through `NextRow`, which lists all that one step may
  do to a committed row;
- `EscalationsConsistent`: BlockedIffExhausted, from the same list;
- `DecisionsStand`: AcceptedDecisionStands;
- `FeedbackIsExact`: FeedbackMatchesDecision. A row and its feedback change in the same
  COMMIT, and no step but a rejected INSERT parts them.

**MCActions_proofs.** For the lock the invariant `LockInv` has five parts: the types; `Shape`,
where a worker is in its plan and how many tokens that means; `Unique`, no token is held
twice; `Held`, a lock that was taken and not yet given back is in Redis under the key of its
action unless its TTL has run out; `Owned`, a stored token belongs to a worker that will
release it or is an orphan. From it:

- `TypeCorrect`: TypeOK;
- `MutualExclusion`: NoDuplicateExecution - two workers in playbooks under one key, neither
  lapsed, would by `Held` hold the same stored token, against `Unique`;
- `LocksAreReleased`: NoForgottenLock, which is `Owned` without its detail;
- `LocksAreNotStolen`: the action property OnlyOwnerReleases, from what each action does to
  Redis.

For requests the invariant `RequestInv` relates each caller's copy to a row that may have
moved on. `RowInv`: an approved row fits its record, an RC-4 row has its snapshot, a row that
was begun is in the history `begun`. `CallInv`: a copy has the row's own specification (which
never changes), the row's record is the copy's or one that fits, and what the copy has seen of
approval is still true of the row, because no method
takes a record away from an approved row or replaces it by one that does not fit. So a write
from a stale copy may lose a status but cannot make an unapproved row execute.

- `RacesAreSafe`: the methods by themselves, for any number of sessions at once;
- `ExecutionsAreApproved`: ExecutionIsApproved;
- `TracesAreSound`: TraceSound; for one caller at a time it also needs `SerialInv`, that
  the copy in use is the row;
- `LifecycleIsImplemented`: ImplementsLifecycle, the refinement. Initial states map to initial
  states, and by `SerialInv` every step is a step of RequestLifecycle or a stutter.

**SnapshotPipeline_proofs.** `PipelineInv` is `StoreInv` and `BufferInv`. `StoreInv`: only the
transaction that has the agent's row lock has rows of its own; the versions of the rows it
sees, committed and its own, are 1 to their number, no payload of a kind is among them twice,
and what it has dealt with is there; a request answered 200 is stored. So MAX(version) + 1 is
right although it is read without a constraint behind it, but only because the lock comes
first. `BufferInv`: what was collected is in the buffer, in a flush that is under way, stored,
or recorded as gone, and nothing else is in the buffer. That the buffer is within its bound needs
more than the bound: what is in it and in the two batches under way together is within it, and
`stop()` has a batch only while the daemon is stopping. From them `PipelineInvariant`,
`SnapshotsAreStoredOnce` (StoredOnce) and `BufferIsAlwaysSound` (BufferIsSound).

**Reactor_proofs.** `ReactorInv` adds three parts to the types. `StreamInv`: a message that was
delivered is pending, was trimmed before, or its event is handled. `HandledInv`: every id in a
memory is of a handled event, and so is the event of whoever is about to acknowledge - the
reason why forward, remember, acknowledge is the right order. `OnceInv`: what a reactor has
forwarded of an event is at most the number of times it has lost the id, plus one while it
remembers it. From them `AcknowledgedIsForwarded` and `MemoryIsAlwaysSound`.

**MCMotor_proofs.** The parts share no state, so each has an invariant of its own, and a lemma
says that a step moves one part only. MotorAssumption holds the settings: a finite set of callers,
limits that are numbers, hosts that are in the fleet once, protected images that are not dangling, images in use that exist.

- `TokensAreAlwaysConserved`: TokensAreConserved. `BucketInv`: the woken callers are the first
  n of the queue, which has nobody twice, and `tokens` is `sem` plus n; holders and tokens
  exceed the maximum by no more than was refilled. `BudgetInv`: a task that was checked in the
  window under way fits the limit but for what others have recorded since.
- `GuardsAlwaysHold`: GuardsHold. `ChaosInv`: who is registered, who holds which target and
  where each run is agree, registered runs are within their number, and a run whose abort was
  confirmed is in the history without success only. `RemedyInv`, below, has the other half.
- `FailuresAlwaysBlock`: FailuresBlock. `GateInv`: an evaluation that awaits the guard service
  has a clean action and has allowed nothing yet, and the policies that stood all the time are
  active. `LlmInv`: a call past its input scan has that verdict and no other.
- `DuplicatesAlwaysNeedOverlap`: DuplicatesNeedOverlap. `RemedyInv`: two proposers under way
  with one key, or one under way and a plan with its key, have overlapped. `JobsInv`: two
  heals under way have overlapped, one under way has read every record of another or has
  overlapped it, and a heal is recorded unless its job is still in it, or failed, or was cancelled.
- `CleanupIsAlwaysSafe`: CleanupIsSafe. `ThreadsInv` speaks of the threads and the host alone, so
  it does not matter whether a job still waits for its thread.
- `ReportsAreAlwaysBounded`: ReportsAreBounded. `JobIsSound`: which of executed, rolled back,
  result and thread go together at each point of a job; `ThreadsInv` has where the errors of a
  cleanup come from. `NotifyInv`: a receiver has got no more than was attempted, a yes of the
  webhook has reached it, and the call's yes is the webhook's or has a level above the first.

**WorkerJobs_proofs.** `JobsInv` is `RowsInv` (types; a thread, a cancel and a tick speak of rows
that exist) with PendingIsAccountedFor and SchedulerRowsStayQueued, which are inductive over it:
`RowsAreAlwaysAccountedFor`. `PileInv`: of one task there is at most one pending job of the
scheduler, none while the scheduler is between its test and its insert, and no thread runs
such a job: `OneSchedulerDoesNotPileUp`.

**MCProvisioning_proofs.** `PartitionsAlwaysCover`: PartitionsCover, from `KeepInv` - the partitions
asked for last are there, because the interval's name is refused and nothing is ever dropped;
the theorem rests on the same defect that retention_partitions shows. `BooksAreAlwaysRight`:
BooksAreRight. `LedgerInv`: a session's copy as old as the row agrees with it, unless the
session has written the status, which it does only to a run that had not ended. `PromptsInv`:
one session at most has inserted and not committed, and only while there is no row.
`LoadsAreAlwaysSound`: LoadsAreSound. `LoadInv` speaks of the keys of rows alone, committed and
not. `ScriptsInv`: every script has a run of its own. `ReportsInv`: a row of a run is written
by the script of that run, so none is committed while the script works or after it has ended
in an error, and a load has written what it has reported. `DevicesInv`: whoever writes a
device has the row of its host, which has one writer, so nobody's rows and the committed ones
ever have a device twice. `InstancesInv`: posture loads that are under way have met, and
whoever is about to insert an instance has met whoever inserted it since the look. One lemma
(`PlainMove`) serves the steps that write neither devices nor hosts nor instances.
`SeedIsAlwaysAuthoritative`: SeedIsAuthoritative. `SeedInv`: committed, the terms are all there or
none is; what a taxonomy seed has not yet gone past is all that can be missing in its view; a loader
writes a service only when it sees none and nobody else's transaction has it; and the seed's own
service rows are those of the catalogue. What makes it a theorem about the seeds and not about
transactions alone is a row of lemmas about Catalogue that the provers evaluate: every code a loader
falls back on is a term, no code of a service is in two domains (`CodesOfOneDomain`), and a
service is known by its code (`ServicesAreKnown`).

`PacksAreAlwaysSound`: PackIsSound. `PackInv` holds while a pack is assembled: what has been
collected is within the budget, or it is the entities of stage 1 alone. One stage keeps it because
`Prefix` takes what fits into what is left. That a persisted pack is ordered, within its
budget and lacks nothing that was collected is shown of the ranker by itself:
sorting is a permutation (a rank is the number of items before it, and before is a strict total
order), so what `select` keeps of it costs no more than what was collected, and is all of it when
that is within the budget. Entities alone may exceed it, but then no contract has all its mandatory
classes. `StorableTasks` reads off the contracts which of them can do without documents, chunks and
the classes that no stage collects.
`ChunkInv` says that a chunked document is `Complete`. `Assembling` and `Tagging` are followed from
one paragraph or chunk to the next: every paragraph seen so far stands whole in a chunk that is
out or in the one being put together, and joining, overlapping, stripping and merging leave it
whole, because a paragraph begins and ends with a character that is not a newline.

`SchemaIsAlwaysTracked`: SchemaIsTracked. `SchemaInv` says that the committed database is at its
version (`AtRevision`), and that a transaction without an error has the schema of the version it
has reached, between its base and its target (`OnCourse`); one whose upgrade failed was at 0005 and
has pgvector. What carries it is a statement for each revision, and the argument has four parts:

- *What the revisions are.* `Revision1` to `Revision11` run the upgrades once, on the schema
  without a version row: all their statements are legal, and what is there afterwards is listed
  by name (`Ready`). That a statement is accepted where it stands can be read off the list
  (`Checked`: its relation is new, what it refers to is there, given what the statements before it
  make); `CheckedRun` shows, by induction over the list, that the database then ends as the names
  say, so each list of statements is one step (`Up3Runs` and the like).
- *An upgrade does the same everywhere.* `SameRun`: statements that only add (`Plain`) have the same
  outcome on two databases that differ in the version row and in the embedding alone, hence on
  the database as on the revision. 0002 and 0006 also create an index and change the embedding:
  they touch no relation, the index of 0002 fits (`HnswMaxDim >= 1536`), and 0006 is
  the only one that may be refused, where there is pgvector.
- *A downgrade undoes its upgrade.* `DownRun`: while only what the upgrade has brought is dropped,
  the database stays between the two revisions (`Between`), and when all of it has been, it is the
  lower one. Nothing is dropped that somebody else depends on, since every dependent is new. That
  a downgrade names all that its upgrade brought and nothing older is again read off the two lists
  (`TakesBack`); 0011, which tied a relation it found to its function, unties it first.
- *Two downgrades do not.* 0001 and 0007 drop the schema `governance`, and the version row with it;
  the row can then not be moved (`Rowless`), so neither ever commits.

So what these two have dropped is rolled back: no command takes a schema at 0007 or above below
0007, or one at 0001 to nothing, and the schema stays consistent nevertheless.

What these functions compute for every input is shown by induction. The induction theorems of
the library take an operator as a parameter, which the provers here cannot instantiate; `Induction` takes a
set of numbers instead, and rests on the well-foundedness of the naturals alone. A recursive
function is a CHOOSE of a function that solves its equation, so each is first shown to exist, by
induction on the length of its domain (`RunningSteps` and its like); from then on it can be unfolded.

**AgentRegistry_proofs.** `RegistryInv` relates the copies to rows that move on. `RowsInv`: types, and
a row exists only for a number that was given. `EnrolmentsInv`: the new agent of an enrolment has no
row yet and nobody else has its number; the agents it has found still exist and, while no other
enrolment has committed, are all the active ones. `ReportsInv`: who reports or is swept has a row.
Most steps are `Gentle`: they make no row and activate none, so one lemma serves them all. What makes
the commit of an enrolment harmless is that only an INSERT sets is_active to TRUE: an UPDATE writes
the columns that differ from its copy, and that one was read as TRUE.
`RetirementIsFinal` is RowsAreSound, `LoneEnrolmentsLeaveOneAgent` EnrolmentLeavesOneAgent.
`LeastNatural`, a least-number principle, gives the newest of several agents.

Only model-checked: the liveness properties and everything under fairness (EventuallyClosed,
EveryMessageIsRead, EventuallyStored, StatusSettles, JobSettles, ScheduleIsServed, WaitsEnd,
RecoveryCloses), which are out of the prover's reach, and the two properties whose violation
reactor_redelivery and retention_partitions show. Every safety invariant and every
action property of the passing runs is a theorem.

## 6. What is not modelled

- Text: redaction and injection scanners (`llm/security.py`, `governance/redaction_scanner.py`)
  and prompts are regular expressions and heuristics over free text; their verdicts are inputs.
- Numbers: health scores, drift, anomaly, correlation and burn-rate statistics
  (`cognitive/`, `slo/`), retrieval scores and the budget's spike detection work on
  floating-point series. TLC has no reals, and what is left without the numbers is empty.
- Middleware: rate limiting is slowapi's, RBAC and the audit middleware keep no state that a
  later step reads. Observability counts and logs. `graph/` wraps a library for read queries.
- The agent's updater replaces files of its own host and nothing in the server drives it; the
  collectors only read the host they run on.
- Library behaviour beyond what the modules say of it. PostgreSQL's, Redis', Docker's and
  asyncio's own guarantees are assumptions, stated where they are used and marked external.
- Read-only endpoints and logging: they change no state. `retrieval/integrity.py` compares
  hashes. ORM declarations and column lists repeat what Migrations models as relations.
- Frontend, deployment files, and the audit subprojects, stand-alone SSH scripts that share
  no state with the server but the JSON files the loaders read.
- In the modelled parts: the insights of `self_heal_check` (nobody who acts reads them), the Redis
  list of the scheduler (nobody reads it at all), the sizes a disk clean-up weighs, payload contents, the daemon's configuration and its updates, host name
  resolution, the cognitive evaluation that follows an ingest, ARQ's own queue, wall-clock
  durations.

## 7. Plan

Every component with a protocol of its own is modelled, and every safety property of a passing run is
proved. The liveness properties stay with TLC. What could be added:

1. The evaluation of a snapshot after its ingest, and the configuration a heartbeat hands back to
   the daemon: both are state that SnapshotPipeline leaves out.
2. The expiry of an approval between approve and begin_execution, once the code looks at it; there
   is no property to state of it today.
