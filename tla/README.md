# TLA+ verification of ARCHITECT

ARCHITECT is a set of Python services that turn a specification into deployed code with the help of
language-model agents. The services talk over HTTP, a Redis event bus and Temporal workflows, and
keep their state in PostgreSQL and Redis. This directory specifies the parts of it where
concurrency and failure decide whether it is correct, checks them with TLC on small instances, and
proves every safety property that is checked with TLAPS for every value of the parameters.

`PROJECT.json` is the index: components, runs, the line of code behind every definition, hazards,
findings and theorems. Paths below are relative to `src/`.

## How to run

    tlc -workers 2 -config MCWorldStateLedger.cfg MCWorldStateLedger   # any row of the table of runs
    tlapm WorldStateLedger_proofs.tla                                   # any *_proofs module

## 1. Inventory

### Components

| Component | State | Operations that change it | What makes it correct |
|---|---|---|---|
| World State Ledger (`services/world-state-ledger`) | ledger and proposals tables, Redis cache | `submit_proposal`, `get_current` (fills the cache), `validate_and_commit` | one linear history, no lost update, verdicts final, deltas lossless, cache and events never ahead of the database |
| Task Graph Engine: scheduler (`services/task-graph-engine`: `scheduler.py`, `graph.py`, `distributed_lock.py`) | a graph per instance; scheduling lock, claim keys and completed set in Redis; tasks table | `schedule_and_claim`, `mark_completed`, `mark_failed`, `should_retry`, `load_from_db` | one agent per task, dependencies first, the graph gets done |
| Task Graph Engine: decomposition and orchestration (`decomposer.py`, `api/routes.py`, `temporal/`) | the graph shared by all requests; the workflow's lists of completed and failed tasks | submit a spec (decompose, add, check for cycles); loop: check budget, schedule, run, record the verdict | an accepted spec can be finished, reviews see finished work, the loop ends, and for a reason |
| Deployment Pipeline (`services/deployment-pipeline`) | the workflow (status, step, signals), the manager's dictionary, the traffic split outside | start, cancel, approve, roll back; staging, smoke tests, gate, rollout, verification | completion is earned, traffic follows the plan, rollback requests are honoured, everything ends |
| Economic Governor (`services/economic-governor`) | tracker under an asyncio lock, budget_records; statistics and cached leaderboard, agent_efficiency_scores; streaks of the spin detector | `record_consumption`, polling, `check_budget_for_task`, enforcement, `record_task_completed`/`_failed`, `record_retry`, persist, restart | what was announced survives a crash, halt means halt, calls return; scores are fresh, kills are justified |
| Event bus (`libs/architect-events`) | stream, consumer group, pending list, dead letters, retry counts | publish, read loop, reprocess, purge | acknowledged means settled, one consumer per message, dead letters kept |
| Human Interface (`services/human-interface`) | escalations, approval gates, votes; web sockets | create, `cast_vote`, resolve, expire, broadcast | an approval is earned, a timed escalation ends, a riskier decision is not let through more easily |
| Execution Sandbox (`services/execution-sandbox`) | containers, sessions in memory, session rows, audit log; microVM processes | create, run commands, files, destroy, restore, sweep orphans | every command that answered or timed out audited, active containers spared, no orphan container once serving |
| Service lifecycle (every `service.py`, `dependencies.py`, `temporal/worker.py`) | what is open and which tasks run | start-up steps, background tasks, shutdown | nobody uses a client that is closed, a stopped service is quiet |
| Knowledge and Memory (`services/knowledge-memory`) | observations, patterns, heuristics, strategies; working memory with TTL | observe, compress, record outcomes, evaluate, set, evict | what counts as compressed led to a pattern, the oldest entry goes first |
| Failure Taxonomy (`services/failure-taxonomy`) | failure records, the announcements | classify (handler, route, activity), post-mortem | an announcement names a committed row, rules decide before the model |
| Security Immune System (`services/security-immune`) | scans and findings of the routes | scan, triage, gate, monitor | what is allowed is clean, triage is kept |
| Coding Agent (`services/coding-agent`) | git repository, run store, the ledger's commit hash | plan, generate, test, fix, commit, update the ledger | nothing is committed after the sandbox showed its failure, a reported hash holds the work |
| Evaluation Engine (`services/evaluation-engine`) | layer results of a run, report store | run the layers in order, fail fast, publish | the verdict follows from the layers, counts are what pytest printed |
| LLM client (`libs/architect-llm`) | token and request buckets, spend | check budget, acquire, call, retry, record | overspending bounded, every charge counted, calls end |
| Multi-Model Router (`services/multi-model-router`) | routing statistics, failure records per task | score, route, record failure, reset | harder is not cheaper, a person is asked in time, only a mistaken report moves a task to a weaker tier |
| API gateway (`apps/api-gateway`) | sliding windows per key, requests under way | admit, forward with three attempts, health | the limit holds in every window, Retry-After is enough, every request is answered |
| Spec Engine (`services/spec-engine`) | dictionary of specs | create, clarify, review, workflow | a spec stays under its id, a review is about one version |
| Agent Communication Bus (`services/agent-comm-bus`) | connection, subscriptions over NATS, counters | connect, publish, request, subscribe, close | acknowledged after the handler, counters match the stream |
| Codebase Comprehension (`services/codebase-comprehension`) | bounded store of indices, embeddings table | chunk, index, embed | chunks nest, the latest indices stay, embeddings are whole |
| Dashboard hooks (`apps/dashboard/src/hooks`, `api/client.ts`) | requests and their controllers, socket, retry timer | poll, abort, connect, retry, hide, show, leave | only the newest answer is shown, a visible page reconnects |
| Database, common, observability, testing, sandbox-client libraries; CLI and the pages of the dashboard | none | queries, types, display | |

### How they interact

A client's request goes through the gateway, which repeats it up to three times on a 5xx answer.
The spec engine's result is decomposed into a task graph. The orchestration workflow, or an agent,
asks the scheduler for a task, hands it to the coding agent, and reports the outcome. The coding
agent runs code in the sandbox and commits it. The evaluation engine publishes EVAL_COMPLETED,
which starts a deployment when the verdict is PASS. AGENT_COMPLETED and ROUTING_DECISION carry
token counts to the economic governor, which answers with alerts, a tier downgrade or a halt.
Failures reach the failure taxonomy and, through it, the human interface. All these events travel
over the event bus. The world state ledger is the shared memory: agents propose changes of it and
learn by event whether they were accepted.

### What is hard

* **Interleaving at awaits.** Every service is asyncio code. What is read before an await may be
  stale after it: the version stamped on a proposal, the completed set a scheduler has read, the
  rollback flag of a deployment, the counters of an approval gate.
* **Locks that do not exclude.** The scheduling lock expires under its holder and is deleted by
  whoever finishes; `SELECT ... FOR UPDATE` hands out the row it first chose, and locks nothing in
  an empty table.
* **Several writes, one intention.** A commit is followed by a cache write and two publications; a
  completion is SADD, DEL and UPDATE; a level change is memory, row and event. A crash comes
  between any two of them.
* **Signals and timeouts** arrive at any await of a workflow; activities are at least once.
* **Delivery.** A message is acknowledged last: after a crash or an exception Redis leaves it pending
  for nobody to read, and JetStream sends it again. Streams are trimmed.
* **Boundaries.** Checkpoint intervals, thresholds in percent, retry counts, batch ends.

`PROJECT.json` lists each of these at the line where it bites ("hazards"), with the property that
covers it.

## 2. The modules

| Module | Models | Composed with |
|---|---|---|
| `LedgerData` | world states, mutation lists, `_apply_mutations`, `_validate_mutations` (no state) | extended by the next two |
| `LedgerAbstract` | what the ledger promises: a linear history | instantiated by `WorldStateLedger` |
| `WorldStateLedger` | `StateManager` and `StateCache` | implements `LedgerAbstract` |
| `TaskScheduler` | `TaskScheduler`, `TaskDAG`, `DistributedSchedulerLock`, the tasks table | |
| `DeploymentPipeline` | `DeploymentWorkflow`, its activities, `PipelineManager` | |
| `EconomicGovernor` | `BudgetTracker`, `Monitor`, `Enforcer`, endpoint, allocation workflow | |
| `EventBus` | `EventPublisher`, `EventSubscriber`, `DeadLetterProcessor` over one stream | |
| `AgentWatch` | `EfficiencyScorer`, `SpinDetector`, the handlers that feed them | with `EconomicGovernor` in `MCGovernor` |
| `HumanInterface` | gates, votes, escalations, their workflows, `should_escalate`, web sockets | in `MCServices` |
| `ExecutionSandbox` | `DockerExecutor`, `FirecrackerExecutor`, the checks of commands and files | in `MCServices` |
| `ServiceLifecycle` | the lifespan of twelve services and a worker | in `MCServices` |
| `KnowledgeMemory` | `KnowledgeStore`, compression, `HeuristicEngine`, `StrategyValidator`, `WorkingMemory` | in `MCServices` |
| `FailureTaxonomy` | classifier, handlers, routes, activity, post-mortem | in `MCServices` |
| `SecurityImmune` | scanners, `PolicyEnforcer`, routes, workflows, `_levenshtein_distance` | in `MCServices` |
| `CodebaseIndex` | chunker, index store, embedding transaction | in `MCServices` |
| `DashboardHooks` | `usePolling`, `request`, `useWebSocket` | in `MCServices` |
| `CodingAgent` | the agent's loop, the Temporal workflow, git, run store, ledger update | in `MCDelivery` |
| `EvaluationEngine` | seven layers, evaluator, report store | in `MCDelivery`, `MCEvaluation` |
| `TaskOrchestration` | decomposer, submission, orchestration workflow | in `MCDelivery` |
| `LlmClient` | `LLMClient`, `TokenBucketRateLimiter`, `CostTracker` | in `MCDelivery` |
| `ModelRouter` | scorer, router, collector, `EscalationPolicy` | in `MCDelivery` |
| `ApiGateway` | middlewares, `ServiceClient`, health check | in `MCDelivery` |
| `SpecEngine` | parser, validator, routes, workflow | in `MCDelivery` |
| `AgentBus` | `MessageBus` over JetStream | in `MCDelivery` |
| `MC*` | constants for TLC and the specifications restricted to one question | |
| `WorldStateLedger_proofs`, `TaskScheduler_proofs`, `DeploymentPipeline_proofs`, `EconomicGovernor_proofs`, `EventBus_proofs` | theorems about the module of that name, and their lemmas | |
| `Services_proofs` | theorems about Human Interface, sandbox, lifecycle, taxonomy, knowledge, dashboard, `AgentWatch` | a section for each |
| `Requests_proofs` | theorems about spec engine, gateway, LLM client, router, security | a section for each |
| `Delivery_proofs` | theorems about coding agents, agent bus, orchestration, evaluation, codebase index | a section for each |

**Unions by focus.** `MCServices`, `MCDelivery` and `MCGovernor` check components that share no state
in one run. A variable `focus`, chosen initially and never changed, names the part that moves; the
others keep their initial values. The reachable states are those of each part alone, side by side and
not multiplied. Within a part that has independent pieces (gates, escalations and sockets of the Human
Interface, for instance) each piece is a focus. Where pieces do interact, as the workflows of the coding
agent do through the git repository and the ledger, they are in one focus.

Conventions. What runs between two awaits on shared state is one action. `pc` says at which await
each coroutine, request or workflow is. A variable of the code keeps its name where TLA+ allows it;
each VARIABLES section says what every variable stands for. A definition with a comment beginning
"Fault:" is a plausible bug, used by no specification: it shows that a property would notice.
History variables (marked so in the VARIABLES section: `finished`, `handed`, `handled`, `buried`, `purged`, `marks`, `verdicts`,
`heard`, `announced`, `lost` and others) record what really happened; no guard reads them.

### WorldStateLedger

State: the two tables (`ledger`, `proposals`), the cache, the set of `events` published, and per
request (`Workers`) its position, its locals (`req`) and the ledger row it holds (`held`).
`get_current` is `GetCurrent`/`LoadFromDb`/`FillCache`; `submit_proposal` the same followed by
`InsertProposal`/`AnnounceProposal`; `validate_and_commit` is `BeginCommit`, `SelectLatest`,
`LockRow`, then one of `CommitError`, `Reject`, `Accept`, and the cache write and publications that
follow. `Reconstruct` is the replay from the nearest checkpoint, stated by the last writer of each
field instead of a loop; `CheckpointsAgreeWithReplay` compares it with the loop. PostgreSQL is READ
COMMITTED: `SelectLatest` is the statement's snapshot, `LockRow` the wait, and the row chosen is
not chosen again. Its primary key refuses a version that exists (`CommitRaises`). `Crash` is a dying
process or a failing await; `CacheExpires` the TTL. A mutation carries the kind of its value
(integer, string, refused by pydantic), because `_validate_mutations` tests the budget only when it
is a number while pydantic later parses the string.

### TaskScheduler

State: per instance the graph (`status`, `attempt`, `done`), in Redis `lock`, `claims`,
`completed`, in the database `db`. `schedule_and_claim` is `BeginSchedule` ... `ReleaseLock`;
`write` holds what a lifecycle call has yet to write, so SADD, DEL and UPDATE are three steps.
`LockExpires` and `ClaimExpires` are the TTLs, `Crash` and `Restart` a process and its
`load_from_db`, which tells Redis of every completed task (`syncAdd`, `syncDel`).
`RetryAllowed` reads the attempts in memory: the database never learns them.

### DeploymentPipeline

State: per deployment the workflow's fields, the signals it has received, the manager's cached
status, the traffic really routed and the call still in flight after a cancellation (`late`). One
action per activity, with the workflow code up to the next await. `EnterStep` and `Watch` are the
two loops with the places where the rollback flag is tested. Error rates and latencies are small
naturals; the two threshold comparisons are those of the code. `CancelDeployment` may strike at
any await.

### EconomicGovernor

State: the tracker (`allocated`, `consumed`, `level`, `lock`), the latest row (`db`), and per
coroutine where it is. `ConsumedPct` keeps the rounding to two decimals, in hundredths of a
percent. `RecordConsumption` holds the lock across the write of the snapshot; `Poll` is a turn of
the monitoring loop; `Enforce` and `PauseTasks` are the publications. After `Crash` the process
restarts from the row, possibly with a smaller configured budget; Temporal repeats the interrupted
activity of an allocation, while a bus message being handled is not delivered again (see
`event_bus_retry`).

### EventBus

State: the stream as a sequence, how far it is trimmed, the group's position, the pending list, the
dead letters, and per consumer its loop. A message is its position; a batch is a range of
positions. `HandlerFails` counts and prunes as `_process_message` does; `MoveToDlq` and `AckBuried`
are the two halves of `_move_to_dlq`; `LoopDies` is an exception that leaves the loop. Operators
run `reprocess` concurrently (`Reprocess`, `Republish`, `DeleteDead`) or `Purge`.

### The modules around them

* **`HumanInterface`.** `cast_vote` is read, duplicate check, commit and announcement with other calls
  in between; the two workflows wait for signals and timers. `ApprovalIsEarned` counts the people who
  voted, whatever the counters say.
* **`ExecutionSandbox`.** Engine, memory and session rows are three stores, and a crash separates
  them. A command takes its audit index before it runs. `known` says which sessions the process
  remembers and `mem` in which status. `destroy` looks the session up before it awaits the row and
  writes the status it finds afterwards (`PersistDestroyed`, `DropSession`), so a row may keep the
  status a concurrent command set. The microVM is a process, a disk image and a handle; the handle is
  process memory, so a crash leaves the other two to nobody (`Abandoned`).
* **`ServiceLifecycle`.** A service is data: its start-up steps, its shutdown order, and what each
  background task uses, by what its handlers and activities call. Twelve lifespans and a worker are read
  off the code, eight with background tasks; the same few actions run them all, with any optional step
  failing and any task dying. `made` holds what start-up did open, so that an optional client that was
  never opened is not missed, and one that was opened counts like any other. The coding agent's worker
  closes its LLM and sandbox clients in a `finally`, after `worker.run()` has ended.
* **`KnowledgeMemory`.** A compression fetches, asks a model for each cluster, stores, marks; two of
  them overlap. The working memory is a sequence ordered by last use. Fetching documentation never
  succeeds: the response hook of `doc_fetcher.py:107` is a plain function where httpx awaits one.
* **`FailureTaxonomy`.** A text is the set of rules it matches. Three event handlers, a route and a
  repeated activity lead to the same record.
* **`SecurityImmune`.** What is scanned is the set of facts that scanners look for. The edit distance
  used against typosquatting is compared with its definition: reachable by that many edits.
* **`CodebaseIndex`.** A file is the sequence of its indentations. Embedding batches are visible when
  their transaction commits.
* **`DashboardHooks`.** Requests and their abort controllers, the socket in `wsRef`, the timer in
  `retryTimerRef`. A browser callback is one action.
* **`AgentWatch`.** A message that is not acknowledged is not read again (see `event_bus_retry`), nor is
  one a crash interrupts; scores are restored from rounded rows; the bounded map of streaks forgets its
  oldest entry.
* **`CodingAgent`.** Agents share one git index: `add`, `commit` and `rev-parse` are separate
  processes, so one agent's commit takes another's staged files along. Whether the sandbox "passed" a
  revision is what the code makes of the results: the workflow's `all()` is true of none, and the
  loop's `_collect_errors` overlooks a command that failed without output. `cleared` is therefore the
  set of revisions accepted without a failure shown, not of those that were tested. The ledger may
  have accepted an update whose answer is lost (`WorldStateFails`).
* **`EvaluationEngine`.** A pytest run is its counts; the summary line is the sequence of words pytest
  prints, and the regular expression is modelled by what it matches in it.
* **`TaskOrchestration`.** The graph is shared by all requests, and a refused spec has already added
  its tasks. `wired` tells the placeholder activities of this repository from the ones their
  docstrings promise.
* **`LlmClient`.** Tokens and prices are scaled to integers; `Tick` is the clock.
* **`ModelRouter`.** Scores in 1/10000, so thresholds are hit exactly. `RecordFailure` believes the tier
  its caller names, which may be another than the task's.
* **`ApiGateway`.** Time in half seconds, because Retry-After is rounded to seconds.
* **`SpecEngine`.** A request is suspended only while the model answers. A spec is its id and draft.
* **`AgentBus`.** JetStream sends what is not acknowledged again; a publication may be stored without
  its answer arriving. The stream takes every subject `ARCHITECT.*`, so it stores a request to one
  (`RequestReturns`), and its own acknowledgement, no `AgentMessage`, may be the first reply.
  Subscriptions with a `queue_group` share one consumer (`Consumer`), the others have one each.
  A consumer with `MaxAckPending` messages outstanding is sent nothing new; since a message that cannot
  be read is never acknowledged, enough of them stop it.

## 3. The runs

| Run | Instance | Checks | Result |
|---|---|---|---|
| `ledger` | 2 requests, 3 proposals, checkpoint every 2 versions, 3 mutation lists | `OverdraftsAreRefused`, `NoLostUpdate`, `AcceptedExactlyOnce`, `CheckpointsAgreeWithReplay`, `CacheHoldsACommittedState`, `EventsAreTrue`, `HistoryIsFinal` | holds (1.65 million states) |
| `ledger_liveness` | 2 requests, 2 proposals, 4 mutation lists | `RequestsEnd`, `ImplementsAbstract` | holds |
| `scheduler` | 2 instances, a chain of 2 tasks, 2 attempts, lock expiry; a crash and a reload, claim expiry afterwards | `OneAgentPerTask`, `DependenciesFirst` | holds (8.5 million states) |
| `scheduler_liveness` | the same, no task fails, no crash | `AllTasksComplete` | holds |
| `scheduler_rerun` | the same, no timeout at all | `CompletedIsTerminal` | **violated** |
| `governor` | bus, poller, one HTTP client, one allocation, budget 20 or 10, two crashes; 2 agents, 3 tasks, 4 messages (3 for scores), any of them never acknowledged, one restart | `BudgetLevelsHold`, `BudgetStepsAreAllowed`, `CallsReturn`, `AgentsAreJudgedFairly` | holds (150 thousand states) |
| `governor_halt` | bus, poller, one HTTP client, no crash | `HaltIsAnnounced` | **violated** |
| `services` | 28 parts of nine components, one in focus | `NothingVanishes`, `EachMessageHasOneConsumer`, `DeadLettersAreKept`, `ApprovalsAreEarned`, `ContainersAreAccountedFor`, `ShutdownIsOrderly`, `KnowledgeIsGrounded`, `RecordsAreTrue`, `GateIsTight`, `IndexIsFaithful`, `PageIsUpToDate`, `ServiceSteps`, `ServicesProgress` | holds (505 thousand states) |
| `delivery` | 18 parts of nine components, one in focus | `DeploymentsAreEarned`, `WorkIsKept`, `ReportsAreTrue`, `PlansCanFinish`, `SpendIsAccounted`, `RoutesFollowDifficulty`, `LimitsAndRetriesHold`, `SpecsStayWhole`, `AcksAreEarned`, `DeliverySteps`, `DeliveryEnds` | holds (503 thousand states) |
| `deployment_rollback` | one deployment, no cancellation | `RollbackIsHonoured` | **violated** |
| `event_bus_retry` | one consumer with the default limit, no fault | `FailedMessagesAreSettled` | **violated** |
| `evaluation` | runs of pytest with up to 2 tests of each outcome | `PassMeansTestsPassed` | **violated** |

Most components state several safety properties. Their module ends with one property that is the
conjunction of the named parts and says in a sentence what they come to; the run checks that.
`ServiceSteps` and `DeliverySteps` join the action properties of a run, `ServicesProgress` and
`DeliveryEnds` the liveness properties. `PROJECT.json` has a mutant for every part, not just for every
conjunction, so no part is idle.

### What they show

* **Ledger.** `FOR UPDATE` alone does not serialise commits: two sessions can hold the same stale
  row one after the other. The optimistic check against the proposal's version, together with the
  primary key, does. Without that check (`LedgerMovedUnchecked`) four properties fail. The cache may
  be old, and cache writes may land out of order, but it never holds a state under a wrong version.
* **Scheduler.** The scheduling lock is not what keeps two agents apart; the claim keys are. They
  do so while a claim outlives its task. `scheduler_rerun` is the gap that remains: an instance
  reads the completed set, another completes the task (SADD, then DEL), and the first one wins the
  claim that was just freed. The task runs a second time, and the row goes from COMPLETED back to
  RUNNING. No crash and no timeout is needed.
* **Deployment.** No combination of failing activities, signals and cancellations lets a deployment
  complete that was not staged, gated, watched for its whole plan and verified. A rollback request
  in time to be tested is honoured. One that arrives during the last check of the last step or
  during verification is accepted and ignored (`deployment_rollback`).
* **Governor.** What was announced is still warranted after a crash, provided snapshots could be
  written. Halt is not always announced: the HTTP endpoint changes the level without enforcing it,
  and the polling loop then has no crossing to see (`governor_halt`). No agent is killed that did
  not use up its retries; a score read after a completion includes it.
* **Event bus.** Acknowledging last loses nothing short of `maxlen` newer messages, reprocessing
  never loses a dead letter, and no two consumers have one message. Nothing reads the pending list
  again, so a failed message is not retried (`event_bus_retry`).
* **Human Interface.** A vote may be lost when two overlap, but no gate is approved without enough
  different people, and votes that do not overlap suffice. Every escalation with a timeout is resolved.
* **Sandbox.** The order of destroy (container, then row) and of recovery (rows, then sweep) is what
  keeps rows truthful and spares active containers; the model breaks when either is swapped. What is
  swept are containers: a microVM that a crash left behind stays, and `NoStrayMicroVM` says that this
  is the only way to leave one. A command that Docker fails is not in the audit log.
* **Lifecycle.** In each of the eight orders with background tasks the consumers of a client stop
  before it is closed, an optional client included, also when a start-up step failed and when shutdown
  raises half-way. The other five have nothing that could outlive a client.
* **Knowledge, taxonomy, security, codebase.** Two compressions of the same rows may store a pattern
  twice but mark nothing compressed without one. An event never names a row that was rolled back. The
  gate is monotone: adding a clean scan lets nothing through. A failed batch leaves no embeddings.
* **Coding agent.** Through the shared index a commit may hold another agent's files, yet only
  revisions the sandbox answered for without showing a failure reach a commit, and the hash an agent
  reports contains its work. That is less than `agent.py:38` promises ("Run tests in sandbox. If tests
  fail and retries remain, fix and iterate"): see section 5.
* **Evaluation.** The overall verdict is the worst, and reports in the store were announced.
  The layers themselves are wrong about failing tests (`evaluation`).
* **Orchestration.** A spec that is accepted can be finished, whatever refused ones left in the
  shared graph; the loop ends after at most its bound of iterations, and says why.
* **LLM client.** The budget can be passed, by no more than the calls under way had left to cost.
* **Router, gateway, spec engine, agent bus.** Difficulty orders the tiers at every threshold; a person
  is asked for after `max_total_failures`, stronger tiers left or not, or after `max_tier_failures` at
  the strongest, and then only; a report that names another tier than the task's own may move it to a
  weaker one or take it back from the person, no further than the tier it names. The
  window holds wherever it starts, and waiting for Retry-After is enough; a write runs twice only after
  the service answered with an error; reviews never mix two versions. `by_type` is what the stream
  holds but for requests and lost answers, `total_published` what it holds and the requests elsewhere.
  A readable message reaches every lasting consumer while fewer than `MaxAckPending` unreadable ones
  are in the stream.
* **Dashboard.** Aborting the previous request is what keeps an old answer off the page. A page that
  can be seen always has a socket or a timer.

### Bounds, and why they are enough

* Two requests, instances, consumers, callers, clients or agents: each race in the code is between two
  parties over one row, key, file or message. The properties relate at most two of them. Theorems lift
  the bound where they exist. Three voters for a gate of two, so that a third vote meets a decided gate.
* Three proposals with a checkpoint every second version: versions before, at and after a
  checkpoint, and a proposal overtaken by another. The mutation lists are chosen so that each
  outcome of validation occurs: blind and guarded writes, a path written twice, a path off the
  tree, numbers and strings, a value pydantic refuses.
* A chain of two tasks: a task, and one that has to wait for it. Two attempts: one retry.
* A plan of two steps in `delivery`, the canary and the last one, so that traffic is raised once and
  the last step differs from the others. A step of 3 seconds checked every 2: two checks, and a
  duration that is no multiple of the interval. Metrics exactly at and one unit above each threshold.
* Amounts 9 and 10 of a budget of 20, thresholds 80, 95 and 100 %: two calls reach 90 (alert), 95
  (restrict) or 100 % (halt), so every level is entered from several others, exactly at the
  threshold included. A restart may halve the budget.
* Three messages in batches of two with `maxlen` 2: a batch that is full, one that is not, and one
  trimmed message. One tracked retry count: pruning happens.
* Limits are one less than what arrives: 2 sockets for 3 clients, 2 working-memory entries for 3
  keys, 2 indices for 3 roots, 2 requests per window and 4 arrivals (two windows long), 2 streaks for 3 tasks.
* LLM client: two requests that fit the bucket of 4 tokens and one that never will; a budget that the
  second expensive call passes; two attempts. Router: estimates, lengths and keyword counts at and
  beyond their caps; six failures against limits of two and five.
* Agent bus: a listener of its own and two callers in one part, over two messages and two connections; a
  queue group of two in another, over three messages, so that with `MaxAckPending` 2 two unreadable
  messages suspend delivery and one does not.
* Chunker: all files of up to 4 lines and 3 depths. Edit distance: all pairs of words of up to 3
  letters over two. Security: up to two facts at a time, since verdicts only compare severities.
* `Max...` constants are guards of the actions they bound. No state constraint is used. Symmetry is
  used for interchangeable instances, requests and proposals in safety runs only; where a focus lets
  only one of two interchangeable agents crash, or one slot move, or one of two callers ask for a
  response, the MC module says so. Crashes of a coding workflow inside git are checked in the part
  `repository`, with another agent at work there, the others in the part `workflows`.

`CHECK_DEADLOCK FALSE` is set where the system may really stop: all proposals resolved and nobody
asking, all tasks done, a deployment over, the bounded number of messages or calls used up.

### Fairness

* Ledger: weak fairness of each request's next step, strong fairness of `LockRow`. The event loop
  runs what can run, a network call returns or raises, and PostgreSQL queues those who wait for a
  row.
* Scheduler: agents keep asking for work and finish what they were given; strong fairness of
  `AcquireLock`, because an instance retries every 100 ms for five seconds and asks again. Nothing
  is assumed about which instance gets the lock first, nor about lock expiry.
* Deployment, orchestration: weak fairness of the workflow. Temporal runs an open workflow on;
  activities have timeouts and timers fire. Nobody is assumed to answer the approval request.
* Human Interface: weak fairness of the timer and of the activity that follows it, which Temporal
  repeats. No person is assumed to do anything.
* Governor: weak fairness of the poller, strong fairness of each coroutine, since `asyncio.Lock` is
  first come, first served. Crashes are bounded and not assumed to happen.
* Event bus: weak fairness of each read loop and of restarting a process that is down. A loop that
  died of an exception is not restarted by anybody; the property says so.
* Coding agent, gateway: weak fairness of a loop or request that can go on. Commands, calls and
  sleeps have timeouts; how they end is not assumed.
* LLM client: weak fairness of time (`Tick`) and of every caller. `CallsEnd` exempts the request that
  is larger than the bucket.
* Agent bus: weak fairness of a listener and of JetStream sending each message it may send, which is not
  every message it owes: `MaxAckPending` is part of `JetStreamSends`.
* Dashboard: weak fairness of the events of the live socket and of its timer (`SocketStep`). Nobody
  is assumed to show or hide the tab; `BadgeReturns` is about a page that stays visible.

Inside the unions "whatever is begun ends" is written `[]<>(nobody is in the middle of anything)`. It
implies a leads-to for each party, and TLC decides it without a tableau. `BadgeReturns` is `<>[]`: the
bounded drops and toggles are over at some point. Each violated liveness property is checked under a
specification with fairness and without faults, so its counterexample is not a system that merely stops.

## 4. Proofs

The theorems hold for all values of the constants that satisfy the modules' ASSUMEs: any number of
requests, proposals, instances, tasks, consumers, operators, deployments, coroutines, sessions, voters,
agents, calls, clients, polls and crashes; any graph, plan, checkpoint interval, thresholds, prices,
batch size and limits; files and names of any length. The assumptions are what the code gives, and TLC
evaluates each of them in a run:

* limits, sizes and counts are naturals; an interval, a capacity, a rate, a batch and the number of
  retries of the spin detector are at least 1 (`CheckpointIntervalAssumption`, `SizesAssumption`,
  `GatewayAssumption`, `KnowledgeAssumption`, `WatchAssumption`, `RouterAssumption`,
  `CodebaseAssumption`, `SpecAssumption`, `DashboardAssumption`, `TaxonomyAssumption`,
  `SecurityAssumption`); a queue group consists of listeners (`GroupAssumption`); thresholds are ordered; a marker such as `None` is not a value;
* what is summed or counted is finite: the voters of a gate (`PeopleAssumption`), agents
  (`WatchAssumption`), callers and prompts (`LlmAssumption`), names of tasks
  (`OrchestrationAssumption`);
* the run store has room for two runs (`CapacityAssumption`; the code's is 1000), and the services of
  the lifecycle are among the thirteen that are read off the code (`LifeAssumption`).

| Module | Theorem | States |
|---|---|---|
| `WorldStateLedger_proofs` | `TypeCorrect` | `TypeOK` |
| | `NoLostUpdates`, `ExactlyOnce` | `NoLostUpdate`, `AcceptedExactlyOnce` |
| | `CacheIsCommitted`, `EventsTrue` | `CacheHoldsACommittedState`, `EventsAreTrue` |
| | `HistoryFinal` | `HistoryIsFinal` (action property) |
| | `DeltasAreLossless`, `OverdraftsRefused` | `CheckpointsAgreeWithReplay`, `OverdraftsAreRefused` |
| | `Refinement` | `ImplementsAbstract`: `Spec` implements `LedgerAbstract` |
| `TaskScheduler_proofs` | `TypeCorrect`, `DependenciesRespected` | `TypeOK`, `DependenciesFirst` |
| | `MutualExclusion` | `OneAgentPerTask`, of `SteadySpec` |
| `EventBus_proofs` | `TypeCorrect`, `AcknowledgedIsSettled` | `TypeOK`, `NothingVanishes` |
| | `OneConsumerPerMessage`, `ReprocessingKeepsLetters` | `EachMessageHasOneConsumer`, `DeadLettersAreKept` |
| `DeploymentPipeline_proofs` | `DeploymentsEarned` | `DeploymentsAreEarned` |
| | `TrafficFollows` | `TrafficFollowsThePlan` (action property) |
| `EconomicGovernor_proofs` | `LevelsHold` | `BudgetLevelsHold` |
| | `StepsAllowed` | `BudgetStepsAreAllowed` (action property) |
| `Services_proofs` | `ApprovalsEarned` | `ApprovalsAreEarned` |
| | `ContainersAccounted` | `ContainersAreAccountedFor` |
| | `SweepSparesActive` | `ActiveContainersAreSpared` (action property) |
| | `ShutdownHolds` | `ShutdownIsOrderly` |
| | `RecordsHold` | `RecordsAreTrue` |
| | `KnowledgeHolds` | `KnowledgeIsGrounded` |
| | `OldestHolds` | `OldestGoesFirst` (action property) |
| | `PageHolds` | `PageIsUpToDate` |
| | `NewestHolds` | `OnlyTheNewestIsShown` (action property) |
| | `WatchHolds` | `AgentsAreJudgedFairly` |
| `Requests_proofs` | `SpecsWhole` | `SpecsStayWhole` |
| | `LimitsHold` | `LimitsAndRetriesHold` |
| | `SpendAccounted` | `SpendIsAccounted` |
| | `RoutesHold` | `RoutesFollowDifficulty` |
| | `FailuresHold` | `FailuresOnlyEscalate` (action property) |
| | `GateHolds` | `GateIsTight` |
| | `TriageHolds` | `TriageIsKept` (action property) |
| `Delivery_proofs` | `DeliveryIsKept` | `WorkIsKept`, of the coding agents |
| | `AcksEarned` | `AcksAreEarned`, of the agent bus |
| | `PlansHold` | `PlansCanFinish`, of submission and orchestration |
| | `ReportsHold` | `ReportsAreTrue`, of the evaluation engine |
| | `IndexHolds` | `IndexIsFaithful`, of the codebase index |

Each theorem is about the component's own specification, in which all its parts move at once and what
a run draws from a few representatives is any value (`SecuritySpec` scans any set of facts, `CodebaseSpec`
reads a file of any length). A run with a focus checks some of those behaviours. The
parts of `ServiceSteps` and `DeliverySteps` are proved one by one, each for its component.

Every module is laid out alike: the parts of the inductive invariant, the lemmas about operators, one
lemma or step per action with one step per part it can disturb, and the theorems, which combine these
with PTL. None of the properties is inductive; what each invariant adds is the argument.

Two things shape the proofs. An induction over data would need a theorem with an operator for a
parameter, which the provers cannot instantiate; what replaces it is `LeastOf`: the set of numbers at
which a claim fails has no least element, hence is empty. A recursive function in a LET is a CHOOSE; to
use its equation one shows first that some function obeys it (`ScansExist`, `StepsExist`). And an operator
the provers do not know, such as SelectSeq or a fold, is avoided in the modules in favour of a definition
that says what comes out: the entries after a position, the least or greatest element of a set.

**The ledger.** Whether a version was computed from its predecessor depends on what a request in the
middle of `validate_and_commit` believes, so `IInv` says, for every position of a coroutine, what its
locals are worth (`LocalsOK`); that an id has one submitter (`OneSubmitter`); that a verdict is the one
validation gives at the version the proposal was made at (`ProposalsOK`), which is why two callers who
decide the same proposal cannot disagree; and that every row names the accepted proposal that made it
(`RowsOK`). Three lemmas about delta storage carry it: `ReconstructType`, `ReconstructStable` (appending a
row changes no earlier version) and `ReconstructNext` (the new version is the old one with the mutations
applied, checkpoint or not). `Max` of a set is handled through `MaxIsGreatest`, which needs
`LeastNatural`, the well-ordering of the naturals.

* `DeltasAreLossless` compares the reconstruction with a recursive function over all versions. Instead
  of an induction it uses `ReplayIsUnique`: two functions that obey the equation of the replay are the
  same, since the least version at which they differ would be neither 0 nor a successor. The
  reconstruction obeys the equation by `ChainOK`, and is therefore what `CHOOSE` chooses.
* `OverdraftsRefused` follows the remaining budget through one mutation list: an accepted list whose
  budgets are numbers leaves it non-negative, whichever entry for the field comes last.
* `Refinement` maps the ledger to the sequence of reconstructed states and each proposal to its verdict.
  `Accept` is the abstract commit, `Reject` the abstract refusal, `InsertProposal` the submission; every
  other step, of the cache, the locks, the publications and crashes included, is a stutter.

**The scheduler.** `DInv` says that whatever anybody believes completed, in memory, in Redis, in the
database or on its way there, an agent has completed. `HInv` says that whoever has a task, or is still
reporting it, has its claim. `MutualExclusion` assumes that claims outlive tasks and that nothing crashes:
when a claim's hour ends before its task does, another instance may win the claim.

**The event bus.** `BInv` adds how far trimming may have got, that a batch lies within what was delivered
and is empty outside the processing steps, that a loop about to acknowledge has earned it, and that an
operator about to delete a dead letter has published it.

**Deployments.** `PInv` says at every await which locals of `run()` are set (`LocalsAreSet`), which
milestones lie behind (`MilestonesPassed`), that every step left was watched long enough and the current
one as long as `elapsed` says (`StepsWatched`), that a rollback request the workflow can still see keeps it
from verification, and that a call still in flight after a cancellation was one the workflow was
entitled to (`LateCallsEarned`). The last is what `TrafficFollows` needs: traffic may move after the end.
The empty plan and a minimum duration of 0 are included.

**The governor.** `GInv` is about the row: everything announced, or about to be, is warranted by the total
in the row; a level above that exists only while its snapshot is being written under the lock; levels rise
only between two restarts. Trying the proof showed that an earlier form of the property was too weak: it
was void after any crash. Now only a snapshot that could not be written or read excuses (`lost`).

**Approvals.** A vote is committed with a count read two awaits earlier. `CountsAreBehind` bounds what any
request holds by the number of people whose approval is in the table, a cardinality that only grows, and
`OneAtATime` says that before the first overlap at most one request is open and has the row's count.

**The sandbox.** What happens to a container is decided steps after it was looked at, so the invariant
states what each request in flight may rely on: its audit index is one of this log
(`CommandsAreOfThisLog`), a removal that was answered has happened (`RemovalsAreAnswered`), a session is
not forgotten before its container was dealt with (`NothingBeforeTheContainer`), a restoring process has
no requests and has loaded every active row it could (`RestoreIsQuiet`, `ActiveRowsAreLoaded`). What a
row says of a destroyed session is not part of it, since a concurrent command may have the last word.

**The coding agents.** Agents share a working tree and an index, and `git commit` takes the whole index.
`AInv` follows a file that one agent wrote from the tree (`TreeHoldsTheWork`) over the index
(`IndexHoldsTheWork`) to the commit (`HeadHoldsTheWork`), with `WritersHaveTested`: an agent that has begun
to write neither generates nor tests again, however often Temporal repeats its commit. The run store is a
bounded sequence: dropping the older half makes room only if the half is not empty, hence the assumption
of a capacity of at least two.

**The agent bus.** The counters equal cardinalities of sets of positions in the stream. `CountersInv`
says so for every type; each step is shown to add one position to such a set or none
(`CountsAfterAppend`, `UnreadableIsNotCounted`). Requests are positions too, apart from publications
(`rpcs`), and answered ones outside the stream are a number of their own. `ListenersInv` says that a callback about to acknowledge
has returned from a message that could be read; it survives a growing stream because positions are final.

**Plans.** That an accepted graph can be finished is a statement about every graph without cycles:
`AcyclicGraphsFinish` completes a task whose predecessors are done, round by round; a round that
completes nothing while something is left would exhibit a set of tasks each with a predecessor in the
set, which `Cyclic` excludes. The workflow's lists are an invariant of their own (`WorkflowInv`).

**Reports.** `EvaluationInv` says for every request how far it has come, with the verdicts of the layers
it ran, and that a request that is done was announced with the verdict its stored report has. The parser is shown to return what was printed when pytest printed passed and
skipped tests only, and never a count it did not print (`ParsedIsPrinted`).

**The codebase index.** `FoundBy` says what the scan from a definition knows at each line: whether the
block is still open, and the last line that belongs to it. Two blocks that overlap without nesting would
have a line that closes one and not the other. `IndexStoreInv` keeps the store in the order of the last
storing of each root, and what it let go is older than all it holds; `EmbedInv` says which rows of a transaction exist.

**The lifecycle.** The invariant says what is open, what was ever opened and which tasks run at each
position of start-up and shutdown; the rest is a property of thirteen lists (`WellOrdered`) which the prover reads off their
definitions: what a task uses is started before it and closed after it.

**The taxonomy.** Rules are tried in one order on every path (`FirstRule`), so equal texts have equal
codes; an announcement is preceded by the committed row because the transaction is, also on the second
attempt of an activity.

**Knowledge.** The working memory's sequence is compared with the history of uses: both hold the same
keys in the same order (`WorkingInv`). A compression that is about to mark observations has stored the
pattern. That more successes never worsen a verdict is an inequality between rounded quotients.

**The dashboard.** Of all requests ever sent only the newest is not given up (`PollInv`); a request that
was given up answers with an abort at most. A visible page without a socket has a timer, on every
interleaving of tabs, timers and late close events.

**Agents.** A streak is what the detector remembers of a run of failures: pairs are dropped for newer
ones, messages are lost, restarts forget. `CountsAreExcused` bounds the streak by the run, and
`CountsAreComplete` says when they agree. Scores are compared with the exact history (`Close`), half a unit per completed task and restart.

**Spec engine.** What a request holds while the model answers is a copy; `EngineInv` says it is a version
that was stored under that id, so that a review is of one version whatever was stored meanwhile.

**Gateway.** The entries kept for a key are the end of everything ever admitted for it (`WindowOK`), and the
admission that lies the limit before another is a window older. Each attempt of a write but the first
follows a 5xx answer of its service, counted one by one.

**LLM client.** `check_budget` and `record` are an await apart. `SpendOK` bounds what was spent and what
the calls in flight may still cost, each no more than the dearest charge, by the budget and one dearest
charge for each call that overlapped another.

**Router.** Weights, prices and thresholds are those of the code, requests and limits any. Each share of a
score grows with what it measures, also in integer arithmetic, so the sum does; `CollectorInv` keeps
costs as sums over tiers. `RecordOK` ties a task's tier and its call for a person to the history of
reports, whatever tiers they named, which gives `PersonIsAsked` and what a report may do (`FailureStep`).

**Security.** A decision of the gate is `EvaluateGate` of results that scanners made (`DecisionInv`), so
what it says follows from the results, whose verdicts and findings agree (`VerdictSays`). The edit
distance is proved for names of any length. The rows of `_levenshtein_distance`, the swap to the
shorter name included, are entries of one table (`DistanceIsOfATable`, `IsTable`). One edit of a name
changes no entry of the last row by more than one (`EditCostsOne`, column by column: `SameBeginning`,
`SameEnd`), hence n edits suffice only if the distance is at most n. Conversely every entry is the length
of a sequence of edits (`TableIsPaths`) that takes letters away first and puts them in last, so that no
word on the way is longer than the two names.

Assumed nowhere: fairness. All theorems are about safety and hold for the plain `Init /\ [][Next]_vars`.

**Only model-checked.** Liveness (`RequestsEnd`, `AllTasksComplete`, `CallsReturn`, `ServicesProgress`,
`DeliveryEnds`), which is out of the prover's reach together with ENABLED. `OneAgentPerTask` is proved for
`SteadySpec` and model-checked, with claims that expire late and a crash, beyond it. The five violated properties are
refuted by TLC and not the subject of a theorem. That the unions by focus restrict the components'
specifications is by construction of the MC modules and not proved.

## 5. What is left out

* **Not modelled** (see "components" in `PROJECT.json`): what a language model answers, what runs inside
  a container, the grammar work of tree-sitter and the wording of prompts, logging, metrics, settings,
  the commands of the CLI and the pages of the dashboard, which display what the gateway answers, and
  the database and test libraries, which keep no state of their own.
* **Ledger.** `get_field`/`set_field` of the cache have no caller. `submit_proposal` with an id in
  use is refused by the primary key and is not a behaviour of the model.
* **Scheduler.** `TaskRepository.update_status` only flushes; the commit of the surrounding session
  is taken to follow at once. One `schedule_and_claim` at a time per instance. CANCELLED and BLOCKED
  are never entered by this code. The mode without Redis (an asyncio lock) is left out; tasks are
  submitted in `TaskOrchestration` and not while the schedulers of this module run.
* **Event bus.** One stream and one group. Who owns a pending entry is not represented since no code
  reads entries by owner. `claim_stale_messages` has no caller; its only lasting effect, dropping
  entries that were trimmed, is modelled.
* **Deployment.** The HTTP services behind the activities are external: their answers are any value.
* **Dashboard.** Delays between retries; a second page.

### Seen while modelling, and not the subject of a run

Ledger and scheduler:
* `get_version` answers for versions beyond the latest (`state_manager.py:120`); a proposal overtaken by
  a commit stays pending for ever and no party resubmits it (`:225`); a budget sent as a string escapes
  the sign test (`:428`, exempted in `OverdraftsAreRefused`).
* A claim expires after an hour whether or not its task still runs (`distributed_lock.py:73`); attempt
  counts are lost by a restart (`task_repo.py:68`) and a row that was RUNNING when a process died is
  offered again and refused by `mark_running`; `schedule_and_claim` answers None when the best task is
  claimed, though another is ready.
* A spec refused for a cycle has already added its tasks to the shared graph, and later specs are
  refused with it.

Delivery:
* A failed rollback call is announced as rolled back (`deployment_pipeline/temporal/activities.py:333`)
  and metrics that cannot be collected are healthy (`:206`); an EVAL_COMPLETED published twice starts
  a second deployment.
* `SandboxClient` addresses routes the sandbox does not serve. Every evaluation layer opens a sandbox
  of its own, without the files of the one before. `integration_tests.py:34` promises PASS when no
  integration test is found, but exit code 5 is FAIL_HARD; an adversarial run that breaks passes
  (`adversarial.py:41`); `enabled_layers` is ignored; a soft failure is not retried.
* `commit_code` repeated after a crash finds nothing to commit and fails; the ledger's commit hash can go
  back to an older commit when two workflows overlap.
* Code counts as tested when no command ran (`coding_agent/temporal/workflows.py:74`, `all()` of an
  empty list) and, in the loop, when one failed without output (`coding_agent/agent.py:188`). The update of the ledger is reported as failed
  when only its answer was lost (`coding_agent/temporal/activities.py:217`).
* An estimate above the capacity of the bucket waits for ever; the charge for an answer that came after
  its timeout is not tracked. `EscalationPolicy` is called by no route, and trusts the tier it is given: a late
  report moves a task back to the tier it names (`escalation.py:54`).
* A result that needs clarification is not stored, so it cannot be clarified; a second clarification
  forgets the answers to the first.
* Requests refused with 401 count against the limit; httpx timeouts are neither repeated nor mapped; a
  POST is repeated after a 5xx answer.

Services:
* Two votes that overlap are counted as one (`human_interface/api/routes.py:449`).
* `expire_escalation_activity` promises to expire a pending escalation
  (`human_interface/temporal/activities.py:61`), but the endpoint resolves by id alone: a timeout that
  fires after a person answered overwrites the answer. The model has this race (`Resolve`); no property
  claims that a person's answer stays.
* A crash leaves the microVMs of a sandbox running, since `_vms` is memory only and nothing looks for
  them (`firecracker_executor.py`). The row of a destroyed container may end as `ready`, `timed_out` or
  `error`, because `docker_executor.py:405` writes the status a concurrent command has set.
* Every fetch of documentation raises a TypeError (`doc_fetcher.py:107`).
* A worker task that failed raises when shutdown awaits it, and the rest of the shutdown is skipped
  (`failure_taxonomy/service.py:130`).
* A level that `threshold_crossed` finds (after a restart with a smaller budget) is not written to the
  database (`budget_tracker.py:190`), unlike those `record_consumption` finds, and a crash forgets it: the
  proof of `StepsAllowed` needs this excuse (`"level" \in lost`), and that of `LevelsHold` does not.
* Two allocations that fit one by one are both granted (`economic_governor/temporal/workflows.py:176`);
  `SpinDetector.reset` is not called by the service; the scheduler's TASK_FAILED
  (`task_graph_engine/scheduler.py:322`) carries no `agent_id`, so the governor drops it as invalid, and
  the messages of `AgentWatch` are those of publishers that name one.
* `PostMortemWorkflow` may complete with nothing analysed; the docstring of `DependencyAuditWorkflow`
  (`security_immune/temporal/workflows.py:141`) mentions a gate that it does not evaluate.
* The agent bus's service never calls `connect()`; nothing writes its dead letters; `get_entries(0)`
  returns all of them (`dead_letter.py:33`); an unreadable message comes again for ever, and as many as
  JetStream leaves unacknowledged (1000 by default) stop the delivery of new ones (`bus.py:104`); a request
  to a subject of the stream is stored in it, and one that timed out is counted nowhere (`bus.py:134`).
* `search_symbols(limit=0)` returns one symbol; the context of a chunk includes the line above it, code
  or not (`chunker.py:83`); a comment with less indentation cuts a chunk short; embedding a directory
  again duplicates its rows; the vector store stays open when embedding fails (`routes.py:165`).
* Leaving a page closes its socket, whose close event schedules a reconnection (`useWebSocket.ts:50`); a
  close event that comes late clears the reference to the successor, so two sockets may stay open, and
  a hidden tab may keep one although line 82 says "Pause: close connection and cancel retries". A
  server slower than the polling interval never gets to show data, since each poll aborts the last.

## 6. Plan

Every component whose state is in this repository is modelled, and every safety property that a passing
run checks is proved for its component. What would come next, in this order:

1. Specifications that compose components: the evaluation engine's EVAL_COMPLETED starting a deployment
   over the event bus, AGENT_COMPLETED reaching the governor, with the bus's guarantees in place of a
   variable that is set.
2. Abstract specifications for the scheduler (a set of tasks, each completed once while claims
   outlive tasks) and for the event bus, and refinements as for the ledger.
3. The parts listed in section 5 and in `PROJECT.json` with status "partly".
