# EIS: verification project

TLA+ models of EIS (Echowavs Intelligence System), the Python package under
`src/src/eis`. Each module translates the code of one component; TLC checks the
modules on small instances, and TLAPS proves the properties that matter most for
every instance. `PROJECT.json` maps every definition to the lines it stands for.

EIS is a library. Its coroutines run on one asyncio event loop per process; what a
process must not lose is in SQLite tables. Concurrency therefore means: several
coroutines that interleave at their awaits, and several processes that share a
table. That decides the grain of the models: *a step runs from one suspending await
to the next*, a SQLite transaction is a step, and a process may stop between two.

Contents: 1 inventory, 2 plan, 3 modules and code, 4 runs, 5 bounds, 6 fairness,
7 proofs, 8 what is only checked or left out, 9 divergences.

## 1. Inventory

Paths are below `src/src/eis/`. "Hard" names the behaviour a test hardly reaches.

### Modelled

**Workflow runtime and store** (`workflows/runtime.py`, `workflows/store.py`,
`workflows/models.py`).
State: a table with one row per workflow (status, phase index, approval request,
event list, replaced whole by `save`), the in-memory `_approval_cache`, and the local
state snapshot of each running call. Operations: `start`, `run`, `resume`, `escalate`.
The runtime asks the security gateway before each phase, awaits the phase's operation,
and persists the result. Hard: two calls on one workflow each hold a snapshot and the
last save wins; a process dies with an approval in its cache; a save raises after the
approval was taken. Correct when an approval starts one operation at most and only the
one it was granted for, the persisted trail explains the persisted progress, terminal
rows are final, and every workflow ends.

**Security gateway** (`security/runtime.py`, `security/models.py`,
`integrations/security.py`).
State: the approvals of the gate, the guard's list of time stamps and its two budgets,
the audit trail. Operations: `prepare` (authorize, demand an approval for what is high
risk, check the limits), `complete` (count, then record), `request` and `resolve` of
approvals; `IntegrationSecurity.read` and `write` await an external operation between
`prepare` and `complete`. Hard: many actions between the check and the count; actions that
are cancelled or refused half-way. Correct when the limits bound what was done, and the
trail tells every decision and outcome once. The workflow model contains the part of the
gateway that a workflow meets: high risk only runs when approved.

**Job queue, worker and its metrics** (`observability/jobs.py`,
`observability/worker.py`, `observability/runtime.py`).
State: the jobs table (status, attempts, lease), each worker's frame in `run_once`, and
the counters of tasks, which are memory of a process. Operations: `enqueue`,
`recover_expired`, `claim`, `complete`, `fail`, `run_once`, `stop`, `record_task`. Hard:
`claim` selects and updates in two statements, processes share the table, handlers are
cancelled and processes die holding leases, and what dies with a process is not what the
table keeps; retries count attempts from the claimed copy. Correct when no two workers hold
a job, finished jobs are final, jobs start in order of arrival, the attempts are bounded,
every job finishes, and the counters of a process agree with what it did to the table.

**Response cache** (`performance/cache.py`).
State: an ordered dictionary with expiry times, `_inflight` futures per key. Operations:
`get`, `set`, `get_or_set`, `clear`. Hard: callers join another caller's future; the one
that runs the factory, or one that joined, is cancelled. Correct when one factory runs
per key, every joiner is served, and the recently used entries stay.

**Task scheduler** (`performance/scheduler.py`).
State: a bounded priority queue, worker tasks, a future per submission. Operations:
`start`, `submit`, `drain`, `close`. Hard: puts that block on a full queue, submissions
that race with `close`, withdrawn submissions, operations ending in CancelledError,
restarts after a close. Correct when what was accepted is answered, urgent work goes
first, and the crew that runs it is complete.

**Batches and retries** (`performance/execution.py`).
State: local to one `retry_optimized` over one `batch_gather`. Hard: the first exception
of a batch leaves its other operations running, and they end during later attempts.
Correct when a call that returns has the values of one attempt, all and in order.

**Concurrency limiter** (`observability/resilience.py`).
State: the permits and waiters of an asyncio semaphore; attempts per `retry_async`. Hard:
a waiter that is cancelled after a permit was handed to it. Correct when no permit is
lost or used twice, and whoever waits gets a turn.

**Model routing** (`performance/routing.py`).
State: the routes by name and the policy of a router. Operations: its construction and
`prepare`. Hard: names registered twice, names that are also models. Correct when the
model that is asked for is the one whose route the caller goes by.

**Tools** (`tools/execution.py`, `tools/policies.py`, `tools/models.py`, `tools/builtin.py`).
State: per call only, plus the audit sink and the operating system's processes.
Operations: `SecureExecutor.execute` with its checks, `LocalSubprocessBackend.run`, the
seven tools. Hard: two timers of the same length race; callers are cancelled; a process
outlives its caller. Correct when each call is audited once with the status its caller
got, no call outlasts its timeout, and nothing it started outlasts it either.

**Engineering agent** (`engineering/runtime.py`, `engineering/models.py`).
State: the call counter, start time and change tracker that all runs of an agent share.
Operation: `run`, a bounded loop of implementation, targeted tests, broader tests and
corrections. Hard: overlapping runs reset each other's budget; limits at their exact
value; tests that ran before the last change. Correct when "completed" means tested.

**Verification engine** (`verification/runtime.py`, `verification/models.py`).
State: local to one `verify`. Operations: baseline, passes over all stages, a bounded
number of corrections, each validated. Its correction runner may be the engineering
agent (`docs/architecture/verification.md`). Correct when "verified" means that
every stage passed after the last correction.

**Model runtime, its providers and metrics** (`models/runtime.py`, `models/policy.py`,
`adapters/models/openai_compatible.py`, `adapters/models/cloudflare.py`,
`observability/model.py`).
State: the usage ledger, the traces and the counters that all calls of a model share;
attempts are local to a call, and each attempt is one HTTP request. Operations: `generate`,
`generate_structured`, `embed` and `stream`, with retries, timeouts and backoff; the
adapters turn replies and failures into answers, chunks and exceptions. Hard: calls that
overlap replace each other's ledger; a stream is retried when its consumer already has
half of it, or is cut; ReliableModel and the HTTP client time the same request, the one as
a whole and the other each read of it. Correct when ledger, traces and counters agree with
the replies, only transient failures are repeated, a traced stream ended with the whole
output, and calls end.

**Evaluation and red team** (`evaluation/`, `redteam/`).
State: the responses of a run, its report and the gate over it. Hard: rates over sets that
are empty or large. Correct when no unsafe answer passes a gate.

**Integrity engine** (`integrity/engine.py`, `integrity/models.py`).
State: the tracked evidence, which expires. Operations: `track`, `validate_claim`,
`find_contradictions`, `assess_response`, `evaluate_idea`. Hard: evidence expires while it
is being weighed; two components
define "contradiction" independently. Correct when a claim that is called supported rests
on evidence in which the detector finds no conflict, and an idea that is called supported
rests on such claims.

**SDK facade** (`sdk/api.py`).
State: results per task, what was registered or remembered, the audit history. Operations:
`create_task`, `run_agent`, `execute_engineering`, `orchestrate`, `execute`,
`evaluate_idea`, and the methods that keep something. Hard: agents of one task overlap,
raise or are cancelled. Correct when results and history tell the same story.

**Knowledge entities and memory records** (`knowledge/models.py`, `memory/models.py`,
`adapters/knowledge/local.py`, `adapters/memory/local.py`).
State: a dictionary of immutable objects. Clients read an object, derive another, and
`update` stores it over whatever is there. Hard: an update of an outdated copy. Correct
when history is complete and never re-activated.

**Context builder** (`context/`, `performance/context.py`).
State: the items of each retriever. Operations: `add`, `retrieve`, `build`,
`optimize_context`. Hard: duplicates, kinds of sources, scores, a limit and a room compete
for what is chosen, in an order of filters that matters. Correct when everything left out
has a reason and what is chosen is within its bounds.

**Agent runtime** (`agents/`) and **agent orchestration** (`specialized/`).
State: local to one `run`. Operations: the steps of a plan through permission and policy
gates, told to an observer; the assignments of several agents, then their challenges.
Hard: an observer that raises after a tool has run, or at the last event; two assignments
of one kind. Correct when the observer's account, the collected observations and the
outcome agree, and challenges are of the results that are returned.

**Integrations** (`integrations/runtime.py`, `integrations/github.py`,
`integrations/local.py`).
State: none but the repository at its service or on disk. Operations: `project_context`,
a series of requests; `create_issue` and `create_pull_request`, one each; `inspect` and
`ingest` of a local directory. Hard: others commit or write between any two reads; the
reply to a write is lost. Correct when the parts, though of different times, fit together,
and what a service created is audited.

**Core runtime** (`core/runtime.py`).
State: the life cycle, the event handlers, the calls of `emit` under way. Hard: handlers
that subscribe, emit or raise while an event is delivered. Correct when an event reaches
the handlers that were registered when it was emitted.

### Not modelled

| Component | Why |
| --- | --- |
| Contracts and settings (the `protocols.py` modules, `config/`) | Protocol classes and settings: no behaviour |
| Organization data (`organization/`) | Immutable configuration with lookups: no state changes |
| Ingestion contracts (`knowledge/ingestion.py`) | Protocols for connectors that do not exist yet |
| Model registry and fakes (`models/registry.py`, test doubles) | A table of factories, and code for tests |
| Profiling, cost estimates (`performance/profiler.py`, `estimate_cost`) | Measuring and arithmetic; nothing depends on the results |
| Spans, logs, health, dashboards (`observability/`) | They report what other components did |
| Lookups of the SDK, CI queries of the integrations | Single reads |

## 2. Plan

The order is by what is lost when the component is wrong: authority first, then work,
then answers, then speed.

1. `WorkflowLifecycle`: the abstract life of a workflow row. *Done.*
2. `EngineeringWorkflow`: the runtime with store, gateway and crashes; it implements (1)
   for calls that do not overlap. *Done; its safety and the refinement are proved.*
3. `JobQueue`: table, leases and workers in one process or several. *Done; proved.*
   `JobMetrics` adds the counters. *Done; proved.*
4. `ResponseCache`, `TaskScheduler`: single flight and scheduling. *Done; proved.*
5. `ToolExecutor`: calls, timers, processes, audit. *Done; proved.*
6. `EngineeringAgent`, `VerificationEngine`, composed by `CorrectedDelivery`. *Done;
   proved.* `KnowledgeRepository` and `MemoryRepository`, side by side in `Stores`. *Done;
   proved.*
7. `SecurityGateway`, `IntegrityEngine`. *Done; proved.* `ReliableModel` and, on top of
   it, `ProviderModel`; `SdkFacade`. *Done; proved.*
8. `AgentRuntime`, `AgentOrchestrator`, `ProjectContext`. *Done; proved.*
   `ContextBuilder`. *Done; proved.*
9. `Batches`, `ConcurrencyLimiter`, `ModelRouting` (with `ContextBuilder` in `Choices`).
   *Done; proved.*
10. `Evaluation`, `LocalRepository` (with `ProjectContext` in `Integrations`),
    `ExternalWrites`, `RuntimeEvents`. *Done; proved.*

What a next step would add: an abstract job table in which a job is owned by one worker or
none, which `JobQueue` should implement while handlers keep their leases; the scheduler
with several callers of `close`.

## 3. Modules and how they correspond to the code

| Module | Models | State in the code |
| --- | --- | --- |
| `EngineeringWorkflow` | `EngineeringWorkflow`, `WorkflowStore`, part of `SecurityGateway` | `store`: the table; `runner`: the frames suspended at `operations.execute`; `cache`: `_approval_cache`; `requested`, `granted`: the approval gate's outside world; `spent`: the governance window |
| `WorkflowLifecycle` | what `docs/architecture/autonomous-workflows.md` promises of one row | `life` |
| `JobQueue` | `JobStore`, `Worker` | `job`: the table with the ticks left of each lease; `worker`: frames in `run_once`; `stopping` |
| `JobMetrics` | `Worker` with `MetricsRegistry.record_task` | `metrics`: the counters of the present process |
| `ResponseCache` | `AsyncResponseCache` | `entries`, `inflight`, `future`, `call` |
| `TaskScheduler` | `TaskScheduler` | `stage`, `priority`, `future` of submissions; `worker`, `crew`, `started`; `closer`, `gathered` |
| `Batches` | `retry_optimized` over `batch_gather` | `place`, `attempt`, `batch`, `results`: the frame of the call; `executed`: the tasks of every attempt |
| `ConcurrencyLimiter` | `ConcurrencyLimiter`, `retry_async` | `semaphore`: permits and waiters; `work`, `attempts`: the calls |
| `ModelRouting` | `ModelRouter` | `router`: routes and policy; `prepared`: the last request |
| `ToolExecutor` | `SecureExecutor`, `LocalSubprocessBackend`, the tools | `call`, the two timers `outer` and `inner`, `process`, `audit` |
| `EngineeringAgent` | `EngineeringAgent` | `run`; shared `calls`, `left`, `changed` |
| `VerificationEngine` | `VerificationEngine` | `step`, `stage`, `clean`, `attempts`, `verdict` |
| `CorrectedDelivery` | the two together and another caller | both |
| `KnowledgeRepository`, `MemoryRepository` | the entities and local repositories | `stored`, `records`; `copy`, `kept`: what clients have in hand |
| `SecurityGateway` | `SecurityGateway`, its guard and gate, `IntegrationSecurity` | `counted`, `stamp`, `used`: the guard; `trail`: the audit sink; `approvals`, `handed`: the gate and the values it returned; `place`, `ending`: the calls |
| `IntegrityEngine` | `InMemoryEvidenceTracker`, `DefaultIntegrityEngine`, `DefaultContradictionDetector` | `evidence`, `expired`; `assessed`: the assessments callers keep |
| `ReliableModel` | `ReliableModel`, `InstrumentedModel` | `ledger`, `traced`, `metered`; `ask`: the frames; `delivered`: what consumers received |
| `ProviderModel` | `ReliableModel` over `OpenAICompatibleModel` or `CloudflareModel` | `exchange`: the request under way; `quiet`: whether its read has waited as long as httpx allows; `seen`, `reported`: history of the replies and of the tokens they report |
| `Evaluation` | `EvaluationFramework`, `RedTeamFramework` and their gates | `evaluation`, `redteam`: the frames of the two runs |
| `SdkFacade` | `EIS` | `result`, `history`, `added`; `run`: the frames |
| `ContextBuilder` | `ContextBuilder`, `InMemoryRetriever`, `ContextScorer`, `optimize_context` | `shelves`: the retrievers; `asked`, `answers`: the frame of `build`; `context`: what was returned |
| `AgentRuntime` | `AgentRuntime` | `standing`, `plan`, `done`, `observed`: the frame of `run`; `heard`: the observer |
| `AgentOrchestrator` | `AgentOrchestrator`, its agents | `stage`, `work`, `ran`, `results`, `keys`, `posed`, `challenges`: the frame of `run` |
| `ProjectContext` | `IntegrationRuntime.project_context`, `GitHubConnector` | `commits`: the repository; the rest: the frames of the call and what it collected |
| `ExternalWrites` | `create_issue`, `create_pull_request` in `IntegrationSecurity.write` | `writing`: the calls; `inflight`, `effects`, `replies`: the service; `writeRecords`: the audit |
| `LocalRepository` | `LocalRepositoryConnector` | `tree`: the file system; `walked`, `listing`, `read`: the frames; `ingestTrail` |
| `Stores`, `Integrations`, `Choices` | the two repositories, the two connectors, the builder and the router, side by side | that of the modules they extend |
| `RuntimeEvents` | `EISRuntime` | `state`, `handlers`; `emitting`: the stack of `emit` calls |
| `MCEngineeringWorkflow`, `MCResponseCache`, `MCIntegrityEngine`, `MCExecution`, `MCDelivery`, `MCServices` | instances, symmetry, bounds and products for TLC | a variable that names the component a behaviour uses |
| `EngineeringWorkflowProofs`, `JobQueueProofs`, `ResponseCacheProofs`, `GovernanceProofs`, `ExecutionProofs`, `DeliveryProofs`, `ServicesProofs`, `ApplicationProofs` | theorems and their proofs | see 7 |

Variables marked "history" in a module record what happened for a property to speak of;
no guard reads them. Operators introduced by a comment that begins
"Variant:" are not used by any specification: each is a plausible bug of the definition
below it, and each property is known to fail when the variant takes that definition's
place.

*Workflow steps.* The only await in the runtime is `operations.execute`. `RunWorkflow`,
`Resume` and `OpReturns` therefore run through `Continue`, the body of the loop up to the
next operation, checkpoint or return, in one step, with every save on the way. `Leave`
lets the last save of a call raise: the row saved before it stays. `Restart` forgets
frames, cache and window and keeps the table.

*Job steps.* With `Interleaved = FALSE` the guard `Turn` keeps workers of one event loop
from interleaving between statements, as the code has no await there; with TRUE each
statement of `recover_expired`, `claim`, `complete` and `fail` is a step of its own, as
processes see it. Times are the ticks left, so that the state space is finite. A metric is
recorded in the step that writes the row. What interrupts a worker is of two kinds.
`Interrupt` is the cancellation of `run_once`, or a last write that raises: the worker is
gone from the job, its process is not. `Die` is the death of a process, which takes all the
workers that live in it, and in `JobMetrics` (`Died`) the counters: the next process starts
from zero with the table as it is.

*Cache and scheduler steps.* The cache's lock is never held across an await and is hence
no state. A scheduler worker that ends an operation runs on through `task_done` and
the next `get` (`Fetch`), dropping withdrawn items. Worker tasks and futures are reused
once nothing refers to them, which bounds them without bounding behaviours.

*Batches and limiter.* `asyncio.gather` and `asyncio.Semaphore` are external: gather raises
the first exception and leaves the other tasks running; a release hands the permit to the
first waiter, which holds it before it runs again.

*Tool steps.* The executor's timer starts with the call, the backend's once the process
exists; both count down with `Tick`. When both are due, the executor's fires first,
because it was set first. `OuterTimeout` and `Cancel` leave the process as it is: nothing
in the backend handles CancelledError.

*Delivery.* Correction n of the verification is run n of the agent. Run 0 belongs to
another caller and may overlap. All collaborators answer anything at any time, raise, or
are cancelled.

*Gateway.* `prepare` and `complete` contain no await, so each is one step; what happens
between them is the awaited operation. `authorize` is modelled by its outcome, with the
fact that high risk is decided before roles. An approval is a value that callers keep, so
`prepare` may be given any that the gate ever returned.

*Integrity.* `validate_claim` reads the clock once per item for the fresh items and once
more for the stale ones. `Validate` lets any matching items expire between the two.
`assess_response` and `evaluate_idea` compute from assessments and are operators; the
properties quantify over all assessments they could be given.

*Model runtime and providers.* A step runs to the next await: the answer of a provider, its
trace and its usage are one step, as no await is between them. Chunks are numbered, so
that a property can tell a repeated one. The counters of `InstrumentedModel` change in the
step in which the call it wraps ends, as nothing is awaited after it. `ProviderModel`
composes every step of a call with what the HTTP exchange did: a reply of any status, with
a body that can be used or not, an event stream line by line, a timer or nothing at all.
httpx's timeout is one of each read. `Silence` is a read that has waited that long, after
which `HttpTimesOut` may raise; `Trickle` is something that comes in time and is neither
the answer nor a chunk: part of a body, a comment, an event without content, which the
adapter skips, and the next read is measured anew. `CallTimesOut`, ReliableModel's own
timer, measures a generation as a whole and a stream up to its next chunk, but only in a
request that has a timeout.

*SDK.* All methods that keep something are one action: they check, keep and tell, or raise.

*Context.* How the text of a query matches an item is abstracted to the item's relevance;
scores are integers, hundredths of the code's. `asyncio.gather` lets each retriever answer
at a time of its own, with what was added by then. `heapq.nlargest`, `deduplicate` and
`rank` are defined by what they keep and by the order of their keys, not by their loops.

*Orchestration.* `results` is a dictionary, which keeps a kind's place when its result is
replaced: `keys` is that order, and a question is an assignment and a place. `AskChallenge`
poses the first question that has not been posed, as the two nested loops do.

*Agents.* The observer is synchronous and any call of it may raise: `Emit` goes on or
falls to the escalation. Gates are abstracted to their outcome per step of the plan.

*Project and local repository.* A commit or an edit writes or deletes one path. The content
of a path is the change that wrote it, so that a property can ask when it was current.

*Evaluation.* A response is the judgement of it: correct, honest, hallucinated, violating.
The report's rates are compared by cross-multiplication, as the code compares floats.

*Services.* The repositories and the other modules that `MCServices` extends share no
state. A variable `service` that `Init` chooses and no step changes names the one that a
behaviour uses: the state spaces add up instead of multiplying, and no behaviour of any of
them is lost. `MCExecution` and `MCDelivery` are built in the same way.

## 4. Runs

| Run | Question it answers |
| --- | --- |
| `workflow_serial` | Do the rows follow the life cycle, with no approved phase lost and an end to every workflow, when one caller at a time meets crashes, cancellations, failing saves and operations? |
| `workflow_concurrent` | Do approvals stay single use and tied to their operation, and does the trail explain the progress, when two calls and `escalate` overwrite each other's snapshots? |
| `workflow_escalated` | Does a workflow stop when it is escalated? No: see 9. |
| `jobs_one_process` | Do workers of one loop start jobs in order, retry within bounds, finish every job and count exactly what their process did, through interruptions and the death of the process? |
| `jobs_crash_attempts` | Are attempts bounded by `max_attempts`, as the documentation says? No: see 9. |
| `cache_calls` | One factory per key, no caller left waiting, recently used entries kept? |
| `cache_owner_cancelled` | Is a joiner served when the owner is cancelled? No: see 9. |
| `execution` | Scheduler: is what was queued before a close answered, most urgent first, with a full crew after each restart? Tools: one truthful audit event per call, a killed process for a tool used directly? Batches: the values of one attempt? Limiter: no permit lost? And does whoever waits for any of them get an answer? |
| `integrity_unsupported` | Is a claim that its evidence contradicts called unsupported, as the documentation says? No: see 9. |
| `tool_process_left` | Is the process over when the executor has answered "timeout"? No: see 9. |
| `delivery` | Is what completes tested and what is verified verified after its last correction; do the limits stop what they should? Does a model behind an adapter repeat only what is transient, do ledger, traces and counters agree with the replies, is a traced stream whole? Does all of it end, whatever providers send, but for a call without a timeout whose provider keeps sending? |
| `services` | Gateway: by how much can overlapping actions exceed the limits, and does the trail tell every outcome once? Integrity: do verdict and detector agree, though evidence expires? Context and routing: can what was chosen be explained? Agents: do the observer and the caller hear the same story, and do challenges fit the results? Gates: does anything unsafe pass? Integrations: do parts read at different times fit together, and are effects audited? Events: do they reach their subscribers? SDK: do results and history agree? Repositories: is history kept and retirement final, unless an outdated copy is stored? Jobs: do statements of three processes keep one owner per job and finished jobs final, while handlers keep their leases? |

The violation runs each check one sentence of the documentation and show how the code
departs from it. All the other runs pass. Where a property of a run is the conjunction of
two or more (`StoresKeepThePast`, `ChoicesExplained`, `DocumentsFitTheProject`,
`EveryCallEnds`, `EverythingEnds`), they ask the same question of components that a
behaviour uses one at a time.

## 5. Bounds

- *Workflows*: two workflows, so that approvals can be confused; two runners, as every
  race in the runtime is between two snapshots; four phases (three concurrently) with two
  approval phases, one of high risk: the loop treats all other phases alike. Approval
  requests, faults and escalations are bounded by `MaxRequests`, `MaxFaults` and
  `MaxEscalations`. `MaxActions = 2` makes the window fill and move. The two runs share
  the module and split the features: failing saves and refinement in the serial
  run, overlap and escalation in the concurrent one, since both together exceed TLC's
  reach. The proofs cover the combination.
- *Jobs*: three jobs for the order, two workers of one loop; or two jobs and three processes
  (a third may recover what one lost while another claims), leases of one tick, two
  attempts, one job without a handler, `MaxCrashes` interruptions and deaths. `MaxClaims` is
  never reached.
- *Cache*: three keys over two entries make evictions; two callers make an owner and a
  joiner, a third, which comes only to a key that is alone in the cache (`MCResponseCache`),
  a second joiner of the same flight; a TTL of one tick expires.
- *Execution*: three submissions of two priorities and two workers, a queue of two that
  fills, one `close` that races and can be repeated; two calls of tools with a timeout of
  two ticks, so that the timers can be apart or together; five operations in batches of
  two, so that there is a short last batch, and three attempts, so that operations of two
  earlier ones can be running; four calls for two permits, so that two can wait.
- *Delivery*: two iterations, five calls (a full iteration with analysis and
  correction and the first call of the next), one file allowed of two, one correction,
  two stages: enough for each limit to be hit exactly and to be exceeded by one. Two calls
  of a model with two attempts and two chunks, so that a stream can fail after its first.
  The output of a stream is finite (`Chunks`); what is skipped between its chunks is not.
- *Services*: three versions and two clients of one entity, one memory (entities do not
  interact); three actions and a limit of one, so that three can overlap, in a window
  shorter than the clock's range, which stamps leave; usage of at most one against a limit
  of one, exceeded by each action that overlaps; two items of evidence, which is what a
  conflict takes, and two assessments, so that opposite claims meet, of claims with and
  without a key, of either polarity, verified and risky; three runs over two tasks, so that
  two overlap on one task and one does not; five items, among them duplicates of equal and
  of unequal authority, in two retrievers, with requests that meet the limit, the room and
  each filter; plans of two steps; up to four assignments of three kinds where three may be
  given; four paths, one of them no documentation, one unsafe, one without base64 content,
  and three commits, one of which leaves its file empty: one between any two requests; the
  built-in suite, alone and with a caller's cases, and at most one response that is not as
  it should be (`MaxDeviations`): one is what no gate may let pass; up to three attacks;
  four local files, three edits; two writes; routers of up to three routes over two names,
  so that names meet; three events and three subscriptions of two handlers, so that one is
  nested in another; the jobs of three processes, see above. The model checker finds
  1,272,371 states.

## 6. Fairness

No property relies on fairness that the code or its documented use does not provide.

- Operations, factories and handlers end: they are awaited by code that has no answer to
  one that does not; each module says where that is assumed. Tools do *not* have to end,
  nor do their processes: `EveryCallReturns` rests on the executor's timer alone. Nor does
  a provider have to answer, or to stop sending: `ModelCallsEnd` rests on time that passes
  (`Silence`), on the HTTP client's timer of a read, which is set for every request, on
  ReliableModel's own where the request has a timeout, and on consumers that read their
  streams. That a read which is fed again and again never times out is part of the model,
  and the property excepts the call that this can hold for ever, which has no timeout.
- The event loop serves what is ready. asyncio's ready queue is first in, first out, so a
  worker that again and again gets to run does so: strong fairness for the job workers,
  which take turns, and weak fairness elsewhere.
- Timers fire: weak fairness of `Tick`, of the timers of requests and of backoff.
- Workflows: a caller runs a pending or interrupted workflow again, and a human grants
  and resumes checkpoints. That is outside the program and is what the documentation
  expects of its user; without it a workflow rightly waits for ever.
- Crashes, cancellations, withdrawals, exceptions and new submissions are never fair.

In a product the fairness of a component is that of its steps while a behaviour uses it.

## 7. Proofs

`tlapm` checks all theorems for every value of the constants that satisfies the named
ASSUMEs, which state only the types of the constants and, for identifiers such as `Idle`
and `NoRequest`, that they differ from what they are told apart from. TLC evaluates the
ASSUMEs in the passing runs. Constants that bound the environment (requests, faults,
edits, events) are arbitrary in the proofs.

**`EngineeringWorkflowProofs`.** `TypeCorrect`, then `ApprovalsUsedOnce`,
`OpenCheckpointsUnspent` and `HighRiskApproved`. That an approval is used once is not
inductive: it needs to be known where an approval can still be used from. `ApprovalInv`
says that a request with a use was requested (`UsesAccounted`), that a cached approval
belongs to its workflow, was granted and has not been used (`CachedUnspent`), that the
stored checkpoint is unspent (`OpenCheckpointUnspent`), and that running HIGH risk
operations have an approval (`RunnersApproved`). The argument: an approval is in
one place at a time. It is in the row while the workflow waits, moves to the cache in
`resume`, and is popped when its operation starts; fresh request ids keep a new checkpoint
from naming an old request. The lemmas follow the code: one each for `Leave`,
`AskApproval`, `Dispatch` and `Continue`, cited by the three actions that run the loop.

`TrailsExplainProgress` and `ApprovalsMatchOperations` assume `~StoreMayFail`, as the
properties do. `TrailInv` says of the rows *and of the snapshots that suspended calls
carry* that their histories explain their phases, because any of those snapshots may
become the row; `GrantsFit` ties each cached approval to the phase of a grant.

`WorkflowsLiveAsPromised` is the refinement: `Spec => RefinesLifecycle`, for calls that do
not overlap (at most one runner) and without `escalate()`. Saves may fail. Its invariant
`SerialInv` says that the suspended call holds the stored row, with its approval
recorded and taken out of the cache (`RunnersCurrent`), and that an approval is left in the
cache only by a failed save of `resume`, for the phase at which the workflow stands
(`CacheCurrent`). Each action is then a step of `WorkflowLifecycle` under the mapping `Life`
or leaves it unchanged.

**`JobQueueProofs`.** `TypeCorrect`; and from `~Overrun` (handlers end within their
lease) `HandlersOwnTheirJobs` and `FinishedJobsAreFinal`, for any number of processes.
`OwnershipInv` adds to ownership that a holder's lease has not run out (`LeasesHold`) and
that finished rows carry no lease (`FinishedUnleased`): `recover_expired` takes a row only
at lease 0, and the guarded update takes a row only while it is queued, so no holder's row
is touched by anyone else. `ExtraAttemptsArePaidFor` charges every attempt of a job beyond
its limit to one interruption or death of the process, by counting over the finite set of
workers and jobs.
`OldestAreClaimedFirst` assumes `~Interleaved`, one process whose claims do not overlap:
`OrderInv` says that the row a claim has selected was submitted before every other that was
due, and that the table does not change while the claim is under way.
`MetricsAlwaysFit` assumes `~Overrun`, one process at a time (`~Interleaved`) and
`max_attempts # 0`. It is about the attempts of which the present process has seen the end:
each is a pair of a job and a number, those of earlier processes and the interrupted ones are
set aside (`unreported`), and the counters are cardinalities of sets of such pairs, the
counter of retries included. `MetricsRunQueue` shows that a step with counters is a step of
the queue, so that `OwnershipInv` can be used. A claim adds one attempt, which is in hand; an
outcome takes it out of the worker's hand into the reported ones and, if it is final, adds a
row to that status, which only the owner of the row can do; an interruption sets the attempt
aside, and the death of the process (`DeathIdles`: it has all workers) sets all attempts
aside with all counters at zero.

**`ResponseCacheProofs`.** `TypeCorrect`, `FlightsAreSingle`, `NoJoinerIsOrphaned`. The
first needs `FlightInv`: an owner's flight is the one registered in `_inflight` for its
key (`OwnersRegistered`). The second needs `ServedInv`: a registered flight has an owner
(`RegisteredOwned`), since a caller joins what it finds registered. `RecentlyUsedAreKept`
needs `LruInv`: the entries are in the order of their last use (`Ordered`: every key later
in the dictionary has been used since), so that what a full cache evicts, its first entry,
has seen as many other keys used since its own use as the cache holds (`LiveKept`). The
lemmas say so of `Lookup`, `Store` and the removal of a key.

**`ExecutionProofs`.** `OneAttemptAlwaysDecides`: `BatchInv` follows the call through its
batches; what was executed before the awaited batch has its value and is in `results`, and
the tasks that failed attempts left running belong to those attempts, which no step of the
call reads. `OutcomesAreAlwaysTrue`: `CallInv` relates, per call, its stage, its two timers,
its process and its audit events; the stages are in an order in which the audit is written
exactly at the last.
`AcceptedIsAnsweredAlways`: with `SchedulerInv`, a worker runs an operation only as long as it
is wanted, no operation is run by two (`WorkersRunOne`), and an operation that a `close` may
cancel was accepted after it began (`CancellableIsLate`). `UrgentFirstAlways` is about the one
step in which a worker takes an item; `FetchDoes` says what that step leaves and takes.
`FixedCrewAlways` assumes `OneCloser`: at most one caller is in `close` at any time, who may
call it again and again. The code does not impose that, and without it the property fails (see
9). `CrewInv` says that the workers that are alive are in the crew, and that those that `close`
has cancelled are waited for by it. `PermitsAreConserved`: `LimiterInv` says that those and
only those that wait stand in the semaphore's line, each once (`LineFits`).

**`DeliveryProofs`.** `DeliveredIsAlwaysTested`, `LimitsAlwaysOutliveRuns`, type
correctness, and `DeliveryRunsTheAgent`: the composition, seen as the agent alone, is one of
its behaviours. `AgentInv` says which tests have passed at each stage of a run, that the
calls of an undisturbed run are among those counted, and that a run that began with too many
changed files gets no further than its implementation. `VerifyInv` says that in a pass
without a failure the stages before the current one have passed since the last correction
began. For calls of a model through an adapter, `OnlyTransientsAreRepeated` and
`TracedStreamsAreWhole`: `ModelInv` relates, per call, its stage and attempts to what each
attempt came to (`AttemptsFit`), to the chunks its consumer has (`ChunksFit`: the last ones
are those of the current attempt, and each attempt began at most once) and to its trace
(`TraceFits`). `LedgerAlwaysHoldsReports` is about a sum over all calls. A fold would need
an induction of its own, so the model states the sums as cardinalities: of the set of the
calls that were answered, and of the set of their tokens, one pair for each. `LedgerInv`
gives ledger and counters those cardinalities; an answer adds one call and its tokens to
these sets in the step that writes the ledger (`AnswerKeepsLedger`), and no other step
changes them.

**`GovernanceProofs`.** Of the gateway, `GatewayTypeCorrect` and `LimitsAlwaysHold`, for any
number of
actions, limit, window and budget. `LimitsHold` alone is not inductive, because it does not
say what the actions under way may still add. `LimitsInv` charges each of them in advance:
counted plus under way stays below `MaxActions` plus the peak, and each budget plus what
those under way may use stays below its limit plus the peak times the most an action uses.
An admission raises the charge while the guard still sees room; a completion turns charge
into count (`LimitsAtEnd`); the clock only takes stamps out of the window.
`TrailAlwaysTellsOutcome` needs that an action has no ending, and hence no record, before
it is over (`TrailInv`).

Of the integrity engine, `IntegrityTypeCorrect`, `SettledClaimsAgree`,
and `UnsupportedIsUnreachable`, over any evidence.
The argument is about one assessment: fresh matching evidence either supports the claim or
contradicts it, and what is not contradicted has one polarity; items only ever expire, so a
pair without a conflict then has none later. An idea adds nothing to its criteria
(`SupportedIdea`), and evidence that supports a claim and its opposite has no polarity.

**`ServicesProofs`.** `EventsReachTheirSubscribers`: `RuntimeInv` gives every call of `emit`
that is under way an open event of its own, with as many handlers called as the frame says,
and every event the calls of a prefix of its copy. `EffectsAreAlwaysAudited`: `WriteInv`
relates what exists to the reply, and the reply and the stage of a call to its records.
`ObserverAlwaysKnowsTheRun`: `StandingFits` says, for each place at which a run can stand, how
many steps it has begun, done and told, and which event was the last; the handler of an
exception stands there with one escalation told. `UnsafeNeverPassesAlways` assumes
`StrictSuites`, which says which suites the property is about: thresholds of 95% and 2% forgive
nothing in fewer than 20 adversarial and 50 cases, and ids are unique. `MCServices` assumes
the same of the suites of its run, so that TLC evaluates it. `GateIsStrict` is the arithmetic
of the gate; the rest counts findings.
`ChoicesAreExplained` is about what a loop computes, for items in any number. The theorems of
the library that do induction take a predicate, which no prover here can instantiate, but that
the order of the naturals is well founded is about a set: a set of naturals has a least element
(`LeastNatural`), hence what passes from each place of a sequence to the next holds at all
(`UpTo`), and the recursive function of the selection loop exists (`Recursion`). `ChoiceFits`
is the invariant of that loop: an item that was passed over had no place among the items chosen
so far, and later ones rank below it and do not change that (`TakeFits`). `RankedSorts` needs
that the number of items ranked above an item is a bijection with their places. Then
`ContextInv` says that what retrievers hold is finite, and the rest is about one step.

**`ApplicationProofs`.** `StoresAlwaysKeepThePast` is an action property of the two stores:
`KnowledgeInv` says that the entity a client has in hand, if it was read since the last
change, is the stored one or derived from it by the client's own operations, none of which
loses a version, a writer or a relationship; `MemoryInv` says that such a memory is the stored
one. What `update` stores is therefore no less than what was there, unless it is outdated.
`DocumentsAlwaysFitTheProject`: `ReadingInv` gives each part the commit at which it was read,
in the order of the requests; `DocumentsInv` says that the documents are those of the listing
up to where it is read, each with a content that its path has held since it was listed. If
nobody committed from the first request to the last, that is one commit. `LocalInv` says the
same of a local listing, of what each file has held since the walk came by it.
`ChallengesAlwaysFitResults`: results
are those of the last assignment of each kind that has run, `keys` has each of these kinds once
(`ResultsInv`), and each challenge answers a question of its own (`QuestionsInv`), which makes
them differ and, because nothing runs any more when questions are posed, fit the results.
`ResultsAlwaysFollowHistory`: the history is cut into what it tells of each run. `OthersTell`,
`TheyTell` and `NothingTold` say what becomes of such a part when entries are appended by other
runs, by the run itself or when it has none; with them each step touches the part of one run
(`SdkStep`), the last word on one task (`AgentHasLastWord`) or the part of what is kept
(`KeepStep`). `SdkInv` adds only that a run that awaits or has not begun has no outcome.

## 8. Only model-checked, and left out

Out of the prover's reach: liveness (`EveryWorkflowEnds`, `EveryJobFinishes`,
`EveryCallEnds`, `EverythingEnds`). Every safety invariant and action property that a passing
run checks is stated by a theorem. The five properties that fail (section 9) are refuted by
their runs. The type invariants of most modules are parts of the invariants that are proved,
and so is that open checkpoints are unspent; no run repeats them.

Left out of the models, because no property speaks of it: texts of reports, events,
prompts and logs; `CacheStats`; `get_or_set` with `cacheable=False`, which bypasses the
cache; the hashing of cache keys (keys are abstract); metrics other than those of models
and tasks; rejected approvals, which `resume` never accepts; the gate's dictionary of
requests; capping and redaction of tool output; the search and ranking of knowledge and
memory; relationship targets; the matching of roles, permissions and restrictions; the
length of backoff delays; lookups of the SDK; the lists of risks and unknowns of an idea
and the text of honest responses; how a query's terms match a text; the payloads and
headers of HTTP requests; the category scores of an evaluation; the CI queries, paging and
headers of the GitHub connector. The checks of paths, commands and hosts in the built-in
tools are abstracted to their result.

## 9. Divergences

Five are runs, with the sentence they contradict quoted in `PROJECT.json`:

- `jobs_crash_attempts`: an interrupted last attempt is queued again by `recover_expired`
  whatever its attempts. `ExtraAttemptsInterrupted` shows that nothing else exceeds them.
- `cache_owner_cancelled`: a cancelled owner drops its future unresolved, and callers that
  joined wait for ever. `EveryCallEnds` of `ResponseCache` shows that this is the only way
  to wait for ever.
- `tool_process_left`: the executor's timeout cancels the backend before the backend's own
  timeout can kill the process, which runs on. `OutcomesAreTrue` shows that the backend
  alone does kill it.
- `integrity_unsupported`: evidence that is about a claim and contradicts it makes the claim
  "questionable", and evidence about it that does not contradict it supports it, so that
  the branch of `validate_claim` that answers UNSUPPORTED is never reached, although
  `docs/architecture/integrity-engine.md` lists it as a distinct outcome. That is so for
  any evidence: `UnsupportedIsUnreachable` is proved.
- `workflow_escalated`: an operation that raises `WorkflowEscalation` leaves its row
  "running", which `run` executes again; and a runner that was suspended while `escalate`
  stored its row stores its own snapshot over it.

Others were met while modelling. The models contain them, and the properties are stated so
as to hold exactly where the code holds:

- Two overlapping `run` calls of one workflow overwrite each other's row, a terminal one
  included (`RefinesLifecycle` is therefore stated for calls that do not overlap).
- `resume` caches an approval before its save: if the save raises, the approval stays
  cached for the next checkpoint of the workflow (`ApprovalMatchesOperation` is checked
  with saves that work, `HighRiskNeedsApproval` is proved with saves that fail).
- The rate and the budgets are checked before an operation and committed after it:
  concurrent actions exceed them, by at most what `LimitsHold` states.
- A cancelled external operation is neither counted nor audited, and no limit refusal
  is audited (`TrailTellsOutcome` says so), although `docs/architecture/integration.md`
  has reads audited after the operation. A write recorded as failed may have had its
  effect, when its reply was lost (`EffectsAreAudited`).
- `resolve` accepts an approval that was already resolved, and a rejected request's earlier
  approval stays valid in the hands of a caller.
- A claim and its opposite may both be among what a response calls known, when the evidence
  has no polarity (`SettledMeansAgreed` says that this is the only way).
- `technically_risky` wins over `questionable` in `evaluate_idea`: an idea with contradicted
  criteria can be reported as risky only. An idea without criteria is supported.
- A retried stream repeats the chunks its consumer already has; a timeout of a stream is
  not retried, while one of a generation is; a stream adds no usage. Streams and calls that
  are cancelled leave no metric. A body that ends before "[DONE]" ends its stream like a
  whole one, and a retry-after that is a date turns a rate limit into a ValueError, which
  is not retried.
- A call without a timeout has no timer for the whole of it: a provider that keeps sending
  comments, events without content or a body in pieces, each in time for httpx's timer of
  a read, holds it for ever (`ModelCallsEnd` excepts this).
- `batch_gather` runs its operations again on every attempt, those that had succeeded
  included, and an attempt starts while operations of the failed one still run: more than
  `batch_size` run at once.
- The concurrency limiter, which its docstring says rejects excess work, lets it wait in a
  queue without a bound.
- `eis_task_retries_total` adds the attempts so far at each attempt, and so counts retries
  more than once: two failures and a success make it 1 + 2 + 2. `MetricsFitTable` says
  exactly what it is. All counters of tasks restart from zero with the process, while the
  table goes on.
- A route may be chosen by its own name, which is then sent as the name of the model, and
  an explicit choice that means no route gets the default route's price
  (`AskedForItsOwnModel` excepts both).
- Rates of large suites may hide a few unsafe answers, and of cases that share an id the
  report takes the severity and the kind of the last one for all (`UnsafeNeverPasses`
  excepts both).
- The local connector skips files whose absolute path has a part with a skipped name: a
  repository that itself lies below such a directory is empty.
- `run_agent` leaves a task "running" when the awaited agent raises, and its audit entry
  says "success" for an agent that did not complete, as `execute` does of a tool that
  answers `success=False`. `audit_history(limit=0)` returns the whole history.
- The context builder removes duplicates before it filters by kind of source, and retrievers
  apply the limit before either: content that the request allows can be missing although
  `truncated` is false. `SelectionExplained` lists the reasons there are.
- An observer that raises when it is told "complete" turns the run into an escalation; one
  that raises when it is told of the escalation lets the exception out of `run`.
- Two assignments of one kind leave one result and ask both agents for challenges.
- `project_context` inspects the repository twice and reads each document by itself: the
  documentation can differ from the snapshot beside it, and a path that is deleted meanwhile
  fails the whole call. The same holds of a local `ingest`.
- A handler that overruns its lease writes its outcome over that of the next attempt, for
  neither `complete` nor `fail` looks at the lease. `HandlerOwnsJob` and `FinishedIsFinal`
  fail then; they are checked and proved for handlers that keep their leases (`~Overrun`).
- `claim` counts from the attempts it selected, which may be stale across processes.
- A cancelled joiner cancels the future it shares with the other joiners, whose calls end
  with it.
- An operation that ends in CancelledError takes its scheduler worker with it; when all
  are gone nothing is served (`EverySubmissionEnds` excepts this).
- Two overlapping `close` calls of the scheduler: the second clears the list of workers
  that a submission between the two has started. Nobody counts those workers any more, and
  the next submission starts a full crew beside them. `FixedCrew` is checked with one
  caller of `close` at a time, which may call it again and again.
- A PermissionError raised by a tool is audited as a denied authorization.
- Overlapping runs of one agent reset each other's call and time budget
  (`LimitsOutliveRuns` excepts them), and `tool_calls` of their reports mix; the tracker is
  never reset, so that one run's files count against every later run.
- The status of the implementation call is not looked at, so that the changes that a denied
  or timed out one reports are counted too, and files changed by corrections are not counted.
- `ttl_seconds=0` means the default time to live.
- `update` of an outdated copy loses versions and can re-activate what was invalidated
  (`HistoryKept` and `RetirementKept` except it), although
  `docs/architecture/knowledge-system.md` says that previous versions remain intact.
