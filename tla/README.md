# A TLA+ verification project for langgraph-agent-stack

langgraph-agent-stack is a FastAPI service that runs LLM pipelines ("domain
packs" of LangGraph agents) behind HTTP endpoints. This directory holds TLA+
models of the parts of the service whose correctness depends on concurrency,
failure, limits or ordering, the TLC configurations that check them on small
instances, and TLAPS proofs of their safety properties for every value of the
constants. `PROJECT.json` maps every definition to the lines it models.

## 1. The system

A request passes the middlewares, reaches a run handler, is admitted through
the session registry, has its pipeline executed in a thread, and is answered
after best-effort writes of history and review:

```
 client --> middlewares --------> run handler ---------> thread pool --> pack --> agents --> LLM
            drain, auth, body     gate, session guard,   (state.executor)          retry, CostTracker
            limit, RateLimiter    SSE streams                |
                                     |                       +--> run history, ReviewStore
                                     v
                                  InMemory/RedisSessionRegistry          reviewer --> /reviews
```

| Component | State it keeps | Operations | What is hard | What makes it correct |
|---|---|---|---|---|
| Session registry, Redis (`core/security.py`) | one key per session in Redis, one token per session and replica | `try_acquire`, `release` | replicas interleave, keys expire under runs, replies are lost, replicas die | one run per session; a replica deletes only its own locks; nobody is locked out forever |
| Session registry, in memory | a set | same | only what the handlers do with it: every exit must release | one request in flight per session, none left behind |
| Rate limiter (`core/security.py`, `api/middleware.py`) | a deque or sorted set of timestamps per key, a call counter | `is_allowed`, `remaining`, `_evict_stale`, the Lua script | pruning and eviction at the edge of the window, colliding members, outages | the limit holds in every window, denials are justified, Retry-After is true |
| Run handlers (`api/endpoints/pipeline.py`, `api/router_factory.py`) | the await each handler is at, futures | `/run`, `/run/stream`, `/research`, `/packs/<id>/run`, `/packs/<id>/run/stream` | awaits between check and use, writes that outlive their request, streams that are left, timeouts | sessions are covered, requests are answered, writes never block |
| Lifespan (`api/lifespan.py`) | drain flag, thread pool, open stores | startup, shutdown | shutdown at any point of a request | late writes meet open stores; shutdown ends |
| Review queue (`core/review_store.py`, `api/endpoints/reviews.py`) | rows with a status | `create`, `decide`, `get`, `list_reviews` | worker threads, the event loop and a second process meet in one file; a statement, an unlock and a read back | one decision per review, told truthfully; pages miss nothing |
| Agents (`agents/*.py`) | graph state with step and iteration counts | graph nodes, `_invoke_llm_with_retry` | retries, routing loops, caps | ends, classifies errors correctly |
| Cost tracking (`core/cost.py`) | total cost of the run | `on_chat_model_start`, `on_llm_end` | estimate against actual cost, models without price | the budget caps spending |
| Packs (`domain_packs/`) | graph state | `run`, `stream_events` | errors cross two graphs; streams end at any moment | errors keep their meaning; a stream tells how the run ended |
| Pack registry, plugins (`pack_kernel/`) | packs by id and version, weights | register, `get_version`, `set_weights`, plugin discovery | a session sticks to a version through the history that late saves, weights, plugins and restarts all change | a session stays on its version; drained versions get no callers; a ramp-up loses none |
| Run history (`core/memory.py`) | a table, or a hash and three indexes per run | `save_run`, `get_run`, `list_runs`, `list_runs_by_session`, `get_pack_version_for_session` | three backends, saves that outlive their handlers, rows from before an index | the backends agree on every read |
| Settings, startup, checkpointer (`core/config.py`, `api/lifespan.py`, `core/memory.py`) | the shared LLM and saver, entered context managers | validators, the steps of the lifespan, `create_checkpointer` | any step fails; what failed may be tried again by a request | conversations outlive the process outside development |
| Middlewares (`api/middleware.py`, `core/security.py`) | buckets, drain flag | body limit, drain, rate limit, authentication | their order; client identity behind proxies; requests interleave with shutdown | production serves nobody without a key; a tenant pays only for its own requests |
| Connectors (`connectors/`) | token and expiry behind one `asyncio.Lock` | `fetch`, `get_token` | worker threads with private event loops share the lock | a reused token is live; a fetch ends |
| Output guard, compliance output (`domain_packs/common/`) | none | `extract_json_object`, `guard_llm_output`, `apply_compliance_output`, cross-check | a second call after the output was accepted | nothing that failed a check of the policy is answered 200 |

The parts that keep no state or only do I/O (schemas, observability, vector
store, tools, evaluation harness, examples, infrastructure) are listed in
`PROJECT.json` with the reason they are left out.

## 2. Modules

| Module | Models | Builds on |
|---|---|---|
| `SessionGuard` | abstract: at most one run in flight per session | |
| `RedisSessionRegistry` | the registry over several replicas and one Redis | refines `SessionGuard` |
| `RunLifecycle` | handlers, in-memory registry, thread pool, best-effort writes, shutdown of one process | refines `SessionGuard` |
| `ReviewQueue` | abstract: a review is pending, then has one decision for good | |
| `ReviewStore` | both review stores under threads, event loop and a second process | refines `ReviewQueue` |
| `RateLimiter` | both limiters as the middleware uses them | |
| `AgentPipeline` | one execution of a pipeline: agents, retry loop, CostTracker, checks of a structured reply, error classification | |
| `RunHistory` | data and operations of the three history stores | |
| `PackRouting` | registry, plugins, weights, admission to a version, saves, restarts | extends `RunHistory` |
| `Connector` | the connectors and the token cache under worker threads | |
| `ApiStartup` | settings, lifespan, resources of a process | |
| `ApiProcess` | requests through the middlewares to probes and runs, beside startup and shutdown | extends `ApiStartup` |
| `MC...` | the instances TLC checks | the module they are named after |
| `...Proofs` | theorems and their proofs | the module they are named after |

### RedisSessionRegistry
`lock[s]` is the value of the Redis key of session s, `tokens[p][s]` the
`_tokens` entry of replica p. `try_acquire` and `release` contain no await, so
each is one step of its replica. `try_acquire` has three outcomes: `Acquired`
(SET NX EX answered), `Refused` (409), `FailedOpen` (the call raised and the
run is allowed; Redis may have executed the SET all the same). `release` pops
the token first and then compares and deletes, or leaves the key to its TTL
when the script raises. `Expire` and `Crash` are the environment. A token is a
fresh uuid4, so the run stands for its token. `Outages` and `LongRuns` say
which runs may meet a failing Redis and which may outlive the TTL; a session
with neither is *steady*, and the guarantees of the guard are stated for the
steady sessions while the others go through every misfortune beside them.

### RunLifecycle
Handlers are coroutines of one event loop, so an action is the code between
two awaits. `pc[r]` is the await a handler is at, `job[<<r, t>>]` the future of
task t (`exec`, `save`, `review`), `queue` the executor's work queue, `server`
the progress of the lifespan. `Proceed` is the code after an await: submit the
next best-effort write or, in the `finally` block, release and answer.
`WriteTimedOut` is `asyncio.wait_for` giving up: a queued job is cancelled, a
running one goes on. `AbortStream` is a stream that times out or loses its
client: its generator is closed, its thread is not. `AbandonStream` is a
`StreamingResponse` whose generator never starts; its `finally` block never
runs and the session stays marked, which is how Python treats a generator that
was never started (external to the repository, hence excluded from
`NoSessionLeft` by name).

Timing is abstract, with one exception: a write that is still queued times out
only while every worker is busy, since a free worker takes it at once.
Both stores are assumed configured; without one the handler skips the write,
which is a shorter path of the same model. `ServerWaits` distinguishes an ASGI
server that ends all requests before the lifespan goes on (uvicorn without a
graceful-shutdown timeout, as `infra/Dockerfile:105` starts it) from one that is
forced to go on. `OnLoop` are the requests whose pipeline has an async
checkpointer: its operations are submitted to the event loop and awaited in the
worker thread, so such a pipeline does not end while the loop is blocked; the
others do. `Regulated` requests may be of any kind: `/run` and `/run/stream`
with a regulated `DEFAULT_PACK_ID` execute it without gate and without review.

### ReviewStore
`backend` is the store the process was started with. `rows` is the insertion
order that pages are cut from, `record[r]` the status or the decision a review
has. `SqliteReviewStore.decide` is three steps, as in
the code: `Update` (UPDATE and commit), then either `ExplainMiss` (the SELECT
after rowcount 0, still under the lock) or `ReadBack` (`get`, which takes the
lock again). `InMemoryReviewStore.decide` is one critical section. Every SQLite
statement may raise. `StartWalk` and `NextPage` are a reviewer paging through
`GET /reviews`, with or without a status filter. `Restart` kills a process between any two steps.

### RateLimiter
`buckets[k]` are the timestamps kept for a key, oldest first; an absent key
and an empty bucket are the same to every reader. The memory backend reads one
monotonic clock. In Redis each replica passes its own `time.time()`, read before
the script runs: a reading lies up to `Skew` behind the clock of the replica that
is furthest ahead (`Readings`), and the sorted set takes the readings in any
order (`Inserted`). The promises are weaker by that difference. Time counts ticks of 0.1 ms,
the precision with which Lua prints a timestamp: within a tick two members of
the sorted set may be equal, because Redis seeds `math.random` alike for every
script (external). `Bursts` are the keys for which that happens. The deque
drops `bucket[0] < cutoff`, the script removes scores up to and including the
cutoff; the model keeps the difference (`Expired`). `granted` and `last` are
history variables.

### AgentPipeline
A pipeline runs in one thread; the nondeterminism is what the provider
answers, what calls cost and what findings are worth. `node` walks the graphs
of `ResearchAgent` and `AnalystAgent` (or the calls of a structured pack or of
the summariser), `call` the retry loop and the two callbacks of the CostTracker,
`error` the exception, which `FromAgent`, `FromPack` and `ToHTTP` carry to the
status of the response. Costs are whole cents. A model is named, and so priced,
before the call, by the response only, or by neither; the last costs nothing,
even where unknown models are an error. A reply to a structured pack is
a record of what `parse_llm_output` tells apart: the JSON in it, how well it
conforms to the schema, which integrity patterns match before the JSON and in
its fields, and whether it has the disclaimer. `ParseReply` and `ReplyRejected`
are extraction, guard, disclaimer and validation in that order;
`FinishCrossCheck` is the verdict of the second call, whose provider errors the
pack does not convert, so that only `find_auth_cause` in `run_pack` recognises a
rejected credential there.

A run is also modelled as its stream (`streamed`): `frames` are the events the
client has received, tokens left out. Packs with agents iterate the events of
their graph themselves, so an error that a node keeps in the state still
completes its phase and is noticed by the missing result, and other exceptions
arrive unwrapped; the other packs stream around `run_from_input`
(`FromStream`). `/run/stream` sends `done` after saving, a pack's stream sends
the result before it creates the review. `StreamTimesOut` and `ClientLeaves`
close the stream at any moment; the thread works on to the end of its phase,
unseen, and what it still spends counts.

### RunHistory and PackRouting
A row is the metadata of a saved run with its `created_at`. The SQL stores are a
table; `redis` is the hash per run with the timeline, the index per session and
the one per session and pack. `LegacyRows` are the rows an earlier deployment left
in the backend, older than every row written here; in Redis they may be from
before the last index (`OldRedis`), and `RedisPackVersion` includes the fallback
for those. A handler resolves its version and takes its session
in one step of the event loop (`Requested`, `GetVersion`, `Admit`): header
first, then the history, then the weights at an affinity hash, which is a
fraction `pick / MaxPick`. Weights, sums and thresholds are floats: `Floats` are
the representable numbers, in a unit that makes them naturals, with gaps that
grow upwards. The running sum rounds at every addition (`Cumulative`),
`sum(weights)` once (`TotalWeight`, the compensated `sum` of Python 3.12, which
`pyproject.toml` requires), and the product with the hash once (`Threshold`).
Every caller in the service passes `_rate_limit_key(request)` as affinity key
(`api/dependencies.py:129`, `api/router_factory.py:242` and `386`), which is
never empty, so `random.choices` is not reached from it. A save runs in a pool thread: it takes `created_at`,
then writes, and may outlive the handler's wait, after which the next run of the
session may be admitted; `outlived` records the pack runs whose save did. `Restart` kills what is running, installs
another sequence of plugins, resets the weights, and may find PostgreSQL
unreachable and fall back to SQLite. A plugin adds a version to a pack of its
own; it is refused for the id of a built-in pack and skipped when it is not
allowed, does not load or breaks the contract.

### Connector
Pipelines run in worker threads, and each awaits `connector.fetch` in an event
loop of its own. `asyncio.Lock` is external: it is modelled by what its CPython
source does when several loops use it, namely that `acquire` first reads
`_locked` and `_waiters` and then writes, that the loop is bound on the first
contended acquire and other loops then get a RuntimeError, and that `release`
completes the future of a waiter without waking its `select()`. Nothing in the
code bounds how long a thread stays past the lock: httpx applies its timeout (15
seconds for the shipped connector, `connectors/sharepoint_connector.py:30`) to
each operation, and the name of the token endpoint is resolved without one inside
the lock (`connectors/oauth.py:77`). The clock therefore runs on during a refresh
(`MaxStay` is only a bound of the instance), and `slow` records that a stay took
more than a third of the refresh margin. Redirects, blocked URLs, oversized, malformed and missing
answers of the four connector kinds are choices; what a pack makes of an
exception (structured packs go on without references, research_analysis fails)
is `Conclude`.

### ApiStartup and ApiProcess
`config` is the environment the process is started in. The phases are the steps
of the lifespan in order, each with its failures: `Settings` validates, the LLM
step may raise and be caught (the checkpointer is then never initialised), the
saver is built, entered and set up, or replaced by a `MemorySaver` where that is
allowed. `open` are the entered context managers, `registered` the ones
`cleanup_checkpointer` would exit. Requests pass body limit, drain, rate limit
and authentication, each in a task of its own and so a step of its own, then a
probe or a run answers; a run without a shared saver builds its own. Client
identity behind trusted proxies decides the bucket. Bodies are a length and a
class of text; one the request model does not parse is refused before the
handler sees that the process is shutting down, other checks come after.

## 3. Runs

| Run | Bounds | Distinct states |
|---|---|---|
| `redis_session` | 6 runs, 2 replicas, 2 sessions, each with competing runs on one replica and on two | 78,795 |
| `rate_limiter` | limit 2, window 2, readings up to 1 tick behind, eviction every 3rd call, 2 keys, 5 ticks, 4 grants per key, both backends | 3,165,497 |
| `run_lifecycle_safety` | regulated packs enabled, 3 handlers on one session, a stream on another, 1 worker, shutdown any time, a server that may not wait | 428,022 |
| `run_lifecycle_liveness` | regulated packs disabled, two runs, a stream and `/research`, one of them with an async checkpointer, 1 worker, shutdown any time, a server that may not wait | 49,708 |
| `run_lifecycle_shutdown` (violation) | the same four requests | counterexample |
| `run_lifecycle_stream_gate` (violation) | the same four requests | counterexample |
| `review_store` | 2 reviews, 3 creates (one duplicate), 4 decisions (three for one review), both backends, 2 processes, page size 1, no filter or one for pending or approved, 1 restart | 2,780,138 |
| `agent_pipeline_budget` | 7 pipelines, plain and streamed, 12 policies, 6 pricing situations, budget 6, estimates 2 or 3, costs 0, 1 or 4, 3 iterations, step cap 4 or 7, 4 attempts | 918,829 |
| `pack_routing` | 1 session, a built-in and a plugin pack, 4 versions, 2 installations, Redis and PostgreSQL with fallback to SQLite, 2 runs at a time, 2 saves, a row of an earlier deployment, floats of two significant bits, weights 0, 1, 2 or 4, 4 affinity hashes | 626,514 |
| `connector` | 3 threads (two structured packs, one research_analysis), all kinds, margin 3, lifetime 4, clock 4, stays past the lock of up to 2, 2 redirects | 571,233 |
| `connector_hang` (violation) | the same with SharePoint, lifetime 5, clock 6 | counterexample |
| `api_process` | 19 environments, 3 requests, limit 2, 2 keys, a proxy and a direct client | 6,287,499 |

### What the passing runs show
- **redis_session.** `OneRunPerSession` and `ImplementsGuard`: a steady session
  has one run at a time over all replicas, whatever crashes.
  `ReplicaDeletesOnlyItsLocks`: even when keys expire under runs and calls
  fail, a release removes only a key its own replica set. `NeverBlockedForever`:
  every key is free again and again. Two competing runs on one replica plus one
  on another are the smallest instance in which the token map of a replica and
  the key can disagree; a third run on a replica only repeats a role.
- **rate_limiter.** `WindowLimit`: of any limit + 1 consecutive grants the first
  has left the window of the last, through pruning, eviction and key expiry, where
in Redis the window is shorter by the difference of the clocks.
  `DenialJustified`: a client is refused only on account of requests that were
  granted to it. `RetryAfterWorks`: whoever waits out the window (and the
  difference) is admitted. A skew of one tick is enough for a replica to prune
  what another still counts and for timestamps to arrive out of order.
  Five ticks are more than two windows, four grants two limits, and an eviction
  interval of three falls in and out of step with them.
- **run_lifecycle_safety.** `NoSessionLeft` and `ImplementsGuard` relate the registry to the handlers over every path of
  every handler; `PooledPipelineHoldsSession` says a pooled pipeline never
  outlives the session's mark; `OverlapOnlyAfterAbort` that two pipelines of a
  session run at once only when one belongs to a stream that was left or timed
  out; `ReviewSubmitted` that every run of a regulated pack answered 200 handed
  its review to the pool, by the handler that saves and by the one that does not
  (regulated packs are enabled in this run), whatever became of the save before,
  unless the pool was already shut down; `StoresOutliveWrites` that a write which outlived
  its request never meets a closed store. One worker makes writes queue behind
  pipelines, which is where timeouts and cancellation matter.
- **run_lifecycle_liveness.** A shutdown may find requests in flight.
  `EveryRequestAnswered` and `ShutdownCompletes` hold unless the drain is
  `Stranded`, waiting for a pipeline that waits for the event loop it blocks
  (section 4); they assume that the stores answer. `WritesNeverBlock` does not,
  and is why the model gives store calls no fairness.
- **review_store.** `AcceptedDecisionStands`: who is
  told "ok" has decided, although the row is read back after the unlock.
  `RefusedOnlyWhenDecided`: 409 is true, provided the review is created in the
  process that decides it (with a creation in another process between UPDATE
  and SELECT the answer may be early). `WalkMissesNothing`: paging with offsets,
  newest first, may repeat a review but never skips one, unfiltered or filtered
  by a decision (a walk through the pending reviews may, section 4). `ImplementsQueue`: one
  decision per review, durable with SQLite.
- **agent_pipeline_budget.** `SpendCapped` gives the exact overshoot (a call
  dearer than its estimate, or one call of a model named only by the response);
  `SpendingStops`: nothing is charged once the sum is over the budget;
  `CausesSurface`: a rejected credential is 502 through every layer, and an
  exceeded budget 402 where no pack is in between; `FailClosed`: a structured
  pack delivers only an output that passed every check of its policy;
  `StreamProtocol`: phases, result and the one end of a stream come in order,
  whenever it fails, times out or is left;
  `IterationsForceCompletion`: with enough steps the iteration cap, not the step
  cap, ends research; `Answers`: every pipeline answers. Seven steps are exactly
  what three iterations need, so an off-by-one is visible; four are too few, so
  that the step cap is met as well.
- **pack_routing.** `RedisReadsAgree`: through its indexes the Redis store gives
  every answer the SQL stores would give on the same rows, and exactly where the
  fallback for old rows stops. `PinChangesOnlyByUnpinnedRuns`: the version the
  history names changes only through a run that did not follow the history,
  unless a save of that session and pack outlived its handler. One row of an
  earlier deployment and two saves are the smallest instance in which the late
  save of a run that did follow the history undoes an explicit pin. `RampMovesCallersTowardsTarget` and
  `DrainedVersionsGetNoCallers`: what changing a weight may do to callers. Two
  runs at a time are enough for a save to overtake another; four versions for
  a caller to move between two others and for a running sum to lose a weight
  before the last version, which is drained: with the weights 1, 4, 1, 0 it stays
  at 4 and `sum()` is 6, with 1, 2, 1, 0 nothing is rounded.
- **connector.** `ReusedTokenIsLive`: although two threads may get past the lock
  and store token and expiry in turn, the margin covers what they can be apart, as
  long as no stay past the lock took more than a third of it. The instance has
  stays on both sides of that, and without the premise TLC refutes the property.
  `EndsUnlessAsleep`: whatever the endpoints do and whatever becomes of the
  lock, every fetch ends, except in the one thread the lock was bound to. Three
  threads are one that holds the lock, one that waits and one that is refused.
- **api_process.** `DurableUnlessDevelopment`: outside development neither the
  shared saver nor one that a run builds for itself is a `MemorySaver`, and who
  says ready has a durable one. `ProductionAuthenticates`: no configuration that
  passes the validators in production lets a request without a key through.
  `TenantBudgetIsolated`: although the limit is charged before the key is
  verified, an authentic request is refused only for requests with its key. The
  environments vary one setting at a time around a working one of each kind.

### Fairness
- `RunLifecycle`: the event loop serves every ready coroutine and timer, a free
  worker takes the next item, pipelines end (steps, iterations and attempts are
  bounded and provider calls have timeouts, see `AgentPipeline`) unless they need
  a blocked loop, a shutdown that began goes on. A run that sleeps in the token
  lock of the SharePoint connector (`connector_hang`) does not end and is outside
  this assumption. Nothing is assumed about clients, and nothing about the
  stores except in the properties that say so (`StoresAnswer`).
- `RedisSessionRegistry`: runs end, as handlers release in `finally`, and Redis
  expires keys that have a TTL. Crashes and outages are never forced.
- `AgentPipeline`: the thread goes on, its connector fetch included, with the same
  exception.
- `Connector`: each thread is scheduled, and its HTTP calls answer or time out;
  nothing is assumed of the clock or of a thread asleep in `select()`.

Deadlock checking is off everywhere: the models have finitely many requests or
bounded clocks and really stop; that nothing stops early is what the liveness
properties say.

### Mutants
Each property of a passing run has a mutant in `PROJECT.json`: a definition of
the model replaced by a plausible bug (SET without NX, a release outside
`finally`, an UPDATE without its status test, a limiter that records denied
requests...), under which TLC must find that property violated. The mutated
operators stand in a section of their own in each module.

## 4. Where code and documents disagree

Three runs are expected to end in a violation; `findings` quotes the lines.
1. `run_lifecycle_stream_gate`: the stream endpoint of a pack lacks the
   regulated-pack gate. (So do `/run` and `/run/stream`, which execute a regulated
   `DEFAULT_PACK_ID`, `api/dependencies.py:119`, and queue no review.)
2. `run_lifecycle_shutdown`: the lifespan promises to wait for in-flight tasks
   (`api/lifespan.py:59`), but it blocks the event loop while it does, and a
   pipeline with an async checkpointer needs that loop: both wait forever. It
   takes a server that begins the lifespan shutdown with requests in flight.
3. `connector_hang`: a thread that waits for the token lock while another thread
   fetches a token is never woken, and its run never ends.

Also met, and visible in the exceptions the properties state:
- `_tokens` of the Redis registry has one slot per session and replica. A run
  admitted during an outage pops the token of the next run of the session on
  that replica and deletes its lock; a third is admitted
  (`OneRunPerSession` is stated for steady sessions);
- a stream that times out or is left releases its session while its pipeline
  thread goes on, and the next run overlaps it (`OverlapOnlyAfterAbort`);
- a regulated run may be answered 200 without a pending review, when the create
  times out in the queue or fails (`ReviewSubmitted` says submitted); and the log
  line "timed out, pending review not queued" (`api/router_factory.py:194`) is
  wrong of a create that was running, which completes later;
- a walk through the pending reviews with limit and offset skips rows when a
  decision takes one of its earlier rows away (`WalkMissesNothing` is stated for
  the other filters);
- a refresh of the token may take longer than the margin of 60 seconds allows for
  (timeouts per operation, DNS without one), and then an expired token may be
  handed out (the premise of `ReusedTokenIsLive`);
- a pack's stream may send a timeout error after its result, while the review
  is created (`StreamProtocol`);
- packs answer an exceeded budget with 500 instead of 402 (`CausesSurface`);
- un-indexed Redis rows are forgotten beyond 50 runs of a session
  (`PinChangesOnlyByUnpinnedRuns`, `RedisReadsAgree`);
- a save that outlives its handler takes its `created_at` late: even a run that
  only followed the history may be stored after, and so undo, a pin that a later
  request made with `X-Pack-Version` (the exception of
  `PinChangesOnlyByUnpinnedRuns`, met in its proof);
- a first version of weight 0 is selected by the affinity hash 0, and a drained
  last version by the largest hash where the running sum of the weights stays
  below `sum()`, as with 0.7, 0.2, 0.1, 0.0 (`pack_kernel/registry.py:55-62`; the
  two exceptions of `DrainedVersionsGetNoCallers`);
- `core/memory.py:30`, `147-150` and `166` say that a backend whose package is
  missing, and every other error, falls back to `MemorySaver` "without crashing
  the application". `_fallback_or_raise` (`core/memory.py:93-100`) does that in
  development only and raises elsewhere, which ends the startup or the run.
  `DurableUnlessDevelopment` states what the code does, and the log line "dev
  only" at `core/memory.py:99` agrees with it;
- a response that names no model costs 0 (`core/cost.py:439`), also where unknown
  models are an error: the budget does not bound such calls (`SpendCapped` speaks
  of the tracked sum);
- when `get_llm` fails at startup, the checkpointer is never initialised and
  `/ready` answers 503 until a restart, although runs succeed.

Also met while reading, and without a property:
- `docs/architecture.md:65` says that versions are chosen by `random.choices`; the
  service always passes an affinity key, and the choice is a hash of the client;
- a 401 or 403 of a connector's endpoint that ends a run of research_analysis
  through `/packs/research_analysis/run` is reported as a credential the LLM
  provider rejected, since `find_auth_cause` (`agents/llm_retry.py:149`) goes by
  the status code alone;
- `/run/stream` reads the key `report` of the last event, which only
  research_analysis and analysis_only send: with another `DEFAULT_PACK_ID` it
  ends in an error although the run succeeded;
- rolling weights back does not move the sessions that are pinned by their
  history, while `docs/项目问答笔记.md:237` calls the effect immediate, and a
  session pinned to a version that is no longer installed gets 404;
- `/sessions` promises "all run records" (`api/endpoints/sessions.py:41`) and
  returns the newest 50; `stream_pack` saves none;
- an `Authorization` header with a lower-case scheme is charged to the token's
  bucket and then refused with 401;
- the integrity guard says "A human reviewer must inspect this run"
  (`domain_packs/common/output_guard.py:254`), but the run ends as a 500 and no
  review is created;
- structured packs call the LLM without a CostTracker
  (`domain_packs/common/structured_llm.py:280` against `README.md:63`);
- the step cap is answered 500, not 504, because agents wrap
  `AgentTimeoutError` (`agents/researcher.py:442` against `docs/架构分析.md:144`);
- `max_research_iterations` may be 10, which needs 21 steps, one more than the
  default `max_step_count` (`core/config.py:336`), so the precondition of
  `IterationsForceCompletion` can fail;
- the members that the Redis limiter adds may collide within 0.1 ms
  (`core/security.py:692`), so a burst may exceed the limit;
- the limiter's key contains the endpoint path, while `docs/security.md:48`
  speaks of a limit per client;
- `/research` never consults the session registry.

## 5. Proofs

All theorems are proved from the named ASSUMEs of the modules (types of the
constants, limits at least 1, `None` different from what it stands beside), for
every number of replicas, requests, reviews, keys, threads and workers and
without the bounds of the instances (the clock and the number of grants of
`RateLimiter` may be unbounded). Assumptions that say more are named below.
Each property was checked by TLC on the instance of its run before it was
proved.

- **RedisSessionRegistryProofs.** `TypeCorrect`; `MutualExclusion` and
  `GuardRefinement` follow from `GuardedOwnLock` (in a steady session no run is
  open, and the run that is guarded is the value of the key). The property is
  not inductive by itself, since it says nothing of the key that stops the next
  run. `ReplicaOwnership` follows from `TokensAreLocal` (a token map holds only
  tokens of its own replica, for its own session).
- **RunLifecycleProofs.** `RunInv` conjoins `PlaceInv` (where a handler is tells
  what it did), `PooledInv` (a pooled pipeline is awaited from submission to
  end), `QueueInv` (a queued future has its work item in the queue), `DrainInv`
  (once drained the pool stays empty) and the session properties. It gives
  `SessionExclusion`, `SessionsReleased`, `PipelineCovered`, `CloseAfterWrites`
  and, with a step simulation, `GuardRefinement`. `QueueInv` is what makes an
  empty queue mean that nothing is queued, and so what `CloseAfterWrites` needs.
  `NoOverlap` adds `ExecInv` (a pipeline that may still run is awaited, unless
  its stream was aborted): two pipelines of a session that are both awaited
  would both hold the session. `ReviewsSubmitted` adds `ReviewInv` (who awaits a
  review has submitted it).
- **ReviewStoreProofs.** `QueueRefinement`; `DecisionStands` from `DecisionInv`
  (between UPDATE and read back the row belongs to the call); `RefusalJustified`
  from `MissInv` (while a miss is explained its call holds the lock and the row
  cannot become pending); `WalkComplete` from `WalkInv` (what has not been seen
  lies beyond the offset, counted from the newest).
- **RateLimiterProofs.** `LimiterInv` says per key: timestamps are in order and
  not in the future; the kept ones are dominated by the latest granted ones
  (`Aligned`), and for a steady key are within `Lag` of them with the rest stale
  (`Complete`); since a denial nothing was added (`Frozen`). `LimitEnforced`
  uses `Complete`, `DenialsJustified` `Aligned`, `RetryAfterHonest` `Frozen`.
  That a bucket holds the *latest* grants is what makes the counter of the code
  mean what the property says.

- **AgentPipelineProofs.** `TypeCorrect` needs `LimitInv` (a node is entered and
  a call retried only below the limits). `BudgetHolds` and `BudgetStops` follow
  from `SpendInv`: a thread that works is within the budget, and a call of a
  model that was named is under way only when some estimate still fitted; what a
  call may overshoot is then one cost. `CompletionForced` counts: `StepInv` says
  how many steps an agent has taken at each node, two per iteration of the
  research, so that a step cap of `2 * MaxIterations + 1` is never met first.
  `PacksFailClosed`, `StreamsInOrder` and `CausesReachClients` share `ResultInv`:
  `RouteInv` (which nodes belong to which pipeline), `OutputInv` (a structured
  pack is past its first node with a checked output only) and `StreamInv` (what
  the last frame of an open stream says about the pipeline). The order of the
  frames is not inductive without the link between frame and node.
- **ApiProcessProofs.** `Durable`, `Authenticated` and `Isolated` from
  `ProcessInv`: `ProgressInv` says how far a request has come (it arrives after
  startup, is charged to its own key, and is answered at the end), `KeysInv` that
  a production process past its validators has keys. The saver changes only
  while no request is in the process, which is why a request may rely on it over
  several steps; charges are never taken back, which is why a denial stays
  justified. Holds for every set of environments and every number of requests.
- **PackRoutingProofs.** `RedisAgrees` from `HistoryInv`: `IndexInv` says that
  the timeline and the session index know every row, and the index per session
  and pack every row but those from before it, which are older; `RunInv` and `StoreInv` that every run at its save has a `created_at` of
  its own which no stored row has, for with equal stamps "newest" would be a
  choice. `SessionsStick` from `PinInv`, which adds `SlotInv` (one open run per
  session, and a closed run that still saves is in `outlived`) and `FollowInv`
  (an open run that followed the history still has the version the history
  names). `DrainedStayEmpty` and `RampsMoveTowardsTarget` hold for every number
  of versions and all weights that are floats, from `RegistryInv` (a pack is a
  list of versions with such weights, whatever plugins are installed) and the
  equation of `Cumulative`: adding 0 to a float is exact, so a version of weight 0
  reaches no threshold that the one before it does not; and raising a weight by d
  raises the threshold by at most what the sums from there on gain, which survives
  the rounding of the threshold because floats get no denser upwards
  (`FloatConstants`). The ramp is proved for weights whose sums are floats
  themselves before and after; where they are rounded the intervals shift. What the two loops compute (`Cumulative`,
  `RegisterPlugins`) is proved by least counterexample, since the library's
  `WFMin` speaks of sets where its induction rules take operators. Assumed: rows of earlier deployments are finitely many, with distinct
  stamps, and older than every new one.
- **ConnectorProofs.** `ReusedTokensLive` from `CacheInv`: `ExpiryInv` bounds how
  far token and expiry can be apart when two threads store them in turn,
  `LatencyInv` how long a thread has been past the lock, `HitInv` carries the
  comparison from the check to the use. The lock plays no part in the argument,
  so the result does not depend on how `asyncio.Lock` behaves across event loops.
  It is conditional on `~slow`, no stay past the lock of more than a third of the
  margin so far, which the code does not guarantee.

Only model-checked are the liveness properties `NeverBlockedForever`,
`EveryRequestAnswered`, `ShutdownCompletes`, `WritesNeverBlock`, `Answers` and
`EndsUnlessAsleep`: fairness and ENABLED are out of the prover's reach.

## 6. Not modelled

Contents: prompts, findings, reports, bodies, tokens of a stream, price tables,
policy tables, string validation beyond which class of text is refused, parsing
of addresses. The individual structured packs, which differ in prompt and
schema only. Observability (metrics and traces), the vector store, the tools and
the API schemas, which have no control of their own; the mock LLM, a test
double; the evaluation harness, examples and infrastructure, which are not part
of the service. Third parties: LangGraph checkpoint storage, LLM clients, Redis,
PostgreSQL and SQLite beyond the statements used.

## 7. Plan

Done: session guard and both registries, run lifecycle and shutdown, review
queue, rate limiter, agent pipeline with budget, output checks and streams, pack
routing with the run history, connectors, startup and middlewares.

The proofs cover every safety property of the passing runs.

Next:
1. An abstract specification of a session's pin (free, then pinned, changed only
   by a header) that `PackRouting` refines when no save outlives its handler.
2. `ApiStartup`: that whatever was entered is exited again or registered for
   `cleanup_checkpointer`, as far as the code guarantees it.
