---------------------------- MODULE RunLifecycle ----------------------------
(***************************************************************************)
(* The life of a run in one API process: the HTTP handlers that admit it,  *)
(* the thread pool that executes its pipeline, the best-effort writes of   *)
(* its history and of its human review, the release of its session, and    *)
(* the shutdown of the process.                                            *)
(*                                                                         *)
(* Handlers are coroutines of one event loop: a handler runs alone from    *)
(* one await to the next, so each action of a request below is the code    *)
(* between two awaits.  Worker threads run beside the loop.                *)
(***************************************************************************)
EXTENDS Naturals, Sequences, FiniteSets

CONSTANTS
    Requests,          \* the HTTP requests that start a run
    Kind,              \* Kind[r]: the handler that serves r
    SessionOf,         \* SessionOf[r]: the session_id of the body, or NoSession
    Sessions,
    NoSession,
    Regulated,         \* requests to packs whose policy requires human review
    RegulatedEnabled,  \* settings.regulated_packs_enabled
    Workers,           \* settings.thread_pool_max_workers
    OnLoop,            \* requests whose pipeline calls an async checkpointer
    ServerWaits        \* the ASGI server ends requests before lifespan shutdown

PoolKinds == {"run_pack", "run_pipeline", "run_research"}
StreamKinds == {"stream_pack", "run_stream"}
PackKinds == {"run_pack", "stream_pack"}

ASSUME RequestAssumption ==
    /\ Kind \in [Requests -> PoolKinds \cup StreamKinds]
    /\ SessionOf \in [Requests -> Sessions \cup {NoSession}]
    /\ NoSession \notin Sessions
    /\ \A r \in Requests : Kind[r] = "run_research" => SessionOf[r] = NoSession
    /\ Regulated \subseteq Requests
    /\ OnLoop \subseteq Requests
ASSUME SettingsAssumption ==
    /\ Workers \in Nat \ {0}
    /\ RegulatedEnabled \in BOOLEAN
    /\ ServerWaits \in BOOLEAN

Tasks == {"exec", "save", "review"}
Jobs == Requests \X Tasks

VARIABLES
    pc,        \* pc[r]: the await the handler of r is at, see Places
    status,    \* status[r]: how the request was answered
    sessions,  \* InMemorySessionRegistry._sessions
    job,       \* job[<<r, t>>]: state of the future of task t of request r
    queue,     \* the work queue of state.executor
    server     \* shutdown progress of the lifespan

vars == <<pc, status, sessions, job, queue, server>>

\* "accepted": a StreamingResponse was returned, its generator has not started;
\* "pipeline", "save", "review": awaiting that piece of work.
Places == {"new", "accepted", "pipeline", "save", "review", "done"}
Statuses == {"none", "ok", "error", "rejected", "forbidden", "conflict",
             "unavailable", "aborted", "abandoned"}
JobStates == {"none", "queued", "running", "done", "failed", "cancelled"}
\* "draining": executor.shutdown(wait=True) blocks the event loop; "cleanup":
\* the checkpointer is being closed; "closed": both stores are closed.
Servers == {"serving", "draining", "cleanup", "closed"}

TypeOK ==
    /\ pc \in [Requests -> Places]
    /\ status \in [Requests -> Statuses]
    /\ sessions \subseteq Sessions
    /\ job \in [Jobs -> JobStates]
    /\ queue \in Seq(Jobs)
    /\ server \in Servers

Init ==
    /\ pc = [r \in Requests |-> "new"]
    /\ status = [r \in Requests |-> "none"]
    /\ sessions = {}
    /\ job = [j \in Jobs |-> "none"]
    /\ queue = <<>>
    /\ server = "serving"

InFlight(r) == pc[r] \notin {"new", "done"}
LoopFree == server # "draining"
PoolOpen == server = "serving"
\* Streams run their pipeline in the loop's default executor, not in the pool.
InPool(j) == j[2] = "exec" => Kind[j[1]] \in PoolKinds
-----------------------------------------------------------------------------
(* Answers given before a run is admitted.                                  *)

Answer(r, st) ==
    /\ pc' = [pc EXCEPT ![r] = "done"]
    /\ status' = [status EXCEPT ![r] = st]
    /\ UNCHANGED <<sessions, job, queue, server>>

\* state.shutting_down is set: 503.
Unavailable(r) ==
    /\ pc[r] = "new" /\ LoopFree
    /\ ~PoolOpen
    /\ Answer(r, "unavailable")

\* Unknown pack version, invalid body or query, no LLM configured.
Reject(r) ==
    /\ pc[r] = "new" /\ PoolOpen
    /\ Answer(r, "rejected")

\* assert_regulated_pack_runtime_enabled, called by run_pack only: 403.
Gated(r) == Kind[r] = "run_pack" /\ r \in Regulated /\ ~RegulatedEnabled

Forbid(r) ==
    /\ pc[r] = "new" /\ PoolOpen
    /\ Gated(r)
    /\ Answer(r, "forbidden")

\* try_acquire found the session in flight: 409.
Conflict(r) ==
    /\ pc[r] = "new" /\ PoolOpen
    /\ ~Gated(r)
    /\ SessionOf[r] \in sessions
    /\ Answer(r, "conflict")
-----------------------------------------------------------------------------
(* Plausible bugs, used to show that the properties are sensitive to them.  *)

\* The registry is not consulted.
AcquireUnchecked(r) ==
    sessions' = sessions \cup ({SessionOf[r]} \ {NoSession})

\* The release is not in a finally block: an error skips it.
ReleaseOnSuccess(r, st) ==
    IF st = "error" THEN sessions ELSE sessions \ {SessionOf[r]}

\* The handler answers as soon as the job is submitted.
AnswerEarly(r) ==
    /\ pc[r] = "pipeline" /\ LoopFree
    /\ pc' = [pc EXCEPT ![r] = "done"]
    /\ status' = [status EXCEPT ![r] = "ok"]
    /\ sessions' = sessions \ {SessionOf[r]}
    /\ UNCHANGED <<job, queue, server>>

\* The review is queued where the run was saved.
ReviewAfterSave(r) ==
    CASE pc[r] = "pipeline" /\ Kind[r] # "stream_pack" -> "save"
      [] pc[r] = "save" /\ Kind[r] \in PackKinds /\ r \in Regulated -> "review"
      [] OTHER -> "end"

\* executor.shutdown(wait=False).
DrainWithoutWaiting ==
    /\ server = "draining"
    /\ server' = "cleanup"
    /\ UNCHANGED <<pc, status, sessions, job, queue>>

\* The write is awaited without wait_for.
NoWriteTimeout(r) == FALSE
-----------------------------------------------------------------------------
\* InMemorySessionRegistry.try_acquire; a request without session_id skips it.
try_acquire(r) ==
    /\ SessionOf[r] \notin sessions
    /\ sessions' = sessions \cup ({SessionOf[r]} \ {NoSession})

\* release_session in the finally block of the handler or of the generator.
release(r, st) == sessions \ {SessionOf[r]}

\* Acquire the session, submit the pipeline to the pool and await it.
AdmitRun(r) ==
    /\ pc[r] = "new" /\ PoolOpen
    /\ try_acquire(r)
    /\ pc' = [pc EXCEPT ![r] = "pipeline"]
    /\ job' = [job EXCEPT ![<<r, "exec">>] = "queued"]
    /\ queue' = Append(queue, <<r, "exec">>)
    /\ UNCHANGED <<status, server>>

\* POST /packs/<id>/run, the only handler with the regulated-pack gate.
run_pack(r) == Kind[r] = "run_pack" /\ ~Gated(r) /\ AdmitRun(r)

\* POST /run.
run_pipeline(r) == Kind[r] = "run_pipeline" /\ AdmitRun(r)

\* POST /research, which never acquires the session_id it may be given.
run_research(r) == Kind[r] = "run_research" /\ AdmitRun(r)

\* Acquire the session and return the StreamingResponse.
AdmitStream(r) ==
    /\ pc[r] = "new" /\ PoolOpen
    /\ try_acquire(r)
    /\ pc' = [pc EXCEPT ![r] = "accepted"]
    /\ UNCHANGED <<status, job, queue, server>>

\* POST /packs/<id>/run/stream.
stream_pack(r) == Kind[r] = "stream_pack" /\ AdmitStream(r)

\* POST /run/stream.
run_stream(r) == Kind[r] = "run_stream" /\ AdmitStream(r)

\* The server iterates the body: the generator starts the pipeline thread.
StartStream(r) ==
    /\ pc[r] = "accepted" /\ LoopFree
    /\ pc' = [pc EXCEPT ![r] = "pipeline"]
    /\ job' = [job EXCEPT ![<<r, "exec">>] = "running"]
    /\ UNCHANGED <<status, sessions, queue, server>>

\* The client is gone before the first chunk is asked for.  The finally block
\* of a generator that never started never runs.
AbandonStream(r) ==
    /\ pc[r] = "accepted" /\ LoopFree
    /\ Answer(r, "abandoned")
-----------------------------------------------------------------------------
(* After the pipeline: best-effort writes, then the answer.                 *)

\* The next best-effort write of r after the await it is at.
NextTask(r) ==
    CASE pc[r] = "pipeline" /\ Kind[r] # "stream_pack" -> "save"
      [] pc[r] # "review" /\ Kind[r] \in PackKinds /\ r \in Regulated -> "review"
      [] OTHER -> "end"

Finish(r, st, jobs) ==
    /\ pc' = [pc EXCEPT ![r] = "done"]
    /\ status' = [status EXCEPT ![r] = st]
    /\ sessions' = release(r, st)
    /\ job' = jobs
    /\ UNCHANGED <<queue, server>>

Submit(r, task, jobs) ==
    /\ pc' = [pc EXCEPT ![r] = task]
    /\ job' = [jobs EXCEPT ![<<r, task>>] = "queued"]
    /\ queue' = Append(queue, <<r, task>>)
    /\ UNCHANGED <<status, sessions, server>>

\* _save_run_best_effort / _create_review_best_effort: submit the next write.
\* A pool that was shut down raises, which is logged and skipped.
Proceed(r, jobs) ==
    IF NextTask(r) = "end" \/ ~PoolOpen
    THEN Finish(r, "ok", jobs)
    ELSE Submit(r, NextTask(r), jobs)

\* A plausible bug: a stream thread that raised ends without telling its
\* generator.
FailsSilently(r) ==
    /\ pc[r] = "pipeline" /\ LoopFree
    /\ \/ job[<<r, "exec">>] = "done" /\ Proceed(r, job)
       \/ /\ job[<<r, "exec">>] = "failed" /\ Kind[r] \in PoolKinds
          /\ Finish(r, "error", job)

\* The await of the pipeline returns or raises.
PipelineReturned(r) ==
    /\ pc[r] = "pipeline" /\ LoopFree
    /\ \/ job[<<r, "exec">>] = "done" /\ Proceed(r, job)
       \/ job[<<r, "exec">>] = "failed" /\ Finish(r, "error", job)

\* The await of a best-effort write returns or raises; both continue.
WriteReturned(r) ==
    /\ pc[r] \in {"save", "review"} /\ LoopFree
    /\ job[<<r, pc[r]>>] \in {"done", "failed"}
    /\ Proceed(r, job)

\* Cancelling the asyncio future drops a queued job; a running one goes on.
Cancel(j, jobs) == [jobs EXCEPT ![j] = IF @ = "queued" THEN "cancelled" ELSE @]

RunningInPool == {j \in Jobs : job[j] = "running" /\ InPool(j)}
PoolBusy == Cardinality(RunningInPool) >= Workers

\* wait_for gives up after SAVE_RUN_TIMEOUT_SECONDS: the store is slow, or no
\* worker was free to call it.
WriteTimedOut(r) ==
    /\ pc[r] \in {"save", "review"} /\ LoopFree
    /\ \/ job[<<r, pc[r]>>] = "running"
       \/ job[<<r, pc[r]>>] = "queued" /\ PoolBusy
    /\ Proceed(r, Cancel(<<r, pc[r]>>, job))

\* The client disconnects or asyncio.timeout(stream_timeout) fires: the
\* generator is cancelled at its await and its finally block releases the
\* session.  The pipeline thread is not stopped.
AbortStream(r) ==
    /\ Kind[r] \in StreamKinds
    /\ pc[r] \in {"pipeline", "save", "review"} /\ LoopFree
    /\ Finish(r, "aborted",
              IF pc[r] = "pipeline" THEN job ELSE Cancel(<<r, pc[r]>>, job))
-----------------------------------------------------------------------------
(* Threads.                                                                 *)

\* A free worker takes the oldest work item, skipping it when cancelled.
StartJob ==
    /\ queue # <<>>
    /\ ~PoolBusy
    /\ queue' = Tail(queue)
    /\ job' = [job EXCEPT ![Head(queue)] = IF @ = "queued" THEN "running" ELSE @]
    /\ UNCHANGED <<pc, status, sessions, server>>

\* A graph whose checkpointer is an async saver runs each step of it on the event
\* loop, so such a pipeline gets nowhere while the loop is blocked.
FinishJob(j) ==
    /\ job[j] = "running"
    /\ j[2] = "exec" /\ j[1] \in OnLoop => LoopFree
    /\ \E result \in {"done", "failed"} : job' = [job EXCEPT ![j] = result]
    /\ UNCHANGED <<pc, status, sessions, queue, server>>
-----------------------------------------------------------------------------
(* lifespan after the yield.                                                *)

BeginShutdown ==
    /\ server = "serving"
    /\ ServerWaits => \A r \in Requests : ~InFlight(r)
    /\ server' = "draining"
    /\ UNCHANGED <<pc, status, sessions, job, queue>>

\* A plausible bug: the lifespan waits for the requests as well, while it blocks
\* their loop.
DrainRequests ==
    /\ server = "draining"
    /\ queue = <<>> /\ RunningInPool = {}
    /\ \A r \in Requests : ~InFlight(r)
    /\ server' = "cleanup"
    /\ UNCHANGED <<pc, status, sessions, job, queue>>

\* executor.shutdown(wait=True) returns once every queued job has run.
PoolDrained ==
    /\ server = "draining"
    /\ queue = <<>> /\ RunningInPool = {}
    /\ server' = "cleanup"
    /\ UNCHANGED <<pc, status, sessions, job, queue>>

\* shared_memory.close() and review_store.close().
CloseStores ==
    /\ server = "cleanup"
    /\ server' = "closed"
    /\ UNCHANGED <<pc, status, sessions, job, queue>>

Handler(r) ==
    \/ Unavailable(r) \/ Reject(r) \/ Forbid(r) \/ Conflict(r)
    \/ run_pack(r) \/ run_pipeline(r) \/ run_research(r)
    \/ stream_pack(r) \/ run_stream(r)
    \/ StartStream(r) \/ AbandonStream(r)
    \/ PipelineReturned(r) \/ WriteReturned(r) \/ WriteTimedOut(r)
    \/ AbortStream(r)

Next ==
    \/ \E r \in Requests : Handler(r)
    \/ StartJob
    \/ \E j \in Jobs : FinishJob(j)
    \/ BeginShutdown \/ PoolDrained \/ CloseStores

Spec == Init /\ [][Next]_vars

\* The loop serves every ready coroutine and timer, workers take queued jobs,
\* pipelines end (bounded steps and retries; no connector that hangs, see
\* Connector), shutdown goes on once begun.
LoopFairness ==
    /\ \A r \in Requests :
        /\ WF_vars(StartStream(r) \/ AbandonStream(r))
        /\ WF_vars(PipelineReturned(r))
        /\ WF_vars(WriteReturned(r) \/ WriteTimedOut(r))
        /\ WF_vars(FinishJob(<<r, "exec">>))
    /\ WF_vars(StartJob)
    /\ WF_vars(PoolDrained) /\ WF_vars(CloseStores)

\* The history and review backends may hang: no fairness for their jobs.
FairSpec == Spec /\ LoopFairness

\* They answer every call in the end.
StoresAnswer ==
    \A r \in Requests, t \in {"save", "review"} : []<>(job[<<r, t>>] # "running")
-----------------------------------------------------------------------------
\* Requests in flight hold their session, and no two share one.
InFlightHoldsSession ==
    \A r \in Requests :
        InFlight(r) /\ SessionOf[r] # NoSession =>
            /\ SessionOf[r] \in sessions
            /\ \A q \in Requests :
                InFlight(q) /\ SessionOf[q] = SessionOf[r] => q = r

\* The abstract guard, over the requests that are past admission.
Guard == INSTANCE SessionGuard WITH
    Runs <- Requests,
    inFlight <- [s \in Sessions |-> {r \in Requests : InFlight(r) /\ SessionOf[r] = s}]

\* The in-memory registry and the handlers that use it implement the abstract
\* guard: a session has one in-flight request, whatever path each one takes.
ImplementsGuard == Guard!Spec

\* A session marked in flight belongs to a request in flight: no path of a
\* handler leaves it behind, except the stream whose generator never started.
NoSessionLeft ==
    \A s \in sessions : \E r \in Requests :
        SessionOf[r] = s /\ (InFlight(r) \/ status[r] = "abandoned")

\* The pipeline of a pooled run never outlives its request, so its session is
\* held from submission to the end of the thread.
PooledPipelineHoldsSession ==
    \A r \in Requests :
        Kind[r] \in PoolKinds /\ job[<<r, "exec">>] \in {"queued", "running"}
            => InFlight(r)

\* A write that outlived its request (its wait timed out) never meets a
\* closed store: the lifespan drains the pool before it closes the stores.
StoresOutliveWrites ==
    server = "closed" =>
        \A j \in Jobs : InPool(j) => job[j] \notin {"queued", "running"}

\* "a slow or broken history backend must neither block nor fail the request":
\* once its pipeline is done a request is answered even if a store call hangs,
\* unless a shutdown blocks the loop until that call returns.
WritesNeverBlock ==
    \A r \in Requests :
        pc[r] \in {"save", "review"} ~> pc[r] = "done" \/ server = "draining"

\* The drain waits for a pipeline that waits for the loop the drain blocks.
Stranded ==
    /\ server = "draining"
    /\ \E r \in OnLoop :
        Kind[r] \in PoolKinds /\ job[<<r, "exec">>] \in {"queued", "running"}

\* With stores that answer, every admitted request is answered, the ones that a
\* shutdown finds in flight included, unless the drain is stranded: the pool works
\* off its queue, cancelled work items too.  After the shutdown the process exits.
EveryRequestAnswered ==
    StoresAnswer =>
        \A r \in Requests :
            InFlight(r) ~> pc[r] = "done" \/ Stranded \/ server = "closed"

\* With stores that answer, executor.shutdown(wait=True) returns and the lifespan
\* finishes, whatever is in flight when it begins, unless the drain is stranded.
ShutdownCompletes ==
    StoresAnswer => (server = "draining" ~> server = "closed" \/ Stranded)

\* "Gracefully shuts down the thread pool, waiting for in-flight tasks."
GracefulShutdown == StoresAnswer => (server = "draining" ~> server = "closed")

\* Pipelines of one session execute at the same time only when one of them
\* belongs to a stream that timed out or whose client left.
OverlapOnlyAfterAbort ==
    \A r, q \in Requests :
        /\ r # q /\ SessionOf[r] # NoSession /\ SessionOf[r] = SessionOf[q]
        /\ job[<<r, "exec">>] = "running" /\ job[<<q, "exec">>] = "running"
        => "aborted" \in {status[r], status[q]}

\* "Queue a pending human review for a regulated run": a run of a regulated pack
\* that is answered 200 has handed its review to the pool, through the handler
\* that saves the run and through the one that does not, unless shutdown came
\* first.  What the pool makes of it is best effort: see WriteTimedOut.
ReviewSubmitted ==
    \A r \in Regulated :
        Kind[r] \in PackKinds /\ status[r] = "ok" =>
            job[<<r, "review">>] # "none" \/ ~PoolOpen

\* Regulated packs are "blocked at runtime unless REGULATED_PACKS_ENABLED".
RegulatedBlocked ==
    \A r \in Regulated : ~RegulatedEnabled => job[<<r, "exec">>] = "none"
=============================================================================
