------------------------- MODULE RunLifecycleProofs -------------------------
(* Proofs about the run lifecycle, for every set of requests, every mix of   *)
(* handlers, sessions and regulated packs and every size of the pool.        *)
EXTENDS RunLifecycle, TLAPS

\* jobs differs from job at most in queued jobs that were cancelled.
CancelsOnly(jobs) ==
    /\ jobs \in [Jobs -> JobStates]
    /\ \A j \in Jobs : jobs[j] = job[j] \/ (job[j] = "queued" /\ jobs[j] = "cancelled")

PooledIdle(r) ==
    Kind[r] \in PoolKinds => job[<<r, "exec">>] \notin {"queued", "running"}

\* The two ways a handler leaves an await: it answers and releases, or it
\* submits its next best-effort write.
Resumed(r) ==
    /\ pc[r] \in {"pipeline", "save", "review"}
    /\ pc[r] = "pipeline" => PooledIdle(r)
    /\ \E jobs \in [Jobs -> JobStates] :
        /\ CancelsOnly(jobs)
        /\ \/ \E st \in {"ok", "error", "aborted"} : Finish(r, st, jobs)
           \/ PoolOpen /\ \E t \in {"save", "review"} : Submit(r, t, jobs)

Answered(r) ==
    /\ pc[r] = "new" \/ pc[r] = "accepted"
    /\ \/ pc[r] = "new" /\ \E st \in Statuses : Answer(r, st)
       \/ pc[r] = "accepted" /\ Answer(r, "abandoned")

\* Where a handler is tells what it has done: only an answered request has a
\* status, and only a stream waits for its body to be iterated.
PlaceInv ==
    \A r \in Requests :
        /\ pc[r] # "done" => status[r] = "none"
        /\ pc[r] = "accepted" => Kind[r] \in StreamKinds

\* A pooled pipeline is awaited from its submission to its end.
PooledInv ==
    \A r \in Requests :
        Kind[r] \in PoolKinds /\ job[<<r, "exec">>] \in {"queued", "running"}
            => pc[r] = "pipeline"

\* Every future still queued has its work item in the queue.
QueueInv ==
    \A j \in Jobs : job[j] = "queued" => \E i \in 1..Len(queue) : queue[i] = j

\* Once drained, the pool stays empty: no handler can submit to it any more.
DrainInv ==
    server \in {"cleanup", "closed"} =>
        /\ queue = <<>>
        /\ \A j \in Jobs : InPool(j) => job[j] \notin {"queued", "running"}

\* A task of a request is a job.
LEMMA JobPairs ==
    ASSUME NEW r \in Requests, NEW t \in Tasks PROVE <<r, t>> \in Jobs
    BY DEF Jobs

\* Cancel touches a queued job only.
LEMMA CancelShape ==
    ASSUME TypeOK, NEW j \in Jobs PROVE CancelsOnly(Cancel(j, job))
    BY DEF TypeOK, Cancel, CancelsOnly, JobStates

\* Proceed ends the request or submits one of the two best-effort writes.
LEMMA ProceedShape ==
    ASSUME NEW r \in Requests, NEW jobs \in [Jobs -> JobStates], Proceed(r, jobs)
    PROVE  \/ Finish(r, "ok", jobs)
           \/ PoolOpen /\ \E t \in {"save", "review"} : Submit(r, t, jobs)
<1>1. NextTask(r) \in {"save", "review", "end"}
    BY DEF NextTask
<1> QED
    BY <1>1 DEF Proceed

\* The handlers that submit their pipeline to the pool, and the streams.
PooledRun(r) == Kind[r] \in PoolKinds /\ AdmitRun(r)
Stream(r) == Kind[r] \in StreamKinds /\ AdmitStream(r)

\* Every handler step is an answer, an admission, a stream start or a
\* resumption.
LEMMA HandlerShape ==
    ASSUME TypeOK, NEW r \in Requests, Handler(r)
    PROVE  Answered(r) \/ PooledRun(r) \/ Stream(r) \/ StartStream(r) \/ Resumed(r)
<1>0. CancelsOnly(job) /\ job \in [Jobs -> JobStates]
    BY DEF TypeOK, CancelsOnly
<1>1. ASSUME Unavailable(r) \/ Reject(r) \/ Forbid(r) \/ Conflict(r) \/ AbandonStream(r)
      PROVE  Answered(r)
    BY <1>1 DEF Unavailable, Reject, Forbid, Conflict, AbandonStream, Answered, Statuses
<1>2. CASE PipelineReturned(r)
    BY <1>0, <1>2, ProceedShape DEF PipelineReturned, Resumed, PooledIdle
<1>3. CASE WriteReturned(r)
    BY <1>0, <1>3, ProceedShape DEF WriteReturned, Resumed
<1>4. CASE WriteTimedOut(r)
    <2> DEFINE j == <<r, pc[r]>>
    <2>1. j \in Jobs
        BY <1>4 DEF WriteTimedOut, Jobs, Tasks
    <2>2. CancelsOnly(Cancel(j, job)) /\ Cancel(j, job) \in [Jobs -> JobStates]
        BY <2>1, CancelShape DEF CancelsOnly
    <2> QED
        BY <1>4, <2>2, ProceedShape DEF WriteTimedOut, Resumed
<1>5. CASE AbortStream(r)
    <2> DEFINE j == <<r, pc[r]>>
    <2>1. CASE pc[r] = "pipeline"
        BY <1>0, <1>5, <2>1
        DEF AbortStream, Resumed, PooledIdle, PoolKinds, StreamKinds
    <2>2. CASE pc[r] \in {"save", "review"}
        <3>1. j \in Jobs
            BY <2>2 DEF Jobs, Tasks
        <3>2. CancelsOnly(Cancel(j, job)) /\ Cancel(j, job) \in [Jobs -> JobStates]
            BY <3>1, CancelShape DEF CancelsOnly
        <3> QED
            BY <1>5, <2>2, <3>2 DEF AbortStream, Resumed
    <2> QED
        BY <1>5, <2>1, <2>2 DEF AbortStream
<1>6. ASSUME run_pack(r) \/ run_pipeline(r) \/ run_research(r) PROVE PooledRun(r)
    BY <1>6 DEF run_pack, run_pipeline, run_research, PooledRun, PoolKinds
<1>7. ASSUME stream_pack(r) \/ run_stream(r) PROVE Stream(r)
    BY <1>7 DEF stream_pack, run_stream, Stream, StreamKinds
<1> QED
    BY <1>1, <1>2, <1>3, <1>4, <1>5, <1>6, <1>7 DEF Handler

\* Every step keeps the state well typed.
LEMMA TypeStep ==
    ASSUME TypeOK, [Next]_vars PROVE TypeOK'
<1> USE RequestAssumption
<1>1. ASSUME NEW r \in Requests, Answered(r) PROVE TypeOK'
    BY <1>1 DEF Answered, Answer, TypeOK, Places, Statuses
<1>2. ASSUME NEW r \in Requests, PooledRun(r) PROVE TypeOK'
    BY <1>2 DEF PooledRun, AdmitRun, try_acquire, TypeOK, Places, JobStates, Jobs, Tasks
<1>3. ASSUME NEW r \in Requests, Stream(r) PROVE TypeOK'
    BY <1>3 DEF Stream, AdmitStream, try_acquire, TypeOK, Places
<1>4. ASSUME NEW r \in Requests, StartStream(r) PROVE TypeOK'
    BY <1>4 DEF StartStream, TypeOK, Places, JobStates
<1>5. ASSUME NEW r \in Requests, Resumed(r) PROVE TypeOK'
    <2>1. PICK jobs \in [Jobs -> JobStates] :
            /\ CancelsOnly(jobs)
            /\ \/ \E st \in {"ok", "error", "aborted"} : Finish(r, st, jobs)
               \/ PoolOpen /\ \E t \in {"save", "review"} : Submit(r, t, jobs)
        BY <1>5 DEF Resumed
    <2>2. ASSUME NEW st \in {"ok", "error", "aborted"}, Finish(r, st, jobs)
          PROVE  TypeOK'
        BY <2>2 DEF Finish, release, TypeOK, Places, Statuses
    <2>3. ASSUME NEW t \in {"save", "review"}, Submit(r, t, jobs) PROVE TypeOK'
        BY <2>3 DEF Submit, TypeOK, Places, JobStates, Jobs, Tasks
    <2> QED
        BY <2>1, <2>2, <2>3
<1>6. ASSUME StartJob PROVE TypeOK'
    BY <1>6 DEF StartJob, TypeOK, JobStates
<1>7. ASSUME NEW j \in Jobs, FinishJob(j) PROVE TypeOK'
    BY <1>7 DEF FinishJob, TypeOK, JobStates
<1>8. ASSUME BeginShutdown \/ PoolDrained \/ CloseStores PROVE TypeOK'
    BY <1>8 DEF BeginShutdown, PoolDrained, CloseStores, TypeOK, Servers
<1>9. CASE UNCHANGED vars
    BY <1>9 DEF vars, TypeOK
<1> QED
    BY <1>1, <1>2, <1>3, <1>4, <1>5, <1>6, <1>7, <1>8, <1>9, HandlerShape DEF Next

\* The state of the process stays well typed.
THEOREM TypeCorrect == Spec => []TypeOK
<1>1. Init => TypeOK
    BY DEF Init, TypeOK, Places, Statuses, JobStates, Servers
<1> QED
    BY <1>1, TypeStep, PTL DEF Spec

\* The two outcomes of a resumption, named so that proofs can split on them.
LEMMA ResumedCases ==
    ASSUME NEW r \in Requests, Resumed(r)
    PROVE  \E jobs \in [Jobs -> JobStates] :
              /\ CancelsOnly(jobs)
              /\ \/ \E st \in {"ok", "error", "aborted"} : Finish(r, st, jobs)
                 \/ PoolOpen /\ \E t \in {"save", "review"} : Submit(r, t, jobs)
    BY DEF Resumed

\* The places of the handlers are preserved.
LEMMA PlaceStep ==
    ASSUME TypeOK, PlaceInv, [Next]_vars PROVE PlaceInv'
<1>1. ASSUME NEW r \in Requests, Answered(r) PROVE PlaceInv'
    BY <1>1 DEF Answered, Answer, TypeOK, PlaceInv
<1>2. ASSUME NEW r \in Requests, PooledRun(r) PROVE PlaceInv'
    BY <1>2 DEF PooledRun, AdmitRun, TypeOK, PlaceInv
<1>3. ASSUME NEW r \in Requests, Stream(r) PROVE PlaceInv'
    BY <1>3 DEF Stream, AdmitStream, TypeOK, PlaceInv
<1>4. ASSUME NEW r \in Requests, StartStream(r) PROVE PlaceInv'
    BY <1>4 DEF StartStream, TypeOK, PlaceInv
<1>5. ASSUME NEW r \in Requests, Resumed(r) PROVE PlaceInv'
    BY <1>5 DEF Resumed, Finish, Submit, TypeOK, PlaceInv
<1>6. ASSUME StartJob \/ \E j \in Jobs : FinishJob(j) PROVE PlaceInv'
    BY <1>6 DEF StartJob, FinishJob, PlaceInv
<1>7. ASSUME BeginShutdown \/ PoolDrained \/ CloseStores PROVE PlaceInv'
    BY <1>7 DEF BeginShutdown, PoolDrained, CloseStores, PlaceInv
<1>8. CASE UNCHANGED vars
    BY <1>8 DEF vars, PlaceInv
<1> QED
    BY <1>1, <1>2, <1>3, <1>4, <1>5, <1>6, <1>7, <1>8, HandlerShape DEF Next

\* A pooled pipeline stays awaited.
LEMMA PooledStep ==
    ASSUME TypeOK, PlaceInv, PooledInv, [Next]_vars PROVE PooledInv'
<1> USE JobPairs DEF Tasks
<1>1. ASSUME NEW r \in Requests, Answered(r) PROVE PooledInv'
    <2>1. pc[r] # "pipeline"
        BY <1>1 DEF Answered
    <2> QED
        BY <1>1, <2>1 DEF Answered, Answer, TypeOK, PooledInv
<1>2. ASSUME NEW r \in Requests, PooledRun(r) PROVE PooledInv'
    BY <1>2 DEF PooledRun, AdmitRun, TypeOK, PooledInv
<1>3. ASSUME NEW r \in Requests, Stream(r) PROVE PooledInv'
    BY <1>3 DEF Stream, AdmitStream, TypeOK, PooledInv
<1>4. ASSUME NEW r \in Requests, StartStream(r) PROVE PooledInv'
    BY <1>4 DEF StartStream, TypeOK, PooledInv, PlaceInv, PoolKinds, StreamKinds
<1>5. ASSUME NEW r \in Requests, Resumed(r) PROVE PooledInv'
    <2>1. PooledIdle(r)
        BY <1>5 DEF Resumed, PooledInv, PooledIdle
    <2>2. PICK jobs \in [Jobs -> JobStates] :
            /\ CancelsOnly(jobs)
            /\ \/ \E st \in {"ok", "error", "aborted"} : Finish(r, st, jobs)
               \/ PoolOpen /\ \E t \in {"save", "review"} : Submit(r, t, jobs)
        BY <1>5, ResumedCases
    <2>3. \A q \in Requests :
            jobs[<<q, "exec">>] \in {"queued", "running"}
                => jobs[<<q, "exec">>] = job[<<q, "exec">>]
        BY <2>2 DEF CancelsOnly
    <2>4. ASSUME NEW st \in {"ok", "error", "aborted"}, Finish(r, st, jobs)
          PROVE  PooledInv'
        BY <2>1, <2>3, <2>4 DEF Finish, TypeOK, PooledInv, PooledIdle
    <2>5. ASSUME NEW t \in {"save", "review"}, Submit(r, t, jobs) PROVE PooledInv'
        <3>1. \A q \in Requests : job'[<<q, "exec">>] = jobs[<<q, "exec">>]
            BY <2>5 DEF Submit
        <3> QED
            BY <2>1, <2>3, <2>5, <3>1 DEF Submit, TypeOK, PooledInv, PooledIdle
    <2> QED
        BY <2>2, <2>4, <2>5
<1>6. ASSUME StartJob PROVE PooledInv'
    BY <1>6 DEF StartJob, TypeOK, PooledInv
<1>7. ASSUME NEW j \in Jobs, FinishJob(j) PROVE PooledInv'
    BY <1>7 DEF FinishJob, TypeOK, PooledInv
<1>8. ASSUME BeginShutdown \/ PoolDrained \/ CloseStores PROVE PooledInv'
    BY <1>8 DEF BeginShutdown, PoolDrained, CloseStores, PooledInv
<1>9. CASE UNCHANGED vars
    BY <1>9 DEF vars, PooledInv
<1> QED
    BY <1>1, <1>2, <1>3, <1>4, <1>5, <1>6, <1>7, <1>8, <1>9, HandlerShape DEF Next

\* Sessions are held exactly by the requests in flight (and leaked only by
\* abandoned streams).
LEMMA SessionStep ==
    ASSUME TypeOK, PlaceInv, InFlightHoldsSession, NoSessionLeft, [Next]_vars
    PROVE  InFlightHoldsSession' /\ NoSessionLeft'
<1> USE RequestAssumption
<1>1. ASSUME NEW r \in Requests, Answered(r)
      PROVE  InFlightHoldsSession' /\ NoSessionLeft'
    BY <1>1 DEF Answered, Answer, TypeOK, PlaceInv, InFlight,
                InFlightHoldsSession, NoSessionLeft
<1>2. ASSUME NEW r \in Requests, PooledRun(r) \/ Stream(r)
      PROVE  InFlightHoldsSession' /\ NoSessionLeft'
    <2>1. /\ ~InFlight(r) /\ status[r] # "abandoned"
          /\ SessionOf[r] \notin sessions
          /\ sessions' = sessions \cup ({SessionOf[r]} \ {NoSession})
          /\ \E place \in {"pipeline", "accepted"} : pc' = [pc EXCEPT ![r] = place]
          /\ status' = status
        BY <1>2 DEF PooledRun, AdmitRun, Stream, AdmitStream, try_acquire, InFlight, PlaceInv
    <2>2. InFlight(r)' /\ \A q \in Requests \ {r} : InFlight(q)' <=> InFlight(q)
        BY <2>1 DEF InFlight, TypeOK
    <2>3. InFlightHoldsSession'
        BY <2>1, <2>2 DEF InFlightHoldsSession
    <2>4. NoSessionLeft'
        BY <2>1, <2>2 DEF NoSessionLeft
    <2> QED
        BY <2>3, <2>4
<1>3. ASSUME NEW r \in Requests, StartStream(r)
      PROVE  InFlightHoldsSession' /\ NoSessionLeft'
    BY <1>3 DEF StartStream, TypeOK, InFlight, InFlightHoldsSession, NoSessionLeft
<1>4. ASSUME NEW r \in Requests, Resumed(r)
      PROVE  InFlightHoldsSession' /\ NoSessionLeft'
    <2>1. PICK jobs \in [Jobs -> JobStates] :
            \/ \E st \in {"ok", "error", "aborted"} : Finish(r, st, jobs)
            \/ PoolOpen /\ \E t \in {"save", "review"} : Submit(r, t, jobs)
        BY <1>4, ResumedCases
    <2>2. InFlight(r)
        BY <1>4 DEF Resumed, InFlight
    <2>3. ASSUME NEW st \in {"ok", "error", "aborted"}, Finish(r, st, jobs)
          PROVE  InFlightHoldsSession' /\ NoSessionLeft'
        <3>1. /\ sessions' = sessions \ {SessionOf[r]}
              /\ ~InFlight(r)'
              /\ \A q \in Requests \ {r} :
                    /\ InFlight(q)' <=> InFlight(q)
                    /\ status'[q] = status[q]
            BY <2>3 DEF Finish, release, TypeOK, InFlight
        <3>2. InFlightHoldsSession'
            BY <2>2, <3>1 DEF InFlightHoldsSession
        <3>3. NoSessionLeft'
            BY <3>1 DEF NoSessionLeft
        <3> QED
            BY <3>2, <3>3
    <2>4. ASSUME NEW t \in {"save", "review"}, Submit(r, t, jobs)
          PROVE  InFlightHoldsSession' /\ NoSessionLeft'
        <3>1. /\ sessions' = sessions /\ status' = status
              /\ \A q \in Requests : InFlight(q)' <=> InFlight(q)
            BY <2>2, <2>4 DEF Submit, TypeOK, InFlight
        <3> QED
            BY <3>1 DEF InFlightHoldsSession, NoSessionLeft
    <2> QED
        BY <2>1, <2>3, <2>4
<1>5. CASE UNCHANGED <<pc, status, sessions>>
    BY <1>5 DEF InFlight, InFlightHoldsSession, NoSessionLeft
<1>6. ASSUME \/ StartJob \/ \E j \in Jobs : FinishJob(j)
             \/ BeginShutdown \/ PoolDrained \/ CloseStores \/ UNCHANGED vars
      PROVE  UNCHANGED <<pc, status, sessions>>
    BY <1>6 DEF StartJob, FinishJob, BeginShutdown, PoolDrained, CloseStores, vars
<1> QED
    BY <1>1, <1>2, <1>3, <1>4, <1>5, <1>6, HandlerShape DEF Next

\* Queued futures keep their work item, and the drained pool stays empty.
LEMMA PoolStep ==
    ASSUME TypeOK, PlaceInv, QueueInv, DrainInv, [Next]_vars
    PROVE  QueueInv' /\ DrainInv'
<1> USE JobPairs DEF Tasks
<1>1. ASSUME NEW r \in Requests, NEW t \in Tasks, NEW jobs \in [Jobs -> JobStates],
             CancelsOnly(jobs), PoolOpen, server' = server,
             job' = [jobs EXCEPT ![<<r, t>>] = "queued"],
             queue' = Append(queue, <<r, t>>)
      PROVE  QueueInv' /\ DrainInv'
    <2>1. DrainInv'
        BY <1>1 DEF PoolOpen, DrainInv
    <2>2. ASSUME NEW j \in Jobs, job'[j] = "queued"
          PROVE  \E i \in 1..Len(queue') : queue'[i] = j
        <3>1. CASE j = <<r, t>>
            <4>1. Len(queue') = Len(queue) + 1 /\ queue'[Len(queue) + 1] = j
                BY <1>1, <3>1 DEF TypeOK
            <4> QED
                BY <4>1 DEF TypeOK
        <3>2. CASE j # <<r, t>>
            <4>1. job[j] = "queued"
                BY <1>1, <2>2, <3>2 DEF CancelsOnly
            <4>2. PICK i \in 1..Len(queue) : queue[i] = j
                BY <4>1 DEF QueueInv
            <4>3. i \in 1..Len(queue') /\ queue'[i] = j
                BY <1>1, <4>2 DEF TypeOK
            <4> QED
                BY <4>3
        <3> QED
            BY <3>1, <3>2
    <2> QED
        BY <2>1, <2>2 DEF QueueInv
<1>2. ASSUME queue' = queue, server' = server, job' \in [Jobs -> JobStates],
             \A j \in Jobs :
                \/ job'[j] = job[j]
                \/ job'[j] \notin {"queued", "running"}
                \/ job'[j] = "running" /\ ~InPool(j)
      PROVE  QueueInv' /\ DrainInv'
    BY <1>2 DEF QueueInv, DrainInv, InPool
<1>3. ASSUME NEW r \in Requests, Handler(r) PROVE QueueInv' /\ DrainInv'
    <2>1. CASE Answered(r)
        BY <2>1 DEF Answered, Answer, QueueInv, DrainInv, InPool
    <2>2. CASE PooledRun(r)
        <3>1. CancelsOnly(job) /\ job \in [Jobs -> JobStates]
            BY DEF TypeOK, CancelsOnly
        <3> QED
            BY <1>1, <2>2, <3>1 DEF PooledRun, AdmitRun
    <2>3. CASE Stream(r)
        BY <2>3 DEF Stream, AdmitStream, QueueInv, DrainInv, InPool
    <2>4. CASE StartStream(r)
        <3>1. ~InPool(<<r, "exec">>)
            BY <2>4 DEF StartStream, PlaceInv, InPool, PoolKinds, StreamKinds
        <3>2. /\ queue' = queue /\ server' = server
              /\ job' \in [Jobs -> JobStates]
              /\ \A j \in Jobs : j # <<r, "exec">> => job'[j] = job[j]
              /\ job'[<<r, "exec">>] = "running"
            BY <2>4 DEF StartStream, TypeOK, JobStates
        <3> QED
            BY <1>2, <3>1, <3>2
    <2>5. CASE Resumed(r)
        <3>1. PICK jobs \in [Jobs -> JobStates] :
                /\ CancelsOnly(jobs)
                /\ \/ \E st \in {"ok", "error", "aborted"} : Finish(r, st, jobs)
                   \/ PoolOpen /\ \E t \in {"save", "review"} : Submit(r, t, jobs)
            BY <2>5, ResumedCases
        <3>2. ASSUME NEW st \in {"ok", "error", "aborted"}, Finish(r, st, jobs)
              PROVE  QueueInv' /\ DrainInv'
            BY <1>2, <3>1, <3>2 DEF Finish, CancelsOnly
        <3>3. ASSUME NEW t \in {"save", "review"}, PoolOpen, Submit(r, t, jobs)
              PROVE  QueueInv' /\ DrainInv'
            BY <1>1, <3>1, <3>3 DEF Submit
        <3> QED
            BY <3>1, <3>2, <3>3
    <2> QED
        BY <1>3, <2>1, <2>2, <2>3, <2>4, <2>5, HandlerShape
<1>4. ASSUME StartJob PROVE QueueInv' /\ DrainInv'
    <2>1. DrainInv'
        BY <1>4 DEF StartJob, DrainInv
    <2>2. ASSUME NEW j \in Jobs, job'[j] = "queued"
          PROVE  \E i \in 1..Len(queue') : queue'[i] = j
        <3>1. Head(queue) \in Jobs /\ Head(queue) = queue[1] /\ Len(queue) > 0
            BY <1>4 DEF StartJob, TypeOK
        <3>2. j # Head(queue) /\ job[j] = "queued"
            BY <1>4, <2>2, <3>1 DEF StartJob, TypeOK
        <3>3. PICK i \in 1..Len(queue) : queue[i] = j
            BY <3>2 DEF QueueInv
        <3>4. i - 1 \in 1..Len(queue') /\ queue'[i - 1] = j
            BY <1>4, <3>1, <3>2, <3>3 DEF StartJob, TypeOK
        <3> QED
            BY <3>4
    <2> QED
        BY <2>1, <2>2 DEF QueueInv
<1>5. ASSUME NEW k \in Jobs, FinishJob(k) PROVE QueueInv' /\ DrainInv'
    BY <1>2, <1>5 DEF FinishJob, TypeOK, JobStates
<1>6. CASE BeginShutdown
    BY <1>6 DEF BeginShutdown, QueueInv, DrainInv
<1>7. CASE PoolDrained
    <2>1. QueueInv'
        BY <1>7 DEF PoolDrained, QueueInv
    <2>2. ASSUME NEW j \in Jobs, InPool(j) PROVE job[j] \notin {"queued", "running"}
        <3>1. job[j] # "running"
            BY <1>7, <2>2 DEF PoolDrained, RunningInPool
        <3>2. job[j] # "queued"
            BY <1>7 DEF PoolDrained, QueueInv
        <3> QED
            BY <3>1, <3>2
    <2> QED
        BY <1>7, <2>1, <2>2 DEF PoolDrained, DrainInv, InPool
<1>8. CASE CloseStores
    BY <1>8 DEF CloseStores, QueueInv, DrainInv, InPool
<1>9. CASE UNCHANGED vars
    BY <1>9 DEF vars, QueueInv, DrainInv, InPool
<1> QED
    BY <1>3, <1>4, <1>5, <1>6, <1>7, <1>8, <1>9 DEF Next

\* The invariant the safety theorems below are read off.
RunInv ==
    /\ TypeOK /\ PlaceInv /\ PooledInv
    /\ InFlightHoldsSession /\ NoSessionLeft
    /\ QueueInv /\ DrainInv

\* The invariant is inductive.
LEMMA RunInvariant == Spec => []RunInv
<1>1. Init => RunInv
    <2> SUFFICES ASSUME Init PROVE RunInv
        OBVIOUS
    <2>1. TypeOK
        BY DEF Init, TypeOK, Places, Statuses, JobStates, Servers
    <2>2. PlaceInv /\ InFlightHoldsSession /\ NoSessionLeft
        BY DEF Init, PlaceInv, InFlight, InFlightHoldsSession, NoSessionLeft
    <2>3. PooledInv
        BY JobPairs DEF Init, PooledInv, Tasks
    <2>4. QueueInv /\ DrainInv
        BY DEF Init, QueueInv, DrainInv
    <2> QED
        BY <2>1, <2>2, <2>3, <2>4 DEF RunInv
<1>2. RunInv /\ [Next]_vars => RunInv'
    <2> SUFFICES ASSUME RunInv, [Next]_vars PROVE RunInv'
        OBVIOUS
    <2>1. TypeOK'
        BY TypeStep DEF RunInv
    <2> QED
        BY <2>1, PlaceStep, PooledStep, SessionStep, PoolStep DEF RunInv
<1> QED
    BY <1>1, <1>2, PTL DEF Spec

\* One handler at a time works on a session, and while it does the session is
\* marked in flight (try_acquire_session, and the finally blocks).
THEOREM SessionExclusion == Spec => []InFlightHoldsSession
    BY RunInvariant, PTL DEF RunInv

\* No path of a handler that started leaves its session marked.
THEOREM SessionsReleased == Spec => []NoSessionLeft
    BY RunInvariant, PTL DEF RunInv

\* The thread of a pooled pipeline never outlives the hold on its session.
THEOREM PipelineCovered == Spec => []PooledPipelineHoldsSession
<1>1. RunInv => PooledPipelineHoldsSession
    BY DEF RunInv, PooledInv, PooledPipelineHoldsSession, InFlight
<1> QED
    BY <1>1, RunInvariant, PTL

\* The stores are closed after the last write that was submitted to the pool,
\* including the writes whose wait timed out.
THEOREM CloseAfterWrites == Spec => []StoresOutliveWrites
<1>1. RunInv => StoresOutliveWrites
    BY DEF RunInv, DrainInv, StoresOutliveWrites
<1> QED
    BY <1>1, RunInvariant, PTL
-----------------------------------------------------------------------------
\* A handler touches its own request only; jobs of others can at most be
\* cancelled, and no job is forgotten.
LEMMA HandlerFrame ==
    ASSUME TypeOK, NEW r \in Requests, Handler(r)
    PROVE  /\ \A q \in Requests \ {r} :
                /\ pc'[q] = pc[q] /\ status'[q] = status[q]
                /\ \A t \in Tasks :
                     \/ job'[<<q, t>>] = job[<<q, t>>]
                     \/ job[<<q, t>>] = "queued" /\ job'[<<q, t>>] = "cancelled"
           /\ \A j \in Jobs : job[j] # "none" => job'[j] # "none"
           /\ server' = server
<1> USE JobPairs
<1>1. CASE Answered(r)
    BY <1>1 DEF Answered, Answer, TypeOK
<1>2. CASE PooledRun(r) \/ Stream(r) \/ StartStream(r)
    BY <1>2 DEF PooledRun, AdmitRun, Stream, AdmitStream, StartStream, TypeOK, Tasks
<1>3. CASE Resumed(r)
    <2>1. PICK jobs \in [Jobs -> JobStates] :
            /\ CancelsOnly(jobs)
            /\ \/ \E st \in {"ok", "error", "aborted"} : Finish(r, st, jobs)
               \/ PoolOpen /\ \E t \in {"save", "review"} : Submit(r, t, jobs)
        BY <1>3, ResumedCases
    <2>2. ASSUME NEW st \in {"ok", "error", "aborted"}, Finish(r, st, jobs)
          PROVE  /\ pc' = [pc EXCEPT ![r] = "done"]
                 /\ status' = [status EXCEPT ![r] = st]
                 /\ job' = jobs /\ server' = server
        BY <2>2 DEF Finish
    <2>3. ASSUME NEW t \in {"save", "review"}, Submit(r, t, jobs)
          PROVE  /\ pc' = [pc EXCEPT ![r] = t] /\ status' = status
                 /\ job' = [jobs EXCEPT ![<<r, t>>] = "queued"] /\ server' = server
        BY <2>3 DEF Submit
    <2> QED
        BY <2>1, <2>2, <2>3 DEF CancelsOnly, TypeOK, Tasks
<1> QED
    BY <1>1, <1>2, <1>3, HandlerShape

\* Who leaves the await of its pipeline has seen it end, or aborts.
LEMMA PipelineLeft ==
    ASSUME TypeOK, NEW r \in Requests, Handler(r), pc[r] = "pipeline",
           job[<<r, "exec">>] \in {"queued", "running"}
    PROVE  status'[r] = "aborted"
<1>1. AbortStream(r)
    BY DEF Handler, Unavailable, Reject, Forbid, Conflict, run_pack, run_pipeline,
           run_research, AdmitRun, stream_pack, run_stream, AdmitStream, StartStream,
           AbandonStream, PipelineReturned, WriteReturned, WriteTimedOut
<1> QED
    BY <1>1 DEF AbortStream, Finish, TypeOK

\* A regulated run is answered 200 after its review was submitted, or when the
\* pool refuses it.
LEMMA ReviewBeforeOk ==
    ASSUME TypeOK, NEW r \in Regulated, Kind[r] \in PackKinds, Handler(r),
           status[r] # "ok", status'[r] = "ok"
    PROVE  pc[r] = "review" \/ ~PoolOpen
<1>1. r \in Requests /\ Kind[r] \in PackKinds
    BY RequestAssumption
<1>2. ~(\/ Unavailable(r) \/ Reject(r) \/ Forbid(r) \/ Conflict(r) \/ AbandonStream(r))
    BY <1>1 DEF Unavailable, Reject, Forbid, Conflict, AbandonStream, Answer, TypeOK
<1>3. ~(\/ run_pack(r) \/ run_pipeline(r) \/ run_research(r)
        \/ stream_pack(r) \/ run_stream(r) \/ StartStream(r))
    BY <1>1 DEF run_pack, run_pipeline, run_research, AdmitRun, stream_pack,
                run_stream, AdmitStream, StartStream
<1>4. ~AbortStream(r)
    BY <1>1 DEF AbortStream, Finish, TypeOK
<1>5. PICK jobs : Proceed(r, jobs) /\ pc[r] \in {"pipeline", "save", "review"}
    <2>1. PipelineReturned(r) \/ WriteReturned(r) \/ WriteTimedOut(r)
        BY <1>2, <1>3, <1>4 DEF Handler
    <2>2. ~Finish(r, "error", job)
        BY <1>1 DEF Finish, TypeOK
    <2> QED
        BY <2>1, <2>2 DEF PipelineReturned, WriteReturned, WriteTimedOut
<1>6. NextTask(r) = "end" \/ ~PoolOpen
    BY <1>5 DEF Proceed, Submit
<1>7. CASE NextTask(r) = "end"
    BY <1>1, <1>5, <1>7 DEF NextTask
<1> QED
    BY <1>6, <1>7

\* A pipeline that may still run is awaited, unless its stream was aborted.
ExecInv ==
    \A r \in Requests :
        job[<<r, "exec">>] \in {"queued", "running"} =>
            pc[r] = "pipeline" \/ status[r] = "aborted"

\* Who awaits a review has submitted it.
ReviewInv == \A r \in Requests : pc[r] = "review" => job[<<r, "review">>] # "none"

\* Pipelines stay awaited or aborted.
LEMMA ExecStep ==
    ASSUME TypeOK, PlaceInv, ExecInv, [Next]_vars PROVE ExecInv'
<1> USE JobPairs DEF Tasks
<1>1. ASSUME NEW r \in Requests, Handler(r) PROVE ExecInv'
    <2> SUFFICES ASSUME NEW q \in Requests, job'[<<q, "exec">>] \in {"queued", "running"}
                 PROVE  pc'[q] = "pipeline" \/ status'[q] = "aborted"
        BY DEF ExecInv
    <2>1. CASE q # r
        BY <1>1, <2>1, HandlerFrame DEF ExecInv
    <2>2. CASE q = r /\ (PooledRun(r) \/ StartStream(r))
        BY <2>2 DEF PooledRun, AdmitRun, StartStream, TypeOK
    <2>3. CASE q = r /\ (Answered(r) \/ Stream(r))
        <3>1. job'[<<r, "exec">>] = job[<<r, "exec">>] /\ pc[r] \in {"new", "accepted"}
            BY <2>3 DEF Answered, Answer, Stream, AdmitStream
        <3>2. status[r] = "none"
            BY <3>1 DEF PlaceInv
        <3> QED
            BY <2>3, <3>1, <3>2 DEF ExecInv
    <2>4. CASE q = r /\ Resumed(r)
        <3>1. job[<<r, "exec">>] \in {"queued", "running"}
            <4>1. PICK jobs \in [Jobs -> JobStates] :
                    /\ CancelsOnly(jobs)
                    /\ \/ \E st \in {"ok", "error", "aborted"} : Finish(r, st, jobs)
                       \/ PoolOpen /\ \E t \in {"save", "review"} : Submit(r, t, jobs)
                BY <2>4, ResumedCases
            <4>2. job'[<<r, "exec">>] = jobs[<<r, "exec">>]
                BY <4>1 DEF Finish, Submit
            <4> QED
                BY <2>4, <4>1, <4>2 DEF CancelsOnly
        <3>2. status[r] = "none"
            BY <2>4 DEF Resumed, PlaceInv
        <3>3. pc[r] = "pipeline"
            BY <3>1, <3>2 DEF ExecInv
        <3> QED
            BY <1>1, <2>4, <3>1, <3>3, PipelineLeft
    <2> QED
        BY <1>1, <2>1, <2>2, <2>3, <2>4, HandlerShape
<1>2. ASSUME StartJob PROVE ExecInv'
    BY <1>2 DEF StartJob, TypeOK, ExecInv
<1>3. ASSUME NEW j \in Jobs, FinishJob(j) PROVE ExecInv'
    BY <1>3 DEF FinishJob, TypeOK, ExecInv
<1>4. CASE BeginShutdown \/ PoolDrained \/ CloseStores \/ UNCHANGED vars
    BY <1>4 DEF BeginShutdown, PoolDrained, CloseStores, vars, ExecInv
<1> QED
    BY <1>1, <1>2, <1>3, <1>4 DEF Next

\* Reviews stay submitted, and a regulated run has submitted its own when it is
\* answered 200.
LEMMA ReviewStep ==
    ASSUME TypeOK, ReviewInv, ReviewSubmitted, [Next]_vars
    PROVE  ReviewInv' /\ ReviewSubmitted'
<1> USE JobPairs DEF Tasks
<1>0. Regulated \subseteq Requests
    BY RequestAssumption
<1>1. ASSUME NEW r \in Requests, Handler(r) PROVE ReviewInv'
    <2> SUFFICES ASSUME NEW q \in Requests, pc'[q] = "review"
                 PROVE  job'[<<q, "review">>] # "none"
        BY DEF ReviewInv
    <2>1. CASE pc[q] = "review"
        BY <1>1, <2>1, HandlerFrame DEF ReviewInv
    <2>2. CASE pc[q] # "review"
        <3>1. q = r
            BY <1>1, <2>2, HandlerFrame
        <3>2. Resumed(r)
            BY <1>1, <3>1, HandlerShape
               DEF Answered, Answer, PooledRun, AdmitRun, Stream, AdmitStream,
                   StartStream, TypeOK
        <3>3. PICK jobs \in [Jobs -> JobStates], t \in {"save", "review"} : Submit(r, t, jobs)
            BY <3>1, <3>2, ResumedCases DEF Finish, TypeOK
        <3>4. t = "review"
            BY <3>1, <3>3 DEF Submit, TypeOK
        <3> QED
            BY <3>1, <3>3, <3>4 DEF Submit
    <2> QED
        BY <2>1, <2>2
<1>2. ASSUME NEW r \in Requests, Handler(r) PROVE ReviewSubmitted'
    <2> SUFFICES ASSUME NEW q \in Regulated, Kind[q] \in PackKinds, status'[q] = "ok",
                        PoolOpen'
                 PROVE  job'[<<q, "review">>] # "none"
        BY DEF ReviewSubmitted
    <2>1. PoolOpen
        BY <1>2, HandlerFrame DEF PoolOpen
    <2>2. CASE status[q] = "ok"
        BY <1>0, <1>2, <2>1, <2>2, HandlerFrame DEF ReviewSubmitted
    <2>3. CASE status[q] # "ok"
        <3>1. q = r
            BY <1>0, <1>2, <2>3, HandlerFrame
        <3>2. pc[q] = "review"
            BY <1>2, <2>1, <2>3, <3>1, ReviewBeforeOk
        <3> QED
            BY <1>0, <1>2, <3>2, HandlerFrame DEF ReviewInv
    <2> QED
        BY <2>2, <2>3
<1>3. ASSUME StartJob \/ \E j \in Jobs : FinishJob(j)
      PROVE  /\ UNCHANGED <<pc, status, server>>
             /\ \A j \in Jobs : job[j] # "none" => job'[j] # "none"
    BY <1>3 DEF StartJob, FinishJob, TypeOK
<1>4. ASSUME BeginShutdown \/ PoolDrained \/ CloseStores \/ UNCHANGED vars
      PROVE  UNCHANGED <<pc, status, job>> /\ (PoolOpen' => PoolOpen)
    BY <1>4 DEF BeginShutdown, PoolDrained, CloseStores, vars, PoolOpen
<1>5. CASE StartJob \/ \E j \in Jobs : FinishJob(j)
    BY <1>0, <1>3, <1>5 DEF ReviewInv, ReviewSubmitted, PoolOpen
<1>6. CASE BeginShutdown \/ PoolDrained \/ CloseStores \/ UNCHANGED vars
    BY <1>0, <1>4, <1>6 DEF ReviewInv, ReviewSubmitted
<1> QED
    BY <1>1, <1>2, <1>5, <1>6 DEF Next

\* Both invariants hold in every state.
LEMMA FollowUpInvariant == Spec => [](ExecInv /\ ReviewInv /\ ReviewSubmitted)
<1> DEFINE Inv == ExecInv /\ ReviewInv /\ ReviewSubmitted
<1>1. Init => Inv
    BY JobPairs, RequestAssumption
       DEF Init, ExecInv, ReviewInv, ReviewSubmitted, Tasks
<1>2. RunInv /\ Inv /\ [Next]_vars => Inv'
    BY ExecStep, ReviewStep DEF RunInv
<1> QED
    BY <1>1, <1>2, RunInvariant, PTL DEF Spec

\* Two pipelines of a session execute at once only if a stream was aborted:
\* every other path releases the session after its thread has ended.
THEOREM NoOverlap == Spec => []OverlapOnlyAfterAbort
<1>1. RunInv /\ ExecInv => OverlapOnlyAfterAbort
    <2> SUFFICES ASSUME RunInv, ExecInv, NEW r \in Requests, NEW q \in Requests,
                        r # q, SessionOf[r] # NoSession, SessionOf[r] = SessionOf[q],
                        job[<<r, "exec">>] = "running", job[<<q, "exec">>] = "running"
                 PROVE  "aborted" \in {status[r], status[q]}
        BY DEF OverlapOnlyAfterAbort
    <2>1. ~(InFlight(r) /\ InFlight(q))
        BY DEF RunInv, InFlightHoldsSession
    <2> QED
        BY <2>1 DEF ExecInv, InFlight
<1> QED
    BY <1>1, RunInvariant, FollowUpInvariant, PTL

\* Every successful run of a regulated pack has handed its review to the pool,
\* on both routes, unless the shutdown came first.
THEOREM ReviewsSubmitted == Spec => []ReviewSubmitted
    BY FollowUpInvariant, PTL
-----------------------------------------------------------------------------
\* The value of the abstract guard's variable in a state of the process.
RunsOf(s) == {r \in Requests : InFlight(r) /\ SessionOf[r] = s}
inFlightBar == [s \in Sessions |-> RunsOf(s)]

\* A step that leaves every request in or out of flight is a stutter.
LEMMA GuardStutter ==
    ASSUME \A q \in Requests : InFlight(q)' <=> InFlight(q)
    PROVE  UNCHANGED inFlightBar
    BY DEF inFlightBar, RunsOf

\* A request that leaves flight ends the one run of its session, if it has one.
LEMMA GuardEnd ==
    ASSUME InFlightHoldsSession, NEW r \in Requests, InFlight(r),
           \A q \in Requests : InFlight(q)' <=> q # r /\ InFlight(q)
    PROVE  \E S \in SUBSET Sessions : Guard!End(S)
<1> DEFINE S == Sessions \cap {SessionOf[r]}
<1>1. \A t \in S : RunsOf(t)' = {}
    <2> SUFFICES ASSUME NEW t \in S, NEW q \in Requests, InFlight(q)', SessionOf[q] = t
                 PROVE  FALSE
        BY DEF RunsOf
    <2>1. SessionOf[r] = t /\ t # NoSession
        BY RequestAssumption
    <2> QED
        BY <2>1 DEF InFlightHoldsSession
<1>2. \A t \in Sessions \ S : RunsOf(t)' = RunsOf(t)
    BY DEF RunsOf
<1>3. inFlightBar' = [t \in Sessions |-> IF t \in S THEN {} ELSE inFlightBar[t]]
    <2> HIDE DEF S
    <2>1. inFlightBar' = [t \in Sessions |-> RunsOf(t)']
        BY DEF inFlightBar
    <2>2. \A t \in Sessions : inFlightBar[t] = RunsOf(t)
        BY DEF inFlightBar
    <2> QED
        BY <1>1, <1>2, <2>1, <2>2
<1>4. Guard!End(S)
    BY <1>3 DEF Guard!End, inFlightBar, RunsOf
<1> QED
    BY <1>4

\* A request that enters flight is admitted by the abstract guard, or has no
\* session and is invisible to it.
LEMMA GuardAdmit ==
    ASSUME InFlightHoldsSession, NEW r \in Requests, ~InFlight(r),
           SessionOf[r] \notin sessions,
           \A q \in Requests : InFlight(q)' <=> q = r \/ InFlight(q)
    PROVE  [Guard!Next]_inFlightBar
<1> DEFINE s == SessionOf[r]
<1>1. CASE s = NoSession
    <2>1. \A t \in Sessions : RunsOf(t)' = RunsOf(t)
        BY <1>1, RequestAssumption DEF RunsOf
    <2> QED
        BY <2>1 DEF inFlightBar
<1>2. CASE s # NoSession
    <2>1. s \in Sessions
        BY <1>2, RequestAssumption
    <2>2. RunsOf(s) = {} /\ \A t \in Sessions : r \notin RunsOf(t)
        BY <1>2 DEF RunsOf, InFlightHoldsSession
    <2>3. RunsOf(s)' = {r}
        BY <2>2 DEF RunsOf
    <2>4. \A t \in Sessions \ {s} : RunsOf(t)' = RunsOf(t)
        BY DEF RunsOf
    <2>5. inFlightBar' = [inFlightBar EXCEPT ![s] = {r}]
        <3> HIDE DEF s
        <3>1. [inFlightBar EXCEPT ![s] = {r}]
                = [t \in Sessions |-> IF t = s THEN {r} ELSE RunsOf(t)]
            BY DEF inFlightBar
        <3>2. inFlightBar' = [t \in Sessions |-> RunsOf(t)']
            BY DEF inFlightBar
        <3> QED
            BY <2>3, <2>4, <3>1, <3>2
    <2>6. inFlightBar[s] = {} /\ \A t \in Sessions : r \notin inFlightBar[t]
        BY <2>1, <2>2 DEF inFlightBar
    <2>7. Guard!Admit(r, s)
        BY <2>5, <2>6 DEF Guard!Admit, inFlightBar, RunsOf
    <2> QED
        BY <2>1, <2>7 DEF Guard!Next
<1> QED
    BY <1>1, <1>2

\* Every step of the process is a step of the abstract guard or a stutter.
LEMMA GuardStep ==
    ASSUME TypeOK, InFlightHoldsSession, [Next]_vars
    PROVE  [Guard!Next]_inFlightBar
<1> DEFINE Goal == [Guard!Next]_inFlightBar
<1>1. (\E S \in SUBSET Sessions : Guard!End(S)) => Goal
    BY DEF Guard!Next
<1>2. UNCHANGED inFlightBar => Goal
    OBVIOUS
<1> HIDE DEF Goal
<1>3. ASSUME NEW r \in Requests, Answered(r) PROVE Goal
    <2>1. CASE pc[r] = "new"
        BY <1>2, <1>3, <2>1, GuardStutter DEF Answered, Answer, InFlight, TypeOK
    <2>2. CASE pc[r] = "accepted"
        BY <1>1, <1>3, <2>2, GuardEnd DEF Answered, Answer, InFlight, TypeOK
    <2> QED
        BY <1>3, <2>1, <2>2 DEF Answered
<1>4. ASSUME NEW r \in Requests, PooledRun(r) \/ Stream(r) PROVE Goal
    <2>1. /\ ~InFlight(r) /\ SessionOf[r] \notin sessions
          /\ \A q \in Requests : InFlight(q)' <=> q = r \/ InFlight(q)
        BY <1>4 DEF PooledRun, AdmitRun, Stream, AdmitStream, try_acquire, InFlight, TypeOK
    <2> QED
        BY <2>1, GuardAdmit DEF Goal
<1>5. ASSUME NEW r \in Requests, StartStream(r) PROVE Goal
    BY <1>2, <1>5, GuardStutter DEF StartStream, InFlight, TypeOK
<1>6. ASSUME NEW r \in Requests, Resumed(r) PROVE Goal
    <2>1. InFlight(r)
        BY <1>6 DEF Resumed, InFlight
    <2>2. \/ \A q \in Requests : InFlight(q)' <=> q # r /\ InFlight(q)
          \/ \A q \in Requests : InFlight(q)' <=> InFlight(q)
        BY <1>6, <2>1 DEF Resumed, Finish, Submit, InFlight, TypeOK
    <2> QED
        BY <1>1, <1>2, <2>1, <2>2, GuardEnd, GuardStutter
<1>7. ASSUME \/ StartJob \/ \E j \in Jobs : FinishJob(j)
             \/ BeginShutdown \/ PoolDrained \/ CloseStores \/ UNCHANGED vars
      PROVE  Goal
    <2>1. pc' = pc
        BY <1>7 DEF StartJob, FinishJob, BeginShutdown, PoolDrained, CloseStores, vars
    <2> QED
        BY <1>2, <2>1, GuardStutter DEF InFlight
<1>8. Goal
    BY <1>3, <1>4, <1>5, <1>6, <1>7, HandlerShape DEF Next
<1> QED
    BY <1>8 DEF Goal

\* The handlers over the in-memory registry implement the session guard that
\* the Redis registry implements too.
THEOREM GuardRefinement == Spec => ImplementsGuard
<1>1. Init => Guard!Init
    BY DEF Init, Guard!Init, InFlight
<1>2. RunInv /\ [Next]_vars => [Guard!Next]_inFlightBar
    BY GuardStep DEF RunInv
<1> QED
    BY <1>1, <1>2, RunInvariant, PTL
        DEF Spec, ImplementsGuard, Guard!Spec, inFlightBar, RunsOf
=============================================================================
