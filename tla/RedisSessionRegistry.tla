------------------------ MODULE RedisSessionRegistry ------------------------
(***************************************************************************)
(* The distributed in-flight session registry: several API replicas share  *)
(* one Redis, each replica keeps its own map from session to lock token.   *)
(* try_acquire and release are called from a replica's event loop without  *)
(* an await in between, so each is one step of that replica; steps of      *)
(* different replicas, lock expiry and crashes interleave freely.          *)
(*                                                                         *)
(* A token is a fresh uuid4 per try_acquire and a run calls try_acquire    *)
(* once, so the run stands for its token.                                  *)
(***************************************************************************)
EXTENDS Naturals

CONSTANTS
    Replicas,       \* API processes, each with its own RedisSessionRegistry
    Sessions,       \* session identifiers
    Runs,           \* the requests that carry a session_id
    HomeOf,         \* HomeOf[r]: the replica the request is routed to
    SessionOf,      \* SessionOf[r]: its session_id
    Outages,        \* the runs whose calls to Redis may raise
    LongRuns,       \* the runs that may take longer than ttl_seconds
    None            \* no token

ASSUME RoutingAssumption ==
    /\ HomeOf \in [Runs -> Replicas]
    /\ SessionOf \in [Runs -> Sessions]
    /\ None \notin Runs
ASSUME MisfortuneAssumption == Outages \subseteq Runs /\ LongRuns \subseteq Runs

VARIABLES
    phase,   \* phase[r]: where the run is, see Phases
    lock,    \* Redis: lock[s] is the value of key session-lock:<s>, or None
    tokens   \* tokens[p][s]: the _tokens entry of replica p

vars == <<phase, lock, tokens>>

\* "guarded": admitted because SET NX was answered; "open": admitted because
\* the call raised; "refused": answered 409; "lost": died with its replica.
Phases == {"new", "guarded", "open", "refused", "over", "lost"}
Running == {"guarded", "open"}
Token == Runs \cup {None}

TypeOK ==
    /\ phase \in [Runs -> Phases]
    /\ lock \in [Sessions -> Token]
    /\ tokens \in [Replicas -> [Sessions -> Token]]

Init ==
    /\ phase = [r \in Runs |-> "new"]
    /\ lock = [s \in Sessions |-> None]
    /\ tokens = [p \in Replicas |-> [s \in Sessions |-> None]]
-----------------------------------------------------------------------------
(* Plausible bugs, used to show that the properties are sensitive to them.  *)

\* SET without NX.
AcquiredWithoutNX(r) ==
    LET s == SessionOf[r] IN
    /\ phase[r] = "new"
    /\ phase' = [phase EXCEPT ![r] = "guarded"]
    /\ lock' = [lock EXCEPT ![s] = r]
    /\ tokens' = [tokens EXCEPT ![HomeOf[r]][s] = r]

\* What SET returned is remembered, not the token.
AcquiredKeepsReply(r) ==
    LET s == SessionOf[r] IN
    /\ phase[r] = "new"
    /\ lock[s] = None
    /\ phase' = [phase EXCEPT ![r] = "guarded"]
    /\ lock' = [lock EXCEPT ![s] = r]
    /\ tokens' = [tokens EXCEPT ![HomeOf[r]][s] = TRUE]

\* DEL instead of the script.
DeleteUnconditionally(s, token, l) == [l EXCEPT ![s] = None]

\* SET without EX: only the key of a run that ended goes away.
NeverExpires(s) ==
    /\ lock[s] # None
    /\ phase[lock[s]] \in {"over"}
    /\ lock' = [lock EXCEPT ![s] = None]
    /\ UNCHANGED <<phase, tokens>>
-----------------------------------------------------------------------------
\* SET NX EX succeeded: remember the token and run.
Acquired(r) ==
    LET s == SessionOf[r] IN
    /\ phase[r] = "new"
    /\ lock[s] = None
    /\ phase' = [phase EXCEPT ![r] = "guarded"]
    /\ lock' = [lock EXCEPT ![s] = r]
    /\ tokens' = [tokens EXCEPT ![HomeOf[r]][s] = r]

\* SET NX found the key: the handler answers 409.
Refused(r) ==
    /\ phase[r] = "new"
    /\ lock[SessionOf[r]] # None
    /\ phase' = [phase EXCEPT ![r] = "refused"]
    /\ UNCHANGED <<lock, tokens>>

\* The call raised: the run is allowed and no token is kept.  Redis may have
\* executed the SET before the reply was lost.
FailedOpen(r) ==
    LET s == SessionOf[r] IN
    /\ r \in Outages
    /\ phase[r] = "new"
    /\ phase' = [phase EXCEPT ![r] = "open"]
    /\ \/ UNCHANGED lock
       \/ lock[s] = None /\ lock' = [lock EXCEPT ![s] = r]
    /\ UNCHANGED tokens

try_acquire(r) == Acquired(r) \/ Refused(r) \/ FailedOpen(r)

\* _RELEASE_SCRIPT: compare-and-delete of key s against the token.
CompareAndDelete(s, token, l) ==
    IF l[s] = token THEN [l EXCEPT ![s] = None] ELSE l

\* The handler's finally block.  The token is popped first; without one the
\* method returns, and when the script raises the key is left to its TTL.
release(r) ==
    LET p == HomeOf[r]
        s == SessionOf[r]
        token == tokens[p][s]
    IN
    /\ phase[r] \in Running
    /\ phase' = [phase EXCEPT ![r] = "over"]
    /\ tokens' = [tokens EXCEPT ![p][s] = None]
    /\ \/ lock' = IF token = None THEN lock ELSE CompareAndDelete(s, token, lock)
       \/ r \in Outages /\ UNCHANGED lock

\* The key's TTL runs out, after the run that set the key has ended or died
\* unless the run takes longer than the TTL.
Expire(s) ==
    /\ lock[s] # None
    /\ phase[lock[s]] \in Running => lock[s] \in LongRuns
    /\ lock' = [lock EXCEPT ![s] = None]
    /\ UNCHANGED <<phase, tokens>>

\* A replica dies: its runs and its token map go with it, Redis keeps the keys.
Crash(p) ==
    /\ \E r \in Runs : HomeOf[r] = p /\ phase[r] \in Running
    /\ phase' = [r \in Runs |-> IF HomeOf[r] = p /\ phase[r] \in Running
                                THEN "lost" ELSE phase[r]]
    /\ tokens' = [tokens EXCEPT ![p] = [s \in Sessions |-> None]]
    /\ UNCHANGED lock

Next ==
    \/ \E r \in Runs : try_acquire(r) \/ release(r)
    \/ \E s \in Sessions : Expire(s)
    \/ \E p \in Replicas : Crash(p)

Spec == Init /\ [][Next]_vars

\* Every run ends (the handlers release in a finally block) and Redis expires
\* keys that have a TTL.  Nothing makes a replica crash or Redis fail.
Fairness ==
    /\ \A r \in Runs : WF_vars(release(r))
    /\ \A s \in Sessions : WF_vars(Expire(s))

FairSpec == Spec /\ Fairness
-----------------------------------------------------------------------------
RunningIn(s) == {r \in Runs : SessionOf[r] = s /\ phase[r] \in Running}

\* The sessions all of whose runs reach Redis and end before the TTL.
SteadySessions ==
    {s \in Sessions : \A r \in Runs : SessionOf[r] = s => r \notin Outages \cup LongRuns}

\* The guard's promise: at most one run of a session is in progress across
\* all replicas.  It needs a reachable Redis and a TTL longer than the runs of
\* that session; what happens to other sessions does not matter.
OneRunPerSession ==
    \A r, q \in Runs :
        /\ phase[r] \in Running
        /\ phase[q] \in Running
        /\ SessionOf[r] = SessionOf[q] /\ SessionOf[r] \in SteadySessions
        => r = q

\* The runs in progress of the steady sessions, as the runs in flight.
Guard == INSTANCE SessionGuard WITH
    Sessions <- SteadySessions,
    inFlight <- [s \in SteadySessions |-> RunningIn(s)]

\* Whatever crashes, and whatever happens to other sessions, the registry
\* implements the abstract guard for every steady session.
ImplementsGuard == Guard!Spec

\* "a replica never deletes a lock it no longer owns after expiry": the key a
\* release removes was set by the same replica, whatever expired or failed.
ReplicaDeletesOnlyItsLocks ==
    [][\A r \in Runs :
        (phase[r] \in Running /\ phase'[r] = "over")
            => LET s == SessionOf[r] IN
               \/ lock'[s] = lock[s]
               \/ HomeOf[lock[s]] = HomeOf[r]]_vars

\* "a crashed replica cannot hold a session forever": whatever crashes or
\* fails, the key of every session is free again and again.
NeverBlockedForever == \A s \in Sessions : []<>(lock[s] = None)
=============================================================================
