--------------------- MODULE RedisSessionRegistryProofs ---------------------
(* Proofs about the Redis session registry, for every number of replicas,   *)
(* sessions and runs and every routing of runs to replicas.                 *)
EXTENDS RedisSessionRegistry, TLAPS

\* A release deletes at most the key of the run's session.
LEMMA CompareAndDeleteType ==
    ASSUME NEW l \in [Sessions -> Token], NEW s \in Sessions, NEW t \in Token
    PROVE  /\ CompareAndDelete(s, t, l) \in [Sessions -> Token]
           /\ \A u \in Sessions \ {s} : CompareAndDelete(s, t, l)[u] = l[u]
           /\ CompareAndDelete(s, t, l)[s] # l[s] => l[s] = t
    BY DEF CompareAndDelete, Token

\* Writing one entry of one replica's token map.
LEMMA TokensUpdate ==
    ASSUME NEW m \in [Replicas -> [Sessions -> Token]],
           NEW p \in Replicas, NEW s \in Sessions, NEW t \in Token
    PROVE  /\ [m EXCEPT ![p][s] = t] \in [Replicas -> [Sessions -> Token]]
           /\ [m EXCEPT ![p][s] = t][p][s] = t
    <1>1. [m[p] EXCEPT ![s] = t] \in [Sessions -> Token]
        OBVIOUS
    <1>2. [m EXCEPT ![p][s] = t] = [m EXCEPT ![p] = [m[p] EXCEPT ![s] = t]]
        OBVIOUS
    <1> QED
        BY <1>1, <1>2

\* The registry's state stays well typed.
THEOREM TypeCorrect == Spec => []TypeOK
<1>1. Init => TypeOK
    BY DEF Init, TypeOK, Phases, Token
<1>2. TypeOK /\ [Next]_vars => TypeOK'
    <2> SUFFICES ASSUME TypeOK, [Next]_vars PROVE TypeOK'
        OBVIOUS
    <2> USE RoutingAssumption DEF TypeOK
    <2>1. ASSUME NEW r \in Runs, try_acquire(r) PROVE TypeOK'
        <3>1. CASE Acquired(r)
            <4>1. tokens' \in [Replicas -> [Sessions -> Token]]
                BY <3>1, TokensUpdate DEF Acquired, Token
            <4> QED
                BY <3>1, <4>1 DEF Acquired, Phases, Token
        <3>2. CASE Refused(r)
            BY <3>2 DEF Refused, Phases
        <3>3. CASE FailedOpen(r)
            BY <3>3 DEF FailedOpen, Phases, Token
        <3> QED
            BY <2>1, <3>1, <3>2, <3>3 DEF try_acquire
    <2>2. ASSUME NEW r \in Runs, release(r) PROVE TypeOK'
        <3>1. tokens' \in [Replicas -> [Sessions -> Token]]
            BY <2>2, TokensUpdate DEF release, Token
        <3>2. phase' \in [Runs -> Phases]
            BY <2>2 DEF release, Phases
        <3>3. lock' \in [Sessions -> Token]
            BY <2>2, CompareAndDeleteType DEF release, Token
        <3> QED
            BY <3>1, <3>2, <3>3
    <2>3. ASSUME NEW s \in Sessions, Expire(s) PROVE TypeOK'
        BY <2>3 DEF Expire, Token
    <2>4. ASSUME NEW p \in Replicas, Crash(p) PROVE TypeOK'
        BY <2>4 DEF Crash, Phases, Token
    <2>5. CASE UNCHANGED vars
        BY <2>5 DEF vars
    <2> QED
        BY <2>1, <2>2, <2>3, <2>4, <2>5 DEF Next
<1> QED
    BY <1>1, <1>2, PTL DEF Spec
-----------------------------------------------------------------------------
\* Without outages no run is admitted unguarded, and with runs shorter than
\* the TTL a guarded run finds its own token in Redis.
GuardedOwnLock ==
    \A r \in Runs :
        SessionOf[r] \in SteadySessions =>
            /\ phase[r] # "open"
            /\ phase[r] = "guarded" => lock[SessionOf[r]] = r

\* The runs of a steady session meet no outage and end within the TTL.
LEMMA SteadyRuns ==
    ASSUME NEW r \in Runs, SessionOf[r] \in SteadySessions
    PROVE  r \notin Outages /\ r \notin LongRuns /\ SessionOf[r] \in Sessions
    BY DEF SteadySessions

\* What a guarded run of a steady session finds in Redis is preserved by every
\* step: no other run's release, expiry or crash touches its key.
LEMMA GuardedOwnLockInvariant == Spec => []GuardedOwnLock
<1>1. Init => GuardedOwnLock
    BY DEF Init, GuardedOwnLock
<1>2. TypeOK /\ GuardedOwnLock /\ [Next]_vars => GuardedOwnLock'
    <2> SUFFICES ASSUME TypeOK, GuardedOwnLock, [Next]_vars
                 PROVE  GuardedOwnLock'
        OBVIOUS
    <2> USE RoutingAssumption DEF TypeOK, GuardedOwnLock
    <2>1. ASSUME NEW r \in Runs, try_acquire(r) PROVE GuardedOwnLock'
        <3>1. CASE Acquired(r)
            BY <3>1 DEF Acquired
        <3>2. CASE Refused(r)
            BY <3>2 DEF Refused
        <3>3. CASE FailedOpen(r)
            <4>1. SessionOf[r] \notin SteadySessions
                BY <3>3, SteadyRuns DEF FailedOpen
            <4> QED
                BY <3>3, <4>1 DEF FailedOpen
        <3> QED
            BY <2>1, <3>1, <3>2, <3>3 DEF try_acquire
    <2>2. ASSUME NEW r \in Runs, release(r) PROVE GuardedOwnLock'
        <3> DEFINE s == SessionOf[r]
        <3>1. s \in SteadySessions => lock[s] = r
            BY <2>2 DEF release, Running
        <3>2. \A u \in Sessions \ {s} : lock'[u] = lock[u]
            <4>1. tokens[HomeOf[r]][s] \in Token /\ s \in Sessions
                OBVIOUS
            <4> QED
                BY <2>2, <4>1, CompareAndDeleteType DEF release
        <3>3. \A q \in Runs \ {r} : phase'[q] = phase[q]
            BY <2>2 DEF release
        <3>4. \A q \in Runs \ {r} :
                SessionOf[q] \in SteadySessions /\ phase[q] = "guarded" => SessionOf[q] # s
            BY <3>1
        <3>5. phase'[r] = "over"
            BY <2>2 DEF release
        <3> QED
            BY <3>2, <3>3, <3>4, <3>5
    <2>3. ASSUME NEW s \in Sessions, Expire(s) PROVE GuardedOwnLock'
        BY <2>3, SteadyRuns DEF Expire, Running
    <2>4. ASSUME NEW p \in Replicas, Crash(p) PROVE GuardedOwnLock'
        BY <2>4 DEF Crash, Running
    <2>5. CASE UNCHANGED vars
        BY <2>5 DEF vars
    <2> QED
        BY <2>1, <2>2, <2>3, <2>4, <2>5 DEF Next
<1> QED
    BY <1>1, <1>2, TypeCorrect, PTL DEF Spec

\* Two runs that both find their own token under one key are the same run.
LEMMA GuardedImpliesExclusive ==
    GuardedOwnLock => OneRunPerSession
    BY DEF GuardedOwnLock, OneRunPerSession, Running

\* With Redis reachable and a TTL that covers the runs of a session, at most
\* one of them is in progress across all replicas (try_acquire and release).
THEOREM MutualExclusion == Spec => []OneRunPerSession
    BY GuardedOwnLockInvariant, GuardedImpliesExclusive, PTL
-----------------------------------------------------------------------------
inFlightBar == [s \in SteadySessions |-> RunningIn(s)]

\* Each step of the registry is an admission, an end, or nothing to the guard.
LEMMA StepSimulation ==
    ASSUME TypeOK, GuardedOwnLock, [Next]_vars
    PROVE  [Guard!Next]_inFlightBar
<1> USE RoutingAssumption DEF TypeOK, GuardedOwnLock, inFlightBar, RunningIn, Running
<1>0. SteadySessions \subseteq Sessions
    BY DEF SteadySessions
<1>1. ASSUME NEW r \in Runs, Acquired(r), SessionOf[r] \in SteadySessions
      PROVE  Guard!Admit(r, SessionOf[r])
    <2> DEFINE s == SessionOf[r]
    <2>1. RunningIn(s) = {}
        BY <1>1 DEF Acquired
    <2>2. \A t \in SteadySessions : r \notin RunningIn(t)
        BY <1>1 DEF Acquired
    <2>3. \A q \in Runs : phase'[q] \in Running <=> q = r \/ phase[q] \in Running
        BY <1>1 DEF Acquired
    <2>4. RunningIn(s)' = {r}
        BY <2>1, <2>3
    <2>5. \A t \in SteadySessions \ {s} : RunningIn(t)' = RunningIn(t)
        BY <2>3
    <2>6. inFlightBar' = [inFlightBar EXCEPT ![s] = {r}]
        <3> HIDE DEF RunningIn, Running, inFlightBar
        <3>1. [inFlightBar EXCEPT ![s] = {r}]
                = [t \in SteadySessions |-> IF t = s THEN {r} ELSE RunningIn(t)]
            BY DEF inFlightBar
        <3>2. inFlightBar' = [t \in SteadySessions |-> RunningIn(t)']
            BY DEF inFlightBar
        <3> QED
            BY <2>4, <2>5, <3>1, <3>2
    <2> QED
        BY <1>1, <2>1, <2>2, <2>6 DEF Guard!Admit
<1>2. ASSUME NEW r \in Runs, Refused(r) PROVE UNCHANGED inFlightBar
    <2>1. \A q \in Runs : phase'[q] \in Running <=> phase[q] \in Running
        BY <1>2 DEF Refused
    <2> QED
        BY <2>1
\* Another session's run comes or goes: the guard sees nothing.
<1>3. ASSUME NEW r \in Runs, SessionOf[r] \notin SteadySessions,
             \A q \in Runs \ {r} : phase'[q] = phase[q]
      PROVE  UNCHANGED inFlightBar
    <2>1. \A t \in SteadySessions : RunningIn(t)' = RunningIn(t)
        BY <1>3
    <2> QED
        BY <2>1
<1>4. ASSUME NEW r \in Runs, release(r), SessionOf[r] \in SteadySessions
      PROVE  Guard!End({SessionOf[r]})
    <2> DEFINE s == SessionOf[r]
    <2>1. \A q \in Runs : phase'[q] \in Running <=> q # r /\ phase[q] \in Running
        BY <1>4 DEF release
    <2>2. \A q \in Runs : phase[q] \in Running /\ SessionOf[q] = s => q = r
        BY <1>4 DEF release
    <2>3. RunningIn(s)' = {}
        BY <2>1, <2>2
    <2>4. \A t \in SteadySessions \ {s} : RunningIn(t)' = RunningIn(t)
        BY <2>1
    <2>5. inFlightBar' = [t \in SteadySessions |-> IF t \in {s} THEN {} ELSE inFlightBar[t]]
        BY <2>3, <2>4
    <2> QED
        BY <2>5 DEF Guard!End
<1>5. ASSUME NEW s \in Sessions, Expire(s) PROVE UNCHANGED inFlightBar
    BY <1>5 DEF Expire
<1>6. ASSUME NEW p \in Replicas, Crash(p)
      PROVE  \E S \in SUBSET SteadySessions : Guard!End(S)
    <2> DEFINE S == {t \in SteadySessions : \E q \in RunningIn(t) : HomeOf[q] = p}
    <2>1. \A q \in Runs : phase'[q] \in Running
                            <=> phase[q] \in Running /\ HomeOf[q] # p
        BY <1>6 DEF Crash
    <2>2. \A t \in S : RunningIn(t)' = {}
        <3> SUFFICES ASSUME NEW t \in S, NEW q \in Runs,
                            SessionOf[q] = t, phase'[q] \in Running
                     PROVE  FALSE
            OBVIOUS
        <3>1. PICK o \in RunningIn(t) : HomeOf[o] = p
            OBVIOUS
        <3>2. o = q
            BY <3>1, <2>1
        <3> QED
            BY <3>1, <3>2, <2>1
    <2>3. \A t \in SteadySessions \ S : RunningIn(t)' = RunningIn(t)
        BY <2>1
    <2>4. inFlightBar' = [t \in SteadySessions |-> IF t \in S THEN {} ELSE inFlightBar[t]]
        BY <2>2, <2>3
    <2> QED
        BY <2>4 DEF Guard!End
<1>7. CASE UNCHANGED vars
    BY <1>7 DEF vars
<1>8. ASSUME NEW r \in Runs, FailedOpen(r) PROVE UNCHANGED inFlightBar
    <2>1. SessionOf[r] \notin SteadySessions
        BY <1>8, SteadyRuns DEF FailedOpen
    <2> QED
        BY <1>3, <1>8, <2>1 DEF FailedOpen
<1>9. ASSUME NEW r \in Runs, Acquired(r) \/ release(r), SessionOf[r] \notin SteadySessions
      PROVE  UNCHANGED inFlightBar
    BY <1>3, <1>9 DEF Acquired, release
<1> HIDE DEF TypeOK, GuardedOwnLock, inFlightBar, RunningIn, Running
<1>10. ASSUME NEW r \in Runs, try_acquire(r) \/ release(r)
       PROVE  [Guard!Next]_inFlightBar
    BY <1>0, <1>1, <1>2, <1>4, <1>8, <1>9, <1>10 DEF try_acquire, Guard!Next
<1> QED
    BY <1>5, <1>6, <1>7, <1>10 DEF Next, Guard!Next

\* With Redis reachable and a TTL that covers its runs, the registry implements
\* the abstract guard for a session, whatever happens to the others.
THEOREM GuardRefinement == Spec => ImplementsGuard
<1>1. Init => Guard!Init
    BY DEF Init, Guard!Init, RunningIn, Running
<1>2. ASSUME TypeOK, GuardedOwnLock, [Next]_vars PROVE [Guard!Next]_inFlightBar
    BY <1>2, StepSimulation
<1>3. TypeOK /\ GuardedOwnLock /\ [Next]_vars => [Guard!Next]_inFlightBar
    BY <1>2
<1> QED
    BY <1>1, <1>3, TypeCorrect, GuardedOwnLockInvariant, PTL
        DEF Spec, ImplementsGuard, Guard!Spec, inFlightBar
-----------------------------------------------------------------------------
\* A replica's token map holds only tokens of runs it admitted itself.
TokensAreLocal ==
    \A p \in Replicas, s \in Sessions :
        tokens[p][s] # None => /\ HomeOf[tokens[p][s]] = p
                               /\ SessionOf[tokens[p][s]] = s

\* try_acquire stores only its own token, so the maps stay local.
LEMMA TokensAreLocalInvariant == Spec => []TokensAreLocal
<1>1. Init => TokensAreLocal
    BY DEF Init, TokensAreLocal
<1>2. TypeOK /\ TokensAreLocal /\ [Next]_vars => TokensAreLocal'
    <2> SUFFICES ASSUME TypeOK, TokensAreLocal, [Next]_vars
                 PROVE  TokensAreLocal'
        OBVIOUS
    <2> USE RoutingAssumption DEF TypeOK, TokensAreLocal
    <2>1. ASSUME NEW r \in Runs, try_acquire(r) PROVE TokensAreLocal'
        BY <2>1 DEF try_acquire, Acquired, Refused, FailedOpen
    <2>2. ASSUME NEW r \in Runs, release(r) PROVE TokensAreLocal'
        BY <2>2 DEF release
    <2>3. ASSUME NEW s \in Sessions, Expire(s) PROVE TokensAreLocal'
        BY <2>3 DEF Expire
    <2>4. ASSUME NEW p \in Replicas, Crash(p) PROVE TokensAreLocal'
        BY <2>4 DEF Crash
    <2>5. CASE UNCHANGED vars
        BY <2>5 DEF vars
    <2> QED
        BY <2>1, <2>2, <2>3, <2>4, <2>5 DEF Next
<1> QED
    BY <1>1, <1>2, TypeCorrect, PTL DEF Spec

\* The token guard works at the level of replicas in every configuration: a
\* release never removes a key another replica set, even after expiry.
THEOREM ReplicaOwnership == Spec => ReplicaDeletesOnlyItsLocks
<1> DEFINE
    A == \A r \in Runs :
            (phase[r] \in Running /\ phase'[r] = "over")
                => LET s == SessionOf[r] IN
                   \/ lock'[s] = lock[s]
                   \/ HomeOf[lock[s]] = HomeOf[r]
<1>1. TypeOK /\ TokensAreLocal /\ [Next]_vars => [A]_vars
    <2> SUFFICES ASSUME TypeOK, TokensAreLocal, Next,
                        NEW r \in Runs, phase[r] \in Running, phase'[r] = "over",
                        lock'[SessionOf[r]] # lock[SessionOf[r]]
                 PROVE  HomeOf[lock[SessionOf[r]]] = HomeOf[r]
        OBVIOUS
    <2> USE RoutingAssumption DEF TypeOK, TokensAreLocal
    <2>1. ASSUME NEW q \in Runs, try_acquire(q) PROVE FALSE
        BY <2>1 DEF try_acquire, Acquired, Refused, FailedOpen, Running
    <2>2. ASSUME NEW q \in Runs, release(q)
          PROVE  HomeOf[lock[SessionOf[r]]] = HomeOf[r]
        <3>1. q = r
            BY <2>2 DEF release, Running
        <3> QED
            BY <2>2, <3>1, CompareAndDeleteType DEF release, Token
    <2>3. ASSUME NEW s \in Sessions, Expire(s) PROVE FALSE
        BY <2>3 DEF Expire, Running
    <2>4. ASSUME NEW p \in Replicas, Crash(p) PROVE FALSE
        BY <2>4 DEF Crash, Running
    <2> QED
        BY <2>1, <2>2, <2>3, <2>4 DEF Next
<1> QED
    BY <1>1, TypeCorrect, TokensAreLocalInvariant, PTL
        DEF Spec, ReplicaDeletesOnlyItsLocks
=============================================================================
