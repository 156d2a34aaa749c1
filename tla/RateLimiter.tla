---------------------------- MODULE RateLimiter ----------------------------
(***************************************************************************)
(* The sliding-window rate limiter behind rate_limit_middleware, with its  *)
(* two backends: RateLimiter keeps a deque of timestamps per key in the    *)
(* process and evicts idle keys now and then; RedisRateLimiter keeps a     *)
(* sorted set per key in Redis and lets every request through when Redis   *)
(* does not answer.  A key is a client (IP or token) at an endpoint.       *)
(*                                                                         *)
(* The middleware calls is_allowed on the event loop and the Redis backend *)
(* runs one script, so a request is one step.  In Redis the timestamp is   *)
(* time.time() of the replica that serves the request, read before the     *)
(* script runs: it lies up to Skew behind the clock of the specification,  *)
(* which is that of the replica furthest ahead, and timestamps arrive in   *)
(* any order.  Time is counted in the ticks that Lua prints of a           *)
(* timestamp.  A key that is not in _buckets, or not in Redis, is an empty *)
(* bucket: every reader treats them alike.                                 *)
(***************************************************************************)
EXTENDS Integers, Sequences

CONSTANTS
    Keys,           \* rate-limit keys, see _rate_limit_endpoint_key
    Backends,       \* the settings of RATE_LIMIT_BACKEND considered
    MaxRequests,    \* max_requests
    Window,         \* window_seconds
    Skew,           \* how far a replica's timestamp may lie behind the clock
    EvictInterval,  \* _EVICT_INTERVAL
    Outages,        \* keys during whose requests Redis may fail
    Bursts,         \* keys with several requests per tick whose members collide
    MaxTime,        \* bound on the clock, or NoBound
    MaxGrants,      \* bound on the requests granted per key, or NoBound
    NoBound

ASSUME LimitAssumption ==
    /\ MaxRequests \in Nat \ {0}
    /\ Window \in Nat \ {0}
    /\ Skew \in Nat
    /\ EvictInterval \in Nat \ {0}
ASSUME SettingAssumption ==
    /\ Backends \subseteq {"memory", "redis"}
    /\ Outages \subseteq Keys /\ Bursts \subseteq Keys
ASSUME BoundAssumption ==
    /\ NoBound \notin Nat
    /\ MaxTime \in Nat \cup {NoBound} /\ MaxGrants \in Nat \cup {NoBound}

VARIABLES
    backend,  \* fixed at startup by create_rate_limiter
    now,      \* the clock of the process, or of the replica furthest ahead
    buckets,  \* buckets[k]: the timestamps kept for k, oldest first
    calls,    \* _call_count
    granted,  \* history: granted[k], the times at which k was let through
    last      \* history: last[k], time and verdict of the last request of k

vars == <<backend, now, buckets, calls, granted, last>>

Verdicts == {"none", "allowed", "denied"}

TypeOK ==
    /\ backend \in Backends
    /\ now \in Nat
    /\ buckets \in [Keys -> Seq(Nat)]
    /\ calls \in Nat
    /\ granted \in [Keys -> Seq(Nat)]
    /\ last \in [Keys -> [at : Nat, verdict : Verdicts]]

Init ==
    /\ backend \in Backends
    /\ now = 0
    /\ buckets = [k \in Keys |-> <<>>]
    /\ calls = 0
    /\ granted = [k \in Keys |-> <<>>]
    /\ last = [k \in Keys |-> [at |-> 0, verdict |-> "none"]]

\* What time.monotonic() of the process, or time.time() of the replica that
\* serves the request, may have returned to a request that is decided now.
Lag == IF backend = "memory" THEN 0 ELSE Skew
Readings == {t \in 0..now : now - Lag <= t}

\* "bucket[0] < cutoff" of the deque, ZREMRANGEBYSCORE up to and with cutoff.
Expired(t, at) == IF backend = "memory" THEN t + Window < at ELSE t + Window <= at

Below(n, bound) == bound = NoBound \/ n < bound
-----------------------------------------------------------------------------
(* Plausible bugs, used to show that the properties are sensitive to them.  *)

\* A bucket is judged by its oldest timestamp.
EvictByOldest(bs) ==
    [k \in Keys |-> IF bs[k] = <<>> \/ Expired(bs[k][1], now) THEN <<>> ELSE bs[k]]

\* Only a bucket with room is pruned.
PruneWithRoom(b, n, at) ==
    IF Len(b) >= MaxRequests THEN n = 0
    ELSE /\ \A i \in 1..n : Expired(b[i], at)
         /\ n < Len(b) => ~Expired(b[n + 1], at)

\* A denied request is recorded as well.
RecordDenied(k, rest) ==
    /\ buckets' = [buckets EXCEPT ![k] = Append(rest, now)]
    /\ last' = [last EXCEPT ![k] = [at |-> now, verdict |-> "denied"]]
    /\ UNCHANGED <<calls, granted>>
-----------------------------------------------------------------------------
\* The loop "while bucket and bucket[0] < cutoff" drops the first n timestamps.
Prunes(b, n, at) ==
    /\ \A i \in 1..n : Expired(b[i], at)
    /\ n < Len(b) => ~Expired(b[n + 1], at)

Rest(b, n) == SubSeq(b, n + 1, Len(b))

\* _evict_stale: remove the keys whose newest timestamp is stale.
Evict(bs) ==
    [k \in Keys |->
        IF bs[k] = <<>> \/ Expired(bs[k][Len(bs[k])], now) THEN <<>> ELSE bs[k]]

\* The request goes on to the next middleware.
Grant(k) ==
    /\ granted' = [granted EXCEPT ![k] = Append(@, now)]
    /\ last' = [last EXCEPT ![k] = [at |-> now, verdict |-> "allowed"]]

\* 429 with Retry-After; nothing is recorded, the pruned bucket is kept.
Deny(k, rest) ==
    /\ buckets' = [buckets EXCEPT ![k] = rest]
    /\ last' = [last EXCEPT ![k] = [at |-> now, verdict |-> "denied"]]
    /\ UNCHANGED <<calls, granted>>

\* The timestamp is kept, and every EvictInterval-th time idle keys are evicted.
Remember(k, rest) ==
    LET bs == [buckets EXCEPT ![k] = Append(rest, now)] IN
    /\ Grant(k)
    /\ calls' = calls + 1
    /\ buckets' = IF calls' % EvictInterval = 0 THEN Evict(bs) ELSE bs

\* RateLimiter.is_allowed.
AllowedInMemory(k) ==
    /\ backend = "memory"
    /\ Below(Len(granted[k]), MaxGrants)
    /\ \E n \in 0..Len(buckets[k]) :
        /\ Prunes(buckets[k], n, now)
        /\ LET rest == Rest(buckets[k], n) IN
           IF Len(rest) >= MaxRequests THEN Deny(k, rest) ELSE Remember(k, rest)
    /\ UNCHANGED <<backend, now>>

\* A sorted set keeps its scores in order: t goes after the first p of them.
Belongs(b, t, p) ==
    /\ \A i \in 1..p : b[i] <= t
    /\ p < Len(b) => t < b[p + 1]

Inserted(b, t, p) ==
    [i \in 1..(Len(b) + 1) |->
        IF i <= p THEN b[i] ELSE IF i = p + 1 THEN t ELSE b[i - 1]]

\* ZADD of a member made of the printed time and math.random, which Redis seeds
\* alike for every script: the member of a request in the same tick may be there.
Added(k, rest, t) ==
    {Inserted(rest, t, p) : p \in {q \in 0..Len(rest) : Belongs(rest, t, q)}} \cup
        IF k \in Bursts /\ \E i \in 1..Len(rest) : rest[i] = t THEN {rest} ELSE {}

\* _LUA_SCRIPT: what the key may hold after it.
AfterScript(k, rest, t) ==
    IF Len(rest) >= MaxRequests THEN {rest} ELSE Added(k, rest, t)

\* RedisRateLimiter.is_allowed.
AllowedInRedis(k) ==
    /\ backend = "redis"
    /\ Below(Len(granted[k]), MaxGrants)
    /\ \E t \in Readings, n \in 0..Len(buckets[k]) :
        /\ Prunes(buckets[k], n, t)
        /\ LET rest == Rest(buckets[k], n) IN
           IF Len(rest) >= MaxRequests
           THEN Deny(k, rest)
           ELSE /\ Grant(k)
                /\ \E b \in AfterScript(k, rest, t) : buckets' = [buckets EXCEPT ![k] = b]
                /\ UNCHANGED calls
    /\ UNCHANGED <<backend, now>>

\* The call raised: the request is let through.  Redis may have run the script
\* before the reply was lost.
FailedOpen(k) ==
    /\ backend = "redis" /\ k \in Outages
    /\ Below(Len(granted[k]), MaxGrants)
    /\ Grant(k)
    /\ \/ UNCHANGED buckets
       \/ \E t \in Readings, n \in 0..Len(buckets[k]) :
            /\ Prunes(buckets[k], n, t)
            /\ \E b \in AfterScript(k, Rest(buckets[k], n), t) :
                buckets' = [buckets EXCEPT ![k] = b]
    /\ UNCHANGED <<backend, now, calls>>

\* RedisRateLimiter.remaining prunes what it counts.
Remaining(k) ==
    /\ backend = "redis"
    /\ \E t \in Readings, n \in 1..Len(buckets[k]) :
        /\ Prunes(buckets[k], n, t)
        /\ buckets' = [buckets EXCEPT ![k] = Rest(@, n)]
    /\ UNCHANGED <<backend, now, calls, granted, last>>

\* EXPIRE of ceil(window) + 1 seconds after the last addition, which is no
\* earlier than this.
KeyExpires(k) ==
    /\ backend = "redis" /\ buckets[k] # <<>>
    /\ buckets[k][Len(buckets[k])] + Window + 1 <= now
    /\ buckets' = [buckets EXCEPT ![k] = <<>>]
    /\ UNCHANGED <<backend, now, calls, granted, last>>

Tick ==
    /\ Below(now, MaxTime)
    /\ now' = now + 1
    /\ UNCHANGED <<backend, buckets, calls, granted, last>>

Next ==
    \/ \E k \in Keys :
        \/ AllowedInMemory(k) \/ AllowedInRedis(k) \/ FailedOpen(k)
        \/ Remaining(k) \/ KeyExpires(k)
    \/ Tick

Spec == Init /\ [][Next]_vars
-----------------------------------------------------------------------------
Steady(k) == backend = "memory" \/ k \notin Outages \cup Bursts

\* "Maximum requests permitted per IP within the window": of any MaxRequests + 1
\* requests granted in a row, the first has left the window of the last, through
\* prunings, evictions, the expiry of idle keys and timestamps that arrive out of
\* order.  Replicas whose clocks differ shorten the window by that difference.
WindowLimit ==
    \A k \in Keys : Steady(k) =>
        \A i \in 1..(Len(granted[k]) - MaxRequests) :
            LET span == granted[k][i + MaxRequests] - granted[k][i] IN
            IF backend = "memory" THEN span > Window ELSE span >= Window - Skew

\* A client is denied only when MaxRequests of its requests were granted within
\* the window (and the replicas' difference): no outage, collision or denied
\* request is held against it.
DenialJustified ==
    \A k \in Keys : last[k].verdict = "denied" =>
        /\ Len(granted[k]) >= MaxRequests
        /\ granted[k][Len(granted[k]) - MaxRequests + 1] + Window + Lag >= last[k].at

\* The Retry-After of a 429 is honest: a client that waits for longer than the
\* window (and the replicas' difference) after it was denied is let through.
RetryAfterWorks ==
    [][\A k \in Keys :
        /\ last[k].verdict = "denied"
        /\ last[k].at + Window + Lag < now
        /\ last'[k] # last[k]
        => last'[k].verdict = "allowed"]_vars
=============================================================================
