-------------------------- MODULE RateLimiterProofs --------------------------
(* Proofs about the rate limiter, for every limit, window, eviction         *)
(* interval, clock skew and set of keys, and for both backends.             *)
EXTENDS RateLimiter, TLAPS

\* What is left of a bucket after its first n timestamps are dropped.
LEMMA RestShape ==
    ASSUME NEW b \in Seq(Nat), NEW n \in 0..Len(b)
    PROVE  /\ Rest(b, n) \in Seq(Nat)
           /\ Len(Rest(b, n)) = Len(b) - n
           /\ \A i \in 1..(Len(b) - n) : Rest(b, n)[i] = b[n + i]
    BY DEF Rest

\* A timestamp is added at the end.
LEMMA AppendShape ==
    ASSUME NEW s \in Seq(Nat), NEW t \in Nat
    PROVE  /\ Append(s, t) \in Seq(Nat)
           /\ Len(Append(s, t)) = Len(s) + 1
           /\ \A i \in 1..Len(s) : Append(s, t)[i] = s[i]
           /\ Append(s, t)[Len(s) + 1] = t
    OBVIOUS
-----------------------------------------------------------------------------
\* A reading of a clock is a time in the past, by at most Lag.
LEMMA ReadingBounds ==
    ASSUME now \in Nat, NEW t \in Readings
    PROVE  /\ t \in Nat /\ t <= now /\ now <= t + Lag /\ Lag \in Nat
           /\ backend = "memory" => t = now
    BY LimitAssumption DEF Readings, Lag

\* The clock itself is one.
LEMMA NowIsReading ==
    ASSUME now \in Nat
    PROVE  now \in Readings
    BY LimitAssumption DEF Readings, Lag

\* What is stale for a replica is stale by the clock.
LEMMA StaleNow ==
    ASSUME now \in Nat, NEW t \in Readings, NEW x \in Nat, Expired(x, t)
    PROVE  Expired(x, now)
    BY ReadingBounds, LimitAssumption DEF Expired

\* b, of length m, with t added behind its first p timestamps.
Grown(b, m, t, p, c) ==
    /\ c \in Seq(Nat) /\ Len(c) = m + 1
    /\ \A i \in 1..p : c[i] = b[i] /\ b[i] <= t
    /\ c[p + 1] = t
    /\ \A i \in (p + 1)..m : c[i + 1] = b[i] /\ t <= b[i]

\* What a step may do to one key: drop a stale prefix of its bucket, and then
\* nothing more, deny the key, or grant it a request with or without record.
Drops(k, n) == \A i \in 1..n : Expired(buckets[k][i], now)

Quiet(k, n) ==
    /\ buckets'[k] = Rest(buckets[k], n)
    /\ granted'[k] = granted[k] /\ last'[k] = last[k]

Denied(k, n) ==
    /\ \E t \in Readings : Prunes(buckets[k], n, t)
    /\ Len(Rest(buckets[k], n)) >= MaxRequests
    /\ buckets'[k] = Rest(buckets[k], n)
    /\ granted'[k] = granted[k]
    /\ last'[k] = [at |-> now, verdict |-> "denied"]

Recorded(k, n) ==
    /\ Len(Rest(buckets[k], n)) < MaxRequests
    /\ \E t \in Readings, p \in 0..Len(Rest(buckets[k], n)) :
        Grown(Rest(buckets[k], n), Len(Rest(buckets[k], n)), t, p, buckets'[k])
    /\ granted'[k] = Append(granted[k], now)
    /\ last'[k] = [at |-> now, verdict |-> "allowed"]

Unrecorded(k, n) ==
    /\ ~Steady(k)
    /\ buckets'[k] = Rest(buckets[k], n)
    /\ granted'[k] = Append(granted[k], now)
    /\ last'[k] = [at |-> now, verdict |-> "allowed"]

KeyStep(k, n) ==
    /\ Drops(k, n)
    /\ Quiet(k, n) \/ Denied(k, n) \/ Recorded(k, n) \/ Unrecorded(k, n)

\* The l timestamps of s are in order and lie in the past.
InOrder(s, l) ==
    /\ \A i \in 1..l : s[i] \in Nat /\ s[i] <= now
    /\ \A i, j \in 1..l : i <= j => s[i] <= s[j]

\* Keeping a whole bucket is dropping nothing of it.
LEMMA RestOfNothing ==
    ASSUME NEW b \in Seq(Nat)
    PROVE  Rest(b, 0) = b /\ Rest(b, Len(b)) = <<>>
    BY DEF Rest

\* What a request prunes is stale.
LEMMA PruneDrops ==
    ASSUME TypeOK, NEW k \in Keys, NEW n \in 0..Len(buckets[k]), NEW t \in Readings,
           Prunes(buckets[k], n, t)
    PROVE  Drops(k, n)
<1>1. buckets[k] \in Seq(Nat) /\ now \in Nat
    BY DEF TypeOK
<1>2. \A i \in 1..n : buckets[k][i] \in Nat
    BY <1>1
<1>3. \A i \in 1..n : Expired(buckets[k][i], t)
    BY DEF Prunes
<1> QED
    BY <1>1, <1>2, <1>3, StaleNow DEF Drops

\* A sorted set stays a sequence of timestamps.
LEMMA InsertedShape ==
    ASSUME NEW b \in Seq(Nat), NEW t \in Nat, NEW p \in 0..Len(b)
    PROVE  /\ Inserted(b, t, p) \in Seq(Nat) /\ Len(Inserted(b, t, p)) = Len(b) + 1
           /\ \A i \in 1..(Len(b) + 1) : Inserted(b, t, p)[i] =
                IF i <= p THEN b[i] ELSE IF i = p + 1 THEN t ELSE b[i - 1]
<1> DEFINE c == Inserted(b, t, p)
<1>1. Len(b) \in Nat /\ \A i \in 1..Len(b) : b[i] \in Nat
    OBVIOUS
<1>2. \A i \in 1..(Len(b) + 1) :
        c[i] = IF i <= p THEN b[i] ELSE IF i = p + 1 THEN t ELSE b[i - 1]
    BY DEF Inserted
<1>3. ASSUME NEW i \in 1..(Len(b) + 1) PROVE c[i] \in Nat
    <2>1. i <= p => i \in 1..Len(b)
        BY <1>1
    <2>2. i > p + 1 => i - 1 \in 1..Len(b)
        BY <1>1
    <2>3. i <= p \/ i = p + 1 \/ i > p + 1
        BY <1>1
    <2> HIDE DEF c
    <2> QED
        BY <1>1, <1>2, <2>1, <2>2, <2>3
<1>4. c \in [1..(Len(b) + 1) -> Nat]
    BY <1>3 DEF Inserted
<1>5. DOMAIN c = 1..(Len(b) + 1)
    BY DEF Inserted
<1>6. c \in Seq(Nat) /\ Len(c) = Len(b) + 1
    <2> HIDE DEF c
    <2> QED
        BY <1>1, <1>4, <1>5
<1> QED
    BY <1>2, <1>6

\* A bucket in order grows by appending the latest time or by a sorted insertion.
LEMMA Growth ==
    ASSUME now \in Nat, NEW b \in Seq(Nat), InOrder(b, Len(b))
    PROVE  /\ Grown(b, Len(b), now, Len(b), Append(b, now))
           /\ \A t \in Readings : \A p \in 0..Len(b) :
                Belongs(b, t, p) => Grown(b, Len(b), t, p, Inserted(b, t, p))
<1>0. Len(b) \in Nat /\ \A i \in 1..Len(b) : b[i] \in Nat /\ b[i] <= now
    BY DEF InOrder
<1>1. Grown(b, Len(b), now, Len(b), Append(b, now))
    <2>1. \A i \in (Len(b) + 1)..Len(b) : FALSE
        BY <1>0
    <2> QED
        BY <1>0, <2>1, AppendShape DEF Grown
<1>2. ASSUME NEW t \in Readings, NEW p \in 0..Len(b), Belongs(b, t, p)
      PROVE  Grown(b, Len(b), t, p, Inserted(b, t, p))
    <2> DEFINE c == Inserted(b, t, p)
    <2>1. t \in Nat
        BY ReadingBounds
    <2>2. /\ c \in Seq(Nat) /\ Len(c) = Len(b) + 1
          /\ \A i \in 1..(Len(b) + 1) :
            c[i] = IF i <= p THEN b[i] ELSE IF i = p + 1 THEN t ELSE b[i - 1]
        BY <2>1, InsertedShape
    <2>5. \A i \in 1..p : c[i] = b[i] /\ b[i] <= t
        <3> HIDE DEF c
        <3> QED
            BY <1>0, <1>2, <2>2 DEF Belongs
    <2>6. c[p + 1] = t
        <3> HIDE DEF c
        <3> QED
            BY <1>0, <2>2
    <2>7. ASSUME NEW i \in (p + 1)..Len(b) PROVE c[i + 1] = b[i] /\ t <= b[i]
        <3>1. /\ i + 1 \in 1..(Len(b) + 1) /\ ~(i + 1 <= p) /\ i + 1 # p + 1
              /\ (i + 1) - 1 = i /\ p < Len(b) /\ i \in 1..Len(b) /\ p + 1 \in 1..Len(b)
              /\ p + 1 <= i
            BY <1>0
        <3>2. t < b[p + 1] /\ b[p + 1] <= b[i]
            BY <1>2, <3>1 DEF Belongs, InOrder
        <3>3. t <= b[i]
            BY <1>0, <2>1, <3>1, <3>2
        <3> HIDE DEF c
        <3> QED
            BY <2>2, <3>1, <3>3
    <2> HIDE DEF c
    <2>8. Grown(b, Len(b), t, p, c)
        BY <2>2, <2>5, <2>6, <2>7 DEF Grown
    <2> QED
        BY <2>8 DEF c
<1> QED
    BY <1>1, <1>2

\* Of a bucket in order, what is left after pruning is in order.
LEMMA RestInOrder ==
    ASSUME NEW b \in Seq(Nat), NEW n \in 0..Len(b), InOrder(b, Len(b))
    PROVE  InOrder(Rest(b, n), Len(Rest(b, n)))
<1> DEFINE c == Rest(b, n)
<1>0. Len(b) \in Nat
    OBVIOUS
<1>1. /\ Len(c) = Len(b) - n
      /\ \A i \in 1..(Len(b) - n) : c[i] = b[n + i]
    BY RestShape
<1>2. \A i \in 1..(Len(b) - n) : n + i \in 1..Len(b)
    BY <1>0
<1>3. \A i, j \in 1..(Len(b) - n) : i <= j => n + i <= n + j
    BY <1>0
<1> HIDE DEF c
<1>4. InOrder(c, Len(c))
    BY <1>0, <1>1, <1>2, <1>3 DEF InOrder
<1> QED
    BY <1>4 DEF c

\* A step that leaves a key alone.
LEMMA UntouchedKey ==
    ASSUME TypeOK, NEW k \in Keys,
           buckets'[k] = buckets[k], granted'[k] = granted[k], last'[k] = last[k]
    PROVE  \E n \in 0..Len(buckets[k]) : KeyStep(k, n)
<1>1. buckets[k] \in Seq(Nat)
    BY DEF TypeOK
<1>2. KeyStep(k, 0)
    BY <1>1, RestOfNothing DEF KeyStep, Drops, Quiet
<1> QED
    BY <1>1, <1>2

\* A bucket whose newest timestamp is stale is stale altogether.
LEMMA StaleBucket ==
    ASSUME TypeOK, NEW k \in Keys, InOrder(buckets[k], Len(buckets[k])), buckets[k] # <<>>,
           Expired(buckets[k][Len(buckets[k])], now)
    PROVE  Drops(k, Len(buckets[k]))
<1> DEFINE b == buckets[k]
<1>1. b \in Seq(Nat) /\ now \in Nat /\ Window \in Nat
    BY LimitAssumption DEF TypeOK
<1>2. Len(b) \in Nat \ {0}
    BY <1>1
<1>3. ASSUME NEW i \in 1..Len(b) PROVE Expired(b[i], now)
    <2>1. b[i] \in Nat /\ b[Len(b)] \in Nat /\ b[i] <= b[Len(b)]
        BY <1>1, <1>2, <1>3 DEF InOrder
    <2> QED
        BY <1>1, <2>1 DEF Expired
<1> QED
    BY <1>3 DEF Drops
-----------------------------------------------------------------------------
\* Every step keeps the state well typed.
LEMMA TypeStep ==
    ASSUME TypeOK, [Next]_vars
    PROVE  TypeOK'
<1> USE LimitAssumption DEF TypeOK
<1>1. ASSUME NEW k \in Keys, Grant(k)
      PROVE  /\ granted' \in [Keys -> Seq(Nat)]
             /\ last' \in [Keys -> [at : Nat, verdict : Verdicts]]
    BY <1>1 DEF Grant, Verdicts
<1>2. ASSUME NEW k \in Keys, NEW n \in 0..Len(buckets[k]), Deny(k, Rest(buckets[k], n)),
             UNCHANGED <<backend, now>>
      PROVE  TypeOK'
    <2>1. Rest(buckets[k], n) \in Seq(Nat)
        BY RestShape
    <2> QED
        BY <1>2, <2>1 DEF Deny, Verdicts
<1>3. ASSUME NEW k \in Keys, AllowedInMemory(k) PROVE TypeOK'
    <2>1. PICK n \in 0..Len(buckets[k]) :
            \/ Deny(k, Rest(buckets[k], n))
            \/ Remember(k, Rest(buckets[k], n))
        BY <1>3 DEF AllowedInMemory
    <2>2. CASE Deny(k, Rest(buckets[k], n))
        BY <1>2, <1>3, <2>2 DEF AllowedInMemory
    <2>3. CASE Remember(k, Rest(buckets[k], n))
        <3> DEFINE bs == [buckets EXCEPT ![k] = Append(Rest(buckets[k], n), now)]
        <3>1. Append(Rest(buckets[k], n), now) \in Seq(Nat)
            BY RestShape, AppendShape
        <3>2. bs \in [Keys -> Seq(Nat)]
            BY <3>1
        <3>3. Evict(bs) \in [Keys -> Seq(Nat)]
            <4> HIDE DEF bs
            <4>1. <<>> \in Seq(Nat)
                OBVIOUS
            <4> QED
                BY <3>2, <4>1 DEF Evict
        <3>4. buckets' \in [Keys -> Seq(Nat)]
            BY <2>3, <3>2, <3>3 DEF Remember
        <3>5. calls' \in Nat
            BY <2>3 DEF Remember
        <3> QED
            BY <1>1, <1>3, <2>3, <3>4, <3>5 DEF Remember, AllowedInMemory
    <2> QED
        BY <2>1, <2>2, <2>3
<1>4. ASSUME NEW k \in Keys, NEW n \in 0..Len(buckets[k]), NEW t \in Readings,
             NEW b \in AfterScript(k, Rest(buckets[k], n), t)
      PROVE  b \in Seq(Nat)
    <2> DEFINE rest == Rest(buckets[k], n)
    <2>1. rest \in Seq(Nat) /\ Len(rest) \in Nat
        BY RestShape
    <2>2. b = rest \/ \E p \in 0..Len(rest) : b = Inserted(rest, t, p)
        BY DEF AfterScript, Added
    <2>3. t \in Nat
        BY ReadingBounds
    <2> HIDE DEF rest
    <2>4. \A p \in 0..Len(rest) : Inserted(rest, t, p) \in Seq(Nat)
        BY <2>1, <2>3, InsertedShape
    <2> HIDE DEF TypeOK
    <2> QED
        BY <2>1, <2>2, <2>4, Zenon
<1>5. ASSUME NEW k \in Keys, AllowedInRedis(k) PROVE TypeOK'
    <2>1. PICK t \in Readings, n \in 0..Len(buckets[k]) :
            \/ Deny(k, Rest(buckets[k], n))
            \/ /\ Grant(k) /\ UNCHANGED calls
               /\ \E b \in AfterScript(k, Rest(buckets[k], n), t) :
                    buckets' = [buckets EXCEPT ![k] = b]
        BY <1>5 DEF AllowedInRedis
    <2> QED
        BY <1>1, <1>2, <1>4, <1>5, <2>1 DEF AllowedInRedis
<1>6. ASSUME NEW k \in Keys, FailedOpen(k) PROVE TypeOK'
    BY <1>1, <1>4, <1>6 DEF FailedOpen
<1>7. ASSUME NEW k \in Keys, Remaining(k) PROVE TypeOK'
    BY <1>7, RestShape DEF Remaining
<1>8. ASSUME NEW k \in Keys, KeyExpires(k) PROVE TypeOK'
    BY <1>8 DEF KeyExpires
<1>9. CASE Tick
    BY <1>9 DEF Tick
<1>10. CASE UNCHANGED vars
    BY <1>10 DEF vars
<1> QED
    BY <1>3, <1>5, <1>6, <1>7, <1>8, <1>9, <1>10 DEF Next

\* The limiter's state stays well typed.
THEOREM TypeCorrect == Spec => []TypeOK
<1>1. Init => TypeOK
    BY LimitAssumption DEF Init, TypeOK, Verdicts
<1> QED
    BY <1>1, TypeStep, PTL DEF Spec
-----------------------------------------------------------------------------
\* Every step but a tick of the clock is a KeyStep of every key.
LEMMA StepShape ==
    ASSUME TypeOK, \A k \in Keys : InOrder(buckets[k], Len(buckets[k])), [Next]_vars, ~Tick
    PROVE  /\ UNCHANGED <<backend, now>>
           /\ \A k \in Keys : \E n \in 0..Len(buckets[k]) : KeyStep(k, n)
<1> USE LimitAssumption
<1> DEFINE Goal == \A q \in Keys : \E n \in 0..Len(buckets[q]) : KeyStep(q, n)
<1>0. \A k \in Keys : buckets[k] \in Seq(Nat)
    BY DEF TypeOK
<1>1. ASSUME NEW k \in Keys, NEW n \in 0..Len(buckets[k]), KeyStep(k, n),
             \A q \in Keys \ {k} : /\ buckets'[q] = buckets[q]
                                   /\ granted'[q] = granted[q]
                                   /\ last'[q] = last[q]
      PROVE  Goal
    BY <1>1, UntouchedKey
<1>2. ASSUME NEW k \in Keys, NEW n \in 0..Len(buckets[k]), NEW t \in Readings,
             Prunes(buckets[k], n, t), Deny(k, Rest(buckets[k], n)),
             Len(Rest(buckets[k], n)) >= MaxRequests
      PROVE  Goal
    <2>0. Drops(k, n)
        BY <1>2, PruneDrops
    <2>1. KeyStep(k, n)
        BY <1>2, <2>0 DEF Deny, KeyStep, Denied, TypeOK
    <2> QED
        BY <1>1, <1>2, <2>1 DEF Deny, TypeOK
<1>3. ASSUME NEW k \in Keys, AllowedInMemory(k) PROVE Goal
    <2>1. PICK n \in 0..Len(buckets[k]) :
            /\ Prunes(buckets[k], n, now)
            /\ IF Len(Rest(buckets[k], n)) >= MaxRequests
               THEN Deny(k, Rest(buckets[k], n)) ELSE Remember(k, Rest(buckets[k], n))
        BY <1>3 DEF AllowedInMemory
    <2> DEFINE rest == Rest(buckets[k], n)
               bs == [buckets EXCEPT ![k] = Append(rest, now)]
    <2>2. rest \in Seq(Nat) /\ Len(rest) \in Nat /\ now \in Nat /\ now \in Readings
        BY <1>0, RestShape, NowIsReading DEF TypeOK
    <2>3. CASE Len(rest) >= MaxRequests
        BY <1>2, <2>1, <2>2, <2>3
    <2>4. CASE ~(Len(rest) >= MaxRequests)
        <3>1. Remember(k, rest) /\ Len(rest) < MaxRequests
            BY <2>1, <2>2, <2>4
        <3>2. bs \in [Keys -> Seq(Nat)] /\ bs[k] = Append(rest, now)
              /\ \A q \in Keys \ {k} : bs[q] = buckets[q]
            BY <2>2, AppendShape DEF TypeOK
        <3>3. buckets' = bs \/ buckets' = Evict(bs)
            BY <3>1 DEF Remember
        <3>4. buckets'[k] = Append(rest, now)
            <4>1. Append(rest, now) # <<>>
                  /\ ~Expired(Append(rest, now)[Len(Append(rest, now))], now)
                BY <2>2, AppendShape DEF Expired
            <4> HIDE DEF bs, rest
            <4> QED
                BY <3>2, <3>3, <4>1 DEF Evict
        <3>5. KeyStep(k, n)
            <4>1. Drops(k, n)
                BY <2>1, <2>2, PruneDrops
            <4>2. Grown(rest, Len(rest), now, Len(rest), Append(rest, now))
                BY <1>0, <2>2, RestInOrder, Growth
            <4>3. Len(rest) \in 0..Len(rest)
                BY <2>2
            <4>4. granted'[k] = Append(granted[k], now)
                  /\ last'[k] = [at |-> now, verdict |-> "allowed"]
                BY <3>1 DEF Remember, Grant, TypeOK
            <4> QED
                BY <2>2, <3>1, <3>4, <4>1, <4>2, <4>3, <4>4 DEF KeyStep, Recorded
        <3>6. ASSUME NEW q \in Keys \ {k}
              PROVE  \E m \in 0..Len(buckets[q]) : KeyStep(q, m)
            <4>1. granted'[q] = granted[q] /\ last'[q] = last[q]
                BY <3>1 DEF Remember, Grant, TypeOK
            <4>2. CASE buckets'[q] = buckets[q]
                BY <4>1, <4>2, UntouchedKey
            <4>3. CASE buckets'[q] # buckets[q]
                <5>1. buckets'[q] = <<>> /\ buckets[q] # <<>>
                      /\ Expired(buckets[q][Len(buckets[q])], now)
                    <6> HIDE DEF bs
                    <6> QED
                        BY <3>2, <3>3, <4>3 DEF Evict
                <5>2. Drops(q, Len(buckets[q]))
                    BY <5>1, StaleBucket
                <5>3. KeyStep(q, Len(buckets[q]))
                    BY <1>0, <4>1, <5>1, <5>2, RestOfNothing DEF KeyStep, Quiet
                <5> QED
                    BY <1>0, <5>3
            <4> QED
                BY <4>2, <4>3
        <3> QED
            BY <3>5, <3>6
    <2> QED
        BY <2>3, <2>4
<1>4. ASSUME NEW k \in Keys, NEW n \in 0..Len(buckets[k]), NEW t \in Readings,
             Prunes(buckets[k], n, t), NEW b \in AfterScript(k, Rest(buckets[k], n), t),
             backend = "redis", Grant(k), buckets' = [buckets EXCEPT ![k] = b],
             Len(Rest(buckets[k], n)) < MaxRequests \/ k \in Outages
      PROVE  Goal
    <2> DEFINE rest == Rest(buckets[k], n)
    <2>0. rest \in Seq(Nat) /\ Len(rest) \in Nat /\ InOrder(rest, Len(rest)) /\ now \in Nat
        BY <1>0, RestShape, RestInOrder DEF TypeOK
    <2>1. \/ /\ \E p \in 0..Len(rest) : Grown(rest, Len(rest), t, p, b)
             /\ Len(rest) < MaxRequests
          \/ b = rest /\ k \in Outages \cup Bursts
        <3>1. CASE Len(rest) >= MaxRequests
            BY <1>4, <2>0, <3>1 DEF AfterScript
        <3>2. CASE ~(Len(rest) >= MaxRequests)
            <4>1. b \in Added(k, rest, t) /\ Len(rest) < MaxRequests
                BY <1>4, <2>0, <3>2 DEF AfterScript
            <4>2. \/ \E p \in 0..Len(rest) : Belongs(rest, t, p) /\ b = Inserted(rest, t, p)
                  \/ b = rest /\ k \in Bursts
                BY <4>1 DEF Added
            <4> HIDE DEF rest
            <4> QED
                BY <2>0, <4>1, <4>2, Growth
        <3> QED
            BY <3>1, <3>2
    <2>2. KeyStep(k, n)
        <3>1. Drops(k, n)
            BY <1>4, PruneDrops
        <3>2. /\ buckets'[k] = b /\ granted'[k] = Append(granted[k], now)
              /\ last'[k] = [at |-> now, verdict |-> "allowed"]
            BY <1>4 DEF Grant, TypeOK
        <3> QED
            BY <1>4, <2>1, <3>1, <3>2 DEF KeyStep, Recorded, Unrecorded, Steady
    <2> QED
        BY <1>1, <1>4, <2>2 DEF Grant, TypeOK
<1>5. ASSUME NEW k \in Keys, AllowedInRedis(k) PROVE Goal
    <2>1. PICK t \in Readings, n \in 0..Len(buckets[k]) :
            /\ Prunes(buckets[k], n, t)
            /\ \/ /\ Len(Rest(buckets[k], n)) >= MaxRequests
                  /\ Deny(k, Rest(buckets[k], n))
               \/ /\ ~(Len(Rest(buckets[k], n)) >= MaxRequests)
                  /\ Grant(k)
                  /\ \E b \in AfterScript(k, Rest(buckets[k], n), t) :
                        buckets' = [buckets EXCEPT ![k] = b]
        BY <1>5 DEF AllowedInRedis
    <2>2. Len(Rest(buckets[k], n)) \in Nat
        BY <1>0, RestShape
    <2>3. Len(Rest(buckets[k], n)) >= MaxRequests \/ Len(Rest(buckets[k], n)) < MaxRequests
        BY <2>2
    <2>4. backend = "redis"
        BY <1>5 DEF AllowedInRedis
    <2> HIDE DEF Goal
    <2>5. CASE Len(Rest(buckets[k], n)) >= MaxRequests
        BY <1>2, <2>1, <2>5
    <2>6. CASE ~(Len(Rest(buckets[k], n)) >= MaxRequests)
        BY <1>4, <2>1, <2>3, <2>4, <2>6
    <2> QED
        BY <2>5, <2>6
<1>6. ASSUME NEW k \in Keys, FailedOpen(k) PROVE Goal
    <2>1. CASE UNCHANGED buckets
        <3>1. KeyStep(k, 0)
            BY <1>0, <1>6, <2>1, RestOfNothing
                DEF FailedOpen, KeyStep, Drops, Unrecorded, Grant, Steady, TypeOK
        <3>2. 0 \in 0..Len(buckets[k])
            BY <1>0
        <3>3. \A q \in Keys \ {k} : /\ buckets'[q] = buckets[q]
                                    /\ granted'[q] = granted[q]
                                    /\ last'[q] = last[q]
            BY <1>6, <2>1 DEF FailedOpen, Grant, TypeOK
        <3> HIDE DEF Goal
        <3> QED
            BY <1>1, <3>1, <3>2, <3>3
    <2>2. CASE \E t \in Readings, n \in 0..Len(buckets[k]) :
                /\ Prunes(buckets[k], n, t)
                /\ \E b \in AfterScript(k, Rest(buckets[k], n), t) :
                    buckets' = [buckets EXCEPT ![k] = b]
        BY <1>4, <1>6, <2>2 DEF FailedOpen
    <2> QED
        BY <1>6, <2>1, <2>2 DEF FailedOpen
<1>7. ASSUME NEW k \in Keys, Remaining(k) PROVE Goal
    <2>1. PICK t \in Readings, n \in 1..Len(buckets[k]) :
            /\ Prunes(buckets[k], n, t)
            /\ buckets' = [buckets EXCEPT ![k] = Rest(@, n)]
        BY <1>7 DEF Remaining
    <2>2. n \in 0..Len(buckets[k])
        BY <1>0
    <2>3. KeyStep(k, n)
        BY <1>7, <2>1, <2>2, PruneDrops DEF Remaining, KeyStep, Quiet, TypeOK
    <2> QED
        BY <1>1, <1>7, <2>1, <2>2, <2>3 DEF Remaining, TypeOK
<1>8. ASSUME NEW k \in Keys, KeyExpires(k) PROVE Goal
    <2> DEFINE b == buckets[k]
    <2>1. b # <<>> /\ Expired(b[Len(b)], now)
        <3>1. b[Len(b)] \in Nat /\ now \in Nat
            BY <1>0, <1>8 DEF KeyExpires, TypeOK
        <3> QED
            BY <1>8, <3>1 DEF KeyExpires, Expired
    <2>2. KeyStep(k, Len(b))
        BY <1>0, <1>8, <2>1, StaleBucket, RestOfNothing
            DEF KeyExpires, KeyStep, Quiet, TypeOK
    <2>3. Len(b) \in 0..Len(b)
        BY <1>0
    <2>4. \A q \in Keys \ {k} : /\ buckets'[q] = buckets[q]
                                /\ granted'[q] = granted[q]
                                /\ last'[q] = last[q]
        BY <1>8 DEF KeyExpires, TypeOK
    <2> HIDE DEF Goal
    <2> QED
        BY <1>1, <2>2, <2>3, <2>4
<1>9. CASE UNCHANGED vars
    BY <1>9, UntouchedKey DEF vars
<1>10. UNCHANGED <<backend, now>>
    BY DEF Next, vars, AllowedInMemory, AllowedInRedis, FailedOpen, Remaining, KeyExpires
<1> HIDE DEF Goal
<1>11. ASSUME Next PROVE Goal
    <2>1. PICK k \in Keys :
            \/ AllowedInMemory(k) \/ AllowedInRedis(k) \/ FailedOpen(k)
            \/ Remaining(k) \/ KeyExpires(k)
        BY <1>11 DEF Next
    <2> QED
        BY <1>3, <1>5, <1>6, <1>7, <1>8, <2>1
<1> QED
    BY <1>9, <1>10, <1>11 DEF Goal
-----------------------------------------------------------------------------
(* The invariant of one key: b, of length m, are the timestamps kept for it *)
(* and g, of length l, the times at which it was granted a request.         *)

\* Counted from the newest, a timestamp that is kept is no newer than the
\* request granted at the same place.
Aligned(b, m, g, l) ==
    /\ m <= l
    /\ \A i \in 1..m : b[i] <= g[l - m + i]

\* A request whose timestamp a replica may have dropped by now.
Gone(x) == IF backend = "memory" THEN x + Window < now ELSE x + Window <= now + Skew

\* For a steady key it is older by Lag at most, and what is not kept is gone.
Complete(b, m, g, l) ==
    /\ \A i \in 1..m : g[l - m + i] <= b[i] + Lag
    /\ \A i \in 1..(l - m) : Gone(g[i])

\* A request is gone once its timestamp is stale.
LEMMA StaleIsGone ==
    ASSUME now \in Nat, NEW x \in Nat, NEW y \in Nat, Expired(x, now), y <= x + Lag
    PROVE  Gone(y)
    BY LimitAssumption DEF Expired, Gone, Lag

\* Dropping a stale prefix of the bucket.
LEMMA DropKeeps ==
    ASSUME NEW m \in Nat, NEW l \in Nat, NEW n \in 0..m, NEW b, NEW c, NEW g,
           \A i \in 1..(m - n) : c[i] = b[n + i], now \in Nat,
           InOrder(b, m), InOrder(g, l), Aligned(b, m, g, l)
    PROVE  /\ InOrder(c, m - n) /\ Aligned(c, m - n, g, l)
           /\ Complete(b, m, g, l) /\ (\A i \in 1..n : Expired(b[i], now))
                => Complete(c, m - n, g, l)
<1>1. n \in Nat /\ n <= m /\ m - n \in Nat /\ m <= l
    BY DEF Aligned
<1>2. \A i \in 1..(m - n) : n + i \in 1..m
    BY <1>1
<1>3. InOrder(c, m - n)
    BY <1>1, <1>2 DEF InOrder
<1>4. \A i \in 1..(m - n) : l - m + (n + i) = l - (m - n) + i
    BY <1>1
<1>5. Aligned(c, m - n, g, l)
    BY <1>1, <1>2, <1>4 DEF Aligned
<1>6. ASSUME Complete(b, m, g, l), \A i \in 1..n : Expired(b[i], now)
      PROVE  Complete(c, m - n, g, l)
    <2>1. \A i \in 1..(m - n) : g[l - (m - n) + i] <= c[i] + Lag
        BY <1>1, <1>2, <1>4, <1>6 DEF Complete
    <2>2. ASSUME NEW i \in 1..(l - (m - n)) PROVE Gone(g[i])
        <3>1. CASE i <= l - m
            BY <1>1, <1>6, <3>1 DEF Complete
        <3>2. CASE i > l - m
            <4> DEFINE j == i - (l - m)
            <4>1. j \in 1..n /\ j \in 1..m /\ l - m + j = i
                BY <1>1, <3>2
            <4>2. g[l - m + j] <= b[j] + Lag
                BY <1>6, <4>1 DEF Complete
            <4>3. i \in 1..l
                BY <1>1
            <4>4. b[j] \in Nat /\ g[i] \in Nat
                BY <4>1, <4>3 DEF InOrder
            <4>5. Expired(b[j], now) /\ g[i] <= b[j] + Lag
                BY <1>6, <4>1, <4>2
            <4> HIDE DEF j
            <4> QED
                BY <4>4, <4>5, StaleIsGone
        <3> QED
            BY <1>1, <3>1, <3>2
    <2> QED
        BY <2>1, <2>2 DEF Complete
<1> QED
    BY <1>3, <1>5, <1>6

\* A request is granted: its time is added to the history.
LEMMA GrantKeeps ==
    ASSUME NEW m \in Nat, NEW l \in Nat, NEW b, NEW g, NEW h, now \in Nat,
           \A i \in 1..l : h[i] = g[i], h[l + 1] = now,
           InOrder(b, m), InOrder(g, l), Aligned(b, m, g, l)
    PROVE  InOrder(h, l + 1) /\ Aligned(b, m, h, l + 1)
<1>1. m <= l
    BY DEF Aligned
<1>2. InOrder(h, l + 1)
    <2>1. \A i \in 1..(l + 1) : i \in 1..l \/ i = l + 1
        OBVIOUS
    <2>2. \A i \in 1..(l + 1) : h[i] \in Nat /\ h[i] <= now
        BY <2>1 DEF InOrder
    <2>3. ASSUME NEW i \in 1..(l + 1), NEW j \in 1..(l + 1), i <= j
          PROVE  h[i] <= h[j]
        <3>1. CASE j = l + 1
            BY <2>2, <3>1
        <3>2. CASE j \in 1..l
            <4>1. i \in 1..l
                BY <2>3, <3>2
            <4> QED
                BY <2>3, <3>2, <4>1 DEF InOrder
        <3> QED
            BY <2>1, <3>1, <3>2
    <2> QED
        BY <2>2, <2>3 DEF InOrder
<1>3. ASSUME NEW i \in 1..m PROVE b[i] <= h[l + 1 - m + i]
    <2> DEFINE j == l - m + i
    <2>1. j \in 1..l /\ j + 1 \in 1..(l + 1) /\ l + 1 - m + i = j + 1
        BY <1>1
    <2>2. b[i] <= g[j] /\ g[j] = h[j]
        BY <2>1 DEF Aligned
    <2>3. j \in 1..(l + 1) /\ j <= j + 1
        BY <2>1
    <2>4. h[j] <= h[j + 1]
        BY <1>2, <2>1, <2>3 DEF InOrder
    <2>5. b[i] \in Nat /\ h[j] \in Nat /\ h[j + 1] \in Nat
        BY <1>2, <2>1, <2>3 DEF InOrder
    <2> HIDE DEF j
    <2>6. b[i] <= h[j + 1]
        BY <2>2, <2>4, <2>5
    <2> QED
        BY <2>1, <2>6
<1> QED
    BY <1>1, <1>2, <1>3 DEF Aligned

\* The request is recorded in the bucket as well, at the place of its timestamp:
\* the timestamps from there on move up by one, and so do the requests.
LEMMA RecordKeeps ==
    ASSUME NEW m \in Nat, NEW l \in Nat, NEW b, NEW c, NEW g, NEW h, now \in Nat,
           NEW t \in Readings, NEW p \in 0..m, Grown(b, m, t, p, c),
           \A i \in 1..l : h[i] = g[i], h[l + 1] = now,
           InOrder(b, m), InOrder(g, l), Aligned(b, m, g, l)
    PROVE  /\ InOrder(c, m + 1) /\ Aligned(c, m + 1, h, l + 1)
           /\ Complete(b, m, g, l) => Complete(c, m + 1, h, l + 1)
<1>1. m <= l /\ p \in Nat /\ p <= m
    BY DEF Aligned
<1>2. t \in Nat /\ t <= now /\ now <= t + Lag /\ Lag \in Nat
    BY ReadingBounds
<1>3. ASSUME NEW i \in 1..(m + 1)
      PROVE  \/ i \in 1..p /\ i \in 1..m /\ c[i] = b[i] /\ b[i] <= t
             \/ i = p + 1 /\ c[i] = t
             \/ i - 1 \in (p + 1)..m /\ i - 1 \in 1..m /\ c[i] = b[i - 1] /\ t <= b[i - 1]
    <2>1. CASE i <= p
        <3>1. i \in 1..p /\ i \in 1..m
            BY <1>1, <2>1
        <3> QED
            BY <3>1 DEF Grown
    <2>2. CASE i = p + 1
        BY <2>2 DEF Grown
    <2>3. CASE i > p + 1
        <3>1. i - 1 \in (p + 1)..m /\ i - 1 \in 1..m /\ (i - 1) + 1 = i
            BY <1>1, <2>3
        <3> QED
            BY <3>1 DEF Grown
    <2> QED
        BY <1>1, <2>1, <2>2, <2>3
<1>4. \A i \in 1..m : b[i] \in Nat /\ b[i] <= now
    BY DEF InOrder
<1>5. \A i \in 1..(m + 1) : c[i] \in Nat /\ c[i] <= now
    BY <1>2, <1>3, <1>4
<1>6. InOrder(c, m + 1)
    <2>1. ASSUME NEW i \in 1..(m + 1), NEW j \in 1..(m + 1), i <= j
          PROVE  c[i] <= c[j]
        <3>1. CASE i \in 1..p /\ j \in 1..p
            <4>1. c[i] = b[i] /\ c[j] = b[j] /\ i \in 1..m /\ j \in 1..m
                BY <1>1, <3>1 DEF Grown
            <4> QED
                BY <2>1, <4>1 DEF InOrder
        <3>2. CASE i - 1 \in (p + 1)..m
            <4>1. j - 1 \in (p + 1)..m /\ i - 1 <= j - 1 /\ i - 1 \in 1..m /\ j - 1 \in 1..m
                  /\ (i - 1) + 1 = i /\ (j - 1) + 1 = j
                BY <1>1, <2>1, <3>2
            <4>3. \A q \in (p + 1)..m : c[q + 1] = b[q]
                BY DEF Grown
            <4>2. c[i] = b[i - 1] /\ c[j] = b[j - 1]
                BY <3>2, <4>1, <4>3
            <4> QED
                BY <4>1, <4>2 DEF InOrder
        <3>3. CASE i \in 1..(p + 1) /\ j \in (p + 1)..(m + 1)
            <4>1. c[i] <= t
                <5>1. ~(i - 1 \in (p + 1)..m)
                    BY <1>1, <3>3
                <5> QED
                    BY <1>2, <1>3, <5>1
            <4>2. t <= c[j]
                <5>1. ~(j \in 1..p)
                    BY <1>1, <3>3
                <5> QED
                    BY <1>2, <1>3, <5>1
            <4> QED
                BY <1>2, <1>5, <4>1, <4>2
        <3>4. \/ i \in 1..p /\ j \in 1..p
              \/ i - 1 \in (p + 1)..m
              \/ i \in 1..(p + 1) /\ j \in (p + 1)..(m + 1)
            BY <1>1, <2>1
        <3> QED
            BY <3>1, <3>2, <3>3, <3>4
    <2> QED
        BY <1>5, <2>1 DEF InOrder
<1>7. InOrder(h, l + 1) /\ Aligned(b, m, h, l + 1)
    BY GrantKeeps
<1>8. /\ \A i \in 1..(l + 1) : h[i] \in Nat /\ h[i] <= now
      /\ (l + 1) - (m + 1) = l - m
    BY <1>1, <1>7 DEF InOrder
<1>9. ASSUME NEW i \in 1..(m + 1) PROVE c[i] <= h[l - m + i]
    <2>1. CASE i \in 1..p /\ i \in 1..m /\ c[i] = b[i]
        <3>1. l - m + i \in 1..l
            BY <1>1, <2>1
        <3> QED
            BY <2>1, <3>1 DEF Aligned
    <2>2. CASE i = p + 1 /\ c[i] = t
        <3>1. CASE p = m
            <4>1. l - m + i = l + 1
                BY <1>1, <2>2, <3>1
            <4> QED
                BY <1>2, <2>2, <4>1
        <3>2. CASE p < m
            <4>1. /\ i \in (p + 1)..m /\ i \in 1..m /\ l - m + i \in 1..l
                  /\ l - m + i \in 1..(l + 1)
                BY <1>1, <2>2, <3>2
            <4>2. t <= b[i]
                BY <4>1 DEF Grown
            <4>3. b[i] <= h[l - m + i]
                BY <4>1 DEF Aligned
            <4> QED
                BY <1>2, <1>4, <1>8, <2>2, <4>1, <4>2, <4>3
        <3> QED
            BY <1>1, <3>1, <3>2
    <2>3. CASE i - 1 \in 1..m /\ c[i] = b[i - 1]
        <3>1. (l + 1) - m + (i - 1) = l - m + i
            BY <1>1
        <3>2. b[i - 1] <= h[(l + 1) - m + (i - 1)]
            BY <1>7, <2>3 DEF Aligned
        <3> QED
            BY <2>3, <3>1, <3>2
    <2> QED
        BY <1>3, <2>1, <2>2, <2>3
<1>10. Aligned(c, m + 1, h, l + 1)
    BY <1>1, <1>8, <1>9 DEF Aligned
<1>11. ASSUME Complete(b, m, g, l) PROVE Complete(c, m + 1, h, l + 1)
    <2>1. ASSUME NEW i \in 1..(m + 1) PROVE h[l - m + i] <= c[i] + Lag
        <3>0. l - m + i \in 1..(l + 1)
            BY <1>1
        <3>1. CASE i \in 1..p /\ i \in 1..m /\ c[i] = b[i]
            <4>1. l - m + i \in 1..l
                BY <1>1, <3>1
            <4> QED
                BY <1>11, <3>1, <4>1 DEF Complete
        <3>2. CASE t <= c[i]
            <4>1. h[l - m + i] \in Nat /\ h[l - m + i] <= now /\ c[i] \in Nat
                BY <1>5, <1>8, <3>0
            <4> QED
                BY <1>2, <3>2, <4>1
        <3> QED
            BY <1>2, <1>3, <3>1, <3>2
    <2>2. ASSUME NEW i \in 1..(l - m) PROVE Gone(h[i])
        <3>1. i \in 1..l
            BY <1>1
        <3> QED
            BY <1>11, <3>1 DEF Complete
    <2> QED
        BY <1>8, <2>1, <2>2 DEF Complete
<1> QED
    BY <1>6, <1>10, <1>11
-----------------------------------------------------------------------------
\* Nothing is recorded for k between a denial and its next request.
Frozen(k) ==
    /\ last[k].at <= now
    /\ last[k].verdict = "denied" =>
        \A i \in 1..Len(buckets[k]) : buckets[k][i] <= last[k].at

KeyInv(k) ==
    LET b == buckets[k]  g == granted[k] IN
    /\ InOrder(b, Len(b)) /\ InOrder(g, Len(g))
    /\ Aligned(b, Len(b), g, Len(g))
    /\ Steady(k) => Complete(b, Len(b), g, Len(g))
    /\ Frozen(k)

LimiterInv == \A k \in Keys : KeyInv(k)

\* The types a proof about one key needs.
LEMMA KeyTypes ==
    ASSUME TypeOK, NEW k \in Keys
    PROVE  /\ buckets[k] \in Seq(Nat) /\ granted[k] \in Seq(Nat) /\ now \in Nat
           /\ Len(buckets[k]) \in Nat /\ Len(granted[k]) \in Nat
           /\ Window \in Nat /\ MaxRequests \in Nat \ {0}
           /\ last[k].at \in Nat
    BY LimitAssumption DEF TypeOK

\* The parts of the invariant about the bucket and the history of a key, after
\* a stale prefix of the bucket was dropped.
LEMMA KeyAfterDrop ==
    ASSUME TypeOK, NEW k \in Keys, NEW n \in 0..Len(buckets[k]), KeyInv(k), Drops(k, n)
    PROVE  LET c == Rest(buckets[k], n)  g == granted[k] IN
           /\ c \in Seq(Nat) /\ Len(c) \in Nat
           /\ InOrder(c, Len(c)) /\ Aligned(c, Len(c), g, Len(g))
           /\ Steady(k) => Complete(c, Len(c), g, Len(g))
<1> DEFINE c == Rest(buckets[k], n)
<1>1. /\ c \in Seq(Nat) /\ Len(c) = Len(buckets[k]) - n
      /\ \A i \in 1..(Len(buckets[k]) - n) : c[i] = buckets[k][n + i]
    BY KeyTypes, RestShape
<1>2. Len(c) \in Nat
    BY <1>1, KeyTypes
<1>3. Len(buckets[k]) \in Nat /\ Len(granted[k]) \in Nat
    BY KeyTypes
<1> HIDE DEF c
<1>4. /\ InOrder(buckets[k], Len(buckets[k]))
      /\ Aligned(buckets[k], Len(buckets[k]), granted[k], Len(granted[k]))
      /\ Steady(k) => Complete(buckets[k], Len(buckets[k]), granted[k], Len(granted[k]))
      /\ \A i \in 1..n : Expired(buckets[k][i], now)
      /\ InOrder(granted[k], Len(granted[k])) /\ now \in Nat
    BY KeyTypes DEF KeyInv, Drops
<1>5. /\ InOrder(c, Len(c)) /\ Aligned(c, Len(c), granted[k], Len(granted[k]))
      /\ Steady(k) => Complete(c, Len(c), granted[k], Len(granted[k]))
    BY <1>1, <1>3, <1>4, DropKeeps
<1> QED
    BY <1>1, <1>2, <1>5 DEF c

\* The clock and the backend stand still: the parts mean the same after a step.
LEMMA SameClock ==
    ASSUME UNCHANGED <<backend, now>>, NEW k \in Keys,
           LET b == buckets'[k]  g == granted'[k] IN
           /\ InOrder(b, Len(b)) /\ InOrder(g, Len(g))
           /\ Aligned(b, Len(b), g, Len(g))
           /\ Steady(k) => Complete(b, Len(b), g, Len(g)),
           Frozen(k)'
    PROVE  KeyInv(k)'
    BY DEF KeyInv, InOrder, Aligned, Complete, Steady, Gone, Lag

\* A step of a key keeps its invariant.
LEMMA KeyPreserved ==
    ASSUME TypeOK, NEW k \in Keys, NEW n \in 0..Len(buckets[k]), KeyInv(k),
           UNCHANGED <<backend, now>>, KeyStep(k, n)
    PROVE  KeyInv(k)'
<1> DEFINE c == Rest(buckets[k], n)
           g == granted[k]
           h == Append(g, now)
<1>1. /\ c \in Seq(Nat) /\ Len(c) \in Nat
      /\ InOrder(c, Len(c)) /\ Aligned(c, Len(c), g, Len(g))
      /\ Steady(k) => Complete(c, Len(c), g, Len(g))
    BY KeyAfterDrop DEF KeyStep
<1>2. g \in Seq(Nat) /\ Len(g) \in Nat /\ now \in Nat /\ InOrder(g, Len(g))
    BY KeyTypes DEF KeyInv
<1>3. /\ h \in Seq(Nat) /\ Len(h) = Len(g) + 1
      /\ \A i \in 1..Len(g) : h[i] = g[i]
      /\ h[Len(g) + 1] = now
    BY <1>2, AppendShape
<1>5. CASE Quiet(k, n)
    <2>1. Frozen(k)'
        <3>1. /\ buckets'[k] = c /\ last'[k] = last[k] /\ Frozen(k)
            BY <1>5 DEF Quiet, KeyInv
        <3>2. \A i \in 1..Len(c) : n + i \in 1..Len(buckets[k]) /\ c[i] = buckets[k][n + i]
            <4>1. Len(buckets[k]) \in Nat /\ buckets[k] \in Seq(Nat)
                BY KeyTypes
            <4>2. Len(c) = Len(buckets[k]) - n
                  /\ \A i \in 1..(Len(buckets[k]) - n) : c[i] = buckets[k][n + i]
                BY <4>1, RestShape
            <4> HIDE DEF c
            <4> QED
                BY <4>1, <4>2
        <3> HIDE DEF c
        <3>3. last[k].verdict = "denied" => \A i \in 1..Len(c) : c[i] <= last[k].at
            BY <3>1, <3>2 DEF Frozen
        <3>4. last[k].at <= now /\ now' = now
            BY <3>1 DEF Frozen
        <3> QED
            BY <3>1, <3>3, <3>4 DEF Frozen
    <2>2. buckets'[k] = c /\ granted'[k] = g
        BY <1>5 DEF Quiet
    <2> HIDE DEF c, g
    <2> QED
        BY <1>1, <1>2, <2>1, <2>2, SameClock
<1>6. CASE Denied(k, n)
    <2>1. buckets'[k] = c /\ granted'[k] = g
          /\ last'[k] = [at |-> now, verdict |-> "denied"]
        BY <1>6 DEF Denied
    <2> HIDE DEF c, g
    <2>2. Frozen(k)'
        BY <1>1, <1>2, <2>1 DEF Frozen, InOrder
    <2> QED
        BY <1>1, <1>2, <2>1, <2>2, SameClock
<1>7. CASE Recorded(k, n)
    <2>1. granted'[k] = h /\ last'[k] = [at |-> now, verdict |-> "allowed"]
        BY <1>7 DEF Recorded
    <2>2. PICK t \in Readings, p \in 0..Len(c) : Grown(c, Len(c), t, p, buckets'[k])
        BY <1>7 DEF Recorded
    <2> HIDE DEF c, g, h
    <2> DEFINE d == buckets'[k]
    <2>3. Len(d) = Len(c) + 1
        BY <2>2 DEF Grown
    <2>4. Frozen(k)'
        BY <1>2, <2>1 DEF Frozen
    <2>5. Grown(c, Len(c), t, p, d)
        BY <2>2
    <2>6. /\ InOrder(d, Len(c) + 1)
          /\ Aligned(d, Len(c) + 1, h, Len(g) + 1)
          /\ Steady(k) => Complete(d, Len(c) + 1, h, Len(g) + 1)
        <3> HIDE DEF d
        <3> QED
            BY <1>1, <1>2, <1>3, <2>5, RecordKeeps
    <2>7. InOrder(h, Len(g) + 1)
        BY <1>1, <1>2, <1>3, GrantKeeps
    <2> QED
        BY <1>3, <2>1, <2>3, <2>4, <2>6, <2>7, SameClock
<1>8. CASE Unrecorded(k, n)
    <2>1. buckets'[k] = c /\ granted'[k] = h
          /\ last'[k] = [at |-> now, verdict |-> "allowed"] /\ ~Steady(k)
        BY <1>8 DEF Unrecorded
    <2> HIDE DEF c, g, h
    <2>2. Frozen(k)'
        BY <1>2, <2>1 DEF Frozen
    <2>3. InOrder(h, Len(g) + 1) /\ Aligned(c, Len(c), h, Len(g) + 1)
        BY <1>1, <1>2, <1>3, GrantKeeps
    <2> QED
        BY <1>1, <1>3, <2>1, <2>2, <2>3, SameClock
<1> QED
    BY <1>5, <1>6, <1>7, <1>8 DEF KeyStep

\* Every step keeps the invariant: what is stale stays stale as time goes on.
LEMMA InvStep ==
    ASSUME TypeOK, LimiterInv, [Next]_vars
    PROVE  LimiterInv'
<1>1. CASE Tick
    <2> SUFFICES ASSUME NEW k \in Keys PROVE KeyInv(k)'
        BY DEF LimiterInv
    <2>1. now' = now + 1 /\ now \in Nat /\ Window \in Nat
          /\ UNCHANGED <<backend, buckets, granted, last>>
        BY <1>1, KeyTypes DEF Tick
    <2>2. KeyInv(k)
        BY DEF LimiterInv
    <2>3. \A i \in 1..Len(granted[k]) : Gone(granted[k][i]) => Gone(granted[k][i])'
        BY <2>1, <2>2, LimitAssumption DEF Gone, KeyInv, InOrder
    <2>4. InOrder(buckets[k], Len(buckets[k]))' /\ InOrder(granted[k], Len(granted[k]))'
        BY <2>1, <2>2 DEF KeyInv, InOrder
    <2>5. Aligned(buckets[k], Len(buckets[k]), granted[k], Len(granted[k]))'
        BY <2>1, <2>2 DEF KeyInv, Aligned
    <2>6. Frozen(k)'
        BY <2>1, <2>2, KeyTypes DEF KeyInv, Frozen
    <2>7. Steady(k)' => Complete(buckets[k], Len(buckets[k]), granted[k], Len(granted[k]))'
        <3>0. Len(granted[k]) \in Nat /\ Len(buckets[k]) \in Nat
            BY KeyTypes
        <3>1. \A i \in 1..(Len(granted[k]) - Len(buckets[k])) : i \in 1..Len(granted[k])
            BY <3>0
        <3>2. Lag' = Lag
            BY <2>1 DEF Lag
        <3> QED
            BY <2>1, <2>2, <2>3, <3>1, <3>2 DEF KeyInv, Steady, Complete
    <2> QED
        BY <2>4, <2>5, <2>6, <2>7 DEF KeyInv
<1>2. CASE ~Tick
    <2>1. \A k \in Keys : InOrder(buckets[k], Len(buckets[k]))
        BY DEF LimiterInv, KeyInv
    <2>2. /\ UNCHANGED <<backend, now>>
          /\ \A k \in Keys : \E n \in 0..Len(buckets[k]) : KeyStep(k, n)
        BY <1>2, <2>1, StepShape
    <2>3. ASSUME NEW k \in Keys PROVE KeyInv(k)'
        <3>1. PICK n \in 0..Len(buckets[k]) : KeyStep(k, n)
            BY <2>2
        <3>2. KeyInv(k)
            BY DEF LimiterInv
        <3> QED
            BY <2>2, <3>1, <3>2, KeyPreserved
    <2> QED
        BY <2>3 DEF LimiterInv
<1> QED
    BY <1>1, <1>2

\* The invariant holds in every reachable state.
LEMMA LimiterInvariant == Spec => []LimiterInv
<1>1. Init => LimiterInv
    <2> SUFFICES ASSUME Init, NEW k \in Keys PROVE KeyInv(k)
        BY DEF LimiterInv
    <2>1. /\ buckets[k] = <<>> /\ granted[k] = <<>> /\ now = 0
          /\ last[k] = [at |-> 0, verdict |-> "none"]
        BY DEF Init
    <2>2. Len(buckets[k]) = 0 /\ Len(granted[k]) = 0
        BY <2>1
    <2>3. \A i \in 1..0 : FALSE
        OBVIOUS
    <2>4. Frozen(k)
        BY <2>1 DEF Frozen
    <2> QED
        BY <2>2, <2>3, <2>4 DEF KeyInv, InOrder, Aligned, Complete
<1>2. TypeOK /\ LimiterInv /\ [Next]_vars => LimiterInv'
    BY InvStep
<1> QED
    BY <1>1, <1>2, TypeCorrect, PTL DEF Spec
-----------------------------------------------------------------------------
\* A new grant of a steady key meets the limit: the timestamps that are kept
\* are fewer than MaxRequests, and all older grants are stale.
LEMMA LimitStep ==
    ASSUME TypeOK, LimiterInv, WindowLimit, [Next]_vars
    PROVE  WindowLimit'
<1> DEFINE Spaced(g, i) ==
        IF backend = "memory" THEN g[i + MaxRequests] - g[i] > Window
                              ELSE g[i + MaxRequests] - g[i] >= Window - Skew
<1>1. CASE Tick
    BY <1>1 DEF Tick, WindowLimit, Steady
<1>2. CASE ~Tick
    <2>1. /\ UNCHANGED <<backend, now>>
          /\ \A k \in Keys : \E n \in 0..Len(buckets[k]) : KeyStep(k, n)
        BY <1>2, StepShape DEF LimiterInv, KeyInv
    <2> SUFFICES ASSUME NEW k \in Keys, Steady(k),
                        NEW i \in 1..(Len(granted'[k]) - MaxRequests)
                 PROVE  Spaced(granted'[k], i)
        BY <2>1 DEF WindowLimit, Steady
    <2>2. PICK n \in 0..Len(buckets[k]) : KeyStep(k, n)
        BY <2>1
    <2>3. \A j \in 1..(Len(granted[k]) - MaxRequests) : Spaced(granted[k], j)
        BY DEF WindowLimit
    <2>4. CASE granted'[k] = granted[k]
        BY <2>3, <2>4
    <2>5. CASE Recorded(k, n)
        <3> DEFINE c == Rest(buckets[k], n)
                   g == granted[k]
                   h == Append(g, now)
        <3>1. /\ Len(c) \in Nat /\ Len(c) < MaxRequests
              /\ Aligned(c, Len(c), g, Len(g)) /\ Complete(c, Len(c), g, Len(g))
            BY <2>2, <2>5, KeyAfterDrop DEF LimiterInv, KeyStep, Recorded
        <3>2. /\ Len(g) \in Nat /\ now \in Nat /\ Window \in Nat
              /\ MaxRequests \in Nat \ {0} /\ g \in Seq(Nat)
            BY KeyTypes
        <3>3. /\ Len(h) = Len(g) + 1 /\ granted'[k] = h
              /\ \A j \in 1..Len(g) : h[j] = g[j]
              /\ h[Len(g) + 1] = now
            BY <2>5, <3>2, AppendShape DEF Recorded
        <3>4. \A j \in 1..Len(g) : g[j] \in Nat
            BY DEF LimiterInv, KeyInv, InOrder
        <3> HIDE DEF c, g, h
        <3>5. CASE i + MaxRequests <= Len(g)
            <4>1. /\ i \in 1..(Len(g) - MaxRequests)
                  /\ i \in 1..Len(g) /\ i + MaxRequests \in 1..Len(g)
                BY <3>2, <3>5
            <4>2. h[i] = g[i] /\ h[i + MaxRequests] = g[i + MaxRequests]
                BY <3>3, <4>1
            <4>3. Spaced(g, i)
                BY <2>3, <4>1 DEF g
            <4> QED
                BY <3>3, <4>2, <4>3
        <3>6. CASE ~(i + MaxRequests <= Len(g))
            <4>1. i + MaxRequests = Len(g) + 1 /\ i \in 1..Len(g)
                BY <3>2, <3>3, <3>6
            <4>2. i \in 1..(Len(g) - Len(c))
                BY <3>1, <3>2, <4>1
            <4>3. Gone(g[i])
                BY <3>1, <4>2 DEF Complete
            <4>4. h[i] = g[i] /\ g[i] \in Nat /\ h[i + MaxRequests] = now
                BY <3>3, <3>4, <4>1
            <4> QED
                BY <3>2, <3>3, <4>3, <4>4, LimitAssumption DEF Gone
        <3> QED
            BY <3>5, <3>6
    <2> QED
        BY <2>2, <2>4, <2>5 DEF KeyStep, Quiet, Denied, Unrecorded
<1> QED
    BY <1>1, <1>2

\* No client gets more than max_requests through in a window, whatever is
\* pruned, evicted or expired in between (is_allowed, _evict_stale, EXPIRE).
THEOREM LimitEnforced == Spec => []WindowLimit
<1>1. Init => WindowLimit
    BY LimitAssumption DEF Init, WindowLimit
<1>2. TypeOK /\ LimiterInv /\ WindowLimit /\ [Next]_vars => WindowLimit'
    BY LimitStep
<1> QED
    BY <1>1, <1>2, TypeCorrect, LimiterInvariant, PTL DEF Spec

\* A denial leaves at least MaxRequests timestamps in the bucket, and each
\* stands for a request granted since.
LEMMA DenialStep ==
    ASSUME TypeOK, LimiterInv, DenialJustified, [Next]_vars
    PROVE  DenialJustified'
<1>1. CASE Tick
    BY <1>1 DEF Tick, DenialJustified, Lag
<1>2. CASE ~Tick
    <2>1. /\ UNCHANGED <<backend, now>>
          /\ \A k \in Keys : \E n \in 0..Len(buckets[k]) : KeyStep(k, n)
        BY <1>2, StepShape DEF LimiterInv, KeyInv
    <2> SUFFICES ASSUME NEW k \in Keys, last'[k].verdict = "denied"
                 PROVE  /\ Len(granted'[k]) >= MaxRequests
                        /\ granted'[k][Len(granted'[k]) - MaxRequests + 1] + Window + Lag
                                >= last'[k].at
        BY <2>1 DEF DenialJustified, Lag
    <2>2. PICK n \in 0..Len(buckets[k]) : KeyStep(k, n)
        BY <2>1
    <2>3. CASE Quiet(k, n)
        BY <2>3 DEF Quiet, DenialJustified
    <2>4. CASE Denied(k, n)
        <3> DEFINE b == buckets[k]
                   c == Rest(b, n)
                   g == granted[k]
        <3>1. /\ Len(c) \in Nat /\ Len(c) >= MaxRequests
              /\ InOrder(c, Len(c)) /\ Aligned(c, Len(c), g, Len(g))
            BY <2>2, <2>4, KeyAfterDrop DEF LimiterInv, KeyStep, Denied
        <3>2. /\ Len(g) \in Nat /\ now \in Nat /\ Window \in Nat
              /\ MaxRequests \in Nat \ {0} /\ b \in Seq(Nat) /\ Len(b) \in Nat
            BY KeyTypes
        <3>0. PICK t \in Readings : Prunes(b, n, t)
            BY <2>4 DEF Denied
        <3>3. ~Expired(c[1], t) /\ c[1] \in Nat
            <4>1. Len(c) = Len(b) - n /\ \A j \in 1..(Len(b) - n) : c[j] = b[n + j]
                BY <3>2, RestShape
            <4>2. 1 \in 1..(Len(b) - n) /\ n < Len(b)
                BY <3>1, <3>2, <4>1
            <4>3. c[1] = b[n + 1]
                BY <4>1, <4>2
            <4>4. ~Expired(b[n + 1], t)
                BY <3>0, <4>2 DEF Prunes
            <4> HIDE DEF c
            <4> QED
                BY <3>1, <4>1, <4>2, <4>3, <4>4 DEF InOrder
        <3>4. granted'[k] = g /\ last'[k].at = now
            BY <2>4 DEF Denied
        <3>5. \A j \in 1..Len(g) : g[j] \in Nat
            BY DEF LimiterInv, KeyInv, InOrder
        <3> HIDE DEF b, c, g
        <3> DEFINE j == Len(c) - MaxRequests + 1
        <3>6. /\ j \in 1..Len(c) /\ Len(c) <= Len(g)
              /\ Len(g) - Len(c) + j = Len(g) - MaxRequests + 1
            BY <3>1, <3>2 DEF Aligned
        <3>7. 1 \in 1..Len(c) /\ 1 <= j
            BY <3>2, <3>6
        <3> HIDE DEF j
        <3>8. c[1] <= c[j] /\ c[j] \in Nat
            BY <3>1, <3>6, <3>7 DEF InOrder
        <3>9. c[j] <= g[Len(g) - MaxRequests + 1]
            BY <3>1, <3>6 DEF Aligned
        <3>10. Len(g) - MaxRequests + 1 \in 1..Len(g) /\ Len(g) >= MaxRequests
            BY <3>1, <3>2, <3>6
        <3>11. g[Len(g) - MaxRequests + 1] \in Nat
            BY <3>5, <3>10
        <3>12. now <= c[1] + Window + Lag /\ Lag \in Nat
            BY <3>2, <3>3, ReadingBounds DEF Expired
        <3>13. g[Len(g) - MaxRequests + 1] + Window + Lag >= now
            BY <3>2, <3>3, <3>8, <3>9, <3>11, <3>12
        <3> QED
            BY <3>4, <3>10, <3>13
    <2> QED
        BY <2>2, <2>3, <2>4 DEF KeyStep, Recorded, Unrecorded
<1> QED
    BY <1>1, <1>2

\* A client is turned away only for requests it was granted within the window.
THEOREM DenialsJustified == Spec => []DenialJustified
<1>1. Init => DenialJustified
    BY DEF Init, DenialJustified
<1>2. TypeOK /\ LimiterInv /\ DenialJustified /\ [Next]_vars => DenialJustified'
    BY DenialStep
<1> QED
    BY <1>1, <1>2, TypeCorrect, LimiterInvariant, PTL DEF Spec

\* A client that waits for longer than the Retry-After of its 429 is let
\* through, on either backend.
THEOREM RetryAfterHonest == Spec => RetryAfterWorks
<1> DEFINE A == \A k \in Keys :
                    /\ last[k].verdict = "denied"
                    /\ last[k].at + Window + Lag < now
                    /\ last'[k] # last[k]
                    => last'[k].verdict = "allowed"
<1>1. TypeOK /\ LimiterInv /\ [Next]_vars => [A]_vars
    <2> SUFFICES ASSUME TypeOK, LimiterInv, Next, NEW k \in Keys,
                        last[k].verdict = "denied", last[k].at + Window + Lag < now,
                        last'[k] # last[k]
                 PROVE  last'[k].verdict = "allowed"
        OBVIOUS
    <2>1. ~Tick
        BY DEF Tick
    <2>2. PICK n \in 0..Len(buckets[k]) : KeyStep(k, n)
        BY <2>1, StepShape DEF LimiterInv, KeyInv
    <2>3. ASSUME Denied(k, n) PROVE FALSE
        <3> DEFINE b == buckets[k]
        <3>1. /\ now \in Nat /\ Window \in Nat /\ last[k].at \in Nat
              /\ MaxRequests \in Nat \ {0} /\ b \in Seq(Nat) /\ Len(b) \in Nat
            BY KeyTypes
        <3>2. Len(Rest(b, n)) = Len(b) - n /\ Len(Rest(b, n)) >= MaxRequests
            BY <2>3, <3>1, RestShape DEF Denied
        <3>3. n + 1 \in 1..Len(b) /\ n < Len(b)
            BY <3>1, <3>2
        <3>0. PICK t \in Readings : Prunes(b, n, t)
            BY <2>3 DEF Denied
        <3>4. ~Expired(b[n + 1], t)
            BY <3>0, <3>3 DEF Prunes
        <3>5. b[n + 1] \in Nat /\ b[n + 1] <= last[k].at
            BY <3>3 DEF LimiterInv, KeyInv, InOrder, Frozen
        <3> HIDE DEF b
        <3> QED
            <4>1. t \in Nat /\ now <= t + Lag /\ Lag \in Nat
                BY <3>1, ReadingBounds
            <4> QED
                BY <3>1, <3>4, <3>5, <4>1 DEF Expired
    <2> QED
        BY <2>2, <2>3 DEF KeyStep, Quiet, Recorded, Unrecorded
<1> QED
    BY <1>1, TypeCorrect, LimiterInvariant, PTL DEF Spec, RetryAfterWorks
==============================================================================
