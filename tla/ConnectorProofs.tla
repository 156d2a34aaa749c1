--------------------------- MODULE ConnectorProofs ---------------------------
(* Proofs about the OAuth2 token cache, for every number of threads and every *)
(* lifetime and margin.  The lock plays no part in them: the margin makes up  *)
(* for whatever gets past it, as long as no stay past it takes more than a    *)
(* third of the margin.                                                       *)
EXTENDS Connector, TLAPS

\* Threads between the lock and the end of the async with block.
Past == {"holding", "hit", "asking", "storing"}

CacheTypes ==
    /\ now \in Nat /\ expiresAt \in Nat /\ slow \in BOOLEAN
    /\ token \in Nat \cup {None}
    /\ pc \in [Threads -> Places]
    /\ since \in [Threads -> Nat \cup {None}]
    /\ issued \in [Threads -> Nat \cup {None}]

\* Unless one was slow, threads are past the lock for a third of the margin at
\* most, and the token a thread was issued lives from then on.
LatencyInv ==
    \A t \in Threads :
        /\ pc[t] \in Past => since[t] \in Nat
        /\ since[t] \in Nat => since[t] <= now /\ (~slow => 3 * now <= 3 * since[t] + Margin)
        /\ issued[t] \in Nat => /\ pc[t] \in {"asking", "storing"}
                                /\ issued[t] >= since[t] + Lifetime
        /\ pc[t] = "storing" =>
            /\ token \in Nat
            /\ ~slow => 3 * token + Margin >= 3 * since[t] + 3 * Lifetime

\* The expiry that is stored is not much later than that of the token.
ExpiryInv ==
    /\ expiresAt <= now + Lifetime
    /\ expiresAt > 0 => token \in Nat
    /\ token \in Nat /\ ~slow => 3 * token + 2 * Margin >= 3 * expiresAt

\* A token found fresh outlives the stay of the thread past the lock.
HitInv ==
    \A t \in Threads : pc[t] = "hit" =>
        /\ token \in Nat /\ Lifetime > Margin
        /\ ~slow => 3 * token > 3 * since[t] + Margin

CacheInv == CacheTypes /\ LatencyInv /\ ExpiryInv /\ HitInv

\* What a step of a thread does to the cache and to the thread's stay past the
\* lock: nothing, it enters, it looks, it is issued a token, it stores it, it
\* leaves, perhaps with the expiry stored.
Outside(t) ==
    /\ pc[t] \notin Past /\ pc'[t] \notin Past
    /\ UNCHANGED <<token, expiresAt, since, issued>>

Enters(t) ==
    /\ pc[t] \notin Past /\ pc'[t] = "holding"
    /\ since' = [since EXCEPT ![t] = now]
    /\ UNCHANGED <<token, expiresAt, issued>>

Looks(t) ==
    /\ pc[t] = "holding" /\ pc'[t] = IF Fresh THEN "hit" ELSE "asking"
    /\ UNCHANGED <<token, expiresAt, since, issued>>

IsIssued(t) ==
    /\ pc[t] = "asking" /\ pc'[t] = "asking"
    /\ issued' = [issued EXCEPT ![t] = now + Lifetime]
    /\ UNCHANGED <<token, expiresAt, since>>

Stores(t) ==
    /\ pc[t] = "asking" /\ pc'[t] = "storing"
    /\ issued[t] # None /\ token' = issued[t]
    /\ UNCHANGED <<expiresAt, since, issued>>

Leaves(t) ==
    /\ pc[t] \in Past /\ pc'[t] \notin Past
    /\ since' = [since EXCEPT ![t] = None]
    /\ issued' = [issued EXCEPT ![t] = None]
    /\ UNCHANGED token
    /\ \/ UNCHANGED expiresAt
       \/ pc[t] = "storing" /\ expiresAt' = now + Lifetime

\* Every step of a thread is one of these.
LEMMA StepMoves ==
    ASSUME CacheTypes, NEW t \in Threads, Step(t)
    PROVE  /\ now' = now /\ slow' = slow
           /\ pc' = [pc EXCEPT ![t] = pc'[t]] /\ pc'[t] \in Places
           /\ \/ Outside(t) \/ Enters(t) \/ Looks(t) \/ IsIssued(t) \/ Stores(t) \/ Leaves(t)
<1> USE DEF CacheTypes, Goto, Raise, clockVars, cacheVars, lockVars, Past, Places
<1>1. CASE get_token(t) \/ Enqueue(t) \/ WrongLoop(t)
    BY <1>1 DEF get_token, Called, StructuredCalls, ResearchCalls, Enqueue, WrongLoop, Outside
<1>2. CASE Claim(t) \/ Wake(t)
    BY <1>2 DEF Claim, Wake, Enter, Enters
<1>3. CASE FallAsleep(t)
    BY <1>3 DEF FallAsleep, Outside
<1>4. CASE CheckToken(t)
    BY <1>4 DEF CheckToken, Looks
<1>5. CASE ReuseToken(t)
    BY <1>5 DEF ReuseToken, Leave, Leaves
<1>6. CASE IssueToken(t)
    BY <1>6 DEF IssueToken, IsIssued
<1>7. CASE StoreToken(t)
    BY <1>7 DEF StoreToken, Stores
<1>8. CASE StoreExpiry(t)
    BY <1>8 DEF StoreExpiry, Leave, Leaves
<1>9. CASE TokenRefused(t)
    BY <1>9 DEF TokenRefused, Leaves
<1>10. CASE HttpFetch(t) \/ DriveFetch(t)
    BY <1>10 DEF HttpFetch, DriveFetch, Called, StructuredCalls, ResearchCalls, Send, Outside
<1>11. CASE RagFetch(t)
    BY <1>11 DEF RagFetch, Called, StructuredCalls, ResearchCalls, Conclude, Outside
<1>12. CASE FollowRedirect(t) \/ RefuseRedirect(t)
    BY <1>12 DEF FollowRedirect, RefuseRedirect, Conclude, Outside
<1>13. CASE HttpAnswer(t) \/ SharePointAnswer(t) \/ DriveAnswer(t)
    BY <1>13 DEF HttpAnswer, SharePointAnswer, DriveAnswer, Conclude, Outside
<1> QED
    BY <1>1, <1>2, <1>3, <1>4, <1>5, <1>6, <1>7, <1>8, <1>9, <1>10, <1>11, <1>12, <1>13
    DEF Step

\* The constants, as the arithmetic uses them.
LEMMA Numbers ==
    /\ Margin \in Nat /\ Lifetime \in Nat /\ None \notin Nat
BY ConnectorAssumption

\* A token issued since someone went past the lock, at a time not later than n.
LEMMA IssuedSince ==
    ASSUME NEW a \in Nat, NEW n \in Nat, NEW k \in Nat,
           k >= a + Lifetime, 3 * n <= 3 * a + Margin
    PROVE  3 * k + Margin >= 3 * n + 3 * Lifetime
BY Numbers

\* The state stays well typed.
LEMMA StepTypes ==
    ASSUME CacheTypes, NEW t \in Threads, Step(t)
    PROVE  CacheTypes'
<1>1. now' = now /\ slow' = slow /\ pc' = [pc EXCEPT ![t] = pc'[t]] /\ pc'[t] \in Places
    BY StepMoves
<1>2. since' \in [Threads -> Nat \cup {None}] /\ issued' \in [Threads -> Nat \cup {None}]
    BY StepMoves, Numbers
    DEF CacheTypes, Outside, Enters, Looks, IsIssued, Stores, Leaves
<1>3. token' \in Nat \cup {None} /\ expiresAt' \in Nat
    BY StepMoves, Numbers
    DEF CacheTypes, Outside, Enters, Looks, IsIssued, Stores, Leaves
<1> QED
    BY <1>1, <1>2, <1>3 DEF CacheTypes

\* Steps that leave token and expiry alone.
LEMMA StepPreserves ==
    ASSUME CacheInv, NEW t \in Threads, Step(t)
    PROVE  LatencyInv' /\ ExpiryInv' /\ HitInv'
<1> USE Numbers DEF Past
<1>1. CacheTypes /\ LatencyInv /\ ExpiryInv /\ HitInv /\ CacheTypes'
    BY StepTypes DEF CacheInv
<1>2. now' = now /\ slow' = slow /\ \A u \in Threads \ {t} : pc'[u] = pc[u]
    BY <1>1, StepMoves DEF CacheTypes
<1>3. CASE Outside(t)
  <2>1. LatencyInv'
    BY <1>1, <1>2, <1>3 DEF Outside, LatencyInv
  <2>2. ExpiryInv' /\ HitInv'
    BY <1>1, <1>2, <1>3 DEF Outside, ExpiryInv, HitInv
  <2> QED
    BY <2>1, <2>2
<1>4. CASE Enters(t)
  <2>1. since'[t] = now /\ \A u \in Threads \ {t} : since'[u] = since[u]
    BY <1>1, <1>4 DEF Enters, CacheTypes
  <2>2. LatencyInv'
    BY <1>1, <1>2, <1>4, <2>1 DEF Enters, LatencyInv, CacheTypes
  <2>3. ExpiryInv' /\ HitInv'
    BY <1>1, <1>2, <1>4, <2>1 DEF Enters, ExpiryInv, HitInv
  <2> QED
    BY <2>2, <2>3
<1>5. CASE Looks(t)
  <2>1. LatencyInv'
    BY <1>1, <1>2, <1>5 DEF Looks, LatencyInv, CacheTypes
  <2>2. ExpiryInv'
    BY <1>1, <1>2, <1>5 DEF Looks, ExpiryInv
  <2>3. since[t] \in Nat /\ since[t] <= now
    BY <1>1, <1>5 DEF Looks, LatencyInv
  <2>4. Fresh => /\ token \in Nat /\ Lifetime > Margin
                 /\ ~slow => 3 * token > 3 * since[t] + Margin
    BY <1>1, <2>3 DEF Fresh, ExpiryInv, CacheTypes
  <2>5. HitInv'
    BY <1>1, <1>2, <1>5, <2>4 DEF Looks, HitInv
  <2> QED
    BY <2>1, <2>2, <2>5
<1>6. CASE IsIssued(t)
  <2>1. issued'[t] = now + Lifetime /\ \A u \in Threads \ {t} : issued'[u] = issued[u]
    BY <1>1, <1>6 DEF IsIssued, CacheTypes
  <2>2. since[t] \in Nat /\ since[t] <= now
    BY <1>1, <1>6 DEF IsIssued, LatencyInv
  <2>3. LatencyInv'
    BY <1>1, <1>2, <1>6, <2>1, <2>2 DEF IsIssued, LatencyInv, CacheTypes
  <2>4. ExpiryInv' /\ HitInv'
    BY <1>1, <1>2, <1>6 DEF IsIssued, ExpiryInv, HitInv
  <2> QED
    BY <2>3, <2>4
<1>7. CASE Stores(t)
  <2>1. /\ since[t] \in Nat /\ since[t] <= now
        /\ ~slow => 3 * now <= 3 * since[t] + Margin
        /\ token' \in Nat /\ token' >= since[t] + Lifetime
    BY <1>1, <1>7 DEF Stores, LatencyInv, CacheTypes
  <2>2. now \in Nat /\ (~slow => 3 * token' + Margin >= 3 * now + 3 * Lifetime)
    <3>1. now \in Nat
        BY <1>1 DEF CacheTypes
    <3> QED
        BY <2>1, <3>1, IssuedSince
  <2>3. LatencyInv'
    BY <1>1, <1>2, <1>7, <2>1, <2>2 DEF Stores, LatencyInv, CacheTypes
  <2>4. ExpiryInv'
    BY <1>1, <1>2, <1>7, <2>2 DEF Stores, ExpiryInv, CacheTypes
  <2>5. ASSUME NEW u \in Threads, pc'[u] = "hit"
        PROVE  Lifetime > Margin /\ (~slow => 3 * token' > 3 * since'[u] + Margin)
    <3>1. pc[u] = "hit" /\ since'[u] = since[u] /\ Lifetime > Margin
        BY <1>1, <1>2, <1>7, <2>5 DEF Stores, HitInv
    <3>2. since[u] \in Nat /\ since[u] <= now
        BY <1>1, <3>1 DEF LatencyInv
    <3> QED
        BY <2>1, <2>2, <3>1, <3>2
  <2> QED
    BY <1>2, <2>1, <2>3, <2>4, <2>5 DEF HitInv
<1>8. CASE Leaves(t)
  <2>1. /\ since'[t] = None /\ issued'[t] = None
        /\ \A u \in Threads \ {t} : since'[u] = since[u] /\ issued'[u] = issued[u]
    BY <1>1, <1>8 DEF Leaves, CacheTypes
  <2>2. LatencyInv'
    BY <1>1, <1>2, <1>8, <2>1 DEF Leaves, LatencyInv
  <2>3. HitInv'
    BY <1>1, <1>2, <1>8, <2>1 DEF Leaves, HitInv
  <2>4. CASE UNCHANGED expiresAt
    BY <1>1, <1>2, <1>8, <2>2, <2>3, <2>4 DEF Leaves, ExpiryInv
  <2>5. CASE pc[t] = "storing" /\ expiresAt' = now + Lifetime
    <3>1. /\ token \in Nat /\ since[t] \in Nat
          /\ ~slow => /\ 3 * token + Margin >= 3 * since[t] + 3 * Lifetime
                      /\ 3 * now <= 3 * since[t] + Margin
        BY <1>1, <2>5 DEF LatencyInv
    <3>2. ExpiryInv'
        BY <1>1, <1>2, <1>8, <2>5, <3>1 DEF Leaves, ExpiryInv, CacheTypes
    <3> QED
        BY <2>2, <2>3, <3>2
  <2> QED
    BY <1>8, <2>4, <2>5 DEF Leaves
<1> QED
    BY <1>1, <1>3, <1>4, <1>5, <1>6, <1>7, <1>8, StepMoves

\* Time, and the steps of all threads.
LEMMA CacheStep ==
    ASSUME CacheInv, [Next]_vars
    PROVE  CacheInv'
<1> USE Numbers
<1>1. CASE Tick
  <2>1. /\ now' = now + 1 /\ UNCHANGED <<token, expiresAt, pc, since, issued>>
        /\ slow' \in BOOLEAN /\ (~slow' => ~slow)
        /\ ~slow' => \A t \in Threads : since[t] # None => ~(3 * ((now + 1) - since[t]) > Margin)
    BY <1>1 DEF Tick, cacheVars
  <2>2. CacheTypes'
    BY <2>1 DEF CacheInv, CacheTypes
  <2>3. LatencyInv'
    BY <2>1 DEF CacheInv, CacheTypes, LatencyInv
  <2>4. ExpiryInv' /\ HitInv'
    BY <2>1 DEF CacheInv, CacheTypes, ExpiryInv, HitInv
  <2> QED
    BY <2>2, <2>3, <2>4 DEF CacheInv
<1>2. ASSUME NEW t \in Threads, Step(t)
      PROVE  CacheInv'
    BY <1>2, StepTypes, StepPreserves DEF CacheInv
<1>3. CASE UNCHANGED vars
    BY <1>3 DEF vars, clockVars, cacheVars, CacheInv, CacheTypes, LatencyInv, ExpiryInv, HitInv
<1> QED
    BY <1>1, <1>2, <1>3 DEF Next

\* An empty cache, and nobody past the lock.
LEMMA CacheInit ==
    ASSUME Init
    PROVE  CacheInv
<1> USE Numbers DEF Init
<1>1. CacheTypes
    BY DEF CacheTypes, Places
<1>2. LatencyInv
    BY DEF LatencyInv, Past
<1>3. ExpiryInv /\ HitInv
    BY DEF ExpiryInv, HitInv
<1> QED
    BY <1>1, <1>2, <1>3 DEF CacheInv

\* As long as nobody has been past the lock for more than a third of the margin, a
\* token from the cache is handed out before it expires, whichever threads got past
\* the lock and mixed their tokens and expiries
\* (OAuth2ClientCredentials.get_token, TOKEN_REFRESH_MARGIN_SECONDS).
THEOREM ReusedTokensLive == Spec => ReusedTokenIsLive
<1>1. Init => CacheInv
    BY CacheInit
<1>2. CacheInv /\ [Next]_vars => CacheInv'
    BY CacheStep
<1>3. CacheInv /\ [Next]_vars =>
        [\A t \in Threads :
            pc[t] = "hit" /\ pc'[t] = "search" /\ ~slow => now < token]_vars
  <2> SUFFICES ASSUME CacheInv, NEW t \in Threads, pc[t] = "hit", ~slow
               PROVE  now < token
    OBVIOUS
  <2>1. /\ token \in Nat /\ 3 * token > 3 * since[t] + Margin
        /\ since[t] \in Nat /\ 3 * now <= 3 * since[t] + Margin
    BY DEF CacheInv, HitInv, LatencyInv, Past
  <2> QED
    BY <2>1, Numbers DEF CacheInv, CacheTypes
<1> QED
    BY <1>1, <1>2, <1>3, PTL DEF Spec, ReusedTokenIsLive

\* The same of the specification the runs check.
COROLLARY FairReusedTokensLive == FairSpec => ReusedTokenIsLive
BY ReusedTokensLive, PTL DEF FairSpec
=============================================================================
