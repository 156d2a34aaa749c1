------------------------------ MODULE Connector ------------------------------
(***************************************************************************)
(* Retrieval through the connector that all pipelines of a process share.  *)
(* Each pipeline runs in a worker thread and awaits connector.fetch in an  *)
(* event loop of its own.  The SharePoint connector first asks its OAuth2  *)
(* token source, which caches one token behind one asyncio.Lock.           *)
(*                                                                         *)
(* That lock is made for the coroutines of one loop.  Used from several    *)
(* threads its methods interleave, so its acquire is taken apart into what *)
(* a thread reads and what it then writes, and waking a waiter reaches the *)
(* waiter only when its loop is not yet blocked in select().               *)
(***************************************************************************)
EXTENDS Naturals, Sequences, SequencesExt

CONSTANTS
    Threads,       \* worker threads, each running one pipeline
    PackOf,        \* PackOf[t]: "structured" or "research_analysis"
    Kinds,         \* values of settings.connector_id
    Margin,        \* TOKEN_REFRESH_MARGIN_SECONDS
    Lifetime,      \* expires_in of the tokens the provider issues
    MaxTime,       \* bound on the clock
    MaxStay,       \* bound on the time a thread is past the lock
    MaxRedirects,  \* settings.connector_http_max_redirects
    MaxBody,       \* max_response_bytes
    None

ASSUME ConnectorAssumption ==
    /\ PackOf \in [Threads -> {"structured", "research_analysis"}]
    /\ Kinds \subseteq {"http", "sharepoint", "gdrive", "rag"}
    /\ {Margin, Lifetime, MaxTime, MaxStay, MaxRedirects, MaxBody} \subseteq Nat
    /\ None \notin Threads /\ None \notin Nat

VARIABLES
    kind,      \* the connector that resolve_connector built at startup
    now,       \* time.monotonic()
    lock,      \* OAuth2ClientCredentials._lock
    woken,     \* threads whose future in the lock's queue has its result
    asleep,    \* threads whose loop is blocked in select(), nothing scheduled
    token,     \* OAuth2ClientCredentials._token, as the time it really expires
    expiresAt, \* OAuth2ClientCredentials._expires_at
    pc,        \* pc[t]: what the fetch of t does next, see Places
    since,     \* since[t]: when t went past the lock, or None
    slow,      \* history: a thread was past the lock for more than Margin / 3
    issued,    \* issued[t]: when the token the provider issued to t expires
    hops,      \* hops[t]: redirects followed
    outcome    \* outcome[t]: what the pipeline got

clockVars == <<now, slow>>
lockVars == <<lock, woken, asleep>>
cacheVars == <<token, expiresAt>>
vars == <<kind, clockVars, lockVars, cacheVars, pc, since, issued, hops, outcome>>

\* "claiming": acquire found the lock free; "contending": it did not;
\* "holding": past the lock; "hit": the cached token was found fresh;
\* "asking": awaiting the token endpoint; "storing": _token is written and
\* _expires_at is not; "search": awaiting the search endpoint.
Places == {"idle", "claiming", "contending", "waiting", "holding", "hit", "asking",
           "storing", "search", "done"}
Init ==
    /\ kind \in Kinds
    /\ now = 0 /\ slow = FALSE
    /\ lock = [locked |-> FALSE, waiters |-> <<>>, loop |-> None]
    /\ woken = {} /\ asleep = {}
    /\ token = None /\ expiresAt = 0
    /\ pc = [t \in Threads |-> "idle"]
    /\ since = [t \in Threads |-> None]
    /\ issued = [t \in Threads |-> None]
    /\ hops = [t \in Threads |-> 0]
    /\ outcome = [t \in Threads |-> "none"]

Goto(t, place) == pc' = [pc EXCEPT ![t] = place]

\* A pack calls connector.fetch: its worker thread has no running loop, and
\* starts one for this call (anyio.run, asyncio.run).
StructuredCalls(t) == PackOf[t] = "structured" /\ pc[t] = "idle"
ResearchCalls(t) == PackOf[t] = "research_analysis" /\ pc[t] = "idle"
Called(t) == StructuredCalls(t) \/ ResearchCalls(t)

\* An exception leaves connector.fetch.  _resolve_reference_text logs it and
\* goes on without references; _research_node turns it into a failed run.
Raise(t) ==
    /\ Goto(t, "done")
    /\ outcome' = [outcome EXCEPT ![t] =
                    IF PackOf[t] = "structured" THEN "skipped" ELSE "failed"]
-----------------------------------------------------------------------------
(* Plausible bugs, used to show that the properties are sensitive to them.  *)

\* The margin is forgotten.
FreshUntilExpiry == token # None /\ now < expiresAt

\* Redirects are counted per host: a redirect to the first host starts again.
FollowPerHost(t) ==
    /\ pc[t] = "search" /\ kind = "http"
    /\ \/ hops[t] < MaxRedirects /\ hops' = [hops EXCEPT ![t] = @ + 1]
       \/ hops[t] > 0 /\ hops' = [hops EXCEPT ![t] = 0]
    /\ UNCHANGED <<kind, clockVars, lockVars, cacheVars, pc, since, issued, outcome>>
-----------------------------------------------------------------------------
(* asyncio.Lock.                                                            *)

\* `async with self._lock`: acquire looks at _locked and _waiters ...
get_token(t) ==
    /\ Called(t) /\ kind = "sharepoint"
    /\ Goto(t, IF ~lock.locked /\ lock.waiters = <<>> THEN "claiming" ELSE "contending")
    /\ UNCHANGED <<kind, clockVars, lockVars, cacheVars, since, issued, hops, outcome>>

\* ... and sets _locked, at once or when it was woken.
Enter(t, waiters) ==
    /\ lock' = [lock EXCEPT !.locked = TRUE, !.waiters = waiters]
    /\ Goto(t, "holding")
    /\ since' = [since EXCEPT ![t] = now]
    /\ UNCHANGED <<kind, clockVars, woken, asleep, cacheVars, issued, hops, outcome>>

Claim(t) == pc[t] = "claiming" /\ Enter(t, lock.waiters)

\* A contended acquire binds the lock to the loop of its thread ...
Enqueue(t) ==
    /\ pc[t] = "contending"
    /\ lock.loop = None
    /\ lock' = [lock EXCEPT !.waiters = Append(@, t), !.loop = t]
    /\ Goto(t, "waiting")
    /\ UNCHANGED <<kind, clockVars, woken, asleep, cacheVars, since, issued, hops, outcome>>

\* ... and raises RuntimeError when it is bound to another loop already.
WrongLoop(t) ==
    /\ pc[t] = "contending"
    /\ lock.loop # None
    /\ Raise(t)
    /\ UNCHANGED <<kind, clockVars, lockVars, cacheVars, since, issued, hops>>

\* The loop of a waiting thread has nothing to run and nothing scheduled.
FallAsleep(t) ==
    /\ pc[t] = "waiting" /\ t \notin woken \cup asleep
    /\ asleep' = asleep \cup {t}
    /\ UNCHANGED <<kind, clockVars, lock, woken, cacheVars, pc, since, issued, hops, outcome>>

Wake(t) ==
    /\ pc[t] = "waiting" /\ t \in woken \ asleep
    /\ Enter(t, Remove(lock.waiters, t))

\* release: set_result on the first waiter's future, from this thread.
release ==
    /\ lock' = [lock EXCEPT !.locked = FALSE]
    /\ woken' = IF lock.waiters = <<>> THEN woken ELSE woken \cup {Head(lock.waiters)}
    /\ UNCHANGED asleep

\* The end of the async with block.  When two threads got past the lock, the
\* second release raises RuntimeError.
Leave(t) ==
    /\ IF lock.locked
       THEN release /\ Goto(t, "search") /\ UNCHANGED outcome
       ELSE Raise(t) /\ UNCHANGED lockVars
    /\ since' = [since EXCEPT ![t] = None]
    /\ issued' = [issued EXCEPT ![t] = None]
    /\ UNCHANGED <<kind, clockVars, hops>>
-----------------------------------------------------------------------------
(* The token cache.                                                         *)

Fresh == token # None /\ now + Margin < expiresAt

CheckToken(t) ==
    /\ pc[t] = "holding"
    /\ Goto(t, IF Fresh THEN "hit" ELSE "asking")
    /\ UNCHANGED <<kind, clockVars, lockVars, cacheVars, since, issued, hops, outcome>>

\* return self._token
ReuseToken(t) ==
    /\ pc[t] = "hit"
    /\ Leave(t)
    /\ UNCHANGED cacheVars

\* The token endpoint issues a token; its answer is under way.
IssueToken(t) ==
    /\ pc[t] = "asking" /\ issued[t] = None
    /\ issued' = [issued EXCEPT ![t] = now + Lifetime]
    /\ UNCHANGED <<kind, clockVars, lockVars, cacheVars, pc, since, hops, outcome>>

\* self._token = token
StoreToken(t) ==
    /\ pc[t] = "asking" /\ issued[t] # None
    /\ token' = issued[t]
    /\ Goto(t, "storing")
    /\ UNCHANGED <<kind, clockVars, lockVars, expiresAt, since, issued, hops, outcome>>

\* self._expires_at = time.monotonic() + expires_in
StoreExpiry(t) ==
    /\ pc[t] = "storing"
    /\ expiresAt' = now + Lifetime
    /\ Leave(t)
    /\ UNCHANGED token

\* A blocked URL, an HTTP error or timeout, no access_token in the answer: the
\* exception leaves through the async with block.
TokenRefused(t) ==
    /\ pc[t] = "asking"
    /\ IF lock.locked THEN release ELSE UNCHANGED lockVars
    /\ Raise(t)
    /\ since' = [since EXCEPT ![t] = None]
    /\ issued' = [issued EXCEPT ![t] = None]
    /\ UNCHANGED <<kind, clockVars, cacheVars, hops>>
-----------------------------------------------------------------------------
(* Outbound requests.  Which of the URLs and responses below a thread meets is *)
(* up to the network, so an action chooses among the outcomes they can have.   *)

Urls == [web : BOOLEAN,                           \* http or https, with a host
         addresses : SUBSET {"public", "internal"}]  \* what its host resolves to

\* _is_blocked_outbound_ip
Blocked(address) == address = "internal"

\* _resolve_outbound_host_ips: a literal address or all answers of the resolver;
\* no answer is an error.
Resolved(u) == u.addresses # {}

validate_outbound_url(u) ==
    u.web /\ Resolved(u) /\ \A a \in u.addresses : ~Blocked(a)

UrlChecks == {validate_outbound_url(u) : u \in Urls}

Responses == [ok : BOOLEAN,                       \* not an error, nor a redirect
              announced : {{}, {1}, {2}},         \* Content-Length, if any
              length : {1, 2},                    \* bytes read
              json : BOOLEAN,                     \* Content-Type
              wellFormed : BOOLEAN]               \* parses as JSON of the right shape

\* _read_response_body_bounded; the limit is MaxBody.
ReadBounded(r) == (\A n \in r.announced : n <= MaxBody) /\ r.length <= MaxBody

\* raise_for_status, the body, and the parser: the HTTP connector takes a body
\* that is not JSON as text, the others expect JSON.
HttpRecords(r) == r.ok /\ ReadBounded(r) /\ (r.json => r.wellFormed)
GraphRecords(r) == r.ok /\ ReadBounded(r) /\ r.wellFormed
DriveRecords(r) == r.ok /\ ReadBounded(r) /\ r.wellFormed

HttpOutcomes == {HttpRecords(r) : r \in Responses}
GraphOutcomes == {GraphRecords(r) : r \in Responses}
DriveOutcomes == {DriveRecords(r) : r \in Responses}

\* connector.fetch returns its records, or raises.
Conclude(t, returned) ==
    /\ IF returned THEN Goto(t, "done") /\ outcome' = [outcome EXCEPT ![t] = "records"]
       ELSE Raise(t)
    /\ UNCHANGED <<kind, clockVars, lockVars, cacheVars, since, issued, hops>>

\* Send the request, or raise when its URL is refused.
Send(t, allowed) ==
    /\ IF allowed THEN Goto(t, "search") /\ UNCHANGED outcome ELSE Raise(t)
    /\ UNCHANGED <<kind, clockVars, lockVars, cacheVars, since, issued, hops>>

\* HttpConnector.fetch and GoogleDriveConnector.fetch need no token, or have one.
HttpFetch(t) ==
    Called(t) /\ kind = "http" /\ \E allowed \in UrlChecks : Send(t, allowed)
DriveFetch(t) ==
    Called(t) /\ kind = "gdrive" /\ \E allowed \in UrlChecks : Send(t, allowed)

\* RagConnector.fetch: a similarity search in the calling thread.
RagFetch(t) ==
    Called(t) /\ kind = "rag" /\ \E returned \in BOOLEAN : Conclude(t, returned)

\* httpx follows a redirect of the HTTP connector whose target the request hook
\* lets through ...
FollowRedirect(t) ==
    /\ pc[t] = "search" /\ kind = "http"
    /\ hops[t] < MaxRedirects
    /\ \E u \in Urls : validate_outbound_url(u)
    /\ hops' = [hops EXCEPT ![t] = @ + 1]
    /\ UNCHANGED <<kind, clockVars, lockVars, cacheVars, pc, since, issued, outcome>>

\* ... and raises for a blocked target or a redirect too many.
RefuseRedirect(t) ==
    /\ pc[t] = "search" /\ kind = "http"
    /\ hops[t] >= MaxRedirects \/ \E u \in Urls : ~validate_outbound_url(u)
    /\ Conclude(t, FALSE)

\* The endpoint answers (or does not: a timeout is a response that is not ok).
HttpAnswer(t) ==
    /\ pc[t] = "search" /\ kind = "http"
    /\ \E returned \in HttpOutcomes : Conclude(t, returned)

\* SharePointConnector.fetch from the token on, its URL check included.
SharePointAnswer(t) ==
    /\ pc[t] = "search" /\ kind = "sharepoint"
    /\ \E allowed \in UrlChecks, returned \in GraphOutcomes :
         Conclude(t, allowed /\ returned)

DriveAnswer(t) ==
    /\ pc[t] = "search" /\ kind = "gdrive"
    /\ \E returned \in DriveOutcomes : Conclude(t, returned)
-----------------------------------------------------------------------------
\* Time passes.  Nothing in the code bounds the stay of a thread past the lock: the
\* resolver blocks, and the timeout of httpx is one for every connect, read and
\* write.  MaxStay is to be longer than a third of the margin.
Tick ==
    /\ now < MaxTime
    /\ \A t \in Threads : since[t] # None => now - since[t] < MaxStay
    /\ now' = now + 1
    /\ slow' = (slow \/ \E t \in Threads : since[t] # None /\ 3 * (now' - since[t]) > Margin)
    /\ UNCHANGED <<kind, lockVars, cacheVars, pc, since, issued, hops, outcome>>

Step(t) ==
    \/ get_token(t) \/ Claim(t) \/ Enqueue(t) \/ WrongLoop(t)
    \/ FallAsleep(t) \/ Wake(t)
    \/ CheckToken(t) \/ ReuseToken(t) \/ IssueToken(t) \/ StoreToken(t)
    \/ StoreExpiry(t) \/ TokenRefused(t)
    \/ HttpFetch(t) \/ DriveFetch(t) \/ RagFetch(t)
    \/ FollowRedirect(t) \/ RefuseRedirect(t)
    \/ HttpAnswer(t) \/ SharePointAnswer(t) \/ DriveAnswer(t)

Next == Tick \/ \E t \in Threads : Step(t)

Spec == Init /\ [][Next]_vars

\* Threads are scheduled, and endpoints answer or time out.
FairSpec == Spec /\ \A t \in Threads : WF_vars(Step(t))
-----------------------------------------------------------------------------
\* "Seconds before actual expiry at which a cached token is considered stale":
\* the margin covers three stays past the lock.  As long as none took more than a
\* third of it, a cached token has not expired when it is handed out, even when
\* two threads are past the lock and the expiry of one is stored with the token of
\* the other.
ReusedTokenIsLive ==
    [][\A t \in Threads :
         pc[t] = "hit" /\ pc'[t] = "search" /\ ~slow => now < token]_vars

\* A fetch ends, with records or an exception, whatever the endpoints do and
\* whatever becomes of the lock.  Only the thread that bound the lock to its
\* loop can be left behind, asleep in the lock's queue.
EndsUnlessAsleep ==
    \A t \in Threads :
        pc[t] # "idle" ~> pc[t] = "done" \/ (t \in asleep /\ lock.loop = t)

\* get_token is to "return a valid access token": a pipeline that asks for one
\* gets an answer.
EveryFetchEnds == \A t \in Threads : pc[t] # "idle" ~> pc[t] = "done"
=============================================================================
