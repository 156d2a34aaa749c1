----------------------------- MODULE ApiProcess -----------------------------
(***************************************************************************)
(* Requests on their way through the middlewares of an API process to the  *)
(* handlers: body limit, drain, rate limit, authentication, and then the   *)
(* probes or a run.  Every middleware is reached in a task of its own, so  *)
(* requests and the shutdown interleave between them.                      *)
(***************************************************************************)
EXTENDS ApiStartup

CONSTANTS
    Slots,        \* requests of one process
    Shapes,       \* what a request may look like, see ShapeType
    MaxRequests,  \* requests per bucket of the rate limiter
    MaxBody,      \* MAX_REQUEST_BODY_BYTES
    Peers,        \* addresses of TCP peers and of clients
    TrustProxy,   \* TRUST_PROXY_HEADERS
    Proxies,      \* the peers that match FORWARDED_ALLOW_IPS
    None

Posts == {"/run", "/packs"}     \* legacy runs, and runs of a pack
Paths == Posts \cup {"/docs", "/health", "/ready"}
\* "malformed": the request model does not parse it; "long": longer than the
\* policy of the pack allows; "binary": with a null byte.
Texts == {"plain", "blank", "malformed", "long", "binary"}
ShapeType ==
    [path : Paths,
     scheme : {"Bearer", "bearer", "none"},  \* of the Authorization header
     token : Keys \cup {None},               \* None: a token that is no key
     peer : Peers,
     xff : Peers \cup {None},                \* first client in X-Forwarded-For
     forwarded : Peers \cup {None},          \* first client in Forwarded
     declared : SUBSET Nat,                  \* Content-Length, if there is one
     garbled : BOOLEAN,                      \* a Content-Length that is no number
     length : Nat,                           \* of the body
     text : Texts]

\* Keys of the rate limiter: a token or an address, and the path.
Buckets == ({"token", "ip"} \X (Keys \cup Peers \cup {None})) \X Paths

ASSUME GateAssumption ==
    /\ Shapes \subseteq ShapeType
    /\ IsFiniteSet(Slots)
    /\ MaxRequests \in Nat \ {0}
    /\ MaxBody \in Nat
    /\ TrustProxy \in BOOLEAN
    /\ Proxies \subseteq Peers
    /\ None \notin Keys \cup Peers \cup Buckets

VARIABLES
    shape,    \* shape[i]: the request, or None
    pc,       \* pc[i]: the middleware that comes next, see Gates
    answer,   \* answer[i]: status of the response
    bucket,   \* bucket[i]: the rate-limit key the request was charged to
    saverOf   \* saverOf[i]: the saver a run keeps its checkpoints in

requestVars == <<shape, pc, answer, bucket, saverOf>>
vars == <<startupVars, requestVars>>

Gates == {"free", "body", "drain", "rate", "auth", "handler", "saver", "done"}

Init ==
    /\ StartupInit
    /\ shape = [i \in Slots |-> None]
    /\ pc = [i \in Slots |-> "free"]
    /\ answer = [i \in Slots |-> "none"]
    /\ bucket = [i \in Slots |-> None]
    /\ saverOf = [i \in Slots |-> "none"]

\* The sockets are open and the event loop is not blocked.
Serving == phase \in {"live", "cleanup"}
ShuttingDown == phase # "live"

DrainExempt == {"/health", "/ready"}
RateLimitExempt == {"/health", "/ready"}
AuthExempt == {"/docs", "/health", "/ready"}

Pass(i, gate) ==
    /\ pc' = [pc EXCEPT ![i] = gate]
    /\ UNCHANGED <<startupVars, shape, answer, saverOf>>

Respond(i, st) ==
    /\ pc' = [pc EXCEPT ![i] = "done"]
    /\ answer' = [answer EXCEPT ![i] = st]
    /\ UNCHANGED <<shape, bucket>>

Refuse(i, st) == Respond(i, st) /\ UNCHANGED <<startupVars, saverOf>>
-----------------------------------------------------------------------------
(* Plausible bugs, used to show that the properties are sensitive to them.  *)

\* Any configured key set is taken for a single shared key.
KeyByAddress(q) == <<"ip", q.peer>>

-----------------------------------------------------------------------------
Arrive(i) ==
    /\ pc[i] = "free" /\ Serving
    /\ \E q \in Shapes : shape' = [shape EXCEPT ![i] = q]
    /\ pc' = [pc EXCEPT ![i] = "body"]
    /\ UNCHANGED <<startupVars, answer, bucket, saverOf>>

\* ensure_request_body_within_limit: the announced length is trusted, a body
\* without one is read up to the limit.
WithinLimit(q) ==
    \/ q.path \notin Posts
    \/ /\ ~q.garbled
       /\ IF q.declared # {} THEN \A n \in q.declared : n <= MaxBody
          ELSE q.length <= MaxBody

body_size_limit(i) ==
    /\ pc[i] = "body" /\ Serving
    /\ IF WithinLimit(shape[i]) THEN Pass(i, "drain") /\ UNCHANGED bucket
       ELSE Refuse(i, "413")

drain(i) ==
    /\ pc[i] = "drain" /\ Serving
    /\ IF ShuttingDown /\ shape[i].path \notin DrainExempt
       THEN Refuse(i, "503")
       ELSE Pass(i, "rate") /\ UNCHANGED bucket

\* _peer_is_trusted, against the networks of FORWARDED_ALLOW_IPS
PeerIsTrusted(peer) == peer \in Proxies

\* resolve_client_ip: what a trusted proxy says, X-Forwarded-For first.
ClientIp(q) ==
    IF ~TrustProxy \/ ~PeerIsTrusted(q.peer) THEN q.peer
    ELSE IF q.xff # None THEN q.xff
    ELSE IF q.forwarded # None THEN q.forwarded
    ELSE q.peer

\* rate_limit_client_key: by token once there are two keys, whether or not the
\* token is one of them; the scheme is matched in any case.
ClientKey(q) ==
    IF Cardinality(resolved_api_keys) > 1 /\ q.scheme # "none"
    THEN <<"token", q.token>>
    ELSE <<"ip", ClientIp(q)>>

\* _rate_limit_endpoint_key
EndpointKey(q) == <<ClientKey(q), q.path>>

\* Requests the limiter has granted to a key within the window.
Granted(k) == Cardinality({j \in Slots : bucket[j] = k})

rate_limit(i) ==
    /\ pc[i] = "rate" /\ Serving
    /\ \/ /\ shape[i].path \in RateLimitExempt
          /\ Pass(i, "auth") /\ UNCHANGED bucket
       \/ /\ shape[i].path \notin RateLimitExempt
          /\ Granted(EndpointKey(shape[i])) < MaxRequests
          /\ Pass(i, "auth")
          /\ bucket' = [bucket EXCEPT ![i] = EndpointKey(shape[i])]
       \/ /\ shape[i].path \notin RateLimitExempt
          /\ Granted(EndpointKey(shape[i])) >= MaxRequests
          /\ Refuse(i, "429")

verify_bearer_token(token) == token \in resolved_api_keys

Authentic(q) == q.scheme = "Bearer" /\ verify_bearer_token(q.token)

\* verify_api_key, the dependency that pack routes have besides the middleware
verify_api_key(q) == resolved_api_keys = {} \/ Authentic(q)

\* auth_middleware lets the request on.
Admitted(q) == q.path \in AuthExempt \/ resolved_api_keys = {} \/ Authentic(q)

auth(i) ==
    /\ pc[i] = "auth" /\ Serving
    /\ IF Admitted(shape[i]) THEN Pass(i, "handler") /\ UNCHANGED bucket
       ELSE Refuse(i, "401")
-----------------------------------------------------------------------------
(* Handlers.                                                                *)

\* state.get_shared_llm: a failed initialisation is tried again.
get_shared_llm == llm' = (llm \/ get_llm)

\* GET /ready
ready(i) ==
    /\ pc[i] = "handler" /\ Serving /\ shape[i].path = "/ready"
    /\ IF ShuttingDown THEN UNCHANGED llm ELSE get_shared_llm
    /\ Respond(i, IF ~ShuttingDown /\ llm' /\ saver # "none" THEN "200" ELSE "503")
    /\ UNCHANGED <<config, phase, saver, open, registered, saverOf>>

\* GET /health answers 200 with a status.  The probe of the checkpointer asks
\* its backend, reachable or not, once a shared saver is there; SQLite is not
\* probed.  The run history answers for itself.
CheckpointerHealthy(reachable) ==
    saver # "none" /\ (config.backend = "sqlite" \/ reachable)

health(i) ==
    /\ pc[i] = "handler" /\ Serving /\ shape[i].path = "/health"
    /\ \E reachable, history \in BOOLEAN :
         Refuse(i, IF llm /\ CheckpointerHealthy(reachable) /\ history
                   THEN "200" ELSE "200 degraded")

\* The API pages exist outside production.
docs(i) ==
    /\ pc[i] = "handler" /\ Serving /\ shape[i].path = "/docs"
    /\ Refuse(i, IF config.env = "production" THEN "404" ELSE "200")

\* FastAPI builds the request model before the handler runs.
Parses(q) == q.text # "malformed"

\* validate_query_for_pack and check_content_safety
Safe(q) == q.text \notin {"long", "binary"}

\* What both handlers refuse, in this order.
RefuseBody(i) ==
    \/ ~Parses(shape[i]) /\ Respond(i, "422")
    \/ Parses(shape[i]) /\ ShuttingDown /\ Respond(i, "503")
    \/ Parses(shape[i]) /\ ~ShuttingDown /\ ~Safe(shape[i]) /\ Respond(i, "422")

\* POST /run up to the pool: body, shutdown, content, LLM.
run_pipeline(i) ==
    /\ pc[i] = "handler" /\ Serving /\ shape[i].path = "/run"
    /\ \/ RefuseBody(i) /\ UNCHANGED llm
       \/ /\ ~ShuttingDown /\ shape[i].text = "blank"
          /\ Respond(i, "400") /\ UNCHANGED llm
       \/ /\ ~ShuttingDown /\ shape[i].text = "plain"
          /\ get_shared_llm
          /\ IF llm' THEN /\ pc' = [pc EXCEPT ![i] = "saver"]
                          /\ UNCHANGED <<shape, answer, bucket>>
             ELSE Respond(i, "503")
    /\ UNCHANGED <<config, phase, saver, open, registered, saverOf>>

\* POST /packs/<id>/run: the key again, then the body.
run_pack(i) ==
    /\ pc[i] = "handler" /\ Serving /\ shape[i].path = "/packs"
    /\ verify_api_key(shape[i])
    /\ \/ RefuseBody(i)
       \/ /\ ~ShuttingDown /\ Parses(shape[i]) /\ Safe(shape[i])
          /\ Pass(i, "saver") /\ UNCHANGED bucket
    /\ UNCHANGED <<startupVars, saverOf>>

\* _execute, in a worker thread, also while the loop is blocked: the pack is
\* built with the LLM, if there is one now, and with a checkpointer.  It keeps
\* its checkpoints there and the run is answered by what becomes of it
\* (AgentPipeline).
Keep(i, kind) ==
    /\ get_shared_llm
    /\ saverOf' = [saverOf EXCEPT ![i] = kind]
    /\ Respond(i, "ran")
    /\ UNCHANGED <<config, phase, saver>>

\* The shared checkpointer ...
UseSharedSaver(i) ==
    /\ pc[i] = "saver" /\ saver # "none"
    /\ Keep(i, saver)
    /\ UNCHANGED <<open, registered>>

\* ... or one of its own: create_checkpointer, here without a saver,
CreateFallback(i) ==
    /\ pc[i] = "saver" /\ saver = "none" /\ ~SaverInstalled
    /\ Keep(i, IF FallbackAllowed THEN "MemorySaver" ELSE "none")
    /\ UNCHANGED <<open, registered>>

\* here with one: SQLite enters no context manager;
CreateSqlite(i) ==
    /\ pc[i] = "saver" /\ saver = "none" /\ SaverInstalled /\ config.backend = "sqlite"
    /\ \E kind \in {"durable", "none"} : Keep(i, kind)
    /\ UNCHANGED <<open, registered>>

\* _set_checkpointer_cm forgets the context manager registered before.
SetCheckpointerCm(i) ==
    /\ open' = open \cup {i}
    /\ registered' = (registered \ Slots) \cup {i}

\* Redis registers a saver it could enter,
CreateRedis(i) ==
    /\ pc[i] = "saver" /\ saver = "none" /\ SaverInstalled /\ config.backend = "redis"
    /\ \/ Keep(i, "durable") /\ SetCheckpointerCm(i)
       \/ Keep(i, "none") /\ UNCHANGED <<open, registered>>

\* and PostgreSQL before its setup(), which may fail.
CreatePostgres(i) ==
    /\ pc[i] = "saver" /\ saver = "none" /\ SaverInstalled /\ config.backend = "postgres"
    /\ \/ (\E kind \in {"durable", "none"} : Keep(i, kind)) /\ SetCheckpointerCm(i)
       \/ Keep(i, "none") /\ UNCHANGED <<open, registered>>

Request(i) ==
    \/ Arrive(i) \/ body_size_limit(i) \/ drain(i) \/ rate_limit(i) \/ auth(i)
    \/ ready(i) \/ health(i) \/ docs(i) \/ run_pipeline(i) \/ run_pack(i)
    \/ UseSharedSaver(i) \/ CreateFallback(i) \/ CreateSqlite(i) \/ CreateRedis(i)
    \/ CreatePostgres(i)

Next ==
    \/ /\ StartupNext
       /\ phase = "blocked" => \A i \in Slots : pc[i] # "saver"  \* shutdown(wait=True)
       /\ UNCHANGED requestVars
    \/ \E i \in Slots : Request(i)

Spec == Init /\ [][Next]_vars
-----------------------------------------------------------------------------
\* "falling back to MemorySaver (dev only)": outside development neither the
\* shared checkpointer nor one that a run builds for itself is a MemorySaver,
\* whatever fails at startup and is tried again later, and a process that says
\* it is ready has a durable one.
DurableUnlessDevelopment ==
    config.env # "development" =>
        /\ saver # "MemorySaver"
        /\ \A i \in Slots :
            /\ saverOf[i] # "MemorySaver"
            /\ answer[i] = "200" /\ shape[i].path = "/ready" => saver = "durable"

\* "Disable auth only in development/staging": in production no request gets
\* to a handler other than the probes and pages without a configured key.
ProductionAuthenticates ==
    \A i \in Slots :
        /\ config.env = "production"
        /\ pc[i] \in {"handler", "saver"}
        /\ shape[i].path \notin AuthExempt
        => Authentic(shape[i])

\* "each token gets its own bucket" in a multi-tenant deployment: a tenant is
\* turned away only for requests that carried its own key, although the limit
\* is charged before the key is verified.
TenantBudgetIsolated ==
    \A i \in Slots :
        answer[i] = "429" /\ Cardinality(resolved_api_keys) > 1 /\ Authentic(shape[i]) =>
            Cardinality({j \in Slots : bucket[j] # None
                                       /\ shape[j].token = shape[i].token
                                       /\ shape[j].path = shape[i].path}) >= MaxRequests
=============================================================================
