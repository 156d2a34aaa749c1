-------------------------- MODULE ApiProcessProofs --------------------------
(* Proofs about the startup of an API process and its middlewares, for every *)
(* set of deployments, keys and requests and every limit.                    *)
EXTENDS ApiProcess, FiniteSetTheorems, TLAPS

\* What a request may be answered; "ran" is whatever becomes of the run.
Answers == {"none", "200", "200 degraded", "400", "401", "404", "413", "422", "429",
            "503", "ran"}

\* The state is well typed; llm, open and registered play no part.
ProcessTypes ==
    /\ config \in Configs /\ phase \in Phases /\ saver \in Savers
    /\ shape \in [Slots -> Shapes \cup {None}]
    /\ pc \in [Slots -> Gates]
    /\ answer \in [Slots -> Answers]
    /\ bucket \in [Slots -> Buckets \cup {None}]
    /\ saverOf \in [Slots -> Savers]

\* The checkpointer may still change; nobody is served yet.
Starting == {"settings", "stores", "llm", "saver", "setup"}

\* How far a request has come says what is known of it: it arrives after the
\* startup, is charged behind the rate limiter and answered at the end.
ProgressInv ==
    \A i \in Slots :
        /\ pc[i] # "free" => shape[i] \in Shapes /\ phase \notin Starting
        /\ pc[i] # "done" => answer[i] = "none"
        /\ pc[i] \in {"free", "body", "drain", "rate"} => bucket[i] = None
        /\ bucket[i] # None => bucket[i] = EndpointKey(shape[i])

\* Settings() refuses a production process without keys.
KeysInv ==
    phase \notin {"settings", "failed"} =>
        (config.env = "production" => resolved_api_keys # {})

ProcessInv ==
    /\ ProcessTypes /\ ProgressInv /\ KeysInv
    /\ DurableUnlessDevelopment /\ ProductionAuthenticates /\ TenantBudgetIsolated

\* What a step of the lifespan may do to the shared checkpointer and the phase.
LEMMA StartupShape ==
    ASSUME StartupNext, phase \in Phases, saver \in Savers
    PROVE  /\ config' = config
           /\ phase' \in Phases /\ saver' \in Savers
           /\ saver' = saver \/ phase \in Starting
           /\ saver' = "MemorySaver" => saver = "MemorySaver" \/ FallbackAllowed
           /\ phase' \in Starting => phase \in Starting
           /\ phase' \notin {"settings", "failed"} /\ phase = "settings" => ValidSettings
           /\ phase' \notin {"settings", "failed"} => phase # "failed"
<1> USE DEF Phases, Savers, Starting
<1>1. CASE get_settings \/ OpenStores
    BY <1>1 DEF get_settings, OpenStores
<1>2. CASE InitLlm \/ FallBack
    BY <1>2 DEF InitLlm, GiveUpBoth, FallBack
<1>3. CASE init_checkpointer \/ SetupSaver
    BY <1>3 DEF init_checkpointer, SetupSaver, GiveUpBoth
<1>4. CASE ResolvePacks \/ GoLive \/ BeginShutdown \/ PoolDrained \/ Cleanup
    BY <1>4 DEF ResolvePacks, GoLive, BeginShutdown, PoolDrained, Cleanup
<1> QED
    BY <1>1, <1>2, <1>3, <1>4 DEF StartupNext

\* A request changes its own slot only, and none of the shared state that the
\* properties are about.
LEMMA RequestFrame ==
    ASSUME ProcessTypes, NEW i \in Slots, Request(i)
    PROVE  /\ UNCHANGED <<config, phase, saver>>
           /\ pc' = [pc EXCEPT ![i] = pc'[i]]
           /\ shape' = [shape EXCEPT ![i] = shape'[i]]
           /\ answer' = [answer EXCEPT ![i] = answer'[i]]
           /\ bucket' = [bucket EXCEPT ![i] = bucket'[i]]
           /\ saverOf' = [saverOf EXCEPT ![i] = saverOf'[i]]
<1> USE DEF ProcessTypes, startupVars, Pass, Refuse, Respond, Keep
<1>1. CASE Arrive(i) \/ body_size_limit(i) \/ drain(i) \/ auth(i)
    BY <1>1 DEF Arrive, body_size_limit, drain, auth
<1>2. CASE rate_limit(i)
    BY <1>2 DEF rate_limit
<1>3. CASE ready(i) \/ health(i) \/ docs(i)
    BY <1>3 DEF ready, health, docs
<1>4. CASE run_pipeline(i) \/ run_pack(i)
    BY <1>4 DEF run_pipeline, run_pack, RefuseBody
<1>5. CASE UseSharedSaver(i) \/ CreateFallback(i) \/ CreateSqlite(i)
    BY <1>5 DEF UseSharedSaver, CreateFallback, CreateSqlite
<1>6. CASE CreateRedis(i) \/ CreatePostgres(i)
    BY <1>6 DEF CreateRedis, CreatePostgres
<1> QED
    BY <1>1, <1>2, <1>3, <1>4, <1>5, <1>6 DEF Request

\* The moves of a request through its own slot.
Arrived(i) ==
    /\ pc[i] = "free" /\ Serving /\ pc'[i] = "body"
    /\ shape'[i] \in Shapes
    /\ answer'[i] = answer[i] /\ bucket'[i] = bucket[i] /\ saverOf'[i] = saverOf[i]

Forward(i) ==
    \/ pc[i] = "body" /\ pc'[i] = "drain"
    \/ pc[i] = "drain" /\ pc'[i] = "rate"
    \/ pc[i] = "rate" /\ pc'[i] = "auth"
    \/ pc[i] = "auth" /\ pc'[i] = "handler" /\ Serving /\ Admitted(shape[i])
    \/ pc[i] = "handler" /\ pc'[i] = "saver"

Passed(i) ==
    /\ Forward(i)
    /\ \/ bucket'[i] = bucket[i]
       \/ pc[i] = "rate" /\ bucket'[i] = EndpointKey(shape[i])
    /\ shape'[i] = shape[i] /\ answer'[i] = answer[i] /\ saverOf'[i] = saverOf[i]

Answered(i) ==
    /\ pc[i] \notin {"free", "done"} /\ pc'[i] = "done"
    /\ answer'[i] \in Answers
    /\ answer'[i] = "200" /\ shape[i].path = "/ready" => saver # "none"
    /\ answer'[i] = "429" =>
           pc[i] = "rate" /\ Granted(EndpointKey(shape[i])) >= MaxRequests
    /\ \/ saverOf'[i] \in {saverOf[i], saver, "durable", "none"}
       \/ saverOf'[i] = "MemorySaver" /\ FallbackAllowed
    /\ shape'[i] = shape[i] /\ bucket'[i] = bucket[i]

\* Every step of a request is one of these moves.
LEMMA RequestMoves ==
    ASSUME ProcessTypes, NEW i \in Slots, Request(i)
    PROVE  Arrived(i) \/ Passed(i) \/ Answered(i)
<1> USE DEF ProcessTypes, Pass, Refuse, Respond, Answers
<1>1. CASE Arrive(i)
    BY <1>1 DEF Arrive, Arrived
<1>2. CASE body_size_limit(i)
    BY <1>2 DEF body_size_limit, Passed, Forward, Answered
<1>3. CASE drain(i)
    BY <1>3 DEF drain, Passed, Forward, Answered
<1>4. CASE rate_limit(i)
    BY <1>4 DEF rate_limit, Passed, Forward, Answered
<1>5. CASE auth(i)
    BY <1>5 DEF auth, Passed, Forward, Answered
<1>6. CASE ready(i)
    BY <1>6 DEF ready, Answered
<1>7. CASE health(i)
    BY <1>7 DEF health, Answered
<1>8. CASE docs(i)
    BY <1>8 DEF docs, Answered
<1>9. CASE run_pipeline(i)
    BY <1>9 DEF run_pipeline, RefuseBody, Passed, Forward, Answered
<1>10. CASE run_pack(i)
    BY <1>10 DEF run_pack, RefuseBody, Passed, Forward, Answered
<1>11. CASE UseSharedSaver(i)
    BY <1>11 DEF UseSharedSaver, Keep, Answered
<1>12. CASE CreateFallback(i)
    BY <1>12 DEF CreateFallback, Keep, Answered
<1>13. CASE CreateSqlite(i) \/ CreateRedis(i) \/ CreatePostgres(i)
    BY <1>13 DEF CreateSqlite, CreateRedis, CreatePostgres, Keep, Answered
<1> QED
    BY <1>1, <1>2, <1>3, <1>4, <1>5, <1>6, <1>7, <1>8, <1>9, <1>10, <1>11, <1>12, <1>13
    DEF Request

\* The rate limiter's key of any request is a bucket.
LEMMA EndpointKeyTyped ==
    ASSUME NEW q \in Shapes
    PROVE  EndpointKey(q) \in Buckets
<1>1. q \in ShapeType
    BY GateAssumption
<1>2. q.path \in Paths /\ q.token \in Keys \cup {None} /\ q.peer \in Peers
    BY <1>1 DEF ShapeType
<1>3. q.xff \in Peers \cup {None} /\ q.forwarded \in Peers \cup {None}
    BY <1>1 DEF ShapeType
<1>4. ClientIp(q) \in Peers
    BY <1>2, <1>3 DEF ClientIp
<1>5. ClientKey(q) \in {"token", "ip"} \X (Keys \cup Peers \cup {None})
    BY <1>2, <1>4 DEF ClientKey
<1> QED
    BY <1>2, <1>5 DEF EndpointKey, Buckets

\* With several keys, whoever shares a bucket with a bearer of a token has sent
\* that token to that path.
LEMMA SameBucketSameToken ==
    ASSUME NEW q \in Shapes, NEW r \in Shapes,
           Cardinality(resolved_api_keys) > 1, q.scheme # "none",
           EndpointKey(r) = EndpointKey(q)
    PROVE  r.token = q.token /\ r.path = q.path
<1>1. ClientKey(q) = <<"token", q.token>>
    BY DEF ClientKey
<1>2. ClientKey(r) = ClientKey(q) /\ r.path = q.path
    BY DEF EndpointKey
<1>3. ClientKey(r) # <<"ip", ClientIp(r)>>
    BY <1>1, <1>2
<1> QED
    BY <1>1, <1>2, <1>3 DEF ClientKey

\* Whatever a request does, the state stays well typed.
LEMMA RequestTypes ==
    ASSUME ProcessTypes, ProgressInv, NEW i \in Slots, Request(i)
    PROVE  ProcessTypes'
<1> USE DEF ProcessTypes
<1>1. UNCHANGED <<config, phase, saver>>
    BY RequestFrame
<1>2. pc'[i] \in Gates
    BY RequestMoves DEF Arrived, Passed, Forward, Answered, Gates
<1>3. shape'[i] \in Shapes \cup {None}
    BY RequestMoves DEF Arrived, Passed, Answered
<1>4. answer'[i] \in Answers
    BY RequestMoves DEF Arrived, Passed, Answered
<1>5. bucket'[i] \in Buckets \cup {None}
    BY RequestMoves, EndpointKeyTyped DEF Arrived, Passed, Answered, ProgressInv
<1>6. saverOf'[i] \in Savers
    BY RequestMoves DEF Arrived, Passed, Answered, Savers
<1>7. /\ pc' \in [Slots -> Gates]
      /\ shape' \in [Slots -> Shapes \cup {None}]
      /\ answer' \in [Slots -> Answers]
    BY <1>2, <1>3, <1>4, RequestFrame
<1>8. bucket' \in [Slots -> Buckets \cup {None}] /\ saverOf' \in [Slots -> Savers]
    BY <1>5, <1>6, RequestFrame
<1> QED
    BY <1>1, <1>7, <1>8

\* ... and its progress tells what is known of it.
LEMMA RequestProgress ==
    ASSUME ProcessTypes, ProgressInv, NEW i \in Slots, Request(i)
    PROVE  ProgressInv'
<1> SUFFICES ASSUME NEW j \in Slots
             PROVE  /\ pc'[j] # "free" => shape'[j] \in Shapes /\ phase' \notin Starting
                    /\ pc'[j] # "done" => answer'[j] = "none"
                    /\ pc'[j] \in {"free", "body", "drain", "rate"} => bucket'[j] = None
                    /\ bucket'[j] # None => bucket'[j] = EndpointKey(shape'[j])
    BY RequestFrame DEF ProgressInv, EndpointKey, ClientKey, resolved_api_keys
<1>1. CASE j # i
    BY <1>1, RequestFrame DEF ProgressInv, ProcessTypes
<1>2. CASE j = i
  <2>1. CASE Arrived(i)
    BY <1>2, <2>1, RequestFrame DEF Arrived, ProgressInv, Serving, Starting
  <2>2. CASE Passed(i)
    BY <1>2, <2>2, RequestFrame DEF Passed, Forward, ProgressInv
  <2>3. CASE Answered(i)
    BY <1>2, <2>3, RequestFrame DEF Answered, ProgressInv
  <2> QED
    BY <2>1, <2>2, <2>3, RequestMoves
<1> QED
    BY <1>1, <1>2

\* A request keeps the promise about durable checkpoints: what it keeps is what
\* the shared or its own checkpointer is.
LEMMA RequestDurable ==
    ASSUME ProcessTypes, DurableUnlessDevelopment, ProgressInv, NEW i \in Slots, Request(i)
    PROVE  DurableUnlessDevelopment'
<1> SUFFICES ASSUME config.env # "development", NEW j \in Slots
             PROVE  /\ saver # "MemorySaver"
                    /\ saverOf'[j] # "MemorySaver"
                    /\ answer'[j] = "200" /\ shape'[j].path = "/ready" => saver = "durable"
    BY RequestFrame DEF DurableUnlessDevelopment
<1>1. saver # "MemorySaver" /\ saverOf[j] # "MemorySaver"
    BY DEF DurableUnlessDevelopment
<1>2. answer[j] = "200" /\ shape[j].path = "/ready" => saver = "durable"
    BY DEF DurableUnlessDevelopment
<1>3. CASE j # i
    BY <1>1, <1>2, <1>3, RequestFrame DEF ProcessTypes
<1>4. CASE j = i
  <2>1. CASE Arrived(i)
    BY <1>1, <1>4, <2>1 DEF Arrived, ProgressInv
  <2>2. CASE Passed(i)
    BY <1>1, <1>2, <1>4, <2>2 DEF Passed
  <2>3. CASE Answered(i)
    BY <1>1, <1>4, <2>3 DEF Answered, FallbackAllowed, ProcessTypes, Savers
  <2> QED
    BY <2>1, <2>2, <2>3, RequestMoves
<1> QED
    BY <1>3, <1>4

\* A request gets to a handler of production with a key, or not at all.
LEMMA RequestAuthentic ==
    ASSUME ProcessTypes, KeysInv, ProductionAuthenticates, NEW i \in Slots, Request(i)
    PROVE  ProductionAuthenticates'
<1> SUFFICES ASSUME NEW j \in Slots, config.env = "production",
                    pc'[j] \in {"handler", "saver"}, shape'[j].path \notin AuthExempt
             PROVE  Authentic(shape'[j])
    BY RequestFrame
    DEF ProductionAuthenticates, Authentic, verify_bearer_token, resolved_api_keys, AuthExempt
<1>1. CASE j # i
    BY <1>1, RequestFrame DEF ProductionAuthenticates, ProcessTypes
<1>2. CASE j = i
  <2>1. Passed(i)
    BY <1>2, RequestMoves DEF Arrived, Answered
  <2>2. CASE pc[i] = "auth"
    <3>1. Serving /\ Admitted(shape[i])
        BY <2>1, <2>2 DEF Passed, Forward
    <3>2. resolved_api_keys # {}
        BY <3>1 DEF Serving, KeysInv
    <3> QED
        BY <1>2, <2>1, <3>1, <3>2 DEF Passed, Admitted
  <2>3. CASE pc[i] # "auth"
    BY <1>2, <2>1, <2>3 DEF Passed, Forward, ProductionAuthenticates
  <2> QED
    BY <2>2, <2>3
<1> QED
    BY <1>1, <1>2

\* Requests that were charged with the token of q for the path of q.
Charged(q) == {j \in Slots : bucket[j] # None /\ shape[j].token = q.token
                             /\ shape[j].path = q.path}

\* The requests that fill the bucket of a bearer of a token carried that token.
LEMMA GrantedToToken ==
    ASSUME ProcessTypes, ProgressInv, NEW q \in Shapes,
           Cardinality(resolved_api_keys) > 1, q.scheme # "none",
           Granted(EndpointKey(q)) >= MaxRequests
    PROVE  Cardinality(Charged(q)) >= MaxRequests
<1> DEFINE Full == {j \in Slots : bucket[j] = EndpointKey(q)}
<1>1. Full \subseteq Charged(q)
  <2> SUFFICES ASSUME NEW j \in Full
               PROVE  j \in Charged(q)
    OBVIOUS
  <2>1. j \in Slots /\ bucket[j] = EndpointKey(q) /\ bucket[j] # None
    BY EndpointKeyTyped, GateAssumption
  <2>2. shape[j] \in Shapes /\ EndpointKey(shape[j]) = EndpointKey(q)
    BY <2>1 DEF ProgressInv
  <2> QED
    BY <2>1, <2>2, SameBucketSameToken DEF Charged
<1>2. IsFiniteSet(Charged(q))
    BY FS_Subset, GateAssumption DEF Charged
<1>3. /\ Cardinality(Full) \in Nat /\ Cardinality(Charged(q)) \in Nat
      /\ Cardinality(Full) <= Cardinality(Charged(q))
    BY <1>1, <1>2, FS_Subset, FS_CardinalityType
<1> QED
    BY <1>3, GateAssumption DEF Granted

\* No charge is ever taken back, so what filled a bucket goes on filling it.
LEMMA RequestIsolated ==
    ASSUME ProcessTypes, ProgressInv, TenantBudgetIsolated, NEW i \in Slots, Request(i)
    PROVE  TenantBudgetIsolated'
<1> SUFFICES ASSUME NEW j \in Slots, answer'[j] = "429",
                    Cardinality(resolved_api_keys) > 1, Authentic(shape'[j])
             PROVE  Cardinality({k \in Slots : bucket'[k] # None
                                               /\ shape'[k].token = shape'[j].token
                                               /\ shape'[k].path = shape'[j].path})
                        >= MaxRequests
    BY RequestFrame
    DEF TenantBudgetIsolated, Authentic, verify_bearer_token, resolved_api_keys
<1>1. /\ shape'[j] = shape[j] /\ shape[j] \in Shapes
      /\ Cardinality(Charged(shape[j])) >= MaxRequests
  <2>1. CASE answer[j] = "429"
    <3>1. pc[j] = "done" /\ shape[j] \in Shapes
        BY <2>1 DEF ProgressInv
    <3>2. shape'[j] = shape[j]
        BY <3>1, RequestFrame, RequestMoves
        DEF ProcessTypes, Arrived, Passed, Answered
    <3> QED
        BY <2>1, <3>1, <3>2 DEF TenantBudgetIsolated, Charged
  <2>2. CASE answer[j] # "429"
    <3>1. j = i
        BY <2>2, RequestFrame DEF ProcessTypes
    <3>2. Answered(i)
        BY <2>2, <3>1, RequestMoves DEF Arrived, Passed
    <3>3. shape'[j] = shape[j] /\ shape[j] \in Shapes
          /\ Granted(EndpointKey(shape[j])) >= MaxRequests
        BY <3>1, <3>2 DEF Answered, ProgressInv
    <3>4. shape[j].scheme # "none"
        BY <3>3 DEF Authentic
    <3> QED
        BY <3>3, <3>4, GrantedToToken
  <2> QED
    BY <2>1, <2>2
<1> DEFINE Later == {k \in Slots : bucket'[k] # None
                                   /\ shape'[k].token = shape[j].token
                                   /\ shape'[k].path = shape[j].path}
<1>2. Charged(shape[j]) \subseteq Later
  <2> SUFFICES ASSUME NEW k \in Slots, bucket[k] # None
               PROVE  bucket'[k] # None /\ shape'[k] = shape[k]
    BY DEF Charged
  <2>1. CASE k # i
    BY <2>1, RequestFrame DEF ProcessTypes
  <2>2. CASE k = i
    <3>1. pc[i] \notin {"free", "rate"}
        BY <2>2 DEF ProgressInv
    <3> QED
        BY <2>2, <3>1, RequestMoves DEF Arrived, Passed, Answered
  <2> QED
    BY <2>1, <2>2
<1>3. IsFiniteSet(Later)
    BY FS_Subset, GateAssumption
<1>4. /\ Cardinality(Charged(shape[j])) \in Nat /\ Cardinality(Later) \in Nat
      /\ Cardinality(Charged(shape[j])) <= Cardinality(Later)
    BY <1>2, <1>3, FS_Subset, FS_CardinalityType
<1> QED
    BY <1>1, <1>4, GateAssumption

\* A step of the lifespan: the checkpointer changes only while no request is in
\* the process, so what the requests were told of it stays true.
LEMMA LifespanStep ==
    ASSUME ProcessInv, StartupNext, UNCHANGED requestVars
    PROVE  ProcessInv'
<1> USE DEF ProcessInv, ProcessTypes, requestVars
<1>1. ProcessTypes'
    BY StartupShape
<1>2. ProgressInv'
  <2>1. \A i \in Slots : pc[i] # "free" => phase' \notin Starting
    BY StartupShape DEF ProgressInv
  <2>2. \A i \in Slots : EndpointKey(shape[i])' = EndpointKey(shape[i])
    BY StartupShape DEF EndpointKey, ClientKey, resolved_api_keys, ClientIp
  <2> QED
    BY <2>1, <2>2 DEF ProgressInv
<1>3. KeysInv'
  <2> SUFFICES ASSUME phase' \notin {"settings", "failed"}, config.env = "production"
               PROVE  resolved_api_keys # {}
    BY StartupShape DEF KeysInv, resolved_api_keys
  <2> QED
    BY StartupShape DEF KeysInv, ValidSettings
<1>4. DurableUnlessDevelopment'
  <2> SUFFICES ASSUME config.env # "development"
               PROVE  /\ saver' # "MemorySaver"
                      /\ \A i \in Slots :
                           /\ saverOf[i] # "MemorySaver"
                           /\ answer[i] = "200" /\ shape[i].path = "/ready"
                                => saver' = "durable"
    BY StartupShape DEF DurableUnlessDevelopment
  <2>1. saver' # "MemorySaver"
    BY StartupShape DEF DurableUnlessDevelopment, FallbackAllowed
  <2>2. ASSUME NEW i \in Slots, answer[i] = "200", shape[i].path = "/ready"
        PROVE  saver' = "durable"
    <3>1. phase \notin Starting
        BY <2>2 DEF ProgressInv
    <3> QED
        BY <2>2, <3>1, StartupShape DEF DurableUnlessDevelopment
  <2> QED
    BY <2>1, <2>2 DEF DurableUnlessDevelopment
<1>5. ProductionAuthenticates'
    BY StartupShape
    DEF ProductionAuthenticates, Authentic, verify_bearer_token, resolved_api_keys, AuthExempt
<1>6. TenantBudgetIsolated'
    BY StartupShape
    DEF TenantBudgetIsolated, Authentic, verify_bearer_token, resolved_api_keys
<1> QED
    BY <1>1, <1>2, <1>3, <1>4, <1>5, <1>6

\* A process before its settings are read, without a request.
LEMMA ProcessInit ==
    ASSUME Init
    PROVE  ProcessInv
<1> USE DEF Init, StartupInit
<1>1. ProcessTypes
    BY DEF ProcessTypes, Phases, Savers, Gates, Answers
<1>2. ProgressInv /\ KeysInv
    BY DEF ProgressInv, KeysInv
<1>3. DurableUnlessDevelopment /\ ProductionAuthenticates /\ TenantBudgetIsolated
    BY DEF DurableUnlessDevelopment, ProductionAuthenticates, TenantBudgetIsolated
<1> QED
    BY <1>1, <1>2, <1>3 DEF ProcessInv

\* Lifespan and requests together.
LEMMA ProcessStep ==
    ASSUME ProcessInv, [Next]_vars
    PROVE  ProcessInv'
<1>1. CASE StartupNext /\ UNCHANGED requestVars
    BY <1>1, LifespanStep
<1>2. ASSUME NEW i \in Slots, Request(i)
      PROVE  ProcessInv'
  <2> USE <1>2 DEF ProcessInv
  <2>1. ProcessTypes' /\ ProgressInv'
    BY RequestTypes, RequestProgress
  <2>2. KeysInv'
    BY RequestFrame DEF KeysInv, resolved_api_keys
  <2>3. DurableUnlessDevelopment' /\ ProductionAuthenticates' /\ TenantBudgetIsolated'
    BY RequestDurable, RequestAuthentic, RequestIsolated
  <2> QED
    BY <2>1, <2>2, <2>3
<1>3. CASE UNCHANGED vars
    BY <1>3 DEF vars, startupVars, requestVars, ProcessInv, ProcessTypes, ProgressInv, KeysInv,
                DurableUnlessDevelopment, ProductionAuthenticates, TenantBudgetIsolated,
                Authentic, verify_bearer_token, resolved_api_keys, EndpointKey, ClientKey
<1> QED
    BY <1>1, <1>2, <1>3 DEF Next

\* The inductive invariant holds in every reachable state.
LEMMA ProcessInvariant == Spec => []ProcessInv
<1>1. Init => ProcessInv
    BY ProcessInit
<1>2. ProcessInv /\ [Next]_vars => ProcessInv'
    BY ProcessStep
<1> QED
    BY <1>1, <1>2, PTL DEF Spec

\* Outside development no conversation is kept in a MemorySaver, neither shared
\* nor a run's own, and a process that answered /ready with 200 has a durable
\* checkpointer (init_checkpointer, _fallback_or_raise, GET /ready).
THEOREM Durable == Spec => []DurableUnlessDevelopment
<1>1. ProcessInv => DurableUnlessDevelopment
    BY DEF ProcessInv
<1> QED
    BY <1>1, ProcessInvariant, PTL

\* In production a request is past the middlewares of a protected path only
\* with a configured key (auth_middleware, verify_api_key).
THEOREM Authenticated == Spec => []ProductionAuthenticates
<1>1. ProcessInv => ProductionAuthenticates
    BY DEF ProcessInv
<1> QED
    BY <1>1, ProcessInvariant, PTL

\* A tenant that is refused with 429 has used its budget up with its own token
\* (rate_limit_client_key, rate_limit_middleware).
THEOREM Isolated == Spec => []TenantBudgetIsolated
<1>1. ProcessInv => TenantBudgetIsolated
    BY DEF ProcessInv
<1> QED
    BY <1>1, ProcessInvariant, PTL
=============================================================================
