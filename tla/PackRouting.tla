---------------------------- MODULE PackRouting ----------------------------
(***************************************************************************)
(* Which version of a pack a run gets: the pack registry with its plugins  *)
(* and traffic weights, the admission of POST /packs/<id>/run and          *)
(* /run/stream, and the run history that makes a session stick to the      *)
(* version it used.  Handlers resolve a version and take the session in    *)
(* one step of the event loop; a save runs in a pool thread, may outlive   *)
(* the handler's wait of SAVE_RUN_TIMEOUT_SECONDS, and takes its           *)
(* created_at before it gets the store's lock.  A restart installs another *)
(* set of plugins, resets the weights and may fall back to SQLite.         *)
(***************************************************************************)
EXTENDS RunHistory, Integers, Sequences

CONSTANTS
    Builtin,        \* the pack registered by register_builtin_packs (1 version)
    Versions,       \* version strings
    BuiltinVersion, \* the version the built-in pack ships
    Installations,  \* sequences of plugin entry points a restart may find
    Backends,       \* the values of MEMORY_BACKEND considered
    LegacyRows,     \* rows the store holds from earlier deployments, in Redis from
                    \* before the session+pack index
    Requests,       \* what clients send: session, pack and X-Pack-Version header
    Floats,         \* the floats, in units that make them naturals; 1 is the weight 1.0
    Patched,        \* the packs, versions and weights that are PATCHed
    MaxPick,        \* affinity hashes are k / MaxPick for k in 0..MaxPick
    Slots,          \* the runs that are open or still being saved at one time
    MaxSaves        \* bound on the saves that get a created_at

ASSUME RoutingConstants ==
    /\ Builtin \in Packs /\ BuiltinVersion \in Versions
    /\ None \notin Sessions \cup Packs \cup Versions
    /\ Installations \subseteq Seq([pack : Packs, version : Versions, allowed : BOOLEAN,
                                   loads : BOOLEAN, valid : BOOLEAN])
    /\ Backends \subseteq {"sqlite", "redis", "postgres"}
    /\ Requests \subseteq [session : Sessions \cup {None}, pack : Packs,
                           header : Versions \cup {None}]
    /\ Patched \subseteq Packs \X Versions \X Floats
    /\ MaxPick \in Nat \ {0} /\ MaxSaves \in Nat
    /\ FallbackLimit \in Nat
    /\ IsFiniteSet(LegacyRows)  \* older than any created_at handed out
    /\ \A r \in LegacyRows : r.id = r.created /\ r.created \in Int /\ r.created <= 0
    /\ \A q, r \in LegacyRows : q.id = r.id => q = r

ASSUME FloatConstants ==
    /\ Floats \subseteq Nat /\ {0, 1} \subseteq Floats
    \* the floats get no denser upwards: past a there is one as near as g past b
    /\ \A a, b, g \in Floats :
         a <= b /\ b < g => \E h \in Floats : a < h /\ h + (b - a) <= g

VARIABLES
    registry,  \* PackRegistry._registry: the PackVersions of each pack
    backend,   \* MEMORY_BACKEND of this deployment
    store,     \* the backend create_run_history returned
    table,     \* the rows of the SQL stores
    redis,     \* the keys of the Redis store
    runs,      \* the admitted runs, in slots
    clock,     \* the last created_at handed out
    outlived   \* history: the sessions and packs of pack runs whose save outlived the
               \* handler's wait

vars == <<registry, backend, store, table, redis, runs, clock, outlived>>

-----------------------------------------------------------------------------
(* Weights *)

\* How far the float f is from n / d, times d.
Distance(f, n, d) == IF f * d >= n THEN f * d - n ELSE n - f * d

\* The float nearest to n / d.
Nearest(n, d) == CHOOSE f \in Floats : \A g \in Floats : Distance(f, n, d) <= Distance(g, n, d)

\* What an addition whose exact result is n gives.
Sum(n) == IF n \in Floats THEN n ELSE Nearest(n, 1)

\* The weights of the first i versions, added up without rounding.
ExactSums(vs) ==
    LET sum[i \in 0..Len(vs)] == IF i = 0 THEN 0 ELSE sum[i - 1] + vs[i].weight
    IN  sum

\* cumulative += weight: every addition rounds.
Cumulative(vs) ==
    LET sum[i \in 0..Len(vs)] == IF i = 0 THEN 0 ELSE Sum(sum[i - 1] + vs[i].weight)
    IN  sum

\* sum(weights): since Python 3.12 it compensates and rounds once.
TotalWeight(vs) == Sum(ExactSums(vs)[Len(vs)])

\* pick * total.
Threshold(vs, pick) == Nearest(pick * TotalWeight(vs), MaxPick)

-----------------------------------------------------------------------------
(* Plausible bugs, used to show that the properties are sensitive to them.  *)

\* threshold < cumulative: the largest hash falls through to versions[-1].
SelectStrictly(vs, pick) ==
    LET hit == {i \in DOMAIN vs : Threshold(vs, pick) < Cumulative(vs)[i]}
    IN  IF hit = {} THEN Len(vs) ELSE CHOOSE i \in hit : \A j \in hit : i <= j

\* The hash is taken modulo the sum of the weights instead of scaled by it.
SelectByModulo(vs, pick) ==
    LET hit == {i \in DOMAIN vs : pick % TotalWeight(vs) < Cumulative(vs)[i]}
    IN  IF hit = {} THEN Len(vs) ELSE CHOOSE i \in hit : \A j \in hit : i <= j

-----------------------------------------------------------------------------
(* The registry *)

\* PackRegistry.register: replace the entry of that version, or append it.
Register(reg, p, v) ==
    LET pv == [version |-> v, weight |-> 1]
        same == {i \in DOMAIN reg[p] : reg[p][i].version = v}
    IN  [reg EXCEPT ![p] = IF same = {} THEN Append(@, pv)
                           ELSE [@ EXCEPT ![CHOOSE i \in same : TRUE] = pv]]

\* register_builtin_packs: one class, hence one version, per built-in pack.
RegisterBuiltins ==
    Register([p \in Packs |-> <<>>], Builtin, BuiltinVersion)

\* validate_plugin_pack_class: the contract (attributes, strict schemas).
ValidPlugin(ep) == ep.valid

\* discover_plugin_packs: not allowlisted, broken and invalid plugins are skipped.
Discovered(ep) == ep.allowed /\ ep.loads /\ ValidPlugin(ep)

\* register_plugin_packs: the discovered ones in entry-point order; a pack_id
\* registered before the plugins is refused.
RegisterPlugins(reg, eps) ==
    LET existing == {p \in Packs : reg[p] # <<>>}
        after[i \in 0..Len(eps)] ==
            IF i = 0 THEN reg
            ELSE IF Discovered(eps[i]) /\ eps[i].pack \notin existing
            THEN Register(after[i - 1], eps[i].pack, eps[i].version)
            ELSE after[i - 1]
    IN  after[Len(eps)]

\* _select_weighted_pack_version with an affinity key whose hash is
\* pick / MaxPick: the first version whose cumulative weight reaches the
\* threshold, the last one when rounding lets none.  Every caller passes
\* _rate_limit_key(request), never empty, so random.choices is not reached.
SelectWeighted(vs, pick) ==
    LET threshold == Threshold(vs, pick)
        cumulative == Cumulative(vs)
        hit == {i \in DOMAIN vs : threshold <= cumulative[i]}
    IN  IF hit = {} THEN Len(vs) ELSE CHOOSE i \in hit : \A j \in hit : i <= j

\* PackRegistry.get: the version, or None for a KeyError.  A version asked for
\* is returned whatever its weight, and so is the only version of a pack.
GetVersion(p, version, pick) ==
    LET vs == registry[p] IN
    IF version # None
    THEN IF \E i \in DOMAIN vs : vs[i].version = version THEN version ELSE None
    ELSE IF vs = <<>> THEN None
    ELSE IF Len(vs) = 1 THEN vs[1].version
    ELSE IF TotalWeight(vs) = 0 THEN None
    ELSE vs[SelectWeighted(vs, pick)].version

\* PackRegistry.set_weights with one entry: weights of other versions stay.
SetWeights(vs, v, w) ==
    [i \in DOMAIN vs |-> IF vs[i].version = v THEN [vs[i] EXCEPT !.weight = w] ELSE vs[i]]

\* PATCH /packs/<p>/versions/<v>/weight; a negative weight (422) or an unknown
\* pack or version (404) changes nothing.
UpdateWeight(p, v, w) ==
    /\ \E i \in DOMAIN registry[p] : registry[p][i].version = v
    /\ registry' = [registry EXCEPT ![p] = SetWeights(@, v, w)]
    /\ UNCHANGED <<backend, store, table, redis, runs, clock, outlived>>

-----------------------------------------------------------------------------
(* Admission *)

\* get_pack_version_for_session of the store in use.
PackVersionForSession(s, p) ==
    CASE store = "redis" -> RedisPackVersion(redis, s, p)
      [] store = "postgres" -> PostgresPackVersion(table["postgres"], s, p)
      [] OTHER -> SqlitePackVersion(table["sqlite"], s, p)

\* The version asked for: the X-Pack-Version header, else the history of the
\* session, else none (the weights decide).
Requested(s, p, header) ==
    IF header # None THEN <<"header", header>>
    ELSE LET v == IF s = None THEN None ELSE PackVersionForSession(s, p)
         IN  IF v # None THEN <<"history", v>> ELSE <<"affinity", None>>

\* The sessions held by try_acquire_session: /research holds none.
InFlight(s) ==
    \E i \in Slots : /\ runs[i].session = s /\ runs[i].open
                   /\ runs[i].via # "research"

Idle == [session |-> None, pack |-> None, version |-> None, via |-> "none",
         open |-> FALSE, save |-> "none", created |-> 0]

\* Plausible bug: the metadata names the version registered last.
NewRunLastVersion(s, p, v, via) ==
    [Idle EXCEPT !.session = s, !.pack = p, !.via = via, !.open = TRUE,
                 !.version = IF p = None THEN None ELSE registry[p][Len(registry[p])].version]

NewRun(s, p, v, via) ==
    [session |-> s, pack |-> p, version |-> v, via |-> via,
     open |-> TRUE, save |-> "none", created |-> 0]

\* run_pack and stream_pack up to the executor: a version that does not resolve
\* is answered 404, a session in flight 409.
Admit(i, s, p, header, pick, streamed) ==
    LET ask == Requested(s, p, header)
        v == GetVersion(p, ask[2], pick)
    IN  /\ runs[i] = Idle
        /\ v # None
        /\ s = None \/ ~InFlight(s)
        /\ runs' = [runs EXCEPT ![i] = NewRun(s, p, v, IF streamed THEN "stream" ELSE ask[1])]
        /\ UNCHANGED <<registry, backend, store, table, redis, clock, outlived>>

RunPack(i, s, p, header, pick) ==
    Admit(i, s, p, header, pick, FALSE)

\* stream_pack saves nothing, so how its version was found has no effect.
StreamPack(i, s, p, header, pick) ==
    Admit(i, s, p, header, pick, TRUE)

\* POST /run and /run/stream: no version is recorded, and the saved row
\* carries the session only.
RunLegacy(i, s) ==
    /\ runs[i] = Idle
    /\ ~InFlight(s)
    /\ runs' = [runs EXCEPT ![i] = NewRun(s, None, None, "legacy")]
    /\ UNCHANGED <<registry, backend, store, table, redis, clock, outlived>>

\* POST /research: the same row, without taking the session.
RunResearch(i, s) ==
    /\ runs[i] = Idle
    /\ runs' = [runs EXCEPT ![i] = NewRun(s, None, None, "research")]
    /\ UNCHANGED <<registry, backend, store, table, redis, clock, outlived>>

-----------------------------------------------------------------------------
(* Execution and the best-effort save *)

\* The run fails, or a stream ends: answered, session released, nothing saved.
EndUnsaved(i) ==
    /\ runs[i].open /\ runs[i].save = "none"
    /\ runs' = [runs EXCEPT ![i] = Idle]
    /\ UNCHANGED <<registry, backend, store, table, redis, clock, outlived>>

\* _save_run_best_effort: the save is handed to the pool.
SubmitSave(i) ==
    /\ runs[i].open /\ runs[i].save = "none" /\ runs[i].via # "stream"
    /\ runs' = [runs EXCEPT ![i].save = "queued"]
    /\ UNCHANGED <<registry, backend, store, table, redis, clock, outlived>>

SaveStarts(i) ==
    /\ runs[i].save = "queued"
    /\ runs' = [runs EXCEPT ![i].save = "started"]
    /\ UNCHANGED <<registry, backend, store, table, redis, clock, outlived>>

\* created_at = datetime.now(UTC), before the lock or the connection.
SaveStamps(i) ==
    /\ runs[i].save = "started"
    /\ clock < MaxSaves
    /\ clock' = clock + 1
    /\ runs' = [runs EXCEPT ![i].save = "stamped", ![i].created = clock + 1]
    /\ UNCHANGED <<registry, backend, store, table, redis, outlived>>

\* The transaction (SQL) or the MULTI (Redis) of save_run.  A run has its own
\* run_id; the stamp stands for it.
SaveCommits(i) ==
    LET r == runs[i]
        row == Row(r.created, r.session, r.pack, r.version, r.created)
    IN  /\ r.save = "stamped"
        /\ runs' = [runs EXCEPT ![i] = IF r.open THEN [@ EXCEPT !.save = "over"] ELSE Idle]
        /\ redis' = IF store = "redis" THEN RedisSaveRun(redis, row) ELSE redis
        /\ table' = CASE store = "sqlite" ->
                          [table EXCEPT !["sqlite"] = SqliteSaveRun(@, row)]
                      [] store = "postgres" ->
                          [table EXCEPT !["postgres"] = PostgresSaveRun(@, row)]
                      [] OTHER -> table
        /\ UNCHANGED <<registry, backend, store, clock, outlived>>

\* The store raises: rolled back, logged, ignored.
SaveFails(i) ==
    /\ runs[i].save \in {"started", "stamped"}
    /\ runs' = [runs EXCEPT ![i] = IF runs[i].open THEN [@ EXCEPT !.save = "over"] ELSE Idle]
    /\ UNCHANGED <<registry, backend, store, table, redis, clock, outlived>>

\* wait_for expires: a queued save is cancelled, a started one keeps running;
\* the handler goes on, answers and releases the session.
SaveTimesOut(i) ==
    /\ runs[i].open /\ runs[i].save \in {"queued", "started", "stamped"}
    /\ IF runs[i].save = "queued"
       THEN /\ runs' = [runs EXCEPT ![i] = Idle]
            /\ UNCHANGED outlived
       ELSE /\ runs' = [runs EXCEPT ![i].open = FALSE]
            /\ outlived' = IF runs[i].pack = None THEN outlived
                           ELSE outlived \cup {<<runs[i].session, runs[i].pack>>}
    /\ UNCHANGED <<registry, backend, store, table, redis, clock>>

Answer(i) ==
    /\ runs[i].open /\ runs[i].save = "over"
    /\ runs' = [runs EXCEPT ![i] = Idle]
    /\ UNCHANGED <<registry, backend, store, table, redis, clock, outlived>>

-----------------------------------------------------------------------------
(* Startup and restart *)

\* create_run_history: SQLite when the configured store cannot be built.
CreateRunHistory(reachable) ==
    IF backend # "sqlite" /\ reachable THEN backend ELSE "sqlite"

\* A Redis store without the session+pack index.
OldRedis == [run |-> LegacyRows, timeline |-> {r.id : r \in LegacyRows},
             session |-> [s \in Sessions |->
                 {r.id : r \in {q \in LegacyRows : q.session = s}}],
             sessionPack |-> [sp \in Sessions \X Packs |-> {}]]

Init ==
    /\ \E eps \in Installations : registry = RegisterPlugins(RegisterBuiltins, eps)
    /\ backend \in Backends
    /\ store = CreateRunHistory(TRUE)
    /\ table = [b \in {"sqlite", "postgres"} |-> IF b = backend THEN LegacyRows ELSE {}]
    /\ redis = IF backend = "redis" THEN OldRedis ELSE EmptyRedis
    /\ runs = [i \in Slots |-> Idle]
    /\ clock = 0
    /\ outlived = {}

\* The process goes down with its runs and comes up on another installation:
\* weights start at 1 again.  RedisRunHistory connects lazily, so only
\* Postgres can be found unreachable.
Restart ==
    /\ \E eps \in Installations : registry' = RegisterPlugins(RegisterBuiltins, eps)
    /\ \E reachable \in (IF backend = "postgres" THEN BOOLEAN ELSE {TRUE}) :
          store' = CreateRunHistory(reachable)
    /\ runs' = [i \in Slots |-> Idle]
    /\ UNCHANGED <<backend, table, redis, clock, outlived>>

RunStep(i) ==
    \/ EndUnsaved(i) \/ SubmitSave(i) \/ SaveStarts(i) \/ SaveStamps(i)
    \/ SaveCommits(i) \/ SaveFails(i) \/ SaveTimesOut(i) \/ Answer(i)

Arrival(i) ==
    \/ \E q \in Requests, pick \in 0..MaxPick :
         \/ RunPack(i, q.session, q.pack, q.header, pick)
         \/ StreamPack(i, q.session, q.pack, q.header, pick)
    \/ \E s \in Sessions : RunLegacy(i, s) \/ RunResearch(i, s)

Next ==
    \/ \E i \in Slots : Arrival(i) \/ RunStep(i)
    \/ \E pvw \in Patched : UpdateWeight(pvw[1], pvw[2], pvw[3])
    \/ Restart

Spec == Init /\ [][Next]_vars

-----------------------------------------------------------------------------
(* Properties *)

\* The Redis indexes answer every read as the SQL stores do on the same rows:
\* the run, the newest runs, the newest runs of a session, and the version a
\* session used last of a pack.  The last holds while the session has at most
\* FallbackLimit runs, or its pack has an indexed run: a row from before the
\* session+pack index is only looked for among the newest FallbackLimit.
RedisReadsAgree ==
    LET limits == 1..Cardinality(redis.run) IN
    /\ \A r \in redis.run :
         /\ RedisGetRun(redis, r.id) = SqliteGetRun(redis.run, r.id)
         /\ RedisGetRun(redis, r.id) = PostgresGetRun(redis.run, r.id)
    /\ \A n \in limits :
         /\ RedisListRuns(redis, n) = SqliteListRuns(redis.run, n)
         /\ RedisListRuns(redis, n) = PostgresListRuns(redis.run, n)
    /\ \A s \in Sessions :
         /\ \A n \in limits :
              /\ RedisListBySession(redis, s, n) = SqliteListBySession(redis.run, s, n)
              /\ RedisListBySession(redis, s, n) = PostgresListBySession(redis.run, s, n)
         /\ \A p \in Packs :
              (\/ Cardinality(redis.session[s]) <= FallbackLimit
               \/ redis.sessionPack[<<s, p>>] # {})
              => RedisPackVersion(redis, s, p) = PostgresPackVersion(redis.run, s, p)

\* A session stays on its version.  Whatever happens to the weights, the
\* plugins and the process, and in whatever order saves reach the store, the
\* version the history names for a session and pack changes only when a run
\* that did not follow the history (it was pinned by X-Pack-Version, or was
\* admitted before any was saved) is stored; unless the save of some run of
\* that session and pack outlived its handler, for then the session was free
\* for a run on another version while the save, of whatever version, was still
\* to come.  (Beyond FallbackLimit runs an un-indexed Redis row is forgotten.)
PinChangesOnlyByUnpinnedRuns ==
    [][\A s \in Sessions, p \in Packs :
         LET old == PackVersionForSession(s, p)
             new == PackVersionForSession(s, p)'
         IN  store' = store /\ old \notin {None, new} =>
               \/ \E i \in Slots : /\ runs[i].session = s /\ runs[i].pack = p
                                  /\ runs[i].via \in {"header", "affinity"}
                                  /\ runs'[i].save # runs[i].save
               \/ <<s, p>> \in outlived
               \/ store = "redis" /\ Cardinality(redis'.session[s]) > FallbackLimit]_<<table, redis>>

\* No addition of the weights is rounded.
SumsExact(vs) == \A i \in DOMAIN vs : ExactSums(vs)[i] \in Floats

\* Ramping up a version never takes a caller away from it: when the weight of
\* one version is raised, every affinity key keeps its version or moves towards
\* the raised one in registration order, never past it.  (Between three versions
\* a caller may move from one of the others to the next: the intervals are
\* renormalised.)  The threshold is rounded as it may be; the running sums are
\* taken to be exact before and after, for a rounded one shifts the intervals.
RampMovesCallersTowardsTarget ==
    [][\A p \in Packs : \A i \in DOMAIN registry[p] :
         /\ Len(registry'[p]) = Len(registry[p])
         /\ registry'[p][i].weight > registry[p][i].weight
         /\ registry'[p] = [registry[p] EXCEPT ![i] = registry'[p][i]]
         /\ SumsExact(registry[p]) /\ SumsExact(registry'[p])
         /\ TotalWeight(registry[p]) > 0
         => \A pick \in 0..MaxPick :
              LET old == SelectWeighted(registry[p], pick)
                  new == SelectWeighted(registry'[p], pick)
              IN  (old <= new /\ new <= i) \/ (i <= new /\ new <= old)]_registry

\* A version drained to weight 0 gets no new callers: the weights do not select
\* it beside another version.  Two hashes at the ends of the range may: one whose
\* threshold is 0 falls on the first version, and where the running sum stays
\* below sum(weights) the largest ones fall through to the last, versions[-1].
DrainedVersionsGetNoCallers ==
    \A p \in Packs : \A i \in DOMAIN registry[p] :
      LET vs == registry[p] IN
      Len(vs) > 1 /\ vs[i].weight = 0 =>
        \A pick \in 0..MaxPick :
          \/ SelectWeighted(vs, pick) # i
          \/ Threshold(vs, pick) = 0
          \/ i = Len(vs) /\ Cumulative(vs)[Len(vs)] < TotalWeight(vs)
=============================================================================
