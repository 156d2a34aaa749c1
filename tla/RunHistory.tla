----------------------------- MODULE RunHistory -----------------------------
(***************************************************************************)
(* The run-history stores of core/memory.py: ConversationMemory (SQLite),  *)
(* RedisRunHistory and PostgresRunHistory.  A row is the metadata of a     *)
(* saved run with its created_at; query and result are payloads.  The two  *)
(* SQL stores keep a table; the Redis store keeps one hash per run and     *)
(* three kinds of sorted sets scored by created_at.  This module has the   *)
(* data and the operations; PackRouting drives them.                       *)
(***************************************************************************)
EXTENDS Naturals, FiniteSets

CONSTANTS
    Sessions,        \* session ids
    Packs,           \* pack ids
    FallbackLimit,   \* list_runs_by_session(limit=50) of the Redis fallback
    None             \* an absent session_id, pack_id or version

\* The columns read back from a row (_row_to_dict): metadata and created_at.
\* A run without a session has no session_id in its metadata, and the rows of
\* /run, /run/stream and /research have neither pack_id nor pack_version.
Row(id, session, pack, version, created) ==
    [id |-> id, session |-> session, pack |-> pack,
     version |-> version, created |-> created]

\* ORDER BY created_at DESC LIMIT n, and ZREVRANGE 0 n-1: a row of S is
\* returned when fewer than n rows of S are newer.
Newest(S, n) ==
    {r \in S : Cardinality({q \in S : q.created > r.created}) < n}

\* What LIMIT 1 leaves, as the version it carries (None for no row).
VersionOf(S) == IF S = {} THEN None ELSE (CHOOSE r \in S : TRUE).version

-----------------------------------------------------------------------------
(* The SQL stores.  INSERT ... ON CONFLICT(run_id) DO UPDATE *)

Upsert(table, row) == {r \in table : r.id # row.id} \cup {row}

SqliteSaveRun(table, row) == Upsert(table, row)
PostgresSaveRun(table, row) == Upsert(table, row)

SqliteGetRun(table, id) == {r \in table : r.id = id}
PostgresGetRun(table, id) == {r \in table : r.id = id}

SqliteListRuns(table, limit) == Newest(table, limit)
PostgresListRuns(table, limit) == Newest(table, limit)

SqliteListBySession(table, s, limit) ==
    Newest({r \in table : r.session = s}, limit)
PostgresListBySession(table, s, limit) ==
    Newest({r \in table : r.session = s}, limit)

SqlitePackVersion(table, s, p) ==
    VersionOf(Newest({r \in table : r.session = s /\ r.pack = p}, 1))
PostgresPackVersion(table, s, p) ==
    VersionOf(Newest({r \in table : r.session = s /\ r.pack = p}, 1))

-----------------------------------------------------------------------------
(* The Redis store: run:<id> hashes, the timeline, a sorted set per session *)
(* and one per session and pack.  A sorted set is the set of its members,   *)
(* each scored by the created_at of its hash.                               *)

EmptyRedis == [run |-> {}, timeline |-> {},
               session |-> [s \in Sessions |-> {}],
               sessionPack |-> [sp \in Sessions \X Packs |-> {}]]

\* One MULTI: the hash and every index it belongs to.
RedisSaveRun(db, row) ==
    [run |-> Upsert(db.run, row),
     timeline |-> db.timeline \cup {row.id},
     session |-> [s \in Sessions |->
         db.session[s] \cup (IF row.session = s THEN {row.id} ELSE {})],
     sessionPack |-> [sp \in Sessions \X Packs |->
         db.sessionPack[sp] \cup
            (IF <<row.session, row.pack>> = sp THEN {row.id} ELSE {})]]

RedisGetRun(db, id) == {r \in db.run : r.id = id}

\* The hashes of the newest n members; a member whose hash is gone is skipped.
RedisNewest(db, members, n) ==
    Newest(UNION {RedisGetRun(db, id) : id \in members}, n)

RedisListRuns(db, limit) == RedisNewest(db, db.timeline, limit)
RedisListBySession(db, s, limit) == RedisNewest(db, db.session[s], limit)

\* Plausible bug: ZRANGE instead of ZREVRANGE reads the oldest member.
RedisOldestVersion(db, s, p) ==
    LET indexed == {r \in db.run : r.id \in db.sessionPack[<<s, p>>]} IN
    IF indexed # {}
    THEN VersionOf({r \in indexed : \A q \in indexed : r.created <= q.created})
    ELSE VersionOf(Newest({r \in RedisListBySession(db, s, FallbackLimit) :
                               r.pack = p}, 1))

\* The newest member of the session+pack index; when that index is empty, the
\* first run with this pack_id among the newest FallbackLimit of the session.
RedisPackVersion(db, s, p) ==
    IF db.sessionPack[<<s, p>>] # {}
    THEN VersionOf(RedisNewest(db, db.sessionPack[<<s, p>>], 1))
    ELSE VersionOf(Newest({r \in RedisListBySession(db, s, FallbackLimit) :
                               r.pack = p}, 1))
=============================================================================
