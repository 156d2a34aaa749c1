-------------------------- MODULE PackRoutingProofs --------------------------
(* Proofs about the run history and the versions sessions stick to, for every *)
(* set of sessions, packs, plugins and requests, every number of runs and     *)
(* every limit.                                                               *)
EXTENDS PackRouting, FiniteSetTheorems, WellFoundedInduction, TLAPS

\* Rows of a history are finitely many, stamped, and one per run.
History(S) ==
    /\ IsFiniteSet(S)
    /\ \A r \in S : r.id = r.created /\ r.created \in Int
    /\ \A q, r \in S : q.id = r.id => q = r

RowsOf(S, s, p) == {r \in S : r.session = s /\ r.pack = p}

\* LIMIT 1 returns the rows that no row is newer than.
LEMMA NewestOne ==
    ASSUME NEW S, IsFiniteSet(S)
    PROVE  Newest(S, 1) = {r \in S : \A q \in S : ~(q.created > r.created)}
<1>1. ASSUME NEW r \in S
      PROVE  Cardinality({q \in S : q.created > r.created}) < 1
                <=> \A q \in S : ~(q.created > r.created)
  <2> DEFINE newer == {q \in S : q.created > r.created}
  <2>1. IsFiniteSet(newer)
    BY FS_Subset
  <2>2. Cardinality(newer) \in Nat /\ (Cardinality(newer) = 0 <=> newer = {})
    BY <2>1, FS_CardinalityType, FS_EmptySet
  <2>3. newer = {} <=> \A q \in S : ~(q.created > r.created)
    OBVIOUS
  <2> QED
    BY <2>2, <2>3
<1> QED
    BY <1>1 DEF Newest

\* A limit that is no smaller than the history returns all of it.
LEMMA NewestAll ==
    ASSUME NEW S, IsFiniteSet(S), \A r \in S : r.created \in Int,
           NEW n \in Nat, Cardinality(S) <= n
    PROVE  Newest(S, n) = S
<1> SUFFICES ASSUME NEW r \in S
             PROVE  Cardinality({q \in S : q.created > r.created}) < n
    BY DEF Newest
<1> DEFINE newer == {q \in S : q.created > r.created}
<1>1. newer \subseteq S \ {r}
    OBVIOUS
<1>2. IsFiniteSet(S \ {r}) /\ Cardinality(S \ {r}) = Cardinality(S) - 1
    BY FS_RemoveElement
<1>3. /\ Cardinality(newer) <= Cardinality(S \ {r}) /\ Cardinality(newer) \in Nat
    BY <1>1, <1>2, FS_Subset, FS_CardinalityType
<1> QED
    BY <1>2, <1>3, FS_CardinalityType

\* Reading the hashes of the members of a sorted set.
LEMMA MembersRead ==
    ASSUME NEW db, NEW M
    PROVE  UNION {RedisGetRun(db, id) : id \in M} = {r \in db.run : r.id \in M}
BY DEF RedisGetRun

\* The newest run of a session and pack after a run is saved that agrees with
\* the version found before, whichever of the saves is newer.
LEMMA AgreeingSaveKeepsVersion ==
    ASSUME NEW S, IsFiniteSet(S), \A r \in S : r.created \in Int,
           NEW row, row.created \in Int, \A r \in S : r.created # row.created,
           row.version = VersionOf(Newest(S, 1))
    PROVE  VersionOf(Newest(S \cup {row}, 1)) = VersionOf(Newest(S, 1))
<1> DEFINE T == S \cup {row}
<1>1. IsFiniteSet(T)
    BY FS_AddElement
<1>2. Newest(T, 1) = {r \in T : \A q \in T : ~(q.created > r.created)}
    BY <1>1, NewestOne
<1>3. Newest(S, 1) = {r \in S : \A q \in S : ~(q.created > r.created)}
    BY NewestOne
<1>4. CASE \A q \in S : q.created < row.created
  <2>1. \A r \in T : (\A q \in T : ~(q.created > r.created)) <=> r = row
    BY <1>4
  <2>2. Newest(T, 1) = {row}
    BY <1>2, <2>1
  <2> QED
    BY <2>2 DEF VersionOf
<1>5. CASE \E q \in S : q.created > row.created
  <2>1. PICK last \in S : last.created > row.created
    BY <1>5
  <2>2. \A r \in S : (\A q \in S : ~(q.created > r.created))
                        => ~(row.created > r.created)
    BY <2>1
  <2>3. \A r \in T : (\A q \in T : ~(q.created > r.created))
                        <=> r \in S /\ \A q \in S : ~(q.created > r.created)
    BY <2>1, <2>2
  <2>4. Newest(T, 1) = Newest(S, 1)
    BY <1>2, <1>3, <2>3
  <2> QED
    BY <2>4
<1> QED
    BY <1>4, <1>5

\* The indexes of the Redis store: the timeline and the sorted set of a session
\* know every run, the one of a session and pack those it was created for, which
\* are newer than any row from before.
Indexed(db) ==
    /\ History(db.run)
    /\ \A s \in Sessions :
         /\ IsFiniteSet(db.session[s])
         /\ \A id \in db.session[s] : \E r \in db.run : r.id = id
    /\ \A r \in db.run :
         /\ r.id \in db.timeline
         /\ \A s \in Sessions : r.id \in db.session[s] <=> r.session = s
         /\ \A s \in Sessions, p \in Packs :
              r.id \in db.sessionPack[<<s, p>>] <=> r.id > 0 /\ r.session = s /\ r.pack = p
    /\ \A s \in Sessions, p \in Packs : \A id \in db.sessionPack[<<s, p>>] :
         \E r \in db.run : r.id = id

IndexInv == Indexed(redis)

\* The sorted set of a session has all of its runs.
LEMMA SessionRead ==
    ASSUME NEW db, Indexed(db), NEW s \in Sessions
    PROVE  UNION {RedisGetRun(db, id) : id \in db.session[s]}
             = {r \in db.run : r.session = s}
<1>1. \A r \in db.run : r.id \in db.session[s] <=> r.session = s
    BY DEF Indexed
<1>2. {r \in db.run : r.id \in db.session[s]} = {r \in db.run : r.session = s}
    BY <1>1
<1> QED
    BY <1>2, MembersRead

\* A session with few runs is read completely.
LEMMA SessionReadCompletely ==
    ASSUME NEW db, Indexed(db), NEW s \in Sessions, Cardinality(db.session[s]) <= FallbackLimit
    PROVE  RedisListBySession(db, s, FallbackLimit) = {r \in db.run : r.session = s}
<1> DEFINE rows == {r \in db.run : r.session = s}
           key == [r \in rows |-> r.created]
<1>1. IsFiniteSet(db.run) /\ \A r \in db.run : r.id = r.created /\ r.created \in Int
    BY DEF Indexed, History
<1>2. IsFiniteSet(rows)
    BY <1>1, FS_Subset
<1>3. IsFiniteSet(db.session[s])
    BY DEF Indexed
<1>4. key \in Injection(rows, db.session[s])
  <2>1. \A r \in rows : r.created \in db.session[s]
    BY <1>1 DEF Indexed
  <2>2. \A q, r \in rows : q.created = r.created => q = r
    BY DEF Indexed, History
  <2> QED
    BY <2>1, <2>2 DEF Injection, IsInjective
<1>5. Cardinality(rows) <= Cardinality(db.session[s])
    BY <1>3, <1>4, FS_Injection
<1>6. Cardinality(rows) <= FallbackLimit
    BY <1>2, <1>3, <1>5, FS_CardinalityType, RoutingConstants
<1>7. Newest(rows, FallbackLimit) = rows
    BY <1>1, <1>2, <1>6, NewestAll, RoutingConstants
<1> QED
    BY <1>7, SessionRead DEF RedisListBySession, RedisNewest

\* Where the session+pack index has runs, the newest of them is the newest of
\* all: rows that the index does not know are older.
LEMMA IndexedVersion ==
    ASSUME NEW db, Indexed(db), NEW s \in Sessions, NEW p \in Packs, db.sessionPack[<<s, p>>] # {}
    PROVE  RedisPackVersion(db, s, p) = PostgresPackVersion(db.run, s, p)
<1> DEFINE rows == RowsOf(db.run, s, p)
           indexed == {r \in db.run : r.id \in db.sessionPack[<<s, p>>]}
<1>1. IsFiniteSet(rows) /\ IsFiniteSet(indexed)
    BY FS_Subset DEF RowsOf, Indexed, History
<1>2. \A r \in db.run : r.id = r.created /\ r.created \in Int
    BY DEF Indexed, History
<1>3. \A r \in db.run : r \in indexed <=> r \in rows /\ r.created > 0
    BY <1>2 DEF Indexed, RowsOf
<1>4. PICK one \in indexed : TRUE
    BY DEF Indexed
<1>5. \A r \in db.run :
         (r \in indexed /\ \A q \in indexed : ~(q.created > r.created))
           <=> (r \in rows /\ \A q \in rows : ~(q.created > r.created))
  <2> SUFFICES ASSUME NEW r \in db.run
               PROVE  (r \in indexed /\ \A q \in indexed : ~(q.created > r.created))
                        <=> (r \in rows /\ \A q \in rows : ~(q.created > r.created))
    OBVIOUS
  <2>1. \A q \in rows : q \in db.run
    BY DEF RowsOf
  <2> QED
    BY <1>2, <1>3, <1>4, <2>1
<1>6. Newest(indexed, 1) = Newest(rows, 1)
  <2>1. Newest(indexed, 1) = {r \in indexed : \A q \in indexed : ~(q.created > r.created)}
    BY <1>1, NewestOne
  <2>2. Newest(rows, 1) = {r \in rows : \A q \in rows : ~(q.created > r.created)}
    BY <1>1, NewestOne
  <2>3. rows \subseteq db.run
    BY DEF RowsOf
  <2> QED
    BY <1>5, <2>1, <2>2, <2>3
<1>7. RedisNewest(db, db.sessionPack[<<s, p>>], 1) = Newest(indexed, 1)
    BY MembersRead DEF RedisNewest
<1> QED
    BY <1>6, <1>7 DEF RedisPackVersion, PostgresPackVersion, RowsOf

\* A session read completely is searched completely.
LEMMA FallbackVersion ==
    ASSUME NEW db, Indexed(db), NEW s \in Sessions, NEW p \in Packs,
           Cardinality(db.session[s]) <= FallbackLimit, db.sessionPack[<<s, p>>] = {}
    PROVE  RedisPackVersion(db, s, p) = PostgresPackVersion(db.run, s, p)
<1>1. {r \in RedisListBySession(db, s, FallbackLimit) : r.pack = p}
        = {r \in db.run : r.session = s /\ r.pack = p}
    BY SessionReadCompletely
<1> QED
    BY <1>1 DEF RedisPackVersion, PostgresPackVersion

\* With such indexes all reads agree.
LEMMA IndexesAgree ==
    ASSUME IndexInv
    PROVE  RedisReadsAgree
<1>1. \A n : /\ RedisListRuns(redis, n) = SqliteListRuns(redis.run, n)
             /\ RedisListRuns(redis, n) = PostgresListRuns(redis.run, n)
  <2>1. {r \in redis.run : r.id \in redis.timeline} = redis.run
    BY DEF IndexInv, Indexed
  <2>2. UNION {RedisGetRun(redis, id) : id \in redis.timeline} = redis.run
    BY <2>1, MembersRead
  <2> QED
    BY <2>2 DEF RedisListRuns, RedisNewest, SqliteListRuns, PostgresListRuns
<1>2. \A r \in redis.run :
         /\ RedisGetRun(redis, r.id) = SqliteGetRun(redis.run, r.id)
         /\ RedisGetRun(redis, r.id) = PostgresGetRun(redis.run, r.id)
    BY DEF RedisGetRun, SqliteGetRun, PostgresGetRun
<1>3. \A s \in Sessions : \A n :
         /\ RedisListBySession(redis, s, n) = SqliteListBySession(redis.run, s, n)
         /\ RedisListBySession(redis, s, n) = PostgresListBySession(redis.run, s, n)
    BY SessionRead
    DEF IndexInv, RedisListBySession, RedisNewest, SqliteListBySession, PostgresListBySession
<1>4. \A s \in Sessions, p \in Packs :
         (\/ Cardinality(redis.session[s]) <= FallbackLimit
          \/ redis.sessionPack[<<s, p>>] # {})
         => RedisPackVersion(redis, s, p) = PostgresPackVersion(redis.run, s, p)
    BY IndexedVersion, FallbackVersion DEF IndexInv
<1> QED
    BY <1>1, <1>2, <1>3, <1>4 DEF RedisReadsAgree

-----------------------------------------------------------------------------
(* The runs and the rows they leave.                                         *)

IsRun(r) ==
    r = [session |-> r.session, pack |-> r.pack, version |-> r.version, via |-> r.via,
         open |-> r.open, save |-> r.save, created |-> r.created]

\* A save has a created_at of its own that was handed out.
RunInv ==
    /\ runs = [i \in Slots |-> runs[i]]
    /\ clock \in Nat
    /\ \A i \in Slots : IsRun(runs[i])
    /\ \A i \in Slots : runs[i].save = "stamped" =>
         /\ runs[i].created \in 1..clock
         /\ \A j \in Slots \ {i} : runs[j].save = "stamped" => runs[j].created # runs[i].created

\* The rows of all stores, this deployment's and the one it falls back to.
Saved == table["sqlite"] \cup table["postgres"] \cup redis.run

StoreInv ==
    /\ backend \in Backends
    /\ store \in {"sqlite", "postgres", "redis"}
    /\ table = [b \in {"sqlite", "postgres"} |-> table[b]]
    /\ History(table["sqlite"]) /\ History(table["postgres"])
    /\ \A r \in Saved :
         /\ r.created <= clock
         /\ \A i \in Slots : runs[i].save = "stamped" => r.created # runs[i].created

HistoryInv == RunInv /\ StoreInv /\ IndexInv

\* What a step of a run or an arrival does to its slot and to the rows.
Unstored(i) ==
    /\ UNCHANGED <<table, redis, clock>>
    /\ runs'[i].save = "stamped" =>
         runs[i].save = "stamped" /\ runs'[i].created = runs[i].created

\* A run touches its own slot; rows appear with a commit, stamps with a stamp.
LEMMA RunSteps ==
    ASSUME RunInv, NEW i \in Slots, Arrival(i) \/ RunStep(i)
    PROVE  /\ UNCHANGED <<store, backend, registry>>
           /\ runs' = [runs EXCEPT ![i] = runs'[i]] /\ IsRun(runs'[i])
           /\ Unstored(i) \/ SaveStamps(i) \/ SaveCommits(i)
<1> USE DEF RunInv
<1>1. IsRun(runs[i]) /\ runs = [j \in Slots |-> runs[j]]
    OBVIOUS
<1>2. IsRun(Idle) /\ Idle.save = "none"
    BY DEF IsRun, Idle
<1>3. ASSUME NEW s, NEW p, NEW v, NEW via
      PROVE  IsRun(NewRun(s, p, v, via)) /\ NewRun(s, p, v, via).save = "none"
    BY DEF IsRun, NewRun
<1>4. ASSUME NEW s, NEW p, NEW header, NEW pick, NEW streamed,
             Admit(i, s, p, header, pick, streamed)
      PROVE  /\ UNCHANGED <<store, backend, registry, table, redis, clock>>
             /\ runs' = [runs EXCEPT ![i] = runs'[i]] /\ IsRun(runs'[i])
             /\ runs'[i].save = "none"
  <2>1. \E v, via : runs' = [runs EXCEPT ![i] = NewRun(s, p, v, via)]
    BY <1>4 DEF Admit
  <2>2. UNCHANGED <<store, backend, registry, table, redis, clock>>
    BY <1>4 DEF Admit
  <2>3. PICK v, via : runs' = [runs EXCEPT ![i] = NewRun(s, p, v, via)]
    BY <2>1
  <2>4. runs'[i] = NewRun(s, p, v, via)
    BY <1>1, <2>3
  <2> QED
    BY <1>3, <2>2, <2>3, <2>4
<1>5. CASE \E q \in Requests, pick \in 0..MaxPick :
              \/ RunPack(i, q.session, q.pack, q.header, pick)
              \/ StreamPack(i, q.session, q.pack, q.header, pick)
    BY <1>4, <1>5 DEF RunPack, StreamPack, Unstored
<1>6. CASE \E s \in Sessions : RunLegacy(i, s) \/ RunResearch(i, s)
    BY <1>1, <1>3, <1>6 DEF RunLegacy, RunResearch, Unstored
<1>7. CASE EndUnsaved(i) \/ Answer(i)
    BY <1>1, <1>2, <1>7 DEF EndUnsaved, Answer, Unstored
<1>8. CASE SubmitSave(i) \/ SaveStarts(i)
    BY <1>1, <1>8 DEF SubmitSave, SaveStarts, Unstored, IsRun
<1>9. CASE SaveStamps(i)
    BY <1>1, <1>9 DEF SaveStamps, IsRun
<1>10. CASE SaveCommits(i)
    BY <1>1, <1>2, <1>10 DEF SaveCommits, IsRun
<1>11. CASE SaveFails(i)
    BY <1>1, <1>2, <1>11 DEF SaveFails, Unstored, IsRun
<1>12. CASE SaveTimesOut(i)
    BY <1>1, <1>2, <1>12 DEF SaveTimesOut, Unstored, IsRun
<1> QED
    BY <1>5, <1>6, <1>7, <1>8, <1>9, <1>10, <1>11, <1>12 DEF Arrival, RunStep


\* A row with an id of its own is added.
LEMMA UpsertNew ==
    ASSUME NEW T, History(T), NEW row, row.id = row.created, row.created \in Int,
           \A r \in T : r.created # row.created
    PROVE  Upsert(T, row) = T \cup {row} /\ History(T \cup {row})
<1>1. \A r \in T : r.id # row.id
    BY DEF History
<1>2. Upsert(T, row) = T \cup {row}
    BY <1>1 DEF Upsert
<1>3. IsFiniteSet(T \cup {row})
    BY FS_AddElement DEF History
<1>4. \A q, r \in T \cup {row} : q.id = r.id => q = r
    BY <1>1 DEF History
<1> QED
    BY <1>2, <1>3, <1>4 DEF History

\* One MULTI keeps the indexes in step with the hashes.
LEMMA IndexSave ==
    ASSUME IndexInv, NEW row, row.id = row.created, row.created \in Int, row.created > 0,
           \A r \in redis.run : r.created # row.created,
           redis' = RedisSaveRun(redis, row)
    PROVE  IndexInv'
<1>1. redis'.run = redis.run \cup {row} /\ History(redis'.run)
  <2>1. History(redis.run)
    BY DEF IndexInv, Indexed
  <2>2. Upsert(redis.run, row) = redis.run \cup {row} /\ History(redis.run \cup {row})
    BY <2>1, UpsertNew
  <2>3. redis'.run = Upsert(redis.run, row)
    BY DEF RedisSaveRun
  <2> QED
    BY <2>2, <2>3
<1>2. redis'.timeline = redis.timeline \cup {row.id}
    BY DEF RedisSaveRun
<1>3. \A s \in Sessions :
         redis'.session[s] = redis.session[s] \cup (IF row.session = s THEN {row.id} ELSE {})
    BY DEF RedisSaveRun
<1>4. \A s \in Sessions, p \in Packs :
         redis'.sessionPack[<<s, p>>] = redis.sessionPack[<<s, p>>] \cup
            (IF row.session = s /\ row.pack = p THEN {row.id} ELSE {})
    BY DEF RedisSaveRun
<1>5. \A r \in redis.run : r.id # row.id
    BY DEF IndexInv, Indexed, History
<1>6. /\ \A s \in Sessions : row.id \notin redis.session[s]
      /\ \A s \in Sessions, p \in Packs : row.id \notin redis.sessionPack[<<s, p>>]
    BY <1>5 DEF IndexInv, Indexed
<1>7. ASSUME NEW s \in Sessions
      PROVE  /\ IsFiniteSet(redis'.session[s])
             /\ \A id \in redis'.session[s] : \E r \in redis'.run : r.id = id
  <2>1. IsFiniteSet(redis.session[s])
    BY DEF IndexInv, Indexed
  <2>2. IsFiniteSet(redis.session[s] \cup {row.id})
    BY <2>1, FS_AddElement
  <2>3. \/ redis'.session[s] = redis.session[s]
        \/ redis'.session[s] = redis.session[s] \cup {row.id}
    BY <1>3
  <2>4. IsFiniteSet(redis'.session[s])
    BY <2>1, <2>2, <2>3
  <2> QED
    BY <1>1, <1>3, <2>4 DEF IndexInv, Indexed
<1>8. ASSUME NEW r \in redis'.run, NEW s \in Sessions
      PROVE  r.id \in redis'.session[s] <=> r.session = s
  <2>1. CASE r = row
    BY <1>3, <1>6, <2>1
  <2>2. CASE r \in redis.run
    BY <1>3, <1>5, <2>2 DEF IndexInv, Indexed
  <2> QED
    BY <1>1, <2>1, <2>2
<1>9. ASSUME NEW r \in redis'.run, NEW s \in Sessions, NEW p \in Packs
      PROVE  r.id \in redis'.sessionPack[<<s, p>>] <=> r.id > 0 /\ r.session = s /\ r.pack = p
  <2>1. CASE r = row
    BY <1>4, <1>6, <2>1
  <2>2. CASE r \in redis.run
    BY <1>4, <1>5, <2>2 DEF IndexInv, Indexed
  <2> QED
    BY <1>1, <2>1, <2>2
<1>10. \A s \in Sessions, p \in Packs : \A id \in redis'.sessionPack[<<s, p>>] :
          \E r \in redis'.run : r.id = id
    BY <1>1, <1>4 DEF IndexInv, Indexed
<1>11. \A r \in redis'.run : r.id \in redis'.timeline
    BY <1>1, <1>2 DEF IndexInv, Indexed
<1> QED
    BY <1>1, <1>7, <1>8, <1>9, <1>10, <1>11 DEF IndexInv, Indexed

\* The row of a save.
RowOf(i) == Row(runs[i].created, runs[i].session, runs[i].pack, runs[i].version,
                runs[i].created)

\* Where a committed save goes.
LEMMA CommitEffect ==
    ASSUME HistoryInv, NEW i \in Slots, SaveCommits(i)
    PROVE  /\ runs[i].save = "stamped" /\ runs'[i].save # "stamped" /\ UNCHANGED clock
           /\ RowOf(i).id = RowOf(i).created /\ RowOf(i).created \in 1..clock
           /\ \A r \in Saved : r.created # RowOf(i).created
           /\ table' = [b \in {"sqlite", "postgres"} |->
                          IF b = store THEN table[b] \cup {RowOf(i)} ELSE table[b]]
           /\ redis' = IF store = "redis" THEN RedisSaveRun(redis, RowOf(i)) ELSE redis
<1> USE DEF HistoryInv, RunInv
<1>1. runs[i].save = "stamped" /\ UNCHANGED <<clock, store>>
    BY DEF SaveCommits
<1>2. runs'[i].save # "stamped"
    BY DEF SaveCommits, IsRun, Idle
<1>3. RowOf(i).id = RowOf(i).created /\ RowOf(i).created = runs[i].created
    BY DEF RowOf, Row
<1>4. RowOf(i).created \in 1..clock /\ \A r \in Saved : r.created # RowOf(i).created
    BY <1>1, <1>3 DEF StoreInv
<1>5. redis' = IF store = "redis" THEN RedisSaveRun(redis, RowOf(i)) ELSE redis
    BY DEF SaveCommits, RowOf
<1>6. /\ Upsert(table["sqlite"], RowOf(i)) = table["sqlite"] \cup {RowOf(i)}
      /\ Upsert(table["postgres"], RowOf(i)) = table["postgres"] \cup {RowOf(i)}
  <2>1. /\ \A r \in table["sqlite"] : r.created # RowOf(i).created
        /\ \A r \in table["postgres"] : r.created # RowOf(i).created
    BY <1>4 DEF Saved
  <2>2. History(table["sqlite"]) /\ History(table["postgres"]) /\ RowOf(i).created \in Int
    BY <1>4 DEF StoreInv
  <2> QED
    BY <1>3, <2>1, <2>2, UpsertNew
<1>7. table' = [b \in {"sqlite", "postgres"} |->
                  IF b = store THEN table[b] \cup {RowOf(i)} ELSE table[b]]
  <2>1. CASE store = "sqlite"
    BY <1>6, <2>1 DEF SaveCommits, RowOf, SqliteSaveRun, StoreInv
  <2>2. CASE store = "postgres"
    BY <1>6, <2>2 DEF SaveCommits, RowOf, PostgresSaveRun, StoreInv
  <2>3. CASE store = "redis"
    BY <2>3 DEF SaveCommits, StoreInv
  <2> QED
    BY <2>1, <2>2, <2>3 DEF StoreInv
<1> QED
    BY <1>1, <1>2, <1>3, <1>4, <1>5, <1>7

\* A save commits.
LEMMA CommitHistory ==
    ASSUME HistoryInv, NEW i \in Slots, SaveCommits(i)
    PROVE  HistoryInv'
<1> USE DEF HistoryInv
<1>1. /\ runs[i].save = "stamped" /\ runs'[i].save # "stamped" /\ clock' = clock
      /\ RowOf(i).id = RowOf(i).created /\ RowOf(i).created \in 1..clock
      /\ \A r \in Saved : r.created # RowOf(i).created
    BY CommitEffect
<1>2. /\ table' = [b \in {"sqlite", "postgres"} |->
                    IF b = store THEN table[b] \cup {RowOf(i)} ELSE table[b]]
      /\ redis' = IF store = "redis" THEN RedisSaveRun(redis, RowOf(i)) ELSE redis
    BY CommitEffect
<1>3. runs' = [runs EXCEPT ![i] = runs'[i]] /\ IsRun(runs'[i])
      /\ store' = store /\ backend' = backend
    BY RunSteps DEF RunStep
<1>4. RunInv'
    BY <1>1, <1>3 DEF RunInv
<1>5. clock \in Nat /\ RowOf(i).created \in Int /\ RowOf(i).created > 0
    BY <1>1 DEF RunInv
<1>6. IndexInv'
  <2>1. CASE store = "redis"
    BY <1>1, <1>2, <1>5, <2>1, IndexSave DEF Saved
  <2>2. CASE store # "redis"
    BY <1>2, <2>2 DEF IndexInv, Indexed, History
  <2> QED
    BY <2>1, <2>2
<1>7. Saved' \subseteq Saved \cup {RowOf(i)}
  <2>1. redis'.run \subseteq redis.run \cup {RowOf(i)}
    BY <1>2 DEF RedisSaveRun, Upsert
  <2>2. /\ table'["sqlite"] \subseteq table["sqlite"] \cup {RowOf(i)}
        /\ table'["postgres"] \subseteq table["postgres"] \cup {RowOf(i)}
    BY <1>2
  <2> QED
    BY <2>1, <2>2 DEF Saved
<1>8. History(table'["sqlite"]) /\ History(table'["postgres"])
  <2>1. ASSUME NEW b \in {"sqlite", "postgres"}
        PROVE  History(table'[b])
    <3>1. /\ History(table[b]) /\ \A r \in table[b] : r.created # RowOf(i).created
        BY <1>1, <2>1 DEF StoreInv, Saved
    <3>2. History(table[b] \cup {RowOf(i)})
        BY <1>1, <1>5, <3>1, UpsertNew
    <3> QED
        BY <1>2, <3>1, <3>2
  <2> QED
    BY <2>1
<1>9. \A r \in Saved' :
         /\ r.created <= clock'
         /\ \A j \in Slots : runs'[j].save = "stamped" => r.created # runs'[j].created
  <2>1. ASSUME NEW j \in Slots, runs'[j].save = "stamped"
        PROVE  j # i /\ runs'[j] = runs[j] /\ runs[j].created # runs[i].created
    BY <1>1, <1>3, <2>1 DEF RunInv
  <2>2. RowOf(i).created = runs[i].created
    BY DEF RowOf, Row
  <2> QED
    BY <1>1, <1>5, <1>7, <2>1, <2>2 DEF StoreInv
<1>10. StoreInv'
    BY <1>2, <1>3, <1>8, <1>9 DEF StoreInv
<1> QED
    BY <1>4, <1>6, <1>10

\* A save takes its created_at.
LEMMA StampEffect ==
    ASSUME RunInv, NEW i \in Slots, SaveStamps(i)
    PROVE  /\ UNCHANGED <<table, redis>> /\ clock' = clock + 1
           /\ runs'[i].created = clock + 1
<1>1. /\ UNCHANGED <<table, redis>> /\ clock' = clock + 1
      /\ runs' = [runs EXCEPT ![i].save = "stamped", ![i].created = clock + 1]
    BY DEF SaveStamps
<1> DEFINE started == [runs EXCEPT ![i].save = "stamped"]
<1>2. started[i] = [runs[i] EXCEPT !.save = "stamped"] /\ i \in DOMAIN started
    BY DEF RunInv
<1>3. "created" \in DOMAIN started[i]
    BY <1>2 DEF RunInv, IsRun
<1>4. runs' = [started EXCEPT ![i].created = clock + 1]
    BY <1>1
<1> HIDE DEF started
<1> QED
    BY <1>1, <1>2, <1>3, <1>4

\* The inductive step.
LEMMA HistoryStep ==
    ASSUME HistoryInv, [Next]_vars
    PROVE  HistoryInv'
<1> USE DEF HistoryInv
<1>1. ASSUME NEW i \in Slots, Arrival(i) \/ RunStep(i)
      PROVE  HistoryInv'
  <2>1. runs' = [runs EXCEPT ![i] = runs'[i]] /\ IsRun(runs'[i])
      /\ store' = store /\ backend' = backend
    BY <1>1, RunSteps
  <2>2. CASE Unstored(i)
    <3>1. RunInv'
        BY <2>1, <2>2 DEF Unstored, RunInv
    <3>2. IndexInv'
        BY <2>2 DEF Unstored, IndexInv, Indexed, History
    <3>3. \A r \in Saved : \A j \in Slots : runs'[j].save = "stamped" =>
              r.created # runs'[j].created
        BY <2>1, <2>2 DEF Unstored, StoreInv, RunInv
    <3>4. StoreInv'
        BY <2>1, <2>2, <3>3 DEF Unstored, StoreInv, Saved, History
    <3> QED
        BY <3>1, <3>2, <3>4
  <2>3. CASE SaveStamps(i)
    <3>1. /\ UNCHANGED <<table, redis>> /\ clock' = clock + 1
          /\ runs'[i].created = clock + 1
        BY <2>3, StampEffect
    <3>2. clock \in Nat
        BY DEF RunInv
    <3>3. RunInv'
        BY <2>1, <3>1, <3>2 DEF RunInv
    <3>4. IndexInv'
        BY <3>1 DEF IndexInv, Indexed, History
    <3>5. \A r \in Saved : r.created \in Int
        BY DEF Saved, StoreInv, IndexInv, Indexed, History
    <3>6. \A r \in Saved : /\ r.created <= clock + 1
                           /\ \A j \in Slots : runs'[j].save = "stamped" =>
                                r.created # runs'[j].created
        BY <2>1, <3>1, <3>2, <3>5 DEF StoreInv, RunInv
    <3>7. StoreInv'
        BY <2>1, <3>1, <3>6 DEF StoreInv, Saved, History
    <3> QED
        BY <3>3, <3>4, <3>7
  <2> QED
    BY <1>1, <2>2, <2>3, RunSteps, CommitHistory
<1>2. CASE Restart
  <2>1. /\ runs' = [i \in Slots |-> Idle] /\ UNCHANGED <<table, redis, clock, backend>>
        /\ store' \in {"sqlite", "postgres", "redis"}
    BY <1>2, RoutingConstants DEF Restart, CreateRunHistory, StoreInv
  <2>2. IsRun(Idle) /\ Idle.save = "none"
    BY DEF IsRun, Idle
  <2>3. RunInv'
    BY <2>1, <2>2 DEF RunInv
  <2>4. IndexInv'
    BY <2>1 DEF IndexInv, Indexed, History
  <2>5. StoreInv'
    BY <2>1, <2>2 DEF StoreInv, Saved, History
  <2> QED
    BY <2>3, <2>4, <2>5
<1>3. CASE UNCHANGED <<backend, store, table, redis, runs, clock>>
    BY <1>3 DEF RunInv, StoreInv, IndexInv, Indexed, Saved, History
<1> QED
    BY <1>1, <1>2, <1>3 DEF Next, UpdateWeight, vars

\* A deployment starts on the rows it finds.
LEMMA HistoryInit ==
    ASSUME Init
    PROVE  HistoryInv
<1> USE DEF Init
<1>1. IsRun(Idle) /\ Idle.save = "none"
    BY DEF IsRun, Idle
<1>2. RunInv
    BY <1>1 DEF RunInv
<1>3. History(LegacyRows) /\ History({})
    BY RoutingConstants, FS_EmptySet DEF History
<1>4. redis = OldRedis \/ redis = EmptyRedis
    OBVIOUS
<1>5. redis.run = {} \/ redis.run = LegacyRows
    BY <1>4 DEF OldRedis, EmptyRedis
<1>6. History(redis.run)
    BY <1>3, <1>5
<1>7. ASSUME NEW s \in Sessions
      PROVE  /\ redis.session[s] = {r.id : r \in {q \in redis.run : q.session = s}}
             /\ IsFiniteSet(redis.session[s])
  <2>1. redis.session[s] = {r.id : r \in {q \in redis.run : q.session = s}}
    BY <1>4 DEF OldRedis, EmptyRedis
  <2> DEFINE rows == {q \in redis.run : q.session = s}
             id == [r \in rows |-> r.id]
  <2>2. IsFiniteSet(rows)
    BY <1>3, <1>5, FS_Subset DEF History
  <2>3. id \in Surjection(rows, redis.session[s])
    BY <2>1 DEF Surjection
  <2>4. IsFiniteSet(redis.session[s])
    BY <2>2, <2>3, FS_Surjection
  <2> QED
    BY <2>1, <2>4
<1>8. IndexInv
  <2>1. \A s \in Sessions, p \in Packs : redis.sessionPack[<<s, p>>] = {}
    BY <1>4 DEF OldRedis, EmptyRedis
  <2>2. \A r \in redis.run : r.id \in redis.timeline
    BY <1>4 DEF OldRedis, EmptyRedis
  <2>3. \A r \in redis.run : ~(r.id > 0)
    BY <1>5, RoutingConstants
  <2>4. \A r \in redis.run, s \in Sessions : r.id \in redis.session[s] <=> r.session = s
    BY <1>7, <1>6 DEF History
  <2> QED
    BY <1>7, <1>6, <2>1, <2>2, <2>3, <2>4 DEF IndexInv, Indexed
<1>9. StoreInv
  <2>1. /\ table["sqlite"] = {} \/ table["sqlite"] = LegacyRows
        /\ table["postgres"] = {} \/ table["postgres"] = LegacyRows
    OBVIOUS
  <2>2. Saved \subseteq LegacyRows
    BY <1>5, <2>1 DEF Saved
  <2>3. store \in {"sqlite", "postgres", "redis"}
    BY RoutingConstants DEF CreateRunHistory
  <2>4. \A r \in Saved : r.created <= clock
    BY <2>2, RoutingConstants
  <2> QED
    BY <1>1, <1>3, <2>1, <2>3, <2>4 DEF StoreInv
<1> QED
    BY <1>2, <1>8, <1>9 DEF HistoryInv

\* The indexes are in step with the hashes in every reachable state.
LEMMA HistoryInvariant == Spec => []HistoryInv
<1>1. Init => HistoryInv
    BY HistoryInit
<1>2. HistoryInv /\ [Next]_vars => HistoryInv'
    BY HistoryStep
<1> QED
    BY <1>1, <1>2, PTL DEF Spec

\* Every read of RedisRunHistory returns what ConversationMemory and
\* PostgresRunHistory return on the same rows, in every deployment and after any
\* interleaving of saves (get_run, list_runs, list_runs_by_session,
\* get_pack_version_for_session).
THEOREM RedisAgrees == Spec => []RedisReadsAgree
<1>1. HistoryInv => RedisReadsAgree
    BY IndexesAgree DEF HistoryInv
<1> QED
    BY <1>1, HistoryInvariant, PTL

-----------------------------------------------------------------------------
(* The version a session sticks to.                                          *)

\* get_pack_version_for_session, of any store on any rows.
VersionIn(st, tb, db, s, p) ==
    CASE st = "redis" -> RedisPackVersion(db, s, p)
      [] st = "postgres" -> PostgresPackVersion(tb["postgres"], s, p)
      [] OTHER -> SqlitePackVersion(tb["sqlite"], s, p)

RowsIn(st, tb, db) == IF st = "redis" THEN db.run ELSE tb[st]

\* The session has more runs in Redis than the fallback looks at.
Forgets(st, db, s) == st = "redis" /\ Cardinality(db.session[s]) > FallbackLimit

\* Whatever the store, the version is that of the newest run of session and pack.
LEMMA VersionRead ==
    ASSUME NEW st \in {"sqlite", "postgres", "redis"}, NEW tb, NEW db, Indexed(db),
           NEW s \in Sessions, NEW p \in Packs, ~Forgets(st, db, s)
    PROVE  VersionIn(st, tb, db, s, p) = VersionOf(Newest(RowsOf(RowsIn(st, tb, db), s, p), 1))
<1>1. CASE st = "redis"
  <2>1. Cardinality(db.session[s]) <= FallbackLimit
    BY <1>1, FS_CardinalityType, RoutingConstants DEF Indexed, Forgets
  <2>2. RedisPackVersion(db, s, p) = PostgresPackVersion(db.run, s, p)
    BY <2>1, IndexedVersion, FallbackVersion
  <2> QED
    BY <1>1, <2>2 DEF VersionIn, RowsIn, RowsOf, PostgresPackVersion
<1>2. CASE st # "redis"
    BY <1>2 DEF VersionIn, RowsIn, RowsOf, PostgresPackVersion, SqlitePackVersion
<1> QED
    BY <1>1, <1>2

\* Sessions only grow.
LEMMA CommitRemembers ==
    ASSUME HistoryInv, NEW i \in Slots, SaveCommits(i),
           NEW s \in Sessions, ~Forgets(store, redis', s)
    PROVE  ~Forgets(store, redis, s)
<1>1. IsFiniteSet(redis'.session[s])
    BY CommitHistory DEF HistoryInv, IndexInv, Indexed
<1>2. redis.session[s] \subseteq redis'.session[s]
    BY CommitEffect DEF RedisSaveRun
<1>3. /\ Cardinality(redis.session[s]) <= Cardinality(redis'.session[s])
      /\ Cardinality(redis.session[s]) \in Nat /\ Cardinality(redis'.session[s]) \in Nat
    BY <1>1, <1>2, FS_Subset, FS_CardinalityType
<1> QED
    BY <1>3, RoutingConstants DEF Forgets

\* A save that commits changes the version of its own session and pack only, and
\* not even that one when it agrees with it.
LEMMA CommitVersion ==
    ASSUME HistoryInv, NEW i \in Slots, SaveCommits(i),
           NEW s \in Sessions, NEW p \in Packs, ~Forgets(store, redis', s),
           \/ runs[i].session # s \/ runs[i].pack # p
           \/ runs[i].version = VersionIn(store, table, redis, s, p)
    PROVE  /\ ~Forgets(store, redis, s)
           /\ VersionIn(store, table', redis', s, p) = VersionIn(store, table, redis, s, p)
<1> DEFINE old == RowsIn(store, table, redis)
           new == RowsIn(store, table', redis')
           row == RowOf(i)
<1>1. HistoryInv' /\ store' = store
    BY CommitHistory DEF SaveCommits
<1>2. Indexed(redis) /\ Indexed(redis') /\ store \in {"sqlite", "postgres", "redis"}
    BY <1>1 DEF HistoryInv, IndexInv, StoreInv
<1>3. ~Forgets(store, redis, s)
    BY CommitRemembers
<1>4. /\ VersionIn(store, table, redis, s, p) = VersionOf(Newest(RowsOf(old, s, p), 1))
      /\ VersionIn(store, table', redis', s, p) = VersionOf(Newest(RowsOf(new, s, p), 1))
    BY <1>2, <1>3, VersionRead
<1>5. /\ History(old) /\ row.created \in Int /\ row.id = row.created
      /\ \A r \in old : r.created # row.created
  <2>1. /\ row.created \in Int /\ row.id = row.created
        /\ \A r \in Saved : r.created # row.created
    BY CommitEffect DEF HistoryInv, RunInv
  <2>2. old \subseteq Saved
    BY <1>2 DEF RowsIn, Saved
  <2>3. History(old)
    BY <1>2 DEF RowsIn, Indexed, HistoryInv, StoreInv
  <2> QED
    BY <2>1, <2>2, <2>3
<1>6. new = old \cup {row}
  <2>1. CASE store = "redis"
    <3>1. Upsert(redis.run, row) = redis.run \cup {row}
        BY <1>5, <2>1, UpsertNew DEF RowsIn
    <3>2. redis'.run = Upsert(redis.run, row)
        BY <2>1, CommitEffect DEF RedisSaveRun
    <3> QED
        BY <2>1, <3>1, <3>2 DEF RowsIn
  <2>2. CASE store # "redis"
    BY <1>2, <2>2, CommitEffect DEF RowsIn
  <2> QED
    BY <2>1, <2>2
<1>7. row.session = runs[i].session /\ row.pack = runs[i].pack /\ row.version = runs[i].version
    BY DEF RowOf, Row
<1>8. CASE runs[i].session # s \/ runs[i].pack # p
  <2>1. RowsOf(new, s, p) = RowsOf(old, s, p)
    BY <1>6, <1>7, <1>8 DEF RowsOf
  <2> QED
    BY <1>3, <1>4, <2>1
<1>9. CASE runs[i].session = s /\ runs[i].pack = p
  <2>1. RowsOf(new, s, p) = RowsOf(old, s, p) \cup {row}
    BY <1>6, <1>7, <1>9 DEF RowsOf
  <2>2. /\ IsFiniteSet(RowsOf(old, s, p)) /\ \A r \in RowsOf(old, s, p) : r.created \in Int
        /\ \A r \in RowsOf(old, s, p) : r.created # row.created
    BY <1>5, FS_Subset DEF RowsOf, History
  <2>3. row.version = VersionOf(Newest(RowsOf(old, s, p), 1))
    BY <1>4, <1>7, <1>9
  <2>4. VersionOf(Newest(RowsOf(old, s, p) \cup {row}, 1))
          = VersionOf(Newest(RowsOf(old, s, p), 1))
    BY <1>5, <2>2, <2>3, AgreeingSaveKeepsVersion
  <2> QED
    BY <1>3, <1>4, <2>1, <2>4
<1> QED
    BY <1>8, <1>9

\* One run of a session at a time, apart from /research; a pack run that is still
\* being saved after its answer is known to have outlived its handler.
SlotInv ==
    \A i \in Slots :
        /\ runs[i].pack # None => runs[i].via \in {"header", "affinity", "history", "stream"}
        /\ runs[i].via = "stream" => runs[i].save = "none"
        /\ runs[i].via = "history" => runs[i].session \in Sessions /\ runs[i].pack \in Packs
        /\ runs[i].pack # None /\ ~runs[i].open => <<runs[i].session, runs[i].pack>> \in outlived
        /\ \A j \in Slots \ {i} :
             /\ runs[i].open /\ runs[i].via # "research"
             /\ runs[j].open /\ runs[j].via # "research"
             => runs[i].session # runs[j].session \/ runs[i].session = None

\* While no save of its session and pack has outlived its handler, a run that
\* followed the history is still on the version the history names.
FollowInv ==
    \A i \in Slots :
        /\ runs[i].via = "history" /\ runs[i].save # "over"
        /\ <<runs[i].session, runs[i].pack>> \notin outlived
        /\ ~Forgets(store, redis, runs[i].session)
        => runs[i].version = VersionIn(store, table, redis, runs[i].session, runs[i].pack)

PinInv == HistoryInv /\ SlotInv /\ FollowInv

\* A run that is on its way: who it is does not change until its slot is free.
Continues(i) ==
    /\ runs'[i].session = runs[i].session /\ runs'[i].pack = runs[i].pack
    /\ runs'[i].via = runs[i].via /\ runs'[i].version = runs[i].version
    /\ runs'[i].open => runs[i].open
    /\ \/ runs'[i].open \/ ~runs[i].open \/ runs[i].pack = None
       \/ <<runs[i].session, runs[i].pack>> \in outlived'
    /\ runs[i].save = "over" => runs'[i].save = "over"
    /\ runs'[i].save = "none" \/ runs[i].save # "none" \/ runs[i].via # "stream"

\* Every step of a run goes on with it or frees its slot.
LEMMA RunContinues ==
    ASSUME RunInv, NEW i \in Slots, RunStep(i)
    PROVE  runs'[i] = Idle \/ Continues(i)
<1>1. IsRun(runs[i]) /\ runs = [j \in Slots |-> runs[j]]
    BY DEF RunInv
<1>2. CASE EndUnsaved(i) \/ Answer(i)
    BY <1>1, <1>2 DEF EndUnsaved, Answer
<1>3. CASE SubmitSave(i)
    BY <1>1, <1>3 DEF SubmitSave, Continues, IsRun
<1>4. CASE SaveStarts(i)
    BY <1>1, <1>4 DEF SaveStarts, Continues, IsRun
<1>5. CASE SaveStamps(i)
    BY <1>1, <1>5 DEF SaveStamps, Continues, IsRun
<1>6. CASE SaveCommits(i)
    BY <1>1, <1>6 DEF SaveCommits, Continues, IsRun
<1>7. CASE SaveFails(i)
    BY <1>1, <1>7 DEF SaveFails, Continues, IsRun
<1>8. CASE SaveTimesOut(i)
    BY <1>1, <1>8 DEF SaveTimesOut, Continues, IsRun
<1> QED
    BY <1>2, <1>3, <1>4, <1>5, <1>6, <1>7, <1>8 DEF RunStep

\* Going on takes no session from another run, and time-outs are remembered.
LEMMA RunSlots ==
    ASSUME RunInv, SlotInv, NEW i \in Slots, RunStep(i)
    PROVE  SlotInv' /\ outlived \subseteq outlived'
<1>1. runs' = [runs EXCEPT ![i] = runs'[i]]
    BY RunSteps
<1>2. \A j \in Slots \ {i} : runs'[j] = runs[j]
    BY <1>1 DEF RunInv
<1>3. outlived \subseteq outlived'
    BY DEF RunStep, EndUnsaved, SubmitSave, SaveStarts, SaveStamps, SaveCommits, SaveFails,
           SaveTimesOut, Answer
<1>4. CASE runs'[i] = Idle
    BY <1>2, <1>3, <1>4 DEF SlotInv, Idle
<1>5. CASE Continues(i)
    BY <1>2, <1>3, <1>5 DEF SlotInv, Continues
<1> QED
    BY <1>3, <1>4, <1>5, RunContinues

\* What an arrival puts into a free slot.
Arrives(i) ==
    /\ runs[i] = Idle /\ runs'[i].open /\ runs'[i].save = "none"
    /\ runs'[i].pack # None => runs'[i].via \in {"header", "affinity", "history", "stream"}
    /\ runs'[i].via # "research" =>
         runs'[i].session = None \/ ~InFlight(runs'[i].session)
    /\ runs'[i].via = "history" =>
         /\ runs'[i].session \in Sessions /\ runs'[i].pack \in Packs
         /\ runs'[i].version = VersionIn(store, table, redis, runs'[i].session, runs'[i].pack)

\* A pack run that follows the history gets the version the history names.
LEMMA AdmitArrives ==
    ASSUME RunInv, NEW i \in Slots, NEW q \in Requests, NEW pick, NEW streamed \in BOOLEAN,
           Admit(i, q.session, q.pack, q.header, pick, streamed)
    PROVE  Arrives(i) /\ UNCHANGED <<store, table, redis, outlived>>
<1> DEFINE s == q.session
           p == q.pack
           ask == Requested(s, p, q.header)
           v == GetVersion(p, ask[2], pick)
           via == IF streamed THEN "stream" ELSE ask[1]
<1>1. s \in Sessions \cup {None} /\ p \in Packs
    BY RoutingConstants
<1>2. /\ runs[i] = Idle /\ UNCHANGED <<store, table, redis, outlived>>
      /\ v # None /\ (s = None \/ ~InFlight(s))
      /\ runs' = [runs EXCEPT ![i] = NewRun(s, p, v, via)]
    BY DEF Admit
<1>3. runs'[i] = NewRun(s, p, v, via)
    BY <1>2 DEF RunInv
<1>4. /\ runs'[i].session = s /\ runs'[i].pack = p /\ runs'[i].version = v
      /\ runs'[i].via = via /\ runs'[i].open /\ runs'[i].save = "none"
    BY <1>3 DEF NewRun
<1>5. /\ ask[1] \in {"header", "affinity", "history"}
      /\ ask[1] = "history" => s # None /\ ask[2] # None
                            /\ ask[2] = VersionIn(store, table, redis, s, p)
    BY DEF Requested, PackVersionForSession, VersionIn
<1>6. ask[2] # None => v = ask[2]
    BY <1>2 DEF GetVersion
<1> HIDE DEF ask, v
<1>7. via = "history" => s \in Sessions /\ v = VersionIn(store, table, redis, s, p)
    BY <1>1, <1>5, <1>6
<1>8. via \in {"header", "affinity", "history", "stream"}
    BY <1>5
<1> HIDE DEF via, s, p
<1> QED
    BY <1>1, <1>2, <1>4, <1>7, <1>8 DEF Arrives

\* The runs without a pack record no version.
LEMMA ArrivalArrives ==
    ASSUME RunInv, NEW i \in Slots, Arrival(i)
    PROVE  Arrives(i) /\ UNCHANGED <<store, table, redis, outlived>>
<1>1. CASE \E q \in Requests, pick \in 0..MaxPick :
              \/ RunPack(i, q.session, q.pack, q.header, pick)
              \/ StreamPack(i, q.session, q.pack, q.header, pick)
    BY <1>1, AdmitArrives DEF RunPack, StreamPack
<1>2. ASSUME NEW s \in Sessions, RunLegacy(i, s) \/ RunResearch(i, s)
      PROVE  Arrives(i) /\ UNCHANGED <<store, table, redis, outlived>>
  <2>1. runs[i] = Idle /\ UNCHANGED <<store, table, redis, outlived>>
    BY <1>2 DEF RunLegacy, RunResearch
  <2>2. \/ runs'[i] = NewRun(s, None, None, "legacy") /\ ~InFlight(s)
        \/ runs'[i] = NewRun(s, None, None, "research")
    BY <1>2 DEF RunLegacy, RunResearch, RunInv
  <2> QED
    BY <2>1, <2>2 DEF Arrives, NewRun
<1> QED
    BY <1>1, <1>2 DEF Arrival

\* An arrival takes its session, unless another run has it.
LEMMA ArrivalSlots ==
    ASSUME RunInv, SlotInv, NEW i \in Slots, Arrival(i)
    PROVE  SlotInv'
<1>1. runs' = [runs EXCEPT ![i] = runs'[i]]
    BY RunSteps
<1>2. \A j \in Slots \ {i} : runs'[j] = runs[j]
    BY <1>1 DEF RunInv
<1>3. Arrives(i) /\ outlived' = outlived
    BY ArrivalArrives
<1>4. runs'[i].via # "research" /\ runs'[i].session # None =>
         \A j \in Slots : runs[j].open /\ runs[j].via # "research" =>
            runs[j].session # runs'[i].session
    BY <1>3 DEF Arrives, InFlight
<1> QED
    BY <1>2, <1>3, <1>4 DEF SlotInv, Arrives


\* The versions of runs stay those of the history while a save commits: a run of
\* the same session and pack cannot be the one that commits, since it would be
\* in flight beside them or have outlived its handler.
LEMMA CommitFollow ==
    ASSUME PinInv, NEW i \in Slots, SaveCommits(i)
    PROVE  FollowInv'
<1> SUFFICES ASSUME NEW j \in Slots, runs'[j].via = "history", runs'[j].save # "over",
                    <<runs'[j].session, runs'[j].pack>> \notin outlived',
                    ~Forgets(store, redis', runs'[j].session)
             PROVE  runs'[j].version =
                      VersionIn(store, table', redis', runs'[j].session, runs'[j].pack)
    BY DEF FollowInv, SaveCommits, Forgets, VersionIn
<1>1. RunInv /\ SlotInv /\ HistoryInv
    BY DEF PinInv, HistoryInv
<1>2. runs' = [runs EXCEPT ![i] = runs'[i]]
    BY <1>1, RunSteps DEF RunStep
<1>3. runs'[i].save \in {"over", "none"} /\ (runs'[i].save = "none" => runs'[i] = Idle)
    BY <1>1 DEF SaveCommits, RunInv, IsRun, Idle
<1>4. j # i
    BY <1>3 DEF Idle
<1>5. runs'[j] = runs[j]
    BY <1>1, <1>2, <1>4 DEF RunInv
<1>6. runs[j].session \in Sessions /\ runs[j].pack \in Packs /\ outlived' = outlived
    BY <1>1, <1>5 DEF SlotInv, SaveCommits
<1>7. runs[j].session # None /\ runs[j].pack # None
    BY <1>6, RoutingConstants
<1>8. runs[j].open
    BY <1>1, <1>5, <1>6, <1>7 DEF SlotInv
<1>9. runs[i].session # runs[j].session \/ runs[i].pack # runs[j].pack
  <2> SUFFICES ASSUME runs[i].session = runs[j].session, runs[i].pack = runs[j].pack
               PROVE  FALSE
    OBVIOUS
  <2>1. runs[i].open /\ runs[i].via # "research"
    BY <1>1, <1>5, <1>6, <1>7 DEF SlotInv
  <2> QED
    BY <1>1, <1>4, <1>5, <1>7, <1>8, <2>1 DEF SlotInv
<1> QED
    BY <1>1, <1>5, <1>6, <1>9, CommitVersion DEF PinInv, FollowInv

\* Saves and arrivals keep the invariant.
LEMMA PinStep ==
    ASSUME PinInv, [Next]_vars
    PROVE  PinInv'
<1> USE DEF PinInv
<1>1. HistoryInv' /\ RunInv
    BY HistoryStep DEF HistoryInv
<1>2. ASSUME NEW i \in Slots, Arrival(i)
      PROVE  SlotInv' /\ FollowInv'
  <2>1. SlotInv' /\ Arrives(i) /\ UNCHANGED <<store, table, redis, outlived>>
    BY <1>1, <1>2, ArrivalSlots, ArrivalArrives
  <2>2. \A j \in Slots \ {i} : runs'[j] = runs[j]
    BY <1>1, <1>2, RunSteps DEF RunInv
  <2> QED
    BY <2>1, <2>2 DEF FollowInv, Arrives, Forgets, VersionIn
<1>3. ASSUME NEW i \in Slots, RunStep(i)
      PROVE  SlotInv' /\ FollowInv'
  <2>1. SlotInv' /\ outlived \subseteq outlived' /\ store' = store
    BY <1>1, <1>3, RunSlots, RunSteps
  <2>2. \A j \in Slots \ {i} : runs'[j] = runs[j]
    BY <1>1, <1>3, RunSteps DEF RunInv
  <2>3. CASE UNCHANGED <<table, redis>>
    <3> SUFFICES ASSUME NEW j \in Slots, runs'[j].via = "history", runs'[j].save # "over",
                        <<runs'[j].session, runs'[j].pack>> \notin outlived',
                        ~Forgets(store, redis, runs'[j].session)
                 PROVE  runs'[j].version =
                          VersionIn(store, table, redis, runs'[j].session, runs'[j].pack)
        BY <2>1, <2>3 DEF FollowInv
    <3>1. /\ runs[j].via = "history" /\ runs[j].save # "over"
          /\ runs'[j].session = runs[j].session /\ runs'[j].pack = runs[j].pack
          /\ runs'[j].version = runs[j].version
      <4>1. CASE j = i
        <5>1. runs'[i] # Idle
            BY <4>1 DEF Idle
        <5>2. Continues(i)
            BY <1>1, <1>3, <5>1, RunContinues
        <5> QED
            BY <4>1, <5>2 DEF Continues
      <4>2. CASE j # i
        BY <2>2, <4>2
      <4> QED
        BY <4>1, <4>2
    <3> QED
        BY <2>1, <3>1 DEF FollowInv
  <2>4. CASE SaveCommits(i)
    BY <2>1, <2>4, CommitFollow
  <2>5. UNCHANGED <<table, redis>> \/ SaveCommits(i)
    BY <1>3 DEF RunStep, EndUnsaved, SubmitSave, SaveStarts, SaveStamps, SaveFails,
                SaveTimesOut, Answer
  <2> QED
    BY <2>1, <2>3, <2>4, <2>5
<1>4. CASE Restart
  <2>1. \A i \in Slots : runs'[i] = Idle
    BY <1>4 DEF Restart
  <2>2. ~Idle.open /\ Idle.pack = None /\ Idle.via = "none"
    BY DEF Idle
  <2>3. SlotInv'
    BY <2>1, <2>2 DEF SlotInv
  <2>4. FollowInv'
    BY <2>1, <2>2 DEF FollowInv
  <2> QED
    BY <1>1, <2>3, <2>4
<1>5. CASE UNCHANGED <<store, table, redis, runs, outlived>>
  <2>1. SlotInv'
    BY <1>5 DEF SlotInv
  <2>2. FollowInv'
    BY <1>5 DEF FollowInv
  <2> QED
    BY <1>1, <2>1, <2>2
<1> QED
    BY <1>1, <1>2, <1>3, <1>4, <1>5 DEF Next, UpdateWeight, vars

\* Runs that follow the history agree with it in every reachable state.
LEMMA PinInvariant == Spec => []PinInv
<1>1. Init => PinInv
  <2>1. ASSUME Init
        PROVE  SlotInv /\ FollowInv
    BY <2>1 DEF Init, SlotInv, FollowInv, Idle
  <2> QED
    BY <2>1, HistoryInit DEF PinInv
<1>2. PinInv /\ [Next]_vars => PinInv'
    BY PinStep
<1> QED
    BY <1>1, <1>2, PTL DEF Spec

\* Only a commit changes what is stored, and it changes the version of its own
\* session and pack, when it did not follow the history.
LEMMA PinKept ==
    ASSUME PinInv, Next, <<table, redis>>' # <<table, redis>>,
           NEW s \in Sessions, NEW p \in Packs, store' = store,
           VersionIn(store, table, redis, s, p) # VersionIn(store, table', redis', s, p),
           <<s, p>> \notin outlived, ~Forgets(store, redis', s)
    PROVE  \E i \in Slots : /\ runs[i].session = s /\ runs[i].pack = p
                            /\ runs[i].via \in {"header", "affinity"}
                            /\ runs'[i].save # runs[i].save
<1>1. HistoryInv /\ SlotInv /\ FollowInv /\ RunInv
    BY DEF PinInv, HistoryInv
<1>2. PICK i \in Slots : SaveCommits(i)
  <2>1. ASSUME NEW i \in Slots, Arrival(i)
        PROVE  FALSE
    BY <1>1, <2>1, ArrivalArrives
  <2>2. ASSUME NEW i \in Slots, RunStep(i)
        PROVE  SaveCommits(i)
    BY <2>2 DEF RunStep, EndUnsaved, SubmitSave, SaveStarts, SaveStamps, SaveFails,
                SaveTimesOut, Answer
  <2> QED
    BY <2>1, <2>2 DEF Next, UpdateWeight, Restart
<1>3. /\ runs[i].session = s /\ runs[i].pack = p
      /\ runs[i].version # VersionIn(store, table, redis, s, p)
    BY <1>1, <1>2, CommitVersion
<1>4. runs[i].save = "stamped" /\ runs'[i].save # "stamped"
    BY <1>1, <1>2, CommitEffect
<1>5. ~Forgets(store, redis, s)
    BY <1>1, <1>2, CommitRemembers
<1>6. runs[i].via # "history"
    BY <1>1, <1>3, <1>4, <1>5 DEF FollowInv
<1>7. runs[i].via \in {"header", "affinity", "history", "stream"} /\ runs[i].via # "stream"
    BY <1>1, <1>3, <1>4, RoutingConstants DEF SlotInv
<1> QED
    BY <1>3, <1>4, <1>6, <1>7

\* A session keeps its version of a pack: whatever the weights, the plugins, the
\* restarts and the order of the saves, only a run that was pinned to another
\* version, or admitted before any was saved, changes it, as long as no save
\* outlived its handler (get_pack_version_for_session, _save_run_best_effort,
\* try_acquire_session).
THEOREM SessionsStick == Spec => PinChangesOnlyByUnpinnedRuns
<1> DEFINE Kept ==
      \A s \in Sessions, p \in Packs :
         LET old == PackVersionForSession(s, p)
             new == PackVersionForSession(s, p)'
         IN  store' = store /\ old \notin {None, new} =>
               \/ \E i \in Slots : /\ runs[i].session = s /\ runs[i].pack = p
                                  /\ runs[i].via \in {"header", "affinity"}
                                  /\ runs'[i].save # runs[i].save
               \/ <<s, p>> \in outlived
               \/ store = "redis" /\ Cardinality(redis'.session[s]) > FallbackLimit
<1>1. PinInv /\ [Next]_vars => [Kept]_<<table, redis>>
  <2> SUFFICES ASSUME PinInv, Next, <<table, redis>>' # <<table, redis>>,
                      NEW s \in Sessions, NEW p \in Packs, store' = store,
                      PackVersionForSession(s, p) # PackVersionForSession(s, p)',
                      <<s, p>> \notin outlived,
                      ~(store = "redis" /\ Cardinality(redis'.session[s]) > FallbackLimit)
               PROVE  \E i \in Slots : /\ runs[i].session = s /\ runs[i].pack = p
                                       /\ runs[i].via \in {"header", "affinity"}
                                       /\ runs'[i].save # runs[i].save
    BY DEF vars
  <2>1. /\ PackVersionForSession(s, p) = VersionIn(store, table, redis, s, p)
        /\ PackVersionForSession(s, p)' = VersionIn(store, table', redis', s, p)
    BY DEF PackVersionForSession, VersionIn
  <2> QED
    BY <2>1, PinKept DEF Forgets
<1> QED
    BY <1>1, PinInvariant, PTL DEF Spec, PinChangesOnlyByUnpinnedRuns
-----------------------------------------------------------------------------
(* Weights.  Induction takes the form of a least counterexample: the library's *)
(* theorem about well-founded relations speaks of sets, not of operators.     *)

\* A set of naturals has a least element.
LEMMA LeastNatural ==
    ASSUME NEW T, T \subseteq Nat, T # {}
    PROVE  \E x \in T : \A y \in T : x <= y
<1> DEFINE R == OpToRel(<, Nat)
<1>1. IsWellFoundedOn(R, Nat)
    BY NatLessThanWellFounded
<1>2. \A a, b \in Nat : a < b => <<a, b>> \in R
    BY DEF OpToRel
<1> HIDE DEF R
<1>3. PICK x \in T : \A y \in T : ~(<<y, x>> \in R)
    BY <1>1, WFMin
<1>4. ASSUME NEW y \in T
      PROVE  x <= y
  <2>1. x \in Nat /\ y \in Nat /\ ~(y < x)
    BY <1>2, <1>3
  <2> QED
    BY <2>1
<1> QED
    BY <1>4

\* The equation of ExactSums, for any f and the first n versions.
IsExact(f, vs, n) ==
    f = [i \in 0..n |-> IF i = 0 THEN 0 ELSE f[i - 1] + vs[i].weight]

\* The equation has a solution, so ExactSums is one.
LEMMA ExactExists ==
    ASSUME NEW vs, NEW n \in Nat
    PROVE  \E f : IsExact(f, vs, n)
<1> DEFINE Bad == {k \in Nat : ~\E f : IsExact(f, vs, k)}
<1>1. ASSUME Bad # {}
      PROVE  FALSE
  <2>1. PICK k \in Bad : \A j \in Bad : k <= j
    BY <1>1, LeastNatural
  <2>2. k # 0
    <3>1. IsExact([i \in 0..0 |-> 0], vs, 0)
        BY DEF IsExact
    <3> QED
        BY <3>1
  <2>3. k \in Nat /\ k - 1 \in Nat /\ k - 1 \notin Bad
    BY <2>1, <2>2
  <2>4. PICK f : IsExact(f, vs, k - 1)
    BY <2>3
  <2> DEFINE g == [i \in 0..k |-> IF i = k THEN f[k - 1] + vs[k].weight ELSE f[i]]
  <2>5. IsExact(g, vs, k)
    <3> HIDE DEF Bad
    <3>1. \A i \in 0..k - 1 : f[i] = IF i = 0 THEN 0 ELSE f[i - 1] + vs[i].weight
        BY <2>4 DEF IsExact
    <3>2. ASSUME NEW i \in 0..k
          PROVE  g[i] = IF i = 0 THEN 0 ELSE g[i - 1] + vs[i].weight
      <4>1. CASE i = k
        <5>1. k - 1 \in 0..k /\ k \in 0..k /\ k - 1 # k
            BY <2>3
        <5> QED
            BY <2>2, <4>1, <5>1
      <4>2. CASE i # k
        <5>1. i \in 0..k - 1 /\ (i # 0 => i - 1 \in 0..k /\ i - 1 # k)
            BY <2>3, <4>2
        <5>2. g[i] = f[i] /\ (i # 0 => g[i - 1] = f[i - 1])
            BY <4>2, <5>1
        <5> HIDE DEF g
        <5> QED
            BY <3>1, <5>1, <5>2
      <4> QED
        BY <4>1, <4>2
    <3>3. g = [i \in 0..k |-> g[i]]
        OBVIOUS
    <3> HIDE DEF g
    <3> QED
        BY <3>2, <3>3 DEF IsExact
  <2> QED
    BY <2>5
<1> QED
    BY <1>1

Weighted == [version : Versions, weight : Nat]

\* The entries of a pack are numbered from 1 and have natural weights.
LEMMA Entries ==
    ASSUME NEW vs \in Seq(Weighted)
    PROVE  /\ Len(vs) \in Nat
           /\ DOMAIN vs = 1..Len(vs)
           /\ \A i \in 1..Len(vs) : vs[i] \in Weighted /\ vs[i].weight \in Nat
<1>1. Len(vs) \in Nat /\ DOMAIN vs = 1..Len(vs)
    OBVIOUS
<1>2. \A i \in 1..Len(vs) : vs[i] \in Weighted
    BY <1>1
<1>3. \A e \in Weighted : e.weight \in Nat
    BY DEF Weighted
<1> QED
    BY <1>1, <1>2, <1>3

\* The exact sums start at 0, every version adds its weight, and they are
\* naturals.
LEMMA ExactSteps ==
    ASSUME NEW vs \in Seq(Weighted)
    PROVE  /\ ExactSums(vs) \in [0..Len(vs) -> Nat]
           /\ ExactSums(vs)[0] = 0
           /\ \A i \in DOMAIN vs : ExactSums(vs)[i] = ExactSums(vs)[i - 1] + vs[i].weight
<1> DEFINE c == ExactSums(vs)
           n == Len(vs)
<1>1. ExactSums(vs) = CHOOSE f : IsExact(f, vs, Len(vs))
    BY DEF ExactSums, IsExact
<1>2. IsExact(c, vs, n)
    BY <1>1, ExactExists
<1> HIDE DEF c
<1>3. /\ c = [i \in 0..n |-> c[i]]
      /\ c[0] = 0
      /\ \A i \in 1..n : c[i] = c[i - 1] + vs[i].weight
    BY <1>2 DEF IsExact
<1> DEFINE Bad == {k \in 0..n : c[k] \notin Nat}
<1>4. ASSUME Bad # {}
      PROVE  FALSE
  <2>1. PICK k \in Bad : \A j \in Bad : k <= j
    <3>1. Bad \subseteq Nat
        OBVIOUS
    <3> HIDE DEF Bad
    <3> QED
        BY <1>4, <3>1, LeastNatural
  <2>2. k \in 1..n
    BY <1>3, Entries
  <2>3. c[k - 1] \in Nat
    BY <2>1, <2>2
  <2>4. vs[k].weight \in Nat
    BY <2>2, Entries
  <2> QED
    BY <1>3, <2>2, <2>3, <2>4
<1>5. \A k \in 0..n : c[k] \in Nat
    BY <1>4
<1>6. DOMAIN vs = 1..n
    OBVIOUS
<1> QED
    BY <1>3, <1>5, <1>6 DEF c

\* The sums never decrease.
LEMMA ExactMonotone ==
    ASSUME NEW vs \in Seq(Weighted), NEW i \in 0..Len(vs), NEW j \in i..Len(vs)
    PROVE  ExactSums(vs)[i] <= ExactSums(vs)[j]
<1> DEFINE c == ExactSums(vs)
           n == Len(vs)
           Bad == {k \in i..n : ~(c[i] <= c[k])}
<1>1. /\ c \in [0..n -> Nat]
      /\ \A k \in 1..n : c[k] = c[k - 1] + vs[k].weight /\ vs[k].weight \in Nat
    BY ExactSteps, Entries
<1> HIDE DEF c
<1>2. ASSUME Bad # {}
      PROVE  FALSE
  <2>1. PICK k \in Bad : \A m \in Bad : k <= m
    <3>1. Bad \subseteq Nat
        OBVIOUS
    <3> HIDE DEF Bad
    <3> QED
        BY <1>2, <3>1, LeastNatural
  <2>2. k # i
    BY <1>1
  <2>3. /\ k - 1 \in i..n /\ k - 1 \notin Bad
        /\ k \in 1..n /\ k - 1 \in 0..n /\ i \in 0..n
    BY <2>1, <2>2, Entries
  <2>4. c[i] <= c[k - 1]
    BY <2>3
  <2>5. /\ c[i] \in Nat /\ c[k - 1] \in Nat /\ vs[k].weight \in Nat
        /\ c[k] = c[k - 1] + vs[k].weight
    <3> HIDE DEF n, Bad
    <3> QED
        BY <1>1, <2>3
  <2>6. c[i] <= c[k]
    BY <2>4, <2>5
  <2> QED
    BY <2>1, <2>6
<1> QED
    BY <1>2 DEF c

\* Facts about products that the provers use as they are.
LEMMA Products ==
    /\ \A a, b \in Nat : a > 0 /\ b > 0 => a * b > 0
    /\ \A a, b \in Nat : a * b \in Nat /\ a * b = b * a
    /\ \A a, b, c \in Nat : a <= b => a * c <= b * c
    /\ \A a, b, c \in Nat : a < b /\ c > 0 => a * c < b * c
    /\ \A a, b, c \in Nat : a * (b + c) = a * b + a * c /\ (a + b) * c = a * c + b * c
    OBVIOUS

-----------------------------------------------------------------------------
(* Rounding. *)

\* Rounding gives a float, and none is nearer.
LEMMA NearestFloat ==
    ASSUME NEW n \in Nat, NEW d \in Nat
    PROVE  /\ Nearest(n, d) \in Floats /\ Nearest(n, d) \in Nat
           /\ \A g \in Floats : Distance(Nearest(n, d), n, d) <= Distance(g, n, d)
<1> DEFINE T == {Distance(g, n, d) : g \in Floats}
<1>1. \A g \in Floats : Distance(g, n, d) \in Nat
  <2>1. \A g \in Floats : g \in Nat /\ g * d \in Nat
    BY FloatConstants, Products
  <2> QED
    BY <2>1 DEF Distance
<1>2. T \subseteq Nat /\ T # {}
    BY <1>1, FloatConstants
<1> HIDE DEF T
<1>3. PICK x \in T : \A y \in T : x <= y
    BY <1>2, LeastNatural
<1>4. \E f \in Floats : \A g \in Floats : Distance(f, n, d) <= Distance(g, n, d)
    BY <1>3 DEF T
<1>5. /\ Nearest(n, d) \in Floats
      /\ \A g \in Floats : Distance(Nearest(n, d), n, d) <= Distance(g, n, d)
    BY <1>4 DEF Nearest
<1> QED
    BY <1>5, FloatConstants

\* The same, with the distances spelled out as products.
LEMMA NearestProducts ==
    ASSUME NEW n \in Nat, NEW d \in Nat, NEW g \in Floats
    PROVE  LET x == Nearest(n, d) * d
               y == g * d
           IN  /\ x \in Nat /\ y \in Nat
               /\ (IF x >= n THEN x - n ELSE n - x) <= (IF y >= n THEN y - n ELSE n - y)
<1>1. Nearest(n, d) \in Nat /\ g \in Nat
    BY NearestFloat, FloatConstants
<1>2. Nearest(n, d) * d \in Nat /\ g * d \in Nat
    BY <1>1, Products
<1>3. Distance(Nearest(n, d), n, d) <= Distance(g, n, d)
    BY NearestFloat
<1> QED
    BY <1>2, <1>3 DEF Distance

\* Rounding does not pass a float.
LEMMA NearestBounded ==
    ASSUME NEW n \in Nat, NEW d \in Nat \ {0}, NEW g \in Floats, n <= g * d
    PROVE  Nearest(n, d) <= g
<1>0. g \in Nat /\ d \in Nat /\ d > 0
    BY FloatConstants
<1>1. Nearest(n, d) \in Nat /\ g \in Nat /\ d \in Nat /\ d > 0
    BY <1>0, NearestFloat
<1>2. ASSUME g < Nearest(n, d)
      PROVE  FALSE
  <2> DEFINE x == Nearest(n, d) * d
             y == g * d
  <2>1. y < x
    BY <1>1, <1>2, Products
  <2>2. x \in Nat /\ y \in Nat /\ (IF x >= n THEN x - n ELSE n - x) <= y - n
    BY NearestProducts
  <2> HIDE DEF x, y
  <2>3. n <= y
    BY DEF y
  <2> QED
    BY <2>1, <2>2, <2>3
<1> QED
    BY <1>1, <1>2

\* A float is not changed by rounding.
LEMMA NearestExact ==
    ASSUME NEW g \in Floats, NEW d \in Nat \ {0}
    PROVE  Nearest(g * d, d) = g
<1> DEFINE n == g * d
           x == Nearest(n, d) * d
<1>1. g \in Nat /\ d \in Nat /\ d > 0 /\ n \in Nat
    BY FloatConstants, Products
<1>2. ASSUME NEW f \in Nat, f < g PROVE f * d < n
    BY <1>1, <1>2, Products
<1>3. n <= g * d /\ n >= n
    BY <1>1
<1> HIDE DEF n
<1>4. Nearest(n, d) \in Nat /\ Nearest(n, d) <= g
  <2>1. Nearest(n, d) \in Nat
    BY <1>1, NearestFloat
  <2>2. Nearest(n, d) <= g
    BY <1>1, <1>3, NearestBounded
  <2> QED
    BY <2>1, <2>2
<1>5. x \in Nat /\ (IF x >= n THEN x - n ELSE n - x) <= 0
  <2>1. /\ x \in Nat
        /\ (IF x >= n THEN x - n ELSE n - x)
            <= (IF g * d >= n THEN g * d - n ELSE n - g * d)
    BY <1>1, NearestProducts
  <2>2. g * d = n /\ n \in Nat
    BY <1>1 DEF n
  <2> QED
    BY <2>1, <2>2
<1> HIDE DEF x
<1>6. x = n
    BY <1>1, <1>5
<1>7. Nearest(n, d) = g
    BY <1>1, <1>4, <1>2, <1>6 DEF x
<1> QED
    BY <1>7 DEF n

\* Rounding keeps the order.
LEMMA NearestMonotone ==
    ASSUME NEW m \in Nat, NEW n \in Nat, m <= n, NEW d \in Nat \ {0}
    PROVE  Nearest(m, d) <= Nearest(n, d)
<1>1. /\ Nearest(m, d) \in Floats /\ Nearest(n, d) \in Floats
      /\ Nearest(m, d) \in Nat /\ Nearest(n, d) \in Nat /\ d \in Nat /\ d > 0
  <2>1. d \in Nat /\ d > 0
    OBVIOUS
  <2> QED
    BY <2>1, NearestFloat
<1>2. ASSUME Nearest(n, d) < Nearest(m, d)
      PROVE  FALSE
  <2> DEFINE x == Nearest(m, d) * d
             y == Nearest(n, d) * d
  <2>1. y < x
    BY <1>1, <1>2, Products
  <2>2. /\ x \in Nat /\ y \in Nat
        /\ (IF x >= m THEN x - m ELSE m - x) <= (IF y >= m THEN y - m ELSE m - y)
    BY <1>1, NearestProducts
  <2>3. (IF y >= n THEN y - n ELSE n - y) <= (IF x >= n THEN x - n ELSE n - x)
    BY <1>1, NearestProducts
  <2>4. m # n
    BY <1>1, <1>2
  <2> HIDE DEF x, y
  <2> QED
    BY <2>1, <2>2, <2>3, <2>4
<1> QED
    BY <1>1, <1>2

\* Floats get no denser: when the threshold of a share of t is at most c, that of
\* the same share of t + d is at most c + d.
LEMMA NearestShifted ==
    ASSUME NEW t \in Nat, NEW c \in Nat, NEW d \in Nat,
           t \in Floats, c \in Floats, c + d \in Floats,
           NEW pick \in 0..MaxPick, Nearest(pick * t, MaxPick) <= c
    PROVE  Nearest(pick * (t + d), MaxPick) <= c + d
<1> DEFINE M == MaxPick
           T == Nearest(pick * t, M)
           g == Nearest(pick * (t + d), M)
<1>1. M \in Nat /\ M > 0 /\ M \in Nat \ {0} /\ pick \in Nat /\ pick <= M
    BY RoutingConstants
<1>2. /\ pick * t \in Nat /\ pick * d \in Nat /\ pick * (t + d) = pick * t + pick * d
      /\ pick * d <= M * d /\ M * d \in Nat /\ d * M = M * d
    BY <1>1, Products
<1>3. T \in Nat /\ g \in Nat /\ T \in Floats /\ g \in Floats /\ T <= c
  <2>1. pick * (t + d) \in Nat
    BY <1>2
  <2>2. T \in Nat /\ T \in Floats
    BY <1>1, <1>2, NearestFloat
  <2>3. g \in Nat /\ g \in Floats
    BY <1>1, <2>1, NearestFloat
  <2> QED
    BY <2>2, <2>3
<1> HIDE DEF M, T, g
<1>4. ASSUME c + d < g
      PROVE  FALSE
  <2>1. PICK h \in Floats : c < h /\ h + ((c + d) - c) <= g
    <3>1. c <= c + d
        OBVIOUS
    <3> QED
        BY <1>3, <1>4, <3>1, FloatConstants
  <2>2. h \in Nat /\ c < h /\ h + d <= g
    BY <2>1, FloatConstants
  <2>3. /\ h * M \in Nat /\ c * M \in Nat /\ T * M \in Nat /\ g * M \in Nat
        /\ (c + d) * M = c * M + M * d /\ (h + d) * M = h * M + M * d
        /\ c * M < h * M /\ T * M <= c * M /\ (h + d) * M <= g * M
    <3>1. h + d \in Nat
        BY <2>2
    <3> QED
        BY <1>1, <1>2, <1>3, <2>2, <3>1, Products
  <2>4. pick * (t + d) > (c + d) * M
    <3>1. (c + d) * M \in Nat /\ pick * (t + d) \in Nat
        BY <1>2, <2>3
    <3>2. ~(pick * (t + d) <= (c + d) * M)
        BY <1>1, <1>3, <1>4, <3>1, NearestBounded DEF g, M
    <3> QED
        BY <3>1, <3>2
  <2>5. pick * t > c * M
    BY <1>2, <2>3, <2>4
  <2>6. (IF T * M >= pick * t THEN T * M - pick * t ELSE pick * t - T * M)
            <= (IF h * M >= pick * t THEN h * M - pick * t ELSE pick * t - h * M)
    BY <1>1, <1>2, NearestProducts DEF T
  <2>7. pick * t - c * M <= h * M - pick * t
    BY <1>2, <2>3, <2>5, <2>6
  <2>8. (IF g * M >= pick * (t + d) THEN g * M - pick * (t + d) ELSE pick * (t + d) - g * M)
            <= pick * (t + d) - (c + d) * M
    <3>1. c + d \in Floats /\ pick * (t + d) \in Nat /\ (c + d) * M \in Nat
        BY <1>2, <2>3
    <3>2. (IF g * M >= pick * (t + d) THEN g * M - pick * (t + d) ELSE pick * (t + d) - g * M)
            <= (IF (c + d) * M >= pick * (t + d) THEN (c + d) * M - pick * (t + d)
                ELSE pick * (t + d) - (c + d) * M)
        BY <1>1, <3>1, NearestProducts DEF g
    <3> QED
        BY <2>4, <3>1, <3>2
  <2>9. pick * d = M * d
    BY <1>2, <2>3, <2>4, <2>7, <2>8
  <2>10. CASE d = 0
    <3>1. t + d = t /\ c + d = c
        BY <2>10
    <3>2. g = T
        BY <3>1 DEF g, T
    <3> QED
        BY <1>3, <1>4, <3>1, <3>2
  <2>11. CASE d # 0
    <3>1. pick = M
        BY <1>1, <2>9, <2>11, Products
    <3>2. pick * t = t * M
        BY <1>1, <3>1, Products
    <3>3. T = t
        BY <1>1, <3>2, NearestExact DEF T
    <3> QED
        BY <1>2, <2>3, <2>5, <3>2, <3>3
  <2> QED
    BY <2>10, <2>11
<1>5. g <= c + d
    BY <1>3, <1>4
<1> QED
    BY <1>5 DEF g, M

\* An addition gives a float, the exact one where there is one.
LEMMA SumFloat ==
    ASSUME NEW n \in Nat
    PROVE  Sum(n) \in Floats /\ Sum(n) \in Nat /\ (n \in Floats => Sum(n) = n)
BY NearestFloat, FloatConstants DEF Sum

-----------------------------------------------------------------------------
(* The running sums. *)

\* The equation of Cumulative, for any f and the first n versions.
IsCumulative(f, vs, n) ==
    f = [i \in 0..n |-> IF i = 0 THEN 0 ELSE Sum(f[i - 1] + vs[i].weight)]

\* The equation has a solution, so Cumulative is one.
LEMMA CumulativeExists ==
    ASSUME NEW vs, NEW n \in Nat
    PROVE  \E f : IsCumulative(f, vs, n)
<1> DEFINE Step(i, before) == Sum(before + vs[i].weight)
           Bad == {k \in Nat : ~\E f : IsCumulative(f, vs, k)}
<1>1. ASSUME NEW f, NEW m \in Nat
      PROVE  IsCumulative(f, vs, m) <=>
                f = [i \in 0..m |-> IF i = 0 THEN 0 ELSE Step(i, f[i - 1])]
    BY DEF IsCumulative
<1> HIDE DEF Step
<1>2. ASSUME Bad # {}
      PROVE  FALSE
  <2>1. PICK k \in Bad : \A j \in Bad : k <= j
    <3>1. Bad \subseteq Nat
        OBVIOUS
    <3> HIDE DEF Bad
    <3> QED
        BY <1>2, <3>1, LeastNatural
  <2>2. k # 0
    <3> DEFINE e == [i \in 0..0 |-> 0]
    <3>1. e = [i \in 0..0 |-> IF i = 0 THEN 0 ELSE Step(i, e[i - 1])]
        OBVIOUS
    <3>2. IsCumulative(e, vs, 0)
        BY <1>1, <3>1
    <3> QED
        BY <3>2
  <2>3. k \in Nat /\ k - 1 \in Nat /\ k - 1 \notin Bad
    BY <2>1, <2>2
  <2>4. PICK f : IsCumulative(f, vs, k - 1)
    BY <2>3
  <2>5. f = [i \in 0..k - 1 |-> IF i = 0 THEN 0 ELSE Step(i, f[i - 1])]
    BY <1>1, <2>3, <2>4
  <2> DEFINE g == [i \in 0..k |-> IF i = k THEN Step(k, f[k - 1]) ELSE f[i]]
  <2>6. g = [i \in 0..k |-> IF i = 0 THEN 0 ELSE Step(i, g[i - 1])]
    <3> HIDE DEF Bad
    <3>1. \A i \in 0..k - 1 : f[i] = IF i = 0 THEN 0 ELSE Step(i, f[i - 1])
        BY <2>5
    <3>2. ASSUME NEW i \in 0..k
          PROVE  g[i] = IF i = 0 THEN 0 ELSE Step(i, g[i - 1])
      <4>1. CASE i = k
        <5>1. k - 1 \in 0..k /\ k \in 0..k /\ k - 1 # k
            BY <2>3
        <5> QED
            BY <2>2, <4>1, <5>1
      <4>2. CASE i # k
        <5>1. i \in 0..k - 1 /\ (i # 0 => i - 1 \in 0..k /\ i - 1 # k)
            BY <2>3, <4>2
        <5>2. g[i] = f[i] /\ (i # 0 => g[i - 1] = f[i - 1])
            BY <4>2, <5>1
        <5> HIDE DEF g
        <5> QED
            BY <3>1, <5>1, <5>2
      <4> QED
        BY <4>1, <4>2
    <3>3. g = [i \in 0..k |-> g[i]]
        OBVIOUS
    <3> HIDE DEF g
    <3> QED
        BY <3>2, <3>3
  <2>7. IsCumulative(g, vs, k)
    BY <1>1, <2>3, <2>6
  <2> QED
    BY <2>7
<1> QED
    BY <1>2

\* What the loop over the weights computes: it starts at 0, every version adds
\* its weight, and the sums are floats.
LEMMA CumulativeSteps ==
    ASSUME NEW vs \in Seq(Weighted)
    PROVE  /\ \A i \in 0..Len(vs) : Cumulative(vs)[i] \in Floats /\ Cumulative(vs)[i] \in Nat
           /\ Cumulative(vs)[0] = 0
           /\ \A i \in DOMAIN vs : Cumulative(vs)[i] = Sum(Cumulative(vs)[i - 1] + vs[i].weight)
<1> DEFINE c == Cumulative(vs)
           n == Len(vs)
<1>1. Cumulative(vs) = CHOOSE f : IsCumulative(f, vs, Len(vs))
    BY DEF Cumulative, IsCumulative
<1>2. IsCumulative(c, vs, n)
    BY <1>1, CumulativeExists
<1> HIDE DEF c
<1>3. c[0] = 0 /\ \A i \in 1..n : c[i] = Sum(c[i - 1] + vs[i].weight)
  <2>1. \A i \in 0..n : c[i] = IF i = 0 THEN 0 ELSE Sum(c[i - 1] + vs[i].weight)
    <3> HIDE DEF n
    <3> QED
        BY <1>2, Zenon DEF IsCumulative
  <2>2. 0 \in 0..n /\ \A i \in 1..n : i \in 0..n /\ i # 0
    BY Entries
  <2> QED
    BY <2>1, <2>2
<1> DEFINE Bad == {k \in 0..n : ~(c[k] \in Floats /\ c[k] \in Nat)}
<1>4. ASSUME Bad # {}
      PROVE  FALSE
  <2>1. PICK k \in Bad : \A j \in Bad : k <= j
    <3>1. Bad \subseteq Nat
        OBVIOUS
    <3> HIDE DEF Bad
    <3> QED
        BY <1>4, <3>1, LeastNatural
  <2>2. k \in 1..n
    BY <1>3, Entries, FloatConstants
  <2>3. c[k - 1] \in Nat
    BY <2>1, <2>2
  <2>4. vs[k].weight \in Nat
    BY <2>2, Entries
  <2>5. c[k - 1] + vs[k].weight \in Nat
    BY <2>3, <2>4
  <2>6. c[k] \in Floats /\ c[k] \in Nat
    BY <1>3, <2>2, <2>5, SumFloat
  <2> QED
    BY <2>1, <2>6
<1>5. \A k \in 0..n : c[k] \in Floats /\ c[k] \in Nat
    BY <1>4
<1>6. DOMAIN vs = 1..n
    OBVIOUS
<1> QED
    BY <1>3, <1>5, <1>6 DEF c

\* sum() gives a float.
LEMMA TotalFloat ==
    ASSUME NEW vs \in Seq(Weighted)
    PROVE  TotalWeight(vs) \in Floats /\ TotalWeight(vs) \in Nat
<1>1. ExactSums(vs)[Len(vs)] \in Nat
    BY ExactSteps, Entries
<1> QED
    BY <1>1, SumFloat DEF TotalWeight

\* The threshold is a float that does not exceed sum().
LEMMA ThresholdBounded ==
    ASSUME NEW vs \in Seq(Weighted), NEW pick \in 0..MaxPick
    PROVE  Threshold(vs, pick) \in Nat /\ Threshold(vs, pick) <= TotalWeight(vs)
<1>1. MaxPick \in Nat \ {0} /\ MaxPick \in Nat /\ pick \in Nat /\ pick <= MaxPick
    BY RoutingConstants
<1>2. TotalWeight(vs) \in Floats /\ TotalWeight(vs) \in Nat
    BY TotalFloat
<1>3. pick * TotalWeight(vs) \in Nat /\ pick * TotalWeight(vs) <= TotalWeight(vs) * MaxPick
    BY <1>1, <1>2, Products
<1> QED
    BY <1>1, <1>2, <1>3, NearestFloat, NearestBounded DEF Threshold

\* Without rounding the running sums are the exact ones, and so is sum().
LEMMA ExactWhenFloats ==
    ASSUME NEW vs \in Seq(Weighted), SumsExact(vs)
    PROVE  /\ \A i \in 0..Len(vs) : Cumulative(vs)[i] = ExactSums(vs)[i]
           /\ TotalWeight(vs) = ExactSums(vs)[Len(vs)]
<1> DEFINE c == Cumulative(vs)
           e == ExactSums(vs)
           n == Len(vs)
           Bad == {k \in 0..n : c[k] # e[k]}
<1>1. /\ n \in Nat /\ DOMAIN vs = 1..n
      /\ \A i \in 1..n : e[i] \in Floats
    BY Entries DEF SumsExact
<1>2. /\ e \in [0..n -> Nat] /\ e[0] = 0
      /\ \A i \in 1..n : e[i] = e[i - 1] + vs[i].weight
    BY ExactSteps, Entries
<1>3. c[0] = 0 /\ \A i \in 1..n : c[i] = Sum(c[i - 1] + vs[i].weight)
    BY CumulativeSteps, Entries
<1>4. \A i \in 0..n : e[i] \in Nat /\ Sum(e[i]) = e[i]
  <2>1. \A i \in 0..n : e[i] \in Nat /\ e[i] \in Floats
    <3>1. \A i \in 0..n : i = 0 \/ i \in 1..n
        BY <1>1
    <3> HIDE DEF e, n
    <3> QED
        BY <1>1, <1>2, <3>1, FloatConstants
  <2> QED
    BY <2>1, SumFloat
<1> HIDE DEF c, e, n
<1>5. ASSUME Bad # {}
      PROVE  FALSE
  <2>1. PICK k \in Bad : \A j \in Bad : k <= j
    <3>1. Bad \subseteq Nat
        BY <1>1
    <3> HIDE DEF Bad
    <3> QED
        BY <1>5, <3>1, LeastNatural
  <2>2. k \in 1..n /\ k \in 0..n
    BY <1>1, <1>2, <1>3
  <2>3. k - 1 \in 0..n /\ k - 1 \notin Bad
    BY <1>1, <2>1, <2>2
  <2>4. c[k - 1] = e[k - 1]
    BY <2>3
  <2>5. c[k] = Sum(e[k])
    BY <1>2, <1>3, <2>2, <2>4
  <2> QED
    BY <1>4, <2>1, <2>2, <2>5
<1>6. \A i \in 0..n : c[i] = e[i]
    BY <1>5
<1>7. n \in 0..n
    BY <1>1
<1>8. TotalWeight(vs) = e[n]
    BY <1>4, <1>7 DEF TotalWeight, e, n
<1> QED
    BY <1>6, <1>8 DEF c, e, n

\* The versions whose cumulative weight reaches the threshold of a hash.
Reached(vs, pick) == {i \in DOMAIN vs : Threshold(vs, pick) <= Cumulative(vs)[i]}

\* The first version that reaches it is selected, or else the last.
LEMMA SelectsFirstReached ==
    ASSUME NEW vs \in Seq(Weighted), NEW pick \in 0..MaxPick
    PROVE  /\ Reached(vs, pick) # {} =>
                /\ SelectWeighted(vs, pick) \in Reached(vs, pick)
                /\ \A j \in Reached(vs, pick) : SelectWeighted(vs, pick) <= j
           /\ Reached(vs, pick) = {} => SelectWeighted(vs, pick) = Len(vs)
<1> DEFINE hit == Reached(vs, pick)
<1>1. hit \subseteq Nat
    BY Entries DEF Reached
<1>2. SelectWeighted(vs, pick) =
        IF hit = {} THEN Len(vs) ELSE CHOOSE i \in hit : \A j \in hit : i <= j
    BY DEF SelectWeighted, Reached
<1> HIDE DEF hit
<1>3. hit # {} => \E i \in hit : \A j \in hit : i <= j
    BY <1>1, LeastNatural
<1> QED
    BY <1>2, <1>3 DEF hit

\* A version of weight 0 adds nothing to the sum before it, so it is never the
\* first to reach a positive threshold; as the last one it is what is left when
\* none does.
LEMMA DrainedNotSelected ==
    ASSUME NEW vs \in Seq(Weighted), NEW i \in DOMAIN vs, vs[i].weight = 0,
           NEW pick \in 0..MaxPick, Threshold(vs, pick) # 0, SelectWeighted(vs, pick) = i
    PROVE  i = Len(vs) /\ Cumulative(vs)[Len(vs)] < TotalWeight(vs)
<1> DEFINE c == Cumulative(vs)
           t == Threshold(vs, pick)
<1>1. i \in 1..Len(vs) /\ Len(vs) \in Nat /\ DOMAIN vs = 1..Len(vs)
    BY Entries
<1>2. t \in Nat /\ t <= TotalWeight(vs) /\ TotalWeight(vs) \in Nat
    BY ThresholdBounded, TotalFloat
<1>3. /\ \A k \in 0..Len(vs) : c[k] \in Floats /\ c[k] \in Nat
      /\ c[0] = 0
      /\ \A k \in DOMAIN vs : c[k] = Sum(c[k - 1] + vs[k].weight)
    BY CumulativeSteps
<1>4. \A k \in DOMAIN vs : k \in Reached(vs, pick) <=> t <= c[k]
    BY DEF Reached
<1> HIDE DEF c, t
<1>5. CASE Reached(vs, pick) = {}
  <2>1. i = Len(vs) /\ Len(vs) \in DOMAIN vs /\ Len(vs) \in 0..Len(vs)
    BY <1>1, <1>5, SelectsFirstReached
  <2>2. ~(t <= c[Len(vs)])
    BY <1>4, <1>5, <2>1
  <2> QED
    BY <1>2, <1>3, <2>1, <2>2 DEF c
<1>6. CASE Reached(vs, pick) # {}
  <2>1. i \in Reached(vs, pick) /\ \A j \in Reached(vs, pick) : i <= j
    BY <1>6, SelectsFirstReached
  <2>2. i - 1 \in 0..Len(vs) /\ c[i - 1] \in Nat /\ c[i - 1] \in Floats
    BY <1>1, <1>3
  <2>3. c[i] = c[i - 1]
    <3>1. c[i - 1] + vs[i].weight = c[i - 1]
        BY <2>2
    <3> QED
        BY <1>3, <2>2, <3>1, SumFloat
  <2>4. t <= c[i - 1]
    BY <1>4, <2>1, <2>3
  <2>5. CASE i = 1
    BY <1>2, <1>3, <2>4, <2>5 DEF t
  <2>6. CASE i # 1
    <3>1. i - 1 \in DOMAIN vs /\ ~(i <= i - 1)
        BY <1>1, <2>6
    <3> QED
        BY <1>4, <2>1, <2>4, <3>1
  <2> QED
    BY <2>5, <2>6
<1> QED
    BY <1>5, <1>6

\* Raising one weight leaves the sums before it alone and raises the others by
\* the same amount.
LEMMA ExactRaised ==
    ASSUME NEW vs \in Seq(Weighted), NEW ws \in Seq(Weighted), Len(ws) = Len(vs),
           NEW i \in DOMAIN vs, NEW d \in Nat,
           ws[i].weight = vs[i].weight + d,
           \A k \in DOMAIN vs : k # i => ws[k] = vs[k],
           NEW j \in 0..Len(vs)
    PROVE  ExactSums(ws)[j] = IF j < i THEN ExactSums(vs)[j] ELSE ExactSums(vs)[j] + d
<1> DEFINE c == ExactSums(vs)
           r == ExactSums(ws)
           n == Len(vs)
           Bad == {k \in 0..n : r[k] # IF k < i THEN c[k] ELSE c[k] + d}
<1>1. /\ n \in Nat /\ i \in 1..n
      /\ \A k \in 1..n : vs[k].weight \in Nat
      /\ \A k \in 1..n : ws[k].weight = IF k = i THEN vs[k].weight + d ELSE vs[k].weight
    BY Entries
<1>2. /\ c \in [0..n -> Nat] /\ c[0] = 0
      /\ \A k \in 1..n : c[k] = c[k - 1] + vs[k].weight
    BY ExactSteps, Entries
<1>3. /\ r \in [0..n -> Nat] /\ r[0] = 0
      /\ \A k \in 1..n : r[k] = r[k - 1] + ws[k].weight
    BY ExactSteps, Entries
<1> HIDE DEF c, r, n
<1>4. ASSUME Bad # {}
      PROVE  FALSE
  <2>1. PICK k \in Bad : \A m \in Bad : k <= m
    <3>1. Bad \subseteq Nat
        BY <1>1
    <3> HIDE DEF Bad
    <3> QED
        BY <1>4, <3>1, LeastNatural
  <2>2. k \in 1..n
    BY <1>1, <1>2, <1>3
  <2>3. k - 1 \in 0..n /\ k - 1 \notin Bad
    BY <1>1, <2>1, <2>2
  <2>4. r[k - 1] = IF k - 1 < i THEN c[k - 1] ELSE c[k - 1] + d
    BY <2>3
  <2>5. c[k - 1] \in Nat /\ vs[k].weight \in Nat
    BY <1>1, <1>2, <2>2, <2>3
  <2>6. r[k] = r[k - 1] + ws[k].weight /\ c[k] = c[k - 1] + vs[k].weight
    BY <1>2, <1>3, <2>2
  <2>7. r[k] = IF k < i THEN c[k] ELSE c[k] + d
    <3>1. ws[k].weight = IF k = i THEN vs[k].weight + d ELSE vs[k].weight
        BY <1>1, <2>2
    <3>2. k \in Int /\ i \in Int
        BY <1>1, <2>2
    <3> HIDE DEF Bad
    <3>3. CASE k < i
        BY <2>4, <2>5, <2>6, <3>1, <3>2, <3>3
    <3>4. CASE k = i
        BY <2>4, <2>5, <2>6, <3>1, <3>2, <3>4
    <3>5. CASE k > i
        BY <2>4, <2>5, <2>6, <3>1, <3>2, <3>5
    <3> QED
        BY <3>2, <3>3, <3>4, <3>5
  <2> QED
    BY <2>1, <2>7
<1> QED
    BY <1>4 DEF c, r, n

\* When one weight is raised and no sum is rounded, what reaches the threshold
\* before that version reached it before, and what is at or behind it and reached
\* it still does.
LEMMA ReachedRaised ==
    ASSUME NEW vs \in Seq(Weighted), NEW ws \in Seq(Weighted), Len(ws) = Len(vs),
           SumsExact(vs), SumsExact(ws),
           NEW i \in DOMAIN vs, NEW d \in Nat,
           ws[i].weight = vs[i].weight + d,
           \A k \in DOMAIN vs : k # i => ws[k] = vs[k],
           NEW pick \in 0..MaxPick, NEW j \in DOMAIN vs
    PROVE  /\ j < i /\ j \in Reached(ws, pick) => j \in Reached(vs, pick)
           /\ j >= i /\ j \in Reached(vs, pick) => j \in Reached(ws, pick)
<1> DEFINE t == TotalWeight(vs)
           c == Cumulative(vs)[j]
<1>1. /\ Len(vs) \in 0..Len(vs) /\ Len(vs) >= i /\ j \in 0..Len(vs)
      /\ DOMAIN ws = DOMAIN vs /\ i \in Nat /\ j \in Nat
    BY Entries
<1>2. t \in Nat /\ c \in Nat /\ t \in Floats /\ c \in Floats
    BY <1>1, CumulativeSteps, TotalFloat
<1>3. \A k \in 0..Len(vs) :
        ExactSums(ws)[k] = IF k < i THEN ExactSums(vs)[k] ELSE ExactSums(vs)[k] + d
    BY ExactRaised
<1>4. /\ \A k \in 0..Len(vs) : Cumulative(vs)[k] = ExactSums(vs)[k]
      /\ TotalWeight(vs) = ExactSums(vs)[Len(vs)]
    BY ExactWhenFloats
<1>5. /\ \A k \in 0..Len(vs) : Cumulative(ws)[k] = ExactSums(ws)[k]
      /\ TotalWeight(ws) = ExactSums(ws)[Len(vs)]
    BY ExactWhenFloats
<1>6. TotalWeight(ws) = t + d
    BY <1>1, <1>3, <1>4, <1>5, Entries
<1>7. Cumulative(ws)[j] = IF j < i THEN c ELSE c + d
    BY <1>1, <1>3, <1>4, <1>5
<1>8. MaxPick \in Nat /\ MaxPick \in Nat \ {0} /\ pick \in Nat /\ pick <= MaxPick
    BY RoutingConstants
<1>9. Cumulative(ws)[j] \in Floats
    BY <1>1, CumulativeSteps
<1>10. j \in Reached(vs, pick) <=> Nearest(pick * t, MaxPick) <= c
    BY DEF Reached, Threshold
<1>11. j \in Reached(ws, pick) <=> Nearest(pick * (t + d), MaxPick) <= Cumulative(ws)[j]
    BY <1>1, <1>6 DEF Reached, Threshold
<1> HIDE DEF t, c
<1>12. /\ pick * t \in Nat /\ pick * (t + d) \in Nat /\ pick * t <= pick * (t + d)
    BY <1>2, <1>8, Products
<1>13. Nearest(pick * t, MaxPick) <= Nearest(pick * (t + d), MaxPick)
    BY <1>8, <1>12, NearestMonotone
<1>14. Nearest(pick * t, MaxPick) \in Nat /\ Nearest(pick * (t + d), MaxPick) \in Nat
    BY <1>8, <1>12, NearestFloat
<1>15. CASE j < i
    BY <1>1, <1>2, <1>7, <1>10, <1>11, <1>13, <1>14, <1>15
<1>16. CASE j >= i
  <2>1. Cumulative(ws)[j] = c + d
    BY <1>1, <1>7, <1>16
  <2>2. c + d \in Floats
    BY <1>9, <2>1
  <2>3. Nearest(pick * t, MaxPick) <= c => Nearest(pick * (t + d), MaxPick) <= c + d
    BY <1>2, <2>2, NearestShifted
  <2> QED
    BY <1>1, <1>10, <1>11, <1>16, <2>1, <2>3
<1> QED
    BY <1>1, <1>15, <1>16

\* When one weight is raised, a hash keeps its version or moves towards the
\* raised one, not past it.
LEMMA MovesTowardsRaised ==
    ASSUME NEW vs \in Seq(Weighted), NEW ws \in Seq(Weighted), Len(ws) = Len(vs),
           SumsExact(vs), SumsExact(ws),
           NEW i \in DOMAIN vs, NEW d \in Nat,
           ws[i].weight = vs[i].weight + d,
           \A k \in DOMAIN vs : k # i => ws[k] = vs[k],
           NEW pick \in 0..MaxPick
    PROVE  LET old == SelectWeighted(vs, pick)
               new == SelectWeighted(ws, pick)
           IN  (old <= new /\ new <= i) \/ (i <= new /\ new <= old)
<1> DEFINE old == SelectWeighted(vs, pick)
           new == SelectWeighted(ws, pick)
<1>1. /\ Len(vs) \in Nat /\ Len(vs) > 0 /\ i \in 1..Len(vs)
      /\ DOMAIN vs = 1..Len(vs) /\ DOMAIN ws = 1..Len(vs)
    BY Entries
<1>2. old \in Reached(vs, pick) /\ \A j \in Reached(vs, pick) : old <= j
  <2>1. Len(vs) \in Reached(vs, pick)
    BY <1>1, ExactWhenFloats, ThresholdBounded DEF Reached
  <2> QED
    BY <2>1, SelectsFirstReached
<1>3. new \in Reached(ws, pick) /\ \A j \in Reached(ws, pick) : new <= j
  <2>1. Len(ws) \in Reached(ws, pick)
    BY <1>1, ExactWhenFloats, ThresholdBounded DEF Reached
  <2> QED
    BY <2>1, SelectsFirstReached
<1> HIDE DEF old, new
<1>4. old \in 1..Len(vs) /\ new \in 1..Len(vs)
    BY <1>1, <1>2, <1>3 DEF Reached
<1>5. \A j \in 1..Len(vs) :
        /\ j < i /\ j \in Reached(ws, pick) => j \in Reached(vs, pick)
        /\ j >= i /\ j \in Reached(vs, pick) => j \in Reached(ws, pick)
    BY <1>1, ReachedRaised
<1>6. new < i => old <= new
    BY <1>2, <1>3, <1>4, <1>5
<1>7. CASE old < i
  <2>1. i \in 0..Len(vs) /\ old \in 0..Len(vs) /\ i \in old..Len(vs)
    BY <1>1, <1>4, <1>7
  <2>2. ExactSums(vs)[old] <= ExactSums(vs)[i]
    BY <2>1, ExactMonotone
  <2>3. Cumulative(vs)[old] <= Cumulative(vs)[i]
    BY <2>1, <2>2, ExactWhenFloats
  <2>4. /\ Threshold(vs, pick) \in Nat /\ Threshold(vs, pick) <= Cumulative(vs)[old]
        /\ Cumulative(vs)[old] \in Nat /\ Cumulative(vs)[i] \in Nat
    BY <1>2, <2>1, CumulativeSteps, ThresholdBounded DEF Reached
  <2>5. i \in Reached(vs, pick)
    BY <2>3, <2>4 DEF Reached
  <2>6. new <= i
    BY <1>1, <1>3, <1>5, <2>5
  <2> QED
    BY <1>1, <1>4, <1>6, <1>7, <2>6 DEF old, new
<1>8. CASE old >= i
  <2>1. new <= old
    BY <1>2, <1>3, <1>4, <1>5, <1>8
  <2> QED
    BY <1>1, <1>4, <1>6, <1>8, <2>1 DEF old, new
<1> QED
    BY <1>1, <1>4, <1>7, <1>8

-----------------------------------------------------------------------------
(* The registry. *)

RegistryInv == registry \in [Packs -> Seq(Weighted)]

\* PackRegistry.register keeps every pack a list of versions with weights.
LEMMA RegisterTyped ==
    ASSUME NEW reg \in [Packs -> Seq(Weighted)], NEW p \in Packs, NEW v \in Versions
    PROVE  Register(reg, p, v) \in [Packs -> Seq(Weighted)]
<1> DEFINE pv == [version |-> v, weight |-> 1]
           same == {i \in DOMAIN reg[p] : reg[p][i].version = v}
<1>1. pv \in Weighted /\ reg[p] \in Seq(Weighted)
    BY DEF Weighted
<1>2. CASE same = {}
    BY <1>1, <1>2 DEF Register
<1>3. CASE same # {}
  <2> DEFINE at == CHOOSE i \in same : TRUE
  <2>1. at \in DOMAIN reg[p]
    BY <1>3
  <2> HIDE DEF at
  <2>2. [reg[p] EXCEPT ![at] = pv] \in Seq(Weighted)
    BY <1>1, <2>1
  <2>3. Register(reg, p, v) = [reg EXCEPT ![p] = [reg[p] EXCEPT ![at] = pv]]
    BY <1>3 DEF Register, at
  <2> QED
    BY <2>2, <2>3
<1> QED
    BY <1>2, <1>3

EntryPoints == [pack : Packs, version : Versions, allowed : BOOLEAN,
                loads : BOOLEAN, valid : BOOLEAN]

\* The equation of the loop over the plugins, for the first n entry points.
IsRegistered(f, reg, eps, n) ==
    f = [i \in 0..n |->
            IF i = 0 THEN reg
            ELSE IF Discovered(eps[i]) /\ eps[i].pack \notin {p \in Packs : reg[p] # <<>>}
            THEN Register(f[i - 1], eps[i].pack, eps[i].version)
            ELSE f[i - 1]]

\* The equation has a solution.
LEMMA RegisteredExists ==
    ASSUME NEW reg, NEW eps, NEW n \in Nat
    PROVE  \E f : IsRegistered(f, reg, eps, n)
<1> DEFINE Step(i, before) ==
        IF Discovered(eps[i]) /\ eps[i].pack \notin {p \in Packs : reg[p] # <<>>}
        THEN Register(before, eps[i].pack, eps[i].version)
        ELSE before
<1>1. ASSUME NEW f, NEW m \in Nat
      PROVE  IsRegistered(f, reg, eps, m) <=>
                f = [i \in 0..m |-> IF i = 0 THEN reg ELSE Step(i, f[i - 1])]
    BY DEF IsRegistered
<1> HIDE DEF Step
<1> DEFINE Bad == {k \in Nat : ~\E f : IsRegistered(f, reg, eps, k)}
<1>2. ASSUME Bad # {}
      PROVE  FALSE
  <2>1. PICK k \in Bad : \A j \in Bad : k <= j
    <3>1. Bad \subseteq Nat
        OBVIOUS
    <3> HIDE DEF Bad
    <3> QED
        BY <1>2, <3>1, LeastNatural
  <2>2. k # 0
    <3> DEFINE e == [i \in 0..0 |-> reg]
    <3>1. e = [i \in 0..0 |-> IF i = 0 THEN reg ELSE Step(i, e[i - 1])]
        OBVIOUS
    <3>2. IsRegistered(e, reg, eps, 0)
        BY <1>1, <3>1
    <3> QED
        BY <3>2
  <2>3. k \in Nat /\ k - 1 \in Nat /\ k - 1 \notin Bad
    BY <2>1, <2>2
  <2>4. PICK f : IsRegistered(f, reg, eps, k - 1)
    BY <2>3
  <2>5. f = [i \in 0..k - 1 |-> IF i = 0 THEN reg ELSE Step(i, f[i - 1])]
    BY <1>1, <2>3, <2>4
  <2> DEFINE g == [i \in 0..k |-> IF i = k THEN Step(k, f[k - 1]) ELSE f[i]]
  <2>6. g = [i \in 0..k |-> IF i = 0 THEN reg ELSE Step(i, g[i - 1])]
    <3> HIDE DEF Bad
    <3>1. \A i \in 0..k - 1 : f[i] = IF i = 0 THEN reg ELSE Step(i, f[i - 1])
        BY <2>5
    <3>2. ASSUME NEW i \in 0..k
          PROVE  g[i] = IF i = 0 THEN reg ELSE Step(i, g[i - 1])
      <4>1. CASE i = k
        <5>1. k - 1 \in 0..k /\ k \in 0..k /\ k - 1 # k
            BY <2>3
        <5> QED
            BY <2>2, <4>1, <5>1
      <4>2. CASE i # k
        <5>1. i \in 0..k - 1 /\ (i # 0 => i - 1 \in 0..k /\ i - 1 # k)
            BY <2>3, <4>2
        <5>2. g[i] = f[i] /\ (i # 0 => g[i - 1] = f[i - 1])
            BY <4>2, <5>1
        <5> HIDE DEF g
        <5> QED
            BY <3>1, <5>1, <5>2
      <4> QED
        BY <4>1, <4>2
    <3>3. g = [i \in 0..k |-> g[i]]
        OBVIOUS
    <3> HIDE DEF g
    <3> QED
        BY <3>2, <3>3
  <2>7. IsRegistered(g, reg, eps, k)
    BY <1>1, <2>3, <2>6
  <2> QED
    BY <2>7
<1> QED
    BY <1>2

\* register_plugin_packs keeps the registry well formed, whatever is installed.
LEMMA PluginsTyped ==
    ASSUME NEW reg \in [Packs -> Seq(Weighted)], NEW eps \in Seq(EntryPoints)
    PROVE  RegisterPlugins(reg, eps) \in [Packs -> Seq(Weighted)]
<1> DEFINE f == CHOOSE f : IsRegistered(f, reg, eps, Len(eps))
           n == Len(eps)
<1>1. RegisterPlugins(reg, eps) = f[Len(eps)]
    BY DEF RegisterPlugins, IsRegistered
<1>2. n \in Nat
    OBVIOUS
<1>3. IsRegistered(f, reg, eps, n)
    BY <1>2, RegisteredExists
<1> HIDE DEF f
<1>4. /\ f[0] = reg
      /\ \A k \in 1..n : \/ f[k] = f[k - 1]
                         \/ f[k] = Register(f[k - 1], eps[k].pack, eps[k].version)
  <2> HIDE DEF n
  <2>1. ASSUME NEW k \in 0..n
        PROVE  f[k] = IF k = 0 THEN reg
                      ELSE IF Discovered(eps[k]) /\ eps[k].pack \notin {p \in Packs : reg[p] # <<>>}
                      THEN Register(f[k - 1], eps[k].pack, eps[k].version)
                      ELSE f[k - 1]
    BY <1>3, Zenon DEF IsRegistered
  <2>2. f[0] = reg
    BY <1>2, <2>1
  <2>3. ASSUME NEW k \in 1..n
        PROVE  \/ f[k] = f[k - 1]
               \/ f[k] = Register(f[k - 1], eps[k].pack, eps[k].version)
    <3>1. k \in 0..n /\ k # 0
        BY <1>2
    <3> QED
        BY <2>1, <3>1
  <2> QED
    BY <2>2, <2>3
<1> DEFINE Bad == {k \in 0..n : f[k] \notin [Packs -> Seq(Weighted)]}
<1>5. ASSUME Bad # {}
      PROVE  FALSE
  <2>1. PICK k \in Bad : \A j \in Bad : k <= j
    <3>1. Bad \subseteq Nat
        OBVIOUS
    <3> HIDE DEF Bad
    <3> QED
        BY <1>5, <3>1, LeastNatural
  <2>2. k \in 1..n
    BY <1>4
  <2>3. f[k - 1] \in [Packs -> Seq(Weighted)]
    <3>1. k - 1 \in 0..n /\ ~(k <= k - 1)
        BY <1>2, <2>2
    <3>2. k - 1 \notin Bad
        BY <2>1, <3>1
    <3> QED
        BY <3>1, <3>2
  <2>4. eps[k].pack \in Packs /\ eps[k].version \in Versions
    <3>1. eps[k] \in EntryPoints
        BY <2>2
    <3> QED
        BY <3>1 DEF EntryPoints
  <2>5. Register(f[k - 1], eps[k].pack, eps[k].version) \in [Packs -> Seq(Weighted)]
    BY <2>3, <2>4, RegisterTyped
  <2> QED
    BY <1>4, <2>1, <2>2, <2>3, <2>5
<1>6. f[n] \in [Packs -> Seq(Weighted)]
    BY <1>2, <1>5
<1> QED
    BY <1>1, <1>6

\* register_builtin_packs starts from an empty registry.
LEMMA RestartTyped ==
    ASSUME NEW eps \in Installations
    PROVE  RegisterPlugins(RegisterBuiltins, eps) \in [Packs -> Seq(Weighted)]
<1>1. [p \in Packs |-> <<>>] \in [Packs -> Seq(Weighted)]
    OBVIOUS
<1>2. RegisterBuiltins \in [Packs -> Seq(Weighted)]
    BY <1>1, RegisterTyped, RoutingConstants DEF RegisterBuiltins
<1>3. eps \in Seq(EntryPoints)
    BY RoutingConstants DEF EntryPoints
<1> QED
    BY <1>2, <1>3, PluginsTyped

\* set_weights changes a weight to one that PATCH accepts.
LEMMA WeightsTyped ==
    ASSUME NEW vs \in Seq(Weighted), NEW v, NEW w \in Nat
    PROVE  SetWeights(vs, v, w) \in Seq(Weighted)
<1> DEFINE e(i) == IF vs[i].version = v THEN [vs[i] EXCEPT !.weight = w] ELSE vs[i]
<1>1. ASSUME NEW i \in 1..Len(vs)
      PROVE  e(i) \in Weighted
  <2>1. vs[i] \in Weighted
    BY Entries
  <2> QED
    BY <2>1 DEF Weighted
<1>2. SetWeights(vs, v, w) = [i \in 1..Len(vs) |-> e(i)]
    BY Entries DEF SetWeights
<1> HIDE DEF e
<1>3. Len(vs) \in Nat
    BY Entries
<1> QED
    BY <1>1, <1>2, <1>3

\* Startup, restarts with whatever plugins and PATCHes keep the registry well
\* formed, and nothing else touches it.
LEMMA RegistryInvariant == Spec => []RegistryInv
<1>1. Init => RegistryInv
    BY RestartTyped DEF Init, RegistryInv
<1>2. RegistryInv /\ [Next]_vars => RegistryInv'
  <2> SUFFICES ASSUME RegistryInv, [Next]_vars
               PROVE  RegistryInv'
    OBVIOUS
  <2>1. CASE \E i \in Slots : Arrival(i) \/ RunStep(i)
    <3>1. UNCHANGED registry
        BY <2>1 DEF Arrival, RunStep, RunPack, StreamPack, RunLegacy, RunResearch, Admit,
            EndUnsaved, SubmitSave, SaveStarts, SaveStamps, SaveCommits, SaveFails,
            SaveTimesOut, Answer
    <3> QED
        BY <3>1 DEF RegistryInv
  <2>2. CASE \E pvw \in Patched : UpdateWeight(pvw[1], pvw[2], pvw[3])
    <3>1. PICK pvw \in Patched : UpdateWeight(pvw[1], pvw[2], pvw[3])
        BY <2>2
    <3>2. pvw[1] \in Packs /\ pvw[3] \in Nat
        BY RoutingConstants, FloatConstants
    <3>3. registry' = [registry EXCEPT ![pvw[1]] = SetWeights(registry[pvw[1]], pvw[2], pvw[3])]
        BY <3>1 DEF UpdateWeight
    <3>4. SetWeights(registry[pvw[1]], pvw[2], pvw[3]) \in Seq(Weighted)
        BY <3>2, WeightsTyped DEF RegistryInv
    <3> QED
        BY <3>3, <3>4 DEF RegistryInv
  <2>3. CASE Restart
    BY <2>3, RestartTyped DEF Restart, RegistryInv
  <2>4. CASE UNCHANGED vars
    BY <2>4 DEF vars, RegistryInv
  <2> QED
    BY <2>1, <2>2, <2>3, <2>4 DEF Next
<1> QED
    BY <1>1, <1>2, PTL DEF Spec

\* For every number of versions, all weights and every way floats round,
\* _select_weighted_pack_version gives no caller to a version of weight 0 beside
\* others, but for a threshold of 0 and for the last version where the running sum
\* stays below sum().
THEOREM DrainedStayEmpty == Spec => []DrainedVersionsGetNoCallers
<1>1. RegistryInv => DrainedVersionsGetNoCallers
    BY DrainedNotSelected DEF RegistryInv, DrainedVersionsGetNoCallers
<1> QED
    BY <1>1, RegistryInvariant, PTL

\* For every number of versions and all weights, a PATCH that raises one weight
\* without a sum being rounded moves callers only towards that version.
THEOREM RampsMoveTowardsTarget == Spec => RampMovesCallersTowardsTarget
<1> DEFINE Ramp ==
        \A p \in Packs : \A i \in DOMAIN registry[p] :
            /\ Len(registry'[p]) = Len(registry[p])
            /\ registry'[p][i].weight > registry[p][i].weight
            /\ registry'[p] = [registry[p] EXCEPT ![i] = registry'[p][i]]
            /\ SumsExact(registry[p]) /\ SumsExact(registry'[p])
            /\ TotalWeight(registry[p]) > 0
            => \A pick \in 0..MaxPick :
                 LET old == SelectWeighted(registry[p], pick)
                     new == SelectWeighted(registry'[p], pick)
                 IN  (old <= new /\ new <= i) \/ (i <= new /\ new <= old)
<1>1. RegistryInv /\ RegistryInv' => Ramp
  <2> SUFFICES ASSUME RegistryInv, RegistryInv', NEW p \in Packs,
                      NEW i \in DOMAIN registry[p], NEW pick \in 0..MaxPick,
                      Len(registry'[p]) = Len(registry[p]),
                      registry'[p][i].weight > registry[p][i].weight,
                      registry'[p] = [registry[p] EXCEPT ![i] = registry'[p][i]],
                      SumsExact(registry[p]), SumsExact(registry'[p])
               PROVE  LET old == SelectWeighted(registry[p], pick)
                          new == SelectWeighted(registry'[p], pick)
                      IN  (old <= new /\ new <= i) \/ (i <= new /\ new <= old)
    BY Zenon
  <2> DEFINE vs == registry[p]
             ws == registry'[p]
             d == ws[i].weight - vs[i].weight
  <2>1. vs \in Seq(Weighted) /\ ws \in Seq(Weighted)
    BY DEF RegistryInv
  <2>2. vs[i].weight \in Nat /\ ws[i].weight \in Nat
    BY <2>1, Entries
  <2>3. d \in Nat /\ ws[i].weight = vs[i].weight + d
    BY <2>2
  <2>4. \A k \in DOMAIN vs : k # i => ws[k] = vs[k]
    BY <2>1
  <2> QED
    BY <2>1, <2>3, <2>4, MovesTowardsRaised
<1>2. RegistryInv /\ RegistryInv' => [Ramp]_registry
    BY <1>1
<1> QED
    BY <1>2, RegistryInvariant, PTL DEF RampMovesCallersTowardsTarget
=============================================================================
