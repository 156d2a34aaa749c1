----------------------------- MODULE ReviewStore -----------------------------
(***************************************************************************)
(* The human-review queue of regulated pack outputs: SqliteReviewStore and *)
(* InMemoryReviewStore, called by worker threads (create, at the end of a  *)
(* run) and by the event loop of a process (decide and list_reviews, from  *)
(* the /reviews handlers, which call the store without an await).          *)
(*                                                                         *)
(* A process has one store object with one threading.Lock.  Two processes  *)
(* have the SQLite file open while a new deployment takes over; each SQL   *)
(* statement is atomic between them.  With the in-memory backend the store *)
(* of one process, Home, is followed.                                      *)
(***************************************************************************)
EXTENDS Naturals, Sequences, FiniteSets

CONSTANTS
    Processes,
    Runs,         \* runs whose output needs a review
    Creates,      \* calls of create
    Decides,      \* calls of decide; a call stands for the decision it carries
    RunOf,        \* RunOf[c]: the run_id argument
    ProcessOf,    \* ProcessOf[c]: the process that executes the call
    DecisionOf,   \* DecisionOf[d]: the status argument of decide
    Backends,     \* the settings of review_store_backend considered
    Home,         \* the process whose in-memory store is followed
    Filters,      \* the status filters of GET /reviews considered
    PageSize,     \* limit of list_reviews
    MaxRestarts,  \* bound on process crashes
    None

Calls == Creates \cup Decides

ASSUME CallAssumption ==
    /\ RunOf \in [Calls -> Runs]
    /\ ProcessOf \in [Calls -> Processes]
    /\ Creates \cap Decides = {}
    /\ None \notin Calls
    /\ {"absent", "pending"} \cap Decides = {}
    /\ DecisionOf \in [Decides -> {"approved", "rejected"}]
ASSUME StoreAssumption ==
    /\ Backends \subseteq {"memory", "sqlite"}
    /\ Home \in Processes
    /\ Filters \subseteq {"all", "pending", "approved", "rejected"}
    /\ PageSize \in Nat \ {0}
    /\ MaxRestarts \in Nat

VARIABLES
    backend,   \* fixed at startup by create_review_store
    rows,      \* run_ids of the stored reviews, in insertion order
    record,    \* record[r]: status of the review of r, or the decision it has
    pc,        \* pc[c]: where the call is, see Places
    answer,    \* answer[c]: what the caller was told
    mutex,     \* mutex[p]: the call that holds the store lock of p, or None
    pager,     \* a reviewer walking through GET /reviews page by page
    restarts

vars == <<backend, rows, record, pc, answer, mutex, pager, restarts>>

\* "missed": the UPDATE matched no row and the lock is still held; "updated":
\* the UPDATE is committed, the lock released, the row not yet read back.
Places == {"idle", "missed", "updated", "answered", "lost"}
Answers == {"none", "ok", "duplicate", "not_found", "conflict", "error"}

TypeOK ==
    /\ backend \in Backends
    /\ rows \in Seq(Runs)
    /\ record \in [Runs -> {"absent", "pending"} \cup Decides]
    /\ pc \in [Calls -> Places]
    /\ answer \in [Calls -> Answers]
    /\ mutex \in [Processes -> Calls \cup {None}]
    /\ pager \in [walking : BOOLEAN, finished : BOOLEAN, offset : Nat,
                  filter : Filters \cup {"all"}, existing : SUBSET Runs,
                  seen : SUBSET Runs]
    /\ restarts \in 0..MaxRestarts

Init ==
    /\ backend \in Backends
    /\ rows = <<>>
    /\ record = [r \in Runs |-> "absent"]
    /\ pc = [c \in Calls |-> "idle"]
    /\ answer = [c \in Calls |-> "none"]
    /\ mutex = [p \in Processes |-> None]
    /\ pager = [walking |-> FALSE, finished |-> FALSE, offset |-> 0,
                filter |-> "all", existing |-> {}, seen |-> {}]
    /\ restarts = 0

\* An in-memory store is reached from its own process only.
Reaches(p) == backend = "sqlite" \/ p = Home
LockFree(p) == mutex[p] = None
\* No handler of p is inside the store: handlers share the event loop.
LoopFree(p) ==
    \A c \in Decides : ProcessOf[c] = p => pc[c] \notin {"missed", "updated"}
Ready(c) ==
    /\ pc[c] = "idle" /\ Reaches(ProcessOf[c])
    /\ LockFree(ProcessOf[c])
    /\ c \in Decides => LoopFree(ProcessOf[c])

Return(c, a) ==
    /\ pc' = [pc EXCEPT ![c] = "answered"]
    /\ answer' = [answer EXCEPT ![c] = a]
-----------------------------------------------------------------------------
(* Plausible bugs, used to show that the properties are sensitive to them.  *)

\* UPDATE ... WHERE run_id = ?, without the status.
MatchesAnyRow(r) == record[r] # "absent"

\* The lock is released before the SELECT that explains the miss.
MissUnlocked(c) == mutex

\* INSERT OR REPLACE: a decided review becomes the newest.
DecideMovesRow(r) == Append(SelectSeq(rows, LAMBDA x : x # r), r)

\* The row keeps its status as free text.
InsertQueued == "queued"
-----------------------------------------------------------------------------
\* DEFAULT of the status column, status of a new ReviewRecord.
NewStatus == "pending"

create(c) ==
    LET r == RunOf[c] IN
    /\ c \in Creates /\ Ready(c)
    /\ \/ /\ record[r] = "absent"
          /\ rows' = Append(rows, r)
          /\ record' = [record EXCEPT ![r] = NewStatus]
          /\ Return(c, "ok")
       \/ /\ record[r] # "absent"
          /\ Return(c, "duplicate")
          /\ UNCHANGED <<rows, record>>
       \/ /\ backend = "sqlite"    \* sqlite3.Error: rolled back and raised
          /\ Return(c, "error")
          /\ UNCHANGED <<rows, record>>
    /\ UNCHANGED <<backend, mutex, pager, restarts>>

\* WHERE run_id = ? AND status = 'pending'.
Matches(r) == record[r] = "pending"

\* Place of the row among the others once it is decided.
RowsAfterDecision(r) == rows

\* The lock after an UPDATE that matched no row.
MutexAfterMiss(c) == [mutex EXCEPT ![ProcessOf[c]] = c]

\* SqliteReviewStore.decide up to its commit.
Update(c) ==
    LET r == RunOf[c] IN
    /\ backend = "sqlite"
    /\ c \in Decides /\ Ready(c)
    /\ \/ /\ Matches(r)
          /\ record' = [record EXCEPT ![r] = c]
          /\ rows' = RowsAfterDecision(r)
          /\ pc' = [pc EXCEPT ![c] = "updated"]
          /\ UNCHANGED <<answer, mutex>>
       \/ /\ ~Matches(r)
          /\ pc' = [pc EXCEPT ![c] = "missed"]
          /\ mutex' = MutexAfterMiss(c)
          /\ UNCHANGED <<rows, record, answer>>
       \/ /\ Return(c, "error")    \* sqlite3.Error: rolled back and raised
          /\ UNCHANGED <<rows, record, mutex>>
    /\ UNCHANGED <<backend, pager, restarts>>

\* rowcount = 0: a SELECT tells an unknown review from a decided one.
ExplainMiss(c) ==
    /\ pc[c] = "missed"
    /\ Return(c, IF record[RunOf[c]] = "absent" THEN "not_found" ELSE "conflict")
    /\ mutex' = [mutex EXCEPT ![ProcessOf[c]] = None]
    /\ UNCHANGED <<backend, rows, record, pager, restarts>>

\* The decided row is read back by get, which takes the lock again.
ReadBack(c) ==
    /\ pc[c] = "updated"
    /\ LockFree(ProcessOf[c])
    /\ Return(c, IF record[RunOf[c]] = "absent" THEN "not_found" ELSE "ok")
    /\ UNCHANGED <<backend, rows, record, mutex, pager, restarts>>

\* InMemoryReviewStore.decide: one critical section.
decide(c) ==
    LET r == RunOf[c] IN
    /\ backend = "memory"
    /\ c \in Decides /\ Ready(c)
    /\ \/ /\ Matches(r)
          /\ record' = [record EXCEPT ![r] = c]
          /\ rows' = RowsAfterDecision(r)
          /\ Return(c, "ok")
       \/ /\ ~Matches(r)
          /\ Return(c, IF record[r] = "absent" THEN "not_found" ELSE "conflict")
          /\ UNCHANGED <<rows, record>>
    /\ UNCHANGED <<backend, mutex, pager, restarts>>
-----------------------------------------------------------------------------
\* The status column of a stored review.
Status(r) == IF record[r] \in Decides THEN DecisionOf[record[r]] ELSE record[r]

\* WHERE status = ?, or no condition; a row is named by its id.
Matching(filter) == {i \in DOMAIN rows : filter = "all" \/ Status(rows[i]) = filter}

\* ORDER BY id DESC: the rows that come before row i.
Newer(i, filter) == {j \in Matching(filter) : j > i}

\* LIMIT and OFFSET: the reviews of a page, which is short when fewer rows match.
list_reviews(filter, offset) ==
    {rows[i] : i \in {j \in Matching(filter) :
        Cardinality(Newer(j, filter)) \in offset..(offset + PageSize - 1)}}
Short(filter, offset) == Cardinality(Matching(filter)) < offset + PageSize

\* A reviewer asks for the first page; "existing" notes what there is to see.
StartWalk ==
    /\ ~pager.walking /\ ~pager.finished
    /\ \E f \in Filters :
        pager' = [pager EXCEPT !.walking = TRUE, !.filter = f,
                               !.existing = {rows[i] : i \in Matching(f)}]
    /\ UNCHANGED <<backend, rows, record, pc, answer, mutex, restarts>>

\* One GET /reviews?status&limit&offset; a short page is the last one.
NextPage(p) ==
    /\ pager.walking
    /\ Reaches(p) /\ LockFree(p) /\ LoopFree(p)
    /\ LET short == Short(pager.filter, pager.offset) IN
       pager' = [pager EXCEPT !.seen = @ \cup list_reviews(pager.filter, pager.offset),
                              !.offset = @ + PageSize,
                              !.walking = ~short,
                              !.finished = short]
    /\ UNCHANGED <<backend, rows, record, pc, answer, mutex, restarts>>

\* A process dies and is restarted: calls inside it are lost, its lock is new,
\* the SQLite file stays and the in-memory records do not.
Restart(p) ==
    /\ restarts < MaxRestarts /\ Reaches(p)
    /\ restarts' = restarts + 1
    /\ pc' = [c \in Calls |-> IF ProcessOf[c] = p /\ pc[c] \in {"missed", "updated"}
                              THEN "lost" ELSE pc[c]]
    /\ mutex' = [mutex EXCEPT ![p] = None]
    /\ IF backend = "memory"
       THEN rows' = <<>> /\ record' = [r \in Runs |-> "absent"]
       ELSE UNCHANGED <<rows, record>>
    /\ UNCHANGED <<backend, answer, pager>>

Next ==
    \/ \E c \in Calls :
        create(c) \/ Update(c) \/ ExplainMiss(c) \/ ReadBack(c) \/ decide(c)
    \/ StartWalk
    \/ \E p \in Processes : NextPage(p) \/ Restart(p)

Spec == Init /\ [][Next]_vars
-----------------------------------------------------------------------------
\* The abstract queue, with the stored records as its verdicts.
Queue == INSTANCE ReviewQueue WITH
    Decisions <- Decides, durable <- (backend = "sqlite"), verdict <- record

\* The store implements the abstract queue: one decision per review, never
\* revised, and with SQLite nothing is forgotten by a restart.
ImplementsQueue == Queue!Spec

\* "decide() is conflict-safe": the call that is told "ok" is the one whose
\* decision stands, although it reads the row back outside the lock.  A
\* restart of the in-memory store is the only thing that takes it away.
AcceptedDecisionStands ==
    \A c \in Decides :
        answer[c] = "ok" =>
            \/ record[RunOf[c]] = c
            \/ backend = "memory" /\ restarts > 0

\* Only the process of c creates the review that c decides.
CreatedHere(c) == \A k \in Creates : RunOf[k] = RunOf[c] => ProcessOf[k] = ProcessOf[c]

\* 409 says "was already decided": a call is refused only for a review that has
\* a decision, although a worker thread of its process may create the row while
\* the handler finds out why nothing matched.
RefusedOnlyWhenDecided ==
    \A c \in Decides :
        answer[c] = "conflict" /\ CreatedHere(c) =>
            \/ record[RunOf[c]] \in Decides \ {c}
            \/ backend = "memory" /\ restarts > 0

\* Walking the queue with limit and offset, unfiltered or filtered by a decision,
\* shows every review that was to be seen when the walk began, whatever is created
\* and decided meanwhile.  A walk through the pending ones makes no such promise:
\* each decision moves the rows behind it forward.
WalkMissesNothing ==
    backend = "sqlite" /\ pager.finished /\ pager.filter # "pending" =>
        pager.existing \subseteq pager.seen
=============================================================================
