-------------------------- MODULE ReviewStoreProofs --------------------------
(* Proofs about the human-review queue, for every set of runs, calls and     *)
(* processes, both backends, every page size and any number of restarts.     *)
EXTENDS ReviewStore, FiniteSetTheorems, TLAPS

\* The run and the process of a call.
LEMMA CallTypes ==
    ASSUME NEW c \in Calls PROVE RunOf[c] \in Runs /\ ProcessOf[c] \in Processes
    BY CallAssumption

\* A page of the listing and what a walk is to show are sets of runs.
LEMMA PageType ==
    ASSUME TypeOK, NEW f, NEW offset \in Nat
    PROVE  /\ list_reviews(f, offset) \subseteq Runs
           /\ {rows[i] : i \in Matching(f)} \subseteq Runs
           /\ Short(f, offset) \in BOOLEAN
<1>1. \A i \in Matching(f) : rows[i] \in Runs
    BY DEF TypeOK, Matching
<1> QED
    BY <1>1 DEF list_reviews, Short

\* Every step keeps the state well typed.
LEMMA TypeStep ==
    ASSUME TypeOK, [Next]_vars PROVE TypeOK'
<1> USE CallAssumption, StoreAssumption, CallTypes
<1>1. ASSUME NEW c \in Calls, create(c) PROVE TypeOK'
    <2>1. (pc \in [Calls -> Places] /\ answer \in [Calls -> Answers])'
        BY <1>1 DEF create, Return, TypeOK, Places, Answers
    <2>2. (rows \in Seq(Runs) /\ record \in [Runs -> {"absent", "pending"} \cup Decides])'
        <3>1. CASE rows' = rows /\ record' = record
            BY <3>1 DEF TypeOK
        <3>2. CASE /\ rows' = Append(rows, RunOf[c])
                   /\ record' = [record EXCEPT ![RunOf[c]] = "pending"]
            BY <3>2 DEF TypeOK
        <3> QED
            BY <1>1, <3>1, <3>2 DEF create, NewStatus
    <2> QED
        BY <1>1, <2>1, <2>2 DEF create, TypeOK
<1>2. ASSUME NEW c \in Calls, Update(c) PROVE TypeOK'
    <2>1. (pc \in [Calls -> Places] /\ answer \in [Calls -> Answers])'
        <3>1. CASE pc' = [pc EXCEPT ![c] = "updated"] /\ answer' = answer
            BY <3>1 DEF TypeOK, Places
        <3>2. CASE pc' = [pc EXCEPT ![c] = "missed"] /\ answer' = answer
            BY <3>2 DEF TypeOK, Places
        <3>3. CASE Return(c, "error")
            BY <3>3 DEF Return, TypeOK, Places, Answers
        <3> QED
            BY <1>2, <3>1, <3>2, <3>3 DEF Update
    <2>2. (rows \in Seq(Runs) /\ record \in [Runs -> {"absent", "pending"} \cup Decides])'
        <3>1. rows' = rows /\ (record' = record \/ record' = [record EXCEPT ![RunOf[c]] = c])
            BY <1>2 DEF Update, RowsAfterDecision
        <3>2. c \in Decides
            BY <1>2 DEF Update
        <3> QED
            BY <3>1, <3>2 DEF TypeOK
    <2>3. (mutex \in [Processes -> Calls \cup {None}])'
        BY <1>2 DEF Update, MutexAfterMiss, TypeOK
    <2> QED
        BY <1>2, <2>1, <2>2, <2>3 DEF Update, TypeOK
<1>3. ASSUME NEW c \in Calls, ExplainMiss(c) \/ ReadBack(c) PROVE TypeOK'
    BY <1>3 DEF ExplainMiss, ReadBack, Return, TypeOK, Places, Answers
<1>4. ASSUME NEW c \in Calls, decide(c) PROVE TypeOK'
    <2>1. (pc \in [Calls -> Places] /\ answer \in [Calls -> Answers])'
        BY <1>4 DEF decide, Return, TypeOK, Places, Answers
    <2>2. (rows \in Seq(Runs) /\ record \in [Runs -> {"absent", "pending"} \cup Decides])'
        BY <1>4 DEF decide, RowsAfterDecision, TypeOK
    <2> QED
        BY <1>4, <2>1, <2>2 DEF decide, TypeOK
<1>5. ASSUME StartWalk PROVE TypeOK'
    <2>1. PICK f \in Filters :
            pager' = [pager EXCEPT !.walking = TRUE, !.filter = f,
                                   !.existing = {rows[i] : i \in Matching(f)}]
        BY <1>5 DEF StartWalk
    <2>2. {rows[i] : i \in Matching(f)} \subseteq Runs
        BY PageType
    <2>3. pager' = [walking |-> TRUE, finished |-> pager.finished,
                    offset |-> pager.offset, filter |-> f,
                    existing |-> {rows[i] : i \in Matching(f)}, seen |-> pager.seen]
        BY <2>1 DEF TypeOK
    <2> QED
        BY <1>5, <2>2, <2>3 DEF StartWalk, TypeOK
<1>6. ASSUME NEW p \in Processes, NextPage(p) PROVE TypeOK'
    <2> DEFINE page == list_reviews(pager.filter, pager.offset)
               short == Short(pager.filter, pager.offset)
    <2>1. page \subseteq Runs /\ short \in BOOLEAN
        BY PageType DEF TypeOK
    <2> HIDE DEF page, short
    <2>2. pager' = [walking |-> ~short, finished |-> short,
                    offset |-> pager.offset + PageSize, filter |-> pager.filter,
                    existing |-> pager.existing, seen |-> pager.seen \cup page]
        BY <1>6 DEF NextPage, TypeOK, page, short
    <2>3. /\ pager.offset + PageSize \in Nat
          /\ pager.existing \subseteq Runs /\ pager.seen \cup page \subseteq Runs
          /\ pager.filter \in Filters \cup {"all"}
        BY <2>1 DEF TypeOK
    <2>4. pager' \in [walking : BOOLEAN, finished : BOOLEAN, offset : Nat,
                      filter : Filters \cup {"all"}, existing : SUBSET Runs,
                      seen : SUBSET Runs]
        BY <2>1, <2>2, <2>3
    <2> QED
        BY <1>6, <2>4 DEF NextPage, TypeOK
<1>7. ASSUME NEW p \in Processes, Restart(p) PROVE TypeOK'
    <2>1. (pc \in [Calls -> Places])'
        BY <1>7 DEF Restart, TypeOK, Places
    <2>2. (rows \in Seq(Runs) /\ record \in [Runs -> {"absent", "pending"} \cup Decides])'
        <3>1. CASE rows' = rows /\ record' = record
            BY <3>1 DEF TypeOK
        <3>2. CASE rows' = <<>> /\ record' = [r \in Runs |-> "absent"]
            BY <3>2
        <3> QED
            BY <1>7, <3>1, <3>2 DEF Restart
    <2>3. (mutex \in [Processes -> Calls \cup {None}])' /\ restarts' \in 0..MaxRestarts
        BY <1>7 DEF Restart, TypeOK
    <2> QED
        BY <1>7, <2>1, <2>2, <2>3 DEF Restart, TypeOK
<1>8. CASE UNCHANGED vars
    BY <1>8 DEF vars, TypeOK
<1> QED
    BY <1>1, <1>2, <1>3, <1>4, <1>5, <1>6, <1>7, <1>8 DEF Next

\* The state of the store and of its callers stays well typed.
THEOREM TypeCorrect == Spec => []TypeOK
<1>1. Init => TypeOK
    BY StoreAssumption DEF Init, TypeOK, Places, Answers
<1> QED
    BY <1>1, TypeStep, PTL DEF Spec
-----------------------------------------------------------------------------
\* Every step of the store is a step of the abstract queue or a stutter.
LEMMA QueueStep ==
    ASSUME TypeOK, [Next]_vars PROVE [Queue!Next]_<<record, backend = "sqlite">>
<1> DEFINE Goal == [Queue!Next]_<<record, backend = "sqlite">>
<1> USE CallTypes DEF Queue!Next
<1>0. UNCHANGED backend
    BY DEF Next, vars, create, Update, ExplainMiss, ReadBack, decide, StartWalk, NextPage,
           Restart
<1>1. ASSUME NEW c \in Calls, create(c) PROVE Goal
    BY <1>0, <1>1 DEF create, NewStatus, Queue!Enqueue
<1>2. ASSUME NEW c \in Calls, Update(c) \/ decide(c) PROVE Goal
    BY <1>0, <1>2 DEF Update, decide, Matches, Queue!Decide
<1>3. ASSUME NEW c \in Calls, ExplainMiss(c) \/ ReadBack(c) PROVE UNCHANGED record
    BY <1>3 DEF ExplainMiss, ReadBack
<1>4. ASSUME StartWalk \/ \E p \in Processes : NextPage(p) PROVE UNCHANGED record
    BY <1>4 DEF StartWalk, NextPage
<1>5. ASSUME NEW p \in Processes, Restart(p) PROVE Goal
    BY <1>0, <1>5, StoreAssumption DEF Restart, Queue!Forget
<1>6. ASSUME UNCHANGED record PROVE Goal
    BY <1>0, <1>6
<1>7. ASSUME UNCHANGED vars PROVE UNCHANGED record
    BY <1>7 DEF vars
<1> HIDE DEF Goal
<1>8. Goal
    BY <1>1, <1>2, <1>3, <1>4, <1>5, <1>6, <1>7 DEF Next
<1> QED
    BY <1>8 DEF Goal

\* Both backends implement the queue: a review is decided once and for all,
\* and the SQLite store forgets nothing when a process restarts.
THEOREM QueueRefinement == Spec => ImplementsQueue
<1>1. Init => Queue!Init
    BY DEF Init, Queue!Init
<1>2. TypeOK /\ [Next]_vars => [Queue!Next]_<<record, backend = "sqlite">>
    BY QueueStep
<1> QED
    BY <1>1, <1>2, TypeCorrect, PTL DEF Spec, ImplementsQueue, Queue!Spec
-----------------------------------------------------------------------------
Volatile == backend = "memory" /\ restarts > 0

\* A call inside or past its UPDATE owns the decision; a call that has not
\* decided owns none.
DecisionInv ==
    /\ \A c \in Creates : pc[c] # "missed"
    /\ \A c \in Decides :
        /\ pc[c] = "updated" \/ answer[c] = "ok" => record[RunOf[c]] = c \/ Volatile
        /\ pc[c] \in {"idle", "missed"} => record[RunOf[c]] # c /\ answer[c] = "none"
        /\ answer[c] = "conflict" => record[RunOf[c]] # c

\* Ownership of decisions is preserved: a decided review is never matched again.
LEMMA DecisionStep ==
    ASSUME TypeOK, DecisionInv, [Next]_vars PROVE DecisionInv'
<1> USE CallAssumption, CallTypes DEF DecisionInv, TypeOK, Volatile, Calls
<1>1. ASSUME NEW c \in Calls, create(c) PROVE DecisionInv'
    <2>1. c \in Creates /\ c \notin Decides
        BY <1>1 DEF create
    <2>2. \A d \in Decides : pc'[d] = pc[d] /\ answer'[d] = answer[d]
        BY <1>1, <2>1 DEF create, Return
    <2>3. \A r \in Runs : record'[r] = record[r]
                          \/ (record[r] = "absent" /\ record'[r] = "pending")
        BY <1>1 DEF create, NewStatus
    <2>4. \A k \in Creates : pc'[k] # "missed"
        BY <1>1, <2>1 DEF create, Return
    <2> QED
        BY <1>1, <2>2, <2>3, <2>4 DEF create
<1>2. ASSUME NEW c \in Calls, Update(c) PROVE DecisionInv'
    BY <1>2 DEF Update, Ready, Return, Matches
<1>3. ASSUME NEW c \in Calls, ExplainMiss(c) PROVE DecisionInv'
    BY <1>3 DEF ExplainMiss, Return
<1>4. ASSUME NEW c \in Calls, ReadBack(c) PROVE DecisionInv'
    BY <1>4 DEF ReadBack, Return
<1>5. ASSUME NEW c \in Calls, decide(c) PROVE DecisionInv'
    BY <1>5 DEF decide, Ready, Return, Matches
<1>6. ASSUME StartWalk \/ \E p \in Processes : NextPage(p) PROVE DecisionInv'
    BY <1>6 DEF StartWalk, NextPage
<1>7. ASSUME NEW p \in Processes, Restart(p) PROVE DecisionInv'
    BY <1>7, StoreAssumption DEF Restart
<1>8. CASE UNCHANGED vars
    BY <1>8 DEF vars
<1> QED
    BY <1>1, <1>2, <1>3, <1>4, <1>5, <1>6, <1>7, <1>8 DEF Next

\* Ownership of decisions is an invariant.
LEMMA DecisionInvariant == Spec => []DecisionInv
<1>1. Init => DecisionInv
    BY CallAssumption DEF Init, DecisionInv, Calls
<1>2. TypeOK /\ DecisionInv /\ [Next]_vars => DecisionInv'
    BY DecisionStep
<1> QED
    BY <1>1, <1>2, TypeCorrect, PTL DEF Spec

\* decide is conflict-safe for every number of reviewers and processes.
THEOREM DecisionStands == Spec => []AcceptedDecisionStands
<1>1. DecisionInv => AcceptedDecisionStands
    BY DEF DecisionInv, AcceptedDecisionStands, Volatile
<1> QED
    BY <1>1, DecisionInvariant, PTL
-----------------------------------------------------------------------------
\* Between the UPDATE that matched nothing and the SELECT that explains it the
\* call holds the lock of its process, so the review does not become pending
\* unless another process creates it.
MissInv ==
    \A c \in Decides :
        /\ pc[c] = "missed" => mutex[ProcessOf[c]] = c
        /\ CreatedHere(c) =>
            /\ pc[c] = "missed" => record[RunOf[c]] # "pending"
            /\ answer[c] = "conflict" => record[RunOf[c]] \in Decides \/ Volatile

\* No call creates a row of its process while a miss is being explained there.
LEMMA MissStep ==
    ASSUME TypeOK, DecisionInv, MissInv, [Next]_vars PROVE MissInv'
<1> USE CallAssumption, CallTypes DEF MissInv, TypeOK, Volatile, Calls
<1>1. ASSUME NEW c \in Calls, create(c) PROVE MissInv'
    <2>1. c \in Creates /\ c \notin Decides /\ mutex[ProcessOf[c]] = None
        BY <1>1 DEF create, Ready, LockFree
    <2>2. \A d \in Decides : pc'[d] = pc[d] /\ answer'[d] = answer[d]
        BY <1>1, <2>1 DEF create, Return
    <2>3. \A d \in Decides : pc[d] = "missed" /\ CreatedHere(d) => RunOf[d] # RunOf[c]
        BY <2>1 DEF CreatedHere
    <2>4. \A r \in Runs \ {RunOf[c]} : record'[r] = record[r]
        BY <1>1 DEF create
    <2>5. \A r \in Runs : record[r] \in Decides => record'[r] = record[r]
        BY <1>1 DEF create
    <2>6. UNCHANGED <<backend, mutex, restarts>>
        BY <1>1 DEF create
    <2> HIDE DEF TypeOK
    <2> QED
        BY <2>2, <2>3, <2>4, <2>5, <2>6 DEF CreatedHere
<1>2. ASSUME NEW c \in Calls, Update(c) PROVE MissInv'
    <2>1. \A d \in Decides : pc[d] = "missed" => ProcessOf[d] # ProcessOf[c]
        BY <1>2 DEF Update, Ready, LockFree
    <2>2. c \in Decides /\ pc[c] = "idle" /\ answer[c] = "none"
        BY <1>2 DEF Update, Ready, DecisionInv
    <2>3. \A d \in Decides \ {c} : pc'[d] = pc[d] /\ answer'[d] = answer[d]
        BY <1>2, <2>2 DEF Update, Return
    <2>4. answer'[c] # "conflict"
        BY <1>2, <2>2 DEF Update, Return
    <2>5. \A r \in Runs : record'[r] = record[r] \/ record'[r] = c
        BY <1>2, <2>2 DEF Update
    <2>6. pc'[c] = "missed" => /\ mutex'[ProcessOf[c]] = c
                              /\ record'[RunOf[c]] # "pending"
        BY <1>2, <2>2 DEF Update, Return, Matches, MutexAfterMiss
    <2>7. \A p \in Processes \ {ProcessOf[c]} : mutex'[p] = mutex[p]
        BY <1>2 DEF Update, MutexAfterMiss
    <2>8. UNCHANGED <<backend, restarts>> /\ \A d \in Decides : RunOf[d] \in Runs /\ ProcessOf[d] \in Processes
        BY <1>2 DEF Update
    <2>9. "pending" \notin Decides
        OBVIOUS
    <2> HIDE DEF TypeOK
    <2> QED
        BY <2>1, <2>2, <2>3, <2>4, <2>5, <2>6, <2>7, <2>8, <2>9 DEF CreatedHere
<1>3. ASSUME NEW c \in Calls, ExplainMiss(c) PROVE MissInv'
    <2>1. c \in Decides => \A d \in Decides \ {c} :
                                pc[d] = "missed" => ProcessOf[d] # ProcessOf[c]
        BY <1>3 DEF ExplainMiss
    <2>2. CASE c \in Decides
        BY <1>3, <2>1, <2>2 DEF ExplainMiss, Return
    <2>3. CASE c \in Creates
        BY <1>3, <2>3 DEF ExplainMiss, DecisionInv
    <2> QED
        BY <2>2, <2>3
<1>4. ASSUME NEW c \in Calls, ReadBack(c) PROVE MissInv'
    BY <1>4 DEF ReadBack, Return
<1>5. ASSUME NEW c \in Calls, decide(c) PROVE MissInv'
    <2>1. c \in Decides /\ pc'[c] = "answered" /\ UNCHANGED <<backend, mutex, restarts>>
        BY <1>5 DEF decide, Return
    <2>2. \A d \in Decides \ {c} : pc'[d] = pc[d] /\ answer'[d] = answer[d]
        BY <1>5, <2>1 DEF decide, Return
    <2>3. \A r \in Runs : record'[r] = record[r] \/ record'[r] = c
        BY <1>5, <2>1 DEF decide
    <2>4. answer'[c] = "conflict" => record'[RunOf[c]] \in Decides
        BY <1>5, <2>1 DEF decide, Return, Matches
    <2>5. "pending" \notin Decides /\ \A d \in Decides : RunOf[d] \in Runs
        OBVIOUS
    <2> HIDE DEF TypeOK
    <2> QED
        BY <2>1, <2>2, <2>3, <2>4, <2>5 DEF CreatedHere
<1>6. ASSUME StartWalk \/ \E p \in Processes : NextPage(p) PROVE MissInv'
    BY <1>6 DEF StartWalk, NextPage
<1>7. ASSUME NEW p \in Processes, Restart(p) PROVE MissInv'
    BY <1>7, StoreAssumption DEF Restart
<1>8. CASE UNCHANGED vars
    BY <1>8 DEF vars
<1> QED
    BY <1>1, <1>2, <1>3, <1>4, <1>5, <1>6, <1>7, <1>8 DEF Next

\* 409 is only ever answered for a decided review, as long as the reviews a
\* process decides are created by itself.
THEOREM RefusalJustified == Spec => []RefusedOnlyWhenDecided
<1>1. Init => MissInv
    BY DEF Init, MissInv, Calls
<1>2. TypeOK /\ DecisionInv /\ MissInv /\ [Next]_vars => MissInv'
    BY MissStep
<1>3. DecisionInv /\ MissInv => RefusedOnlyWhenDecided
    BY DEF DecisionInv, MissInv, RefusedOnlyWhenDecided, Volatile
<1> QED
    BY <1>1, <1>2, <1>3, TypeCorrect, DecisionInvariant, PTL DEF Spec
-----------------------------------------------------------------------------
\* What a walk has not shown yet lies beyond its offset: new and newly decided
\* reviews push the older ones back, never forward.
WalkInv ==
    backend = "sqlite" /\ pager.filter # "pending" =>
        /\ pager.walking => \A r \in pager.existing \ pager.seen :
                \E i \in Matching(pager.filter) :
                    rows[i] = r /\ Cardinality(Newer(i, pager.filter)) >= pager.offset
        /\ pager.finished => pager.existing \subseteq pager.seen

\* A walk begins with its first page.
StartInv == ~pager.walking /\ ~pager.finished => pager.offset = 0

\* It is started once.
LEMMA StartStep ==
    ASSUME TypeOK, StartInv, [Next]_vars PROVE StartInv'
<1>1. ASSUME NEW p \in Processes, NextPage(p) PROVE StartInv'
    <2> DEFINE short == Short(pager.filter, pager.offset)
    <2>1. short \in BOOLEAN
        BY PageType DEF TypeOK
    <2>2. pager'.walking = ~short /\ pager'.finished = short
        BY <1>1 DEF NextPage, TypeOK
    <2> HIDE DEF short
    <2> QED
        BY <2>1, <2>2 DEF StartInv
<1>2. CASE StartWalk
    BY <1>2 DEF StartWalk, StartInv, TypeOK
<1>3. CASE UNCHANGED pager
    BY <1>3 DEF StartInv
<1> QED
    BY <1>1, <1>2, <1>3
       DEF Next, vars, create, Update, ExplainMiss, ReadBack, decide, Restart

\* The members of a set of row ids that lie above one of them.
LEMMA AboveFinite ==
    ASSUME NEW n \in Nat, NEW M \in SUBSET (1..n), NEW i \in M
    PROVE  /\ IsFiniteSet(M) /\ Cardinality(M) \in Nat
           /\ IsFiniteSet({j \in M : j > i}) /\ Cardinality({j \in M : j > i}) \in Nat
           /\ Cardinality({j \in M : j > i}) < Cardinality(M)
<1> DEFINE A == {j \in M : j > i}
<1>1. IsFiniteSet(M)
    <2>1. IsFiniteSet(1..n)
        BY FS_Interval
    <2> QED
        BY <2>1, FS_Subset
<1>2. A \in SUBSET M /\ A # M
    <2>1. i \in M /\ ~(i > i)
        OBVIOUS
    <2> QED
        BY <2>1
<1> HIDE DEF A
<1>3. /\ IsFiniteSet(A) /\ Cardinality(A) <= Cardinality(M)
      /\ Cardinality(A) = Cardinality(M) => A = M
    BY <1>1, <1>2, FS_Subset
<1>4. Cardinality(M) \in Nat /\ Cardinality(A) \in Nat
    BY <1>1, <1>3, FS_CardinalityType
<1>5. Cardinality(A) < Cardinality(M)
    BY <1>2, <1>3, <1>4
<1> QED
    BY <1>1, <1>3, <1>4, <1>5 DEF A

\* The rows of a listing are finite in number, and so are those before one.
LEMMA ListingFinite ==
    ASSUME TypeOK, NEW f, NEW i \in Matching(f)
    PROVE  /\ Cardinality(Newer(i, f)) \in Nat /\ Cardinality(Matching(f)) \in Nat
           /\ Cardinality(Newer(i, f)) < Cardinality(Matching(f))
<1>1. Len(rows) \in Nat /\ Matching(f) \in SUBSET (1..Len(rows))
    BY DEF TypeOK, Matching
<1> QED
    BY <1>1, AboveFinite DEF Newer

\* A listing grows when rows are added and no row leaves it.
LEMMA ListingGrows ==
    ASSUME TypeOK, TypeOK', NEW f, Matching(f) \subseteq Matching(f)',
           NEW i \in Matching(f)
    PROVE  /\ i \in Matching(f)'
           /\ Cardinality(Newer(i, f)) \in Nat /\ Cardinality(Newer(i, f))' \in Nat
           /\ Cardinality(Newer(i, f)) <= Cardinality(Newer(i, f))'
<1> DEFINE M == Matching(f)
           N == Matching(f)'
<1>1. /\ Len(rows) \in Nat /\ M \in SUBSET (1..Len(rows))
      /\ Len(rows') \in Nat /\ N \in SUBSET (1..Len(rows'))
    BY DEF TypeOK, Matching
<1>2. i \in M /\ i \in N /\ M \subseteq N
    OBVIOUS
<1>3. Newer(i, f) = {j \in M : j > i} /\ Newer(i, f)' = {j \in N : j > i}
    BY DEF Newer
<1> HIDE DEF M, N
<1>4. IsFiniteSet({j \in N : j > i}) /\ Cardinality({j \in N : j > i}) \in Nat
    BY <1>1, <1>2, AboveFinite
<1>5. Cardinality({j \in M : j > i}) \in Nat
    BY <1>1, <1>2, AboveFinite
<1>6. {j \in M : j > i} \in SUBSET {j \in N : j > i}
    BY <1>2
<1>7. Cardinality({j \in M : j > i}) <= Cardinality({j \in N : j > i})
    BY <1>4, <1>6, FS_Subset
<1>8. /\ Cardinality(Newer(i, f)) = Cardinality({j \in M : j > i})
      /\ Cardinality(Newer(i, f))' = Cardinality({j \in N : j > i})
    BY <1>3
<1> QED
    BY <1>2, <1>4, <1>5, <1>7, <1>8 DEF N

\* A walk goes on while rows are added and decided.
LEMMA WalkGoesOn ==
    ASSUME TypeOK, TypeOK', WalkInv, UNCHANGED <<backend, pager>>,
           backend = "sqlite" /\ pager.filter # "pending" =>
            /\ Matching(pager.filter) \subseteq Matching(pager.filter)'
            /\ \A i \in Matching(pager.filter) : rows'[i] = rows[i]
    PROVE  WalkInv'
<1> SUFFICES ASSUME backend = "sqlite", pager.filter # "pending" PROVE WalkInv'
    BY DEF WalkInv
<1> DEFINE f == pager.filter
<1>1. /\ f' = f /\ Matching(f) \subseteq Matching(f)'
      /\ \A i \in Matching(f) : rows'[i] = rows[i]
    OBVIOUS
<1>2. ASSUME NEW x \in pager.existing \ pager.seen, pager.walking
      PROVE  \E i \in Matching(f)' : rows'[i] = x /\ Cardinality(Newer(i, f))' >= pager.offset
    <2>1. PICK i \in Matching(f) : rows[i] = x /\ Cardinality(Newer(i, f)) >= pager.offset
        BY <1>2 DEF WalkInv
    <2>2. /\ i \in Matching(f)'
          /\ Cardinality(Newer(i, f)) \in Nat /\ Cardinality(Newer(i, f))' \in Nat
          /\ Cardinality(Newer(i, f)) <= Cardinality(Newer(i, f))'
        BY <1>1, <2>1, ListingGrows
    <2>3. pager.offset \in Nat
        BY DEF TypeOK
    <2>4. Cardinality(Newer(i, f))' >= pager.offset
        BY <2>1, <2>2, <2>3
    <2> QED
        BY <1>1, <2>1, <2>2, <2>4
<1> QED
    BY <1>2 DEF WalkInv

\* A decided review keeps its status, and so its place in the listing.
LEMMA DecidedStays ==
    ASSUME TypeOK, NEW f, f # "pending",
           f \in {"all", "approved", "rejected"},
           DOMAIN rows \subseteq DOMAIN rows',
           \A i \in DOMAIN rows : rows'[i] = rows[i],
           \A x \in Runs : record[x] \in Decides => record'[x] = record[x]
    PROVE  /\ Matching(f) \subseteq Matching(f)'
           /\ \A i \in Matching(f) : rows'[i] = rows[i]
<1> SUFFICES ASSUME NEW i \in Matching(f) PROVE i \in Matching(f)' /\ rows'[i] = rows[i]
    OBVIOUS
<1>1. i \in DOMAIN rows /\ rows[i] \in Runs /\ rows'[i] = rows[i] /\ i \in DOMAIN rows'
    BY DEF Matching, TypeOK
<1>2. CASE f = "all"
    BY <1>1, <1>2 DEF Matching
<1>3. CASE f # "all"
    <2>1. Status(rows[i]) = f
        BY <1>3 DEF Matching
    <2>2. record[rows[i]] \in Decides
        BY <1>1, <1>3, <2>1 DEF Status, TypeOK
    <2>3. Status(rows[i])' = f
        BY <1>1, <2>1, <2>2 DEF Status
    <2> QED
        BY <1>1, <2>3 DEF Matching
<1> QED
    BY <1>2, <1>3

\* Every step keeps the unseen reviews beyond the offset.
LEMMA WalkStep ==
    ASSUME TypeOK, TypeOK', StartInv, WalkInv, [Next]_vars PROVE WalkInv'
<1>0. pager.filter \in {"all", "pending", "approved", "rejected"}
    BY StoreAssumption DEF TypeOK
<1>1. ASSUME UNCHANGED <<backend, pager>>,
             backend = "sqlite" =>
                /\ DOMAIN rows \subseteq DOMAIN rows'
                /\ \A i \in DOMAIN rows : rows'[i] = rows[i]
                /\ \A x \in Runs : record[x] \in Decides => record'[x] = record[x]
      PROVE  WalkInv'
    <2>1. backend = "sqlite" /\ pager.filter # "pending" =>
            /\ Matching(pager.filter) \subseteq Matching(pager.filter)'
            /\ \A i \in Matching(pager.filter) : rows'[i] = rows[i]
        <3> SUFFICES ASSUME backend = "sqlite", pager.filter # "pending"
                     PROVE  /\ Matching(pager.filter) \subseteq Matching(pager.filter)'
                            /\ \A i \in Matching(pager.filter) : rows'[i] = rows[i]
            OBVIOUS
        <3> DEFINE f == pager.filter
        <3>1. f \in {"all", "approved", "rejected"} /\ f' = f
            BY <1>0, <1>1
        <3>2. /\ Matching(f) \subseteq Matching(f)'
              /\ \A i \in Matching(f) : rows'[i] = rows[i]
            BY <1>1, <3>1, DecidedStays
        <3> QED
            BY <3>2
    <2> QED
        BY <1>1, <2>1, WalkGoesOn
<1>2. ASSUME StartWalk PROVE WalkInv'
    <2>1. PICK f \in Filters :
            pager' = [pager EXCEPT !.walking = TRUE, !.filter = f,
                                   !.existing = {rows[i] : i \in Matching(f)}]
        BY <1>2 DEF StartWalk
    <2>2. /\ pager'.walking = TRUE /\ pager'.finished = FALSE /\ pager'.filter = f
          /\ pager'.offset = pager.offset /\ pager.offset \in Nat
          /\ pager'.existing = {rows[i] : i \in Matching(f)}
          /\ UNCHANGED <<backend, rows, record>>
        BY <1>2, <2>1 DEF StartWalk, TypeOK
    <2>3. Matching(f)' = Matching(f) /\ \A i : Newer(i, f)' = Newer(i, f)
        BY <2>2 DEF Matching, Newer, Status
    <2> SUFFICES ASSUME backend = "sqlite", f # "pending" PROVE WalkInv'
        BY <2>2 DEF WalkInv
    <2>4. pager.offset = 0
        BY <1>2 DEF StartWalk, StartInv
    <2>5. \A i \in Matching(f) : Cardinality(Newer(i, f)) >= pager.offset
        BY <2>4, ListingFinite
    <2> QED
        BY <2>2, <2>3, <2>5 DEF WalkInv
<1>3. ASSUME NEW p \in Processes, NextPage(p) PROVE WalkInv'
    <2> DEFINE f == pager.filter
               page == list_reviews(f, pager.offset)
               short == Short(f, pager.offset)
    <2>1. /\ pager.walking /\ pager.offset \in Nat /\ PageSize \in Nat \ {0}
          /\ short \in BOOLEAN
        BY <1>3, PageType, StoreAssumption DEF NextPage, TypeOK
    <2>2. /\ pager'.walking = ~short /\ pager'.finished = short
          /\ pager'.offset = pager.offset + PageSize /\ pager'.filter = f
          /\ pager'.existing = pager.existing
          /\ pager'.seen = pager.seen \cup page
          /\ UNCHANGED <<backend, rows, record>>
        BY <1>3 DEF NextPage, TypeOK
    <2>3. Matching(f)' = Matching(f) /\ \A i : Newer(i, f)' = Newer(i, f)
        BY <2>2 DEF Matching, Newer, Status
    <2> SUFFICES ASSUME backend = "sqlite", f # "pending" PROVE WalkInv'
        BY <2>2 DEF WalkInv
    <2>4. ASSUME NEW x \in pager.existing \ (pager.seen \cup page)
          PROVE  /\ ~short
                 /\ \E i \in Matching(f) :
                    rows[i] = x /\ Cardinality(Newer(i, f)) >= pager.offset + PageSize
        <3>1. PICK i \in Matching(f) :
                rows[i] = x /\ Cardinality(Newer(i, f)) >= pager.offset
            BY <2>1, <2>4 DEF WalkInv
        <3>2. /\ Cardinality(Newer(i, f)) \in Nat /\ Cardinality(Matching(f)) \in Nat
              /\ Cardinality(Newer(i, f)) < Cardinality(Matching(f))
            BY <3>1, ListingFinite
        <3>3. Cardinality(Newer(i, f)) \notin pager.offset..(pager.offset + PageSize - 1)
            BY <2>4, <3>1 DEF list_reviews
        <3>4. Cardinality(Newer(i, f)) >= pager.offset + PageSize
            BY <2>1, <3>1, <3>2, <3>3
        <3>5. ~short
            BY <2>1, <3>2, <3>4 DEF Short
        <3> QED
            BY <3>1, <3>4, <3>5
    <2> HIDE DEF page, short, f
    <2>5. pager'.finished => pager'.existing \subseteq pager'.seen
        BY <2>2, <2>4
    <2>6. ASSUME NEW x \in pager'.existing \ pager'.seen
          PROVE  \E i \in Matching(f)' :
                    rows'[i] = x /\ Cardinality(Newer(i, f))' >= pager'.offset
        <3>1. PICK i \in Matching(f) :
                rows[i] = x /\ Cardinality(Newer(i, f)) >= pager.offset + PageSize
            BY <2>2, <2>4, <2>6
        <3> QED
            BY <2>2, <2>3, <3>1
    <2>7. pager'.walking => \A x \in pager'.existing \ pager'.seen :
            (\E i \in Matching(f) : rows[i] = x /\ Cardinality(Newer(i, f)) >= pager.offset)'
        BY <2>2, <2>6
    <2> QED
        BY <2>5, <2>7 DEF WalkInv, f
<1>4. ASSUME NEW c \in Calls, create(c) PROVE WalkInv'
    <2>1. DOMAIN rows \subseteq DOMAIN rows' /\ \A i \in DOMAIN rows : rows'[i] = rows[i]
        <3>1. CASE rows' = rows
            BY <3>1
        <3>2. CASE rows' = Append(rows, RunOf[c])
            BY <3>2, CallTypes DEF TypeOK
        <3> QED
            BY <1>4, <3>1, <3>2 DEF create
    <2>2. \A x \in Runs : record[x] \in Decides => record'[x] = record[x]
        BY <1>4, CallTypes, CallAssumption DEF create, TypeOK
    <2>3. UNCHANGED <<backend, pager>>
        BY <1>4 DEF create
    <2> QED
        BY <1>1, <2>1, <2>2, <2>3
<1>5. ASSUME NEW c \in Calls, Update(c) \/ ExplainMiss(c) \/ ReadBack(c) \/ decide(c)
      PROVE  WalkInv'
    <2>1. \A x \in Runs : record[x] \in Decides => record'[x] = record[x]
        BY <1>5, CallTypes, CallAssumption
           DEF Update, ExplainMiss, ReadBack, decide, Matches, TypeOK
    <2>2. UNCHANGED <<backend, pager, rows>>
        BY <1>5 DEF Update, ExplainMiss, ReadBack, decide, RowsAfterDecision
    <2> QED
        BY <1>1, <2>1, <2>2
<1>6. ASSUME NEW p \in Processes, Restart(p) PROVE WalkInv'
    BY <1>1, <1>6 DEF Restart
<1>7. CASE UNCHANGED vars
    BY <1>1, <1>7 DEF vars
<1> QED
    BY <1>2, <1>3, <1>4, <1>5, <1>6, <1>7 DEF Next

\* Paging the SQLite queue, whole or by decision, misses nothing that was to be
\* seen at the start.
THEOREM WalkComplete == Spec => []WalkMissesNothing
<1>1. Init => StartInv /\ WalkInv
    BY DEF Init, StartInv, WalkInv
<1>2. TypeOK /\ TypeOK' /\ StartInv /\ WalkInv /\ [Next]_vars => StartInv' /\ WalkInv'
    BY StartStep, WalkStep
<1>3. WalkInv => WalkMissesNothing
    BY DEF WalkInv, WalkMissesNothing
<1> QED
    BY <1>1, <1>2, <1>3, TypeCorrect, PTL DEF Spec
=============================================================================
