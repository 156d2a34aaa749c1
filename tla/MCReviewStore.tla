--------------------------- MODULE MCReviewStore ---------------------------
(* Two reviews and four decisions, three of them for the same review, over   *)
(* the two processes of a deployment hand-over; the in-memory store is that  *)
(* of the process that makes most of the calls.                              *)
EXTENDS ReviewStore, TLC

CONSTANTS p1, p2, r1, r2, k1, k2, k3, d1, d2, d3, d4

MCRuns == {r1, r2}
MCCreates == {k1, k2, k3}
MCDecides == {d1, d2, d3, d4}
MCRunOf == k1 :> r1 @@ k2 :> r2 @@ k3 :> r1
           @@ d1 :> r1 @@ d2 :> r1 @@ d3 :> r1 @@ d4 :> r2

MCDecisionOf == d1 :> "approved" @@ d2 :> "rejected" @@ d3 :> "rejected"
                @@ d4 :> "approved"

TwoProcesses == {p1, p2}
Spread == [c \in MCCreates \cup MCDecides |-> IF c \in {k2, d2} THEN p2 ELSE p1]
=============================================================================
