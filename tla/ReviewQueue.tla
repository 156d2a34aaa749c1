----------------------------- MODULE ReviewQueue -----------------------------
(***************************************************************************)
(* What the human-review queue promises to the compliance process: the     *)
(* output of a run waits for a reviewer, gets exactly one decision, and    *)
(* "can never go back to pending".  A durable queue forgets nothing; a     *)
(* volatile one forgets everything at once, when its process restarts.     *)
(***************************************************************************)
CONSTANTS Runs,       \* runs of regulated packs
          Decisions   \* every decision a reviewer ever submits

VARIABLES verdict,    \* verdict[r]: "absent", "pending" or the decision taken
          durable     \* fixed: whether the queue survives restarts

Init ==
    /\ verdict = [r \in Runs |-> "absent"]
    /\ durable \in BOOLEAN

Enqueue(r) ==
    /\ verdict[r] = "absent"
    /\ verdict' = [verdict EXCEPT ![r] = "pending"]

Decide(r, d) ==
    /\ verdict[r] = "pending"
    /\ verdict' = [verdict EXCEPT ![r] = d]

Forget == ~durable /\ verdict' = [r \in Runs |-> "absent"]

Next ==
    /\ \/ \E r \in Runs : Enqueue(r) \/ \E d \in Decisions : Decide(r, d)
       \/ Forget
    /\ UNCHANGED durable

Spec == Init /\ [][Next]_<<verdict, durable>>
=============================================================================
