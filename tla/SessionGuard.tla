---------------------------- MODULE SessionGuard ----------------------------
(***************************************************************************)
(* What the in-flight session guard promises to the API handlers: a run is *)
(* admitted for a session only while no other run of that session is in    *)
(* flight.  This is the contract of SessionRegistryBackend ("False if a    *)
(* run is already in progress"); the in-memory and the Redis registries    *)
(* are shown to implement it.                                              *)
(***************************************************************************)
CONSTANTS Sessions,   \* the session identifiers clients send
          Runs        \* every run ever requested

VARIABLE inFlight     \* inFlight[s]: the runs of s between admission and end

Init == inFlight = [s \in Sessions |-> {}]

\* try_acquire answers True: r becomes the one run in flight for s.
Admit(r, s) ==
    /\ inFlight[s] = {}
    /\ \A t \in Sessions : r \notin inFlight[t]
    /\ inFlight' = [inFlight EXCEPT ![s] = {r}]

\* The runs of the sessions in S end together: one session when a handler
\* releases it, several when the process that runs them dies.
End(S) == inFlight' = [s \in Sessions |-> IF s \in S THEN {} ELSE inFlight[s]]

Next ==
    \/ \E r \in Runs, s \in Sessions : Admit(r, s)
    \/ \E S \in SUBSET Sessions : End(S)

Spec == Init /\ [][Next]_inFlight
=============================================================================
