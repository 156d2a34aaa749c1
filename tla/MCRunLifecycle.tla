--------------------------- MODULE MCRunLifecycle ---------------------------
(* Requests of every handler.  In the first scenario regulated packs are     *)
(* enabled and three kinds of run compete for session s1 beside a stream on  *)
(* s2.  In the second they are not: a is turned away, b slips through the    *)
(* stream endpoint, f runs a pack without checkpointer and e a graph with an *)
(* async one; it is small enough for the temporal properties.                *)
EXTENDS RunLifecycle, TLC

CONSTANTS a, b, c, d, e, f, s1, s2

MCSessions == {s1, s2}

CompetingRequests == {a, b, c, d}
CompetingKind ==
    a :> "run_pack" @@ b :> "stream_pack" @@ c :> "run_pipeline" @@ d :> "run_stream"
CompetingSession == a :> s1 @@ b :> s1 @@ c :> s1 @@ d :> s2
CompetingRegulated == {a, b, c}
CompetingOnLoop == {c, d}

MixedRequests == {a, b, e, f}
MixedKind ==
    a :> "run_pack" @@ b :> "stream_pack" @@ e :> "run_research" @@ f :> "run_pack"
MixedSession == a :> s1 @@ b :> s1 @@ e :> NoSession @@ f :> s1
MixedRegulated == {a, b}
MixedOnLoop == {e}
=============================================================================
