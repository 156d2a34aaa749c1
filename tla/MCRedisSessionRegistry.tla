----------------------- MODULE MCRedisSessionRegistry -----------------------
(* Six requests on two replicas.  Session s1 has every misfortune: r1 and   *)
(* r2 meet on replica p1, r3 competes from p2, calls to Redis may raise and *)
(* runs may outlive their locks.  Session s2 is steady.                     *)
EXTENDS RedisSessionRegistry, TLC

CONSTANTS p1, p2, s1, s2, r1, r2, r3, r4, r5, r6

MCReplicas == {p1, p2}
MCSessions == {s1, s2}
MCRuns == {r1, r2, r3, r4, r5, r6}
MCHomeOf == r1 :> p1 @@ r2 :> p1 @@ r3 :> p2 @@ r4 :> p1 @@ r5 :> p1 @@ r6 :> p2
MCSessionOf == r1 :> s1 @@ r2 :> s1 @@ r3 :> s1 @@ r4 :> s2 @@ r5 :> s2 @@ r6 :> s2
MCOutages == {r1, r3}
MCLongRuns == {r1, r2, r3}
=============================================================================
