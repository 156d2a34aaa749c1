--------------------------- MODULE MCPackRouting ---------------------------
(* A built-in pack and a plugin pack that is installed in one or four versions, *)
(* next to entry points that are refused.  One session, a Redis store that    *)
(* holds a row from before the session+pack index.                            *)
EXTENDS PackRouting, TLC

CONSTANTS s1, core, acme, v1, v2, v3, v4, a, b

EntryPoint(p, v, allowed, loads, valid) ==
    [pack |-> p, version |-> v, allowed |-> allowed, loads |-> loads, valid |-> valid]

\* acme 1 with refused neighbours: an override of core, a plugin outside the
\* allowlist, one that fails to import, one that breaks the contract.
OneVersion ==
    <<EntryPoint(core, v2, TRUE, TRUE, TRUE), EntryPoint(acme, v1, TRUE, TRUE, TRUE),
      EntryPoint(acme, v2, FALSE, TRUE, TRUE), EntryPoint(acme, v2, TRUE, FALSE, TRUE),
      EntryPoint(acme, v2, TRUE, TRUE, FALSE)>>
FourVersions ==
    <<EntryPoint(acme, v1, TRUE, TRUE, TRUE), EntryPoint(acme, v2, TRUE, TRUE, TRUE),
      EntryPoint(acme, v3, TRUE, TRUE, TRUE), EntryPoint(acme, v4, TRUE, TRUE, TRUE)>>

MCInstallations == {OneVersion, FourVersions}
MCRequests == {[session |-> s1, pack |-> acme, header |-> None],
               [session |-> s1, pack |-> acme, header |-> v2]}
\* Floats of two significant bits.  With the weights 1, 4, 1, 0 the running sum
\* stays at 4 and sum() is 6; with 1, 2, 1, 0 nothing is rounded.
MCFloats == 0..4 \cup {6, 8}
MCPatched == {<<acme, v2, 2>>, <<acme, v2, 4>>, <<acme, v4, 0>>}
SlotSymmetry == Permutations(Slots)
MCLegacyRows == {Row(0, s1, acme, v1, 0)}
=============================================================================
