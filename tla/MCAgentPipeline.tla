-------------------------- MODULE MCAgentPipeline --------------------------
(* Costs in cents: calls are estimated at 2 or 3 and cost 0, 1 or 4, so that *)
(* a call may be cheaper or dearer than its estimate.                        *)
EXTENDS AgentPipeline

MCEstimates == {2, 3}
MCCosts == {0, 1, 4}

\* A pack outside REGULATED_PACK_IDS with and without a policy of review, the
\* built-in regulated packs, one of them with the cross-check turned on, and
\* one whose operator only wants findings logged.
MCPolicies ==
    {p \in AllPolicies : p.regulated => p.review}
=============================================================================
