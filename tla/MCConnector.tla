----------------------------- MODULE MCConnector -----------------------------
(* Three pipelines of both kinds of pack share the connector.                *)
EXTENDS Connector, TLC

CONSTANTS t1, t2, t3

MCPackOf == t1 :> "structured" @@ t2 :> "structured" @@ t3 :> "research_analysis"
=============================================================================
