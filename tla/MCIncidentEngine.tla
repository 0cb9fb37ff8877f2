--------------------------- MODULE MCIncidentEngine ---------------------------
(* A parent and its child on one host.                                      *)
EXTENDS IncidentEngine

CONSTANTS g1, g2

MCParentOf == (g1 :> NoGuid) @@ (g2 :> g1)
=============================================================================
