--------------------------- MODULE MCTimedComponents ---------------------------
(* One channel, one scanning process, one tree root: keys share nothing.     *)
EXTENDS TimedComponents, TLC

CONSTANTS d1, d2, d3

\* Two ports of one address and a port of another.
MCIpOf == (d1 :> 1) @@ (d2 :> 1) @@ (d3 :> 2)
MCPortOf == (d1 :> 1) @@ (d2 :> 2) @@ (d3 :> 1)

\* A fast clock, a punctual one, late deliveries.
MCLag == {-1, 0, 1}

\* A command that is no recon, one that two signatures claim, two more.
MCCommand == {{}, {1, 4}, {3}, {5, 10}}

MCHorizon == [beacon |-> 12, scan |-> 7, discovery |-> 8, limiter |-> 4, enrichment |-> 4]

ClientSymmetry == Permutations(Client)

MCTypeOf == [i \in {"intranet", "address", "file"} |->
                CASE i = "intranet" -> "none" [] i = "address" -> "ip"
                  [] i = "file" -> "hash"]
=============================================================================
