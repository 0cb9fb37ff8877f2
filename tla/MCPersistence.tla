---------------------------- MODULE MCPersistence ----------------------------
(* Two ingests at a time on one correlation key.                            *)
EXTENDS Persistence, TLC

Symmetry == Permutations(Worker)
=============================================================================
