---------------------------- MODULE MCProcessTree ----------------------------
(* Three processes of one host, four clock values, a TTL of one unit.       *)
EXTENDS ProcessTree
=============================================================================
