-------------------------- MODULE MCRegistryIndex ---------------------------
(* RegistryIndex with two concurrent requests of two reads each.            *)
EXTENDS RegistryIndex

CONSTANTS r1, r2

MCPair == {r1, r2}
=============================================================================
