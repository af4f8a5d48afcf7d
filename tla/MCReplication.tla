---------------------------- MODULE MCReplication ----------------------------
(* Small instances of Replication for TLC. *)
EXTENDS Replication, TLC

CONSTANTS c1, c2, c3, k1, k2, i1, i2

MCLifecycle == {[maxRequests |-> 0, expiresAt |-> Never, usageWarn |-> 1, hotpWarn |-> 1]}

Symmetry == Permutations(ClientId) \cup Permutations(Calls) \cup Permutations(Ingests)
=============================================================================
