----------------------------- MODULE MCHandover -----------------------------
(* A small instance of Handover for TLC. *)
EXTENDS Handover

CONSTANTS n1, n2, n3, c1, c2, l1, l2, k1, m1, g1

Symmetry == Permutations(Node \ {Origin}) \cup Permutations(Cmd)
=============================================================================
