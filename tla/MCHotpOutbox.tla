---------------------------- MODULE MCHotpOutbox ----------------------------
(* Small instances of HotpOutbox for TLC. *)
EXTENDS HotpOutbox, TLC

CONSTANTS p1, p2

MCOp == [tumbler : {"t"}, counter : 1..2]
Symmetry == Permutations(Publisher)
=============================================================================
