--------------------------- MODULE MCControlFence ---------------------------
(***************************************************************************)
(* ControlFence alone, for TLC: receipts and chains come from small sets   *)
(* of signed ones, presented in any order, for the right or another epoch. *)
(***************************************************************************)
EXTENDS ControlFence, TLC

CONSTANTS n1, n2, c1, c2, l1, l2, l3, k1, k2, m1, m2, g1

AnyFrozen == [node : {n1}, epoch : {0, 1}, cmd : Cmd, rows : {<<>>}]
AnyFinal  == [node : Node, gen : Generation, frozen : AnyFrozen]
AnyChain  == {<<>>}

MCControlSpec ==
  ControlInit /\ [][ControlNext(AnyFrozen, AnyFinal, AnyChain)]_controlVars

Symmetry == Permutations(Cmd) \cup Permutations(LeaseCmd)
            \cup Permutations(Caller) \cup Permutations(Marker)
=============================================================================
