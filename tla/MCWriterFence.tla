---------------------------- MODULE MCWriterFence ----------------------------
(* Small instances of WriterFence for TLC. *)
EXTENDS WriterFence, TLC

CONSTANTS n1, n2, i1, i2, h1, h2, w1, r1, r2

Symmetry == Permutations(Node) \cup Permutations(Handler) \cup Permutations(Replica)
            \cup Permutations(CommandId)
=============================================================================
