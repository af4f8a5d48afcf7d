-------------------------- MODULE MCClientCounters --------------------------
(* A small instance of ClientCounters for TLC. *)
EXTENDS ClientCounters

MCLifecycle == {Unlimited}
=============================================================================
