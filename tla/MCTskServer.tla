---------------------------- MODULE MCTskServer ----------------------------
(* Small instances of TskServer for TLC. *)
EXTENDS TskServer, TLC

CONSTANTS c1, c2, c3, r1, r2, a1, a2

(* Unlimited, capped and expiring credentials, one with windows that cover  *)
(* the whole life of the credential.                                        *)
MCLifecycle ==
  {[maxRequests |-> 0, expiresAt |-> 0, usageWarn |-> 1, hotpWarn |-> 1],
   [maxRequests |-> 1, expiresAt |-> Never, usageWarn |-> 1, hotpWarn |-> 1]}

(* An administrator may also ask for a warning window above the cap.        *)
MCUpdateLifecycle ==
  {[maxRequests |-> 0, expiresAt |-> Never, usageWarn |-> 1, hotpWarn |-> 1],
   [maxRequests |-> 1, expiresAt |-> Never, usageWarn |-> 2, hotpWarn |-> 1],
   [maxRequests |-> 1, expiresAt |-> Never, usageWarn |-> 1, hotpWarn |-> 1]}

Symmetry == Permutations({c1, c2, c3}) \cup Permutations({r1, r2})
            \cup Permutations({a1, a2})
=============================================================================
