----------------------------- MODULE TumblerMap -----------------------------
(***************************************************************************)
(* One stored credential (a tumbler map) and the pure functions of the     *)
(* server that read or rewrite it: packages/server/src/store.ts            *)
(* (assertTumblerMapCounterState, reconcileTumblerMapCounterStatus,        *)
(* commitValidationToMap) and the counter part of                          *)
(* packages/core/src/validate.ts (validateTSKKey).                         *)
(*                                                                         *)
(* A map is abstracted to what decides acceptance: its status, one counter *)
(* per HOTP segment, its use count and its lifecycle limits.  Static and   *)
(* TOTP segment values, the layout of the key string, labels and           *)
(* lastUsedAt decide nothing about a later request and are left out.       *)
(***************************************************************************)
EXTENDS Integers, FiniteSets

CONSTANTS
  Seg,          \* segmentIds of the HOTP segments of every map
  MaxCounter,   \* TSK_MAX_HOTP_COUNTER: the persisted "exhausted" sentinel
  Lookahead,    \* cfg.hotpLookahead
  Tolerance,    \* cfg.totpToleranceWindows
  Lifecycle     \* the lifecycle limits an administrator may ask for

(***************************************************************************)
(* maxRequests = 0 is the code's "unlimited"; expiresAt = Never its        *)
(* undefined; usageWarn and hotpWarn are the two rotation-warning windows. *)
(***************************************************************************)
Never == -1
Limits == [maxRequests : Nat, expiresAt : Nat \cup {Never},
           usageWarn : Nat \ {0}, hotpWarn : 1..MaxCounter]

ASSUME MapAssumption ==
  /\ Seg # {} /\ IsFiniteSet(Seg)
  /\ MaxCounter \in Nat \ {0}
  /\ Lookahead \in Nat
  /\ Tolerance \in Nat
  /\ Lifecycle \subseteq Limits

Status    == {"active", "expiring", "expired", "revoked"}
Terminal  == {"expired", "revoked"}
Counter   == 0..MaxCounter             \* isValidHOTPStoredCounter
Usable    == 0..(MaxCounter - 1)       \* isUsableHOTPDerivationCounter
Vector    == [Seg -> Usable]           \* the counters one key is derived from

Map == [status : Status, ctr : [Seg -> Counter], requestCount : Nat,
        limits : Limits, createdAt : Nat]

(* The map generateTumblerMap returns, dressed by provision / replaceKey.  *)
NewMap(lc, t) == [status |-> "active", ctr |-> [s \in Seg |-> 0],
                  requestCount |-> 0, limits |-> lc, createdAt |-> t]

(* A usage-warning window larger than the cap is refused by the provisioner. *)
LimitsOk(lc) == lc.maxRequests > 0 => lc.usageWarn <= lc.maxRequests

-----------------------------------------------------------------------------
(* minimumHOTPUsesRemaining(map) <= n                                      *)
UsesRemainingAtMost(m, n) == \E s \in Seg : MaxCounter - m.ctr[s] <= n

(* assertTumblerMapCounterState does not throw.                            *)
CounterStateOk(m) == UsesRemainingAtMost(m, 0) => m.status \in Terminal

(* A mutant: the exhausted sentinel is not turned into 'expired'.           *)
ReconciledKeepsExhausted(m) ==
  IF m.status \notin Terminal /\ UsesRemainingAtMost(m, m.limits.hotpWarn)
  THEN [m EXCEPT !.status = "expiring"] ELSE m

(* reconcileTumblerMapCounterStatus *)
Reconciled(m) ==
  IF m.status \in Terminal THEN m
  ELSE IF UsesRemainingAtMost(m, 0) THEN [m EXCEPT !.status = "expired"]
  ELSE IF UsesRemainingAtMost(m, m.limits.hotpWarn)
       THEN [m EXCEPT !.status = "expiring"]
  ELSE m

Expired(m, t) == m.limits.expiresAt # Never /\ t > m.limits.expiresAt
CapReached(m) == m.limits.maxRequests > 0
                 /\ m.requestCount >= m.limits.maxRequests

(* requestsRemaining <= warningWindow, the window clamped to 1..maxRequests *)
UsageWarning(m) ==
  LET max    == m.limits.maxRequests
      window == IF m.limits.usageWarn < max THEN m.limits.usageWarn ELSE max
  IN  max > 0 /\ max - m.requestCount <= window

(* Mutants of Advanced: the matched counter stays usable, the use is not    *)
(* counted, the counter skips one and can pass the ceiling.                 *)
AdvancedKeepsCounter(m, matched) ==
  [m EXCEPT !.ctr = matched, !.requestCount = @ + 1]

(***************************************************************************)
(* The map after its counters moved past the matched ones: counters,       *)
(* requestCount, then the two status updates in the code's order.          *)
(***************************************************************************)
Advanced(m, matched) ==
  LET moved == Reconciled([m EXCEPT !.ctr = [s \in Seg |-> matched[s] + 1],
                                    !.requestCount = @ + 1])
  IN  IF UsageWarning(moved) /\ ~UsesRemainingAtMost(moved, 0)
      THEN [moved EXCEPT !.status = "expiring"] ELSE moved

(* Mutants of CommitOk: the stored counters, or the usage cap, are not      *)
(* checked again at the commit.                                             *)
CommitOkAnyCounter(m, matched, usedAt) ==
  /\ m.status \notin Terminal
  /\ ~Expired(m, usedAt) /\ ~CapReached(m)
  /\ \A s \in Seg : m.ctr[s] < MaxCounter /\ matched[s] \in Usable
CommitOkUncapped(m, matched, usedAt) ==
  /\ m.status \notin Terminal
  /\ ~Expired(m, usedAt)
  /\ \A s \in Seg : m.ctr[s] < MaxCounter /\ m.ctr[s] <= matched[s]

(***************************************************************************)
(* commitValidationToMap, as its decision and the map it leaves behind.    *)
(* matched maps each segment named in counterMatches to the counter that   *)
(* validation matched; an accepted commit names every HOTP segment once.   *)
(* The code's HOTP_COUNTER_EXHAUSTED exit, which also expires the map, is   *)
(* dead behind the assertion: an exhausted map that is not terminal fails   *)
(* CounterStateOk first.                                                    *)
(***************************************************************************)
CommitOk(m, matched, usedAt) ==
  /\ CounterStateOk(m)
  /\ m.status \notin Terminal
  /\ ~Expired(m, usedAt)
  /\ ~CapReached(m)
  /\ DOMAIN matched = Seg
  /\ \A s \in Seg : /\ m.ctr[s] < MaxCounter
                    /\ matched[s] \in Usable
                    /\ m.ctr[s] <= matched[s]

CommitExpires(m, usedAt) ==
  /\ CounterStateOk(m)
  /\ m.status \notin Terminal
  /\ Expired(m, usedAt) \/ CapReached(m)

commitValidationToMap(m, matched, usedAt) ==
  IF CommitOk(m, matched, usedAt) THEN Advanced(m, matched)
  ELSE IF CommitExpires(m, usedAt) THEN [m EXCEPT !.status = "expired"]
  ELSE m

-----------------------------------------------------------------------------
(***************************************************************************)
(* validateTSKKey.  A genuine key is the counter vector it was derived     *)
(* from and the TOTP window it was derived in; a key that was not derived  *)
(* from the shared secret fails the checksum and is none of these.         *)
(* window counts in the same ticks as now.                                 *)
(***************************************************************************)
Key == [ctr : Vector, window : Nat]

Abs(n) == IF n < 0 THEN 0 - n ELSE n

validateTSKKey(key, m, now) ==
  /\ Abs(now - key.window) <= Tolerance
  /\ \A s \in Seg : /\ m.ctr[s] < MaxCounter
                    /\ key.ctr[s] \in m.ctr[s]..(m.ctr[s] + Lookahead)
=============================================================================
