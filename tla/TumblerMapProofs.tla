-------------------------- MODULE TumblerMapProofs --------------------------
(***************************************************************************)
(* Facts about the pure operators of TumblerMap, for every set of segments *)
(* and every counter ceiling.                                              *)
(***************************************************************************)
EXTENDS TumblerMap, TLAPS

(* Changing the status of a map gives a map: the lifecycle transitions of   *)
(* store.ts, middleware.ts and provisioner.ts keep the record well formed.  *)
LEMMA StatusChange ==
  ASSUME NEW m \in Map, NEW st \in Status
  PROVE  /\ [m EXCEPT !.status = st] \in Map
         /\ [m EXCEPT !.status = st].status = st
         /\ [m EXCEPT !.status = st].ctr = m.ctr
         /\ [m EXCEPT !.status = st].requestCount = m.requestCount
         /\ [m EXCEPT !.status = st].limits = m.limits
  BY DEF Map

(* A freshly generated map is a usable credential at counter zero.          *)
LEMMA NewMapFacts ==
  ASSUME NEW lc \in Lifecycle, NEW t \in Nat
  PROVE  /\ NewMap(lc, t) \in Map
         /\ NewMap(lc, t).status = "active"
         /\ NewMap(lc, t).ctr = [s \in Seg |-> 0]
         /\ NewMap(lc, t).requestCount = 0
         /\ CounterStateOk(NewMap(lc, t))
  <1>1. NewMap(lc, t) \in Map
    BY MapAssumption DEF NewMap, Map, Status, Counter, Limits
  <1>2. ~UsesRemainingAtMost(NewMap(lc, t), 0)
    BY MapAssumption DEF NewMap, UsesRemainingAtMost
  <1> QED
    BY <1>1, <1>2 DEF NewMap, CounterStateOk

(* reconcileTumblerMapCounterStatus only moves the status, never out of a   *)
(* terminal one, and leaves an exhausted map terminal.                      *)
LEMMA ReconciledFacts ==
  ASSUME NEW m \in Map
  PROVE  /\ Reconciled(m) \in Map
         /\ Reconciled(m).ctr = m.ctr
         /\ Reconciled(m).requestCount = m.requestCount
         /\ Reconciled(m).limits = m.limits
         /\ CounterStateOk(Reconciled(m))
         /\ m.status \in Terminal => Reconciled(m) = m
         /\ m.status \notin Terminal /\ ~UsesRemainingAtMost(m, 0)
              => Reconciled(m).status \notin Terminal
  <1> "expired" \in Status /\ "expiring" \in Status
    BY DEF Status
  <1>1. CASE m.status \in Terminal
    BY <1>1 DEF Reconciled, CounterStateOk
  <1>2. CASE m.status \notin Terminal /\ UsesRemainingAtMost(m, 0)
    <2>1. Reconciled(m) = [m EXCEPT !.status = "expired"]
      BY <1>2 DEF Reconciled
    <2> QED
      BY <1>2, <2>1, StatusChange DEF CounterStateOk, Terminal
  <1>3. CASE /\ m.status \notin Terminal
             /\ ~UsesRemainingAtMost(m, 0)
    <2> DEFINE e == [m EXCEPT !.status = "expiring"]
    <2>1. Reconciled(m) = m \/ Reconciled(m) = e
      BY <1>3 DEF Reconciled
    <2>2. /\ e \in Map /\ e.ctr = m.ctr /\ e.requestCount = m.requestCount
          /\ e.limits = m.limits /\ e.status = "expiring"
      BY StatusChange
    <2>3. "expiring" \notin Terminal
      BY DEF Terminal
    <2> HIDE DEF e
    <2>4. /\ Reconciled(m).ctr = m.ctr
          /\ Reconciled(m).status \notin Terminal
      BY <1>3, <2>1, <2>2, <2>3
    <2>5. CounterStateOk(Reconciled(m))
      BY <2>4, <1>3 DEF UsesRemainingAtMost, CounterStateOk
    <2> QED
      BY <1>3, <2>1, <2>2, <2>4, <2>5
  <1> QED
    BY <1>1, <1>2, <1>3

(* An accepted commit moves every counter to one past the matched one, adds *)
(* one use, and leaves a map that is terminal exactly when it is exhausted. *)
LEMMA AdvancedFacts ==
  ASSUME NEW m \in Map, NEW v \in Vector, m.status \notin Terminal
  PROVE  /\ Advanced(m, v) \in Map
         /\ Advanced(m, v).ctr = [s \in Seg |-> v[s] + 1]
         /\ Advanced(m, v).requestCount = m.requestCount + 1
         /\ Advanced(m, v).limits = m.limits
         /\ CounterStateOk(Advanced(m, v))
         /\ Advanced(m, v).status \notin Terminal
              <=> ~\E s \in Seg : v[s] + 1 = MaxCounter
  <1> DEFINE f == [s \in Seg |-> v[s] + 1]
             n == [m EXCEPT !.ctr = f, !.requestCount = @ + 1]
             rn == Reconciled(n)
  <1>1. f \in [Seg -> Counter]
    BY MapAssumption DEF Vector, Usable, Counter
  <1>2. /\ n \in Map /\ n.ctr = f /\ n.requestCount = m.requestCount + 1
        /\ n.limits = m.limits /\ n.status \notin Terminal
    <2> HIDE DEF f
    <2>1. m.requestCount + 1 \in Nat
      BY DEF Map
    <2> QED
      BY <1>1, <2>1 DEF Map
  <1>3. UsesRemainingAtMost(n, 0) <=> \E s \in Seg : v[s] + 1 = MaxCounter
    BY <1>2, <1>1, MapAssumption DEF UsesRemainingAtMost, Vector, Usable
  <1> HIDE DEF n, f
  <1>4. /\ rn \in Map /\ rn.ctr = f /\ rn.requestCount = m.requestCount + 1
        /\ rn.limits = m.limits /\ CounterStateOk(rn)
        /\ ~UsesRemainingAtMost(n, 0) => rn.status \notin Terminal
    BY <1>2, ReconciledFacts
  <1>5. UsesRemainingAtMost(rn, 0) <=> UsesRemainingAtMost(n, 0)
    BY <1>2, <1>4 DEF UsesRemainingAtMost
  <1>6. Advanced(m, v) = IF UsageWarning(rn) /\ ~UsesRemainingAtMost(rn, 0)
                         THEN [rn EXCEPT !.status = "expiring"] ELSE rn
    BY DEF Advanced, n, f
  <1> HIDE DEF rn
  <1>7. CASE UsageWarning(rn) /\ ~UsesRemainingAtMost(rn, 0)
    <2>1. Advanced(m, v) = [rn EXCEPT !.status = "expiring"]
      BY <1>6, <1>7
    <2>2. "expiring" \in Status /\ "expiring" \notin Terminal
      BY DEF Status, Terminal
    <2>3. /\ Advanced(m, v) \in Map /\ Advanced(m, v).ctr = f
          /\ Advanced(m, v).requestCount = m.requestCount + 1
          /\ Advanced(m, v).limits = m.limits
          /\ Advanced(m, v).status = "expiring"
      BY <2>1, <2>2, <1>4, StatusChange
    <2>4. ~UsesRemainingAtMost(Advanced(m, v), 0)
      BY <2>3, <1>4, <1>7 DEF UsesRemainingAtMost
    <2> QED
      BY <2>2, <2>3, <2>4, <1>3, <1>5, <1>7 DEF CounterStateOk, f
  <1>8. CASE ~(UsageWarning(rn) /\ ~UsesRemainingAtMost(rn, 0))
    <2>1. Advanced(m, v) = rn
      BY <1>6, <1>8
    <2>2. UsesRemainingAtMost(rn, 0) => rn.status \in Terminal
      BY <1>4 DEF CounterStateOk
    <2> QED
      BY <2>1, <2>2, <1>3, <1>4, <1>5 DEF f
  <1> QED
    BY <1>7, <1>8

(* createdAt, which names the generated credential, survives both rewrites. *)
LEMMA ReconciledCreatedAt ==
  ASSUME NEW m \in Map PROVE Reconciled(m).createdAt = m.createdAt
  <1>1. \A st \in Status : [m EXCEPT !.status = st].createdAt = m.createdAt
    BY DEF Map
  <1> QED
    BY <1>1 DEF Reconciled, Status

LEMMA AdvancedCreatedAt ==
  ASSUME NEW m \in Map, NEW v \in Vector PROVE Advanced(m, v).createdAt = m.createdAt
  <1> DEFINE f == [s \in Seg |-> v[s] + 1]
             n == [m EXCEPT !.ctr = f, !.requestCount = @ + 1]
             rn == Reconciled(n)
  <1>1. f \in [Seg -> Counter]
    BY MapAssumption DEF Vector, Usable, Counter
  <1>2. n \in Map /\ n.createdAt = m.createdAt
    <2> HIDE DEF f
    <2>1. m.requestCount + 1 \in Nat
      BY DEF Map
    <2> QED
      BY <1>1, <2>1 DEF Map
  <1>3. Advanced(m, v) = IF UsageWarning(rn) /\ ~UsesRemainingAtMost(rn, 0)
                         THEN [rn EXCEPT !.status = "expiring"] ELSE rn
    BY DEF Advanced
  <1> HIDE DEF n
  <1>4. rn \in Map /\ rn.createdAt = m.createdAt
    BY <1>2, ReconciledFacts, ReconciledCreatedAt
  <1> HIDE DEF rn
  <1>5. [rn EXCEPT !.status = "expiring"].createdAt = rn.createdAt
    BY <1>4 DEF Map
  <1> QED
    BY <1>3, <1>4, <1>5

(* Whatever commitValidationToMap decides, it leaves a well-formed map that *)
(* passes assertTumblerMapCounterState when the one before did, and it      *)
(* never turns a terminal map into a live one.                              *)
THEOREM CommitKeepsMap ==
  ASSUME NEW m \in Map, NEW v \in Vector, NEW t \in Nat
  PROVE  /\ commitValidationToMap(m, v, t) \in Map
         /\ CounterStateOk(m) => CounterStateOk(commitValidationToMap(m, v, t))
         /\ m.status \in Terminal => commitValidationToMap(m, v, t) = m
         /\ CommitOk(m, v, t) => commitValidationToMap(m, v, t) = Advanced(m, v)
         /\ ~CommitOk(m, v, t)
              => commitValidationToMap(m, v, t)
                   \in {m, [m EXCEPT !.status = "expired"]}
  <1>1. CASE CommitOk(m, v, t)
    BY <1>1, AdvancedFacts DEF commitValidationToMap, CommitOk
  <1>2. CASE ~CommitOk(m, v, t) /\ CommitExpires(m, t)
    <2>1. "expired" \in Status /\ "expired" \in Terminal
      BY DEF Status, Terminal
    <2> QED
      BY <1>2, <2>1, StatusChange
      DEF commitValidationToMap, CommitExpires, CounterStateOk
  <1>3. CASE ~CommitOk(m, v, t) /\ ~CommitExpires(m, t)
    BY <1>3 DEF commitValidationToMap
  <1> QED
    BY <1>1, <1>2, <1>3
=============================================================================
