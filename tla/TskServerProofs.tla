--------------------------- MODULE TskServerProofs ---------------------------
(***************************************************************************)
(* Safety of the server core for every number of clients, segments,        *)
(* concurrent requests and administrators, and every counter ceiling.      *)
(***************************************************************************)
EXTENDS TskServer, TumblerMapProofs, FiniteSetTheorems

(* store.get returns the stored map or nothing, and at most deletes the     *)
(* entry it was asked for.                                                  *)
LEMMA GetFacts ==
  ASSUME TypeOK, NEW c \in ClientId
  PROVE  /\ AfterGet(c) \in [ClientId -> Map \cup {NoMap}]
         /\ \A d \in ClientId : AfterGet(c)[d] \in {maps[d], NoMap}
         /\ Got(c) # NoMap => Got(c) = maps[c] /\ Got(c) \in Map
  BY DEF TypeOK, AfterGet, Got

(* store.set overwrites one entry with the given map, or throws.            *)
LEMMA SetFacts ==
  ASSUME TypeOK, NEW c \in ClientId, NEW m \in Map
  PROVE  /\ AfterSet(c, m) \in [ClientId -> Map \cup {NoMap}]
         /\ AfterSet(c, m)[c] \in {m, maps[c]}
         /\ \A d \in ClientId : d # c => AfterSet(c, m)[d] = maps[d]
  BY DEF TypeOK, AfterSet

(* replaceCredential revokes or drops the old entry and adds the new one.   *)
LEMMA ReplaceFacts ==
  ASSUME TypeOK, NEW old \in ClientId, NEW new \in ClientId, NEW m \in Map,
         ReplaceOk(old), old # new
  PROVE  /\ AfterReplace(old, new, m) \in [ClientId -> Map \cup {NoMap}]
         /\ AfterReplace(old, new, m)[new] = m
         /\ \/ AfterReplace(old, new, m)[old] = NoMap
            \/ /\ AfterReplace(old, new, m)[old] \in Map
               /\ AfterReplace(old, new, m)[old].status = "revoked"
         /\ \A d \in ClientId : d \notin {old, new} => AfterReplace(old, new, m)[d] = maps[d]
  <1> DEFINE x == IF Cardinality(Present) >= MaxEntries THEN NoMap
                  ELSE [maps[old] EXCEPT !.status = "revoked"]
  <1>1. maps[old] \in Map
    BY DEF TypeOK, ReplaceOk
  <1>2. x = NoMap \/ (x \in Map /\ x.status = "revoked")
    BY <1>1, StatusChange DEF Status
  <1>3. AfterReplace(old, new, m) = [maps EXCEPT ![old] = x, ![new] = m]
    BY DEF AfterReplace
  <1> HIDE DEF x
  <1> QED
    BY <1>2, <1>3 DEF TypeOK

-----------------------------------------------------------------------------
LEMMA InitTypeOK == Init => TypeOK
  BY ServerAssumption DEF Init, TypeOK, ReqState, AdmState, UpdState, Idle

(* Every handler step keeps the representation, lost updates included.      *)
LEMMA NextTypeOK == TypeOK /\ [Next]_vars => TypeOK'
  <1> SUFFICES ASSUME TypeOK, [Next]_vars PROVE TypeOK'
    OBVIOUS
  <1> USE DEF TypeOK
  <1>t. now \in Nat
    BY ServerAssumption
  <1>1. ASSUME NEW r \in Requests, NEW c \in ClientId, VerifyLookup(r, c)
        PROVE  TypeOK'
    BY <1>1, GetFacts DEF VerifyLookup, ReqState
  <1>2. ASSUME NEW r \in Requests, VerifyDenied(r)
        PROVE  TypeOK'
    BY <1>2 DEF VerifyDenied, ReqState
  <1>3. ASSUME NEW r \in Requests, VerifyAutoExpire(r)
        PROVE  TypeOK'
    <2>1. req[r].client \in ClientId /\ req[r].map \in Map
      BY <1>3 DEF VerifyAutoExpire, ReqState, Idle
    <2>2. [req[r].map EXCEPT !.status = "expired"] \in Map
      BY <2>1, StatusChange DEF Status
    <2> QED
      BY <1>3, <2>1, <2>2 DEF VerifyAutoExpire, ReqState
  <1>4. ASSUME NEW r \in Requests, NEW v \in Vector, NEW w \in 0..MaxTime,
               VerifyKey(r, [ctr |-> v, window |-> w])
        PROVE  TypeOK'
    <2>1. req[r].client \in ClientId
      BY <1>4 DEF VerifyKey, ReqState, Idle
    <2> QED
      BY <1>t, <1>4, <2>1 DEF VerifyKey, ReqState
  <1>5. ASSUME NEW r \in Requests, VerifyExpireSet(r)
        PROVE  TypeOK'
    <2>1. req[r].client \in ClientId /\ req[r].map \in Map
      BY <1>5 DEF VerifyExpireSet, ReqState, Idle
    <2> QED
      BY <1>5, <2>1, SetFacts DEF VerifyExpireSet, ReqState
  <1>6. ASSUME NEW r \in Requests, VerifyCommit(r)
        PROVE  TypeOK'
    <2>1. /\ req[r].client \in ClientId /\ req[r].matched \in Vector
          /\ req[r].usedAt \in Nat
      BY <1>6 DEF VerifyCommit, ReqState, Idle
    <2>2. maps[req[r].client] # NoMap =>
            commitValidationToMap(maps[req[r].client], req[r].matched, req[r].usedAt) \in Map
      BY <2>1, CommitKeepsMap
    <2>3. Append(accepted[req[r].client], req[r].matched) \in Seq(Vector)
      BY <2>1
    <2>4. maps' \in [ClientId -> Map \cup {NoMap}]
      BY <1>6, <2>1, <2>2 DEF VerifyCommit
    <2>5. accepted' \in [ClientId -> Seq(Vector)]
      BY <1>6, <2>1, <2>3 DEF VerifyCommit
    <2> QED
      BY <1>6, <2>4, <2>5 DEF VerifyCommit, ReqState
  <1>7. ASSUME NEW a \in Admins, ProvisionList(a)
        PROVE  TypeOK'
    BY <1>7 DEF ProvisionList, AdmState
  <1>8. ASSUME NEW a \in Admins, NEW c \in ClientId, NEW lc \in Lifecycle,
               ProvisionSet(a, c, lc)
        PROVE  TypeOK'
    BY <1>t, <1>8, NewMapFacts, SetFacts DEF ProvisionSet, AdmState
  <1>9. ASSUME NEW a \in Admins, NEW c \in ClientId, RevokeLookup(a, c)
        PROVE  TypeOK'
    BY <1>9, GetFacts DEF RevokeLookup, AdmState
  <1>10. ASSUME NEW a \in Admins, RevokeDelete(a)
         PROVE  TypeOK'
    BY <1>10 DEF RevokeDelete, AdmState
  <1>11. ASSUME NEW a \in Admins, NEW c \in ClientId, ReplaceLookup(a, c)
         PROVE  TypeOK'
    BY <1>11, GetFacts DEF ReplaceLookup, AdmState
  <1>12. ASSUME NEW a \in Admins, NEW c \in ClientId, NEW lc \in Lifecycle,
                ReplaceCommit(a, c, lc)
         PROVE  TypeOK'
    <2>1. adm[a].client \in ClientId
      BY <1>12 DEF ReplaceCommit, AdmState, Idle
    <2>2. NewMap(lc, now) \in Map
      BY <1>t, NewMapFacts
    <2>3. ReplaceOk(adm[a].client) =>
            AfterReplace(adm[a].client, c, NewMap(lc, now)) \in [ClientId -> Map \cup {NoMap}]
      <3>1. [maps[adm[a].client] EXCEPT !.status = "revoked"] \in Map
              \/ ~ReplaceOk(adm[a].client)
        BY <2>1, StatusChange DEF ReplaceOk, Status
      <3> QED
        BY <2>1, <2>2, <3>1 DEF AfterReplace
    <2> QED
      BY <1>12, <2>3 DEF ReplaceCommit, AdmState
  <1>13. ASSUME NEW u \in Updaters, NEW c \in ClientId, UpdateLookup(u, c)
         PROVE  TypeOK'
    BY <1>13, GetFacts DEF UpdateLookup, UpdState
  <1>14. ASSUME NEW u \in Updaters, NEW lc \in Lifecycle, NEW st \in Status,
                UpdateSet(u, lc, st)
         PROVE  TypeOK'
    <2>1. upd[u].client \in ClientId /\ upd[u].map \in Map
      BY <1>14 DEF UpdateSet, UpdState, Idle
    <2>2. [upd[u].map EXCEPT !.limits = lc, !.status = st] \in Map
      BY <2>1, MapAssumption DEF Map
    <2> QED
      BY <1>14, <2>1, <2>2, SetFacts DEF UpdateSet, UpdState
  <1>15. ASSUME NEW c \in ClientId, GetKey(c)
         PROVE  TypeOK'
    BY <1>15, GetFacts DEF GetKey
  <1>16. CASE Tick
    BY <1>16, ServerAssumption DEF Tick
  <1>17. CASE UNCHANGED vars
    BY <1>17 DEF vars
  <1> QED
    BY <1>1, <1>2, <1>3, <1>4, <1>5, <1>6, <1>7, <1>8, <1>9, <1>10, <1>11,
       <1>12, <1>13, <1>14, <1>15, <1>16, <1>17
    DEF Next, Quiet, Verify, Administer, Update

(* Representation of the server's state holds throughout, with any number   *)
(* of concurrent metadata updates.                                          *)
THEOREM TypeCorrect == Spec => []TypeOK
  BY InitTypeOK, NextTypeOK, PTL DEF Spec

-----------------------------------------------------------------------------
(***************************************************************************)
(* The step lemma.  Seen from one credential, a step of the server does    *)
(* nothing to it, kills it, issues it, changes only its limits, or accepts *)
(* one key for it; lost updates are the only steps that escape this list.  *)
(***************************************************************************)
Untouched(c) == maps'[c] = maps[c] /\ accepted'[c] = accepted[c]

Killed(c) ==
  /\ c \in issued
  /\ maps'[c] = NoMap \/ (maps'[c] \in Map /\ maps'[c].status \in Terminal)
  /\ accepted'[c] = accepted[c]

Issued(c) ==
  /\ c \notin issued /\ c \in issued'
  /\ maps'[c] \in Map /\ maps'[c].status = "active"
  /\ maps'[c].ctr = [s \in Seg |-> 0] /\ maps'[c].requestCount = 0
  /\ accepted'[c] = accepted[c]

Relimited(c) ==
  /\ Live(c)
  /\ maps'[c] \in Map /\ maps'[c].status \notin Terminal
  /\ maps'[c].ctr = maps[c].ctr /\ maps'[c].requestCount = maps[c].requestCount
  /\ accepted'[c] = accepted[c]

Used(c) ==
  /\ Live(c)
  /\ \E v \in Vector, t \in Nat :
       /\ CommitOk(maps[c], v, t)
       /\ maps'[c] = Advanced(maps[c], v)
       /\ accepted'[c] = Append(accepted[c], v)

Effect(c) == Untouched(c) \/ Killed(c) \/ Issued(c) \/ Relimited(c) \/ Used(c)

(* store.get, seen from any credential, does nothing or deletes it.         *)
LEMMA GetEffect ==
  ASSUME TypeOK, UnissuedUnused, NEW d \in ClientId,
         maps' = AfterGet(d), UNCHANGED <<issued, accepted>>,
         NEW c \in ClientId
  PROVE  Effect(c)
  <1>1. maps'[c] = maps[c] \/ (maps'[c] = NoMap /\ maps[c] # NoMap)
    BY DEF AfterGet, TypeOK
  <1> QED
    BY <1>1 DEF Effect, Untouched, Killed, UnissuedUnused

LEMMA StepEffect ==
  ASSUME TypeOK, CounterInv, [SerialNext]_vars, NEW c \in ClientId
  PROVE  Effect(c)
  <1> USE DEF CounterInv
  <1>t. now \in Nat
    BY ServerAssumption DEF TypeOK
  <1>0. ASSUME UNCHANGED <<maps, accepted>> PROVE Effect(c)
    BY <1>0 DEF Effect, Untouched
  <1>1. ASSUME NEW r \in Requests, NEW d \in ClientId, VerifyLookup(r, d)
        PROVE  Effect(c)
    BY <1>1, GetEffect DEF VerifyLookup
  <1>2. ASSUME NEW r \in Requests, VerifyExpireSet(r)
        PROVE  Effect(c)
    <2>1. /\ req[r].client \in ClientId /\ req[r].map \in Map
          /\ req[r].client \in issued /\ req[r].map.status = "expired"
      BY <1>2 DEF VerifyExpireSet, TypeOK, ReqState, Idle, CopiesIssued, WriteBackTerminal
    <2>2. maps'[c] = maps[c] \/ (c = req[r].client /\ maps'[c] = req[r].map)
      BY <1>2, <2>1, SetFacts DEF VerifyExpireSet
    <2> QED
      BY <1>2, <2>1, <2>2 DEF VerifyExpireSet, Effect, Untouched, Killed, Terminal
  <1>3. ASSUME NEW r \in Requests, VerifyCommit(r)
        PROVE  Effect(c)
    <2> DEFINE d == req[r].client
               v == req[r].matched
               t == req[r].usedAt
    <2>1. d \in ClientId /\ v \in Vector /\ t \in Nat /\ d \in issued
      BY <1>3 DEF VerifyCommit, TypeOK, ReqState, Idle, CopiesIssued
    <2>2. CASE c # d \/ maps[d] = NoMap
      BY <1>3, <2>1, <2>2 DEF VerifyCommit, Effect, Untouched, TypeOK
    <2>3. CASE c = d /\ maps[d] # NoMap /\ CommitOk(maps[d], v, t)
      <3>1. /\ maps'[d] = commitValidationToMap(maps[d], v, t)
            /\ accepted'[d] = Append(accepted[d], v)
        BY <1>3, <2>1, <2>3 DEF VerifyCommit, TypeOK
      <3>2. maps'[d] = Advanced(maps[d], v)
        BY <2>3, <3>1 DEF commitValidationToMap
      <3>3. Live(d)
        BY <2>3 DEF Live, CommitOk
      <3> QED
        BY <2>1, <2>3, <3>1, <3>2, <3>3 DEF Effect, Used
    <2>4. CASE c = d /\ maps[d] # NoMap /\ ~CommitOk(maps[d], v, t)
      <3>1. maps[d] \in Map
        BY <2>1, <2>4 DEF TypeOK
      <3>2. /\ maps'[d] = commitValidationToMap(maps[d], v, t)
            /\ accepted'[d] = accepted[d]
        BY <1>3, <2>1, <2>4 DEF VerifyCommit, TypeOK
      <3>3. maps'[d] = maps[d] \/ maps'[d] = [maps[d] EXCEPT !.status = "expired"]
        BY <2>1, <2>4, <3>1, <3>2, CommitKeepsMap
      <3>4. CASE maps'[d] = maps[d]
        BY <2>4, <3>2, <3>4 DEF Effect, Untouched
      <3>5. CASE maps'[d] = [maps[d] EXCEPT !.status = "expired"]
        <4>1. "expired" \in Status
          BY DEF Status
        <4>2. /\ [maps[d] EXCEPT !.status = "expired"] \in Map
              /\ [maps[d] EXCEPT !.status = "expired"].status = "expired"
          BY <3>1, <4>1, StatusChange, Zenon
        <4>3. maps'[d] \in Map /\ maps'[d].status = "expired"
          BY <3>5, <4>2, Zenon
        <4>4. Killed(d)
          BY <2>1, <2>4, <3>2, <4>3 DEF Killed, Terminal
        <4> QED
          BY <2>4, <4>4 DEF Effect
      <3> QED
        BY <3>3, <3>4, <3>5
    <2> QED
      BY <2>2, <2>3, <2>4
  <1>4. ASSUME NEW a \in Admins, NEW d \in ClientId, NEW lc \in Lifecycle,
               ProvisionSet(a, d, lc)
        PROVE  Effect(c)
    <2>1. /\ NewMap(lc, now) \in Map /\ NewMap(lc, now).status = "active"
          /\ NewMap(lc, now).ctr = [s \in Seg |-> 0]
          /\ NewMap(lc, now).requestCount = 0
      BY <1>t, NewMapFacts
    <2>2. CASE LimitsOk(lc) /\ SetOk(d, NewMap(lc, now))
      <3>1. maps' = [maps EXCEPT ![d] = NewMap(lc, now)] /\ issued' = issued \cup {d}
            /\ accepted' = accepted /\ d \notin issued
        BY <1>4, <2>2 DEF ProvisionSet, AfterSet
      <3> QED
        BY <2>1, <3>1 DEF Effect, Untouched, Issued, TypeOK
    <2>3. CASE ~(LimitsOk(lc) /\ SetOk(d, NewMap(lc, now)))
      BY <1>0, <1>4, <2>3 DEF ProvisionSet
    <2> QED
      BY <2>2, <2>3
  <1>5. ASSUME NEW a \in Admins, NEW d \in ClientId, RevokeLookup(a, d)
        PROVE  Effect(c)
    BY <1>5, GetEffect DEF RevokeLookup
  <1>6. ASSUME NEW a \in Admins, RevokeDelete(a)
        PROVE  Effect(c)
    <2>1. adm[a].client \in ClientId /\ adm[a].client \in issued
      BY <1>6 DEF RevokeDelete, TypeOK, AdmState, Idle, CopiesIssued
    <2> QED
      BY <1>6, <2>1 DEF RevokeDelete, Effect, Untouched, Killed, TypeOK
  <1>7. ASSUME NEW a \in Admins, NEW d \in ClientId, ReplaceLookup(a, d)
        PROVE  Effect(c)
    BY <1>7, GetEffect DEF ReplaceLookup
  <1>8. ASSUME NEW a \in Admins, NEW new \in ClientId, NEW lc \in Lifecycle,
               ReplaceCommit(a, new, lc)
        PROVE  Effect(c)
    <2> DEFINE old == adm[a].client
    <2>1. old \in ClientId /\ old \in issued /\ new \notin issued
      BY <1>8 DEF ReplaceCommit, TypeOK, AdmState, Idle, CopiesIssued
    <2>2. /\ NewMap(lc, now) \in Map /\ NewMap(lc, now).status = "active"
          /\ NewMap(lc, now).ctr = [s \in Seg |-> 0]
          /\ NewMap(lc, now).requestCount = 0
      BY <1>t, NewMapFacts
    <2>3. CASE LimitsOk(lc) /\ ReplaceOk(old)
      <3>1. maps' = AfterReplace(old, new, NewMap(lc, now))
            /\ issued' = issued \cup {new} /\ accepted' = accepted
        BY <1>8, <2>3 DEF ReplaceCommit
      <3>2. /\ maps'[new] = NewMap(lc, now)
            /\ maps'[old] = NoMap \/ (maps'[old] \in Map /\ maps'[old].status = "revoked")
            /\ c \notin {old, new} => maps'[c] = maps[c]
        BY <2>1, <2>2, <2>3, <3>1, ReplaceFacts
      <3> QED
        BY <2>1, <2>2, <3>1, <3>2 DEF Effect, Untouched, Killed, Issued, Terminal
    <2>4. CASE ~(LimitsOk(lc) /\ ReplaceOk(old))
      BY <1>0, <1>8, <2>4 DEF ReplaceCommit
    <2> QED
      BY <2>3, <2>4
  <1>9. ASSUME NEW u \in Updaters, NEW d \in ClientId, UpdateLookup(u, d)
        PROVE  Effect(c)
    BY <1>9, GetEffect DEF UpdateLookup
  <1>10. ASSUME NEW u \in Updaters, NEW lc \in Lifecycle, NEW st \in Status,
                Unmoved(u), UpdateSet(u, lc, st)
         PROVE  Effect(c)
    <2> DEFINE d == upd[u].client
               m == upd[u].map
               n == [m EXCEPT !.limits = lc, !.status = st]
    <2>1. /\ d \in ClientId /\ m \in Map /\ d \in issued
          /\ m.status \notin Terminal /\ maps[d] = m
      BY <1>10 DEF Unmoved, TypeOK, UpdState, Idle, CopiesIssued, CopiesLive
    <2>2. /\ n \in Map /\ n.status = st /\ n.ctr = m.ctr
          /\ n.requestCount = m.requestCount
      BY <2>1, MapAssumption DEF Map
    <2>3. Live(d)
      BY <2>1, ServerAssumption DEF Live
    <2>4. \/ maps' = maps
          \/ maps' = AfterSet(d, n) /\ st \in {m.status} \cup Terminal
      BY <1>10 DEF UpdateSet
    <2>5. accepted' = accepted
      BY <1>10 DEF UpdateSet
    <2> HIDE DEF n, m, d
    <2>6. CASE maps' = maps
      BY <1>0, <2>5, <2>6
    <2>7. CASE maps' = AfterSet(d, n) /\ st \in {m.status} \cup Terminal
      <3>1. maps'[c] = maps[c] \/ (c = d /\ maps'[c] = n)
        BY <2>1, <2>2, <2>7, SetFacts
      <3>2. CASE c = d /\ maps'[c] = n /\ st \in Terminal
        BY <2>1, <2>2, <2>5, <3>2 DEF Effect, Killed
      <3>3. CASE c = d /\ maps'[c] = n /\ st = m.status
        BY <2>1, <2>2, <2>3, <2>5, <3>3 DEF Effect, Relimited
      <3>4. CASE maps'[c] = maps[c]
        BY <2>5, <3>4 DEF Effect, Untouched
      <3> QED
        BY <2>7, <3>1, <3>2, <3>3, <3>4
    <2> QED
      BY <2>4, <2>6, <2>7
  <1>11. ASSUME NEW d \in ClientId, GetKey(d)
         PROVE  Effect(c)
    BY <1>11, GetEffect DEF GetKey
  <1>12. CASE \/ \E r \in Requests : VerifyDenied(r) \/ VerifyAutoExpire(r)
              \/ \E r \in Requests, v \in Vector, w \in 0..MaxTime :
                   VerifyKey(r, [ctr |-> v, window |-> w])
              \/ \E a \in Admins : ProvisionList(a)
              \/ Tick \/ UNCHANGED vars
    BY <1>0, <1>12 DEF VerifyDenied, VerifyAutoExpire, VerifyKey, ProvisionList, Tick, vars
  <1> QED
    BY <1>1, <1>2, <1>3, <1>4, <1>5, <1>6, <1>7, <1>8, <1>9, <1>10, <1>11, <1>12
    DEF SerialNext, Quiet, Verify, Administer, Update
(* What calls hold across their awaits stays tied to issued credentials,    *)
(* and the auto-expiry copy stays terminal.                                 *)
LEMMA StepCopies ==
  ASSUME TypeOK, CounterInv, [SerialNext]_vars
  PROVE  CopiesIssued' /\ WriteBackTerminal' /\ CopiesLive'
  <1> USE DEF CounterInv, CopiesIssued, WriteBackTerminal, CopiesLive
  <1>g. \A c \in ClientId : Got(c) # NoMap => c \in issued
    BY GetFacts DEF UnissuedUnused
  <1>1. ASSUME NEW r \in Requests, NEW c \in ClientId, VerifyLookup(r, c)
        PROVE  CopiesIssued' /\ WriteBackTerminal' /\ CopiesLive'
    BY <1>1, <1>g DEF VerifyLookup, TypeOK, Idle
  <1>2. ASSUME NEW r \in Requests, VerifyAutoExpire(r)
        PROVE  CopiesIssued' /\ WriteBackTerminal' /\ CopiesLive'
    <2>1. req[r].map \in Map
      BY <1>2 DEF VerifyAutoExpire, TypeOK, ReqState, Idle
    <2>2. [req[r].map EXCEPT !.status = "expired"].status = "expired"
      BY <2>1, StatusChange DEF Status
    <2> QED
      BY <1>2, <2>2 DEF VerifyAutoExpire, TypeOK
  <1>3. ASSUME NEW r \in Requests, NEW v \in Vector, NEW w \in 0..MaxTime,
               VerifyKey(r, [ctr |-> v, window |-> w])
        PROVE  CopiesIssued' /\ WriteBackTerminal' /\ CopiesLive'
    BY <1>3 DEF VerifyKey, TypeOK, Idle
  <1>4. ASSUME NEW r \in Requests,
               VerifyDenied(r) \/ VerifyExpireSet(r) \/ VerifyCommit(r)
        PROVE  CopiesIssued' /\ WriteBackTerminal' /\ CopiesLive'
    BY <1>4 DEF VerifyDenied, VerifyExpireSet, VerifyCommit, TypeOK, Idle
  <1>5. ASSUME NEW a \in Admins, ProvisionList(a)
        PROVE  CopiesIssued' /\ WriteBackTerminal' /\ CopiesLive'
    BY <1>5 DEF ProvisionList, TypeOK
  <1>6. ASSUME NEW a \in Admins, NEW c \in ClientId, NEW lc \in Lifecycle,
               ProvisionSet(a, c, lc) \/ ReplaceCommit(a, c, lc)
        PROVE  CopiesIssued' /\ WriteBackTerminal' /\ CopiesLive'
    BY <1>6 DEF ProvisionSet, ReplaceCommit, TypeOK, Idle
  <1>7. ASSUME NEW a \in Admins, NEW c \in ClientId,
               RevokeLookup(a, c) \/ ReplaceLookup(a, c)
        PROVE  CopiesIssued' /\ WriteBackTerminal' /\ CopiesLive'
    BY <1>7, <1>g DEF RevokeLookup, ReplaceLookup, TypeOK, Idle
  <1>8. ASSUME NEW a \in Admins, RevokeDelete(a)
        PROVE  CopiesIssued' /\ WriteBackTerminal' /\ CopiesLive'
    BY <1>8 DEF RevokeDelete, TypeOK, Idle
  <1>9. ASSUME NEW u \in Updaters, NEW c \in ClientId, UpdateLookup(u, c)
        PROVE  CopiesIssued' /\ WriteBackTerminal' /\ CopiesLive'
    BY <1>9, <1>g DEF UpdateLookup, TypeOK, Idle
  <1>10. ASSUME NEW u \in Updaters, NEW lc \in Lifecycle, NEW st \in Status,
                UpdateSet(u, lc, st)
         PROVE  CopiesIssued' /\ WriteBackTerminal' /\ CopiesLive'
    BY <1>10 DEF UpdateSet, TypeOK, Idle
  <1>11. CASE (\E c \in ClientId : GetKey(c)) \/ Tick \/ UNCHANGED vars
    BY <1>11 DEF GetKey, Tick, vars
  <1> QED
    BY <1>1, <1>2, <1>3, <1>4, <1>5, <1>6, <1>7, <1>8, <1>9, <1>10, <1>11
    DEF SerialNext, Quiet, Verify, Administer, Update

(* Ids are never forgotten.                                                 *)
LEMMA StepIssued ==
  ASSUME [SerialNext]_vars
  PROVE  issued \subseteq issued'
  BY DEF SerialNext, Quiet, Verify, Administer, Update, vars,
     VerifyLookup, VerifyDenied, VerifyAutoExpire, VerifyKey, VerifyExpireSet,
     VerifyCommit, ProvisionList, ProvisionSet, RevokeLookup, RevokeDelete,
     ReplaceLookup, ReplaceCommit, UpdateLookup, UpdateSet, GetKey, Tick

(* The stored counters of a live map stay above its accepted ones, and the  *)
(* accepted ones stay in order.                                             *)
LEMMA StepCounters ==
  ASSUME TypeOK, TypeOK', CounterInv, [SerialNext]_vars
  PROVE  UnissuedUnused' /\ FloorAboveUses' /\ NoReplay'
  <1> USE DEF CounterInv
  <1>1. UnissuedUnused'
    <2> SUFFICES ASSUME NEW c \in ClientId, c \notin issued'
                 PROVE  maps'[c] = NoMap /\ accepted'[c] = << >>
      BY DEF UnissuedUnused
    <2>1. c \notin issued
      BY StepIssued
    <2>2. maps[c] = NoMap /\ accepted[c] = << >>
      BY <2>1 DEF UnissuedUnused
    <2> QED
      BY <2>1, <2>2, StepEffect
      DEF Effect, Untouched, Killed, Issued, Relimited, Used, Live
  <1>2. ASSUME NEW c \in ClientId
        PROVE  /\ Live(c)' => /\ maps'[c].requestCount = Len(accepted'[c])
                              /\ \A i \in DOMAIN accepted'[c] : \A s \in Seg :
                                   accepted'[c][i][s] < maps'[c].ctr[s]
               /\ \A i, j \in DOMAIN accepted'[c] :
                    i < j => \A s \in Seg : accepted'[c][i][s] < accepted'[c][j][s]
    <2>1. CASE Untouched(c)
      BY <2>1 DEF Untouched, Live, FloorAboveUses, NoReplay
    <2>2. CASE Killed(c)
      BY <2>2 DEF Killed, Live, NoReplay
    <2>3. CASE Issued(c)
      BY <2>3 DEF Issued, UnissuedUnused
    <2>4. CASE Relimited(c)
      BY <2>4 DEF Relimited, Live, FloorAboveUses, NoReplay
    <2>5. CASE Used(c)
      <3>1. PICK v \in Vector, t \in Nat :
              /\ CommitOk(maps[c], v, t)
              /\ maps'[c] = Advanced(maps[c], v)
              /\ accepted'[c] = Append(accepted[c], v)
        BY <2>5 DEF Used
      <3>2. Live(c) /\ maps[c] \in Map /\ maps[c].status \notin Terminal
        BY <2>5 DEF Used, Live, TypeOK
      <3>3. /\ maps'[c].ctr = [s \in Seg |-> v[s] + 1]
            /\ maps'[c].requestCount = maps[c].requestCount + 1
        BY <3>1, <3>2, AdvancedFacts
      <3>4. \A s \in Seg : /\ v[s] \in Nat /\ maps[c].ctr[s] \in Nat
                           /\ maps[c].ctr[s] <= v[s]
        BY <3>1, <3>2, MapAssumption DEF CommitOk, Usable, Vector, Map, Counter
      <3>5. accepted[c] \in Seq(Vector)
        BY DEF TypeOK
      <3>6. \A i \in DOMAIN accepted[c] : \A s \in Seg :
               accepted[c][i][s] \in Nat /\ accepted[c][i][s] < maps[c].ctr[s]
        BY <3>2, <3>5, MapAssumption DEF FloorAboveUses, Vector, Usable
      <3>7. maps[c].requestCount = Len(accepted[c])
        BY <3>2 DEF FloorAboveUses
      <3>8. /\ Len(accepted'[c]) = Len(accepted[c]) + 1
            /\ DOMAIN accepted'[c] = DOMAIN accepted[c] \cup {Len(accepted[c]) + 1}
            /\ accepted'[c][Len(accepted[c]) + 1] = v
            /\ \A i \in DOMAIN accepted[c] : accepted'[c][i] = accepted[c][i]
            /\ DOMAIN accepted[c] = 1..Len(accepted[c])
            /\ Len(accepted[c]) \in Nat
        BY <3>1, <3>5
      <3>9. \A i \in DOMAIN accepted'[c] : \A s \in Seg :
               accepted'[c][i][s] < maps'[c].ctr[s]
        <4> SUFFICES ASSUME NEW i \in DOMAIN accepted'[c], NEW s \in Seg
                     PROVE  accepted'[c][i][s] < maps'[c].ctr[s]
          OBVIOUS
        <4>1. maps'[c].ctr[s] = v[s] + 1
          BY <3>3
        <4>2. CASE i \in DOMAIN accepted[c]
          <5>1. accepted'[c][i] = accepted[c][i]
            BY <3>8, <4>2
          <5> QED
            BY <3>4, <3>6, <4>1, <4>2, <5>1
        <4>3. CASE i = Len(accepted[c]) + 1
          BY <3>4, <3>8, <4>1, <4>3
        <4> QED
          BY <3>8, <4>2, <4>3
      <3>10. ASSUME NEW i \in DOMAIN accepted'[c], NEW j \in DOMAIN accepted'[c],
                    i < j, NEW s \in Seg
             PROVE  accepted'[c][i][s] < accepted'[c][j][s]
        <4>1. i \in DOMAIN accepted[c]
          BY <3>8, <3>10
        <4>2. CASE j \in DOMAIN accepted[c]
          BY <3>8, <3>10, <4>1, <4>2 DEF NoReplay
        <4>3. CASE j = Len(accepted[c]) + 1
          BY <3>4, <3>6, <3>8, <4>1, <4>3
        <4> QED
          BY <3>8, <4>2, <4>3
      <3> QED
        BY <3>3, <3>7, <3>8, <3>9, <3>10
    <2> QED
      BY <2>1, <2>2, <2>3, <2>4, <2>5, StepEffect DEF Effect
  <1> QED
    BY <1>1, <1>2 DEF FloorAboveUses, NoReplay

-----------------------------------------------------------------------------
(* The inductive invariant holds as long as no metadata update is lost.     *)
THEOREM CounterInvariant == SerialSpec => [](TypeOK /\ CounterInv)
  <1>1. Init => TypeOK /\ CounterInv
    <2> SUFFICES ASSUME Init PROVE CounterInv
      BY InitTypeOK
    <2> QED
      BY DEF Init, CounterInv, CopiesIssued, WriteBackTerminal, CopiesLive,
             UnissuedUnused, FloorAboveUses, NoReplay, Live, Idle
  <1>2. TypeOK /\ CounterInv /\ [SerialNext]_vars => (TypeOK /\ CounterInv)'
    <2> SUFFICES ASSUME TypeOK, CounterInv, [SerialNext]_vars
                 PROVE  TypeOK' /\ CounterInv'
      OBVIOUS
    <2>1. [Next]_vars
      BY DEF SerialNext, Next
    <2>2. TypeOK'
      BY <2>1, NextTypeOK
    <2> QED
      BY <2>2, StepCopies, StepCounters DEF CounterInv
  <1> QED
    BY <1>1, <1>2, PTL DEF SerialSpec

(* verifyTSKRequest accepts no counter twice, for any number of segments,   *)
(* concurrent requests and ceremonies, unless a metadata update is lost.    *)
THEOREM NoReplayHolds == SerialSpec => []NoReplay
  <1>1. TypeOK /\ CounterInv => NoReplay
    BY DEF CounterInv
  <1> QED
    BY <1>1, CounterInvariant, PTL

(* A dead credential is never revived, unless a metadata update is lost.    *)
THEOREM DeadStaysDeadHolds == SerialSpec => DeadStaysDead
  <1>1. TypeOK /\ CounterInv /\ [SerialNext]_vars
          => [\A c \in issued : ~Live(c) => ~Live(c)']_vars
    <2> SUFFICES ASSUME TypeOK, CounterInv, [SerialNext]_vars,
                        NEW c \in issued, ~Live(c)
                 PROVE  ~Live(c)'
      OBVIOUS
    <2>1. c \in ClientId
      BY DEF TypeOK
    <2> QED
      BY <2>1, StepEffect
      DEF Effect, Untouched, Killed, Issued, Relimited, Used, Live
  <1> QED
    BY <1>1, CounterInvariant, PTL DEF SerialSpec, DeadStaysDead

(* The usage cap is never exceeded, however many requests race for the last *)
(* use, unless a metadata update is lost.                                   *)
THEOREM UsageCapHolds == SerialSpec => UsageCap
  <1>1. TypeOK /\ CounterInv /\ [SerialNext]_vars
          => [\A c \in ClientId :
                (accepted'[c] # accepted[c] /\ maps[c].limits.maxRequests > 0)
                  => Len(accepted'[c]) <= maps[c].limits.maxRequests]_vars
    <2> SUFFICES ASSUME TypeOK, CounterInv, [SerialNext]_vars, NEW c \in ClientId,
                        accepted'[c] # accepted[c], maps[c].limits.maxRequests > 0
                 PROVE  Len(accepted'[c]) <= maps[c].limits.maxRequests
      OBVIOUS
    <2>1. Used(c)
      BY StepEffect DEF Effect, Untouched, Killed, Issued, Relimited
    <2>2. PICK v \in Vector, t \in Nat :
            CommitOk(maps[c], v, t) /\ accepted'[c] = Append(accepted[c], v)
      BY <2>1 DEF Used
    <2>3. /\ maps[c].requestCount = Len(accepted[c])
          /\ maps[c].requestCount \in Nat
          /\ maps[c].limits.maxRequests \in Nat
      BY <2>1 DEF Used, CounterInv, FloorAboveUses, Live, TypeOK, Map, Limits
    <2>4. maps[c].requestCount < maps[c].limits.maxRequests
      BY <2>2, <2>3 DEF CommitOk, CapReached
    <2>5. Len(accepted'[c]) = Len(accepted[c]) + 1
      BY <2>2 DEF TypeOK
    <2> QED
      BY <2>3, <2>4, <2>5
  <1> QED
    BY <1>1, CounterInvariant, PTL DEF SerialSpec, UsageCap
-----------------------------------------------------------------------------
(* Refinement: TskServer implements OneTimeCredential. *)

Zeros == [s \in Seg |-> 0]

(* The three phases of a credential, read off the store.                    *)
LEMMA CredCases ==
  ASSUME NEW c \in ClientId
  PROVE  /\ c \notin issued => CredOf(c) = [phase |-> "unborn", floor |-> Zeros]
         /\ c \in issued /\ Live(c) => CredOf(c) = [phase |-> "live", floor |-> maps[c].ctr]
         /\ c \in issued /\ ~Live(c) => CredOf(c) = [phase |-> "dead", floor |-> Zeros]
  BY DEF CredOf, Zeros

LEMMA CredCasesPrimed ==
  ASSUME NEW c \in ClientId
  PROVE  /\ c \notin issued' => CredOf(c)' = [phase |-> "unborn", floor |-> Zeros]
         /\ c \in issued' /\ Live(c)' => CredOf(c)' = [phase |-> "live", floor |-> maps'[c].ctr]
         /\ c \in issued' /\ ~Live(c)' => CredOf(c)' = [phase |-> "dead", floor |-> Zeros]
  BY DEF CredOf, Zeros

(* A step that touches one credential is a step of the abstract one.        *)
LEMMA OneTarget ==
  ASSUME TypeOK, CounterInv, NEW d \in ClientId, Effect(d),
         issued \subseteq issued', d \in issued' => d \in issued \/ Issued(d),
         \A c \in ClientId \ {d} :
            CredOf(c)' = CredOf(c) /\ accepted'[c] = accepted[c],
         accepted' \in [ClientId -> Seq(Vector)]
  PROVE  [Promise!AbstractNext]_(Promise!abstractVars)
  <1> DEFINE cred == [c \in ClientId |-> CredOf(c)]
             credp == [c \in ClientId |-> CredOf(c)']
  <1>a. accepted \in [ClientId -> Seq(Vector)]
    BY DEF TypeOK
  <1>i. Live(d) => d \in issued
    BY DEF CounterInv, UnissuedUnused, Live
  <1>1. CASE CredOf(d)' = CredOf(d) /\ accepted'[d] = accepted[d]
    <2>1. credp = cred
      BY <1>1
    <2>2. accepted' = accepted
      BY <1>1, <1>a
    <2> QED
      BY <2>1, <2>2 DEF Promise!abstractVars
  <1>2. CASE Untouched(d)
    <2>1. CredOf(d)' = CredOf(d)
      <3>1. d \in issued' <=> d \in issued
        BY <1>2, ServerAssumption DEF Untouched, Issued, CounterInv, UnissuedUnused
      <3>2. Live(d)' <=> Live(d)
        BY <1>2 DEF Untouched, Live
      <3> QED
        BY <1>2, <3>1, <3>2, CredCases, CredCasesPrimed DEF Untouched
    <2> QED
      BY <1>1, <1>2, <2>1 DEF Untouched
  <1>3. CASE Relimited(d)
    <2>1. CredOf(d)' = CredOf(d)
      <3>1. Live(d)' /\ Live(d) /\ d \in issued /\ d \in issued'
        BY <1>3, <1>i, ServerAssumption DEF Relimited, Live
      <3> QED
        BY <1>3, <3>1, CredCases, CredCasesPrimed DEF Relimited
    <2> QED
      BY <1>1, <1>3, <2>1 DEF Relimited
  <1>4. CASE Killed(d)
    <2>1. ~Live(d)' /\ d \in issued /\ d \in issued'
      BY <1>4 DEF Killed, Live
    <2>2. CredOf(d)' = [phase |-> "dead", floor |-> Zeros]
      BY <2>1, CredCasesPrimed
    <2>3. CASE Live(d)
      <3>1. cred[d].phase = "live"
        BY <2>1, <2>3, CredCases
      <3>2. credp = [cred EXCEPT ![d] = [phase |-> "dead", floor |-> Zeros]]
        BY <2>2
      <3>3. accepted' = accepted
        BY <1>4, <1>a DEF Killed
      <3>4. Promise!Retire(d)
        BY <3>1, <3>2, <3>3 DEF Promise!Retire, Promise!Dead, Promise!Zero, Zeros
      <3> QED
        BY <3>4 DEF Promise!AbstractNext
    <2>4. CASE ~Live(d)
      BY <1>1, <1>4, <2>1, <2>2, <2>4, CredCases DEF Killed
    <2> QED
      BY <2>3, <2>4
  <1>5. CASE Issued(d)
    <2>1. /\ Live(d)' /\ d \notin issued /\ d \in issued' /\ maps'[d].ctr = Zeros
      BY <1>5, ServerAssumption DEF Issued, Live, Terminal, Zeros
    <2>2. /\ CredOf(d) = [phase |-> "unborn", floor |-> Zeros]
          /\ CredOf(d)' = [phase |-> "live", floor |-> Zeros]
      BY <2>1, CredCases, CredCasesPrimed
    <2>3. credp = [cred EXCEPT ![d] = [phase |-> "live", floor |-> Zeros]]
      BY <2>2
    <2>4. accepted' = accepted
      BY <1>5, <1>a DEF Issued
    <2>5. Promise!Issue(d)
      BY <2>2, <2>3, <2>4 DEF Promise!Issue, Promise!Unborn, Promise!Alive, Promise!Zero, Zeros
    <2> QED
      BY <2>5 DEF Promise!AbstractNext
  <1>6. CASE Used(d)
    <2>1. PICK v \in Vector, t \in Nat :
            /\ CommitOk(maps[d], v, t)
            /\ maps'[d] = Advanced(maps[d], v)
            /\ accepted'[d] = Append(accepted[d], v)
      BY <1>6 DEF Used
    <2>2. /\ Live(d) /\ maps[d] \in Map /\ maps[d].status \notin Terminal
          /\ d \in issued /\ d \in issued'
      BY <1>6, <1>i DEF Used, Live, TypeOK
    <2> DEFINE f == [s \in Seg |-> v[s] + 1]
               dies == \E s \in Seg : v[s] + 1 = MaxCounter
    <2>3. maps'[d] \in Map /\ maps'[d].ctr = f /\ (Live(d)' <=> ~dies)
      BY <2>1, <2>2, AdvancedFacts, ServerAssumption DEF Live
    <2>4. CredOf(d) = [phase |-> "live", floor |-> maps[d].ctr]
      BY <2>2, CredCases
    <2>5. CredOf(d)' = IF dies THEN [phase |-> "dead", floor |-> Zeros]
                       ELSE [phase |-> "live", floor |-> f]
      BY <2>2, <2>3, CredCasesPrimed
    <2>6. \A s \in Seg : v[s] >= maps[d].ctr[s]
      BY <2>1, <2>2, MapAssumption DEF CommitOk, Map, Counter, Vector, Usable
    <2>7. credp = [cred EXCEPT ![d] = IF dies THEN [phase |-> "dead", floor |-> Zeros]
                                      ELSE [phase |-> "live", floor |-> f]]
      BY <2>5
    <2>8. accepted' = [accepted EXCEPT ![d] = Append(accepted[d], v)]
      BY <2>1, <1>a
    <2>9. Promise!Use(d, v)
      BY <2>4, <2>6, <2>7, <2>8
      DEF Promise!Use, Promise!Dead, Promise!Alive, Promise!Zero, Zeros
    <2>10. v \in [Seg -> 0..(MaxCounter - 1)]
      BY DEF Vector, Usable
    <2> QED
      BY <2>9, <2>10 DEF Promise!AbstractNext
  <1> QED
    BY <1>2, <1>3, <1>4, <1>5, <1>6 DEF Effect

(* A credential whose map, id and history a step leaves alone looks the     *)
(* same afterwards.                                                         *)
LEMMA SameCred ==
  ASSUME NEW c \in ClientId, maps'[c] = maps[c], (c \in issued') <=> (c \in issued)
  PROVE  CredOf(c)' = CredOf(c)
  <1>1. Live(c)' <=> Live(c)
    BY DEF Live
  <1> QED
    BY <1>1, CredCases, CredCasesPrimed

(* A step that changes at most one entry of the store and issues at most    *)
(* that id.                                                                 *)
LEMMA SingleStep ==
  ASSUME TypeOK, TypeOK', CounterInv, [SerialNext]_vars, NEW d \in ClientId,
         \A c \in ClientId \ {d} : maps'[c] = maps[c] /\ accepted'[c] = accepted[c],
         issued' = issued \/ (issued' = issued \cup {d} /\ Issued(d))
  PROVE  [Promise!AbstractNext]_(Promise!abstractVars)
  <1>1. \A c \in ClientId \ {d} : CredOf(c)' = CredOf(c)
    BY SameCred
  <1>2. Effect(d)
    BY StepEffect
  <1>3. issued \subseteq issued'
    BY StepIssued
  <1>4. accepted' \in [ClientId -> Seq(Vector)]
    BY DEF TypeOK
  <1> QED
    BY <1>1, <1>2, <1>3, <1>4, OneTarget

(* Every step of the server is a step of the promise, or invisible.         *)
LEMMA StepRefines ==
  ASSUME TypeOK, TypeOK', CounterInv, [SerialNext]_vars
  PROVE  [Promise!AbstractNext]_(Promise!abstractVars)
  <1> DEFINE Goal == [Promise!AbstractNext]_(Promise!abstractVars)
  <1>t. now \in Nat
    BY ServerAssumption DEF TypeOK
  <1>0. ASSUME UNCHANGED <<maps, issued, accepted>> PROVE Goal
    <2>1. \A c \in ClientId : CredOf(c)' = CredOf(c)
      BY <1>0, SameCred
    <2>2. [c \in ClientId |-> CredOf(c)'] = [c \in ClientId |-> CredOf(c)]
      BY <2>1
    <2> QED
      BY <1>0, <2>2 DEF Promise!abstractVars
  <1>g. ASSUME NEW d \in ClientId, maps' = AfterGet(d), UNCHANGED <<issued, accepted>>
        PROVE  Goal
    <2>1. \A c \in ClientId \ {d} : maps'[c] = maps[c]
      BY <1>g DEF AfterGet, TypeOK
    <2> QED
      BY <1>g, <2>1, SingleStep
  <1>1. ASSUME NEW r \in Requests, NEW d \in ClientId, VerifyLookup(r, d) PROVE Goal
    BY <1>1, <1>g DEF VerifyLookup
  <1>2. ASSUME NEW r \in Requests, VerifyExpireSet(r) PROVE Goal
    <2>1. req[r].client \in ClientId
      BY <1>2 DEF VerifyExpireSet, TypeOK, ReqState, Idle
    <2>2. \A c \in ClientId \ {req[r].client} : maps'[c] = maps[c]
      BY <1>2, <2>1 DEF VerifyExpireSet, AfterSet, TypeOK
    <2> QED
      BY <1>2, <2>1, <2>2, SingleStep DEF VerifyExpireSet
  <1>3. ASSUME NEW r \in Requests, VerifyCommit(r) PROVE Goal
    <2>1. req[r].client \in ClientId
      BY <1>3 DEF VerifyCommit, TypeOK, ReqState, Idle
    <2>2. \A c \in ClientId \ {req[r].client} :
             maps'[c] = maps[c] /\ accepted'[c] = accepted[c]
      BY <1>3, <2>1 DEF VerifyCommit, TypeOK
    <2> QED
      BY <1>3, <2>1, <2>2, SingleStep DEF VerifyCommit
  <1>4. ASSUME NEW a \in Admins, NEW d \in ClientId, NEW lc \in Lifecycle,
               ProvisionSet(a, d, lc)
        PROVE  Goal
    <2>1. CASE LimitsOk(lc) /\ SetOk(d, NewMap(lc, now))
      <3>1. /\ maps' = [maps EXCEPT ![d] = NewMap(lc, now)]
            /\ issued' = issued \cup {d} /\ accepted' = accepted /\ d \notin issued
        BY <1>4, <2>1 DEF ProvisionSet, AfterSet
      <3>2. Issued(d)
        BY <1>t, <3>1, NewMapFacts DEF Issued, TypeOK
      <3>3. \A c \in ClientId \ {d} : maps'[c] = maps[c]
        BY <3>1 DEF TypeOK
      <3> QED
        BY <3>1, <3>2, <3>3, SingleStep
    <2>2. CASE ~(LimitsOk(lc) /\ SetOk(d, NewMap(lc, now)))
      BY <1>0, <1>4, <2>2 DEF ProvisionSet
    <2> QED
      BY <2>1, <2>2
  <1>5. ASSUME NEW a \in Admins, NEW d \in ClientId,
               RevokeLookup(a, d) \/ ReplaceLookup(a, d)
        PROVE  Goal
    BY <1>5, <1>g DEF RevokeLookup, ReplaceLookup
  <1>6. ASSUME NEW a \in Admins, RevokeDelete(a) PROVE Goal
    <2>1. adm[a].client \in ClientId
      BY <1>6 DEF RevokeDelete, TypeOK, AdmState, Idle
    <2>2. \A c \in ClientId \ {adm[a].client} : maps'[c] = maps[c]
      BY <1>6, <2>1 DEF RevokeDelete, TypeOK
    <2> QED
      BY <1>6, <2>1, <2>2, SingleStep DEF RevokeDelete
  <1>7. ASSUME NEW a \in Admins, NEW new \in ClientId, NEW lc \in Lifecycle,
               ReplaceCommit(a, new, lc)
        PROVE  Goal
    <2>x. adm[a].client \in ClientId
      <3>1. adm[a].pc = "replace"
        BY <1>7 DEF ReplaceCommit
      <3>2. adm[a] \in AdmState
        BY DEF TypeOK
      <3> QED
        BY <3>1, <3>2 DEF AdmState, Idle
    <2>0. PICK old \in ClientId : old = adm[a].client
      BY <2>x
    <2> DEFINE cred == [c \in ClientId |-> CredOf(c)]
               dead == [phase |-> "dead", floor |-> Zeros]
               born == [phase |-> "live", floor |-> Zeros]
    <2>1. old \in ClientId /\ old \in issued /\ new \notin issued /\ old # new
      BY <1>7, <2>0 DEF ReplaceCommit, CounterInv, CopiesIssued
    <2>2. /\ NewMap(lc, now) \in Map /\ NewMap(lc, now).status = "active"
          /\ NewMap(lc, now).ctr = Zeros
      BY <1>t, NewMapFacts DEF Zeros
    <2>3. CASE LimitsOk(lc) /\ ReplaceOk(old)
      <3>1. /\ maps' = AfterReplace(old, new, NewMap(lc, now))
            /\ issued' = issued \cup {new} /\ accepted' = accepted
        BY <1>7, <2>0, <2>3 DEF ReplaceCommit
      <3>2. /\ maps'[new] = NewMap(lc, now)
            /\ maps'[old] = NoMap \/ (maps'[old] \in Map /\ maps'[old].status = "revoked")
            /\ \A c \in ClientId : c \notin {old, new} => maps'[c] = maps[c]
        BY <2>1, <2>2, <2>3, <3>1, ReplaceFacts
      <3>3. Live(old) /\ ~Live(old)' /\ Live(new)'
        BY <2>2, <2>3, <3>2, ServerAssumption DEF Live, ReplaceOk, Terminal
      <3>4. /\ cred[old].phase = "live"
            /\ cred[new] = [phase |-> "unborn", floor |-> Zeros]
        BY <2>1, <3>3, CredCases
      <3>5. CredOf(old)' = dead /\ CredOf(new)' = born
        BY <2>1, <2>2, <3>1, <3>2, <3>3, CredCasesPrimed
      <3>6. \A c \in ClientId \ {old, new} : CredOf(c)' = CredOf(c)
        BY <3>1, <3>2, SameCred
      <3>7. [c \in ClientId |-> CredOf(c)'] = [cred EXCEPT ![old] = dead, ![new] = born]
        BY <2>1, <3>5, <3>6
      <3>8. Promise!Rotate(old, new)
        BY <3>1, <3>4, <3>7
        DEF Promise!Rotate, Promise!Unborn, Promise!Dead, Promise!Alive, Promise!Zero, Zeros
      <3> QED
        BY <2>1, <3>8 DEF Promise!AbstractNext
    <2>4. CASE ~(LimitsOk(lc) /\ ReplaceOk(old))
      BY <1>0, <1>7, <2>0, <2>4 DEF ReplaceCommit
    <2> QED
      BY <2>3, <2>4
  <1>8. ASSUME NEW u \in Updaters, NEW d \in ClientId, UpdateLookup(u, d) PROVE Goal
    BY <1>8, <1>g DEF UpdateLookup
  <1>9. ASSUME NEW u \in Updaters, NEW lc \in Lifecycle, NEW st \in Status,
               UpdateSet(u, lc, st)
        PROVE  Goal
    <2>1. upd[u].client \in ClientId
      BY <1>9 DEF UpdateSet, TypeOK, UpdState, Idle
    <2>2. \A c \in ClientId \ {upd[u].client} : maps'[c] = maps[c]
      BY <1>9, <2>1 DEF UpdateSet, AfterSet, TypeOK
    <2> QED
      BY <1>9, <2>1, <2>2, SingleStep DEF UpdateSet
  <1>10. ASSUME NEW d \in ClientId, GetKey(d) PROVE Goal
    BY <1>10, <1>g DEF GetKey
  <1>11. CASE \/ \E r \in Requests : VerifyDenied(r) \/ VerifyAutoExpire(r)
              \/ \E r \in Requests, v \in Vector, w \in 0..MaxTime :
                   VerifyKey(r, [ctr |-> v, window |-> w])
              \/ \E a \in Admins : ProvisionList(a)
              \/ Tick \/ UNCHANGED vars
    BY <1>0, <1>11 DEF VerifyDenied, VerifyAutoExpire, VerifyKey, ProvisionList, Tick, vars
  <1> QED
    BY <1>1, <1>2, <1>3, <1>4, <1>5, <1>6, <1>7, <1>8, <1>9, <1>10, <1>11
    DEF SerialNext, Quiet, Verify, Administer, Update

(* The server implements OneTimeCredential: issue once, spend each counter  *)
(* at most once and in order, never come back from the dead.                *)
THEOREM PromiseKept == SerialSpec => KeepsPromise
  <1>1. Init => Promise!AbstractInit
    <2> SUFFICES ASSUME Init PROVE Promise!AbstractInit
      OBVIOUS
    <2>1. \A c \in ClientId : CredOf(c) = [phase |-> "unborn", floor |-> Zeros]
      BY CredCases DEF Init
    <2> QED
      BY <2>1 DEF Init, Promise!AbstractInit, Promise!Unborn, Promise!Zero, Zeros
  <1>2. /\ TypeOK /\ CounterInv /\ (TypeOK /\ CounterInv)' /\ [SerialNext]_vars
        => [Promise!AbstractNext]_(Promise!abstractVars)
    BY StepRefines
  <1> QED
    BY <1>1, <1>2, CounterInvariant, PTL DEF SerialSpec, KeepsPromise, Promise!AbstractSpec
-----------------------------------------------------------------------------
(* What holds even when metadata updates are lost: the store itself. *)

(* Every write to the store is one of these: a get, a set that did not      *)
(* throw, a delete, a commit, or a replacement.                             *)
StoreWrite ==
  \/ maps' = maps
  \/ \E c \in ClientId : maps' = [maps EXCEPT ![c] = NoMap]
  \/ \E c \in ClientId, m \in Map :
       SetOk(c, m) /\ maps' = [maps EXCEPT ![c] = m]
  \/ \E c \in ClientId, v \in Vector, t \in Nat :
       /\ maps[c] # NoMap
       /\ maps' = [maps EXCEPT ![c] = commitValidationToMap(maps[c], v, t)]
  \/ \E old \in ClientId, new \in ClientId, lc \in Lifecycle, t \in Nat :
       ReplaceOk(old) /\ maps' = AfterReplace(old, new, NewMap(lc, t))

LEMMA StepWrites ==
  ASSUME TypeOK, [Next]_vars
  PROVE  StoreWrite
  <1>t. now \in Nat
    BY ServerAssumption DEF TypeOK
  <1>s. ASSUME NEW c \in ClientId, NEW m \in Map, maps' = AfterSet(c, m) PROVE StoreWrite
    BY <1>s DEF AfterSet, StoreWrite
  <1>g. ASSUME NEW c \in ClientId, maps' = AfterGet(c) PROVE StoreWrite
    BY <1>g DEF AfterGet, StoreWrite
  <1>0. ASSUME maps' = maps PROVE StoreWrite
    BY <1>0 DEF StoreWrite
  <1>1. ASSUME NEW r \in Requests, VerifyExpireSet(r) PROVE StoreWrite
    <2>1. req[r].client \in ClientId /\ req[r].map \in Map
      BY <1>1 DEF VerifyExpireSet, TypeOK, ReqState, Idle
    <2> QED
      BY <1>1, <1>s, <2>1 DEF VerifyExpireSet
  <1>2. ASSUME NEW r \in Requests, VerifyCommit(r) PROVE StoreWrite
    <2>1. /\ req[r].client \in ClientId /\ req[r].matched \in Vector
          /\ req[r].usedAt \in Nat
      BY <1>2 DEF VerifyCommit, TypeOK, ReqState, Idle
    <2> QED
      BY <1>2, <2>1 DEF VerifyCommit, StoreWrite
  <1>3. ASSUME NEW a \in Admins, NEW c \in ClientId, NEW lc \in Lifecycle,
               ProvisionSet(a, c, lc)
        PROVE  StoreWrite
    BY <1>3, <1>t, <1>s, <1>0, NewMapFacts DEF ProvisionSet
  <1>4. ASSUME NEW a \in Admins, RevokeDelete(a) PROVE StoreWrite
    <2>1. adm[a].client \in ClientId
      BY <1>4 DEF RevokeDelete, TypeOK, AdmState, Idle
    <2> QED
      BY <1>4, <2>1 DEF RevokeDelete, StoreWrite
  <1>5. ASSUME NEW a \in Admins, NEW c \in ClientId, NEW lc \in Lifecycle,
               ReplaceCommit(a, c, lc)
        PROVE  StoreWrite
    <2>1. adm[a].client \in ClientId
      BY <1>5 DEF ReplaceCommit, TypeOK, AdmState, Idle
    <2> QED
      BY <1>5, <1>t, <2>1 DEF ReplaceCommit, StoreWrite
  <1>6. ASSUME NEW u \in Updaters, NEW lc \in Lifecycle, NEW st \in Status,
               UpdateSet(u, lc, st)
        PROVE  StoreWrite
    <2>1. upd[u].client \in ClientId /\ upd[u].map \in Map
      BY <1>6 DEF UpdateSet, TypeOK, UpdState, Idle
    <2>2. [upd[u].map EXCEPT !.limits = lc, !.status = st] \in Map
      BY <2>1, MapAssumption DEF Map
    <2> QED
      BY <1>6, <1>s, <1>0, <2>1, <2>2 DEF UpdateSet
  <1>7. CASE \/ \E r \in Requests : \E c \in ClientId : VerifyLookup(r, c)
             \/ \E a \in Admins : \E c \in ClientId : RevokeLookup(a, c) \/ ReplaceLookup(a, c)
             \/ \E u \in Updaters, c \in ClientId : UpdateLookup(u, c)
             \/ \E c \in ClientId : GetKey(c)
    BY <1>7, <1>g DEF VerifyLookup, RevokeLookup, ReplaceLookup, UpdateLookup, GetKey
  <1>8. CASE \/ \E r \in Requests : VerifyDenied(r) \/ VerifyAutoExpire(r)
             \/ \E r \in Requests, v \in Vector, w \in 0..MaxTime :
                  VerifyKey(r, [ctr |-> v, window |-> w])
             \/ \E a \in Admins : ProvisionList(a)
             \/ Tick \/ UNCHANGED vars
    BY <1>0, <1>8 DEF VerifyDenied, VerifyAutoExpire, VerifyKey, ProvisionList, Tick, vars
  <1> QED
    BY <1>1, <1>2, <1>3, <1>4, <1>5, <1>6, <1>7, <1>8
    DEF Next, Quiet, Verify, Administer, Update

(* No interleaving of handlers, lost updates included, stores a map that    *)
(* assertTumblerMapCounterState rejects.                                    *)
THEOREM StoreConsistent == Spec => []StoredMapsConsistent
  <1>1. Init => StoredMapsConsistent
    BY DEF Init, StoredMapsConsistent, Present
  <1>2. TypeOK /\ StoredMapsConsistent /\ [Next]_vars => StoredMapsConsistent'
    <2> SUFFICES ASSUME TypeOK, StoredMapsConsistent, [Next]_vars,
                        NEW d \in ClientId, maps'[d] # NoMap
                 PROVE  CounterStateOk(maps'[d])
      BY DEF StoredMapsConsistent, Present
    <2>0. maps[d] # NoMap => maps[d] \in Map /\ CounterStateOk(maps[d])
      BY DEF StoredMapsConsistent, Present, TypeOK
    <2>1. CASE maps' = maps \/ \E c \in ClientId : maps' = [maps EXCEPT ![c] = NoMap]
      BY <2>0, <2>1 DEF TypeOK
    <2>2. CASE \E c \in ClientId, m \in Map :
                 SetOk(c, m) /\ maps' = [maps EXCEPT ![c] = m]
      BY <2>0, <2>2 DEF SetOk, TypeOK
    <2>3. ASSUME NEW c \in ClientId, NEW v \in Vector, NEW t \in Nat, maps[c] # NoMap,
                 maps' = [maps EXCEPT ![c] = commitValidationToMap(maps[c], v, t)]
          PROVE  CounterStateOk(maps'[d])
      BY <2>0, <2>3, CommitKeepsMap DEF TypeOK
    <2>4. ASSUME NEW old \in ClientId, NEW new \in ClientId, NEW lc \in Lifecycle,
                 NEW t \in Nat, ReplaceOk(old),
                 maps' = AfterReplace(old, new, NewMap(lc, t))
          PROVE  CounterStateOk(maps'[d])
      <3>1. CounterStateOk(NewMap(lc, t))
        BY NewMapFacts
      <3>2. CASE d = new
        BY <2>4, <3>1, <3>2 DEF AfterReplace, TypeOK
      <3>3. CASE d = old /\ d # new
        <4>1. maps'[d] = [maps[old] EXCEPT !.status = "revoked"]
          BY <2>4, <3>3 DEF AfterReplace, TypeOK
        <4>2. maps[old] \in Map
          BY <2>4 DEF ReplaceOk, TypeOK
        <4> QED
          BY <4>1, <4>2, StatusChange DEF CounterStateOk, Status, Terminal
      <3>4. CASE d # old /\ d # new
        BY <2>0, <2>4, <3>4 DEF AfterReplace, TypeOK
      <3> QED
        BY <3>2, <3>3, <3>4
    <2> QED
      BY <2>1, <2>2, <2>3, <2>4, StepWrites DEF StoreWrite
  <1> QED
    BY <1>1, <1>2, TypeCorrect, PTL DEF Spec

(* The store never exceeds maxEntries, lost updates, resurrected entries    *)
(* and replacements at full capacity included.                              *)
THEOREM CapacityHolds == Spec => []CapacityBound
  <1>1. Init => CapacityBound
    <2> SUFFICES ASSUME Init PROVE CapacityBound
      OBVIOUS
    <2>1. Present = {}
      BY DEF Init, Present
    <2> QED
      BY <2>1, FS_EmptySet, ServerAssumption DEF CapacityBound
  <1>2. TypeOK /\ CapacityBound /\ [Next]_vars => CapacityBound'
    <2> SUFFICES ASSUME TypeOK, CapacityBound, [Next]_vars
                 PROVE  Cardinality(Present') <= MaxEntries
      BY DEF CapacityBound, Present
    <2>f. /\ IsFiniteSet(Present) /\ Cardinality(Present) \in Nat
          /\ Cardinality(Present) <= MaxEntries /\ MaxEntries \in Nat
      BY ServerAssumption, FS_Subset, FS_CardinalityType DEF Present, CapacityBound
    <2>s. ASSUME NEW S, IsFiniteSet(S), Cardinality(S) <= MaxEntries, Present' \subseteq S
          PROVE  Cardinality(Present') <= MaxEntries
      <3>1. /\ Cardinality(Present') <= Cardinality(S)
            /\ Cardinality(Present') \in Nat /\ Cardinality(S) \in Nat
        BY <2>s, FS_Subset, FS_CardinalityType
      <3> QED
        BY <2>s, <2>f, <3>1
    <2>a. ASSUME NEW c, Cardinality(Present) < MaxEntries, Present' \subseteq Present \cup {c}
          PROVE  Cardinality(Present') <= MaxEntries
      <3>1. /\ IsFiniteSet(Present \cup {c})
            /\ \/ Cardinality(Present \cup {c}) = Cardinality(Present)
               \/ Cardinality(Present \cup {c}) = Cardinality(Present) + 1
        BY <2>f, FS_AddElement
      <3> QED
        BY <2>a, <2>f, <2>s, <3>1
    <2>1. CASE maps' = maps \/ \E c \in ClientId : maps' = [maps EXCEPT ![c] = NoMap]
      <3>1. Present' \subseteq Present
        BY <2>1 DEF Present, TypeOK
      <3> QED
        BY <2>f, <2>s, <3>1
    <2>2. ASSUME NEW c \in ClientId, NEW m \in Map, SetOk(c, m),
                 maps' = [maps EXCEPT ![c] = m]
          PROVE  Cardinality(Present') <= MaxEntries
      <3>1. CASE maps[c] # NoMap
        <4>1. Present' \subseteq Present
          BY <2>2, <3>1 DEF Present, TypeOK
        <4> QED
          BY <2>f, <2>s, <4>1
      <3>2. CASE Cardinality(Present) < MaxEntries
        <4>1. Present' \subseteq Present \cup {c}
          BY <2>2 DEF Present, TypeOK
        <4> QED
          BY <2>a, <3>2, <4>1
      <3> QED
        BY <2>2, <3>1, <3>2 DEF SetOk
    <2>3. ASSUME NEW c \in ClientId, NEW v \in Vector, NEW t \in Nat, maps[c] # NoMap,
                 maps' = [maps EXCEPT ![c] = commitValidationToMap(maps[c], v, t)]
          PROVE  Cardinality(Present') <= MaxEntries
      <3>1. Present' \subseteq Present
        BY <2>3 DEF Present, TypeOK
      <3> QED
        BY <2>f, <2>s, <3>1
    <2>4. ASSUME NEW old \in ClientId, NEW new \in ClientId, NEW lc \in Lifecycle,
                 NEW t \in Nat, ReplaceOk(old),
                 maps' = AfterReplace(old, new, NewMap(lc, t))
          PROVE  Cardinality(Present') <= MaxEntries
      <3>1. CASE Cardinality(Present) >= MaxEntries
        <4>1. Present' \subseteq (Present \ {old}) \cup {new}
          BY <2>4, <3>1 DEF AfterReplace, Present, TypeOK
        <4>2. old \in Present
          BY <2>4 DEF ReplaceOk, Present
        <4>3. /\ IsFiniteSet(Present \ {old})
              /\ Cardinality(Present \ {old}) = Cardinality(Present) - 1
          BY <2>f, <4>2, FS_RemoveElement
        <4>4. /\ IsFiniteSet((Present \ {old}) \cup {new})
              /\ \/ Cardinality((Present \ {old}) \cup {new}) = Cardinality(Present \ {old})
                 \/ Cardinality((Present \ {old}) \cup {new}) = Cardinality(Present \ {old}) + 1
          BY <4>3, FS_AddElement
        <4>5. Cardinality((Present \ {old}) \cup {new}) <= MaxEntries
          BY <2>f, <4>3, <4>4
        <4> QED
          BY <2>s, <4>1, <4>4, <4>5
      <3>2. CASE Cardinality(Present) < MaxEntries
        <4>1. Present' \subseteq Present \cup {new}
          BY <2>4 DEF AfterReplace, ReplaceOk, Present, TypeOK
        <4> QED
          BY <2>a, <3>2, <4>1
      <3> QED
        BY <2>f, <3>1, <3>2
    <2> QED
      BY <2>1, <2>2, <2>3, <2>4, StepWrites DEF StoreWrite
  <1> QED
    BY <1>1, <1>2, TypeCorrect, PTL DEF Spec
=============================================================================
