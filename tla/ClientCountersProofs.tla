------------------------ MODULE ClientCountersProofs ------------------------
(***************************************************************************)
(* The client's counters against the server's, for every number of         *)
(* segments, concurrent fetches, crashes and lost messages.                *)
(***************************************************************************)
EXTENDS ClientCounters, TumblerMapProofs, TLAPS

(* An accepted request moves the server exactly one past its snapshot.      *)
LEMMA AcceptFacts ==
  ASSUME NEW m \in Map, NEW v \in Vector, Accepts(m, v)
  PROVE  /\ commitValidationToMap(m, v, 0) \in Map
         /\ commitValidationToMap(m, v, 0).ctr = nextCounters(v)
         /\ \A s \in Seg : m.ctr[s] <= v[s]
  <1>1. CommitOk(m, v, 0) /\ m.status \notin Terminal
    BY DEF Accepts
  <1>2. commitValidationToMap(m, v, 0) = Advanced(m, v)
    BY <1>1, CommitKeepsMap
  <1>3. \A s \in Seg : m.ctr[s] <= v[s]
    BY <1>1 DEF CommitOk
  <1> QED
    BY <1>1, <1>2, <1>3, AdvancedFacts DEF nextCounters

LEMMA NextCountersFacts ==
  ASSUME NEW v \in Vector
  PROVE  /\ nextCounters(v) \in Stored
         /\ \A s \in Seg : nextCounters(v)[s] = v[s] + 1 /\ v[s] \in Int
         /\ v \in Stored
  BY MapAssumption DEF nextCounters, Vector, Usable, Stored, Counter

LEMMA ClientInitOK == ClientInit => ClientTypeOK /\ ClientInv
  <1> SUFFICES ASSUME ClientInit PROVE ClientTypeOK /\ ClientInv
    OBVIOUS
  <1>1. NewMap(Unlimited, 0) \in Map
    BY MapAssumption DEF NewMap, Map, Unlimited, Status, Counter, Limits, Never
  <1>2. ClientTypeOK
    BY <1>1, MapAssumption, ClientAssumption
       DEF ClientInit, ClientTypeOK, Stored, Counter, CallState, NoCall
  <1>3. ClientInv
    BY MapAssumption
       DEF ClientInit, ClientInv, NeverAhead, OneCommitAtATime, Committing, NoCall, NewMap
  <1> QED
    BY <1>2, <1>3

LEMMA ClientTypeStep == ClientTypeOK /\ [ClientNext]_clientVars => ClientTypeOK'
  <1> SUFFICES ASSUME ClientTypeOK, [ClientNext]_clientVars PROVE ClientTypeOK'
    OBVIOUS
  <1> USE DEF ClientTypeOK
  <1>1. ASSUME NEW k \in Calls, Send(k) PROVE ClientTypeOK'
    BY <1>1 DEF Send, CallState
  <1>2. ASSUME NEW k \in Calls, Deliver(k) PROVE ClientTypeOK'
    <2>1. call[k].snapshot \in Vector
      BY <1>2 DEF Deliver, CallState, NoCall
    <2>2. server' \in Map
      BY <1>2, <2>1, AcceptFacts DEF Deliver
    <2>3. call' \in [Calls -> CallState]
      BY <1>2, <2>1 DEF Deliver, CallState, NoCall
    <2> QED
      BY <1>2, <2>2, <2>3 DEF Deliver
  <1>3. ASSUME NEW k \in Calls, ReturnDenied(k) PROVE ClientTypeOK'
    BY <1>3 DEF ReturnDenied, CallState
  <1>4. ASSUME NEW k \in Calls, SaveCounters(k) PROVE ClientTypeOK'
    <2>1. call[k].snapshot \in Vector
      BY <1>4 DEF SaveCounters, CallState, NoCall
    <2> QED
      BY <1>4, <2>1, NextCountersFacts DEF SaveCounters, CallState, NoCall
  <1>5. ASSUME NEW k \in Calls, CommitMemory(k) PROVE ClientTypeOK'
    <2>1. call[k].snapshot \in Vector
      BY <1>5 DEF CommitMemory, CallState, NoCall
    <2> QED
      BY <1>5, <2>1, NextCountersFacts DEF CommitMemory, CallState, NoCall
  <1>6. ASSUME NEW k \in Calls, Lose(k) PROVE ClientTypeOK'
    BY <1>6 DEF Lose, CallState
  <1>7. CASE Crash
    <2>1. \A k \in Calls : call[k].pc \in {"sent", "orphan"} => call[k].snapshot \in Vector
      BY DEF CallState, NoCall
    <2>2. call' \in [Calls -> CallState]
      BY <1>7, <2>1 DEF Crash, CallState
    <2>3. crashes' \in 0..MaxCrashes
      BY <1>7, ClientAssumption DEF Crash
    <2> QED
      BY <1>7, <2>2, <2>3 DEF Crash
  <1>8. CASE InitClient
    BY <1>8 DEF InitClient
  <1>9. CASE UNCHANGED clientVars
    BY <1>9 DEF clientVars
  <1> QED
    BY <1>1, <1>2, <1>3, <1>4, <1>5, <1>6, <1>7, <1>8, <1>9 DEF ClientNext, Work

(* One step per action: the counters in memory, in the file and on the      *)
(* server keep the relation that ClientInv states.                          *)
LEMMA ClientInvStep ==
  ClientTypeOK /\ ClientInv /\ [ClientNext]_clientVars => ClientInv'
  <1> SUFFICES ASSUME ClientTypeOK, ClientInv, [ClientNext]_clientVars
               PROVE  ClientInv'
    OBVIOUS
  <1> USE DEF ClientInv, NeverAhead, OneCommitAtATime, Committing
  <1>t. /\ disk \in Stored /\ counters \in Stored /\ server.ctr \in Stored
        /\ \A s \in Seg : disk[s] \in Int /\ counters[s] \in Int /\ server.ctr[s] \in Int
    BY MapAssumption DEF ClientTypeOK, Map, Stored, Counter
  <1>v. \A k \in Calls : call[k].pc \in {"sent", "orphan", "accepted", "denied", "saved"}
          => call[k].snapshot \in Vector
    BY DEF ClientTypeOK, CallState, NoCall
  <1>c. call \in [Calls -> CallState]
    BY DEF ClientTypeOK
  <1>1. ASSUME NEW k \in Calls, Send(k) PROVE ClientInv'
    BY <1>1, <1>t, <1>c DEF Send, NoCall
  <1>2. ASSUME NEW k \in Calls, Deliver(k) PROVE ClientInv'
    <2>1. call[k].snapshot \in Vector
      BY <1>2, <1>v DEF Deliver
    <2>2. CASE ~Accepts(server, call[k].snapshot)
      <3>1. call' = [call EXCEPT ![k] = NoCall]
            \/ call' = [call EXCEPT ![k] = [pc |-> "denied", snapshot |-> call[k].snapshot]]
        BY <1>2, <1>c, <2>2 DEF Deliver
      <3>2. UNCHANGED <<server, disk, counters, up>> /\ call[k].pc \in {"sent", "orphan"}
        BY <1>2, <2>2 DEF Deliver
      <3>3. ~up => call' = [call EXCEPT ![k] = NoCall]
        BY <1>2, <1>c, <2>2 DEF Deliver
      <3> QED
        BY <3>1, <3>2, <3>3, <1>c DEF NoCall
    <2>3. CASE Accepts(server, call[k].snapshot)
      <3> DEFINE v == call[k].snapshot
      <3>1. /\ server'.ctr = nextCounters(v)
            /\ \A s \in Seg : server.ctr[s] <= v[s]
        BY <1>2, <2>1, <2>3, AcceptFacts DEF Deliver, ClientTypeOK
      <3>2. /\ UNCHANGED <<disk, counters, up>>
            /\ call[k].pc \in {"sent", "orphan"}
        BY <1>2 DEF Deliver
      <3>3. \A s \in Seg : v[s] \in Int /\ nextCounters(v)[s] = v[s] + 1
        BY <2>1, NextCountersFacts
      <3>4. \A s \in Seg : v[s] <= counters[s] /\ counters[s] <= disk[s]
                           /\ disk[s] <= server.ctr[s]
        BY <3>2
      <3>5. \A s \in Seg : disk[s] = v[s] /\ server.ctr[s] = v[s] /\ counters[s] = v[s]
        BY <3>1, <3>3, <3>4, <1>t
      <3>6. disk = v /\ counters = v
        BY <3>5, <2>1, <1>t DEF Stored, Vector
      <3>7. \A j \in Calls : ~Committing(j)
        <4> SUFFICES ASSUME NEW j \in Calls, Committing(j) PROVE FALSE
          OBVIOUS
        <4>1. server.ctr = nextCounters(call[j].snapshot) /\ counters = call[j].snapshot
          OBVIOUS
        <4>2. call[j].snapshot \in Vector
          BY <1>v
        <4>3. PICK s \in Seg : TRUE
          BY MapAssumption
        <4>4. server.ctr[s] = call[j].snapshot[s] + 1 /\ call[j].snapshot[s] \in Int
          BY <4>1, <4>2, NextCountersFacts
        <4> QED
          BY <4>1, <4>4, <3>5
      <3>8. \/ call' = [call EXCEPT ![k] = NoCall]
            \/ up /\ call' = [call EXCEPT ![k] = [pc |-> "accepted", snapshot |-> v]]
        BY <1>2, <1>c, <2>3 DEF Deliver
      <3>9. \A j \in Calls : j # k => call'[j] = call[j]
        BY <3>8, <1>c
      <3>10. call'[k].pc = "none" \/ (up /\ call'[k].pc = "accepted" /\ call'[k].snapshot = v)
        BY <3>8, <1>c DEF NoCall
      <3>11. \A j \in Calls : Committing(j)' => j = k /\ call'[k].pc = "accepted" /\ call'[k].snapshot = v
        BY <3>7, <3>9, <3>10
      <3> HIDE DEF v
      <3>12. NeverAhead'
        BY <3>1, <3>2, <3>3, <3>5, <1>t
      <3>13. OneCommitAtATime'
        BY <3>1, <3>11
      <3>14. \A j \in Calls : call'[j].pc \in {"sent", "orphan"} =>
               \A s \in Seg : call'[j].snapshot[s] <= counters'[s]
        BY <3>2, <3>9, <3>10
      <3>15. \A j \in Calls : (call'[j].pc = "accepted" => disk' = call'[j].snapshot)
                               /\ call'[j].pc # "saved"
                               /\ (Committing(j)' => counters' = call'[j].snapshot)
        BY <3>2, <3>6, <3>11
      <3>16. ~up' => \A j \in Calls : call'[j].pc \in {"none", "orphan"}
        BY <3>2, <3>9, <3>10
      <3> QED
        BY <3>2, <3>6, <3>12, <3>13, <3>14, <3>15, <3>16
    <2> QED
      BY <2>2, <2>3
  <1>3. ASSUME NEW k \in Calls, ReturnDenied(k) PROVE ClientInv'
    BY <1>3, <1>t, <1>c DEF ReturnDenied, NoCall
  <1>4. ASSUME NEW k \in Calls, SaveCounters(k) PROVE ClientInv'
    <2> DEFINE v == call[k].snapshot
    <2>1. v \in Vector /\ Committing(k)
      BY <1>4, <1>v DEF SaveCounters
    <2>2. \A s \in Seg : v[s] \in Int /\ nextCounters(v)[s] = v[s] + 1
      BY <2>1, NextCountersFacts
    <2>3. server.ctr = nextCounters(v) /\ counters = v
      BY <2>1
    <2>4. \A j \in Calls : j # k => ~Committing(j) /\ call'[j] = call[j]
      BY <2>1, <1>4, <1>c DEF SaveCounters
    <2>5. call'[k].pc = "saved" /\ call'[k].snapshot = v /\ disk' = nextCounters(v)
      BY <1>4, <1>c DEF SaveCounters, CallState, NoCall
    <2>6. UNCHANGED <<server, counters, up>> /\ up
      BY <1>4 DEF SaveCounters
    <2> HIDE DEF v
    <2>7. NeverAhead'
      BY <2>2, <2>3, <2>5, <2>6
    <2> QED
      BY <2>3, <2>4, <2>5, <2>6, <2>7
  <1>5. ASSUME NEW k \in Calls, CommitMemory(k) PROVE ClientInv'
    <2> DEFINE v == call[k].snapshot
    <2>1. v \in Vector /\ Committing(k)
      BY <1>5, <1>v DEF CommitMemory
    <2>2. \A s \in Seg : v[s] \in Int /\ nextCounters(v)[s] = v[s] + 1
      BY <2>1, NextCountersFacts
    <2>3. server.ctr = nextCounters(v) /\ counters = v /\ disk = nextCounters(v)
      BY <2>1, <1>5 DEF CommitMemory
    <2>4. \A j \in Calls : j # k => ~Committing(j) /\ call'[j] = call[j]
      BY <2>1, <1>5, <1>c DEF CommitMemory
    <2>5. call'[k].pc = "none" /\ counters' = nextCounters(v)
      BY <1>5, <1>c DEF CommitMemory, NoCall
    <2>6. UNCHANGED <<server, disk, up>>
      BY <1>5 DEF CommitMemory
    <2>7. \A j \in Calls : call'[j].pc \in {"sent", "orphan"} =>
            call'[j].snapshot \in Vector /\ \A s \in Seg : call'[j].snapshot[s] <= v[s]
      BY <2>3, <2>4, <2>5, <1>v
    <2> HIDE DEF v
    <2>8. \A j \in Calls : call'[j].pc \in {"sent", "orphan"} =>
            \A s \in Seg : call'[j].snapshot[s] <= nextCounters(v)[s]
      <3> SUFFICES ASSUME NEW j \in Calls, call'[j].pc \in {"sent", "orphan"}, NEW s \in Seg
                   PROVE  call'[j].snapshot[s] <= nextCounters(v)[s]
        OBVIOUS
      <3>1. call'[j].snapshot[s] \in Int
        BY <2>7, NextCountersFacts
      <3> QED
        BY <2>2, <2>7, <3>1
    <2> QED
      BY <2>2, <2>3, <2>4, <2>5, <2>6, <2>8
  <1>6. ASSUME NEW k \in Calls, Lose(k) PROVE ClientInv'
    BY <1>6, <1>t, <1>c DEF Lose, NoCall
  <1>7. CASE Crash
    <2>1. \A j \in Calls : call'[j] = IF call[j].pc \in {"sent", "orphan"}
                                      THEN [pc |-> "orphan", snapshot |-> call[j].snapshot]
                                      ELSE NoCall
      BY <1>7 DEF Crash
    <2>2. \A j \in Calls : \/ call'[j].pc = "none"
                           \/ /\ call'[j].pc = "orphan" /\ call[j].pc \in {"sent", "orphan"}
                              /\ call'[j].snapshot = call[j].snapshot
      <3> SUFFICES ASSUME NEW j \in Calls
                   PROVE  \/ call'[j].pc = "none"
                          \/ /\ call'[j].pc = "orphan" /\ call[j].pc \in {"sent", "orphan"}
                             /\ call'[j].snapshot = call[j].snapshot
        OBVIOUS
      <3>1. CASE call[j].pc \in {"sent", "orphan"}
        <4>1. call'[j] = [pc |-> "orphan", snapshot |-> call[j].snapshot]
          BY <2>1, <3>1
        <4> QED
          BY <3>1, <4>1
      <3>2. CASE call[j].pc \notin {"sent", "orphan"}
        <4>1. call'[j] = [pc |-> "none"]
          BY <2>1, <3>2 DEF NoCall
        <4> QED
          BY <4>1
      <3> QED
        BY <3>1, <3>2
    <2>3. UNCHANGED <<server, disk, counters>> /\ ~up'
      BY <1>7 DEF Crash
    <2> QED
      BY <2>2, <2>3
  <1>8. CASE InitClient
    <2>1. \A j \in Calls : call'[j].pc \in {"none", "orphan"} /\ call'[j] = call[j]
      BY <1>8 DEF InitClient
    <2>2. counters' = disk /\ disk' = disk /\ server' = server /\ up'
      BY <1>8 DEF InitClient
    <2>3. \A j \in Calls : call'[j].pc \in {"sent", "orphan"} =>
            \A s \in Seg : call'[j].snapshot[s] <= counters'[s]
      <3> SUFFICES ASSUME NEW j \in Calls, call'[j].pc \in {"sent", "orphan"}, NEW s \in Seg
                   PROVE  call'[j].snapshot[s] <= counters'[s]
        OBVIOUS
      <3>1. call[j].snapshot[s] \in Int
        BY <1>v, <2>1, NextCountersFacts
      <3> QED
        BY <2>1, <2>2, <1>t, <3>1
    <2> QED
      BY <2>1, <2>2, <2>3, <1>t
  <1>9. CASE UNCHANGED clientVars
    BY <1>9 DEF clientVars
  <1> QED
    BY <1>1, <1>2, <1>3, <1>4, <1>5, <1>6, <1>7, <1>8, <1>9 DEF ClientNext, Work

(* Neither loss nor crash nor concurrent fetches put the client ahead of    *)
(* the server, and acceptances are committed one at a time.                 *)
THEOREM ClientInvariant == ClientSpec => [](ClientTypeOK /\ ClientInv)
  <1>1. ClientTypeOK /\ ClientInv /\ [ClientNext]_clientVars => (ClientTypeOK /\ ClientInv)'
    BY ClientTypeStep, ClientInvStep
  <1> QED
    BY <1>1, ClientInitOK, PTL DEF ClientSpec

(* No late commitHOTPCounters overwrites a newer counter, in the file or in *)
(* memory, for any number of concurrent fetches.                            *)
THEOREM NoRollbackHolds == ClientSpec => NoRollback
  <1>1. ClientTypeOK /\ ClientInv /\ [ClientNext]_clientVars
          => [\A s \in Seg : disk'[s] >= disk[s] /\ counters'[s] >= counters[s]]_clientVars
    <2> SUFFICES ASSUME ClientTypeOK, ClientInv, ClientNext, NEW s \in Seg
                 PROVE  disk'[s] >= disk[s] /\ counters'[s] >= counters[s]
      BY DEF clientVars
    <2>t. disk[s] \in Int /\ counters[s] \in Int
      BY MapAssumption DEF ClientTypeOK, Stored, Counter
    <2>1. CASE UNCHANGED <<disk, counters>>
      BY <2>1, <2>t
    <2>2. ASSUME NEW k \in Calls, SaveCounters(k) \/ CommitMemory(k)
          PROVE  disk'[s] >= disk[s] /\ counters'[s] >= counters[s]
      <3>1. call[k].snapshot \in Vector
        BY <2>2 DEF SaveCounters, CommitMemory, ClientTypeOK, CallState, NoCall
      <3>2. counters = call[k].snapshot /\ nextCounters(call[k].snapshot)[s] = counters[s] + 1
        BY <2>2, <3>1, NextCountersFacts DEF SaveCounters, CommitMemory, ClientInv, Committing
      <3>3. CASE SaveCounters(k)
        BY <3>2, <3>3, <2>t DEF SaveCounters, ClientInv
      <3>4. CASE CommitMemory(k)
        BY <3>2, <3>4, <2>t DEF CommitMemory
      <3> QED
        BY <2>2, <3>3, <3>4
    <2>3. CASE InitClient
      BY <2>3, <2>t DEF InitClient, ClientInv, NeverAhead
    <2> QED
      BY <2>1, <2>2, <2>3
         DEF ClientNext, Work, Send, Deliver, ReturnDenied, Lose, Crash
  <1> QED
    BY <1>1, ClientInvariant, PTL DEF ClientSpec, NoRollback

(* A client that missed an acceptance is never accepted again.              *)
THEOREM LockoutIsFinalHolds == ClientSpec => LockoutIsFinal
  <1>1. ClientTypeOK /\ ClientInv /\ [ClientNext]_clientVars
          => [ (\E s \in Seg : disk[s] < server.ctr[s]) /\ (\A k \in Calls : ~Committing(k))
               => server' = server ]_clientVars
    <2> SUFFICES ASSUME ClientTypeOK, ClientInv, ClientNext,
                        NEW s \in Seg, disk[s] < server.ctr[s]
                 PROVE  server' = server
      BY DEF clientVars
    <2>1. ASSUME NEW k \in Calls, Deliver(k) PROVE server' = server
      <3>1. call[k].snapshot \in Vector
        BY <2>1 DEF Deliver, ClientTypeOK, CallState, NoCall
      <3>2. call[k].snapshot[s] \in Int
        BY <3>1, NextCountersFacts
      <3>3. /\ disk[s] \in Int /\ counters[s] \in Int /\ server.ctr[s] \in Int
        BY MapAssumption DEF ClientTypeOK, Map, Stored, Counter
      <3>4. call[k].snapshot[s] <= counters[s] /\ counters[s] <= disk[s]
        BY <2>1 DEF Deliver, ClientInv, NeverAhead
      <3>5. ~(server.ctr[s] <= call[k].snapshot[s])
        BY <3>2, <3>3, <3>4
      <3>6. ~Accepts(server, call[k].snapshot)
        BY <3>1, <3>5, AcceptFacts DEF ClientTypeOK
      <3> QED
        BY <2>1, <3>6 DEF Deliver
    <2> QED
      BY <2>1 DEF ClientNext, Work, Send, ReturnDenied, SaveCounters, CommitMemory,
                  Lose, Crash, InitClient
  <1> QED
    BY <1>1, ClientInvariant, PTL DEF ClientSpec, LockoutIsFinal

(* The client's and the server's copies of the counters stay well-typed.    *)
THEOREM ClientTypeCorrect == ClientSpec => []ClientTypeOK
  <1> QED
    BY ClientInvariant, PTL
=============================================================================
