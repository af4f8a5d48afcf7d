-------------------------- MODULE WriterFenceProofs --------------------------
(***************************************************************************)
(* Safety of the writer fence for any number of nodes, commands, replicas  *)
(* and failovers, when WAIT asks for every replica.                        *)
(***************************************************************************)
EXTENDS WriterFence, FiniteSetTheorems, TLAPS

(* Every kind of progress a command or a mutation can be in.                *)
LEMMA HandlerShapes ==
  /\ Idle \in HandlerState
  /\ \A g \in Grant : /\ [pc |-> "claim", grant |-> g] \in HandlerState
                      /\ [pc |-> "claimed", grant |-> g] \in HandlerState
                      /\ [pc |-> "release", grant |-> g] \in HandlerState
                      /\ [pc |-> "released", grant |-> g] \in HandlerState
  /\ \A g \in Grant, a \in SUBSET Replica :
       [pc |-> "wait", grant |-> g, acked |-> a] \in HandlerState
  BY DEF HandlerState, Idle

LEMMA HandlerCases ==
  ASSUME NEW s \in HandlerState
  PROVE  \/ s = Idle
         \/ s.pc \in {"claim", "claimed", "release", "released"} /\ s.grant \in Grant
         \/ /\ s.pc = "wait" /\ s.grant \in Grant /\ s.acked \in SUBSET Replica
            /\ s = [pc |-> "wait", grant |-> s.grant, acked |-> s.acked]
  BY DEF HandlerState, Idle

LEMMA WriterShapes ==
  ASSUME NEW f \in SUBSET Grant, NEW o \in SUBSET Grant
  PROVE  /\ Idle \in WriterState
         /\ \A n \in Node : [pc |-> "reading", node |-> n, floor |-> f, out |-> o] \in WriterState
         /\ \A n \in Node, x \in Stored :
              [pc |-> "read", node |-> n, floor |-> f, out |-> o, seen |-> x] \in WriterState
         /\ \A g \in Grant : [pc |-> "writing", grant |-> g, floor |-> f, out |-> o] \in WriterState
  BY DEF WriterState, Idle

LEMMA WriterCases ==
  ASSUME NEW s \in WriterState
  PROVE  \/ s = Idle
         \/ s.pc = "reading" /\ s.node \in Node /\ s.floor \in SUBSET Grant /\ s.out \in SUBSET Grant
         \/ /\ s.pc = "read" /\ s.node \in Node /\ s.floor \in SUBSET Grant
            /\ s.out \in SUBSET Grant /\ s.seen \in Stored
         \/ s.pc = "writing" /\ s.grant \in Grant /\ s.floor \in SUBSET Grant /\ s.out \in SUBSET Grant
  BY DEF WriterState, Idle

(* Epochs are naturals and no grant is None.                                *)
LEMMA GrantFacts ==
  /\ None \notin Grant
  /\ \A g \in Grant : g.epoch \in Nat
  /\ \A x \in Stored : x.grant.epoch \in Nat
  /\ NoFence \in Stored
  /\ \A g \in Grant, b \in BOOLEAN : [grant |-> g, active |-> b] \in Stored
  BY DEF Grant, None, Epoch, Stored, FenceRecord, NoFence

LEMMA FenceTypeInit == FenceInit => FenceTypeOK
  <1>1. {} \in SUBSET Grant
    OBVIOUS
  <1>2. Idle \in WriterState /\ Idle \in HandlerState /\ NoFence \in Stored
    BY <1>1, HandlerShapes, WriterShapes, GrantFacts
  <1> QED
    BY <1>1, <1>2, FenceAssumption DEF FenceInit, FenceTypeOK

LEMMA FenceTypeStep == FenceTypeOK /\ [FenceNext]_fenceVars => FenceTypeOK'
  <1> SUFFICES ASSUME FenceTypeOK, [FenceNext]_fenceVars PROVE FenceTypeOK'
    OBVIOUS
  <1> USE HandlerShapes, GrantFacts
  <1>1. ASSUME NEW h \in Handler, NEW g \in Grant, activate(h, g) PROVE FenceTypeOK'
    BY <1>1 DEF activate, FenceTypeOK
  <1>2. ASSUME NEW h \in Handler, claim(h) PROVE FenceTypeOK'
    <2>1. handler[h].grant \in Grant
      BY <1>2, HandlerCases DEF claim, FenceTypeOK, Idle
    <2>2. {} \in SUBSET Replica
      OBVIOUS
    <2> QED
      BY <1>2, <2>1, <2>2 DEF claim, FenceTypeOK
  <1>3. ASSUME NEW h \in Handler, waitAcked(h) \/ activated(h) PROVE FenceTypeOK'
    <2>1. handler[h].grant \in Grant /\ handler[h].grant.node \in Node
      BY <1>3, HandlerCases DEF waitAcked, activated, FenceTypeOK, Idle, Grant
    <2> QED
      BY <1>3, <2>1 DEF waitAcked, activated, FenceTypeOK
  <1>4. ASSUME NEW h \in Handler, NEW n \in Node, demote(h, n) PROVE FenceTypeOK'
    BY <1>4 DEF demote, FenceTypeOK
  <1>5. ASSUME NEW h \in Handler, release(h) \/ released(h) \/ CommandThrows(h)
        PROVE  FenceTypeOK'
    <2>1. handler[h].pc # "idle" => handler[h].grant \in Grant /\ handler[h].grant.node \in Node
      BY HandlerCases DEF FenceTypeOK, Idle, Grant
    <2>2. CASE CommandThrows(h)
      BY <2>2 DEF CommandThrows, FenceTypeOK
    <2>3. CASE release(h)
      BY <2>1, <2>3 DEF release, FenceTypeOK
    <2>4. CASE released(h)
      BY <2>1, <2>4 DEF released, FenceTypeOK
    <2> QED
      BY <1>5, <2>2, <2>3, <2>4
  <1>6. ASSUME NEW w \in Writer, NEW n \in Node, isWritable(w, n) PROVE FenceTypeOK'
    BY <1>6, WriterShapes DEF isWritable, FenceTypeOK
  <1>7. ASSUME NEW w \in Writer, current(w) PROVE FenceTypeOK'
    <2>1. writer[w].node \in Node /\ writer[w].floor \in SUBSET Grant /\ writer[w].out \in SUBSET Grant
      BY <1>7, WriterCases DEF current, FenceTypeOK, Idle
    <2> QED
      BY <1>7, <2>1, WriterShapes DEF current, FenceTypeOK
  <1>8. ASSUME NEW w \in Writer, writeAllowed(w) PROVE FenceTypeOK'
    <2>1. /\ writer[w].node \in Node /\ writer[w].floor \in SUBSET Grant
          /\ writer[w].out \in SUBSET Grant /\ writer[w].seen \in Stored
      BY <1>8, WriterCases DEF writeAllowed, FenceTypeOK, Idle
    <2>2. lease[writer[w].node] \in Grant
      BY <1>8, <2>1 DEF writeAllowed, Allowed, FenceTypeOK, Stored, FenceRecord, NoFence
    <2> QED
      BY <1>8, <2>1, <2>2, WriterShapes DEF writeAllowed, FenceTypeOK
  <1>9. ASSUME NEW w \in Writer, writeDenied(w) \/ innerWrite(w) PROVE FenceTypeOK'
    BY <1>9, WriterShapes DEF writeDenied, innerWrite, FenceTypeOK
  <1>10. ASSUME NEW r \in Replica, Replicate(r) PROVE FenceTypeOK'
    <2>1. \A h \in Handler : handler[h].pc = "wait" =>
            handler[h].grant \in Grant /\ handler[h].acked \cup {r} \in SUBSET Replica
      BY HandlerCases DEF FenceTypeOK, Idle
    <2>2. handler' \in [Handler -> HandlerState]
      BY <1>10, <2>1 DEF Replicate, FenceTypeOK
    <2> QED
      BY <1>10, <2>2 DEF Replicate, FenceTypeOK
  <1>11. ASSUME NEW r \in Replica, Failover(r) PROVE FenceTypeOK'
    BY <1>11, FenceAssumption DEF Failover, FenceTypeOK
  <1>12. ASSUME NEW n \in Node, NodeCrash(n) PROVE FenceTypeOK'
    BY <1>12, WriterShapes DEF NodeCrash, FenceTypeOK
  <1>13. CASE UNCHANGED fenceVars
    BY <1>13 DEF fenceVars, FenceTypeOK
  <1> QED
    BY <1>1, <1>2, <1>3, <1>4, <1>5, <1>6, <1>7, <1>8, <1>9, <1>10, <1>11, <1>12, <1>13
       DEF FenceNext
-----------------------------------------------------------------------------
LEMMA FenceInvInit == FenceInit => FenceInv
  BY DEF FenceInit, FenceInv, EpochsOwned, ClaimsStored, LeasesConfirmed, ChecksCovered,
         NoStaleWriter, OneGrantPerEpoch, GrantsDurable, Claiming, Idle

(* One step per action.  The replicas' acknowledgements matter in waitAcked *)
(* and Failover; everything else follows the epochs.                        *)
LEMMA FenceInvStep ==
  ASSUME WaitReplicas = Cardinality(Replica)
  PROVE  FenceTypeOK /\ FenceInv /\ [FenceNext]_fenceVars => FenceInv'
  <1> SUFFICES ASSUME FenceTypeOK, FenceInv, [FenceNext]_fenceVars PROVE FenceInv'
    OBVIOUS
  <1>t. /\ granted \subseteq Grant /\ demoted \subseteq Grant
        /\ \A g \in Grant : g.epoch \in Nat
        /\ fence.grant.epoch \in Nat
        /\ \A r \in Replica : copies[r].grant.epoch \in Nat
        /\ handler \in [Handler -> HandlerState] /\ writer \in [Writer -> WriterState]
        /\ copies \in [Replica -> Stored] /\ lease \in [Node -> Grant \cup {None}]
    BY GrantFacts DEF FenceTypeOK
  <1>h. \A h \in Handler : handler[h].pc # "idle" =>
          handler[h].grant \in Grant /\ handler[h].grant.epoch \in Nat
    BY <1>t, HandlerCases DEF Idle
  (* A command starts, is refused, or throws. *)
  <1>a. ASSUME \A k \in Handler : handler'[k] = handler[k] \/ handler'[k].pc \in {"idle", "claim"},
               UNCHANGED <<fence, copies, lease, writer, granted, demoted>>
        PROVE  FenceInv'
    <2>1. EpochsOwned'
      BY <1>a DEF FenceInv, EpochsOwned, Claiming, OneGrantPerEpoch
    <2>2. ClaimsStored'
      BY <1>a DEF FenceInv, ClaimsStored, Claiming, GrantsDurable
    <2>3. LeasesConfirmed'
      BY <1>a DEF FenceInv, LeasesConfirmed
    <2>4. ChecksCovered' /\ NoStaleWriter'
      BY <1>a DEF FenceInv, ChecksCovered, NoStaleWriter
    <2> QED
      BY <2>1, <2>2, <2>3, <2>4 DEF FenceInv
  (* A mutation moves. *)
  <1>b. ASSUME UNCHANGED <<fence, copies, lease, handler, granted, demoted>>,
               ChecksCovered', NoStaleWriter'
        PROVE  FenceInv'
    <2>1. EpochsOwned'
      BY <1>b DEF FenceInv, EpochsOwned, Claiming, OneGrantPerEpoch
    <2>2. ClaimsStored'
      BY <1>b DEF FenceInv, ClaimsStored, Claiming, GrantsDurable
    <2>3. LeasesConfirmed'
      BY <1>b DEF FenceInv, LeasesConfirmed
    <2> QED
      BY <1>b, <2>1, <2>2, <2>3 DEF FenceInv
  <1>1. ASSUME NEW h \in Handler, NEW g \in Grant, activate(h, g) PROVE FenceInv'
    <2>1. \A k \in Handler : handler'[k] = handler[k] \/ handler'[k].pc \in {"idle", "claim"}
      BY <1>1, <1>t DEF activate
    <2> QED
      BY <1>1, <1>a, <2>1 DEF activate
  <1>2. ASSUME NEW h \in Handler, claim(h) PROVE FenceInv'
    <2>1. PICK g : g = handler[h].grant
      OBVIOUS
    <2>2. g \in Grant /\ g.epoch \in Nat
      BY <1>2, <1>h, <2>1 DEF claim
    <2>3. CASE ~Higher(g)
      <3>1. \A k \in Handler : handler'[k] = handler[k] \/ handler'[k].pc \in {"idle", "claim"}
        BY <1>2, <1>t, <2>1, <2>3 DEF claim, Idle
      <3> QED
        BY <1>2, <1>a, <2>1, <2>3, <3>1 DEF claim
    <2>4. CASE Higher(g)
      <3>1. /\ fence' = [grant |-> g, active |-> TRUE]
            /\ handler'[h] = [pc |-> "wait", grant |-> g, acked |-> {}]
            /\ \A k \in Handler : k # h => handler'[k] = handler[k]
            /\ UNCHANGED <<copies, lease, writer, granted, demoted>>
        BY <1>2, <1>t, <2>1, <2>4 DEF claim
      <3>2. fence.grant.epoch < g.epoch /\ fence'.grant.epoch = g.epoch
        BY <2>2, <2>4, <3>1, <1>t DEF Higher
      <3>3. /\ \A x \in granted : x.epoch <= fence.grant.epoch /\ x.epoch \in Nat
            /\ \A k \in Handler : Claiming(k) =>
                 handler[k].grant.epoch <= fence.grant.epoch /\ handler[k].grant.epoch \in Nat
        BY <1>t, <1>h DEF FenceInv, ClaimsStored, GrantsDurable, Claiming
      <3>4. EpochsOwned'
        <4>1. \A x \in granted : x.epoch < g.epoch
          BY <3>2, <3>3, <2>2, <1>t
        <4>2. \A k \in Handler : Claiming(k) => handler[k].grant.epoch < g.epoch
          BY <3>2, <3>3, <2>2, <1>t
        <4>3. \A x \in granted : x.epoch # g.epoch
          BY <4>1, <2>2, <1>t
        <4>4. \A k \in Handler : Claiming(k) => handler[k].grant.epoch # g.epoch
          BY <4>2, <2>2, <3>3
        <4> QED
          BY <3>1, <4>3, <4>4 DEF FenceInv, EpochsOwned, Claiming, OneGrantPerEpoch
      <3>5. ClaimsStored'
        <4>1. \A x \in granted : x.epoch <= g.epoch
          BY <3>2, <3>3, <2>2, <1>t
        <4>2. \A k \in Handler : Claiming(k) => handler[k].grant.epoch <= g.epoch
          BY <3>2, <3>3, <2>2, <1>t
        <4>3. g.epoch <= g.epoch
          BY <2>2
        <4>4. GrantsDurable'
          BY <3>1, <3>2, <4>1 DEF GrantsDurable
        <4>5. \A k \in Handler : Claiming(k)' => handler'[k].grant.epoch <= fence'.grant.epoch
          BY <3>1, <3>2, <4>2, <4>3 DEF Claiming
        <4> QED
          BY <3>1, <4>4, <4>5 DEF FenceInv, ClaimsStored
      <3>6. LeasesConfirmed' /\ ChecksCovered' /\ NoStaleWriter'
        BY <3>1 DEF FenceInv, LeasesConfirmed, ChecksCovered, NoStaleWriter
      <3> QED
        BY <3>4, <3>5, <3>6 DEF FenceInv
    <2> QED
      BY <2>3, <2>4
  <1>3. ASSUME NEW h \in Handler, waitAcked(h) PROVE FenceInv'
    <2>1. /\ handler[h].pc = "wait"
          /\ handler'[h] = [pc |-> "claimed", grant |-> handler[h].grant]
          /\ \A k \in Handler : k # h => handler'[k] = handler[k]
          /\ UNCHANGED <<fence, copies, lease, writer, granted, demoted>>
      BY <1>3, <1>t DEF waitAcked
    <2>2. handler[h].acked = Replica
      <3>1. handler[h].acked \subseteq Replica
        BY <2>1, <1>t, HandlerCases DEF Idle
      <3>2. IsFiniteSet(Replica) /\ Cardinality(handler[h].acked) >= Cardinality(Replica)
        BY <1>3, FenceAssumption DEF waitAcked, EnoughAcks
      <3>3. Cardinality(handler[h].acked) <= Cardinality(Replica)
            /\ Cardinality(handler[h].acked) \in Nat /\ Cardinality(Replica) \in Nat
        BY <3>1, <3>2, FS_Subset, FS_CardinalityType
      <3> QED
        BY <3>1, <3>2, <3>3, FS_Subset
    <2>3. EpochsOwned'
      BY <2>1 DEF FenceInv, EpochsOwned, Claiming, OneGrantPerEpoch
    <2>4. ClaimsStored'
      BY <2>1, <2>2 DEF FenceInv, ClaimsStored, Claiming, GrantsDurable
    <2>5. LeasesConfirmed' /\ ChecksCovered' /\ NoStaleWriter'
      BY <2>1 DEF FenceInv, LeasesConfirmed, ChecksCovered, NoStaleWriter
    <2> QED
      BY <2>3, <2>4, <2>5 DEF FenceInv
  <1>4. ASSUME NEW h \in Handler, activated(h) PROVE FenceInv'
    <2>1. PICK g : g = handler[h].grant
      OBVIOUS
    <2>2. handler[h].pc = "claimed" /\ g \in Grant /\ g.node \in Node
      BY <1>4, <1>h, <2>1 DEF activated, Grant
    <2>3. /\ handler'[h] = Idle
          /\ \A k \in Handler : k # h => handler'[k] = handler[k]
          /\ lease'[g.node] = g
          /\ \A n \in Node : n # g.node => lease'[n] = lease[n]
          /\ granted' = granted \cup {g}
          /\ UNCHANGED <<fence, copies, writer, demoted>>
      BY <1>4, <1>t, <2>1, <2>2 DEF activated
    <2>4. \A x \in granted : x.epoch # g.epoch
      BY <2>1, <2>2 DEF FenceInv, EpochsOwned, Claiming
    <2>5. EpochsOwned'
      BY <2>1, <2>2, <2>3, <2>4 DEF FenceInv, EpochsOwned, Claiming, OneGrantPerEpoch, Idle
    <2>6. ClaimsStored'
      BY <2>1, <2>2, <2>3 DEF FenceInv, ClaimsStored, Claiming, GrantsDurable, Idle
    <2>7. LeasesConfirmed'
      <3>1. g \notin demoted
        BY <2>4 DEF FenceInv, LeasesConfirmed
      <3> QED
        BY <2>2, <2>3, <3>1 DEF FenceInv, LeasesConfirmed, Idle
    <2>8. ChecksCovered' /\ NoStaleWriter'
      BY <2>3 DEF FenceInv, ChecksCovered, NoStaleWriter
    <2> QED
      BY <2>5, <2>6, <2>7, <2>8 DEF FenceInv
  (* Demotion: no claim starts or ends. *)
  <1>c. ASSUME NEW h \in Handler, handler'[h].pc \in {"idle", "release", "released"},
               handler'[h].pc # "idle" => handler'[h].grant \in granted,
               \A k \in Handler : k # h => handler'[k] = handler[k],
               fence'.grant = fence.grant,
               demoted \subseteq demoted', demoted' \subseteq granted,
               \A n \in Node : \/ lease'[n] = None
                               \/ lease'[n] = lease[n] /\ lease[n] \notin demoted',
               UNCHANGED <<copies, writer, granted>>
        PROVE  FenceInv'
    <2>1. EpochsOwned'
      BY <1>c DEF FenceInv, EpochsOwned, Claiming, OneGrantPerEpoch
    <2>2. ClaimsStored'
      BY <1>c DEF FenceInv, ClaimsStored, Claiming, GrantsDurable
    <2>3. LeasesConfirmed'
      BY <1>c DEF FenceInv, LeasesConfirmed
    <2>4. ChecksCovered' /\ NoStaleWriter'
      BY <1>c DEF FenceInv, ChecksCovered, NoStaleWriter
    <2> QED
      BY <2>1, <2>2, <2>3, <2>4 DEF FenceInv
  <1>d. /\ \A n \in Node : lease[n] = None \/ lease[n] \notin demoted
        /\ demoted \subseteq granted
    BY DEF FenceInv, LeasesConfirmed
  <1>5. ASSUME NEW h \in Handler, NEW n \in Node, demote(h, n) PROVE FenceInv'
    <2>1. /\ handler'[h] = [pc |-> "release", grant |-> lease[n]]
          /\ \A k \in Handler : k # h => handler'[k] = handler[k]
          /\ lease[n] \in granted
          /\ UNCHANGED <<fence, copies, lease, writer, granted, demoted>>
      BY <1>5, <1>t DEF demote, FenceInv, LeasesConfirmed
    <2> QED
      BY <2>1, <1>c, <1>d
  <1>6. ASSUME NEW h \in Handler, release(h) PROVE FenceInv'
    <2>1. /\ \A k \in Handler : k # h => handler'[k] = handler[k]
          /\ UNCHANGED <<copies, lease, writer, granted, demoted>>
          /\ handler[h].grant \in granted
      BY <1>6, <1>t DEF release, FenceInv, LeasesConfirmed
    <2>2. \/ handler'[h] = [pc |-> "released", grant |-> handler[h].grant]
          \/ handler'[h] = Idle
      BY <1>6, <1>t DEF release
    <2>3. fence'.grant = fence.grant
      BY <1>6 DEF release
    <2> QED
      BY <2>1, <2>2, <2>3, <1>c, <1>d DEF Idle
  <1>7. ASSUME NEW h \in Handler, released(h) PROVE FenceInv'
    <2>1. PICK g : g = handler[h].grant
      OBVIOUS
    <2>2. g \in granted /\ g \in Grant /\ g.node \in Node
      BY <1>7, <1>h, <2>1 DEF released, FenceInv, LeasesConfirmed, Grant
    <2>3. /\ handler'[h] = Idle
          /\ \A k \in Handler : k # h => handler'[k] = handler[k]
          /\ lease'[g.node] = None
          /\ \A n \in Node : n # g.node => lease'[n] = lease[n]
          /\ demoted' = demoted \cup {g}
          /\ UNCHANGED <<fence, copies, writer, granted>>
      BY <1>7, <1>t, <2>1, <2>2 DEF released
    <2>4. \A n \in Node : n # g.node => lease[n] # g
      BY <2>2, GrantFacts DEF FenceInv, LeasesConfirmed
    <2>5. \A n \in Node : \/ lease'[n] = None
                          \/ lease'[n] = lease[n] /\ lease[n] \notin demoted'
      BY <2>3, <2>4, <1>d
    <2> QED
      BY <1>c, <1>d, <2>2, <2>3, <2>5 DEF Idle
  <1>8. ASSUME NEW h \in Handler, CommandThrows(h) PROVE FenceInv'
    <2>1. \A k \in Handler : handler'[k] = handler[k] \/ handler'[k].pc \in {"idle", "claim"}
      BY <1>8, <1>t DEF CommandThrows, Idle
    <2> QED
      BY <1>8, <1>a, <2>1 DEF CommandThrows
  <1>9. ASSUME NEW w \in Writer, NEW n \in Node, isWritable(w, n) PROVE FenceInv'
    <2>1. /\ writer'[w] = [pc |-> "reading", node |-> n, floor |-> granted, out |-> demoted]
          /\ \A v \in Writer : v # w => writer'[v] = writer[v]
          /\ UNCHANGED <<fence, copies, lease, handler, granted, demoted>>
      BY <1>9, <1>t DEF isWritable
    <2>2. ChecksCovered' /\ NoStaleWriter'
      BY <2>1 DEF FenceInv, ChecksCovered, NoStaleWriter
    <2> QED
      BY <1>b, <2>1, <2>2
  <1>10. ASSUME NEW w \in Writer, current(w) PROVE FenceInv'
    <2>1. /\ writer'[w] = [pc |-> "read", node |-> writer[w].node, floor |-> writer[w].floor,
                           out |-> writer[w].out, seen |-> fence]
          /\ \A v \in Writer : v # w => writer'[v] = writer[v]
          /\ UNCHANGED <<fence, copies, lease, handler, granted, demoted>>
          /\ writer[w].pc # "idle"
      BY <1>10, <1>t DEF current
    <2>2. \A g \in writer[w].floor : g.epoch <= fence.grant.epoch
      BY <2>1 DEF FenceInv, ChecksCovered, ClaimsStored, GrantsDurable
    <2>3. ChecksCovered' /\ NoStaleWriter'
      BY <2>1, <2>2 DEF FenceInv, ChecksCovered, NoStaleWriter
    <2> QED
      BY <1>b, <2>1, <2>3
  <1>11. ASSUME NEW w \in Writer, writeAllowed(w) PROVE FenceInv'
    <2>1. PICK n, x : n = writer[w].node /\ x = writer[w].seen
      OBVIOUS
    <2>2. /\ writer'[w] = [pc |-> "writing", grant |-> lease[n], floor |-> writer[w].floor,
                           out |-> writer[w].out]
          /\ \A v \in Writer : v # w => writer'[v] = writer[v]
          /\ UNCHANGED <<fence, copies, lease, handler, granted, demoted>>
          /\ writer[w].pc = "read"
          /\ x = [grant |-> lease[n], active |-> TRUE]
      BY <1>11, <1>t, <2>1 DEF writeAllowed, Allowed
    <2>t. writer[w] \in WriterState /\ writer[w] # Idle
      BY <1>t, <2>2 DEF Idle
    <2>3. n \in Node /\ x \in Stored
      BY <2>1, <2>2, <2>t, WriterCases
    <2>4. lease[n] # None
      BY <2>2, <2>3, GrantFacts DEF Stored, FenceRecord, NoFence
    <2>5. lease[n] \notin demoted
      BY <1>d, <2>3, <2>4
    <2>6. /\ writer[w].floor \subseteq granted /\ writer[w].out \subseteq demoted
          /\ \A g \in writer[w].floor : g.epoch <= lease[n].epoch
      <3>1. /\ writer[w].floor \subseteq granted /\ writer[w].out \subseteq demoted
            /\ \A g \in writer[w].floor : g.epoch <= writer[w].seen.grant.epoch
        BY <2>2 DEF FenceInv, ChecksCovered
      <3>2. writer[w].seen.grant = lease[n]
        <4>1. x.grant = lease[n]
          BY <2>2
        <4> QED
          BY <4>1, <2>1
      <3> QED
        BY <3>1, <3>2
    <2>7. ChecksCovered'
      BY <2>2, <2>6 DEF FenceInv, ChecksCovered
    <2>8. NoStaleWriter'
      BY <2>2, <2>5, <2>6 DEF FenceInv, NoStaleWriter
    <2> QED
      BY <1>b, <2>2, <2>7, <2>8
  <1>12. ASSUME NEW w \in Writer, writeDenied(w) \/ innerWrite(w) PROVE FenceInv'
    <2>1. /\ writer'[w] = Idle
          /\ \A v \in Writer : v # w => writer'[v] = writer[v]
          /\ UNCHANGED <<fence, copies, lease, handler, granted, demoted>>
      BY <1>12, <1>t DEF writeDenied, innerWrite
    <2>2. ChecksCovered' /\ NoStaleWriter'
      BY <2>1 DEF FenceInv, ChecksCovered, NoStaleWriter, Idle
    <2> QED
      BY <1>b, <2>1, <2>2
  <1>13. ASSUME NEW r \in Replica, Replicate(r) PROVE FenceInv'
    <2>1. /\ copies'[r] = fence
          /\ \A q \in Replica : q # r => copies'[q] = copies[q]
          /\ UNCHANGED <<fence, lease, writer, granted, demoted>>
          /\ \A k \in Handler :
               /\ handler'[k].pc = handler[k].pc
               /\ handler'[k].grant = handler[k].grant
               /\ handler[k].pc = "wait" => handler'[k].acked = handler[k].acked \cup {r}
      BY <1>13, <1>t DEF Replicate
    <2>2. EpochsOwned'
      BY <2>1 DEF FenceInv, EpochsOwned, Claiming, OneGrantPerEpoch
    <2>3. ClaimsStored'
      BY <2>1 DEF FenceInv, ClaimsStored, Claiming, GrantsDurable
    <2>4. LeasesConfirmed' /\ ChecksCovered' /\ NoStaleWriter'
      BY <2>1 DEF FenceInv, LeasesConfirmed, ChecksCovered, NoStaleWriter
    <2> QED
      BY <2>2, <2>3, <2>4 DEF FenceInv
  <1>14. ASSUME NEW r \in Replica, Failover(r) PROVE FenceInv'
    <2>1. /\ fence' = copies[r]
          /\ UNCHANGED <<copies, lease, writer, granted, demoted>>
          /\ \A k \in Handler : handler'[k] = IF handler[k].pc = "wait" THEN Idle ELSE handler[k]
      BY <1>14, <1>t DEF Failover
    <2>2. EpochsOwned'
      BY <2>1 DEF FenceInv, EpochsOwned, Claiming, OneGrantPerEpoch, Idle
    <2>3. ClaimsStored'
      BY <2>1 DEF FenceInv, ClaimsStored, Claiming, GrantsDurable, Idle
    <2>4. LeasesConfirmed' /\ ChecksCovered' /\ NoStaleWriter'
      BY <2>1 DEF FenceInv, LeasesConfirmed, ChecksCovered, NoStaleWriter, Idle
    <2> QED
      BY <2>2, <2>3, <2>4 DEF FenceInv
  <1>15. ASSUME NEW n \in Node, NodeCrash(n) PROVE FenceInv'
    <2>1. /\ UNCHANGED <<fence, copies, granted, demoted>>
          /\ \A k \in Handler : handler'[k] = handler[k] \/ handler'[k] = Idle
          /\ \A v \in Writer : writer'[v] = writer[v] \/ writer'[v] = Idle
          /\ \A m \in Node : lease'[m] = lease[m] \/ lease'[m] = None
      BY <1>15, <1>t DEF NodeCrash
    <2>2. EpochsOwned'
      BY <2>1 DEF FenceInv, EpochsOwned, Claiming, OneGrantPerEpoch, Idle
    <2>3. ClaimsStored'
      BY <2>1 DEF FenceInv, ClaimsStored, Claiming, GrantsDurable, Idle
    <2>4. LeasesConfirmed' /\ ChecksCovered' /\ NoStaleWriter'
      BY <2>1 DEF FenceInv, LeasesConfirmed, ChecksCovered, NoStaleWriter, Idle
    <2> QED
      BY <2>2, <2>3, <2>4 DEF FenceInv
  <1>16. CASE UNCHANGED fenceVars
    BY <1>16, <1>a DEF fenceVars
  <1> QED
    BY <1>1, <1>2, <1>3, <1>4, <1>5, <1>6, <1>7, <1>8, <1>9, <1>10, <1>11, <1>12, <1>13,
       <1>14, <1>15, <1>16
       DEF FenceNext

-----------------------------------------------------------------------------
(* FenceTypeOK and FenceInv hold in every reachable state when WAIT asks    *)
(* for every replica of the authority.                                      *)
THEOREM FenceInvariant ==
  ASSUME WaitReplicas = Cardinality(Replica)
  PROVE  FenceSpec => [](FenceTypeOK /\ FenceInv)
  <1>1. FenceTypeOK /\ FenceInv /\ [FenceNext]_fenceVars => (FenceTypeOK /\ FenceInv)'
    BY FenceTypeStep, FenceInvStep
  <1> QED
    BY <1>1, FenceTypeInit, FenceInvInit, PTL DEF FenceSpec

(* A write check that begins after an activation was confirmed never lets a *)
(* superseded or demoted writer through, whatever fails over.               *)
THEOREM StaleWriterFenced ==
  ASSUME WaitReplicas = Cardinality(Replica)
  PROVE  FenceSpec => []NoStaleWriter
  <1>1. FenceTypeOK /\ FenceInv => NoStaleWriter
    BY DEF FenceInv
  <1> QED
    BY <1>1, FenceInvariant, PTL

(* Confirmed grants survive failovers, and no epoch is granted twice.       *)
THEOREM GrantsSafe ==
  ASSUME WaitReplicas = Cardinality(Replica)
  PROVE  FenceSpec => [](GrantsDurable /\ OneGrantPerEpoch)
  <1>1. FenceTypeOK /\ FenceInv => GrantsDurable /\ OneGrantPerEpoch
    BY DEF FenceInv, ClaimsStored, EpochsOwned
  <1> QED
    BY <1>1, FenceInvariant, PTL

(* No epoch is confirmed for two grants, failovers and lost replies         *)
(* included.                                                                *)
THEOREM OneGrantPerEpochHolds ==
  ASSUME WaitReplicas = Cardinality(Replica)
  PROVE  FenceSpec => []OneGrantPerEpoch
  <1>1. FenceTypeOK /\ FenceInv => OneGrantPerEpoch
    BY DEF FenceInv, EpochsOwned
  <1> QED
    BY <1>1, FenceInvariant, PTL

(* The authority, its replicas, commands and checks stay well-typed,        *)
(* whatever WAIT asks for.                                                  *)
THEOREM FenceTypeCorrect == FenceSpec => []FenceTypeOK
  <1> QED
    BY FenceTypeInit, FenceTypeStep, PTL DEF FenceSpec
=============================================================================
