-------------------------- MODULE ReplicationProofs --------------------------
(***************************************************************************)
(* Proofs about Replication.  For any number of clients, concurrent        *)
(* mutations and overlapping ingests: the replica applies a gap-free prefix*)
(* of the source's chain and never passes a dropped mutation.  When        *)
(* ingests do not overlap, it never rolls a credential back; when          *)
(* mutations do not overlap either, it mirrors the primary.                *)
(***************************************************************************)
EXTENDS Replication, TumblerMapProofs, FiniteSetTheorems, SequenceTheorems, TLAPS

-----------------------------------------------------------------------------
(* What the members of the record types look like.                          *)

LEMMA MutationShapes ==
  /\ \A c \in ClientId, m \in Map : [op |-> "set", client |-> c, map |-> m] \in Mutation
  /\ \A c \in ClientId : [op |-> "delete", client |-> c] \in Mutation
  /\ \A c \in ClientId, u \in Updates :
       [op |-> "updateCounters", client |-> c, updates |-> u] \in Mutation
  /\ \A c \in ClientId, s \in Seg, n \in Usable :
       [op |-> "consumeCounter", client |-> c, seg |-> s, matched |-> n] \in Mutation
  BY DEF Mutation

LEMMA MutationCases ==
  ASSUME NEW x \in Mutation
  PROVE  /\ x.client \in ClientId
         /\ x.op = "set" => x.map \in Map
         /\ x.op = "updateCounters" => x.updates \in Updates
         /\ x.op = "consumeCounter" => x.seg \in Seg /\ x.matched \in Usable
  BY DEF Mutation

LEMMA CallShapes ==
  /\ Idle \in CallState
  /\ \A r \in Seq(ClientId) : r # << >> => [pc |-> "reread", rest |-> r] \in CallState
  /\ \A x \in Mutation, r \in Seq(ClientId) :
       [pc |-> "enqueue", mut |-> x, rest |-> r] \in CallState
  BY DEF CallState

LEMMA CallCases ==
  ASSUME NEW x \in CallState
  PROVE  /\ x.pc = "reread" => x.rest \in Seq(ClientId) /\ x.rest # << >>
         /\ x.pc = "enqueue" => x.rest \in Seq(ClientId) /\ x.mut \in Mutation
  BY DEF CallState, Idle

LEMMA IngestShapes ==
  /\ Idle \in IngestState
  /\ \A p \in {"wire", "unseal", "applied", "answer"}, n \in Nat, w \in BOOLEAN :
       [pc |-> p, seq |-> n, waited |-> w] \in IngestState
  /\ \A n \in Nat, w \in BOOLEAN, m \in Map \cup {NoMap} :
       [pc |-> "got", seq |-> n, waited |-> w, current |-> m] \in IngestState
  BY DEF IngestState

LEMMA IngestCases ==
  ASSUME NEW x \in IngestState, x # Idle
  PROVE  /\ x.seq \in Nat /\ x.waited \in BOOLEAN
         /\ x.pc \in {"wire", "unseal", "applied", "answer", "got"}
         /\ x.pc = "got" => x.current \in Map \cup {NoMap}
         /\ [x EXCEPT !.waited = FALSE] \in IngestState
         /\ [x EXCEPT !.waited = FALSE].pc = x.pc
         /\ [x EXCEPT !.waited = FALSE].seq = x.seq
         /\ x.pc = "got" => [x EXCEPT !.waited = FALSE].current = x.current
  BY DEF IngestState

(* The stores' operations keep a map a map.                                 *)
LEMMA UpdatedFacts ==
  ASSUME NEW m \in Map, NEW ups \in Updates
  PROVE  /\ Updated(m, ups) \in Map
         /\ UpdateOk(m, ups) =>
              /\ Updated(m, ups).requestCount = m.requestCount
              /\ \A s \in Seg : Updated(m, ups).ctr[s] >= m.ctr[s]
              /\ m.status \in Terminal => Updated(m, ups).status \in Terminal
  <1> DEFINE x == [m EXCEPT !.ctr = [s \in Seg |-> IF s \in DOMAIN ups THEN ups[s] ELSE m.ctr[s]]]
  <1>1. \A s \in DOMAIN ups : ups[s] \in Counter
    BY DEF Updates
  <1>2. m.ctr \in [Seg -> Counter]
    BY DEF Map
  <1>3. x \in Map /\ x.requestCount = m.requestCount /\ x.status = m.status
    BY <1>1, <1>2 DEF Map
  <1>4. \A s \in Seg : x.ctr[s] = IF s \in DOMAIN ups THEN ups[s] ELSE m.ctr[s]
    BY <1>2 DEF Map
  <1>5. Updated(m, ups) = Reconciled(x)
    BY DEF Updated
  <1>6. \A s \in Seg : m.ctr[s] \in Nat
    BY <1>2, MapAssumption DEF Counter
  <1>7. UpdateOk(m, ups) => \A s \in Seg : x.ctr[s] >= m.ctr[s]
    BY <1>4, <1>6 DEF UpdateOk
  <1> HIDE DEF x
  <1>8. /\ Reconciled(x) \in Map /\ Reconciled(x).ctr = x.ctr
        /\ Reconciled(x).requestCount = x.requestCount
        /\ x.status \in Terminal => Reconciled(x) = x
    BY <1>3, ReconciledFacts
  <1> QED
    BY <1>3, <1>5, <1>7, <1>8

LEMMA ConsumedFacts ==
  ASSUME NEW m \in Map, NEW s \in Seg, NEW n \in Usable
  PROVE  /\ Consumed(m, s, n) \in Map
         /\ Consumed(m, s, n).requestCount = m.requestCount
         /\ \A q \in Seg : Consumed(m, s, n).ctr[q] >= m.ctr[q]
         /\ m.status \in Terminal => Consumed(m, s, n).status \in Terminal
  <1> DEFINE x == [m EXCEPT !.ctr[s] = n + 1]
  <1>1. m.ctr \in [Seg -> Counter] /\ n + 1 \in Counter
    BY MapAssumption DEF Map, Counter, Usable
  <1>2. x \in Map /\ x.requestCount = m.requestCount /\ x.status = m.status
    BY <1>1 DEF Map
  <1>3. \A q \in Seg : x.ctr[q] = IF q = s THEN n + 1 ELSE m.ctr[q]
    BY <1>1 DEF Map
  <1>4. \A q \in Seg : m.ctr[q] \in Nat
    BY <1>1, MapAssumption DEF Counter
  <1>5. ConsumeOk(m, s, n) => \A q \in Seg : x.ctr[q] >= m.ctr[q]
    BY <1>3, <1>4 DEF ConsumeOk, Usable
  <1>6. ConsumeOk(m, s, n) => Consumed(m, s, n) = Reconciled(x)
    BY DEF Consumed
  <1> HIDE DEF x
  <1>7. /\ Reconciled(x) \in Map /\ Reconciled(x).ctr = x.ctr
        /\ Reconciled(x).requestCount = x.requestCount
        /\ x.status \in Terminal => Reconciled(x) = x
    BY <1>2, ReconciledFacts
  <1>8. CASE ConsumeOk(m, s, n)
    BY <1>8, <1>2, <1>5, <1>6, <1>7
  <1>9. CASE ~ConsumeOk(m, s, n)
    <2>1. "expired" \in Status /\ "expired" \in Terminal
      BY DEF Status, Terminal
    <2>2. Consumed(m, s, n) = m \/ Consumed(m, s, n) = [m EXCEPT !.status = "expired"]
      BY <1>9 DEF Consumed
    <2>3. PICK e : e = [m EXCEPT !.status = "expired"]
      OBVIOUS
    <2>4. e \in Map /\ e.status = "expired" /\ e.ctr = m.ctr /\ e.requestCount = m.requestCount
      BY <2>1, <2>3, StatusChange
    <2>5. \A q \in Seg : m.ctr[q] >= m.ctr[q]
      BY <1>4
    <2> QED
      BY <2>1, <2>2, <2>3, <2>4, <2>5
  <1> QED
    BY <1>8, <1>9

-----------------------------------------------------------------------------
(* Type correctness. *)

LEMMA MirrorTypeInit == MirrorInit => MirrorTypeOK
  <1> SUFFICES ASSUME MirrorInit PROVE MirrorTypeOK
    OBVIOUS
  <1>1. call \in [Calls -> CallState] /\ ingest \in [Ingests -> IngestState]
    BY CallShapes, IngestShapes DEF MirrorInit
  <1>2. /\ log \in Seq(Mutation) /\ queue \in Seq(DOMAIN log)
        /\ Len(log) = 0 /\ ckpt \in 0..Len(log)
        /\ \A i \in Ingests : ingest[i] = Idle
    BY DEF MirrorInit
  <1>3. primary \in Store /\ replica \in Store
    BY DEF MirrorInit, Store
  <1>4. dropped = {} /\ applied = {} /\ issued = {} /\ lost = FALSE /\ rlost = FALSE
    BY DEF MirrorInit
  <1> QED
    BY <1>1, <1>2, <1>3, <1>4 DEF MirrorTypeOK

(* A mutation that touches only the primary and its own call.               *)
LEMMA CallType ==
  ASSUME MirrorTypeOK, NEW k \in Calls, NEW x \in CallState,
         call' = [call EXCEPT ![k] = x], primary' \in Store, issued' \subseteq ClientId,
         UNCHANGED <<log, queue, lost, dropped, receiverVars>>
  PROVE  MirrorTypeOK'
  BY DEF MirrorTypeOK, receiverVars

(* An ingest that moves to a state of the same sequence.                    *)
LEMMA IngestType ==
  ASSUME MirrorTypeOK, NEW i \in Ingests, NEW x \in IngestState,
         ingest[i] # Idle, x # Idle => x.seq = ingest[i].seq,
         ingest' = [ingest EXCEPT ![i] = x],
         replica' \in Store, rlost' \in BOOLEAN,
         ckpt' = ckpt \/ ckpt' = ingest[i].seq,
         applied' = applied \/ applied' = applied \cup {ingest[i].seq},
         UNCHANGED sourceVars
  PROVE  MirrorTypeOK'
  <1>1. ingest[i].seq \in DOMAIN log /\ DOMAIN log = 1..Len(log) /\ Len(log) \in Nat
    BY DEF MirrorTypeOK
  <1>2. ckpt' \in 0..Len(log) /\ applied' \subseteq DOMAIN log
    BY <1>1 DEF MirrorTypeOK
  <1>3. /\ ingest' \in [Ingests -> IngestState]
        /\ \A j \in Ingests : ingest'[j] # Idle => ingest'[j].seq \in DOMAIN log
    BY <1>1 DEF MirrorTypeOK
  <1> QED
    BY <1>2, <1>3 DEF MirrorTypeOK, sourceVars

LEMMA SourceTypeStep ==
  ASSUME MirrorTypeOK, NEW k \in Calls, Mutate(k)
  PROVE  MirrorTypeOK'
  <1> USE CallShapes, MutationShapes
  <1>e. << >> \in Seq(ClientId)
    OBVIOUS
  <1>1. ASSUME NEW c \in ClientId, NEW m \in SetInput(c), set(k, c, m) PROVE MirrorTypeOK'
    <2>1. m \in Map
      <3>1. CASE c \notin issued
        BY <3>1, NewMapFacts DEF SetInput
      <3>2. CASE c \in issued
        <4>1. PICK x \in Copies(c) : \E st \in Terminal \cup {x.status} :
                m = [x EXCEPT !.status = st]
          BY <3>2 DEF SetInput
        <4>2. x \in Map
          <5>1. CASE primary[c] = NoMap
            BY <4>1, <5>1, NewMapFacts DEF Copies
          <5>2. CASE primary[c] # NoMap
            <6>1. primary[c] \in Map
              BY <5>2 DEF MirrorTypeOK, Store
            <6>2. NewMap(primary[c].limits, 0) \in Map
              BY <6>1, MapAssumption DEF NewMap, Map, Status, Counter
            <6> QED
              BY <4>1, <5>2, <6>1, <6>2 DEF Copies
          <5> QED
            BY <5>1, <5>2
        <4>3. Terminal \cup {x.status} \subseteq Status
          BY <4>2 DEF Terminal, Status, Map
        <4> QED
          BY <4>1, <4>2, <4>3, StatusChange
      <3> QED
        BY <3>1, <3>2
    <2>2. primary' \in Store /\ issued' \subseteq ClientId
      BY <1>1, <2>1 DEF set, MirrorTypeOK, Store
    <2>3. PICK x : x = [pc |-> "enqueue", rest |-> << >>,
                        mut |-> [op |-> "set", client |-> c, map |-> m]]
      OBVIOUS
    <2>4. x \in CallState
      BY <2>1, <2>3, <1>e
    <2> QED
      BY <1>1, <2>2, <2>3, <2>4, CallType DEF set, Mirror
  <1>2. ASSUME NEW c \in ClientId, delete(k, c) PROVE MirrorTypeOK'
    <2>1. primary' \in Store /\ issued' \subseteq ClientId
      BY <1>2 DEF delete, MirrorTypeOK, Store
    <2>2. PICK x : x = [pc |-> "enqueue", rest |-> << >>,
                        mut |-> [op |-> "delete", client |-> c]]
      OBVIOUS
    <2>3. x \in CallState
      BY <2>2, <1>e
    <2> QED
      BY <1>2, <2>1, <2>2, <2>3, CallType DEF delete, Mirror
  <1>3. ASSUME NEW c \in ClientId, NEW ups \in Updates, updateCounters(k, c, ups)
        PROVE  MirrorTypeOK'
    <2>1. primary[c] # NoMap => primary[c] \in Map
      BY DEF MirrorTypeOK, Store
    <2>2. primary[c] # NoMap => Updated(primary[c], ups) \in Map
      BY <2>1, UpdatedFacts
    <2>3. primary' \in Store /\ issued' \subseteq ClientId
      BY <1>3, <2>2 DEF updateCounters, MirrorTypeOK, Store
    <2>4. PICK x : x = [pc |-> "enqueue", rest |-> << >>,
                        mut |-> [op |-> "updateCounters", client |-> c, updates |-> ups]]
      OBVIOUS
    <2>5. x \in CallState
      BY <2>4, <1>e
    <2> QED
      BY <1>3, <2>3, <2>4, <2>5, CallType DEF updateCounters, Mirror
  <1>4. ASSUME NEW c \in ClientId, NEW s \in Seg, NEW n \in Usable, consumeCounter(k, c, s, n)
        PROVE  MirrorTypeOK'
    <2>1. primary[c] \in Map
      BY <1>4 DEF consumeCounter, MirrorTypeOK, Store
    <2>2. Consumed(primary[c], s, n) \in Map
      BY <2>1, ConsumedFacts
    <2>3. primary' \in Store /\ issued' \subseteq ClientId
      BY <1>4, <2>2 DEF consumeCounter, MirrorTypeOK, Store
    <2>4. PICK x : x = [pc |-> "enqueue", rest |-> << >>,
                   mut |-> [op |-> "consumeCounter", client |-> c, seg |-> s, matched |-> n]]
      OBVIOUS
    <2>5. x \in CallState /\ call[k] \in CallState
      BY <2>4, <1>e DEF MirrorTypeOK
    <2>6. call' = [call EXCEPT ![k] = x] \/ call' = [call EXCEPT ![k] = call[k]]
      BY <1>4, <2>4 DEF consumeCounter, Mirror, MirrorTypeOK
    <2> QED
      BY <1>4, <2>3, <2>5, <2>6, CallType DEF consumeCounter
  <1>5. ASSUME NEW c \in ClientId, NEW v \in Vector, commitValidation(k, c, v)
        PROVE  MirrorTypeOK'
    <2>1. primary[c] \in Map
      BY <1>5 DEF commitValidation, MirrorTypeOK, Store
    <2>2. commitValidationToMap(primary[c], v, 0) \in Map
      BY <2>1, CommitKeepsMap
    <2>3. primary' \in Store /\ issued' \subseteq ClientId
      BY <1>5, <2>2 DEF commitValidation, MirrorTypeOK, Store
    <2>4. [pc |-> "reread", rest |-> <<c>>] \in CallState
      <3>1. <<c>> \in Seq(ClientId) /\ Len(<<c>>) = 1 /\ Len(<< >>) = 0
        OBVIOUS
      <3>2. <<c>> # << >>
        BY <3>1
      <3> QED
        BY <3>1, <3>2, CallShapes
    <2> QED
      BY <1>5, <2>3, <2>4, CallType DEF commitValidation, Reread
  <1>6. ASSUME NEW c \in ClientId, NEW new \in ClientId, NEW lc \in Lifecycle,
               replaceCredential(k, c, new, lc)
        PROVE  MirrorTypeOK'
    <2>1. primary[c] \in Map /\ "revoked" \in Status
      BY <1>6 DEF replaceCredential, MirrorTypeOK, Store, Status
    <2>2. [primary[c] EXCEPT !.status = "revoked"] \in Map /\ NewMap(lc, 0) \in Map
      BY <2>1, StatusChange, NewMapFacts
    <2>3. primary' \in Store /\ issued' \subseteq ClientId
      BY <1>6, <2>2 DEF replaceCredential, MirrorTypeOK, Store
    <2>4. [pc |-> "reread", rest |-> <<c, new>>] \in CallState
      <3>1. <<c, new>> \in Seq(ClientId) /\ Len(<<c, new>>) = 2 /\ Len(<< >>) = 0
        OBVIOUS
      <3>2. <<c, new>> # << >>
        BY <3>1
      <3> QED
        BY <3>1, <3>2, CallShapes
    <2> QED
      BY <1>6, <2>3, <2>4, CallType DEF replaceCredential, Reread
  <1> QED
    BY <1>1, <1>2, <1>3, <1>4, <1>5, <1>6 DEF Mutate

LEMMA ContinueTypeStep ==
  ASSUME MirrorTypeOK, NEW k \in Calls, Continue(k)
  PROVE  MirrorTypeOK'
  <1>c. call[k] \in CallState
    BY DEF MirrorTypeOK
  <1>1. CASE reread(k)
    <2>1. PICK r : r = call[k].rest
      OBVIOUS
    <2>2. r \in Seq(ClientId) /\ r # << >>
      BY <1>1, <1>c, <2>1, CallCases DEF reread
    <2>3. Head(r) \in ClientId /\ Tail(r) \in Seq(ClientId)
      BY <2>2
    <2>4. primary[Head(r)] # NoMap => primary[Head(r)] \in Map
      BY <2>3 DEF MirrorTypeOK, Store
    <2>5. PICK m : m = [op |-> "set", client |-> Head(r), map |-> primary[Head(r)]]
      OBVIOUS
    <2>6. primary[Head(r)] # NoMap => m \in Mutation
      BY <2>3, <2>4, <2>5, MutationShapes
    <2>7. PICK x : x = IF primary[Head(r)] # NoMap
                       THEN [pc |-> "enqueue", rest |-> Tail(r), mut |-> m]
                       ELSE IF Tail(r) = << >> THEN Idle ELSE [pc |-> "reread", rest |-> Tail(r)]
      OBVIOUS
    <2>8. x \in CallState
      BY <2>3, <2>6, <2>7, CallShapes
    <2>9. call' = [call EXCEPT ![k] = x]
      BY <1>1, <2>1, <2>5, <2>7 DEF reread
    <2> QED
      BY <1>1, <2>8, <2>9, CallType DEF reread, MirrorTypeOK
  <1>2. CASE enqueueMutation(k)
    <2>1. call[k].mut \in Mutation /\ call[k].rest \in Seq(ClientId)
      BY <1>2, <1>c, CallCases DEF enqueueMutation
    <2>2. PICK n : n = Len(log) + 1
      OBVIOUS
    <2>3. /\ log' \in Seq(Mutation) /\ Len(log') = n /\ DOMAIN log' = 1..n
          /\ Len(log) \in Nat /\ DOMAIN log = 1..Len(log) /\ n \in 1..n
      BY <1>2, <2>1, <2>2 DEF enqueueMutation, MirrorTypeOK
    <2>4. DOMAIN log \subseteq DOMAIN log' /\ n \in DOMAIN log'
      BY <2>2, <2>3
    <2>5. queue' \in Seq(DOMAIN log')
      <3>1. queue \in Seq(DOMAIN log')
        BY <2>4 DEF MirrorTypeOK
      <3>2. queue' = queue \/ queue' = Append(queue, n)
        BY <1>2, <2>2 DEF enqueueMutation
      <3> QED
        BY <3>1, <3>2, <2>4
    <2>6. call' \in [Calls -> CallState]
      <3>1. PICK x : x = IF call[k].rest = << >> THEN Idle
                         ELSE [pc |-> "reread", rest |-> call[k].rest]
        OBVIOUS
      <3>2. x \in CallState
        BY <3>1, <2>1, CallShapes
      <3>3. call' = [call EXCEPT ![k] = x]
        BY <1>2, <3>1 DEF enqueueMutation
      <3> QED
        BY <3>2, <3>3 DEF MirrorTypeOK
    <2>7. lost' \in BOOLEAN /\ dropped' \subseteq DOMAIN log'
      BY <1>2, <2>2, <2>4 DEF enqueueMutation, MirrorTypeOK
    <2>8. UNCHANGED <<primary, issued, replica, ckpt, rlost, ingest, applied>>
      BY <1>2 DEF enqueueMutation, receiverVars
    <2>9. ckpt' \in 0..Len(log') /\ applied' \subseteq DOMAIN log'
      BY <2>2, <2>3, <2>4, <2>8 DEF MirrorTypeOK
    <2>10. \A i \in Ingests : ingest'[i] # Idle => ingest'[i].seq \in DOMAIN log'
      BY <2>4, <2>8 DEF MirrorTypeOK
    <2> QED
      BY <2>3, <2>5, <2>6, <2>7, <2>8, <2>9, <2>10 DEF MirrorTypeOK
  <1> QED
    BY <1>1, <1>2 DEF Continue

(* The map an ingest read, the operation it carries.                        *)
LEMMA IngestFacts ==
  ASSUME MirrorTypeOK, NEW i \in Ingests, ingest[i] # Idle
  PROVE  /\ ingest[i] \in IngestState
         /\ ingest[i].seq \in Nat /\ ingest[i].waited \in BOOLEAN
         /\ Mut(i) \in Mutation
         /\ Mut(i).client \in ClientId
         /\ replica[Mut(i).client] \in Map \cup {NoMap}
  <1>1. ingest[i] \in IngestState /\ ingest[i].seq \in DOMAIN log
    BY DEF MirrorTypeOK
  <1>2. Mut(i) \in Mutation
    BY <1>1 DEF Mut, MirrorTypeOK
  <1> QED
    BY <1>1, <1>2, IngestCases, MutationCases DEF MirrorTypeOK, Store

LEMMA IngestTypeStep ==
  ASSUME MirrorTypeOK, NEW i \in Ingests,
         Ingest(i) \/ unsealFails(i) \/ LoseRequest(i) \/ GiveUp(i)
  PROVE  MirrorTypeOK'
  <1>r. replica \in Store /\ rlost \in BOOLEAN
    BY DEF MirrorTypeOK
  <1>i. Idle \in IngestState /\ Idle.pc = "idle"
    BY IngestShapes DEF Idle
  <1>1. CASE push(i)
    <2>1. queue \in Seq(DOMAIN log) /\ queue # << >> /\ Len(log) \in Nat
      BY <1>1 DEF push, MirrorTypeOK
    <2>2. Head(queue) \in DOMAIN log
      BY <2>1
    <2>3. DOMAIN log = 1..Len(log)
      BY DEF MirrorTypeOK
    <2>4. Head(queue) \in Nat
      BY <2>1, <2>2, <2>3
    <2>5. PICK x : x = [pc |-> "wire", seq |-> Head(queue), waited |-> TRUE]
      OBVIOUS
    <2>6. x \in IngestState /\ x.seq = Head(queue)
      BY <2>4, <2>5, IngestShapes
    <2>7. ingest' = [ingest EXCEPT ![i] = x] /\ UNCHANGED <<sourceVars, replica, ckpt, rlost, applied>>
      BY <1>1, <2>5 DEF push
    <2>8. /\ ingest' \in [Ingests -> IngestState]
          /\ \A j \in Ingests : ingest'[j] # Idle => ingest'[j].seq \in DOMAIN log
      BY <2>2, <2>6, <2>7 DEF MirrorTypeOK
    <2> QED
      BY <2>7, <2>8 DEF MirrorTypeOK, sourceVars
  <1>2. CASE ack(i)
    <2>1. queue' \in Seq(DOMAIN log)
      <3>1. queue \in Seq(DOMAIN log)
        BY DEF MirrorTypeOK
      <3>2. queue' = queue \/ (queue # << >> /\ queue' = Tail(queue))
        BY <1>2 DEF ack, AtHead
      <3> QED
        BY <3>1, <3>2
    <2>2. lost' \in BOOLEAN /\ ingest' = [ingest EXCEPT ![i] = Idle]
      BY <1>2 DEF ack, MirrorTypeOK
    <2>3. UNCHANGED <<primary, issued, call, log, dropped, replica, ckpt, rlost, applied>>
      BY <1>2 DEF ack
    <2> QED
      BY <1>i, <2>1, <2>2, <2>3 DEF MirrorTypeOK
  <1>3. CASE outOfOrder(i)
    <2>1. ingest[i] # Idle /\ rlost' \in BOOLEAN
      BY <1>3, <1>i, <1>r DEF outOfOrder
    <2> QED
      BY <1>3, <1>i, <1>r, <2>1, IngestType DEF outOfOrder, Refuse
  <1>4. CASE unsealFails(i) \/ LoseRequest(i)
    <2>1. ingest[i] # Idle
      BY <1>4, <1>i DEF unsealFails, LoseRequest
    <2> QED
      BY <1>4, <1>i, <1>r, <2>1, IngestType DEF unsealFails, LoseRequest, Refuse
  <1>5. CASE GiveUp(i)
    <2>1. ingest[i] # Idle /\ ingest[i] \in IngestState
      BY <1>5 DEF GiveUp, MirrorTypeOK
    <2>2. PICK x : x = [ingest[i] EXCEPT !.waited = FALSE]
      OBVIOUS
    <2>3. x \in IngestState /\ x.seq = ingest[i].seq
      BY <2>1, <2>2, IngestCases
    <2>4. ingest' = [ingest EXCEPT ![i] = x]
      BY <1>5, <2>2 DEF GiveUp
    <2> QED
      BY <1>5, <1>r, <2>1, <2>3, <2>4, IngestType DEF GiveUp
  (* The states To and Got lead to. *)
  <1>t. ASSUME NEW p \in {"wire", "unseal", "applied", "answer"}, ingest[i] # Idle
        PROVE  /\ [pc |-> p, seq |-> ingest[i].seq, waited |-> ingest[i].waited] \in IngestState
               /\ [pc |-> p, seq |-> ingest[i].seq, waited |-> ingest[i].waited].seq = ingest[i].seq
    BY <1>t, IngestFacts, IngestShapes
  <1>g. ASSUME NEW m \in Map \cup {NoMap}, ingest[i] # Idle
        PROVE  /\ [pc |-> "got", seq |-> ingest[i].seq, waited |-> ingest[i].waited,
                   current |-> m] \in IngestState
               /\ [pc |-> "got", seq |-> ingest[i].seq, waited |-> ingest[i].waited,
                   current |-> m].seq = ingest[i].seq
    BY <1>g, IngestFacts, IngestShapes
  <1>6. CASE ingestSet(i)
    <2>1. ingest[i] # Idle
      BY <1>6, <1>i DEF ingestSet
    <2> QED
      BY <1>6, <1>r, <1>t, <2>1, IngestType DEF ingestSet, To
  <1>7. CASE unsealed(i) \/ ingestUpdate(i)
    <2>1. ingest[i] # Idle
      BY <1>7, <1>i DEF unsealed, ingestUpdate
    <2>2. PICK m : m = replica[Mut(i).client]
      OBVIOUS
    <2>3. m \in Map \cup {NoMap}
      BY <2>1, <2>2, IngestFacts
    <2>4. ingest' = [ingest EXCEPT ![i] =
             [pc |-> "got", seq |-> ingest[i].seq, waited |-> ingest[i].waited, current |-> m]]
      BY <1>7, <2>2 DEF unsealed, ingestUpdate, Got
    <2>5. UNCHANGED <<sourceVars, replica, ckpt, rlost, applied>>
      BY <1>7 DEF unsealed, ingestUpdate
    <2> QED
      BY <1>r, <1>g, <2>1, <2>3, <2>4, <2>5, IngestType
  <1>8. CASE advance(i)
    <2>1. ingest[i] # Idle
      BY <1>8, <1>i DEF advance
    <2> QED
      BY <1>8, <1>r, <1>t, <2>1, IngestType DEF advance, To
  <1>9. CASE applySet(i) \/ ingestDelete(i) \/ applyUpdate(i) \/ ingestConsume(i)
    <2>1. ingest[i] # Idle
      BY <1>9, <1>i DEF applySet, ingestDelete, applyUpdate, ingestConsume
    <2>2. PICK c : c = Mut(i).client
      OBVIOUS
    <2>3. c \in ClientId /\ replica[c] \in Map \cup {NoMap} /\ Mut(i) \in Mutation
      BY <2>1, <2>2, IngestFacts
    <2>4. replica' \in Store
      <3>1. CASE applySet(i)
        <4>1. Mut(i).map \in Map
          BY <3>1, <2>3, MutationCases DEF applySet
        <4>2. replica' = replica \/ replica' = [replica EXCEPT ![c] = Mut(i).map]
          BY <3>1, <2>2 DEF applySet
        <4> QED
          BY <4>1, <4>2, <1>r, <2>3 DEF Store
      <3>2. CASE ingestDelete(i)
        BY <3>2, <1>r, <2>2, <2>3 DEF ingestDelete, Store
      <3>3. CASE applyUpdate(i)
        <4>1. Mut(i).updates \in Updates
          BY <3>3, <2>3, MutationCases DEF applyUpdate
        <4>2. replica[c] # NoMap => Updated(replica[c], Mut(i).updates) \in Map
          BY <4>1, <2>3, UpdatedFacts
        <4>3. \/ replica' = replica
              \/ replica[c] # NoMap /\ replica' = [replica EXCEPT ![c] = Updated(@, Mut(i).updates)]
          BY <3>3, <2>2 DEF applyUpdate
        <4> QED
          BY <4>2, <4>3, <1>r, <2>3 DEF Store
      <3>4. CASE ingestConsume(i)
        <4>1. Mut(i).seg \in Seg /\ Mut(i).matched \in Usable
          BY <3>4, <2>3, MutationCases DEF ingestConsume
        <4>2. replica[c] # NoMap => Consumed(replica[c], Mut(i).seg, Mut(i).matched) \in Map
          BY <4>1, <2>3, ConsumedFacts
        <4>3. \/ replica' = replica
              \/ /\ replica[c] # NoMap
                 /\ replica' = [replica EXCEPT ![c] = Consumed(@, Mut(i).seg, Mut(i).matched)]
          BY <3>4, <2>2 DEF ingestConsume
        <4> QED
          BY <4>2, <4>3, <1>r, <2>3 DEF Store
      <3> QED
        BY <1>9, <3>1, <3>2, <3>3, <3>4
    <2>5. /\ rlost' \in BOOLEAN
          /\ applied' = applied \/ applied' = applied \cup {ingest[i].seq}
          /\ UNCHANGED <<sourceVars, ckpt>>
      BY <1>9, <1>r DEF applySet, ingestDelete, applyUpdate, ingestConsume
    <2>6. \/ ingest' = [ingest EXCEPT ![i] = Idle]
          \/ ingest' = [ingest EXCEPT ![i] =
               [pc |-> "applied", seq |-> ingest[i].seq, waited |-> ingest[i].waited]]
      BY <1>9 DEF applySet, ingestDelete, applyUpdate, ingestConsume, To, Refuse
    <2>7. CASE ingest' = [ingest EXCEPT ![i] = Idle]
      BY <2>1, <2>4, <2>5, <2>7, <1>i, IngestType
    <2>8. CASE ingest' = [ingest EXCEPT ![i] =
               [pc |-> "applied", seq |-> ingest[i].seq, waited |-> ingest[i].waited]]
      BY <2>1, <2>4, <2>5, <2>8, <1>t, IngestType
    <2> QED
      BY <2>6, <2>7, <2>8
  <1> QED
    BY <1>1, <1>2, <1>3, <1>4, <1>5, <1>6, <1>7, <1>8, <1>9 DEF Ingest

(* Every step of both ends keeps the representation.                        *)
THEOREM MirrorTypeCorrect == MirrorSpec => []MirrorTypeOK
  <1>1. MirrorTypeOK /\ [MirrorNext]_mirrorVars => MirrorTypeOK'
    <2> SUFFICES ASSUME MirrorTypeOK, [MirrorNext]_mirrorVars PROVE MirrorTypeOK'
      OBVIOUS
    <2>1. CASE UNCHANGED mirrorVars
      BY <2>1 DEF mirrorVars, sourceVars, receiverVars, MirrorTypeOK
    <2> QED
      BY <2>1, SourceTypeStep, ContinueTypeStep, IngestTypeStep DEF MirrorNext
  <1> QED
    BY <1>1, MirrorTypeInit, PTL DEF MirrorSpec

-----------------------------------------------------------------------------
(* The stream. *)

LEMMA MirrorInvInit == MirrorInit => MirrorInv
  BY DEF MirrorInit, MirrorInv, QueueSound, IngestSound, GapFree, CheckpointApplied,
     Passed, Idle

(* A step that leaves the stream alone.                                     *)
LEMMA StreamStutter ==
  ASSUME MirrorInv, UNCHANGED <<queue, dropped, ckpt, ingest, applied>>
  PROVE  MirrorInv'
  BY DEF MirrorInv, QueueSound, IngestSound, GapFree, CheckpointApplied, Passed, AtHead

(* An ingest that ends, or moves on with its sequence; whether push waits   *)
(* for it can only become false.                                            *)
LEMMA IngestMoves ==
  ASSUME MirrorTypeOK, MirrorInv, NEW i \in Ingests, ingest[i] # Idle, NEW x,
         ingest' = [ingest EXCEPT ![i] = x],
         \/ x = Idle
         \/ /\ x # Idle /\ x.seq = ingest[i].seq
            /\ x.waited => ingest[i].waited
            /\ x.pc \in {"unseal", "got", "applied", "answer"} => 1..(x.seq - 1) \subseteq applied
            /\ x.pc \in {"applied", "answer"} => x.seq \in applied',
         applied' = applied \/ (applied' = applied \cup {ingest[i].seq} /\ x # Idle
                                 /\ 1..(ingest[i].seq - 1) \subseteq applied),
         ckpt' = ckpt \/ (ckpt' = ingest[i].seq /\ 1..ckpt' \subseteq applied),
         UNCHANGED <<queue, dropped>>
  PROVE  MirrorInv'
  <1>t. /\ ingest[i].seq \in Nat \ {0}
        /\ \A j \in Ingests : j # i => ingest'[j] = ingest[j]
        /\ ingest'[i] = x
        /\ applied \subseteq Nat \ {0}
    BY DEF MirrorTypeOK
  <1>a. applied \subseteq applied'
    OBVIOUS
  <1>1. QueueSound'
    <2>1. \A q \in DOMAIN queue' : queue'[q] \notin dropped'
      BY DEF MirrorInv, QueueSound
    <2>2. \A j \in Ingests : ingest'[j] # Idle =>
             /\ ingest[j] # Idle /\ ingest'[j].seq = ingest[j].seq
             /\ ingest'[j].waited => ingest[j].waited
      BY <1>t
    <2>q. /\ \A j \in Ingests : ingest[j] # Idle =>
               /\ ingest[j].seq \notin dropped
               /\ ingest[j].waited => AtHead(ingest[j].seq)
          /\ \A j, k \in Ingests :
               (ingest[j] # Idle /\ ingest[k] # Idle /\ ingest[j].waited /\ ingest[k].waited)
                 => j = k
      BY DEF MirrorInv, QueueSound
    <2>3. ASSUME NEW j \in Ingests, ingest'[j] # Idle
          PROVE  /\ ingest'[j].seq \notin dropped'
                 /\ ingest'[j].waited => (queue' # << >> /\ Head(queue') = ingest'[j].seq)
      <3>1. ingest[j] # Idle /\ ingest'[j].seq = ingest[j].seq
        BY <2>2, <2>3
      <3>2. ingest'[j].waited => ingest[j].waited
        BY <2>2, <2>3
      <3>3. ingest[j].seq \notin dropped
        BY <3>1, <2>q
      <3>4. ingest[j].waited => queue # << >> /\ Head(queue) = ingest[j].seq
        BY <3>1, <2>q DEF AtHead
      <3> QED
        BY <3>1, <3>2, <3>3, <3>4
    <2>4. ASSUME NEW j \in Ingests, NEW k \in Ingests, ingest'[j] # Idle, ingest'[k] # Idle,
                 ingest'[j].waited, ingest'[k].waited
          PROVE  j = k
      <3>1. ingest[j] # Idle /\ ingest[j].waited
        BY <2>2, <2>4
      <3>2. ingest[k] # Idle /\ ingest[k].waited
        BY <2>2, <2>4
      <3> QED
        BY <3>1, <3>2, <2>q
    <2> QED
      BY <2>1, <2>3, <2>4 DEF QueueSound, AtHead
  <1>2. IngestSound'
    BY <1>t, <1>a DEF MirrorInv, IngestSound, Passed, Idle
  <1>3. GapFree'
    <2> SUFFICES ASSUME NEW s \in applied', NEW n \in 1..s PROVE n \in applied'
      BY DEF GapFree
    <2>1. CASE s \in applied
      BY <2>1, <1>a DEF MirrorInv, GapFree
    <2>2. CASE s \notin applied
      <3>1. s = ingest[i].seq /\ 1..(s - 1) \subseteq applied
        BY <2>2
      <3>2. n = s \/ n \in 1..(s - 1)
        BY <3>1, <1>t
      <3> QED
        BY <3>1, <3>2, <1>a
    <2> QED
      BY <2>1, <2>2
  <1>4. dropped' \cap applied' = {}
    BY <1>t DEF MirrorInv, QueueSound
  <1>5. CheckpointApplied'
    BY <1>a DEF MirrorInv, CheckpointApplied
  <1> QED
    BY <1>1, <1>2, <1>3, <1>4, <1>5 DEF MirrorInv

LEMMA MirrorInvStep == MirrorTypeOK /\ MirrorInv /\ [MirrorNext]_mirrorVars => MirrorInv'
  <1> SUFFICES ASSUME MirrorTypeOK, MirrorInv, [MirrorNext]_mirrorVars PROVE MirrorInv'
    OBVIOUS
  <1>i. Idle.pc = "idle"
    BY DEF Idle
  <1>d. DOMAIN log = 1..Len(log) /\ Len(log) \in Nat
    BY DEF MirrorTypeOK
  <1>1. CASE UNCHANGED mirrorVars
    BY <1>1, StreamStutter DEF mirrorVars, sourceVars, receiverVars
  <1>2. ASSUME NEW k \in Calls, Mutate(k) \/ reread(k) PROVE MirrorInv'
    <2>1. UNCHANGED <<queue, dropped, receiverVars>>
      BY <1>2 DEF Mutate, set, delete, updateCounters, consumeCounter, commitValidation,
         replaceCredential, reread
    <2> QED
      BY <2>1, StreamStutter DEF receiverVars
  <1>3. ASSUME NEW k \in Calls, enqueueMutation(k) PROVE MirrorInv'
    <2>1. PICK n : n = Len(log) + 1
      OBVIOUS
    <2>2. /\ n \notin DOMAIN log
          /\ dropped' = dropped \/ dropped' = dropped \cup {n}
          /\ queue' = queue \/ (queue' = Append(queue, n) /\ dropped' = dropped)
          /\ UNCHANGED <<ckpt, ingest, applied>>
      BY <1>3, <1>d, <2>1 DEF enqueueMutation, receiverVars
    <2>3. \A q \in DOMAIN queue' : queue'[q] \notin dropped'
      <3>1. queue \in Seq(DOMAIN log) /\ dropped \subseteq DOMAIN log
        BY DEF MirrorTypeOK
      <3>2. CASE queue' = queue
        BY <2>2, <3>1, <3>2 DEF MirrorInv, QueueSound
      <3>3. CASE queue' = Append(queue, n) /\ dropped' = dropped
        <4>1. \A q \in DOMAIN queue' : queue'[q] = n \/ (q \in DOMAIN queue /\ queue'[q] = queue[q])
          BY <3>1, <3>3
        <4> QED
          BY <2>2, <3>1, <3>3, <4>1 DEF MirrorInv, QueueSound
      <3> QED
        BY <2>2, <3>2, <3>3
    <2>4. \A m : AtHead(m) => AtHead(m)'
      <3>1. queue \in Seq(DOMAIN log)
        BY DEF MirrorTypeOK
      <3>2. queue # << >> => Append(queue, n) # << >> /\ Head(Append(queue, n)) = Head(queue)
        BY <3>1
      <3> QED
        BY <2>2, <3>2 DEF AtHead
    <2>5. QueueSound'
      <3>1. \A i \in Ingests : ingest[i] # Idle => ingest[i].seq \in DOMAIN log
        BY DEF MirrorTypeOK
      <3> QED
        BY <2>2, <2>3, <2>4, <3>1 DEF MirrorInv, QueueSound
    <2>6. dropped' \cap applied' = {}
      BY <2>2 DEF MirrorInv, MirrorTypeOK
    <2> QED
      BY <2>2, <2>5, <2>6 DEF MirrorInv, IngestSound, GapFree, CheckpointApplied, Passed
  <1>4. ASSUME NEW i \in Ingests, push(i) PROVE MirrorInv'
    <2>1. /\ ingest'[i].pc = "wire" /\ ingest'[i].seq = Head(queue)
          /\ \A j \in Ingests : j # i => ingest'[j] = ingest[j]
          /\ UNCHANGED <<queue, dropped, ckpt, applied>>
          /\ queue # << >>
          /\ \A j \in Ingests : ingest[j] # Idle => ~ingest[j].waited
      BY <1>4 DEF push, Waiting, sourceVars, MirrorTypeOK
    <2>2. queue[1] = Head(queue) /\ 1 \in DOMAIN queue
      BY <2>1 DEF MirrorTypeOK
    <2>3. QueueSound'
      BY <2>1, <2>2 DEF MirrorInv, QueueSound, AtHead
    <2> QED
      BY <2>1, <2>3 DEF MirrorInv, IngestSound, GapFree, CheckpointApplied, Passed
  <1>5. ASSUME NEW i \in Ingests, ack(i) PROVE MirrorInv'
    <2>1. /\ ingest' = [ingest EXCEPT ![i] = Idle]
          /\ queue' = queue \/ (ingest[i].waited /\ queue # << >> /\ queue' = Tail(queue))
          /\ UNCHANGED <<dropped, ckpt, applied>>
          /\ ingest[i] # Idle
      BY <1>5, <1>i DEF ack, AtHead
    <2>2. ingest'[i] = Idle /\ \A j \in Ingests : j # i => ingest'[j] = ingest[j]
      BY <2>1 DEF MirrorTypeOK
    <2>3. \A q \in DOMAIN queue' : queue'[q] \notin dropped'
      <3>1. queue \in Seq(DOMAIN log)
        BY DEF MirrorTypeOK
      <3>2. queue # << >> => \A q \in DOMAIN Tail(queue) :
                                q + 1 \in DOMAIN queue /\ Tail(queue)[q] = queue[q + 1]
        BY <3>1
      <3> QED
        BY <2>1, <3>2 DEF MirrorInv, QueueSound
    <2>4. QueueSound'
      BY <2>1, <2>2, <2>3 DEF MirrorInv, QueueSound, AtHead
    <2> QED
      BY <2>1, <2>2, <2>4, <1>i DEF MirrorInv, IngestSound, GapFree, CheckpointApplied, Passed
  <1>6. ASSUME NEW i \in Ingests, outOfOrder(i) \/ unsealFails(i) \/ LoseRequest(i)
        PROVE  MirrorInv'
    <2>1. /\ ingest[i] # Idle /\ ingest' = [ingest EXCEPT ![i] = Idle]
          /\ UNCHANGED <<queue, dropped, ckpt, applied>>
      BY <1>6, <1>i DEF outOfOrder, unsealFails, LoseRequest, Refuse, sourceVars
    <2> QED
      BY <2>1, IngestMoves
  <1>7. ASSUME NEW i \in Ingests, GiveUp(i) PROVE MirrorInv'
    <2>1. PICK x : x = [ingest[i] EXCEPT !.waited = FALSE]
      OBVIOUS
    <2>2. /\ ingest[i] # Idle /\ ingest[i] \in IngestState
          /\ ingest' = [ingest EXCEPT ![i] = x] /\ UNCHANGED <<queue, dropped, ckpt, applied>>
          /\ ingest[i].waited
      BY <1>7, <2>1 DEF GiveUp, sourceVars, MirrorTypeOK
    <2>3. x.seq = ingest[i].seq /\ x.pc = ingest[i].pc /\ x.pc # "idle"
      BY <2>1, <2>2, IngestCases
    <2>4. x # Idle
      BY <2>3, <1>i
    <2> QED
      BY <2>2, <2>3, <2>4, IngestMoves DEF MirrorInv, IngestSound, Passed
  (* The sequence check. *)
  <1>n. \A i \in Ingests : ingest[i] # Idle /\ NextSequence(i)
          => 1..(ingest[i].seq - 1) \subseteq applied
    BY DEF NextSequence, MirrorInv, CheckpointApplied, MirrorTypeOK
  <1>8. ASSUME NEW i \in Ingests, ingestSet(i) \/ ingestUpdate(i) \/ unsealed(i)
        PROVE  MirrorInv'
    <2>1. /\ ingest[i] # Idle /\ 1..(ingest[i].seq - 1) \subseteq applied
          /\ UNCHANGED <<queue, dropped, ckpt, applied>>
      BY <1>8, <1>i, <1>n DEF ingestSet, ingestUpdate, unsealed, sourceVars, MirrorInv,
         IngestSound, Passed
    <2>2. \E m : \/ ingest' = [ingest EXCEPT ![i] = [pc |-> "unseal", seq |-> ingest[i].seq,
                                                   waited |-> ingest[i].waited]]
                 \/ ingest' = [ingest EXCEPT ![i] = [pc |-> "got", seq |-> ingest[i].seq,
                                         waited |-> ingest[i].waited, current |-> m]]
      BY <1>8 DEF ingestSet, ingestUpdate, unsealed, To, Got
    <2>3. PICK x : /\ x.pc \in {"unseal", "got"} /\ x.seq = ingest[i].seq
                   /\ x.waited = ingest[i].waited /\ ingest' = [ingest EXCEPT ![i] = x]
      BY <2>2
    <2>4. x # Idle
      BY <2>3, <1>i
    <2> QED
      BY <2>1, <2>3, <2>4, IngestMoves
  <1>9. ASSUME NEW i \in Ingests,
               applySet(i) \/ ingestDelete(i) \/ applyUpdate(i) \/ ingestConsume(i)
        PROVE  MirrorInv'
    <2>1. /\ ingest[i] # Idle /\ 1..(ingest[i].seq - 1) \subseteq applied
          /\ UNCHANGED <<queue, dropped, ckpt>>
      BY <1>9, <1>i, <1>n DEF applySet, ingestDelete, applyUpdate, ingestConsume, sourceVars,
         MirrorInv, IngestSound, Passed
    <2>2. \/ ingest' = [ingest EXCEPT ![i] = Idle] /\ applied' = applied
          \/ /\ ingest' = [ingest EXCEPT ![i] =
                   [pc |-> "applied", seq |-> ingest[i].seq, waited |-> ingest[i].waited]]
             /\ applied' = applied \cup {ingest[i].seq}
      BY <1>9 DEF applySet, ingestDelete, applyUpdate, ingestConsume, To, Refuse
    <2>3. CASE ingest' = [ingest EXCEPT ![i] = Idle] /\ applied' = applied
      BY <2>1, <2>3, IngestMoves
    <2>4. CASE /\ ingest' = [ingest EXCEPT ![i] =
                   [pc |-> "applied", seq |-> ingest[i].seq, waited |-> ingest[i].waited]]
               /\ applied' = applied \cup {ingest[i].seq}
      <3>1. PICK x : /\ x.pc = "applied" /\ x.seq = ingest[i].seq
                     /\ x.waited = ingest[i].waited /\ ingest' = [ingest EXCEPT ![i] = x]
        BY <2>4
      <3>2. x # Idle
        BY <3>1, <1>i
      <3> QED
        BY <2>1, <2>4, <3>1, <3>2, IngestMoves
    <2> QED
      BY <2>2, <2>3, <2>4
  <1>10. ASSUME NEW i \in Ingests, advance(i) PROVE MirrorInv'
    <2>1. /\ ingest[i] # Idle /\ ckpt' = ingest[i].seq
          /\ UNCHANGED <<queue, dropped, applied>>
          /\ ingest' = [ingest EXCEPT ![i] =
                [pc |-> "answer", seq |-> ingest[i].seq, waited |-> ingest[i].waited]]
          /\ ingest[i].pc = "applied"
      BY <1>10, <1>i DEF advance, To, sourceVars
    <2>2. ingest[i].seq \in applied /\ 1..(ingest[i].seq - 1) \subseteq applied
      BY <2>1 DEF MirrorInv, IngestSound, Passed
    <2>3. 1..ckpt' \subseteq applied
      BY <2>1, <2>2 DEF MirrorInv, GapFree
    <2>4. PICK x : /\ x.pc = "answer" /\ x.seq = ingest[i].seq
                   /\ x.waited = ingest[i].waited /\ ingest' = [ingest EXCEPT ![i] = x]
      BY <2>1
    <2>5. x # Idle
      BY <2>4, <1>i
    <2> QED
      BY <2>1, <2>2, <2>3, <2>4, <2>5, IngestMoves
  <1> QED
    BY <1>1, <1>2, <1>3, <1>4, <1>5, <1>6, <1>7, <1>8, <1>9, <1>10
    DEF MirrorNext, Continue, Ingest

(* The replica applies a gap-free prefix of the source's chain and nothing  *)
(* dropped, for every number of overlapping calls and ingests.              *)
THEOREM StreamInvariant == MirrorSpec => []MirrorInv
  <1> QED
    BY MirrorTypeCorrect, MirrorInvInit, MirrorInvStep, PTL DEF MirrorSpec

(* Nothing at or after a dropped mutation is ever applied.                  *)
THEOREM LossNeverPassed == MirrorSpec => []NeverPastALoss
  <1>1. MirrorTypeOK /\ MirrorInv => NeverPastALoss
    <2> SUFFICES ASSUME MirrorTypeOK, MirrorInv, NEW d \in dropped, NEW s \in applied,
                        ~(s < d)
                 PROVE  FALSE
      BY DEF NeverPastALoss
    <2>1. s \in Nat /\ d \in Nat \ {0}
      BY DEF MirrorTypeOK
    <2>2. d \in 1..s
      BY <2>1
    <2> QED
      BY <2>2 DEF MirrorInv, GapFree
  <1> QED
    BY <1>1, MirrorTypeCorrect, StreamInvariant, PTL

(* The receiver's checkpoint never claims a mutation it has not applied,    *)
(* however retries overlap.                                                 *)
THEOREM CheckpointHolds == MirrorSpec => []CheckpointApplied
  <1>1. MirrorInv => CheckpointApplied
    BY DEF MirrorInv
  <1> QED
    BY <1>1, StreamInvariant, PTL

-----------------------------------------------------------------------------
(* Credentials that are the same, and what the stores do to them. *)

LEMMA SameIsEquivalence ==
  /\ \A a : SameCredential(a, a)
  /\ \A a, b : SameCredential(a, b) => SameCredential(b, a)
  /\ \A a, b, c : SameCredential(a, b) /\ SameCredential(b, c) => SameCredential(a, c)
  <1>1. \A x, y : {x, y} \subseteq Terminal <=> x \in Terminal /\ y \in Terminal
    OBVIOUS
  <1> QED
    BY <1>1 DEF SameCredential

LEMMA SameMaps ==
  ASSUME NEW a \in Map, NEW b \in Map
  PROVE  SameCredential(a, b) <=>
           /\ a.ctr = b.ctr /\ a.requestCount = b.requestCount /\ a.limits = b.limits
           /\ a.status = b.status \/ (a.status \in Terminal /\ b.status \in Terminal)
  <1>1. a # NoMap /\ b # NoMap
    BY MirrorAssumption
  <1> QED
    BY <1>1 DEF SameCredential

(* What reconcileTumblerMapCounterStatus does to the same credential.      *)
LEMMA SameReconciled ==
  ASSUME NEW a \in Map, NEW b \in Map, SameCredential(a, b)
  PROVE  SameCredential(Reconciled(a), Reconciled(b))
  <1>1. /\ a.ctr = b.ctr /\ a.requestCount = b.requestCount /\ a.limits = b.limits
        /\ a.status = b.status \/ (a.status \in Terminal /\ b.status \in Terminal)
    BY SameMaps
  <1>2. /\ Reconciled(a) \in Map /\ Reconciled(a).ctr = a.ctr
        /\ Reconciled(a).requestCount = a.requestCount /\ Reconciled(a).limits = a.limits
        /\ a.status \in Terminal => Reconciled(a) = a
    BY ReconciledFacts
  <1>3. /\ Reconciled(b) \in Map /\ Reconciled(b).ctr = b.ctr
        /\ Reconciled(b).requestCount = b.requestCount /\ Reconciled(b).limits = b.limits
        /\ b.status \in Terminal => Reconciled(b) = b
    BY ReconciledFacts
  <1>4. CASE a.status \in Terminal
    BY <1>1, <1>2, <1>3, <1>4
  <1>5. CASE a.status \notin Terminal
    <2>1. b.status = a.status
      BY <1>1, <1>5
    <2>2. \A n : UsesRemainingAtMost(a, n) <=> UsesRemainingAtMost(b, n)
      BY <1>1 DEF UsesRemainingAtMost
    <2>3. "expired" \in Status /\ "expiring" \in Status
      BY DEF Status
    <2>4. \A st \in Status : [a EXCEPT !.status = st].status = [b EXCEPT !.status = st].status
      BY StatusChange
    <2>5. Reconciled(a).status = Reconciled(b).status
      <3>1. CASE UsesRemainingAtMost(a, 0)
        BY <1>5, <2>1, <2>2, <2>3, <2>4, <3>1 DEF Reconciled
      <3>2. CASE ~UsesRemainingAtMost(a, 0)
        BY <1>1, <1>5, <2>1, <2>2, <2>3, <2>4, <3>2 DEF Reconciled
      <3> QED
        BY <3>1, <3>2
    <2> QED
      BY <1>1, <1>2, <1>3, <2>5, SameMaps
  <1> QED
    BY <1>4, <1>5

(* The store's operations do the same to the same credential.              *)
LEMMA SameUpdated ==
  ASSUME NEW a \in Map, NEW b \in Map, SameCredential(a, b), NEW ups \in Updates
  PROVE  SameCredential(Updated(a, ups), Updated(b, ups))
  <1>1. /\ a.ctr = b.ctr /\ a.requestCount = b.requestCount /\ a.limits = b.limits
        /\ a.status = b.status \/ (a.status \in Terminal /\ b.status \in Terminal)
    BY SameMaps
  <1>2. PICK f : f = [s \in Seg |-> IF s \in DOMAIN ups THEN ups[s] ELSE a.ctr[s]]
    OBVIOUS
  <1>3. f \in [Seg -> Counter]
    <2>1. \A s \in DOMAIN ups : ups[s] \in Counter
      BY DEF Updates
    <2>2. a.ctr \in [Seg -> Counter]
      BY DEF Map
    <2> QED
      BY <1>2, <2>1, <2>2
  <1>4. PICK x : x = [a EXCEPT !.ctr = f]
    OBVIOUS
  <1>5. PICK y : y = [b EXCEPT !.ctr = f]
    OBVIOUS
  <1>6. /\ x \in Map /\ x.ctr = f /\ x.requestCount = a.requestCount /\ x.limits = a.limits
        /\ x.status = a.status
    BY <1>3, <1>4 DEF Map
  <1>7. /\ y \in Map /\ y.ctr = f /\ y.requestCount = b.requestCount /\ y.limits = b.limits
        /\ y.status = b.status
    BY <1>3, <1>5 DEF Map
  <1>8. SameCredential(x, y)
    BY <1>1, <1>6, <1>7, SameMaps
  <1>9. Updated(a, ups) = Reconciled(x) /\ Updated(b, ups) = Reconciled(y)
    BY <1>1, <1>2, <1>4, <1>5 DEF Updated
  <1> QED
    BY <1>6, <1>7, <1>8, <1>9, SameReconciled

LEMMA SameConsumed ==
  ASSUME NEW a \in Map, NEW b \in Map, SameCredential(a, b), NEW s \in Seg, NEW n \in Usable
  PROVE  SameCredential(Consumed(a, s, n), Consumed(b, s, n))
  <1>1. /\ a.ctr = b.ctr /\ a.requestCount = b.requestCount /\ a.limits = b.limits
        /\ a.status = b.status \/ (a.status \in Terminal /\ b.status \in Terminal)
    BY SameMaps
  <1>2. ConsumeOk(a, s, n) <=> ConsumeOk(b, s, n)
    BY <1>1 DEF ConsumeOk
  <1>3. CASE ConsumeOk(a, s, n)
    <2>1. PICK f : f = [a.ctr EXCEPT ![s] = n + 1]
      OBVIOUS
    <2>2. f \in [Seg -> Counter]
      <3>1. a.ctr \in [Seg -> Counter] /\ n + 1 \in Counter
        BY MapAssumption DEF Map, Counter, Usable
      <3> QED
        BY <2>1, <3>1
    <2>3. PICK x : x = [a EXCEPT !.ctr = f]
      OBVIOUS
    <2>4. PICK y : y = [b EXCEPT !.ctr = f]
      OBVIOUS
    <2>5. /\ x \in Map /\ x.ctr = f /\ x.requestCount = a.requestCount /\ x.limits = a.limits
          /\ x.status = a.status
      BY <2>2, <2>3 DEF Map
    <2>6. /\ y \in Map /\ y.ctr = f /\ y.requestCount = b.requestCount /\ y.limits = b.limits
          /\ y.status = b.status
      BY <2>2, <2>4 DEF Map
    <2>7. SameCredential(x, y)
      BY <1>1, <2>5, <2>6, SameMaps
    <2>8. Consumed(a, s, n) = Reconciled(x)
      BY <1>3, <2>1, <2>3 DEF Consumed
    <2>9. Consumed(b, s, n) = Reconciled(y)
      BY <1>1, <1>2, <1>3, <2>1, <2>4 DEF Consumed
    <2> QED
      BY <2>5, <2>6, <2>7, <2>8, <2>9, SameReconciled
  <1>4. CASE ~ConsumeOk(a, s, n)
    <2>1. "expired" \in Status
      BY DEF Status
    <2>2. PICK x : x = [a EXCEPT !.status = "expired"]
      OBVIOUS
    <2>3. PICK y : y = [b EXCEPT !.status = "expired"]
      OBVIOUS
    <2>4. /\ x \in Map /\ x.ctr = a.ctr /\ x.requestCount = a.requestCount /\ x.limits = a.limits
          /\ x.status = "expired"
      BY <2>1, <2>2, StatusChange
    <2>5. /\ y \in Map /\ y.ctr = b.ctr /\ y.requestCount = b.requestCount /\ y.limits = b.limits
          /\ y.status = "expired"
      BY <2>1, <2>3, StatusChange
    <2>6. SameCredential(x, y)
      BY <1>1, <2>4, <2>5, SameMaps
    <2> QED
      BY <1>1, <1>2, <1>4, <2>2, <2>3, <2>6 DEF Consumed
  <1> QED
    BY <1>3, <1>4

(* A refused consumption changes nothing that tells credentials apart: an  *)
(* exhausted map that is stored is terminal already.                       *)
LEMMA RefusedConsumption ==
  ASSUME NEW m \in Map, CounterStateOk(m), NEW s \in Seg, NEW n \in Usable, ~ConsumeOk(m, s, n)
  PROVE  SameCredential(Consumed(m, s, n), m) /\ CounterStateOk(Consumed(m, s, n))
  <1>1. CASE m.ctr[s] = MaxCounter
    <2>1. MaxCounter - m.ctr[s] <= 0
      BY <1>1, MapAssumption
    <2>2. m.status \in Terminal
      BY <2>1 DEF CounterStateOk, UsesRemainingAtMost
    <2>3. "expired" \in Status /\ "expired" \in Terminal
      BY DEF Status, Terminal
    <2>4. PICK x : x = [m EXCEPT !.status = "expired"]
      OBVIOUS
    <2>5. /\ x \in Map /\ x.ctr = m.ctr /\ x.requestCount = m.requestCount /\ x.limits = m.limits
          /\ x.status = "expired"
      BY <2>3, <2>4, StatusChange
    <2>6. SameCredential(x, m) /\ CounterStateOk(x)
      BY <2>2, <2>3, <2>5, SameMaps DEF CounterStateOk
    <2> QED
      BY <1>1, <2>4, <2>6 DEF Consumed
  <1>2. CASE m.ctr[s] # MaxCounter
    BY <1>2, SameIsEquivalence DEF Consumed
  <1> QED
    BY <1>1, <1>2

-----------------------------------------------------------------------------
(* A mutation takes a store to a store, and the same stores to the same.   *)
LEMMA OutcomeType ==
  ASSUME NEW st \in Store, NEW mut \in Mutation
  PROVE  Outcome(st, mut) \in Map \cup {NoMap} /\ After(st, mut) \in Store
         /\ After(st, mut)[mut.client] = Outcome(st, mut)
         /\ \A c \in ClientId \ {mut.client} : After(st, mut)[c] = st[c]
  <1>1. /\ mut.client \in ClientId
        /\ mut.op \in {"set", "delete", "updateCounters", "consumeCounter"}
        /\ mut.op = "set" => mut.map \in Map
        /\ mut.op = "updateCounters" => mut.updates \in Updates
        /\ mut.op = "consumeCounter" => mut.seg \in Seg /\ mut.matched \in Usable
    BY DEF Mutation
  <1>2. st[mut.client] # NoMap => st[mut.client] \in Map
    BY <1>1 DEF Store
  <1>3. CASE mut.op = "set"
    BY <1>1, <1>3 DEF Outcome, After, Store
  <1>4. CASE mut.op = "delete"
    BY <1>1, <1>4 DEF Outcome, After, Store
  <1>5. CASE mut.op = "updateCounters"
    <2>1. Outcome(st, mut) \in Map \cup {NoMap}
      BY <1>1, <1>2, <1>5, UpdatedFacts DEF Outcome
    <2> QED
      BY <1>1, <2>1 DEF After, Store
  <1>6. CASE mut.op = "consumeCounter"
    <2>1. Outcome(st, mut) \in Map \cup {NoMap}
      BY <1>1, <1>2, <1>6, ConsumedFacts DEF Outcome
    <2> QED
      BY <1>1, <2>1 DEF After, Store
  <1> QED
    BY <1>1, <1>3, <1>4, <1>5, <1>6

LEMMA SameOutcome ==
  ASSUME NEW a \in Store, NEW b \in Store, NEW mut \in Mutation,
         SameCredential(a[mut.client], b[mut.client])
  PROVE  SameCredential(Outcome(a, mut), Outcome(b, mut))
  <1>1. /\ mut.client \in ClientId
        /\ mut.op \in {"set", "delete", "updateCounters", "consumeCounter"}
        /\ mut.op = "updateCounters" => mut.updates \in Updates
        /\ mut.op = "consumeCounter" => mut.seg \in Seg /\ mut.matched \in Usable
    BY DEF Mutation
  <1>2. PICK m, n : m = a[mut.client] /\ n = b[mut.client]
    OBVIOUS
  <1>3. (m = NoMap /\ n = NoMap) \/ (m \in Map /\ n \in Map /\ m # NoMap /\ n # NoMap)
    BY <1>1, <1>2 DEF SameCredential, Store
  <1>4. CASE mut.op = "set" \/ mut.op = "delete"
    BY <1>4, SameIsEquivalence DEF Outcome
  <1>5. CASE mut.op = "updateCounters"
    <2>1. Outcome(a, mut) = IF m = NoMap THEN NoMap ELSE Updated(m, mut.updates)
      BY <1>2, <1>5 DEF Outcome
    <2>2. Outcome(b, mut) = IF n = NoMap THEN NoMap ELSE Updated(n, mut.updates)
      BY <1>2, <1>5 DEF Outcome
    <2> QED
      BY <1>1, <1>2, <1>3, <1>5, <2>1, <2>2, SameUpdated, SameIsEquivalence
  <1>6. CASE mut.op = "consumeCounter"
    <2>1. Outcome(a, mut) = IF m = NoMap THEN NoMap ELSE Consumed(m, mut.seg, mut.matched)
      BY <1>2, <1>6 DEF Outcome
    <2>2. Outcome(b, mut) = IF n = NoMap THEN NoMap ELSE Consumed(n, mut.seg, mut.matched)
      BY <1>2, <1>6 DEF Outcome
    <2> QED
      BY <1>1, <1>2, <1>3, <1>6, <2>1, <2>2, SameConsumed, SameIsEquivalence
  <1> QED
    BY <1>1, <1>4, <1>5, <1>6

(* Stores that hold the same credentials hold the same clients.            *)
LEMMA SameHeld ==
  ASSUME NEW a \in Store, NEW b \in Store, SameOn(ClientId, a, b)
  PROVE  Held(a) = Held(b) /\ \A c \in ClientId : a[c] = NoMap <=> b[c] = NoMap
  BY DEF SameOn, SameCredential, Held

-----------------------------------------------------------------------------
(* One ingest at a time. *)

(* The source's steps leave the receiver alone and only extend the chain.  *)
LEMMA ChainGrows ==
  ASSUME MirrorTypeOK, NEW k \in Calls, Mutate(k) \/ Continue(k)
  PROVE  /\ UNCHANGED receiverVars
         /\ \A n \in DOMAIN log : n \in DOMAIN log' /\ log'[n] = log[n]
  <1>1. CASE Mutate(k) \/ reread(k)
    <2>1. UNCHANGED <<log, receiverVars>>
      BY <1>1 DEF Mutate, set, delete, updateCounters, consumeCounter, commitValidation,
         replaceCredential, reread
    <2> QED
      BY <2>1
  <1>2. CASE enqueueMutation(k)
    <2>1. call[k].mut \in Mutation
      BY <1>2, CallCases DEF enqueueMutation, MirrorTypeOK
    <2>2. PICK x \in Mutation : x = call[k].mut
      BY <2>1
    <2>3. log' = Append(log, x) /\ UNCHANGED receiverVars
      BY <1>2, <2>2 DEF enqueueMutation
    <2>4. log \in Seq(Mutation)
      BY DEF MirrorTypeOK
    <2>5. \A n \in DOMAIN log : n \in DOMAIN log' /\ log'[n] = log[n]
      BY <2>3, <2>4
    <2> QED
      BY <2>3, <2>5
  <1> QED
    BY <1>1, <1>2 DEF Continue

LEMMA IngestCurrentStep ==
  ASSUME MirrorTypeOK, IngestCurrent, \A i, j \in Ingests : i = j, [MirrorNext]_mirrorVars
  PROVE  IngestCurrent'
  <1>i. Idle.pc = "idle"
    BY DEF Idle
  <1>1. CASE UNCHANGED mirrorVars
    BY <1>1 DEF mirrorVars, sourceVars, receiverVars, IngestCurrent, Mut
  <1>2. ASSUME NEW k \in Calls, Mutate(k) \/ Continue(k) PROVE IngestCurrent'
    <2>1. /\ UNCHANGED <<replica, ckpt, ingest>>
          /\ \A n \in DOMAIN log : log'[n] = log[n]
      BY <1>2, ChainGrows DEF receiverVars
    <2>2. \A i \in Ingests : ingest[i].pc = "got" => ingest[i].seq \in DOMAIN log
      BY <1>i DEF MirrorTypeOK
    <2> QED
      BY <2>1, <2>2 DEF IngestCurrent, Mut
  <1>3. ASSUME NEW i \in Ingests,
               Ingest(i) \/ unsealFails(i) \/ LoseRequest(i) \/ GiveUp(i)
        PROVE  IngestCurrent'
    <2>t. ingest \in [Ingests -> IngestState]
      BY DEF MirrorTypeOK
    <2>l. log' = log
      BY <1>3 DEF Ingest, push, ack, outOfOrder, ingestSet, unsealed, applySet, ingestDelete,
         ingestUpdate, applyUpdate, ingestConsume, advance, unsealFails, LoseRequest, GiveUp,
         sourceVars
    <2>u. ASSUME NEW x, ingest' = [ingest EXCEPT ![i] = x],
                 x.pc \in {"unseal", "got", "applied"} => x.seq = ckpt' + 1,
                 x.pc = "got" => x.current = replica'[log[x.seq].client]
          PROVE  IngestCurrent'
      <3>1. ingest'[i] = x /\ \A j \in Ingests : j = i
        BY <2>u, <2>t
      <3> QED
        BY <2>u, <2>l, <3>1 DEF IngestCurrent, Mut
    <2>1. CASE push(i)
      <3>1. PICK x : x = [pc |-> "wire", seq |-> Head(queue), waited |-> TRUE]
        OBVIOUS
      <3> QED
        BY <2>1, <2>u, <3>1 DEF push
    <2>2. CASE ack(i) \/ outOfOrder(i) \/ unsealFails(i) \/ LoseRequest(i)
      BY <2>2, <2>u, <1>i DEF ack, outOfOrder, unsealFails, LoseRequest, Refuse
    <2>3. CASE GiveUp(i)
      <3>1. PICK x : x = [ingest[i] EXCEPT !.waited = FALSE]
        OBVIOUS
      <3>2. ingest[i] # Idle /\ ingest[i] \in IngestState
        BY <2>3 DEF GiveUp, MirrorTypeOK
      <3>3. /\ x.pc = ingest[i].pc /\ x.seq = ingest[i].seq
            /\ x.pc = "got" => x.current = ingest[i].current
        BY <3>1, <3>2, IngestCases
      <3>4. ingest' = [ingest EXCEPT ![i] = x] /\ UNCHANGED <<replica, ckpt>>
        BY <2>3, <3>1 DEF GiveUp
      <3> QED
        BY <2>u, <3>3, <3>4 DEF IngestCurrent, Mut
    <2>4. CASE ingestSet(i)
      <3>1. PICK x : x = [pc |-> "unseal", seq |-> ingest[i].seq, waited |-> ingest[i].waited]
        OBVIOUS
      <3>2. ingest' = [ingest EXCEPT ![i] = x] /\ x.pc = "unseal" /\ x.seq = ingest[i].seq
        BY <2>4, <3>1 DEF ingestSet, To
      <3>3. ingest[i].seq = ckpt' + 1
        BY <2>4 DEF ingestSet, NextSequence
      <3> QED
        BY <2>u, <3>2, <3>3
    <2>7. CASE advance(i)
      <3>1. PICK x : x = [pc |-> "answer", seq |-> ingest[i].seq, waited |-> ingest[i].waited]
        OBVIOUS
      <3>2. ingest' = [ingest EXCEPT ![i] = x] /\ x.pc = "answer"
        BY <2>7, <3>1 DEF advance, To
      <3> QED
        BY <2>u, <3>2
    <2>5. CASE unsealed(i) \/ ingestUpdate(i)
      <3>1. PICK m : m = replica[Mut(i).client]
        OBVIOUS
      <3>2. PICK x : x = [pc |-> "got", seq |-> ingest[i].seq, waited |-> ingest[i].waited,
                          current |-> m]
        OBVIOUS
      <3>3. /\ ingest' = [ingest EXCEPT ![i] = x] /\ x.seq = ingest[i].seq /\ x.current = m
            /\ UNCHANGED <<replica, ckpt>>
        BY <2>5, <3>1, <3>2 DEF unsealed, ingestUpdate, Got
      <3>4. ingest[i].seq = ckpt + 1
        BY <2>5 DEF unsealed, ingestUpdate, NextSequence, IngestCurrent
      <3> QED
        BY <2>u, <3>1, <3>3, <3>4 DEF Mut
    <2>6. CASE applySet(i) \/ ingestDelete(i) \/ applyUpdate(i) \/ ingestConsume(i)
      <3>1. ingest[i].seq = ckpt + 1 /\ ckpt' = ckpt
        BY <2>6 DEF applySet, ingestDelete, applyUpdate, ingestConsume, NextSequence, IngestCurrent
      <3>2. PICK y : y = [pc |-> "applied", seq |-> ingest[i].seq, waited |-> ingest[i].waited]
        OBVIOUS
      <3>3. y.pc = "applied" /\ y.seq = ingest[i].seq
        BY <3>2
      <3>4. ingest' = [ingest EXCEPT ![i] = Idle] \/ ingest' = [ingest EXCEPT ![i] = y]
        BY <2>6, <3>2 DEF applySet, ingestDelete, applyUpdate, ingestConsume, To, Refuse
      <3> QED
        BY <2>u, <1>i, <3>1, <3>3, <3>4
    <2> QED
      BY <1>3, <2>1, <2>2, <2>3, <2>4, <2>5, <2>6, <2>7 DEF Ingest
  <1> QED
    BY <1>1, <1>2, <1>3 DEF MirrorNext

LEMMA IngestCurrentHolds ==
  ASSUME \A i, j \in Ingests : i = j
  PROVE  MirrorSpec => []IngestCurrent
  <1>1. MirrorInit => IngestCurrent
    BY DEF MirrorInit, IngestCurrent, Idle
  <1>2. MirrorTypeOK /\ IngestCurrent /\ [MirrorNext]_mirrorVars => IngestCurrent'
    BY IngestCurrentStep
  <1> QED
    BY <1>1, <1>2, MirrorTypeCorrect, PTL DEF MirrorSpec

(* applyTumblerOp's rollback checks hold against the store it writes, as   *)
(* long as one ingest runs at a time (replica-receiver.ts:182): no step    *)
(* lowers a replica's counter or use count or revives a terminal map, for  *)
(* every number of clients, mutations and retries.                         *)
THEOREM NoRollbackOneAtATime ==
  ASSUME \A i, j \in Ingests : i = j
  PROVE  MirrorSpec => ReplicaNoRollback
  <1> DEFINE Kept(c) == (replica[c] # NoMap /\ replica'[c] # NoMap)
        => /\ replica[c].status \in Terminal => replica'[c].status \in Terminal
           /\ replica'[c].requestCount >= replica[c].requestCount
           /\ \A s \in Seg : replica'[c].ctr[s] >= replica[c].ctr[s]
  <1>1. ASSUME MirrorTypeOK, IngestCurrent, [MirrorNext]_mirrorVars, NEW c \in ClientId
        PROVE  Kept(c)
    <2>r. replica \in Store
      BY <1>1 DEF MirrorTypeOK
    <2>n. ASSUME NEW m \in Map PROVE /\ m.requestCount \in Nat /\ \A s \in Seg : m.ctr[s] \in Nat
      BY MapAssumption DEF Map, Counter
    <2>0. CASE replica'[c] = replica[c]
      <3>1. replica[c] = NoMap \/ replica[c] \in Map
        BY <2>r DEF Store
      <3>2. CASE replica[c] \in Map
        <4>1. PICK m \in Map : m = replica[c]
          BY <3>2
        <4>2. m.requestCount >= m.requestCount /\ \A s \in Seg : m.ctr[s] >= m.ctr[s]
          BY <2>n
        <4> QED
          BY <2>0, <4>1, <4>2
      <3> QED
        BY <3>1, <3>2
    <2>1. ASSUME NEW i \in Ingests, applySet(i) PROVE Kept(c)
      <3>1. ingest[i].pc = "got" /\ Mut(i).op = "set"
        BY <2>1 DEF applySet
      <3>2. ingest[i].current = replica[Mut(i).client]
        BY <1>1, <3>1 DEF IngestCurrent
      <3>3. replica' = replica \/
              /\ replica' = [replica EXCEPT ![Mut(i).client] = Mut(i).map]
              /\ ingest[i].current # NoMap => NotRolledBack(ingest[i].current, Mut(i).map)
        BY <2>1 DEF applySet
      <3> QED
        BY <2>0, <2>r, <3>2, <3>3 DEF Store, NotRolledBack
    <2>2. ASSUME NEW i \in Ingests, ingestDelete(i) PROVE Kept(c)
      <3>1. replica' = [replica EXCEPT ![Mut(i).client] = NoMap]
        BY <2>2 DEF ingestDelete
      <3> QED
        BY <2>0, <2>r, <3>1 DEF Store
    <2>3. ASSUME NEW i \in Ingests, applyUpdate(i) PROVE Kept(c)
      <3>1. PICK d, u : d = Mut(i).client /\ u = Mut(i).updates
        OBVIOUS
      <3>2. ingest[i] # Idle /\ Mut(i).op = "updateCounters"
        BY <2>3 DEF applyUpdate, Idle
      <3>3. d \in ClientId /\ u \in Updates
        BY <1>1, <3>1, <3>2, IngestFacts, MutationCases
      <3>4. replica' = replica \/
              /\ replica[d] # NoMap /\ UpdateOk(replica[d], u)
              /\ replica' = [replica EXCEPT ![d] = Updated(replica[d], u)]
        BY <2>3, <3>1 DEF applyUpdate
      <3>5. CASE replica' # replica /\ c = d
        <4>1. PICK m \in Map : m = replica[d]
          BY <3>3, <3>4, <3>5, <2>r DEF Store
        <4>2. PICK x : x = Updated(m, u)
          OBVIOUS
        <4>3. /\ x.requestCount = m.requestCount /\ \A s \in Seg : x.ctr[s] >= m.ctr[s]
              /\ m.status \in Terminal => x.status \in Terminal
          BY <3>3, <3>4, <3>5, <4>1, <4>2, UpdatedFacts
        <4>4. replica'[c] = x
          BY <3>3, <3>4, <3>5, <4>1, <4>2, <2>r DEF Store
        <4>5. x.requestCount >= m.requestCount
          BY <4>3, <2>n
        <4> QED
          BY <3>5, <4>1, <4>3, <4>4, <4>5
      <3>6. CASE replica' = replica \/ c # d
        BY <2>0, <2>r, <3>4, <3>6 DEF Store
      <3> QED
        BY <3>5, <3>6
    <2>4. ASSUME NEW i \in Ingests, ingestConsume(i) PROVE Kept(c)
      <3>1. PICK d, q, n : d = Mut(i).client /\ q = Mut(i).seg /\ n = Mut(i).matched
        OBVIOUS
      <3>2. ingest[i] # Idle /\ Mut(i).op = "consumeCounter"
        BY <2>4 DEF ingestConsume, Idle
      <3>3. d \in ClientId /\ q \in Seg /\ n \in Usable
        BY <1>1, <3>1, <3>2, IngestFacts, MutationCases
      <3>4. replica' = replica \/
              (replica[d] # NoMap /\ replica' = [replica EXCEPT ![d] = Consumed(replica[d], q, n)])
        BY <2>4, <3>1 DEF ingestConsume
      <3>5. CASE replica' # replica /\ c = d
        <4>1. PICK m \in Map : m = replica[d]
          BY <3>3, <3>4, <3>5, <2>r DEF Store
        <4>2. PICK x : x = Consumed(m, q, n)
          OBVIOUS
        <4>3. /\ x.requestCount = m.requestCount /\ \A s \in Seg : x.ctr[s] >= m.ctr[s]
              /\ m.status \in Terminal => x.status \in Terminal
          BY <3>3, <4>1, <4>2, ConsumedFacts
        <4>4. replica'[c] = x
          BY <3>3, <3>4, <3>5, <4>1, <4>2, <2>r DEF Store
        <4>5. x.requestCount >= m.requestCount
          BY <4>3, <2>n
        <4> QED
          BY <3>5, <4>1, <4>3, <4>4, <4>5
      <3>6. CASE replica' = replica \/ c # d
        BY <2>0, <2>r, <3>4, <3>6 DEF Store
      <3> QED
        BY <3>5, <3>6
    <2>5. ASSUME NEW k \in Calls, Mutate(k) \/ Continue(k) PROVE replica' = replica
      BY <1>1, <2>5, ChainGrows DEF receiverVars
    <2>6. ASSUME NEW i \in Ingests,
                 \/ push(i) \/ ack(i) \/ outOfOrder(i) \/ ingestSet(i) \/ unsealed(i)
                 \/ ingestUpdate(i) \/ advance(i) \/ unsealFails(i) \/ LoseRequest(i) \/ GiveUp(i)
          PROVE  replica' = replica
      BY <2>6 DEF push, ack, outOfOrder, ingestSet, unsealed, ingestUpdate, advance,
         unsealFails, LoseRequest, GiveUp
    <2>7. CASE UNCHANGED mirrorVars
      BY <2>7, <2>0 DEF mirrorVars, receiverVars
    <2> HIDE DEF Kept
    <2> QED
      BY <1>1, <2>0, <2>1, <2>2, <2>3, <2>4, <2>5, <2>6, <2>7 DEF MirrorNext, Ingest
  <1>2. MirrorTypeOK /\ IngestCurrent /\ [MirrorNext]_mirrorVars
          => [\A c \in ClientId : Kept(c)]_mirrorVars
    BY <1>1
  <1>3. MirrorSpec => []IngestCurrent
    BY IngestCurrentHolds
  <1>4. MirrorSpec => [][\A c \in ClientId : Kept(c)]_mirrorVars
    BY <1>2, <1>3, MirrorTypeCorrect, PTL DEF MirrorSpec
  <1> QED
    BY <1>4 DEF ReplicaNoRollback

-----------------------------------------------------------------------------
(* One mutation at a time. *)

(* One entry of the primary changes.                                       *)
LEMMA PrimaryKept ==
  ASSUME MirrorTypeOK, PrimarySound, NEW c \in ClientId, NEW m \in Map \cup {NoMap},
         m # NoMap => CounterStateOk(m) /\ c \in issued',
         primary' = [primary EXCEPT ![c] = m],
         issued' = issued \/ issued' = issued \cup {c}
  PROVE  PrimarySound'
  <1>1. primary \in Store
    BY DEF MirrorTypeOK
  <1>2. \A d \in ClientId : primary'[d] = IF d = c THEN m ELSE primary[d]
    BY <1>1 DEF Store
  <1>3. IsFiniteSet(issued')
    <2>1. IsFiniteSet(issued)
      BY DEF PrimarySound
    <2> QED
      BY <2>1, FS_AddElement
  <1>4. issued \subseteq issued'
    OBVIOUS
  <1>5. Held(primary)' \subseteq issued'
    BY <1>2, <1>4 DEF Held, PrimarySound
  <1>6. \A d \in ClientId : primary'[d] # NoMap => CounterStateOk(primary'[d])
    BY <1>2 DEF PrimarySound
  <1> QED
    BY <1>3, <1>5, <1>6 DEF PrimarySound

(* What a mutation does to the primary, and what it leaves to be mirrored. *)
Effect(k) ==
  \/ \E mut \in Mutation :
       /\ primary' = After(primary, mut)
       /\ call' = [call EXCEPT ![k] = [pc |-> "enqueue", mut |-> mut, rest |-> << >>]]
  \/ call' = call /\ SameOn(ClientId, primary', primary)
  \/ \E c \in ClientId :
       /\ call' = [call EXCEPT ![k] = [pc |-> "reread", rest |-> <<c>>]]
       /\ primary'[c] # NoMap /\ \A d \in ClientId \ {c} : primary'[d] = primary[d]
  \/ \E old, new \in ClientId :
       /\ call' = [call EXCEPT ![k] = [pc |-> "reread", rest |-> <<old, new>>]]
       /\ old # new /\ primary[new] = NoMap /\ primary'[new] # NoMap
       /\ \A d \in ClientId \ {old, new} : primary'[d] = primary[d]
       /\ primary'[old] = NoMap => Cardinality(Held(primary)) >= MaxEntries

LEMMA MutateEffect ==
  ASSUME MirrorTypeOK, PrimarySound, NEW k \in Calls, Mutate(k)
  PROVE  /\ call[k] = Idle /\ UNCHANGED <<log, receiverVars>>
         /\ PrimarySound' /\ Effect(k)
  <1>p. primary \in Store /\ (\A c \in ClientId : primary[c] # NoMap => primary[c] \in Map)
        /\ NoMap \notin Map
    BY MirrorAssumption DEF MirrorTypeOK, Store
  <1>h. \A c \in ClientId : primary[c] # NoMap => c \in issued
    BY DEF PrimarySound, Held
  <1>0. call[k] = Idle /\ UNCHANGED <<log, receiverVars>>
    BY DEF Mutate, Start, set, delete, updateCounters, consumeCounter, commitValidation,
         replaceCredential
  <1>a. ASSUME NEW mut \in Mutation, NEW m, Outcome(primary, mut) = m,
               primary' = [primary EXCEPT ![mut.client] = m],
               call' = [call EXCEPT ![k] = [pc |-> "enqueue", mut |-> mut, rest |-> << >>]]
        PROVE  Effect(k)
    BY <1>a DEF Effect, After
  <1>1. ASSUME NEW c \in ClientId, NEW m \in SetInput(c), set(k, c, m)
        PROVE  PrimarySound' /\ Effect(k)
    <2>1. MirrorTypeOK'
      BY <1>1, SourceTypeStep
    <2>2. /\ primary' = [primary EXCEPT ![c] = m] /\ issued' = issued \cup {c}
          /\ CounterStateOk(m)
      BY <1>1 DEF set, CanSet
    <2>3. primary'[c] = m /\ m \in Map \cup {NoMap}
      BY <1>p, <2>1, <2>2 DEF MirrorTypeOK, Store
    <2>4. PICK mut : mut = [op |-> "set", client |-> c, map |-> m]
      OBVIOUS
    <2>5. mut.client = c /\ mut.op = "set" /\ mut.map = m
      BY <2>4
    <2>6. call' = [call EXCEPT ![k] = [pc |-> "enqueue", mut |-> mut, rest |-> << >>]]
      BY <1>1, <2>4 DEF set, Mirror
    <2>7. mut \in Mutation
      <3>1. call' \in [Calls -> CallState]
        BY <2>1 DEF MirrorTypeOK
      <3>2. PICK x : x = [pc |-> "enqueue", mut |-> mut, rest |-> << >>]
        OBVIOUS
      <3>3. call'[k] = x /\ x.pc = "enqueue" /\ x.mut = mut
        BY <2>6, <3>2 DEF MirrorTypeOK
      <3> QED
        BY <3>1, <3>3, CallCases
    <2>8. Outcome(primary, mut) = m
      BY <2>5 DEF Outcome
    <2> QED
      BY <1>a, <2>2, <2>3, <2>5, <2>6, <2>7, <2>8, PrimaryKept
  <1>2. ASSUME NEW c \in ClientId, delete(k, c) PROVE PrimarySound' /\ Effect(k)
    <2>1. primary' = [primary EXCEPT ![c] = NoMap] /\ issued' = issued
      BY <1>2 DEF delete
    <2>2. PICK mut : mut = [op |-> "delete", client |-> c]
      OBVIOUS
    <2>3. mut \in Mutation /\ mut.client = c /\ mut.op = "delete"
      BY <2>2, MutationShapes
    <2>4. Outcome(primary, mut) = NoMap
      BY <2>3 DEF Outcome
    <2>5. call' = [call EXCEPT ![k] = [pc |-> "enqueue", mut |-> mut, rest |-> << >>]]
      BY <1>2, <2>2 DEF delete, Mirror
    <2>6. PrimarySound'
      BY <2>1, PrimaryKept
    <2> QED
      BY <1>a, <2>1, <2>3, <2>4, <2>5, <2>6
  <1>3. ASSUME NEW c \in ClientId, NEW ups \in Updates, updateCounters(k, c, ups)
        PROVE  PrimarySound' /\ Effect(k)
    <2>1. PICK m : m = IF primary[c] = NoMap THEN NoMap ELSE Updated(primary[c], ups)
      OBVIOUS
    <2>2. primary[c] # NoMap => Updated(primary[c], ups) \in Map /\ CounterStateOk(Updated(primary[c], ups))
      <3>1. SUFFICES ASSUME primary[c] # NoMap
                     PROVE  Updated(primary[c], ups) \in Map /\ CounterStateOk(Updated(primary[c], ups))
        OBVIOUS
      <3>2. PICK p \in Map : p = primary[c]
        BY <1>p, <3>1
      <3>3. PICK x : x = [p EXCEPT !.ctr = [s \in Seg |-> IF s \in DOMAIN ups THEN ups[s] ELSE p.ctr[s]]]
        OBVIOUS
      <3>4. \A s \in DOMAIN ups : ups[s] \in Counter
        BY DEF Updates
      <3>5. p.ctr \in [Seg -> Counter]
        BY DEF Map
      <3>6. x \in Map
        BY <3>3, <3>4, <3>5 DEF Map
      <3>7. Updated(p, ups) = Reconciled(x)
        BY <3>3 DEF Updated
      <3> QED
        BY <3>2, <3>6, <3>7, ReconciledFacts
    <2>3. primary' = [primary EXCEPT ![c] = m] /\ issued' = issued
      BY <1>3, <1>p, <2>1 DEF updateCounters, Store
    <2>4. PICK mut : mut = [op |-> "updateCounters", client |-> c, updates |-> ups]
      OBVIOUS
    <2>5. mut \in Mutation /\ mut.client = c /\ mut.op = "updateCounters" /\ mut.updates = ups
      BY <2>4, MutationShapes
    <2>6. Outcome(primary, mut) = m
      BY <2>1, <2>5 DEF Outcome
    <2>7. call' = [call EXCEPT ![k] = [pc |-> "enqueue", mut |-> mut, rest |-> << >>]]
      BY <1>3, <2>4 DEF updateCounters, Mirror
    <2>8. PrimarySound'
      BY <1>h, <2>1, <2>2, <2>3, PrimaryKept
    <2> QED
      BY <1>a, <2>3, <2>5, <2>6, <2>7, <2>8
  <1>4. ASSUME NEW c \in ClientId, NEW s \in Seg, NEW n \in Usable, consumeCounter(k, c, s, n)
        PROVE  PrimarySound' /\ Effect(k)
    <2>1. PICK p \in Map : p = primary[c] /\ CounterStateOk(p) /\ c \in issued
      BY <1>4, <1>p, <1>h DEF consumeCounter, PrimarySound
    <2>2. PICK m : m = Consumed(p, s, n)
      OBVIOUS
    <2>3. m \in Map
      BY <2>2, ConsumedFacts
    <2>4. primary' = [primary EXCEPT ![c] = m] /\ issued' = issued
      BY <1>4, <2>1, <2>2 DEF consumeCounter
    <2>5. CASE ConsumeOk(p, s, n)
      <3>1. CounterStateOk(m)
        <4>1. PICK x : x = [p EXCEPT !.ctr[s] = n + 1]
          OBVIOUS
        <4>2. p.ctr \in [Seg -> Counter] /\ n + 1 \in Counter
          BY MapAssumption DEF Map, Counter, Usable
        <4>3. x \in Map
          BY <4>1, <4>2 DEF Map
        <4>4. m = Reconciled(x)
          BY <2>2, <2>5, <4>1 DEF Consumed
        <4> QED
          BY <4>3, <4>4, ReconciledFacts
      <3>2. PICK mut : mut = [op |-> "consumeCounter", client |-> c, seg |-> s, matched |-> n]
        OBVIOUS
      <3>3. mut \in Mutation /\ mut.client = c /\ mut.op = "consumeCounter"
            /\ mut.seg = s /\ mut.matched = n
        BY <3>2, MutationShapes
      <3>4. Outcome(primary, mut) = m
        BY <1>p, <2>1, <2>2, <3>3 DEF Outcome
      <3>5. call' = [call EXCEPT ![k] = [pc |-> "enqueue", mut |-> mut, rest |-> << >>]]
        BY <1>4, <2>1, <2>5, <3>2 DEF consumeCounter, Mirror
      <3>6. PrimarySound'
        BY <2>1, <2>3, <2>4, <3>1, PrimaryKept
      <3> QED
        BY <1>a, <2>4, <3>3, <3>4, <3>5, <3>6
    <2>6. CASE ~ConsumeOk(p, s, n)
      <3>1. SameCredential(m, p) /\ CounterStateOk(m)
        BY <2>1, <2>2, <2>6, RefusedConsumption
      <3>2. call' = call
        BY <1>4, <2>1, <2>6 DEF consumeCounter
      <3>3. ASSUME NEW d \in ClientId PROVE SameCredential(primary'[d], primary[d])
        <4>1. CASE d = c
          <5>1. primary'[d] = m /\ primary[d] = p
            BY <1>p, <2>1, <2>4, <4>1 DEF Store
          <5> QED
            BY <3>1, <5>1
        <4>2. CASE d # c
          <5>1. primary'[d] = primary[d]
            BY <1>p, <2>4, <4>2 DEF Store
          <5> QED
            BY <5>1, SameIsEquivalence
        <4> QED
          BY <4>1, <4>2
      <3>4. PrimarySound'
        BY <2>1, <2>3, <2>4, <3>1, PrimaryKept
      <3> QED
        BY <3>2, <3>3, <3>4 DEF Effect, SameOn
    <2> QED
      BY <2>5, <2>6
  <1>5. ASSUME NEW c \in ClientId, NEW v \in Vector, commitValidation(k, c, v)
        PROVE  PrimarySound' /\ Effect(k)
    <2>1. PICK p \in Map : p = primary[c] /\ CounterStateOk(p) /\ c \in issued
      BY <1>5, <1>p, <1>h DEF commitValidation, PrimarySound
    <2>2. PICK m : m = commitValidationToMap(p, v, 0)
      OBVIOUS
    <2>3. m \in Map /\ CounterStateOk(m)
      BY <2>1, <2>2, CommitKeepsMap
    <2>4. primary' = [primary EXCEPT ![c] = m] /\ issued' = issued
      BY <1>5, <2>1, <2>2 DEF commitValidation
    <2>5. primary'[c] # NoMap /\ \A d \in ClientId \ {c} : primary'[d] = primary[d]
      BY <1>p, <2>3, <2>4 DEF Store
    <2>6. call' = [call EXCEPT ![k] = [pc |-> "reread", rest |-> <<c>>]]
      BY <1>5 DEF commitValidation, Reread
    <2>7. PrimarySound'
      BY <2>1, <2>3, <2>4, PrimaryKept
    <2> QED
      BY <2>5, <2>6, <2>7 DEF Effect
  <1>6. ASSUME NEW old \in ClientId, NEW new \in ClientId, NEW lc \in Lifecycle,
               replaceCredential(k, old, new, lc)
        PROVE  PrimarySound' /\ Effect(k)
    <2>1. primary[old] # NoMap /\ new \notin issued /\ primary[new] = NoMap /\ old # new
          /\ old \in issued
      BY <1>6, <1>h DEF replaceCredential
    <2>2. PICK p \in Map : p = primary[old]
      BY <1>p, <2>1
    <2>3. PICK q : q = [p EXCEPT !.status = "revoked"]
      OBVIOUS
    <2>4. PICK w : w = NewMap(lc, 0)
      OBVIOUS
    <2>5. q \in Map /\ CounterStateOk(q) /\ w \in Map /\ CounterStateOk(w)
      <3>1. "revoked" \in Status /\ "revoked" \in Terminal /\ 0 \in Nat
        BY DEF Status, Terminal
      <3>2. q \in Map /\ q.status = "revoked"
        BY <2>3, <3>1, StatusChange
      <3> QED
        BY <2>4, <3>1, <3>2, NewMapFacts DEF CounterStateOk
    <2>6. PICK z : z = IF Cardinality(Held(primary)) >= MaxEntries THEN NoMap ELSE q
      OBVIOUS
    <2>7. primary' = [primary EXCEPT ![old] = z, ![new] = w] /\ issued' = issued \cup {new}
      BY <1>6, <2>2, <2>3, <2>4, <2>6 DEF replaceCredential
    <2>8. \A d \in ClientId : primary'[d] = IF d = new THEN w ELSE IF d = old THEN z ELSE primary[d]
      BY <1>p, <2>7 DEF Store
    <2>9. PrimarySound'
      <3>1. IsFiniteSet(issued')
        BY <2>7, FS_AddElement DEF PrimarySound
      <3>2. Held(primary)' \subseteq issued'
        BY <2>1, <2>7, <2>8 DEF Held, PrimarySound
      <3>3. \A d \in ClientId : primary'[d] # NoMap => CounterStateOk(primary'[d])
        BY <2>5, <2>6, <2>8 DEF PrimarySound
      <3> QED
        BY <3>1, <3>2, <3>3 DEF PrimarySound
    <2>10. /\ primary'[new] # NoMap
           /\ \A d \in ClientId \ {old, new} : primary'[d] = primary[d]
           /\ primary'[old] = NoMap => Cardinality(Held(primary)) >= MaxEntries
      BY <1>p, <2>1, <2>5, <2>6, <2>8
    <2>11. call' = [call EXCEPT ![k] = [pc |-> "reread", rest |-> <<old, new>>]]
      BY <1>6 DEF replaceCredential, Reread
    <2> QED
      BY <2>1, <2>9, <2>10, <2>11 DEF Effect
  <1> HIDE DEF Effect
  <1>7. PrimarySound' /\ Effect(k)
    BY <1>1, <1>2, <1>3, <1>4, <1>5, <1>6 DEF Mutate
  <1> QED
    BY <1>0, <1>7

(* The same mutation takes the same stores to the same stores.             *)
LEMMA SameAfter ==
  ASSUME NEW a \in Store, NEW b \in Store, NEW mut \in Mutation, SameOn(ClientId, a, b)
  PROVE  SameOn(ClientId, After(a, mut), After(b, mut))
  <1>1. /\ After(a, mut)[mut.client] = Outcome(a, mut)
        /\ \A c \in ClientId \ {mut.client} : After(a, mut)[c] = a[c]
    BY OutcomeType
  <1>2. /\ After(b, mut)[mut.client] = Outcome(b, mut)
        /\ \A c \in ClientId \ {mut.client} : After(b, mut)[c] = b[c]
    BY OutcomeType
  <1>3. mut.client \in ClientId
    BY MutationCases
  <1>4. SameCredential(Outcome(a, mut), Outcome(b, mut))
    BY <1>3, SameOutcome DEF SameOn
  <1>5. ASSUME NEW c \in ClientId PROVE SameCredential(After(a, mut)[c], After(b, mut)[c])
    <2>1. CASE c = mut.client
      BY <1>1, <1>2, <1>4, <2>1
    <2>2. CASE c # mut.client
      BY <1>1, <1>2, <2>2 DEF SameOn
    <2> QED
      BY <2>1, <2>2
  <1> QED
    BY <1>5 DEF SameOn

(* A mutation starts from a stream that is up to date.                     *)
LEMMA MutateOwes ==
  ASSUME MirrorTypeOK, PrimarySound, MirrorTypeOK', ReplicaEntries <= MaxEntries,
         NEW k \in Calls, Mutate(k), NEW st \in Store, Owed(k, st)
  PROVE  Owed(k, st)'
  <1>0. call[k] = Idle /\ Effect(k) /\ primary \in Store /\ primary' \in Store
        /\ call \in [Calls -> CallState] /\ Idle.pc = "idle"
    BY MutateEffect DEF MirrorTypeOK, Idle
  <1>1. SameOn(ClientId, primary, st)
    BY <1>0 DEF Owed
  <1>2. ASSUME NEW mut \in Mutation, primary' = After(primary, mut),
               call' = [call EXCEPT ![k] = [pc |-> "enqueue", mut |-> mut, rest |-> << >>]]
        PROVE  Owed(k, st)'
    <2>1. PICK x : x = [pc |-> "enqueue", mut |-> mut, rest |-> << >>]
      OBVIOUS
    <2>2. call'[k] = x /\ x.pc = "enqueue" /\ x.mut = mut /\ x.rest = << >>
      BY <1>0, <1>2, <2>1
    <2>3. SameOn(ClientId, After(primary, mut), After(st, mut))
      BY <1>0, <1>1, SameAfter
    <2>4. SameOn(ClientId, primary', After(st, call'[k].mut))
      BY <1>2, <2>2, <2>3
    <2>5. call'[k].pc = "enqueue" /\ call'[k].rest = << >>
      BY <2>2
    <2> QED
      BY <2>4, <2>5 DEF Owed, SameOn, SameCredential, After, Outcome
  <1>3. CASE call' = call /\ SameOn(ClientId, primary', primary)
    <2>1. \A c \in ClientId : SameCredential(primary'[c], st[c])
      BY <1>1, <1>3, SameIsEquivalence DEF SameOn
    <2> QED
      BY <1>0, <1>3, <2>1 DEF Owed, SameOn, SameCredential
  <1>4. ASSUME NEW c \in ClientId, call' = [call EXCEPT ![k] = [pc |-> "reread", rest |-> <<c>>]],
               primary'[c] # NoMap, \A d \in ClientId \ {c} : primary'[d] = primary[d]
        PROVE  Owed(k, st)'
    <2>1. PICK x : x = [pc |-> "reread", rest |-> <<c>>]
      OBVIOUS
    <2>2. call'[k] = x /\ x.pc = "reread" /\ x.rest = <<c>>
      BY <1>0, <1>4, <2>1
    <2>3. SameOn(ClientId \ {c}, primary', st)
      BY <1>1, <1>4 DEF SameOn
    <2>4. call'[k].pc = "reread" /\ call'[k].rest = <<c>>
      BY <2>2
    <2> QED
      BY <1>4, <2>3, <2>4 DEF Owed, SameOn, SameCredential
  <1>5. ASSUME NEW old \in ClientId, NEW new \in ClientId, old # new,
               call' = [call EXCEPT ![k] = [pc |-> "reread", rest |-> <<old, new>>]],
               primary[new] = NoMap, primary'[new] # NoMap,
               \A d \in ClientId \ {old, new} : primary'[d] = primary[d],
               primary'[old] = NoMap => Cardinality(Held(primary)) >= MaxEntries
        PROVE  Owed(k, st)'
    <2>1. PICK x : x = [pc |-> "reread", rest |-> <<old, new>>]
      OBVIOUS
    <2>2. call'[k] = x /\ x.pc = "reread" /\ x.rest = <<old, new>>
      BY <1>0, <1>5, <2>1
    <2>3. call'[k].pc = "reread" /\ call'[k].rest = <<old, new>>
      BY <2>2
    <2>4. SameOn(ClientId \ {old, new}, primary', st)
      BY <1>1, <1>5 DEF SameOn
    <2>5. primary'[old] = NoMap => Full(st, new)
      <3>1. Held(st) = Held(primary) /\ st[new] = NoMap
        BY <1>0, <1>1, <1>5, SameHeld
      <3>2. Cardinality(Held(primary)) \in Nat
        BY FS_Subset, FS_CardinalityType DEF PrimarySound
      <3> QED
        BY <1>5, <3>1, <3>2, MirrorAssumption DEF Full
    <2>6. \/ primary'[old] = NoMap /\ Full(st, new)
          \/ primary'[old] # NoMap /\ SameOn(ClientId \ {old, new}, primary', st)
      BY <2>4, <2>5
    <2>7. \E o, w \in ClientId :
             /\ call'[k].rest = <<o, w>> /\ o # w /\ primary'[w] # NoMap
             /\ \/ primary'[o] = NoMap /\ Full(st, w)
                \/ primary'[o] # NoMap /\ SameOn(ClientId \ {o, w}, primary', st)
      BY <1>5, <2>3, <2>6
    <2> QED
      BY <2>3, <2>7 DEF Owed, SameOn, SameCredential
  <1> QED
    BY <1>0, <1>2, <1>3, <1>4, <1>5 DEF Effect

(* primary.get: what is read now is what will be mirrored.                 *)
LEMMA RereadOwes ==
  ASSUME MirrorTypeOK, NEW k \in Calls, reread(k), NEW st \in Store, Owed(k, st)
  PROVE  Owed(k, st)'
  <1>0. /\ call[k].pc = "reread" /\ UNCHANGED primary /\ primary \in Store
        /\ call \in [Calls -> CallState]
    BY DEF reread, MirrorTypeOK
  <1>s. ASSUME NEW c \in ClientId, NEW r, primary[c] # NoMap, NEW mut,
               mut = [op |-> "set", client |-> c, map |-> primary[c]]
        PROVE  /\ mut \in Mutation /\ mut.client = c /\ mut.op = "set"
               /\ After(st, mut)[c] = primary[c]
               /\ \A d \in ClientId \ {c} : After(st, mut)[d] = st[d]
    <2>1. primary[c] \in Map
      BY <1>0, <1>s DEF Store
    <2>2. mut \in Mutation /\ mut.client = c /\ mut.op = "set" /\ mut.map = primary[c]
      BY <1>s, <2>1, MutationShapes
    <2>3. Outcome(st, mut) = primary[c]
      BY <2>2 DEF Outcome
    <2> QED
      BY <2>2, <2>3, OutcomeType
  <1>1. ASSUME NEW c \in ClientId, call[k].rest = <<c>>, primary[c] # NoMap,
               Full(st, c) \/ SameOn(ClientId \ {c}, primary, st)
        PROVE  Owed(k, st)'
    <2>1. Head(<<c>>) = c /\ Tail(<<c>>) = << >>
      OBVIOUS
    <2>2. PICK mut : mut = [op |-> "set", client |-> c, map |-> primary[c]]
      OBVIOUS
    <2>3. PICK x : x = [pc |-> "enqueue", rest |-> << >>, mut |-> mut]
      OBVIOUS
    <2>4. call' = [call EXCEPT ![k] = x]
      BY <1>1, <2>1, <2>2, <2>3 DEF reread
    <2>5. call'[k].pc = "enqueue" /\ call'[k].rest = << >> /\ call'[k].mut = mut
      BY <1>0, <2>3, <2>4
    <2>6. /\ mut.client = c /\ mut.op = "set"
          /\ After(st, mut)[c] = primary[c]
          /\ \A d \in ClientId \ {c} : After(st, mut)[d] = st[d]
      BY <1>1, <1>s, <2>2
    <2>7. CASE Full(st, c)
      BY <2>5, <2>6, <2>7 DEF Owed, Full, Held
    <2>8. CASE SameOn(ClientId \ {c}, primary, st)
      <3>1. SameOn(ClientId, primary, After(st, mut))
        BY <2>6, <2>8, SameIsEquivalence DEF SameOn
      <3>2. SameOn(ClientId, primary', After(st, call'[k].mut))
        BY <1>0, <2>5, <3>1
      <3> QED
        BY <2>5, <3>2 DEF Owed, SameOn, SameCredential, After, Outcome
    <2> QED
      BY <1>1, <2>7, <2>8
  <1>2. ASSUME NEW old \in ClientId, NEW new \in ClientId, call[k].rest = <<old, new>>, old # new,
               primary[new] # NoMap,
               \/ primary[old] = NoMap /\ Full(st, new)
               \/ primary[old] # NoMap /\ SameOn(ClientId \ {old, new}, primary, st)
        PROVE  Owed(k, st)'
    <2>1. Head(<<old, new>>) = old /\ Tail(<<old, new>>) = <<new>>
      OBVIOUS
    <2>2. Len(<<new>>) = 1 /\ Len(<< >>) = 0
      OBVIOUS
    <2>3. <<new>> # << >>
      BY <2>2
    <2>4. CASE primary[old] = NoMap
      <3>1. PICK x : x = [pc |-> "reread", rest |-> <<new>>]
        OBVIOUS
      <3>2. call' = [call EXCEPT ![k] = x]
        BY <1>2, <2>1, <2>3, <2>4, <3>1 DEF reread
      <3>3. call'[k].pc = "reread" /\ call'[k].rest = <<new>>
        BY <1>0, <3>1, <3>2
      <3> QED
        BY <1>0, <1>2, <2>4, <3>3 DEF Owed, Full, Held
    <2>5. CASE primary[old] # NoMap
      <3>1. PICK mut : mut = [op |-> "set", client |-> old, map |-> primary[old]]
        OBVIOUS
      <3>2. PICK x : x = [pc |-> "enqueue", rest |-> <<new>>, mut |-> mut]
        OBVIOUS
      <3>3. call' = [call EXCEPT ![k] = x]
        BY <1>2, <2>1, <2>5, <3>1, <3>2 DEF reread
      <3>4. call'[k].pc = "enqueue" /\ call'[k].rest = <<new>> /\ call'[k].mut = mut
        BY <1>0, <3>2, <3>3
      <3>5. /\ mut.client = old
            /\ After(st, mut)[old] = primary[old]
            /\ \A d \in ClientId \ {old} : After(st, mut)[d] = st[d]
        BY <1>s, <2>5, <3>1
      <3>6. SameOn(ClientId \ {new}, primary, After(st, mut))
        BY <1>2, <2>5, <3>5, SameIsEquivalence DEF SameOn
      <3>7. SameOn(ClientId \ {new}, primary', After(st, call'[k].mut))
        BY <1>0, <3>4, <3>6
      <3>8. call'[k].mut.client # new /\ primary'[new] # NoMap
        BY <1>0, <1>2, <3>4, <3>5
      <3> QED
        BY <3>4, <3>7, <3>8 DEF Owed, SameOn, SameCredential, After, Outcome
    <2> QED
      BY <2>4, <2>5
  <1> QED
    BY <1>0, <1>1, <1>2 DEF Owed

(* How far the replica is never lies beyond the chain.                     *)
LEMMA ReachedBound ==
  ASSUME MirrorTypeOK, IngestCurrent
  PROVE  Reached \in Nat /\ Reached <= Len(log)
  <1>1. ckpt \in Nat /\ ckpt <= Len(log) /\ Len(log) \in Nat /\ DOMAIN log = 1..Len(log)
    BY DEF MirrorTypeOK
  <1>2. ASSUME NEW i \in Ingests, ingest[i].pc = "applied" PROVE ckpt + 1 <= Len(log)
    <2>1. ingest[i] # Idle
      BY <1>2 DEF Idle
    <2>2. ingest[i].seq \in 1..Len(log) /\ ingest[i].seq = ckpt + 1
      BY <1>1, <1>2, <2>1 DEF MirrorTypeOK, IngestCurrent
    <2> QED
      BY <1>1, <2>2
  <1> QED
    BY <1>1, <1>2 DEF Reached

(* enqueueMutation extends the history by the mutation it mirrors.         *)
LEMMA EnqueueFollows ==
  ASSUME MirrorTypeOK, IngestCurrent, NEW k \in Calls, Calls = {k}, enqueueMutation(k),
         NEW h \in Seq(Store), HistoryOf(h), SourceFollows(h), ReplicaFollows(h)
  PROVE  \E g \in Seq(Store) : HistoryOf(g)' /\ SourceFollows(g)' /\ ReplicaFollows(g)'
  <1>1. PICK N \in Nat : N = Len(log) /\ DOMAIN log = 1..N /\ log \in Seq(Mutation)
    BY DEF MirrorTypeOK
  <1>2. Len(h) = N + 1 /\ DOMAIN h = 1..(N + 1) /\ N + 1 \in 1..(N + 1)
    BY <1>1 DEF HistoryOf
  <1>3. PICK st \in Store : st = h[N + 1]
    BY <1>2, ElementOfSeq
  <1>4. call[k].mut \in Mutation /\ call[k].pc = "enqueue"
    BY CallCases DEF enqueueMutation, MirrorTypeOK
  <1>5. PICK mut \in Mutation : mut = call[k].mut
    BY <1>4
  <1>6. PICK nx \in Store : nx = After(st, mut)
    BY OutcomeType
  <1>7. PICK g \in Seq(Store) :
          /\ Len(g) = N + 2 /\ (\A n \in 1..(N + 1) : g[n] = h[n]) /\ g[N + 2] = nx
    <2>1. PICK g : g = Append(h, nx)
      OBVIOUS
    <2>2. /\ g \in Seq(Store) /\ Len(g) = N + 1 + 1 /\ g[N + 1 + 1] = nx
          /\ \A n \in 1..(N + 1) : g[n] = h[n]
      BY <1>2, <2>1, AppendProperties
    <2>3. N + 1 + 1 = N + 2
      OBVIOUS
    <2> QED
      BY <2>2, <2>3
  <1>8. /\ log' = Append(log, mut) /\ UNCHANGED <<primary, replica, ckpt, rlost, ingest>>
    BY <1>5 DEF enqueueMutation, receiverVars
  <1>9. /\ Len(log') = N + 1 /\ DOMAIN log' = 1..(N + 1) /\ log'[N + 1] = mut
        /\ \A n \in 1..N : log'[n] = log[n]
    BY <1>1, <1>8, AppendProperties
  <1>s. \A n \in 1..(N + 1) : n = N + 1 \/ n \in 1..N
    OBVIOUS
  <1>t. \A n \in 1..N : n \in 1..(N + 1) /\ n + 1 \in 1..(N + 1)
    OBVIOUS
  <1>10. HistoryOf(g)'
    <2>1. g[1] = [c \in ClientId |-> NoMap]
      BY <1>2, <1>7 DEF HistoryOf
    <2>2. ASSUME NEW n \in 1..N PROVE g[n + 1] = After(g[n], log'[n])
      <3>1. g[n] = h[n] /\ g[n + 1] = h[n + 1] /\ log'[n] = log[n]
        BY <1>7, <1>9, <1>t
      <3>2. h[n + 1] = After(h[n], log[n])
        BY <1>1 DEF HistoryOf
      <3> QED
        BY <3>1, <3>2
    <2>3. g[N + 1 + 1] = After(g[N + 1], log'[N + 1])
      <3>1. g[N + 1] = st
        BY <1>2, <1>3, <1>7
      <3>2. N + 1 + 1 = N + 2
        OBVIOUS
      <3> QED
        BY <1>6, <1>7, <1>9, <3>1, <3>2
    <2>4. \A n \in 1..(N + 1) : g[n + 1] = After(g[n], log'[n])
      BY <1>s, <2>2, <2>3
    <2>5. Len(g) = Len(log') + 1
      BY <1>7, <1>9
    <2> HIDE DEF After
    <2> QED
      BY <1>7, <1>9, <2>1, <2>4, <2>5 DEF HistoryOf
  <1>11. \A n \in 1..N : (log'[n].op = "set" /\ Full(g[n], log'[n].client)) <=> Unwelcome(h, n)
    BY <1>7, <1>9, <1>t DEF Unwelcome
  <1>12. SourceFollows(g)'
    <2>1. CASE \E n \in DOMAIN log : Unwelcome(h, n)
      <3>1. PICK n \in 1..N : log'[n].op = "set" /\ Full(g[n], log'[n].client)
        BY <1>1, <1>11, <2>1
      <3>2. n \in DOMAIN log'
        BY <1>9, <1>t
      <3> QED
        BY <3>1, <3>2 DEF SourceFollows, Unwelcome
    <2>2. CASE Owed(k, st)
      <3>c. call \in [Calls -> CallState] /\ Idle.pc = "idle"
        BY DEF MirrorTypeOK, Idle
      <3>o. g[Len(log') + 1] = nx
        <4>1. Len(log') + 1 = N + 2
          BY <1>9
        <4> QED
          BY <1>7, <4>1
      <3>u. ASSUME Owed(k, nx)' PROVE SourceFollows(g)'
        <4>1. \A j \in Calls : j = k
          OBVIOUS
        <4>2. Owed(k, g[Len(log) + 1])'
          BY <3>o, <3>u DEF Owed
        <4> QED
          BY <4>1, <4>2 DEF SourceFollows
      <3>1. CASE call[k].rest = << >> /\ SameOn(ClientId, primary, nx)
        <4>1. call' = [call EXCEPT ![k] = Idle]
          BY <3>1 DEF enqueueMutation
        <4>2. call'[k].pc = "idle"
          BY <3>c, <4>1
        <4>3. SameOn(ClientId, primary', nx)
          BY <1>8, <3>1
        <4> QED
          BY <3>u, <4>2, <4>3 DEF Owed, SameOn, SameCredential
      <3>2. CASE mut.op = "set" /\ Full(st, mut.client)
        <4>1. log'[N + 1].op = "set" /\ Full(g[N + 1], log'[N + 1].client)
          BY <1>2, <1>3, <1>7, <1>9, <3>2
        <4>2. N + 1 \in DOMAIN log'
          BY <1>2, <1>9
        <4> QED
          BY <4>1, <4>2 DEF SourceFollows, Unwelcome
      <3>3. ASSUME NEW new \in ClientId, call[k].rest = <<new>>, primary[new] # NoMap,
                   SameOn(ClientId \ {new}, primary, nx)
            PROVE  SourceFollows(g)'
        <4>1. Len(<<new>>) = 1 /\ Len(<< >>) = 0
          OBVIOUS
        <4>2. <<new>> # << >>
          BY <4>1
        <4>3. PICK x : x = [pc |-> "reread", rest |-> <<new>>]
          OBVIOUS
        <4>4. call' = [call EXCEPT ![k] = x]
          BY <3>3, <4>2, <4>3 DEF enqueueMutation
        <4>5. call'[k].pc = "reread" /\ call'[k].rest = <<new>>
          BY <3>c, <4>3, <4>4
        <4>6. SameOn(ClientId \ {new}, primary', nx) /\ primary'[new] # NoMap
          BY <1>8, <3>3
        <4> QED
          BY <3>u, <4>5, <4>6 DEF Owed, SameOn, SameCredential
      <3> QED
        BY <1>4, <1>5, <1>6, <2>2, <3>1, <3>2, <3>3 DEF Owed
    <2> QED
      BY <1>1, <1>3, <2>1, <2>2 DEF SourceFollows
  <1>13. ReplicaFollows(g)'
    <2>1. Reached' = Reached
      BY <1>8 DEF Reached
    <2>2. PICK R \in Nat : R = Reached /\ R <= N
      BY <1>1, ReachedBound
    <2>3. R + 1 \in 1..(N + 1) /\ 1..R \subseteq 1..N
      BY <2>2
    <2>4. g[R + 1] = h[R + 1]
      BY <1>7, <2>3
    <2>5. ~rlost => SameOn(ClientId, replica, h[R + 1]) /\ \A n \in 1..R : ~Unwelcome(h, n)
      BY <2>2 DEF ReplicaFollows
    <2>6. ~rlost' => SameOn(ClientId, replica', g[R + 1])
      BY <1>8, <2>4, <2>5
    <2>7. ~rlost' => \A n \in 1..R : ~(log'[n].op = "set" /\ Full(g[n], log'[n].client))
      BY <1>8, <1>11, <2>3, <2>5
    <2> QED
      BY <2>1, <2>2, <2>6, <2>7 DEF ReplicaFollows, Unwelcome, SameOn, SameCredential
  <1> QED
    BY <1>10, <1>12, <1>13

(* A step of the source that adds nothing to the chain keeps its history.  *)
LEMMA SourceStepFollows ==
  ASSUME MirrorTypeOK, UNCHANGED <<log, receiverVars>>, NEW k \in Calls, Calls = {k},
         NEW h \in Seq(Store), HistoryOf(h), SourceFollows(h), ReplicaFollows(h),
         \A st \in Store : Owed(k, st) => Owed(k, st)'
  PROVE  HistoryOf(h)' /\ SourceFollows(h)' /\ ReplicaFollows(h)'
  <1>1. HistoryOf(h)'
    BY DEF HistoryOf
  <1>2. ReplicaFollows(h)'
    BY DEF ReplicaFollows, Reached, Unwelcome, SameOn, SameCredential, receiverVars
  <1>3. PICK N \in Nat : N = Len(log) /\ Len(h) = N + 1
    BY DEF MirrorTypeOK, HistoryOf
  <1>4. N + 1 \in 1..Len(h)
    BY <1>3
  <1>5. PICK st \in Store : st = h[N + 1]
    BY <1>4, ElementOfSeq
  <1>6. Owed(k, st) => Owed(k, h[Len(log) + 1])'
    <2>1. h[Len(log') + 1] = st
      BY <1>3, <1>5
    <2>2. Owed(k, st)' => Owed(k, h[Len(log) + 1])'
      BY <2>1 DEF Owed
    <2> QED
      BY <2>2
  <1>7. ASSUME \E n \in DOMAIN log : Unwelcome(h, n) PROVE SourceFollows(h)'
    <2>1. PICK n \in DOMAIN log : log[n].op = "set" /\ Full(h[n], log[n].client)
      BY <1>7 DEF Unwelcome
    <2>2. n \in DOMAIN log' /\ log'[n].op = "set" /\ Full(h[n], log'[n].client)
      BY <2>1
    <2> QED
      BY <2>2 DEF SourceFollows, Unwelcome
  <1>8. ASSUME Owed(k, st) PROVE SourceFollows(h)'
    <2>1. \A j \in Calls : j = k
      OBVIOUS
    <2>2. Owed(k, h[Len(log) + 1])'
      BY <1>6, <1>8
    <2> QED
      BY <2>1, <2>2 DEF SourceFollows
  <1>9. SourceFollows(h)'
    BY <1>3, <1>5, <1>7, <1>8 DEF SourceFollows
  <1> QED
    BY <1>1, <1>2, <1>9

(* A mutation that is applied takes the replica one store further.         *)
LEMMA AppliedFollows ==
  ASSUME MirrorTypeOK, MirrorTypeOK', NEW i \in Ingests, \A j \in Ingests : j = i,
         ingest[i] # Idle, ingest[i].pc # "applied", ingest'[i].pc = "applied",
         ingest[i].seq = ckpt + 1, UNCHANGED <<ckpt, rlost, log>>,
         NEW mut \in Mutation, mut = Mut(i), replica' = After(replica, mut),
         mut.op = "set" => replica[mut.client] # NoMap
                           \/ Cardinality(Held(replica)) < ReplicaEntries,
         NEW h \in Seq(Store), HistoryOf(h), ReplicaFollows(h)
  PROVE  ReplicaFollows(h)'
  <1>1. PICK n \in Nat : n = ckpt + 1 /\ n \in DOMAIN log /\ mut = log[n]
    BY DEF MirrorTypeOK, Mut
  <1>2. Reached = ckpt /\ Reached' = n /\ ckpt \in Nat
    BY <1>1 DEF Reached, MirrorTypeOK
  <1>3. PICK N \in Nat : N = Len(log) /\ DOMAIN log = 1..N /\ Len(h) = N + 1
    BY DEF MirrorTypeOK, HistoryOf
  <1>4. n \in 1..Len(h) /\ n + 1 \in 1..Len(h)
    BY <1>1, <1>3
  <1>5. PICK a \in Store : a = h[n]
    BY <1>4, ElementOfSeq
  <1>6. h[n + 1] = After(a, mut)
    BY <1>1, <1>5 DEF HistoryOf
  <1>7. CASE rlost
    BY <1>7 DEF ReplicaFollows
  <1>8. CASE ~rlost
    <2>1. replica \in Store
      BY DEF MirrorTypeOK
    <2>2. SameOn(ClientId, replica, a)
      <3>1. SameOn(ClientId, replica, h[ckpt + 1])
        BY <1>2, <1>8 DEF ReplicaFollows
      <3> QED
        BY <1>1, <1>5, <3>1
    <2>3. \A m \in 1..ckpt : ~Unwelcome(h, m)
      BY <1>2, <1>8 DEF ReplicaFollows
    <2>4. SameOn(ClientId, replica', h[n + 1])
      <3>1. SameOn(ClientId, After(replica, mut), After(a, mut))
        BY <2>1, <2>2, SameAfter
      <3> QED
        BY <1>6, <3>1
    <2>5. ~(mut.op = "set" /\ Full(a, mut.client))
      <3>1. Held(replica) = Held(a) /\ \A c \in ClientId : replica[c] = NoMap <=> a[c] = NoMap
        BY <2>1, <2>2, SameHeld
      <3>2. mut.client \in ClientId
        BY MutationCases
      <3> QED
        BY <3>1, <3>2 DEF Full
    <2>6. ~Unwelcome(h, n)
      BY <1>1, <1>5, <2>5 DEF Unwelcome
    <2>7. \A m \in 1..n : m = n \/ m \in 1..ckpt
      BY <1>1, <1>2
    <2>8. \A m \in 1..n : ~Unwelcome(h, m)
      BY <2>3, <2>6, <2>7
    <2>9. \A m \in 1..n : ~(log'[m].op = "set" /\ Full(h[m], log'[m].client))
      BY <2>8 DEF Unwelcome
    <2> QED
      BY <1>2, <2>4, <2>9 DEF ReplicaFollows, Unwelcome, SameOn, SameCredential
  <1> QED
    BY <1>7, <1>8

(* Every step of the receiver, with one ingest at a time.                  *)
LEMMA ReceiverFollows ==
  ASSUME MirrorTypeOK, MirrorTypeOK', IngestCurrent, NEW i \in Ingests, \A j \in Ingests : j = i,
         Ingest(i) \/ unsealFails(i) \/ LoseRequest(i) \/ GiveUp(i),
         NEW h \in Seq(Store), HistoryOf(h), ReplicaFollows(h)
  PROVE  ReplicaFollows(h)'
  <1>i. Idle.pc = "idle" /\ ingest \in [Ingests -> IngestState] /\ ckpt \in Nat
    BY DEF Idle, MirrorTypeOK
  <1>l. log' = log
    BY DEF Ingest, push, ack, outOfOrder, ingestSet, unsealed, applySet, ingestDelete,
       ingestUpdate, applyUpdate, ingestConsume, advance, unsealFails, LoseRequest, GiveUp,
       sourceVars
  <1>k. ASSUME replica' = replica, Reached' = Reached, rlost => rlost' PROVE ReplicaFollows(h)'
    BY <1>k, <1>l DEF ReplicaFollows, Unwelcome, SameOn, SameCredential
  <1>x. ASSUME rlost' PROVE ReplicaFollows(h)'
    BY <1>x DEF ReplicaFollows
  <1>n. ASSUME UNCHANGED <<replica, ckpt>>, rlost => rlost',
               ingest[i].pc = "applied" <=> ingest'[i].pc = "applied"
        PROVE  ReplicaFollows(h)'
    <2>1. Reached' = Reached
      BY <1>n DEF Reached
    <2> QED
      BY <1>k, <1>n, <2>1
  <1>1. CASE push(i)
    <2>1. PICK x : x = [pc |-> "wire", seq |-> Head(queue), waited |-> TRUE]
      OBVIOUS
    <2>2. ingest'[i] = x /\ x.pc = "wire" /\ ingest[i].pc = "idle" /\ UNCHANGED <<replica, ckpt, rlost>>
      BY <1>1, <1>i, <2>1 DEF push
    <2> QED
      BY <1>n, <2>2
  <1>2. CASE ack(i) \/ outOfOrder(i) \/ unsealFails(i) \/ LoseRequest(i)
    <2>1. ingest'[i].pc = "idle" /\ ingest[i].pc # "applied" /\ UNCHANGED <<replica, ckpt>>
      BY <1>2, <1>i DEF ack, outOfOrder, unsealFails, LoseRequest, Refuse
    <2>2. rlost => rlost'
      BY <1>2 DEF ack, outOfOrder, unsealFails, LoseRequest
    <2> QED
      BY <1>n, <2>1, <2>2
  <1>3. CASE GiveUp(i)
    <2>1. PICK x : x = [ingest[i] EXCEPT !.waited = FALSE]
      OBVIOUS
    <2>2. ingest[i] # Idle /\ ingest[i] \in IngestState
      BY <1>3 DEF GiveUp, MirrorTypeOK
    <2>3. x.pc = ingest[i].pc
      BY <2>1, <2>2, IngestCases
    <2>4. ingest'[i] = x /\ UNCHANGED <<replica, ckpt, rlost>>
      BY <1>3, <1>i, <2>1 DEF GiveUp
    <2> QED
      BY <1>n, <2>3, <2>4
  <1>4. CASE ingestSet(i)
    <2>1. ingest'[i].pc = "unseal" /\ ingest[i].pc = "wire" /\ UNCHANGED <<replica, ckpt, rlost>>
      BY <1>4, <1>i DEF ingestSet, To
    <2> QED
      BY <1>n, <2>1
  <1>5. CASE unsealed(i) \/ ingestUpdate(i)
    <2>1. ingest'[i].pc = "got" /\ ingest[i].pc \in {"wire", "unseal"}
          /\ UNCHANGED <<replica, ckpt, rlost>>
      BY <1>5, <1>i DEF unsealed, ingestUpdate, Got
    <2> QED
      BY <1>n, <2>1
  <1>6. CASE advance(i)
    <2>1. ingest'[i].pc = "answer" /\ ingest[i].pc = "applied" /\ ckpt' = ingest[i].seq
          /\ UNCHANGED <<replica, rlost>>
      BY <1>6, <1>i DEF advance, To
    <2>2. ckpt' = ckpt + 1
      BY <2>1 DEF IngestCurrent
    <2>3. Reached = ckpt + 1 /\ Reached' = ckpt'
      BY <2>1 DEF Reached
    <2> QED
      BY <1>k, <2>1, <2>2, <2>3
  <1>7. CASE applySet(i) \/ ingestDelete(i) \/ applyUpdate(i) \/ ingestConsume(i)
    <2>1. /\ ingest[i].pc \in {"wire", "got"} /\ ingest[i].seq = ckpt + 1 /\ ckpt' = ckpt
      BY <1>7 DEF applySet, ingestDelete, applyUpdate, ingestConsume, NextSequence, IngestCurrent
    <2>2. ingest[i] # Idle /\ ingest[i].pc # "applied"
      BY <2>1, <1>i
    <2>3. PICK mut \in Mutation : mut = Mut(i)
      BY <2>2, IngestFacts
    <2>4. PICK c \in ClientId : c = mut.client /\ (replica[c] = NoMap \/ replica[c] \in Map)
      BY <2>2, <2>3, IngestFacts
    <2>r. replica \in Store
      BY DEF MirrorTypeOK
    <2>5. ASSUME To(i, "applied"), rlost' = rlost,
                 replica' = [replica EXCEPT ![c] = Outcome(replica, mut)],
                 mut.op = "set" => replica[c] # NoMap
                                   \/ Cardinality(Held(replica)) < ReplicaEntries
          PROVE  ReplicaFollows(h)'
      <3>1. ingest'[i].pc = "applied"
        BY <1>i, <2>5 DEF To
      <3>2. replica' = After(replica, mut)
        BY <2>4, <2>5 DEF After
      <3> QED
        BY <1>l, <2>1, <2>2, <2>3, <2>4, <2>5, <3>1, <3>2, AppliedFollows
    <2>6. CASE applySet(i)
      <3>1. mut.op = "set"
        BY <2>3, <2>6 DEF applySet
      <3>2. Outcome(replica, mut) = mut.map
        BY <3>1 DEF Outcome
      <3>3. \/ rlost'
            \/ /\ To(i, "applied") /\ rlost' = rlost
               /\ replica' = [replica EXCEPT ![c] = mut.map]
               /\ replica[c] # NoMap \/ Cardinality(Held(replica)) < ReplicaEntries
        BY <2>3, <2>4, <2>6 DEF applySet, CanSet
      <3> QED
        BY <1>x, <2>5, <3>2, <3>3
    <2>7. CASE ingestDelete(i)
      <3>1. mut.op = "delete"
        BY <2>3, <2>7 DEF ingestDelete
      <3>2. Outcome(replica, mut) = NoMap /\ mut.op # "set"
        BY <3>1 DEF Outcome
      <3>3. To(i, "applied") /\ rlost' = rlost /\ replica' = [replica EXCEPT ![c] = NoMap]
        BY <2>3, <2>4, <2>7 DEF ingestDelete
      <3> QED
        BY <2>5, <3>2, <3>3
    <2>8. CASE applyUpdate(i)
      <3>1. mut.op = "updateCounters" /\ ingest[i].current = replica[c]
        BY <2>3, <2>4, <2>8 DEF applyUpdate, IngestCurrent
      <3>2. CASE rlost'
        BY <1>x, <3>2
      <3>3. CASE ~rlost'
        <4>1. /\ To(i, "applied") /\ rlost' = rlost /\ replica[c] # NoMap
              /\ replica' = [replica EXCEPT ![c] = Updated(replica[c], mut.updates)]
          BY <2>3, <2>4, <2>8, <3>1, <3>3 DEF applyUpdate
        <4>2. Outcome(replica, mut) = Updated(replica[c], mut.updates) /\ mut.op # "set"
          BY <2>4, <3>1, <4>1 DEF Outcome
        <4> QED
          BY <2>5, <4>1, <4>2
      <3> QED
        BY <3>2, <3>3
    <2>9. CASE ingestConsume(i)
      <3>1. mut.op = "consumeCounter"
        BY <2>3, <2>9 DEF ingestConsume
      <3>2. CASE rlost'
        BY <1>x, <3>2
      <3>3. CASE ~rlost'
        <4>1. /\ To(i, "applied") /\ rlost' = rlost /\ replica[c] # NoMap
              /\ replica' = [replica EXCEPT ![c] = Consumed(replica[c], mut.seg, mut.matched)]
          BY <2>3, <2>4, <2>9, <3>3 DEF ingestConsume
        <4>2. Outcome(replica, mut) = Consumed(replica[c], mut.seg, mut.matched) /\ mut.op # "set"
          BY <2>4, <3>1, <4>1 DEF Outcome
        <4> QED
          BY <2>5, <4>1, <4>2
      <3> QED
        BY <3>2, <3>3
    <2> QED
      BY <1>7, <2>6, <2>7, <2>8, <2>9
  <1> QED
    BY <1>1, <1>2, <1>3, <1>4, <1>5, <1>6, <1>7 DEF Ingest

LEMMA SerialInit ==
  ASSUME MirrorInit
  PROVE  SerialInv
  <1>1. PICK st : st = [c \in ClientId |-> NoMap]
    OBVIOUS
  <1>2. st \in Store /\ primary = st /\ replica = st
    BY <1>1 DEF MirrorInit, Store
  <1>3. PrimarySound
    BY FS_EmptySet DEF MirrorInit, PrimarySound, Held
  <1>4. IngestCurrent
    BY DEF MirrorInit, IngestCurrent, Idle
  <1>5. PICK h : h = <<st>>
    OBVIOUS
  <1>6. h \in Seq(Store) /\ Len(h) = 1 /\ h[1] = st
    BY <1>2, <1>5
  <1>7. Len(log) = 0 /\ DOMAIN log = {}
    BY DEF MirrorInit
  <1>8. HistoryOf(h)
    BY <1>1, <1>6, <1>7 DEF HistoryOf
  <1>9. SameOn(ClientId, st, st)
    BY SameIsEquivalence DEF SameOn
  <1>10. h[Len(log) + 1] = st
    BY <1>6, <1>7
  <1>11. SourceFollows(h)
    BY <1>2, <1>9, <1>10 DEF SourceFollows, Owed, MirrorInit, Idle
  <1>12. Reached = 0
    BY DEF Reached, MirrorInit, Idle
  <1>13. ReplicaFollows(h)
    BY <1>2, <1>6, <1>9, <1>12 DEF ReplicaFollows
  <1> QED
    BY <1>3, <1>4, <1>6, <1>8, <1>11, <1>13 DEF SerialInv

LEMMA SerialStep ==
  ASSUME NEW k \in Calls, Calls = {k}, \A i, j \in Ingests : i = j, ReplicaEntries <= MaxEntries,
         MirrorTypeOK, MirrorTypeOK', SerialInv, [MirrorNext]_mirrorVars
  PROVE  SerialInv'
  <1>1. PrimarySound /\ IngestCurrent
    BY DEF SerialInv
  <1>2. PICK h \in Seq(Store) : HistoryOf(h) /\ SourceFollows(h) /\ ReplicaFollows(h)
    BY DEF SerialInv
  <1>3. IngestCurrent'
    BY <1>1, IngestCurrentStep
  <1>4. ASSUME PrimarySound',
               \E g \in Seq(Store) : HistoryOf(g)' /\ SourceFollows(g)' /\ ReplicaFollows(g)'
        PROVE  SerialInv'
    BY <1>3, <1>4 DEF SerialInv
  <1>5. CASE UNCHANGED mirrorVars
    <2>1. PrimarySound'
      BY <1>1, <1>5 DEF PrimarySound, Held, mirrorVars, sourceVars
    <2>2. UNCHANGED <<log, receiverVars>> /\ UNCHANGED <<primary, call>>
      BY <1>5 DEF mirrorVars, sourceVars
    <2>3. \A st \in Store : Owed(k, st) => Owed(k, st)'
      BY <2>2 DEF Owed
    <2> QED
      BY <1>2, <1>4, <2>1, <2>2, <2>3, SourceStepFollows
  <1>6. CASE Mutate(k)
    <2>1. PrimarySound' /\ UNCHANGED <<log, receiverVars>>
      BY <1>1, <1>6, MutateEffect
    <2>2. \A st \in Store : Owed(k, st) => Owed(k, st)'
      BY <1>1, <1>6, MutateOwes
    <2> QED
      BY <1>2, <1>4, <2>1, <2>2, SourceStepFollows
  <1>7. CASE reread(k)
    <2>1. UNCHANGED <<log, receiverVars>> /\ UNCHANGED <<primary, issued>>
      BY <1>7 DEF reread
    <2>2. PrimarySound'
      BY <1>1, <2>1 DEF PrimarySound, Held
    <2>3. \A st \in Store : Owed(k, st) => Owed(k, st)'
      BY <1>7, RereadOwes
    <2> QED
      BY <1>2, <1>4, <2>1, <2>2, <2>3, SourceStepFollows
  <1>8. CASE enqueueMutation(k)
    <2>1. UNCHANGED <<primary, issued>>
      BY <1>8 DEF enqueueMutation
    <2>2. PrimarySound'
      BY <1>1, <2>1 DEF PrimarySound, Held
    <2> QED
      BY <1>1, <1>2, <1>4, <1>8, <2>2, EnqueueFollows
  <1>9. ASSUME NEW i \in Ingests, Ingest(i) \/ unsealFails(i) \/ LoseRequest(i) \/ GiveUp(i)
        PROVE  SerialInv'
    <2>1. UNCHANGED <<primary, issued, call, log>>
      BY <1>9 DEF Ingest, push, ack, outOfOrder, ingestSet, unsealed, applySet, ingestDelete,
         ingestUpdate, applyUpdate, ingestConsume, advance, unsealFails, LoseRequest, GiveUp,
         sourceVars
    <2>2. PrimarySound'
      BY <1>1, <2>1 DEF PrimarySound, Held
    <2>3. \A j \in Ingests : j = i
      OBVIOUS
    <2>4. ReplicaFollows(h)'
      BY <1>1, <1>2, <1>9, <2>3, ReceiverFollows
    <2>5. HistoryOf(h)'
      BY <1>2, <2>1 DEF HistoryOf
    <2>6. SourceFollows(h)'
      BY <1>2, <2>1 DEF SourceFollows, Unwelcome, Owed
    <2> QED
      BY <1>2, <1>4, <2>2, <2>4, <2>5, <2>6
  <1>10. \A j \in Calls : j = k
    OBVIOUS
  <1> QED
    BY <1>5, <1>6, <1>7, <1>8, <1>9, <1>10 DEF MirrorNext, Continue

(* With one mutation and one ingest at a time, and a replica no larger     *)
(* than its primary, SerialInv holds: the chain has one history of stores  *)
(* which both ends follow, the replica behind the primary.                 *)
THEOREM SerialInvariant ==
  ASSUME NEW k \in Calls, Calls = {k}, \A i, j \in Ingests : i = j, ReplicaEntries <= MaxEntries
  PROVE  MirrorSpec => []SerialInv
  <1>1. MirrorInit => SerialInv
    BY SerialInit
  <1>2. MirrorTypeOK /\ MirrorTypeOK' /\ SerialInv /\ [MirrorNext]_mirrorVars => SerialInv'
    BY SerialStep
  <1> QED
    BY <1>1, <1>2, MirrorTypeCorrect, PTL DEF MirrorSpec

(* What promotionCheckpoint() compares (replicating-tumbler-store.ts) is   *)
(* enough when mutations do not overlap: an operator who promotes a replica*)
(* whose checkpoint is the source's last one finds the primary's           *)
(* credentials there, whatever was retried, lost or refused, and although  *)
(* a replacement at capacity never mirrors the deletion of the old one.    *)
THEOREM SerialMirrorsPrimary ==
  ASSUME NEW k \in Calls, Calls = {k}, \A i, j \in Ingests : i = j, ReplicaEntries <= MaxEntries
  PROVE  MirrorSpec => []MirrorsPrimary
  <1>1. ASSUME MirrorTypeOK, SerialInv, Promotable, \A j \in Calls : call[j] = Idle,
               NEW c \in ClientId
        PROVE  SameCredential(primary[c], replica[c])
    <2>1. IngestCurrent
      BY <1>1 DEF SerialInv
    <2>2. PICK h \in Seq(Store) : HistoryOf(h) /\ SourceFollows(h) /\ ReplicaFollows(h)
      BY <1>1 DEF SerialInv
    <2>3. ckpt = Len(log) /\ ~rlost /\ Len(log) \in Nat /\ DOMAIN log = 1..Len(log)
      BY <1>1 DEF Promotable, MirrorTypeOK
    <2>4. Reached = Len(log)
      <3>1. Reached \in Nat /\ Reached <= Len(log)
        BY <1>1, <2>1, ReachedBound
      <3>2. Reached = ckpt \/ Reached = ckpt + 1
        BY DEF Reached
      <3> QED
        BY <2>3, <3>1, <3>2
    <2>5. /\ SameOn(ClientId, replica, h[Len(log) + 1])
          /\ \A n \in DOMAIN log : ~Unwelcome(h, n)
      BY <2>2, <2>3, <2>4 DEF ReplicaFollows
    <2>6. Owed(k, h[Len(log) + 1])
      BY <2>2, <2>5 DEF SourceFollows
    <2>7. SameOn(ClientId, primary, h[Len(log) + 1])
      <3>1. call[k].pc = "idle"
        BY <1>1 DEF Idle
      <3> QED
        BY <2>6, <3>1 DEF Owed
    <2> QED
      BY <2>5, <2>7, SameIsEquivalence DEF SameOn
  <1>2. MirrorTypeOK /\ SerialInv => MirrorsPrimary
    BY <1>1 DEF MirrorsPrimary
  <1> QED
    BY <1>2, SerialInvariant, MirrorTypeCorrect, PTL
=============================================================================
