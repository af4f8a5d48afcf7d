-------------------------- MODULE HotpOutboxProofs --------------------------
(***************************************************************************)
(* Safety of the HOTP outbox for every set of mutations, any number of     *)
(* publishers, rows, fences and restores.                                  *)
(***************************************************************************)
EXTENDS HotpOutbox, SequenceTheorems, TLAPS

(* The items of a table of rows form a sequence of the same length.         *)
LEMMA ItemsFacts ==
  ASSUME NEW rows \in Seq(Row)
  PROVE  Items(rows) \in Seq(Item) /\ Len(Items(rows)) = Len(rows)
  <1>1. /\ Len(rows) \in Nat /\ DOMAIN rows = 1..Len(rows)
        /\ \A i \in 1..Len(rows) : rows[i] \in Row
    BY ElementOfSeq, LenProperties
  <1>2. Items(rows) = [i \in 1..Len(rows) |-> rows[i].item]
    BY <1>1 DEF Items
  <1>3. \A i \in 1..Len(rows) : rows[i].item \in Item
    BY <1>1 DEF Row
  <1> QED
    BY <1>1, <1>2, <1>3, IsASeq

(* Marking a row changes its state and nothing else.                        *)
LEMMA MarkedFacts ==
  ASSUME src.rows \in Seq(Row), NEW i \in DOMAIN src.rows,
         NEW st \in {"pending", "acked", "quarantined"}
  PROVE  /\ Marked(i, st) \in Seq(Row)
         /\ DOMAIN Marked(i, st) = DOMAIN src.rows
         /\ \A j \in DOMAIN src.rows :
              /\ Marked(i, st)[j].item = src.rows[j].item
              /\ Marked(i, st)[j].prev = src.rows[j].prev
              /\ Marked(i, st)[j].state = IF j = i THEN st ELSE src.rows[j].state
  <1> DEFINE r == [src.rows[i] EXCEPT !.state = st]
  <1>1. DOMAIN src.rows = 1..Len(src.rows) /\ \A j \in DOMAIN src.rows : src.rows[j] \in Row
    BY ElementOfSeq, LenProperties
  <1>2. r \in Row /\ r.item = src.rows[i].item /\ r.prev = src.rows[i].prev /\ r.state = st
    BY <1>1 DEF Row
  <1>3. Marked(i, st) = [src.rows EXCEPT ![i] = r]
    BY DEF Marked
  <1> HIDE DEF r
  <1>4. Marked(i, st) \in Seq(Row)
    BY <1>1, <1>2, <1>3, ExceptSeq
  <1>5. DOMAIN Marked(i, st) = DOMAIN src.rows
    BY <1>3
  <1>6. \A j \in DOMAIN src.rows : Marked(i, st)[j] = IF j = i THEN r ELSE src.rows[j]
    BY <1>3, <1>1, LenProperties
  <1> QED
    BY <1>2, <1>4, <1>5, <1>6

(* The row appendInTx inserts, and the table after it.                      *)
LEMMA AppendFacts ==
  ASSUME OutboxTypeOK, NEW op \in Op, appendInTx(op)
  PROVE  \E row \in Row :
           /\ row.state = "pending" /\ row.prev = Items(src.rows)
           /\ row.item = [op |-> op, fence |-> src.fence]
           /\ src'.rows = Append(src.rows, row) /\ src'.rows \in Seq(Row)
           /\ src'.fence = src.fence /\ src'.halted = src.halted
           /\ src' \in SourceDb
           /\ signed' = signed \cup {Append(row.prev, row.item)}
           /\ DOMAIN src.rows = 1..Len(src.rows) /\ Len(src.rows) \in Nat
           /\ DOMAIN src'.rows = 1..(Len(src.rows) + 1)
           /\ \A i \in DOMAIN src.rows : src'.rows[i] = src.rows[i]
           /\ src'.rows[Len(src.rows) + 1] = row
  <1> DEFINE row == [item |-> [op |-> op, fence |-> src.fence],
                     prev |-> Items(src.rows), state |-> "pending"]
  <1>1. src \in SourceDb /\ src.rows \in Seq(Row) /\ src.fence \in Fence
    BY DEF OutboxTypeOK, SourceDb
  <1>2. row \in Row
    BY <1>1, ItemsFacts DEF Row, Item
  <1>3. src' = [src EXCEPT !.rows = Append(@, row)]
        /\ signed' = signed \cup {Append(Items(src.rows), [op |-> op, fence |-> src.fence])}
    BY DEF appendInTx
  <1>4. /\ row.state = "pending" /\ row.prev = Items(src.rows)
        /\ row.item = [op |-> op, fence |-> src.fence]
    OBVIOUS
  <1> HIDE DEF row
  <1>5. Append(src.rows, row) \in Seq(Row) /\ src' \in SourceDb /\ src'.rows = Append(src.rows, row)
        /\ src'.fence = src.fence /\ src'.halted = src.halted
    BY <1>1, <1>2, <1>3, AppendProperties DEF SourceDb
  <1> QED
    BY <1>1, <1>2, <1>3, <1>4, <1>5, AppendProperties, LenProperties

(* What verifyAndApplyTumblerInTx does to the receiver's database.          *)
LEMMA ReceiveType ==
  ASSUME OutboxTypeOK, NEW rec \in Record, Receive(rec)
  PROVE  /\ rcv' \in [applied : Seq(Item), consumed : [Tumbler -> Nat], fence : Fence]
         /\ \/ rcv' = rcv /\ Decision(rec) # "applied"
            \/ /\ Decision(rec) = "applied"
               /\ rcv'.applied = Append(rcv.applied, rec.item)
               /\ rcv'.consumed = [rcv.consumed EXCEPT ![rec.item.op.tumbler] = rec.item.op.counter]
               /\ rcv'.fence = rcv.fence
  <1>1. /\ rcv \in [applied : Seq(Item), consumed : [Tumbler -> Nat], fence : Fence]
        /\ rec.item \in Item
    BY DEF OutboxTypeOK, Record
  <1>2. rec.item.op \in Op /\ rec.item.op.tumbler \in Tumbler /\ rec.item.op.counter \in Nat
    BY <1>1, OutboxAssumption DEF Item, Tumbler
  <1>3. CASE Decision(rec) # "applied"
    BY <1>1, <1>3 DEF Receive
  <1>4. CASE Decision(rec) = "applied"
    <2> DEFINE a == Append(rcv.applied, rec.item)
               c == [rcv.consumed EXCEPT ![rec.item.op.tumbler] = rec.item.op.counter]
    <2>1. rcv' = [rcv EXCEPT !.applied = a, !.consumed = c]
      BY <1>4, <1>1 DEF Receive
    <2>2. a \in Seq(Item) /\ c \in [Tumbler -> Nat]
      BY <1>1, <1>2, AppendProperties
    <2> HIDE DEF a, c
    <2>3. rcv'.applied = a /\ rcv'.consumed = c /\ rcv'.fence = rcv.fence
          /\ rcv' \in [applied : Seq(Item), consumed : [Tumbler -> Nat], fence : Fence]
      BY <2>1, <2>2, <1>1
    <2> QED
      BY <1>4, <2>3 DEF a, c
  <1> QED
    BY <1>3, <1>4

-----------------------------------------------------------------------------
LEMMA OutboxInitOK == OutboxInit => OutboxTypeOK /\ OutboxInv
  <1> SUFFICES ASSUME OutboxInit PROVE OutboxTypeOK /\ OutboxInv
    OBVIOUS
  <1>1. 1 \in Fence
    BY OutboxAssumption DEF Fence
  <1>2. << >> \in Seq(Row) /\ << >> \in Seq(Item) /\ DOMAIN << >> = {}
    BY EmptySeq
  <1>3. OutboxTypeOK
    BY <1>1, <1>2, OutboxAssumption
       DEF OutboxInit, OutboxTypeOK, SourceDb, NoLease, PubIdle, PubState, LeaseRow
  <1>4. OutboxInv
    BY <1>2, OutboxAssumption
       DEF OutboxInit, OutboxInv, AckedIn, OrderIn, AppliedWasSigned, NoDoubleConsume,
           ReceiptsDelivered, HolderInOrder, RecordsSigned, ConsumedCovers,
           NoLease, PubIdle, Flying
  <1> QED
    BY <1>3, <1>4

(* The record a drain holds is a record, and the first pending row is one.  *)
LEMMA RecFacts ==
  ASSUME OutboxTypeOK, NEW p \in Publisher
  PROVE  /\ pub[p].pc \in Flying => pub[p].rec \in Record
         /\ pub[p].pc \notin Flying => pub[p] = [pc |-> pub[p].pc]
  <1>1. \/ pub[p] \in [pc : {"idle", "checked", "leased", "releasing"}]
        \/ pub[p] \in [pc : Flying, rec : Record]
    BY DEF OutboxTypeOK, PubState
  <1> QED
    BY <1>1 DEF Flying

LEMMA RecordOfFacts ==
  ASSUME OutboxTypeOK, NEW i \in Pending
  PROVE  i \in DOMAIN src.rows /\ RecordOf(i) \in Record
  <1>1. /\ src.rows \in Seq(Row) /\ DOMAIN src.rows = 1..Len(src.rows) /\ Len(src.rows) \in Nat
        /\ \A j \in DOMAIN src.rows : src.rows[j] \in Row
    BY ElementOfSeq, LenProperties DEF OutboxTypeOK, SourceDb
  <1> QED
    BY <1>1 DEF Pending, RecordOf, Record, Row

(* Every transaction and every failure keeps the representation.            *)
LEMMA OutboxTypeStep == OutboxTypeOK /\ [OutboxNext]_outboxVars => OutboxTypeOK'
  <1> SUFFICES ASSUME OutboxTypeOK, [OutboxNext]_outboxVars PROVE OutboxTypeOK'
    OBVIOUS
  <1>t. /\ src \in SourceDb /\ src.rows \in Seq(Row) /\ backup \in SourceDb
        /\ pub \in [Publisher -> PubState]
        /\ lease \in LeaseRow
    BY DEF OutboxTypeOK, SourceDb
  <1>s. /\ [pc |-> "idle"] \in PubState /\ [pc |-> "checked"] \in PubState
        /\ [pc |-> "leased"] \in PubState /\ [pc |-> "releasing"] \in PubState
        /\ \A rec \in Record : /\ [pc |-> "sent", rec |-> rec] \in PubState
                               /\ [pc |-> "acking", rec |-> rec] \in PubState
                               /\ [pc |-> "quarantining", rec |-> rec] \in PubState
    BY DEF PubState, Flying
  <1>n. NoLease \in LeaseRow
        /\ [lease EXCEPT !.token = Nobody] \in LeaseRow
        /\ [lease EXCEPT !.over = TRUE] \in LeaseRow
        /\ \A p \in Publisher : [token |-> p, over |-> FALSE]
                                  \in LeaseRow
    BY <1>t DEF NoLease, LeaseRow
  <1>1. ASSUME NEW op \in Op, appendInTx(op) PROVE OutboxTypeOK'
    <2>1. PICK row \in Row : /\ row.prev = Items(src.rows) /\ src' \in SourceDb
                             /\ signed' = signed \cup {Append(row.prev, row.item)}
      BY <1>1, AppendFacts
    <2>2. Append(row.prev, row.item) \in Seq(Item)
      BY AppendProperties DEF Row
    <2>3. signed' \subseteq Seq(Item)
      BY <2>1, <2>2 DEF OutboxTypeOK
    <2> QED
      BY <1>1, <2>1, <2>3 DEF OutboxTypeOK, appendInTx
  <1>2. ASSUME NEW rec \in Record, Receive(rec),
               UNCHANGED <<src, lease, sent, signed, backup, restores>>,
               pub' \in [Publisher -> PubState]
        PROVE  OutboxTypeOK'
    BY <1>2, ReceiveType DEF OutboxTypeOK
  <1>3. ASSUME NEW rec \in sent, LateArrival(rec) PROVE OutboxTypeOK'
    <2>1. rec \in Record
      BY DEF OutboxTypeOK
    <2> QED
      BY <1>2, <1>3, <1>t, <2>1 DEF LateArrival
  <1>4. ASSUME NEW p \in Publisher, isHalted(p) PROVE OutboxTypeOK'
    BY <1>4, <1>s DEF isHalted, OutboxTypeOK
  <1>5. ASSUME NEW p \in Publisher, acquireLease(p) PROVE OutboxTypeOK'
    BY <1>5, <1>s, <1>n DEF acquireLease, PubIdle, OutboxTypeOK
  <1>6. ASSUME NEW p \in Publisher, nextDeliverable(p) PROVE OutboxTypeOK'
    <2>1. \/ /\ pub' = [pub EXCEPT ![p] = [pc |-> "releasing"]] /\ sent' = sent
          \/ \E i \in Pending :
               /\ pub' = [pub EXCEPT ![p] = [pc |-> "sent", rec |-> RecordOf(i)]]
               /\ sent' = sent \cup {RecordOf(i)}
      BY <1>6 DEF nextDeliverable
    <2>2. pub' \in [Publisher -> PubState] /\ sent' \subseteq Record
      BY <2>1, <1>t, <1>s, RecordOfFacts DEF OutboxTypeOK
    <2> QED
      BY <1>6, <2>2 DEF nextDeliverable, OutboxTypeOK
  <1>7. ASSUME NEW p \in Publisher, receipt(p) PROVE OutboxTypeOK'
    <2>1. pub[p].rec \in Record
      BY <1>7, RecFacts DEF receipt, Flying
    <2>2. pub' \in [Publisher -> PubState]
      BY <1>7, <1>t, <1>s, <2>1 DEF receipt
    <2> QED
      BY <1>7, <1>2, <2>1, <2>2 DEF receipt
  <1>8. ASSUME NEW p \in Publisher, transientFailure(p) \/ terminalFailure(p)
        PROVE  OutboxTypeOK'
    <2>1. pub[p].rec \in Record
      BY <1>8, RecFacts DEF transientFailure, terminalFailure, Flying
    <2> QED
      BY <1>8, <1>t, <1>s, <2>1 DEF transientFailure, terminalFailure, OutboxTypeOK
  <1>9. ASSUME NEW p \in Publisher, ack(p) PROVE OutboxTypeOK'
    <2>1. src' \in SourceDb
      <3> DEFINE i == pub[p].rec.seq
      <3>1. src' = src \/ (i \in Pending /\ src' = [src EXCEPT !.rows = Marked(i, "acked")])
        BY <1>9 DEF ack
      <3>2. i \in Pending => Marked(i, "acked") \in Seq(Row)
        BY <1>t, MarkedFacts DEF Pending
      <3> QED
        BY <1>t, <3>1, <3>2 DEF SourceDb
    <2> QED
      BY <1>9, <2>1, <1>s DEF ack, OutboxTypeOK
  <1>10. ASSUME NEW p \in Publisher, quarantineAndHalt(p) PROVE OutboxTypeOK'
    <2>1. src' \in SourceDb
      <3> DEFINE i == pub[p].rec.seq
      <3>1. src' = src \/ (i \in Pending
              /\ src' = [src EXCEPT !.rows = Marked(i, "quarantined"), !.halted = TRUE])
        BY <1>10 DEF quarantineAndHalt
      <3>2. i \in Pending => Marked(i, "quarantined") \in Seq(Row)
        BY <1>t, MarkedFacts DEF Pending
      <3> QED
        BY <1>t, <3>1, <3>2 DEF SourceDb
    <2> QED
      BY <1>10, <2>1, <1>s DEF quarantineAndHalt, OutboxTypeOK
  <1>11. ASSUME NEW p \in Publisher, releaseLease(p) \/ PublisherCrash(p)
         PROVE  OutboxTypeOK'
    BY <1>11, <1>s, <1>n DEF releaseLease, PublisherCrash, PubIdle, OutboxTypeOK
  <1>12. CASE LeaseRunsOut
    BY <1>12, <1>n DEF LeaseRunsOut, OutboxTypeOK
  <1>13. CASE AdvanceSourceFence
    <2>1. src.fence + 1 \in Fence
      BY <1>13, <1>t, OutboxAssumption DEF AdvanceSourceFence, SourceDb, Fence
    <2>2. src' \in SourceDb
      BY <1>13, <1>t, <2>1 DEF AdvanceSourceFence, SourceDb
    <2> QED
      BY <1>13, <2>2 DEF AdvanceSourceFence, OutboxTypeOK
  <1>14. CASE AdvanceReceiverFence
    <2>1. rcv \in [applied : Seq(Item), consumed : [Tumbler -> Nat], fence : Fence]
      BY DEF OutboxTypeOK
    <2>2. rcv.fence + 1 \in Fence
      BY <1>14, <2>1, OutboxAssumption DEF AdvanceReceiverFence, Fence
    <2>3. rcv' \in [applied : Seq(Item), consumed : [Tumbler -> Nat], fence : Fence]
      BY <1>14, <2>1, <2>2 DEF AdvanceReceiverFence
    <2> QED
      BY <1>14, <2>3 DEF AdvanceReceiverFence, OutboxTypeOK
  <1>15. CASE Backup \/ Restore
    BY <1>15, <1>n, OutboxAssumption DEF Backup, Restore, OutboxTypeOK
  <1>16. CASE UNCHANGED outboxVars
    BY <1>16 DEF outboxVars, OutboxTypeOK
  <1> QED
    BY <1>1, <1>3, <1>4, <1>5, <1>6, <1>7, <1>8, <1>9, <1>10, <1>11, <1>12, <1>13, <1>14,
       <1>15, <1>16
       DEF OutboxNext, Drain, Trouble

-----------------------------------------------------------------------------
(* Applying a record keeps the receiver's history one signed line with      *)
(* increasing counters, and a positive receipt means the record is in it.   *)
LEMMA ReceiveFacts ==
  ASSUME OutboxTypeOK, AppliedWasSigned, ConsumedCovers, NoDoubleConsume,
         NEW rec \in Record, SignedHead(rec), Receive(rec), signed' = signed
  PROVE  /\ \A i, item : Delivered(i, item) => Delivered(i, item)'
         /\ Decision(rec) \in {"applied", "duplicate-ok"} => Delivered(rec.seq, rec.item)'
         /\ AppliedWasSigned' /\ ConsumedCovers' /\ NoDoubleConsume'
  <1>1. /\ rcv.applied \in Seq(Item) /\ rcv.consumed \in [Tumbler -> Nat]
        /\ rec.item \in Item /\ rec.seq \in Nat \ {0}
    BY DEF OutboxTypeOK, Record
  <1>2. /\ DOMAIN rcv.applied = 1..Len(rcv.applied) /\ Len(rcv.applied) \in Nat
        /\ \A i \in DOMAIN rcv.applied : rcv.applied[i] \in Item
    BY <1>1, ElementOfSeq, LenProperties
  <1>3. \A it \in Item : it.op.tumbler \in Tumbler /\ it.op.counter \in Nat
    BY OutboxAssumption DEF Item, Tumbler
  <1>4. CASE rcv' = rcv /\ Decision(rec) # "applied"
    <2>1. Decision(rec) = "duplicate-ok" => rec.seq \in DOMAIN rcv.applied /\ rcv.applied[rec.seq] = rec.item
      BY <1>1, <1>2 DEF Decision
    <2> QED
      BY <1>4, <2>1 DEF Delivered, AppliedWasSigned, ConsumedCovers, NoDoubleConsume
  <1>5. CASE /\ Decision(rec) = "applied"
             /\ rcv'.applied = Append(rcv.applied, rec.item)
             /\ rcv'.consumed = [rcv.consumed EXCEPT ![rec.item.op.tumbler] = rec.item.op.counter]
    <2> DEFINE n == Len(rcv.applied)
    <2>1. /\ rec.seq = n + 1 /\ rec.prev = rcv.applied
          /\ rec.item.op.counter > rcv.consumed[rec.item.op.tumbler]
      BY <1>1, <1>2, <1>5 DEF Decision
    <2>2. /\ DOMAIN rcv'.applied = 1..(n + 1)
          /\ \A i \in 1..n : rcv'.applied[i] = rcv.applied[i]
          /\ rcv'.applied[n + 1] = rec.item
      BY <1>1, <1>5, AppendProperties, LenProperties
    <2>3. AppliedWasSigned'
      BY <2>1, <1>5 DEF AppliedWasSigned, SignedHead
    <2>4. \A i \in 1..n : rcv'.applied[i].op.tumbler \in Tumbler
                          /\ rcv'.applied[i].op.counter \in Nat
                          /\ rcv.applied[i].op.counter <= rcv.consumed[rcv.applied[i].op.tumbler]
      BY <1>2, <1>3, <2>2 DEF ConsumedCovers
    <2>5. rec.item.op.tumbler \in Tumbler /\ rec.item.op.counter \in Nat
      BY <1>1, <1>3
    <2>6. \A t \in Tumbler :
            /\ rcv'.consumed[t] = IF t = rec.item.op.tumbler
                                  THEN rec.item.op.counter ELSE rcv.consumed[t]
            /\ rcv.consumed[t] \in Nat
      BY <1>1, <1>5
    <2>7. ConsumedCovers'
      <3> SUFFICES ASSUME NEW i \in 1..(n + 1)
                   PROVE  rcv'.applied[i].op.counter <= rcv'.consumed[rcv'.applied[i].op.tumbler]
        BY <2>2 DEF ConsumedCovers
      <3>1. CASE i = n + 1
        BY <3>1, <2>2, <2>5, <2>6
      <3>2. CASE i \in 1..n
        <4> DEFINE c == rcv.applied[i].op.counter
                   t == rcv.applied[i].op.tumbler
        <4>1. rcv'.applied[i] = rcv.applied[i]
          BY <3>2, <2>2
        <4>2. t \in Tumbler /\ c \in Nat /\ c <= rcv.consumed[t]
          BY <3>2, <2>4, <4>1
        <4>3. rcv.consumed[t] \in Nat /\ rcv'.consumed[t] \in {rcv.consumed[t], rec.item.op.counter}
              /\ (rcv'.consumed[t] = rec.item.op.counter => rcv.consumed[t] <= rcv'.consumed[t])
          <5>1. CASE t = rec.item.op.tumbler
            BY <5>1, <4>2, <2>1, <2>5, <2>6
          <5>2. CASE t # rec.item.op.tumbler
            BY <5>2, <4>2, <2>5, <2>6
          <5> QED
            BY <5>1, <5>2
        <4> HIDE DEF c, t
        <4>4. c <= rcv'.consumed[t]
          BY <4>2, <4>3, <2>5
        <4> QED
          BY <4>1, <4>4 DEF c, t
      <3> QED
        BY <3>1, <3>2, <1>2
    <2>8. NoDoubleConsume'
      <3> SUFFICES ASSUME NEW i \in 1..(n + 1), NEW j \in 1..(n + 1), i < j,
                          rcv'.applied[i].op.tumbler = rcv'.applied[j].op.tumbler
                   PROVE  rcv'.applied[i].op.counter < rcv'.applied[j].op.counter
        BY <2>2 DEF NoDoubleConsume
      <3>0. i \in 1..n
        BY <1>2
      <3>1. CASE j = n + 1
        <4>1. rcv'.applied[j] = rec.item /\ rcv'.applied[i] = rcv.applied[i]
          BY <3>0, <3>1, <2>2
        <4>2. rcv.applied[i].op.counter <= rcv.consumed[rec.item.op.tumbler]
          BY <3>0, <2>4, <4>1
        <4> QED
          BY <3>0, <4>1, <4>2, <2>1, <2>4, <2>5, <2>6
      <3>2. CASE j \in 1..n
        BY <3>0, <3>2, <2>2, <1>2 DEF NoDoubleConsume
      <3> QED
        BY <3>1, <3>2, <1>2
    <2>9. \A i, item : Delivered(i, item) => Delivered(i, item)'
      BY <1>2, <2>2 DEF Delivered
    <2>10. Delivered(rec.seq, rec.item)'
      BY <1>2, <2>1, <2>2 DEF Delivered
    <2> QED
      BY <2>3, <2>7, <2>8, <2>9, <2>10
  <1> QED
    BY <1>4, <1>5, ReceiveType

(* Marking the record a drain holds as acknowledged or quarantined, under   *)
(* the lease, disturbs nothing: the row is the first pending one, and the   *)
(* receiver has it if it is acknowledged.                                   *)
LEMMA MarkStep ==
  ASSUME OutboxTypeOK, OutboxInv,
         NEW p \in Publisher, Mine(p), pub[p].pc \in Flying,
         pub[p].rec.seq \in Pending,
         NEW st \in {"acked", "quarantined"},
         st = "acked" => Delivered(pub[p].rec.seq, src.rows[pub[p].rec.seq].item),
         src'.rows = Marked(pub[p].rec.seq, st),
         NEW pc \in {"leased", "releasing"}, pub' = [pub EXCEPT ![p] = [pc |-> pc]],
         UNCHANGED <<lease, sent, rcv, signed, backup>>
  PROVE  OutboxInv'
  <1>1. PICK k : k = pub[p].rec.seq
    OBVIOUS
  <1>2. k \in DOMAIN src.rows /\ src.rows[k].state = "pending"
    BY <1>1 DEF Pending
  <1>3. DOMAIN src.rows \subseteq Int /\ src.rows \in Seq(Row)
    BY LenProperties DEF OutboxTypeOK, SourceDb
  <1>4. /\ DOMAIN src'.rows = DOMAIN src.rows
        /\ \A j \in DOMAIN src.rows :
             /\ src'.rows[j].item = src.rows[j].item
             /\ src'.rows[j].prev = src.rows[j].prev
             /\ src'.rows[j].state = IF j = k THEN st ELSE src.rows[j].state
    BY <1>1, <1>2, <1>3, MarkedFacts
  <1>5. \A q \in Publisher : pub'[q] = IF q = p THEN [pc |-> pc] ELSE pub[q]
    BY DEF OutboxTypeOK
  <1>6. AckedIn(src.rows)'
    BY <1>1, <1>4 DEF OutboxInv, AckedIn, Delivered
  <1>7. OrderIn(src.rows)'
    <2>1. \A i \in DOMAIN src.rows : src.rows[i].state = "pending" => k <= i
      BY <1>1 DEF OutboxInv, HolderInOrder, Mine, Pending
    <2> QED
      BY <1>2, <1>3, <1>4, <2>1 DEF OutboxInv, OrderIn
  <1>8. (AckedIn(backup.rows) /\ OrderIn(backup.rows) /\ AppliedWasSigned
         /\ ConsumedCovers /\ NoDoubleConsume)'
    BY DEF OutboxInv, AckedIn, OrderIn, Delivered, AppliedWasSigned, ConsumedCovers, NoDoubleConsume
  <1>9. ReceiptsDelivered'
    BY <1>5 DEF OutboxInv, ReceiptsDelivered, Delivered
  <1>10. HolderInOrder'
    BY <1>5 DEF OutboxInv, HolderInOrder, Mine, Flying
  <1>11. RecordsSigned'
    BY <1>4, <1>5 DEF OutboxInv, RecordsSigned, SignedHead, Flying
  <1> QED
    BY <1>6, <1>7, <1>8, <1>9, <1>10, <1>11 DEF OutboxInv

(* One step per transaction and per failure.                                *)
LEMMA OutboxInvStep ==
  OutboxTypeOK /\ OutboxInv /\ [OutboxNext]_outboxVars => OutboxInv'
  <1> SUFFICES ASSUME OutboxTypeOK, OutboxInv, [OutboxNext]_outboxVars
               PROVE  OutboxInv'
    OBVIOUS
  <1>t. /\ src.rows \in Seq(Row) /\ DOMAIN src.rows = 1..Len(src.rows) /\ Len(src.rows) \in Nat
        /\ pub \in [Publisher -> PubState]
    BY LenProperties DEF OutboxTypeOK, SourceDb
  <1>d. Nobody \notin Publisher
    BY OutboxAssumption
  (* Steps that move only the lease and the drains. *)
  <1>a. ASSUME UNCHANGED <<src, sent, rcv, signed, backup>>,
               NEW p \in Publisher,
               \A q \in Publisher \ {p} : pub'[q] = pub[q],
               pub'[p].pc = "acking" => Delivered(pub'[p].rec.seq, pub'[p].rec.item),
               pub'[p].pc \in Flying => SignedHead(pub'[p].rec),
               \A q \in Publisher \ {p} : lease'.token = q => lease.token = q,
               lease'.token = p =>
                 /\ pub'[p].pc \notin {"idle", "checked"}
                 /\ pub'[p].pc \in Flying =>
                      /\ pub'[p].rec.seq \in DOMAIN src.rows
                      /\ \A i \in Pending : pub'[p].rec.seq <= i
        PROVE  OutboxInv'
    <2>1. (AckedIn(src.rows) /\ AckedIn(backup.rows) /\ OrderIn(src.rows) /\ OrderIn(backup.rows))'
      BY <1>a DEF OutboxInv, AckedIn, OrderIn, Delivered
    <2>2. (AppliedWasSigned /\ ConsumedCovers /\ NoDoubleConsume)'
      BY <1>a DEF OutboxInv, AppliedWasSigned, ConsumedCovers, NoDoubleConsume
    <2>3. ReceiptsDelivered'
      BY <1>a DEF OutboxInv, ReceiptsDelivered, Delivered
    <2>4. HolderInOrder'
      BY <1>a DEF OutboxInv, HolderInOrder, Pending
    <2>5. RecordsSigned'
      BY <1>a DEF OutboxInv, RecordsSigned, SignedHead
    <2> QED
      BY <2>1, <2>2, <2>3, <2>4, <2>5 DEF OutboxInv
  <1>1. ASSUME NEW op \in Op, appendInTx(op) PROVE OutboxInv'
    <2>1. PICK row \in Row :
            /\ row.state = "pending"
            /\ signed' = signed \cup {Append(row.prev, row.item)}
            /\ DOMAIN src'.rows = 1..(Len(src.rows) + 1)
            /\ \A i \in DOMAIN src.rows : src'.rows[i] = src.rows[i]
            /\ src'.rows[Len(src.rows) + 1] = row
      BY <1>1, AppendFacts
    <2>2. UNCHANGED <<lease, pub, sent, rcv, backup>>
      BY <1>1 DEF appendInTx
    <2>3. \A i \in DOMAIN src'.rows : i \in DOMAIN src.rows \/ src'.rows[i] = row
      BY <1>t, <2>1
    <2>4. (AckedIn(src.rows) /\ AckedIn(backup.rows))'
      BY <2>1, <2>2, <2>3 DEF OutboxInv, AckedIn, Delivered
    <2>5. (OrderIn(src.rows) /\ OrderIn(backup.rows))'
      <3>1. \A i, j \in DOMAIN src'.rows : i < j => i \in DOMAIN src.rows
        BY <1>t, <2>1
      <3> QED
        BY <2>1, <2>2, <2>3, <3>1 DEF OutboxInv, OrderIn
    <2>6. (AppliedWasSigned /\ ConsumedCovers /\ NoDoubleConsume /\ ReceiptsDelivered)'
      BY <2>1, <2>2
         DEF OutboxInv, AppliedWasSigned, ConsumedCovers, NoDoubleConsume, ReceiptsDelivered, Delivered
    <2>7. HolderInOrder'
      <3>1. Pending' \subseteq Pending \cup {Len(src.rows) + 1}
        BY <1>t, <2>1 DEF Pending
      <3>2. DOMAIN src.rows \subseteq DOMAIN src'.rows
        BY <1>t, <2>1
      <3>3. \A i \in DOMAIN src.rows : i <= Len(src.rows) + 1
        BY <1>t
      <3> QED
        BY <2>2, <3>1, <3>2, <3>3 DEF OutboxInv, HolderInOrder
    <2>8. RecordsSigned'
      BY <2>1, <2>2, <2>3 DEF OutboxInv, RecordsSigned, SignedHead
    <2> QED
      BY <2>4, <2>5, <2>6, <2>7, <2>8 DEF OutboxInv
  (* Steps in which the receiver handles a record. *)
  <1>b. ASSUME NEW rec \in Record, SignedHead(rec), Receive(rec),
               UNCHANGED <<src, lease, sent, signed, backup>>,
               \A q \in Publisher :
                 \/ pub'[q] = pub[q]
                 \/ pub[q].pc = "sent" /\ pub'[q].pc = "releasing"
                 \/ /\ pub[q].pc = "sent" /\ pub'[q].rec = pub[q].rec
                    /\ \/ pub'[q].pc = "quarantining"
                       \/ /\ pub'[q].pc = "acking"
                          /\ Delivered(pub[q].rec.seq, pub[q].rec.item)'
        PROVE  OutboxInv'
    <2>1. /\ \A i, item : Delivered(i, item) => Delivered(i, item)'
          /\ AppliedWasSigned' /\ ConsumedCovers' /\ NoDoubleConsume'
      BY <1>b, ReceiveFacts DEF OutboxInv
    <2>2. (AckedIn(src.rows) /\ AckedIn(backup.rows) /\ OrderIn(src.rows) /\ OrderIn(backup.rows))'
      BY <1>b, <2>1 DEF OutboxInv, AckedIn, OrderIn
    <2>3. ReceiptsDelivered'
      BY <1>b, <2>1 DEF OutboxInv, ReceiptsDelivered
    <2>4. HolderInOrder'
      BY <1>b DEF OutboxInv, HolderInOrder, Pending, Flying
    <2>5. RecordsSigned'
      BY <1>b DEF OutboxInv, RecordsSigned, SignedHead, Flying
    <2> QED
      BY <2>1, <2>2, <2>3, <2>4, <2>5 DEF OutboxInv
  <1>2. ASSUME NEW rec \in sent, LateArrival(rec) PROVE OutboxInv'
    <2>1. rec \in Record /\ SignedHead(rec)
      BY DEF OutboxTypeOK, OutboxInv, RecordsSigned
    <2> QED
      BY <1>2, <1>b, <2>1 DEF LateArrival
  <1>3. ASSUME NEW p \in Publisher, receipt(p) PROVE OutboxInv'
    <2>1. PICK rec : rec = pub[p].rec
      OBVIOUS
    <2>2. rec \in Record /\ SignedHead(rec) /\ Receive(rec) /\ pub[p].pc = "sent"
      BY <1>3, <2>1, RecFacts DEF receipt, Flying, OutboxInv, RecordsSigned
    <2>3. Decision(rec) \in {"applied", "duplicate-ok"} => Delivered(rec.seq, rec.item)'
      BY <1>3, <2>2, ReceiveFacts DEF receipt, OutboxInv
    <2>4. \A q \in Publisher : q # p => pub'[q] = pub[q]
      BY <1>3, <1>t DEF receipt
    <2>5. pub'[p] = CASE Decision(rec) \in {"applied", "duplicate-ok"} -> [pc |-> "acking", rec |-> rec]
                      [] Decision(rec) \in {"reject-gap", "reject-fence"} -> [pc |-> "releasing"]
                      [] OTHER -> [pc |-> "quarantining", rec |-> rec]
      BY <1>3, <1>t, <2>1 DEF receipt
    <2>6. \/ pub'[p] = [pc |-> "releasing"]
          \/ pub'[p] = [pc |-> "quarantining", rec |-> rec]
          \/ pub'[p] = [pc |-> "acking", rec |-> rec] /\ Delivered(rec.seq, rec.item)'
      BY <2>3, <2>5
    <2>7. \A q \in Publisher :
            \/ pub'[q] = pub[q]
            \/ pub[q].pc = "sent" /\ pub'[q].pc = "releasing"
            \/ /\ pub[q].pc = "sent" /\ pub'[q].rec = pub[q].rec
               /\ \/ pub'[q].pc = "quarantining"
                  \/ /\ pub'[q].pc = "acking"
                     /\ Delivered(pub[q].rec.seq, pub[q].rec.item)'
      BY <2>1, <2>2, <2>4, <2>6
    <2> QED
      BY <1>3, <1>b, <2>2, <2>7 DEF receipt
  <1>4. ASSUME NEW p \in Publisher, isHalted(p) PROVE OutboxInv'
    <2>1. pub'[p] = [pc |-> "checked"] /\ \A q \in Publisher \ {p} : pub'[q] = pub[q]
      BY <1>4, <1>t DEF isHalted
    <2>2. lease' = lease /\ lease.token # p
      BY <1>4 DEF isHalted, OutboxInv, HolderInOrder
    <2> QED
      BY <1>4, <1>a, <2>1, <2>2 DEF isHalted, Flying
  <1>5. ASSUME NEW p \in Publisher, acquireLease(p) PROVE OutboxInv'
    <2>1. /\ \/ pub'[p] = [pc |-> "leased"] /\ lease'.token = p
             \/ pub'[p] = [pc |-> "idle"] /\ lease' = lease
          /\ \A q \in Publisher \ {p} : pub'[q] = pub[q]
      BY <1>5, <1>t DEF acquireLease, PubIdle
    <2>2. lease.token # p
      BY <1>5 DEF acquireLease, OutboxInv, HolderInOrder
    <2> QED
      BY <1>5, <1>a, <2>1, <2>2 DEF acquireLease, Flying
  <1>6. ASSUME NEW p \in Publisher, nextDeliverable(p) PROVE OutboxInv'
    <2>1. CASE pub' = [pub EXCEPT ![p] = [pc |-> "releasing"]] /\ sent' = sent
      <3>1. pub'[p] = [pc |-> "releasing"] /\ \A q \in Publisher \ {p} : pub'[q] = pub[q]
        BY <2>1, <1>t
      <3> QED
        BY <1>6, <1>a, <2>1, <3>1 DEF nextDeliverable, Flying
    <2>2. CASE \E i \in Pending :
                 /\ FirstPending(i)
                 /\ pub' = [pub EXCEPT ![p] = [pc |-> "sent", rec |-> RecordOf(i)]]
                 /\ sent' = sent \cup {RecordOf(i)}
      <3>1. PICK i \in Pending :
                 /\ FirstPending(i)
                 /\ pub' = [pub EXCEPT ![p] = [pc |-> "sent", rec |-> RecordOf(i)]]
                 /\ sent' = sent \cup {RecordOf(i)}
        BY <2>2
      <3>2. PICK rec : rec = RecordOf(i)
        OBVIOUS
      <3>3. rec.seq = i /\ i \in DOMAIN src.rows /\ SignedHead(rec)
        BY <3>2 DEF RecordOf, Pending, OutboxInv, RecordsSigned, SignedHead
      <3>4. pub'[p] = [pc |-> "sent", rec |-> rec] /\ \A q \in Publisher \ {p} : pub'[q] = pub[q]
        BY <3>1, <3>2, <1>t
      <3>5. UNCHANGED <<src, lease, rcv, signed, backup>>
        BY <1>6 DEF nextDeliverable
      <3>6. (AckedIn(src.rows) /\ AckedIn(backup.rows) /\ OrderIn(src.rows) /\ OrderIn(backup.rows)
             /\ AppliedWasSigned /\ ConsumedCovers /\ NoDoubleConsume)'
        BY <3>5 DEF OutboxInv, AckedIn, OrderIn, Delivered, AppliedWasSigned,
                    ConsumedCovers, NoDoubleConsume
      <3>7. ReceiptsDelivered'
        BY <3>4, <3>5 DEF OutboxInv, ReceiptsDelivered, Delivered
      <3>8. HolderInOrder'
        BY <3>1, <3>3, <3>4, <3>5 DEF OutboxInv, HolderInOrder, FirstPending, Pending
      <3>9. RecordsSigned'
        BY <3>1, <3>2, <3>3, <3>4, <3>5 DEF OutboxInv, RecordsSigned, SignedHead
      <3> QED
        BY <3>6, <3>7, <3>8, <3>9 DEF OutboxInv
    <2> QED
      BY <1>6, <2>1, <2>2 DEF nextDeliverable
  <1>7. ASSUME NEW p \in Publisher, transientFailure(p) \/ terminalFailure(p)
        PROVE  OutboxInv'
    <2>1. /\ \/ pub'[p] = [pc |-> "releasing"]
             \/ pub'[p] = [pc |-> "quarantining", rec |-> pub[p].rec]
          /\ \A q \in Publisher \ {p} : pub'[q] = pub[q]
          /\ pub[p].pc = "sent"
      BY <1>7, <1>t DEF transientFailure, terminalFailure
    <2>2. SignedHead(pub[p].rec) /\ (lease.token = p =>
                                        /\ pub[p].rec.seq \in DOMAIN src.rows
                                        /\ \A i \in Pending : pub[p].rec.seq <= i)
      BY <2>1 DEF OutboxInv, HolderInOrder, RecordsSigned, Flying
    <2> QED
      BY <1>7, <1>a, <2>1, <2>2 DEF transientFailure, terminalFailure, Flying
  <1>8. ASSUME NEW p \in Publisher, ack(p) PROVE OutboxInv'
    <2> DEFINE ok == /\ Mine(p) /\ pub[p].rec.seq \in Pending
                     /\ src.rows[pub[p].rec.seq].item = pub[p].rec.item
    <2>1. pub[p].pc = "acking" /\ Delivered(pub[p].rec.seq, pub[p].rec.item)
      BY <1>8 DEF ack, OutboxInv, ReceiptsDelivered
    <2>2. CASE ok
      <3>1. src'.rows = Marked(pub[p].rec.seq, "acked")
            /\ pub' = [pub EXCEPT ![p] = [pc |-> "leased"]]
        BY <1>8, <2>2 DEF ack, OutboxTypeOK, SourceDb
      <3> QED
        BY <1>8, <2>1, <2>2, <3>1, MarkStep DEF ack, Flying
    <2>3. CASE ~ok
      <3>1. src' = src /\ pub'[p] = [pc |-> "releasing"]
            /\ \A q \in Publisher \ {p} : pub'[q] = pub[q]
        BY <1>8, <1>t, <2>3 DEF ack
      <3>2. UNCHANGED <<lease, sent, rcv, signed, backup>>
        BY <1>8 DEF ack
      <3> QED
        BY <1>a, <3>1, <3>2 DEF Flying
    <2> QED
      BY <2>2, <2>3
  <1>9. ASSUME NEW p \in Publisher, quarantineAndHalt(p) PROVE OutboxInv'
    <2>1. CASE Mine(p) /\ pub[p].rec.seq \in Pending
      <3>1. src'.rows = Marked(pub[p].rec.seq, "quarantined")
            /\ pub' = [pub EXCEPT ![p] = [pc |-> "releasing"]]
        BY <1>9, <2>1 DEF quarantineAndHalt, OutboxTypeOK, SourceDb
      <3> QED
        BY <1>9, <2>1, <3>1, MarkStep DEF quarantineAndHalt, Flying
    <2>2. CASE ~(Mine(p) /\ pub[p].rec.seq \in Pending)
      <3>1. src' = src /\ pub'[p] = [pc |-> "releasing"]
            /\ \A q \in Publisher \ {p} : pub'[q] = pub[q]
        BY <1>9, <1>t, <2>2 DEF quarantineAndHalt
      <3> QED
        BY <1>9, <1>a, <3>1 DEF quarantineAndHalt, Flying
    <2> QED
      BY <2>1, <2>2
  <1>10. ASSUME NEW p \in Publisher, releaseLease(p) \/ PublisherCrash(p)
         PROVE  OutboxInv'
    <2>1. pub'[p] = [pc |-> "idle"] /\ \A q \in Publisher \ {p} : pub'[q] = pub[q]
      BY <1>10, <1>t DEF releaseLease, PublisherCrash, PubIdle
    <2>2. lease'.token # p /\ \A q \in Publisher \ {p} : lease'.token = q => lease.token = q
      BY <1>10, <1>d DEF releaseLease, PublisherCrash, Mine, NoLease, OutboxTypeOK, LeaseRow
    <2> QED
      BY <1>10, <1>a, <2>1, <2>2 DEF releaseLease, PublisherCrash, Flying
  (* Steps of the clock, the control plane and the operator. *)
  <1>c. ASSUME UNCHANGED <<pub, sent, signed>>,
               rcv'.applied = rcv.applied, rcv'.consumed = rcv.consumed,
               src'.rows \in {src.rows, backup.rows}, backup'.rows \in {src.rows, backup.rows},
               \A q \in Publisher : lease'.token = q => lease.token = q /\ src'.rows = src.rows
        PROVE  OutboxInv'
    <2>1. (AckedIn(src.rows) /\ AckedIn(backup.rows) /\ OrderIn(src.rows) /\ OrderIn(backup.rows))'
      BY <1>c DEF OutboxInv, AckedIn, OrderIn, Delivered
    <2>2. (AppliedWasSigned /\ ConsumedCovers /\ NoDoubleConsume)'
      BY <1>c DEF OutboxInv, AppliedWasSigned, ConsumedCovers, NoDoubleConsume
    <2>3. ReceiptsDelivered'
      BY <1>c DEF OutboxInv, ReceiptsDelivered, Delivered
    <2>4. HolderInOrder'
      BY <1>c DEF OutboxInv, HolderInOrder, Pending
    <2>5. RecordsSigned'
      BY <1>c DEF OutboxInv, RecordsSigned, SignedHead
    <2> QED
      BY <2>1, <2>2, <2>3, <2>4, <2>5 DEF OutboxInv
  <1>11. CASE LeaseRunsOut
    <2>1. lease'.token = lease.token
      BY <1>11 DEF LeaseRunsOut, OutboxTypeOK, LeaseRow
    <2> QED
      BY <1>11, <1>c, <2>1 DEF LeaseRunsOut
  <1>12. CASE AdvanceSourceFence \/ AdvanceReceiverFence
    <2>1. src'.rows = src.rows /\ rcv'.applied = rcv.applied /\ rcv'.consumed = rcv.consumed
      BY <1>12 DEF AdvanceSourceFence, AdvanceReceiverFence, OutboxTypeOK, SourceDb
    <2> QED
      BY <1>12, <1>c, <2>1 DEF AdvanceSourceFence, AdvanceReceiverFence
  <1>13. CASE Backup
    BY <1>13, <1>c DEF Backup
  <1>14. CASE Restore
    <2>1. \A q \in Publisher : lease'.token # q
      BY <1>14, <1>d DEF Restore, NoLease
    <2> QED
      BY <1>14, <1>c, <2>1 DEF Restore
  <1>15. CASE UNCHANGED outboxVars
    BY <1>15, <1>c DEF outboxVars
  <1> QED
    BY <1>1, <1>2, <1>3, <1>4, <1>5, <1>6, <1>7, <1>8, <1>9, <1>10, <1>11, <1>12, <1>13,
       <1>14, <1>15
       DEF OutboxNext, Drain, Trouble

-----------------------------------------------------------------------------
(* OutboxTypeOK and OutboxInv hold in every reachable state: whatever the   *)
(* interleaving of drains, lost leases, late records and restores.          *)
THEOREM OutboxInvariant == OutboxSpec => [](OutboxTypeOK /\ OutboxInv)
  <1>1. OutboxInit => OutboxTypeOK /\ OutboxInv
    BY OutboxInitOK
  <1>2. OutboxTypeOK /\ OutboxInv /\ [OutboxNext]_outboxVars => (OutboxTypeOK /\ OutboxInv)'
    BY OutboxTypeStep, OutboxInvStep
  <1> QED
    BY <1>1, <1>2, PTL DEF OutboxSpec

(* No acknowledged mutation is lost (I1): AckedWasApplied is invariant.     *)
THEOREM NoLossHolds == OutboxSpec => []AckedWasApplied
  <1>1. OutboxInv => AckedWasApplied
    BY DEF OutboxInv, AckedWasApplied
  <1> QED
    BY <1>1, OutboxInvariant, PTL

(* The receiver never mixes two lines of the source (I6).                   *)
THEOREM OneSignedLine == OutboxSpec => []AppliedWasSigned
  <1>1. OutboxInv => AppliedWasSigned
    BY DEF OutboxInv
  <1> QED
    BY <1>1, OutboxInvariant, PTL

(* The receiver never consumes a counter of a tumbler twice (I2).           *)
THEOREM NoDoubleConsumeHolds == OutboxSpec => []NoDoubleConsume
  <1>1. OutboxInv => NoDoubleConsume
    BY DEF OutboxInv
  <1> QED
    BY <1>1, OutboxInvariant, PTL

(* Both databases, the publishers and the records on their way stay         *)
(* well-typed.                                                              *)
THEOREM OutboxTypeCorrect == OutboxSpec => []OutboxTypeOK
  <1> QED
    BY OutboxInvariant, PTL

(* No drain acknowledges past an undelivered row: InOrder is invariant.     *)
THEOREM InOrderHolds == OutboxSpec => []InOrder
  <1>1. OutboxInv => InOrder
    BY DEF OutboxInv, InOrder
  <1> QED
    BY <1>1, OutboxInvariant, PTL
=============================================================================
