----------------------------- MODULE HotpOutbox -----------------------------
(***************************************************************************)
(* The durable HOTP outbox: packages/server/src/tsk-hotp-outbox-pg.ts.     *)
(* A source database appends counter mutations to one stream               *)
(* (AbstractTskDurableOutbox.appendInTx), several PgTskPublisher processes *)
(* drain it under a lease, and a receiver database applies each record at  *)
(* most once (PgTskReceiverCheckpoint.verifyAndApplyTumblerInTx).          *)
(*                                                                         *)
(* Every database transaction is SERIALIZABLE and is one action.  Between  *)
(* them anything happens: a publisher crashes or stalls past its lease, a  *)
(* response is lost, a record arrives late or again, a fence advances, the *)
(* source database is restored from a backup.                              *)
(*                                                                         *)
(* Digests and signatures are ideal: a stream head is identified with the  *)
(* whole list of items it covers, an op digest with the item itself.       *)
(* One source epoch; the source lease gate (tsk-source-fence.ts) can only  *)
(* refuse an append, which is a stutter here.                              *)
(***************************************************************************)
EXTENDS Integers, Sequences, FiniteSets

CONSTANTS
  Op,            \* TskHotpMutation: [tumbler, counter]
  Publisher,     \* concurrent drainOnce calls
  MaxPendingRows,\* opts.maxPendingRows
  Nobody,        \* a lease token no running drain holds
  MaxRows,       \* bound of the model: rows of the source table
  MaxFence,      \* bound of the model: fence tokens
  MaxRestores    \* bound of the model: restores of the source database

ASSUME OutboxAssumption ==
  /\ \A o \in Op : o.counter \in Nat \ {0}
  /\ MaxPendingRows \in Nat \ {0}
  /\ MaxRows \in Nat
  /\ MaxFence \in Nat \ {0}
  /\ MaxRestores \in Nat
  /\ Nobody \notin Publisher

VARIABLES
  src,           \* the source database: rows, fence token, halted marker
  lease,         \* the publisher lease row: its token and whether it ran out
  pub,           \* the progress of each drainOnce
  sent,          \* every record handed to the transport; it may arrive at any time
  rcv,           \* the receiver database: applied history, consumed, fence
  signed,        \* history: every stream head the source signed
  backup,        \* the last backup of the source database
  restores       \* restores so far

outboxVars == <<src, lease, pub, sent, rcv, signed, backup, restores>>

Fence == 1..MaxFence
Item  == [op : Op, fence : Fence]
Row   == [item : Item, prev : Seq(Item), state : {"pending", "acked", "quarantined"}]
Record == [seq : Nat \ {0}, item : Item, prev : Seq(Item)]
Tumbler == {o.tumbler : o \in Op}

SourceDb == [rows : Seq(Row), fence : Fence, halted : BOOLEAN]
NoLease == [token |-> Nobody, over |-> TRUE]
PubIdle == [pc |-> "idle"]
Flying  == {"sent", "acking", "quarantining"}
LeaseRow == [token : Publisher \cup {Nobody}, over : BOOLEAN]
PubState == [pc : {"idle", "checked", "leased", "releasing"}]
            \cup [pc : Flying, rec : Record]

(* Representation of both databases and the publishers.                     *)
OutboxTypeOK ==
  /\ src \in SourceDb
  /\ lease \in LeaseRow
  /\ pub \in [Publisher -> PubState]
  /\ sent \subseteq Record
  /\ rcv \in [applied : Seq(Item), consumed : [Tumbler -> Nat], fence : Fence]
  /\ signed \subseteq Seq(Item)
  /\ backup \in SourceDb
  /\ restores \in 0..MaxRestores

OutboxInit ==
  /\ src = [rows |-> << >>, fence |-> 1, halted |-> FALSE]
  /\ lease = NoLease
  /\ pub = [p \in Publisher |-> PubIdle]
  /\ sent = {}
  /\ rcv = [applied |-> << >>, consumed |-> [t \in Tumbler |-> 0], fence |-> 1]
  /\ signed = {}
  /\ backup = src
  /\ restores = 0

-----------------------------------------------------------------------------
(* AbstractTskDurableOutbox *)

Items(rows) == [i \in DOMAIN rows |-> rows[i].item]
Pending == {i \in DOMAIN src.rows : src.rows[i].state = "pending"}

(* appendInTx with the current fence token (any other is StaleFenceError):  *)
(* admission, sequence allocation, hash-linked signed head, row insert and  *)
(* checkpoint advance in one transaction.  The source checkpoint is the     *)
(* number of rows and their items.                                          *)
appendInTx(op) ==
  LET item == [op |-> op, fence |-> src.fence]
      prev == Items(src.rows)
  IN
  /\ Len(src.rows) < MaxRows
  /\ Cardinality(Pending) < MaxPendingRows
  /\ src' = [src EXCEPT !.rows =
               Append(@, [item |-> item, prev |-> prev, state |-> "pending"])]
  /\ signed' = signed \cup {Append(prev, item)}
  /\ UNCHANGED <<lease, pub, sent, rcv, backup, restores>>

-----------------------------------------------------------------------------
(* PgTskReceiverCheckpoint *)

(* Mutants of Decision: the stored op digest of an applied sequence is not  *)
(* compared; the previous head is not; the counter is not.                  *)
DecisionTrustsSequence(rec) ==
  LET n == Len(rcv.applied) IN
  CASE rec.item.fence # rcv.fence -> "reject-fence"
    [] rec.item.fence = rcv.fence /\ rec.seq <= n -> "duplicate-ok"
    [] rec.item.fence = rcv.fence /\ rec.seq > n + 1 -> "reject-gap"
    [] OTHER -> IF rec.prev = rcv.applied
                   /\ rec.item.op.counter > rcv.consumed[rec.item.op.tumbler]
                THEN "applied" ELSE "reject-fork"

DecisionOnHead(rec, headOk, counterOk) ==
  LET n == Len(rcv.applied) IN
  CASE rec.item.fence # rcv.fence -> "reject-fence"
    [] rec.item.fence = rcv.fence /\ rec.seq <= n ->
         IF rcv.applied[rec.seq] = rec.item THEN "duplicate-ok" ELSE "reject-fork"
    [] rec.item.fence = rcv.fence /\ rec.seq > n + 1 -> "reject-gap"
    [] OTHER -> IF headOk /\ counterOk THEN "applied" ELSE "reject-fork"
DecisionIgnoresPrevHead(rec) ==
  DecisionOnHead(rec, TRUE, rec.item.op.counter > rcv.consumed[rec.item.op.tumbler])
DecisionIgnoresCounter(rec) == DecisionOnHead(rec, rec.prev = rcv.applied, TRUE)

(* The decision of verifyAndApplyTumblerInTx on a genuine record.           *)
Decision(rec) ==
  LET n == Len(rcv.applied) IN
  CASE rec.item.fence # rcv.fence -> "reject-fence"
    [] rec.item.fence = rcv.fence /\ rec.seq <= n ->
         IF rcv.applied[rec.seq] = rec.item THEN "duplicate-ok" ELSE "reject-fork"
    [] rec.item.fence = rcv.fence /\ rec.seq > n + 1 -> "reject-gap"
    [] OTHER ->
         IF rec.prev = rcv.applied
            /\ rec.item.op.counter > rcv.consumed[rec.item.op.tumbler]
         THEN "applied" ELSE "reject-fork"

(* Apply, consume the counter, record the history and advance the           *)
(* checkpoint, all or nothing.                                              *)
Receive(rec) ==
  rcv' = IF Decision(rec) = "applied"
         THEN [rcv EXCEPT !.applied = Append(@, rec.item),
                          !.consumed[rec.item.op.tumbler] = rec.item.op.counter]
         ELSE rcv

(* A record of an earlier attempt reaches the receiver and nobody waits for *)
(* its receipt.                                                             *)
LateArrival(rec) ==
  /\ Receive(rec)
  /\ UNCHANGED <<src, lease, pub, sent, signed, backup, restores>>

-----------------------------------------------------------------------------
(* PgTskPublisher.drainOnce *)

(* isHalted, in a transaction of its own before the lease is taken.         *)
isHalted(p) ==
  /\ pub[p].pc = "idle"
  /\ ~src.halted
  /\ pub' = [pub EXCEPT ![p] = [pc |-> "checked"]]
  /\ UNCHANGED <<src, lease, sent, rcv, signed, backup, restores>>

(* acquireLease: only a free or expired lease row is taken over.            *)
acquireLease(p) ==
  /\ pub[p].pc = "checked"
  /\ IF lease.over
     THEN /\ lease' = [token |-> p, over |-> FALSE]
          /\ pub' = [pub EXCEPT ![p] = [pc |-> "leased"]]
     ELSE /\ pub' = [pub EXCEPT ![p] = PubIdle]
          /\ UNCHANGED lease
  /\ UNCHANGED <<src, sent, rcv, signed, backup, restores>>

Mine(p) == lease.token = p
FirstPending(i) == i \in Pending /\ \A j \in Pending : i <= j
RecordOf(i) == [seq |-> i, item |-> src.rows[i].item, prev |-> src.rows[i].prev]

(* nextDeliverable under the lease token (its deadline is not looked at):   *)
(* the first pending row is handed to the transport; a lost lease or an     *)
(* empty table ends the drain.                                              *)
nextDeliverable(p) ==
  /\ pub[p].pc = "leased"
  /\ \/ /\ Mine(p)
        /\ \E i \in Pending :
             /\ FirstPending(i)
             /\ pub' = [pub EXCEPT ![p] = [pc |-> "sent", rec |-> RecordOf(i)]]
             /\ sent' = sent \cup {RecordOf(i)}
     \/ /\ ~Mine(p) \/ Pending = {}
        /\ pub' = [pub EXCEPT ![p] = [pc |-> "releasing"]]
        /\ UNCHANGED sent
  /\ UNCHANGED <<src, lease, rcv, signed, backup, restores>>

(* Mutant of receipt: a duplicate-ok is left for the next drain.            *)
receiptRetriesDuplicate(p) ==
  LET d == Decision(pub[p].rec) IN
  /\ pub[p].pc = "sent"
  /\ Receive(pub[p].rec)
  /\ pub' = [pub EXCEPT ![p] =
       CASE d = "applied" -> [pc |-> "acking", rec |-> @.rec]
         [] d \in {"duplicate-ok", "reject-gap", "reject-fence"} -> [pc |-> "releasing"]
         [] OTHER -> [pc |-> "quarantining", rec |-> @.rec]]
  /\ UNCHANGED <<src, lease, sent, signed, backup, restores>>

(* deliverAndAwaitAck returns a verified receipt: applied and duplicate-ok  *)
(* are acknowledged, gap and fence are left for the next drain, the rest    *)
(* are terminal.                                                            *)
receipt(p) ==
  LET d == Decision(pub[p].rec) IN
  /\ pub[p].pc = "sent"
  /\ Receive(pub[p].rec)
  /\ pub' = [pub EXCEPT ![p] =
       CASE d \in {"applied", "duplicate-ok"} -> [pc |-> "acking", rec |-> @.rec]
         [] d \in {"reject-gap", "reject-fence"} -> [pc |-> "releasing"]
         [] OTHER -> [pc |-> "quarantining", rec |-> @.rec]]
  /\ UNCHANGED <<src, lease, sent, signed, backup, restores>>

(* The transport fails: a transient error is thrown, a terminal one         *)
(* quarantines.  Either way the record may have been applied.               *)
transientFailure(p) ==
  /\ pub[p].pc = "sent"
  /\ pub' = [pub EXCEPT ![p] = [pc |-> "releasing"]]
  /\ UNCHANGED <<src, lease, sent, rcv, signed, backup, restores>>

terminalFailure(p) ==
  /\ pub[p].pc = "sent"
  /\ pub' = [pub EXCEPT ![p] = [pc |-> "quarantining", rec |-> @.rec]]
  /\ UNCHANGED <<src, lease, sent, rcv, signed, backup, restores>>

(* The acknowledgement transaction: the lease token must still be ours and  *)
(* exactly this record must still be pending, else the drain throws.        *)
Marked(i, st) == [src.rows EXCEPT ![i].state = st]
ack(p) ==
  LET i  == pub[p].rec.seq
      ok == Mine(p) /\ i \in Pending /\ src.rows[i].item = pub[p].rec.item
  IN
  /\ pub[p].pc = "acking"
  /\ src' = IF ok THEN [src EXCEPT !.rows = Marked(i, "acked")] ELSE src
  /\ pub' = [pub EXCEPT ![p] = [pc |-> IF ok THEN "leased" ELSE "releasing"]]
  /\ UNCHANGED <<lease, sent, rcv, signed, backup, restores>>

(* quarantineAndHalt: the row and the durable halt marker in one            *)
(* transaction; the row is found by its sequence alone.                     *)
quarantineAndHalt(p) ==
  LET i == pub[p].rec.seq IN
  /\ pub[p].pc = "quarantining"
  /\ src' = IF Mine(p) /\ i \in Pending
            THEN [src EXCEPT !.rows = Marked(i, "quarantined"), !.halted = TRUE]
            ELSE src
  /\ pub' = [pub EXCEPT ![p] = [pc |-> "releasing"]]
  /\ UNCHANGED <<lease, sent, rcv, signed, backup, restores>>

(* releaseLease in the finally block.                                       *)
releaseLease(p) ==
  /\ pub[p].pc = "releasing"
  /\ lease' = IF Mine(p) THEN NoLease ELSE lease
  /\ pub' = [pub EXCEPT ![p] = PubIdle]
  /\ UNCHANGED <<src, sent, rcv, signed, backup, restores>>

(* The drain dies.  Its token was a fresh UUID, so no later drain owns it.  *)
PublisherCrash(p) ==
  /\ pub[p].pc # "idle"
  /\ pub' = [pub EXCEPT ![p] = PubIdle]
  /\ lease' = IF Mine(p) THEN [lease EXCEPT !.token = Nobody] ELSE lease
  /\ UNCHANGED <<src, sent, rcv, signed, backup, restores>>

(* lease_until passes. *)
LeaseRunsOut ==
  /\ ~lease.over
  /\ lease' = [lease EXCEPT !.over = TRUE]
  /\ UNCHANGED <<src, pub, sent, rcv, signed, backup, restores>>

-----------------------------------------------------------------------------
(* External: the control plane advances the two fence tokens, an operator   *)
(* backs the source database up and restores it.                            *)
AdvanceSourceFence ==
  /\ src.fence < MaxFence
  /\ src' = [src EXCEPT !.fence = @ + 1]
  /\ UNCHANGED <<lease, pub, sent, rcv, signed, backup, restores>>

AdvanceReceiverFence ==
  /\ rcv.fence < MaxFence
  /\ rcv' = [rcv EXCEPT !.fence = @ + 1]
  /\ UNCHANGED <<src, lease, pub, sent, signed, backup, restores>>

Backup ==
  /\ restores < MaxRestores
  /\ backup' = src
  /\ UNCHANGED <<src, lease, pub, sent, rcv, signed, restores>>

Restore ==
  /\ restores < MaxRestores
  /\ restores' = restores + 1
  /\ src' = backup
  /\ lease' = NoLease
  /\ UNCHANGED <<pub, sent, rcv, signed, backup>>

Drain(p) ==
  \/ isHalted(p) \/ acquireLease(p) \/ nextDeliverable(p) \/ receipt(p)
  \/ ack(p) \/ quarantineAndHalt(p) \/ releaseLease(p)

Trouble ==
  \/ \E p \in Publisher : transientFailure(p) \/ terminalFailure(p) \/ PublisherCrash(p)
  \/ \E rec \in sent : LateArrival(rec)
  \/ AdvanceSourceFence \/ AdvanceReceiverFence
  \/ Backup \/ Restore

OutboxNext ==
  \/ \E op \in Op : appendInTx(op)
  \/ \E p \in Publisher : Drain(p)
  \/ LeaseRunsOut
  \/ Trouble

OutboxSpec == OutboxInit /\ [][OutboxNext]_outboxVars

(***************************************************************************)
(* The same system with one fence epoch, no restore and no terminal        *)
(* transport error, in which leaseMs is long enough for a delivery: only a *)
(* dead drain's lease runs out.  Deliveries may fail and drains may crash  *)
(* any number of times, but not every time.                                *)
(***************************************************************************)
LiveNext ==
  \/ \E op \in Op : appendInTx(op)
  \/ \E p \in Publisher : Drain(p) \/ transientFailure(p) \/ PublisherCrash(p)
  \/ lease.token = Nobody /\ LeaseRunsOut
  \/ \E rec \in sent : LateArrival(rec)

LiveSpec ==
  /\ OutboxInit /\ [][LiveNext]_outboxVars
  /\ WF_outboxVars(lease.token = Nobody /\ LeaseRunsOut)
  /\ \A p \in Publisher :
       /\ WF_outboxVars(Drain(p))
       /\ SF_outboxVars(acquireLease(p))
       /\ SF_outboxVars(nextDeliverable(p))
       /\ SF_outboxVars(receipt(p))
       /\ SF_outboxVars(ack(p))
       /\ SF_outboxVars(quarantineAndHalt(p))

-----------------------------------------------------------------------------
Delivered(i, item) == i \in DOMAIN rcv.applied /\ rcv.applied[i] = item
AckedIn(rows) == \A i \in DOMAIN rows :
                   rows[i].state = "acked" => Delivered(i, rows[i].item)
OrderIn(rows) == \A i, j \in DOMAIN rows :
                   (i < j /\ rows[i].state = "pending") => rows[j].state # "acked"

(* No acknowledged mutation is lost (contract I1): a row the source has     *)
(* acknowledged, and so counts as delivered, is in the receiver's history   *)
(* at its sequence with the same content, through late receipts, lost       *)
(* leases and a restored source.                                            *)
AckedWasApplied == AckedIn(src.rows)

(* The receiver's history is one the source signed, never a mixture of two  *)
(* (contract I6): after a rollback of the source, records of the old and    *)
(* the new line are never combined.                                         *)
AppliedWasSigned == rcv.applied = << >> \/ rcv.applied \in signed

(* No counter is consumed twice (contract I2): each applied mutation of a   *)
(* tumbler has a larger counter than every earlier one.                     *)
NoDoubleConsume ==
  \A i, j \in DOMAIN rcv.applied :
    (i < j /\ rcv.applied[i].op.tumbler = rcv.applied[j].op.tumbler)
      => rcv.applied[i].op.counter < rcv.applied[j].op.counter

(* A drain never skips a record: no row is acknowledged while an earlier    *)
(* one is still to be delivered, whichever drains took turns.               *)
InOrder == OrderIn(src.rows)

(***************************************************************************)
(* The inductive invariant.  A backup is an earlier source, so it satisfies*)
(* what the source does; a drain about to acknowledge holds a record the   *)
(* receiver has; every record on its way carries a signed head; the drain  *)
(* that owns the lease holds the first pending row.                        *)
(***************************************************************************)
SignedHead(r) == Append(r.prev, r.item) \in signed

ReceiptsDelivered ==
  \A p \in Publisher :
    pub[p].pc = "acking" => Delivered(pub[p].rec.seq, pub[p].rec.item)

HolderInOrder ==
  \A p \in Publisher : lease.token = p =>
    /\ pub[p].pc \notin {"idle", "checked"}
    /\ pub[p].pc \in Flying =>
         /\ pub[p].rec.seq \in DOMAIN src.rows
         /\ \A i \in Pending : pub[p].rec.seq <= i

RecordsSigned ==
  /\ \A i \in DOMAIN src.rows : SignedHead(src.rows[i])
  /\ \A i \in DOMAIN backup.rows : SignedHead(backup.rows[i])
  /\ \A rec \in sent : SignedHead(rec)
  /\ \A p \in Publisher : pub[p].pc \in Flying => SignedHead(pub[p].rec)

ConsumedCovers ==
  \A i \in DOMAIN rcv.applied :
    rcv.applied[i].op.counter <= rcv.consumed[rcv.applied[i].op.tumbler]

(* The inductive invariant of the outbox: AckedWasApplied, AppliedWasSigned,*)
(* NoDoubleConsume and InOrder with what every drain, every record in       *)
(* flight and the backup must satisfy for them to survive the next step.    *)
OutboxInv ==
  /\ AckedIn(src.rows) /\ AckedIn(backup.rows)
  /\ OrderIn(src.rows) /\ OrderIn(backup.rows)
  /\ ReceiptsDelivered
  /\ HolderInOrder
  /\ RecordsSigned
  /\ AppliedWasSigned
  /\ ConsumedCovers
  /\ NoDoubleConsume

(* Nothing is shed or stuck (contract g): under LiveSpec every appended row *)
(* is eventually acknowledged, unless a diverging record halts the stream.  *)
EveryRowSettled ==
  \A i \in 1..MaxRows :
    (i \in Pending) ~> (src.halted \/ (i \in DOMAIN src.rows /\ i \notin Pending))
=============================================================================
