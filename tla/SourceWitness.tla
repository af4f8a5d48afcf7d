---------------------------- MODULE SourceWitness ----------------------------
(***************************************************************************)
(* The restore/fork witness of packages/server/src/tsk-source-fence.ts: a  *)
(* guard-signed high-water mark of the source's ledger that lives on the   *)
(* control database, where a restore of the source cannot roll it back.    *)
(*                                                                         *)
(* The source appends, renews its lease, is restored from a backup (its    *)
(* system identifier survives a physical restore and changes in a clone),  *)
(* and issues signed checkpoint receipts; a receipt may reach the control  *)
(* database late, twice or after a restore.  A stream head is identified   *)
(* with the list of rows it covers, so a head digest names one ledger.     *)
(***************************************************************************)
EXTENDS Integers, Sequences, FiniteSets

CONSTANTS
  Entry,        \* what the rows of the ledger say
  SysId,        \* system_identifier values
  MaxLedger,    \* bound of the model: rows of the ledger
  MaxLeaseSeq,  \* bound of the model: lease grants
  MaxReceipts   \* bound of the model: receipts issued

ASSUME WitnessAssumption ==
  {MaxLedger, MaxReceipts} \subseteq Nat /\ MaxLeaseSeq \in Nat \ {0} /\ SysId # {}

VARIABLES
  source,    \* the source database: ledger, lease grants, system identifier
  saved,     \* its last backup
  receipts,  \* checkpoint receipts issued so far
  witness,   \* tsk_source_witness, or NoWitness
  history    \* tsk_source_witness_history

witnessVars == <<source, saved, receipts, witness, history>>

Ledger    == Seq(Entry)
SourceDb  == [ledger : Ledger, lease : 1..MaxLeaseSeq, sys : SysId]
Receipt   == [ledger : Ledger, lease : 1..MaxLeaseSeq, sys : SysId, prior : Nat]
NoWitness == [seq |-> 0]
WitnessRow == [ledger : Ledger, lease : 1..MaxLeaseSeq, sys : SysId, seq : Nat \ {0}]

WitnessInit ==
  /\ source = [ledger |-> << >>, lease |-> 1, sys |-> CHOOSE s \in SysId : TRUE]
  /\ saved = source
  /\ receipts = {}
  /\ witness = NoWitness
  /\ history = << >>

First(ledger, n) == SubSeq(ledger, 1, n)

-----------------------------------------------------------------------------
(* The source.                                                             *)

appendRow(x) ==
  /\ Len(source.ledger) < MaxLedger
  /\ source' = [source EXCEPT !.ledger = Append(@, x)]
  /\ UNCHANGED <<saved, receipts, witness, history>>

renewLease ==
  /\ source.lease < MaxLeaseSeq
  /\ source' = [source EXCEPT !.lease = @ + 1]
  /\ UNCHANGED <<saved, receipts, witness, history>>

backupSource ==
  /\ saved' = source
  /\ UNCHANGED <<source, receipts, witness, history>>

restoreSource(s) ==
  /\ source' = [saved EXCEPT !.sys = s]
  /\ UNCHANGED <<saved, receipts, witness, history>>

(* issueSourceCheckpointReceipt: the whole ledger re-verified, anchored at *)
(* the height the caller believes is witnessed.                            *)
issueSourceCheckpointReceipt(prior) ==
  /\ Len(source.ledger) >= 1
  /\ prior <= Len(source.ledger)
  /\ Cardinality(receipts) < MaxReceipts
  /\ receipts' = receipts \cup {[ledger |-> source.ledger, lease |-> source.lease,
                                 sys |-> source.sys, prior |-> prior]}
  /\ UNCHANGED <<source, saved, witness, history>>

-----------------------------------------------------------------------------
(* The control database.                                                   *)

(* As a bug: the anchor is compared by height, not by its head.            *)
Continues_HeightOnly(r) ==
  IF witness = NoWitness THEN r.prior = 0
  ELSE /\ r.sys = witness.sys
       /\ r.lease >= witness.lease
       /\ Len(r.ledger) >= Len(witness.ledger)
       /\ r.prior = Len(witness.ledger)

(* The receipt continues what was witnessed: same database, no lower lease *)
(* or height, and the source's own head at the witnessed height.           *)
Continues(r) ==
  IF witness = NoWitness THEN r.prior = 0
  ELSE /\ r.sys = witness.sys
       /\ r.lease >= witness.lease
       /\ Len(r.ledger) >= Len(witness.ledger)
       /\ r.prior = Len(witness.ledger)
       /\ First(r.ledger, r.prior) = witness.ledger

(* An identical high-water mark is answered without a new row.             *)
SameMark(r) ==
  witness # NoWitness /\ r.ledger = witness.ledger /\ r.lease = witness.lease /\ r.sys = witness.sys

advanceSourceWitness(r) ==
  LET row == [ledger |-> r.ledger, lease |-> r.lease, sys |-> r.sys, seq |-> witness.seq + 1]
  IN  /\ ~SameMark(r)
      /\ Continues(r)
      /\ witness' = row
      /\ history' = Append(history, row)
      /\ UNCHANGED <<source, saved, receipts>>

WitnessNext ==
  \/ \E x \in Entry : appendRow(x)
  \/ renewLease \/ backupSource
  \/ \E s \in SysId : restoreSource(s)
  \/ \E prior \in 0..MaxLedger : issueSourceCheckpointReceipt(prior)
  \/ \E r \in receipts : advanceSourceWitness(r)

WitnessSpec == WitnessInit /\ [][WitnessNext]_witnessVars

-----------------------------------------------------------------------------
(* Everything ever witnessed lies on one line of one database: a restore   *)
(* that forked the ledger, however far it has grown since and however late *)
(* its receipts arrive, never becomes the witnessed history.               *)
WitnessOneLine ==
  \A i, j \in DOMAIN history : i < j =>
    /\ history[i].sys = history[j].sys
    /\ history[i].lease <= history[j].lease
    /\ Len(history[i].ledger) <= Len(history[j].ledger)
    /\ First(history[j].ledger, Len(history[i].ledger)) = history[i].ledger

(* Representation; the witness is the last row of a history numbered from  *)
(* 1 without gaps.                                                         *)
WitnessTypeOK ==
  /\ source \in SourceDb /\ saved \in SourceDb
  /\ receipts \subseteq Receipt
  /\ history \in Seq(WitnessRow)
  /\ witness = IF history = << >> THEN NoWitness ELSE history[Len(history)]
  /\ \A i \in DOMAIN history : history[i].seq = i
=============================================================================
