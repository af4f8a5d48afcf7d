------------------------------ MODULE Handover ------------------------------
(***************************************************************************)
(* The governed handover of one stream: the control plane and the nodes,   *)
(* joined by the receipts and grants that travel between them.             *)
(***************************************************************************)
EXTENDS SourceFence

(* Key ids of nodes are hexadecimal: none is the name SingleLog uses for   *)
(* "no writer".                                                            *)
ASSUME HandoverAssumption == "nobody" \notin Node

handoverVars == <<controlVars, sourceVars>>

HandoverInit == ControlInit /\ SourceInit

(* The chains a caller may present as a node's: what its lease table holds,*)
(* an earlier state of it, or nothing.                                     *)
Presentable(n) == {SubSeq(lease[n], 1, i) : i \in 0..Len(lease[n])}

ControlSteps ==
  ControlNext(frozen, {pointer[n] : n \in Node} \ {NoReceipt},
              IF cut.phase = "ACTIVE" THEN Presentable(cut.final.node) ELSE {})

(* A grant under a command the chain already has is refused, and nothing   *)
(* outside the chain compares these commands: any unused one stands for    *)
(* all.                                                                    *)
NextLeaseCmd(n) ==
  LET unused == {c \in LeaseCmd : \A i \in DOMAIN lease[n] : lease[n][i].cmd # c}
  IN  IF unused = {} THEN {} ELSE {CHOOSE c \in unused : TRUE}

(* An export of the node itself would be staged for nothing: finalize      *)
(* refuses it (the receiver is the source), so it is left out.             *)
NodeSteps ==
  \E n \in Node :
    \/ appendFenced(n)
    \/ \E st \in {"active", "revoked"}, c \in NextLeaseCmd(n) : installLeaseGrant(n, st, c)
    \/ \E c \in Cmd : emitSourceFrozenReceipt(n, c)
    \/ \E g \in Generation, fr \in frozen : fr.node # n /\ stageReceiverExport(n, g, fr)
    \/ \E g \in Generation : finalizeReceiverGeneration(n, g)
    \/ \E a \in acts : activateFinalizedReceiverAsSource(n, a)

HandoverNext ==
  \/ ControlSteps /\ UNCHANGED sourceVars
  \/ NodeSteps /\ UNCHANGED controlVars

HandoverSpec == HandoverInit /\ [][HandoverNext]_handoverVars

-----------------------------------------------------------------------------
(* At most one node accepts appends, whatever receipts and grants are      *)
(* delayed, repeated or presented with a stale chain, and whichever        *)
(* promotions are aborted on the way.                                      *)
SingleSource ==
  \A m, n \in Node : Writable(m) /\ Writable(n) => m = n

(* No append is lost by a handover: the ledgers of all nodes are prefixes  *)
(* of one log, and the node that accepts appends has all of it.            *)
NoLostAppend ==
  \A m, n \in Node :
    /\ IsPrefix(ledger[m], ledger[n]) \/ IsPrefix(ledger[n], ledger[m])
    /\ Writable(n) => IsPrefix(ledger[m], ledger[n])

(* The freeze that control bound is final: the source it names accepts no  *)
(* append at that epoch any more, so the bound N is still its N until the  *)
(* node is the source of a later epoch.                                    *)
FreezeIsFinal ==
  \A r \in cuts : r.phase = "SOURCE_FENCED" =>
    LET fr == r.frozen
    IN  /\ LeaseAt(fr.node) = fr.epoch =>
             HeadStatus(fr.node) = "revoked" /\ ledger[fr.node] = fr.rows
        /\ IsPrefix(fr.rows, ledger[fr.node])

(* What a handover leaves behind: the representation, a freeze nothing     *)
(* follows, and every append of the past in the source that writes now.    *)
HandoverSound == SourceTypeOK /\ FreezeIsFinal /\ NoLostAppend

Writing == {n \in Node : Writable(n)}
Longest == CHOOSE n \in Node : \A m \in Node : Len(ledger[m]) <= Len(ledger[n])

(* SingleLog under the longest ledger and the node that accepts appends.   *)
LogNow    == ledger[Longest]
WriterNow == IF Writing = {} THEN "nobody" ELSE CHOOSE n \in Node : Writable(n)

OneLog == INSTANCE SingleLog WITH
  Server <- Node, Entry <- Row, Nobody <- "nobody", log <- LogNow, writer <- WriterNow

(* The handover implements one log with one writer: every step of the      *)
(* control plane and of every node is a write, a stop, an appointment or   *)
(* invisible.                                                              *)
IsOneLog == OneLog!LogSpec

-----------------------------------------------------------------------------
(* The inductive invariant behind these promises.                          *)

(* Epoch e is node n's: the genesis lease, or an activation.               *)
Owns(n, e) == (e = 0 /\ n = Origin) \/ \E a \in acts : a.epoch = e /\ a.node = n

(* Control binds, finalizes and activates only freezes that were signed,   *)
(* and an activation grant extends the chain it was signed over.           *)
ReceiptsInv ==
  /\ \A r \in cuts : r.phase = "SOURCE_FENCED" => r.frozen \in frozen
  /\ cut.phase \in {"READY", "ACTIVE"} => cut.final.frozen \in frozen
  /\ \A a \in acts :
       /\ a.final.frozen \in frozen
       /\ a.chain = Append(a.prior, [epoch |-> a.epoch, status |-> "active", cmd |-> a.cmd])
       /\ \A i \in DOMAIN a.prior : a.prior[i].epoch < a.epoch

(* A lease chain: the node's own epochs, in order, each ended by a revoke. *)
ChainInv ==
  /\ lease[Origin] # <<>>
  /\ \A n \in Node :
       /\ \A i \in DOMAIN lease[n] : Owns(n, lease[n][i].epoch)
       /\ \A i, j \in DOMAIN lease[n] : i < j =>
            /\ lease[n][i].epoch <= lease[n][j].epoch
            /\ lease[n][i].status = "revoked" /\ lease[n][j].epoch = lease[n][i].epoch =>
                 lease[n][j].status = "revoked"

FenceInv ==
  \A n \in Node : IF Leased(n) THEN fence[n] = LeaseAt(n) ELSE fence[n] = -1 /\ ledger[n] = <<>>

(* A signed freeze: its node was revoked at that epoch, and until the node *)
(* has a later epoch its ledger is what was frozen.                        *)
FrozenInv ==
  \A fr \in frozen :
    /\ \E i \in DOMAIN lease[fr.node] :
         lease[fr.node][i].epoch = fr.epoch /\ lease[fr.node][i].status = "revoked"
    /\ LeaseAt(fr.node) = fr.epoch => ledger[fr.node] = fr.rows

(* Every epoch before the current source's was frozen by its owner.        *)
PastIsFrozen ==
  \A n \in Node, e \in Epochs : Owns(n, e) /\ e < act.epoch =>
    \E fr \in frozen : fr.node = n /\ fr.epoch = e

(* Freezes of later epochs, and ledgers of later leases, extend the        *)
(* earlier freezes.                                                        *)
FreezesExtend ==
  /\ \A f, g \in frozen : f.epoch <= g.epoch => IsPrefix(f.rows, g.rows)
  /\ \A f \in frozen, n \in Node :
       Leased(n) /\ f.epoch < LeaseAt(n) => IsPrefix(f.rows, ledger[n])

HandoverInv ==
  /\ ReceiptsInv /\ ChainInv /\ FenceInv /\ FrozenInv /\ PastIsFrozen /\ FreezesExtend
=============================================================================
