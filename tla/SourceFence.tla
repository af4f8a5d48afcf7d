---------------------------- MODULE SourceFence ----------------------------
(***************************************************************************)
(* The PostgreSQL nodes of one stream: the source lease, the frozen        *)
(* receipt, the export and the receiver generations                        *)
(* (packages/server/src/tsk-source-fence.ts), and the activation of a      *)
(* finalized receiver as the next source                                   *)
(* (activateFinalizedReceiverAsSource, tsk-hotp-outbox-pg.ts).             *)
(*                                                                         *)
(* A lease grant signs the digest of its predecessor, so a grant is the    *)
(* whole chain up to it; it installs only on that chain.  A grant for a    *)
(* chain that has moved on can never install again, so an operator's grant *)
(* is signed and installed in one step; activation grants come from the    *)
(* control plane and are installed by the activation, any time later.      *)
(* A lapsed lease deadline only refuses appends, so it is left out.        *)
(***************************************************************************)
EXTENDS ControlFence, SequencesExt

CONSTANTS
  Origin,    \* the node that holds the genesis lease, epoch 0
  MaxRows,   \* bound of the model: rows of a ledger
  MaxGrants  \* bound of the model: grants in a chain

ASSUME SourceAssumption ==
  /\ Origin \in Node
  /\ MaxRows \in Nat /\ MaxGrants \in Nat

VARIABLES
  lease,    \* tsk_source_lease(_history) of each node
  fence,    \* tsk_outbox_fence of each node; -1 where the outbox is not provisioned
  ledger,   \* tsk_outbox_rows and checkpoint of each node
  frozen,   \* the SourceFrozenReceipts signed so far
  staged,   \* tsk_receiver_stage of each node: the export of each generation
  pointer   \* tsk_receiver_pointer of each node: the stored BFinalizedReceipt

sourceVars == <<lease, fence, ledger, frozen, staged, pointer>>

NoExport  == [node |-> "none"]
NoReceipt == [gen |-> "none"]
Genesis   == [epoch |-> 0, status |-> "active", cmd |-> "genesis"]

(* Representation: one type invariant for the module.                      *)
SourceTypeOK ==
  /\ lease \in [Node -> Chain]
  /\ fence \in [Node -> -1..MaxEpoch]
  /\ ledger \in [Node -> Seq(Row)]
  /\ frozen \subseteq FrozenReceipt
  /\ staged \in [Node -> [Generation -> FrozenReceipt \cup {NoExport}]]
  /\ pointer \in [Node -> FinalizedReceipt \cup {NoReceipt}]

SourceInit ==
  /\ lease = [n \in Node |-> IF n = Origin THEN <<Genesis>> ELSE <<>>]
  /\ fence = [n \in Node |-> IF n = Origin THEN 0 ELSE -1]
  /\ ledger = [n \in Node |-> <<>>]
  /\ frozen = {}
  /\ staged = [n \in Node |-> [g \in Generation |-> NoExport]]
  /\ pointer = [n \in Node |-> NoReceipt]

Leased(n)  == lease[n] # <<>>
HeadStatus(n)  == lease[n][Len(lease[n])].status
LeaseAt(n) == lease[n][Len(lease[n])].epoch

(* assertSourceLeaseWritable and the fence check of appendInTx.            *)
Writable(n) == Leased(n) /\ HeadStatus(n) = "active" /\ fence[n] = LeaseAt(n)

-----------------------------------------------------------------------------
(* As a bug: a revoke is not terminal for its epoch.                       *)
Installs_Reactivation(chain, g) ==
  /\ \A i \in DOMAIN chain : chain[i].cmd # g.cmd
  /\ chain # <<>> => g.epoch >= chain[Len(chain)].epoch

(* installLeaseGrant: the refusals, in the code's order.                   *)
Installs(chain, g) ==
  /\ \A i \in DOMAIN chain : chain[i].cmd # g.cmd
  /\ chain # <<>> => g.epoch >= chain[Len(chain)].epoch
  /\ g.status = "active" => \A i \in DOMAIN chain :
                              chain[i].epoch = g.epoch => chain[i].status # "revoked"

(* A renewal, a revoke or a mistaken reactivation the operator signs.      *)
installLeaseGrant(n, st, c) ==
  LET g == [epoch |-> LeaseAt(n), status |-> st, cmd |-> c]
  IN  /\ Leased(n) /\ Len(lease[n]) < MaxGrants
      /\ Installs(lease[n], g)
      /\ lease' = [lease EXCEPT ![n] = Append(@, g)]
      /\ UNCHANGED <<fence, ledger, frozen, staged, pointer>>

(* As a bug: the append checks the fence and not the lease.                *)
appendFenced_NoLease(n) ==
  /\ Leased(n) /\ fence[n] = LeaseAt(n) /\ Len(ledger[n]) < MaxRows
  /\ ledger' = [ledger EXCEPT ![n] = Append(@, [by |-> n, epoch |-> fence[n]])]
  /\ UNCHANGED <<lease, fence, frozen, staged, pointer>>

(* One fenced append: the lease is read FOR SHARE and checked again before *)
(* the commit, so a revoke waits for the transaction.                      *)
appendFenced(n) ==
  /\ Writable(n) /\ Len(ledger[n]) < MaxRows
  /\ ledger' = [ledger EXCEPT ![n] = Append(@, [by |-> n, epoch |-> fence[n]])]
  /\ UNCHANGED <<lease, fence, frozen, staged, pointer>>

emitSourceFrozenReceipt(n, c) ==
  /\ Leased(n) /\ HeadStatus(n) = "revoked"
  /\ fence[n] # -1
  /\ frozen' = frozen \cup {[node |-> n, epoch |-> LeaseAt(n), cmd |-> c, rows |-> ledger[n]]}
  /\ UNCHANGED <<lease, fence, ledger, staged, pointer>>

(* buildSourceExportManifest and the guard's counter-signature: the ledger *)
(* is replayed against the receipt; it still is what was frozen when the   *)
(* receipt was signed, and an empty stream has nothing to export.          *)
Exported(fr) == fr.rows # <<>>

stageReceiverExport(n, g, fr) ==
  /\ Exported(fr)
  /\ staged[n][g] = NoExport
  /\ staged' = [staged EXCEPT ![n][g] = fr]
  /\ UNCHANGED <<lease, fence, ledger, frozen, pointer>>

(* The pointer flips once: a node that finalized a generation refuses any  *)
(* other.                                                                  *)
finalizeReceiverGeneration(n, g) ==
  /\ staged[n][g] # NoExport
  /\ staged[n][g].node # n
  /\ pointer[n] = NoReceipt
  /\ pointer' = [pointer EXCEPT ![n] = [node |-> n, gen |-> g, frozen |-> staged[n][g]]]
  /\ UNCHANGED <<lease, fence, ledger, frozen, staged>>

(* As a bug: the lease is activated and the import is left for later.      *)
activateFinalizedReceiverAsSource_NoImport(n, a) ==
  /\ a.node = n
  /\ pointer[n] = a.final
  /\ fence[n] <= a.epoch
  /\ lease[n] = a.prior
  /\ lease' = [lease EXCEPT ![n] = a.chain]
  /\ fence' = [fence EXCEPT ![n] = a.epoch]
  /\ UNCHANGED <<ledger, frozen, staged, pointer>>

(* The import, the fence, the checkpoint and the activation lease in one   *)
(* transaction: rows already there must be the imported ones.              *)
activateFinalizedReceiverAsSource(n, a) ==
  LET rows == a.final.frozen.rows
      g    == a.chain[Len(a.chain)]
  IN  /\ a.node = n
      /\ pointer[n] = a.final
      /\ a.final.frozen.epoch < a.epoch
      /\ IsPrefix(ledger[n], rows)
      /\ fence[n] <= a.epoch
      /\ \/ lease[n] = a.prior /\ Installs(lease[n], g)
         \/ IsPrefix(a.chain, lease[n])
      /\ lease' = [lease EXCEPT ![n] = IF lease[n] = a.prior THEN a.chain ELSE @]
      /\ ledger' = [ledger EXCEPT ![n] = rows]
      /\ fence' = [fence EXCEPT ![n] = a.epoch]
      /\ UNCHANGED <<frozen, staged, pointer>>
=============================================================================
