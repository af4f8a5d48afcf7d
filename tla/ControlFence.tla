---------------------------- MODULE ControlFence ----------------------------
(***************************************************************************)
(* The control plane of one stream: HaControlFencing                       *)
(* (packages/server/src/ha-control-fencing.ts) with its signed histories   *)
(* and the Redis fencing authority it claims from.                         *)
(*                                                                         *)
(* Every method runs one SERIALIZABLE transaction under the stream's       *)
(* advisory lock, so a transaction is one action; provision and            *)
(* advanceEpoch are sagas of several transactions and Redis calls, and     *)
(* other calls run between their steps.  A head and its append-only        *)
(* history are a record and a set: verifyChain refuses a head that is not  *)
(* the last row, and a digest names exactly one row.  A signed receipt is  *)
(* the record it signs; a forged one fails its signature.  Refusals and    *)
(* idempotent retries change nothing and are stutters.                     *)
(***************************************************************************)
EXTENDS Integers, FiniteSets, Sequences

CONSTANTS
  Node,         \* key ids of the PostgreSQL nodes (node id and system_identifier)
  Cmd,          \* promotion commandIds
  LeaseCmd,     \* grantCommandIds of writeLease
  Holder,       \* node ids callers name in writeLease and advanceEpoch
  Status,       \* statuses callers name in writeLease
  Margin,       \* safety margins callers name in advanceEpoch
  Deadline,     \* claim expiries callers name in advanceEpoch
  Marker,       \* genesis markers callers pass to provision
  Caller,       \* advanceEpoch calls that may be in flight
  Generation,   \* receiver generation ids
  Horizon,      \* MAX_LEASE_HORIZON_MS, in ticks of the control clock
  MinRemaining, \* policy.minClaimRemainingMs, in ticks
  MaxEpoch,     \* bound of the model: epochs
  MaxClock,     \* bound of the model: ticks of the control clock
  MaxLosses     \* bound of the model: losses of the Redis record

ASSUME ControlAssumption ==
  /\ {Horizon, MaxEpoch, MaxClock, MaxLosses} \subseteq Nat
  /\ MinRemaining \in Nat \ {0}
  /\ Holder \subseteq Node /\ Status \subseteq {"active", "revoked"}
  /\ Margin \subseteq Nat /\ Deadline \subseteq Nat

VARIABLES
  prov,     \* tsk_ha_provisioning
  wit,      \* tsk_ha_epoch_witness
  grant,    \* tsk_ha_lease_head
  grants,   \* tsk_ha_lease_history
  cut,      \* tsk_ha_cutover_head
  cuts,     \* tsk_ha_cutover_history
  act,      \* tsk_ha_source_activation
  acts,     \* tsk_ha_source_activation_history
  redis,    \* the record of the Redis fencing store
  clock,    \* the clock of the control database
  calls,    \* the progress of each advanceEpoch call
  losses    \* losses of the Redis record so far

controlVars == <<prov, wit, grant, grants, cut, cuts, act, acts, redis, clock, calls, losses>>

Epochs == 0..MaxEpoch
Times  == 0..(MaxClock + Horizon)
Row    == [by : Node, epoch : Epochs]        \* a committed outbox row of the stream
Grant  == [epoch : Epochs, status : {"active", "revoked"}, cmd : Cmd \cup LeaseCmd \cup {"genesis"}]
Chain  == Seq(Grant)     \* the signed lease grants of one node, from genesis
FrozenReceipt    == [node : Node, epoch : Epochs, cmd : Cmd, rows : Seq(Row)]
FinalizedReceipt == [node : Node, gen : Generation, frozen : FrozenReceipt]

Unprovisioned == [state |-> "none"]
NoGrant  == [seq |-> 0]
NoCut    == [seq |-> 0, phase |-> "none"]
NoAct    == [epoch |-> 0]
NoRecord == [epoch |-> 0]
Idle     == [pc |-> "idle"]

Claim    == [node : Holder, epoch : Epochs, cmd : Cmd, exp : Deadline]
GrantRow == [seq : Nat \ {0}, holder : Holder, epoch : Epochs, status : Status,
             max : Times, cmd : LeaseCmd]
BareRow  == [seq : Nat \ {0}, epoch : Epochs, cmd : Cmd, phase : {"PREPARING", "ABORTED"}]
BoundRow == [seq : Nat \ {0}, epoch : Epochs, cmd : Cmd, phase : {"SOURCE_FENCED"},
             frozen : FrozenReceipt]
FencedRow == [seq : Nat \ {0}, epoch : Epochs, cmd : Cmd, phase : {"FENCED", "IMPORTING"},
              lease : Nat, record : Claim]
LiveRow  == [seq : Nat \ {0}, epoch : Epochs, cmd : Cmd, phase : {"READY", "ACTIVE"},
             final : FinalizedReceipt]
CutRow   == BareRow \cup BoundRow \cup FencedRow \cup LiveRow
ActRow   == [epoch : Epochs, cmd : Cmd, node : Node, final : FinalizedReceipt,
             prior : Chain, chain : Chain]
Call     == [pc : {"claim", "claimed"}, claim : Claim, margin : Margin, lease : Nat]

(* Representation: one type invariant for the module.                      *)
ControlTypeOK ==
  /\ prov \in {Unprovisioned}
       \cup [state : {"intent", "incomplete", "provisioned"}, marker : Marker]
  /\ wit \in [state : {"none", "incomplete", "provisioned"}, epoch : Epochs]
  /\ grant \in GrantRow \cup {NoGrant}
  /\ grants \subseteq GrantRow
  /\ cut \in CutRow \cup {NoCut}
  /\ cuts \subseteq CutRow
  /\ act \in ActRow \cup {NoAct}
  /\ acts \subseteq ActRow
  /\ redis \in Claim \cup {NoRecord}
  /\ clock \in 0..MaxClock
  /\ calls \in [Caller -> Call \cup {Idle}]
  /\ losses \in 0..MaxLosses

ControlInit ==
  /\ prov = Unprovisioned
  /\ wit = [state |-> "none", epoch |-> 0]
  /\ grant = NoGrant /\ grants = {}
  /\ cut = NoCut     /\ cuts = {}
  /\ act = NoAct     /\ acts = {}
  /\ redis = NoRecord
  /\ clock = 0
  /\ calls = [k \in Caller |-> Idle]
  /\ losses = 0

-----------------------------------------------------------------------------
(* provision: three transactions; a rerun resumes from the durable state,  *)
(* and a different genesis marker is refused by each of them.              *)

provisionIntent(m) ==
  /\ prov = Unprovisioned
  /\ prov' = [state |-> "intent", marker |-> m]
  /\ UNCHANGED <<wit, grant, grants, cut, cuts, act, acts, redis, clock, calls, losses>>

provisionIncomplete(m) ==
  /\ prov = [state |-> "intent", marker |-> m]
  /\ prov' = [prov EXCEPT !.state = "incomplete"]
  /\ wit' = [state |-> "incomplete", epoch |-> 0]
  /\ UNCHANGED <<grant, grants, cut, cuts, act, acts, redis, clock, calls, losses>>

provisionComplete(m) ==
  /\ prov = [state |-> "incomplete", marker |-> m]
  /\ prov' = [prov EXCEPT !.state = "provisioned"]
  /\ wit' = [state |-> "provisioned", epoch |-> 0]
  /\ UNCHANGED <<grant, grants, cut, cuts, act, acts, redis, clock, calls, losses>>

-----------------------------------------------------------------------------
(* The control lease: the horizon that must pass before the next epoch.    *)

InFlight == cut.phase \in {"PREPARING", "SOURCE_FENCED", "FENCED", "IMPORTING", "READY"}
Terminal == cut.phase \in {"none", "ACTIVE", "ABORTED"}
GrantsAt(e) == {g \in grants : g.epoch = e}

writeLease(h, st, x, c) ==
  LET row == [seq |-> grant.seq + 1, holder |-> h, epoch |-> wit.epoch,
              status |-> st, max |-> x, cmd |-> c]
  IN  /\ wit.state = "provisioned"
      /\ x <= clock + Horizon
      /\ ~(InFlight /\ st = "active")
      /\ \A g \in grants : g.cmd # c
      /\ \A g \in GrantsAt(wit.epoch) : g.holder = h /\ g.max <= x
      /\ grant' = row
      /\ grants' = grants \cup {row}
      /\ UNCHANGED <<prov, wit, cut, cuts, act, acts, redis, clock, calls, losses>>

-----------------------------------------------------------------------------
(* The cutover saga.                                                       *)

CutAt(phase, c) == cut.phase = phase /\ cut.cmd = c

cutTransition(row) == cut' = row /\ cuts' = cuts \cup {row}

beginPromotionIntent(c) ==
  /\ wit.state = "provisioned" /\ wit.epoch < MaxEpoch
  /\ Terminal
  /\ cutTransition([seq |-> cut.seq + 1, epoch |-> wit.epoch + 1, cmd |-> c,
                    phase |-> "PREPARING"])
  /\ UNCHANGED <<prov, wit, grant, grants, act, acts, redis, clock, calls, losses>>

(* As a bug: any later epoch may follow the current source's.              *)
ConsumedActivationEpochs_AnyGap(from, target) ==
  /\ target > from
  /\ \A e \in (from + 1)..(target - 1) : \A a \in acts : a.epoch # e

(* Every epoch between the current source and the target was aborted, and  *)
(* none of them has been activated.                                        *)
ConsumedActivationEpochs(from, target) ==
  /\ target > from
  /\ \A e \in (from + 1)..(target - 1) :
       /\ \A a \in acts : a.epoch # e
       /\ LET terminal == {r \in cuts : r.epoch = e /\ r.phase \in {"ACTIVE", "ABORTED"}}
          IN  Cardinality(terminal) = 1 /\ \A r \in terminal : r.phase = "ABORTED"

bindSourceFenced(c, fr) ==
  /\ CutAt("PREPARING", c)
  /\ fr.cmd = c
  /\ ConsumedActivationEpochs(act.epoch, cut.epoch)
  /\ fr.epoch = act.epoch
  /\ cutTransition([seq |-> cut.seq + 1, epoch |-> cut.epoch, cmd |-> c,
                    phase |-> "SOURCE_FENCED", frozen |-> fr])
  /\ UNCHANGED <<prov, wit, grant, grants, act, acts, redis, clock, calls, losses>>

(* The lease of the old epoch is revoked, and no grant of that epoch       *)
(* outlives the control clock by the margin.                               *)
proveOldFenced(target, margin) ==
  /\ grant # NoGrant
  /\ grant.epoch = target - 1
  /\ grant.status = "revoked"
  /\ \A g \in GrantsAt(target - 1) : clock >= g.max + margin

(* Redis is not behind the witness, and ahead of it only for this intent.  *)
RedisAuthority(c, target) ==
  \/ redis = NoRecord /\ wit.epoch = 0
  \/ redis # NoRecord /\ redis.epoch = wit.epoch
  \/ redis # NoRecord /\ redis.epoch = target /\ redis.cmd = c

(* As a bug: an intent whose freeze was never bound is accepted too.       *)
Fenceable_Unbound(c, target) ==
  /\ cut.phase \in {"PREPARING", "SOURCE_FENCED"} /\ cut.cmd = c /\ cut.epoch = target
  /\ wit.state = "provisioned" /\ wit.epoch = target - 1

Fenceable(c, target) ==
  /\ CutAt("SOURCE_FENCED", c) /\ cut.epoch = target
  /\ wit.state = "provisioned" /\ wit.epoch = target - 1

(* Tx1: the preconditions, and the lease that must still be the head later.*)
advanceCheck(k, claim, margin) ==
  /\ calls[k] = Idle
  /\ Fenceable(claim.cmd, claim.epoch)
  /\ proveOldFenced(claim.epoch, margin)
  /\ RedisAuthority(claim.cmd, claim.epoch)
  /\ calls' = [calls EXCEPT ![k] = [pc |-> "claim", claim |-> claim, margin |-> margin,
                                    lease |-> grant.seq]]
  /\ UNCHANGED <<prov, wit, grant, grants, cut, cuts, act, acts, redis, clock, losses>>

(* The claim, and its readback: whoever holds the epoch first keeps it.    *)
advanceClaim(k) ==
  LET claim == calls[k].claim
  IN  /\ calls[k].pc = "claim"
      /\ redis' = IF redis # NoRecord /\ redis.epoch >= claim.epoch THEN redis ELSE claim
      /\ calls' = [calls EXCEPT ![k] = IF redis' = claim
                                       THEN [calls[k] EXCEPT !.pc = "claimed"] ELSE Idle]
      /\ UNCHANGED <<prov, wit, grant, grants, cut, cuts, act, acts, clock, losses>>

(* As a bug: Tx2 trusts what Tx1 proved of the old lease.                  *)
advanceCommit_Trusting(k) ==
  LET claim == calls[k].claim
  IN  /\ calls[k].pc = "claimed"
      /\ Fenceable(claim.cmd, claim.epoch)
      /\ redis = claim
      /\ claim.exp >= clock + MinRemaining
      /\ wit' = [wit EXCEPT !.epoch = claim.epoch]
      /\ cutTransition([seq |-> cut.seq + 1, epoch |-> claim.epoch, cmd |-> claim.cmd,
                        phase |-> "FENCED", lease |-> grant.seq, record |-> claim])
      /\ calls' = [calls EXCEPT ![k] = Idle]
      /\ UNCHANGED <<prov, grant, grants, act, acts, redis, clock, losses>>

(* Tx2: everything is asserted again, then witness and FENCED together.    *)
advanceCommit(k) ==
  LET claim == calls[k].claim
  IN  /\ calls[k].pc = "claimed"
      /\ Fenceable(claim.cmd, claim.epoch)
      /\ proveOldFenced(claim.epoch, calls[k].margin)
      /\ grant.seq = calls[k].lease
      /\ redis = claim
      /\ claim.exp >= clock + MinRemaining
      /\ wit' = [wit EXCEPT !.epoch = claim.epoch]
      /\ cutTransition([seq |-> cut.seq + 1, epoch |-> claim.epoch, cmd |-> claim.cmd,
                        phase |-> "FENCED", lease |-> grant.seq, record |-> claim])
      /\ calls' = [calls EXCEPT ![k] = Idle]
      /\ UNCHANGED <<prov, grant, grants, act, acts, redis, clock, losses>>

(* The call throws (a refused Tx2, an uncertain claim) or its process dies.*)
advanceFails(k) ==
  /\ calls[k] # Idle
  /\ calls' = [calls EXCEPT ![k] = Idle]
  /\ UNCHANGED <<prov, wit, grant, grants, cut, cuts, act, acts, redis, clock, losses>>

BoundFreeze(c, e) ==
  {r \in cuts : r.phase = "SOURCE_FENCED" /\ r.cmd = c /\ r.epoch = e}

markImporting(c) ==
  /\ CutAt("FENCED", c)
  /\ BoundFreeze(c, cut.epoch) # {}
  /\ cutTransition([seq |-> cut.seq + 1, epoch |-> cut.epoch, cmd |-> c, phase |-> "IMPORTING",
                    lease |-> cut.lease, record |-> cut.record])
  /\ UNCHANGED <<prov, wit, grant, grants, act, acts, redis, clock, calls, losses>>

(* B's receipt binds the freeze control bound, at the current source epoch.*)
markReady(c, br) ==
  /\ CutAt("IMPORTING", c)
  /\ br.frozen.cmd = c
  /\ \E r \in BoundFreeze(c, cut.epoch) : r.frozen = br.frozen
  /\ ConsumedActivationEpochs(act.epoch, cut.epoch)
  /\ br.frozen.epoch = act.epoch
  /\ br.node # br.frozen.node
  /\ cutTransition([seq |-> cut.seq + 1, epoch |-> cut.epoch, cmd |-> c,
                    phase |-> "READY", final |-> br])
  /\ UNCHANGED <<prov, wit, grant, grants, act, acts, redis, clock, calls, losses>>

activate(c) ==
  /\ CutAt("READY", c)
  /\ cutTransition([seq |-> cut.seq + 1, epoch |-> cut.epoch, cmd |-> c, phase |-> "ACTIVE",
                    final |-> cut.final])
  /\ UNCHANGED <<prov, wit, grant, grants, act, acts, redis, clock, calls, losses>>

abortFencedPromotion(c) ==
  /\ cut.phase \in {"FENCED", "IMPORTING", "READY"} /\ cut.cmd = c
  /\ wit.state = "provisioned" /\ wit.epoch = cut.epoch
  /\ cutTransition([seq |-> cut.seq + 1, epoch |-> cut.epoch, cmd |-> c, phase |-> "ABORTED"])
  /\ UNCHANGED <<prov, wit, grant, grants, act, acts, redis, clock, calls, losses>>

(* The source capability of the ratified B: an active grant on the chain   *)
(* the caller presents as B's.  The chain is contiguous, ends in a revoke, *)
(* never goes on after one in the same epoch, and B's last activation is   *)
(* in it; an empty chain is a target that was never a source.              *)
PriorChainOk(prior, node, target) ==
  /\ prior # <<>> => prior[Len(prior)].status = "revoked"
  /\ \A i \in DOMAIN prior :
       /\ prior[i].epoch < target
       /\ prior[i].status = "revoked" => \A j \in DOMAIN prior :
                                           j > i => prior[j].epoch # prior[i].epoch
  /\ \A a \in acts : a.node = node /\ (\A b \in acts : b.node = node => b.epoch <= a.epoch) =>
       /\ Len(a.chain) <= Len(prior)
       /\ SubSeq(prior, 1, Len(a.chain)) = a.chain

activateSource(c, prior) ==
  LET row == [epoch |-> cut.epoch, cmd |-> c, node |-> cut.final.node, final |-> cut.final,
              prior |-> prior,
              chain |-> Append(prior, [epoch |-> cut.epoch, status |-> "active", cmd |-> c])]
  IN  /\ CutAt("ACTIVE", c)
      /\ \A a \in acts : a.cmd # c
      /\ PriorChainOk(prior, cut.final.node, cut.epoch)
      /\ ConsumedActivationEpochs(act.epoch, cut.epoch)
      /\ cut.final.frozen.epoch = act.epoch
      /\ act' = row
      /\ acts' = acts \cup {row}
      /\ UNCHANGED <<prov, wit, grant, grants, cut, cuts, redis, clock, calls, losses>>

-----------------------------------------------------------------------------
(* The control clock, and the Redis record lost by a failover.             *)

ClockTick ==
  /\ clock < MaxClock
  /\ clock' = clock + 1
  /\ UNCHANGED <<prov, wit, grant, grants, cut, cuts, act, acts, redis, calls, losses>>

RedisLoses ==
  /\ redis # NoRecord /\ losses < MaxLosses
  /\ redis' = NoRecord
  /\ losses' = losses + 1
  /\ UNCHANGED <<prov, wit, grant, grants, cut, cuts, act, acts, clock, calls>>

-----------------------------------------------------------------------------
(* Any caller, with any receipt of fr and br and any chain of pc.          *)
ControlNext(fr, br, pc) ==
  \/ \E m \in Marker : provisionIntent(m) \/ provisionIncomplete(m) \/ provisionComplete(m)
  \/ \E h \in Holder, st \in Status, x \in Times, c \in LeaseCmd :
       writeLease(h, st, x, c)
  \/ \E c \in Cmd : \/ beginPromotionIntent(c)
                    \/ \E r \in fr : bindSourceFenced(c, r)
                    \/ markImporting(c)
                    \/ \E r \in br : markReady(c, r)
                    \/ activate(c)
                    \/ \E prior \in pc : activateSource(c, prior)
                    \/ abortFencedPromotion(c)
  \/ \E k \in Caller : \/ \E claim \in Claim, margin \in Margin : advanceCheck(k, claim, margin)
                       \/ advanceClaim(k)
                       \/ advanceCommit(k)
                       \/ advanceFails(k)
  \/ ClockTick
  \/ RedisLoses

-----------------------------------------------------------------------------
(* What the control plane promises.                                        *)

Rows(phase, e) == {r \in cuts : r.phase = phase /\ r.epoch = e}

(* The witness reaches an epoch only through one FENCED row, written by a  *)
(* command whose SOURCE_FENCED row bound the freeze of an earlier source   *)
(* epoch ("FENCED is unreachable without a durably-bound, source-signed    *)
(* frozen receipt"), whatever advanceEpoch calls raced or died.            *)
WitnessIsBacked ==
  \A e \in 1..wit.epoch :
    \E f \in Rows("FENCED", e) :
      /\ Rows("FENCED", e) = {f}
      /\ f.record.epoch = e /\ f.record.cmd = f.cmd
      /\ \E b \in BoundFreeze(f.cmd, e) : BoundFreeze(f.cmd, e) = {b} /\ b.frozen.epoch < e

(* Once the witness is past an epoch, every control lease ever granted at  *)
(* that epoch has expired on the control clock: no renewal or longer       *)
(* revoke slips in between Tx1, the Redis claim and Tx2 of advanceEpoch.   *)
HorizonElapsed ==
  \A g \in grants : g.epoch < wit.epoch => g.max <= clock

(* Redis is at most one epoch ahead of the signed witness, and then only   *)
(* for the intent that is SOURCE_FENCED: a claim whose caller died never   *)
(* hands the epoch to another command.                                     *)
RedisFollowsIntent ==
  redis # NoRecord =>
    \/ redis.epoch <= wit.epoch
    \/ redis.epoch = wit.epoch + 1 /\ CutAt("SOURCE_FENCED", redis.cmd)

(* Source authority moves forward: an activation freezes the source that   *)
(* was activated immediately before it, every epoch it skips was aborted,  *)
(* and an aborted epoch is never activated.                                *)
ActivationsChain ==
  \A a \in acts :
    /\ a.epoch <= act.epoch /\ a.epoch <= wit.epoch
    /\ a.final.node # a.final.frozen.node
    /\ a.final.frozen.epoch < a.epoch
    /\ a.final.frozen.epoch = 0 \/ \E b \in acts : b.epoch = a.final.frozen.epoch
    /\ \A b \in acts : b.epoch < a.epoch => b.epoch <= a.final.frozen.epoch
    /\ \A b \in acts : b.epoch = a.epoch => b = a
    /\ \A e \in (a.final.frozen.epoch + 1)..(a.epoch - 1) : Rows("ABORTED", e) # {}
    /\ Rows("ABORTED", a.epoch) = {}

(* The witness counter and Redis hold only epochs the signed log accounts  *)
(* for, between any two commits of interleaved promotions.                 *)
ControlSound == ControlTypeOK /\ WitnessIsBacked /\ RedisFollowsIntent

-----------------------------------------------------------------------------
(* The control plane by itself, for any receipts and chains a caller may   *)
(* present, and the inductive invariant behind its promises.               *)

ControlSpec == ControlInit /\ [][ControlNext(FrozenReceipt, FinalizedReceipt, Chain)]_controlVars

BeforeFence == {"PREPARING", "SOURCE_FENCED"}
PastFence   == {"FENCED", "IMPORTING", "READY", "ACTIVE", "ABORTED"}

(* No epoch before the stream is provisioned.                              *)
GenesisInv ==
  prov.state # "provisioned" => wit.epoch = 0 /\ wit.state # "provisioned"

(* The head of the cutover log against the witness: an intent is for the   *)
(* next epoch, a fenced promotion for the current one, and only the latest *)
(* intent is ahead of the witness.                                         *)
CutInv ==
  /\ cut.phase = "none" => wit.epoch = 0 /\ cuts = {}
  /\ cut.phase # "none" => cut \in cuts
  /\ cut.phase \in BeforeFence => cut.epoch = wit.epoch + 1
  /\ cut.phase \in PastFence => cut.epoch = wit.epoch
  /\ \A r \in cuts :
       /\ r.epoch <= wit.epoch \/ (r.epoch = wit.epoch + 1 /\ cut.phase \in BeforeFence)
       /\ r.phase \in PastFence => r.epoch <= wit.epoch
  /\ cut.phase = "PREPARING" => Rows("SOURCE_FENCED", cut.epoch) = {}
  /\ cut.phase = "SOURCE_FENCED" =>
       Rows("SOURCE_FENCED", cut.epoch) = {cut} /\ cut.frozen.epoch < cut.epoch
  /\ cut.phase \in PastFence \ {"ABORTED"} => Rows("ABORTED", cut.epoch) = {}

(* A call that passed Tx1 is for the intent that is SOURCE_FENCED, or late.*)
CallsFollowIntent ==
  \A k \in Caller : calls[k] # Idle =>
    \/ calls[k].claim.epoch <= wit.epoch
    \/ calls[k].claim.epoch = wit.epoch + 1 /\ CutAt("SOURCE_FENCED", calls[k].claim.cmd)

(* The current activation is the last one, and the epoch of a promotion    *)
(* under way or aborted has none.                                          *)
ActInv ==
  /\ act = NoAct \/ act \in acts
  /\ cut.phase \in {"READY", "ACTIVE"} => cut.final.node # cut.final.frozen.node
  /\ cut.phase \in {"FENCED", "IMPORTING", "READY", "ABORTED"} =>
       \A a \in acts : a.epoch < wit.epoch

ControlInv ==
  /\ GenesisInv /\ CutInv /\ CallsFollowIntent /\ ActInv
  /\ WitnessIsBacked /\ RedisFollowsIntent /\ HorizonElapsed /\ ActivationsChain
=============================================================================
