----------------------------- MODULE WriterFence -----------------------------
(***************************************************************************)
(* The writer lease: PromotionController and FencedTumblerStore            *)
(* (packages/server/src/promotion.ts) over the shared fencing authority    *)
(* (packages/server/src/redis-fencing-store.ts; MemoryFencingStore is the  *)
(* instance without replicas).                                             *)
(*                                                                         *)
(* Guard-signed commands reach the nodes in any order and any number of    *)
(* times.  Each `await` on the authority is a point where other calls run  *)
(* and where the authority may fail over to one of its replicas.           *)
(*                                                                         *)
(* Refusals that change nothing are stutters: a stale or expired command,  *)
(* an expired lease, the wrong role, a replica that has not converged, an  *)
(* unreachable authority.                                                  *)
(***************************************************************************)
EXTENDS Integers, FiniteSets

CONSTANTS
  Node,          \* nodeIds
  CommandId,     \* commandIds the guard draws
  Handler,       \* concurrent handlePromotionCommand calls
  Writer,        \* concurrent mutations of FencedTumblerStore
  Replica,       \* Redis replicas of the authority
  WaitReplicas,  \* durability.waitReplicas; 0 is no durability policy
  MaxEpoch,      \* bound of the model: fence epochs the guard signs
  MaxFailovers   \* bound of the model: failovers of the authority

ASSUME FenceAssumption ==
  /\ IsFiniteSet(Replica)
  /\ WaitReplicas \in 0..Cardinality(Replica)
  /\ MaxEpoch \in Nat
  /\ MaxFailovers \in Nat

VARIABLES
  fence,         \* the record on the Redis master
  copies,        \* the record each replica has
  lease,         \* PromotionController.lease of each node
  handler,       \* the progress of each command
  writer,        \* the progress of each mutation
  granted,       \* history: grants whose activate returned ok
  demoted,       \* history: grants whose demote returned ok
  failovers      \* failovers so far

fenceVars == <<fence, copies, lease, handler, writer, granted, demoted, failovers>>

Epoch == 1..MaxEpoch
Grant == [node : Node, epoch : Epoch, id : CommandId]  \* an activate or promote command
None  == [node |-> "none", epoch |-> 0, id |-> "none"]   \* no lease
FenceRecord == [grant : Grant, active : BOOLEAN]
NoFence == [grant |-> None, active |-> FALSE]
Stored  == FenceRecord \cup {NoFence}

Idle == [pc |-> "idle"]
HandlerState ==
  {Idle} \cup [pc : {"claim", "claimed", "release", "released"}, grant : Grant]
         \cup [pc : {"wait"}, grant : Grant, acked : SUBSET Replica]
WriterState ==
  {Idle} \cup [pc : {"reading"}, node : Node, floor : SUBSET Grant, out : SUBSET Grant]
         \cup [pc : {"read"}, node : Node, floor : SUBSET Grant, out : SUBSET Grant,
               seen : Stored]
         \cup [pc : {"writing"}, grant : Grant, floor : SUBSET Grant, out : SUBSET Grant]

(* Representation: one type invariant for the module.                       *)
FenceTypeOK ==
  /\ fence \in Stored
  /\ copies \in [Replica -> Stored]
  /\ lease \in [Node -> Grant \cup {None}]
  /\ handler \in [Handler -> HandlerState]
  /\ writer \in [Writer -> WriterState]
  /\ granted \subseteq Grant
  /\ demoted \subseteq Grant
  /\ failovers \in 0..MaxFailovers

FenceInit ==
  /\ fence = NoFence
  /\ copies = [r \in Replica |-> NoFence]
  /\ lease = [n \in Node |-> None]
  /\ handler = [h \in Handler |-> Idle]
  /\ writer = [w \in Writer |-> Idle]
  /\ granted = {}
  /\ demoted = {}
  /\ failovers = 0

-----------------------------------------------------------------------------
(* PromotionController.activate *)

(* A verified, fresh activate (or promote) command starts its claim.        *)
activate(h, g) ==
  /\ handler[h] = Idle
  /\ handler' = [handler EXCEPT ![h] = [pc |-> "claim", grant |-> g]]
  /\ UNCHANGED <<fence, copies, lease, writer, granted, demoted, failovers>>

(* A mutant: a grant of the stored epoch is claimed again.                  *)
HigherOrEqual(g) == g.epoch >= fence.grant.epoch

(* CLAIM_SCRIPT on the master: only a strictly higher epoch is stored.      *)
Higher(g) == g.epoch > fence.grant.epoch
claim(h) ==
  LET g == handler[h].grant IN
  /\ handler[h].pc = "claim"
  /\ IF Higher(g)
     THEN /\ fence' = [grant |-> g, active |-> TRUE]
          /\ handler' = [handler EXCEPT ![h] =
                           [pc |-> "wait", grant |-> g, acked |-> {}]]
     ELSE /\ handler' = [handler EXCEPT ![h] = Idle]
          /\ UNCHANGED fence
  /\ UNCHANGED <<copies, lease, writer, granted, demoted, failovers>>

(* A mutant: the number WAIT returns is not looked at.                      *)
EnoughAcksIgnored(acked) == TRUE

(* WAIT on the same connection: enough replicas have the write.             *)
EnoughAcks(acked) == Cardinality(acked) >= WaitReplicas
waitAcked(h) ==
  /\ handler[h].pc = "wait"
  /\ EnoughAcks(handler[h].acked)
  /\ handler' = [handler EXCEPT ![h] = [pc |-> "claimed", grant |-> @.grant]]
  /\ UNCHANGED <<fence, copies, lease, writer, granted, demoted, failovers>>

(* The continuation of activate: the lease is set and ok returned.          *)
activated(h) ==
  LET g == handler[h].grant IN
  /\ handler[h].pc = "claimed"
  /\ lease' = [lease EXCEPT ![g.node] = g]
  /\ granted' = granted \cup {g}
  /\ handler' = [handler EXCEPT ![h] = Idle]
  /\ UNCHANGED <<fence, copies, writer, demoted, failovers>>

-----------------------------------------------------------------------------
(* PromotionController.demote *)

(* A demote command names the epoch of the lease the node holds.            *)
demote(h, n) ==
  /\ handler[h] = Idle
  /\ lease[n] # None
  /\ handler' = [handler EXCEPT ![h] = [pc |-> "release", grant |-> lease[n]]]
  /\ UNCHANGED <<fence, copies, lease, writer, granted, demoted, failovers>>

(* RELEASE_SCRIPT: exactly this active record becomes inactive.             *)
release(h) ==
  LET g == handler[h].grant IN
  /\ handler[h].pc = "release"
  /\ IF fence = [grant |-> g, active |-> TRUE]
     THEN /\ fence' = [grant |-> g, active |-> FALSE]
          /\ handler' = [handler EXCEPT ![h] = [pc |-> "released", grant |-> g]]
     ELSE /\ handler' = [handler EXCEPT ![h] = Idle]
          /\ UNCHANGED fence
  /\ UNCHANGED <<copies, lease, writer, granted, demoted, failovers>>

(* The continuation of demote clears the lease, whichever it is now.        *)
released(h) ==
  LET g == handler[h].grant IN
  /\ handler[h].pc = "released"
  /\ lease' = [lease EXCEPT ![g.node] = None]
  /\ demoted' = demoted \cup {g}
  /\ handler' = [handler EXCEPT ![h] = Idle]
  /\ UNCHANGED <<fence, copies, writer, granted, failovers>>

(* A reply is lost or too few replicas answer in time: the call throws      *)
(* (FenceDurabilityUncertainError for a claim) and the lease is not touched *)
(* although the script may have run.                                        *)
CommandThrows(h) ==
  /\ handler[h] # Idle
  /\ handler' = [handler EXCEPT ![h] = Idle]
  /\ UNCHANGED <<fence, copies, lease, writer, granted, demoted, failovers>>

-----------------------------------------------------------------------------
(* FencedTumblerStore: requireWritable, then the inner mutation.  A writer  *)
(* remembers what had been granted and demoted when its check began.        *)

isWritable(w, n) ==
  /\ writer[w] = Idle
  /\ lease[n] # None
  /\ writer' = [writer EXCEPT ![w] =
       [pc |-> "reading", node |-> n, floor |-> granted, out |-> demoted]]
  /\ UNCHANGED <<fence, copies, lease, handler, granted, demoted, failovers>>

(* fenceStore.current() on the master. *)
current(w) ==
  /\ writer[w].pc = "reading"
  /\ writer' = [writer EXCEPT ![w] =
       [pc |-> "read", node |-> @.node, floor |-> @.floor, out |-> @.out, seen |-> fence]]
  /\ UNCHANGED <<fence, copies, lease, handler, granted, demoted, failovers>>

(* A mutant: the record read from the authority is not compared.            *)
AllowedByLease(w) == lease[writer[w].node] # None

(* After the await the lease is read again and must be the active record    *)
(* that was read.  Otherwise, or when the lease has expired meanwhile, the  *)
(* mutation throws WriterFencedError.                                       *)
Allowed(w) == writer[w].seen = [grant |-> lease[writer[w].node], active |-> TRUE]
writeAllowed(w) ==
  /\ writer[w].pc = "read"
  /\ Allowed(w)
  /\ writer' = [writer EXCEPT ![w] =
       [pc |-> "writing", grant |-> lease[@.node], floor |-> @.floor, out |-> @.out]]
  /\ UNCHANGED <<fence, copies, lease, handler, granted, demoted, failovers>>

writeDenied(w) ==
  /\ writer[w].pc \in {"reading", "read"}
  /\ writer' = [writer EXCEPT ![w] = Idle]
  /\ UNCHANGED <<fence, copies, lease, handler, granted, demoted, failovers>>

innerWrite(w) ==
  /\ writer[w].pc = "writing"
  /\ writer' = [writer EXCEPT ![w] = Idle]
  /\ UNCHANGED <<fence, copies, lease, handler, granted, demoted, failovers>>

-----------------------------------------------------------------------------
(* External: Redis and the processes. *)

(* A replica catches up with the master, and its acknowledgement reaches    *)
(* every connection that waits.                                             *)
Replicate(r) ==
  /\ copies' = [copies EXCEPT ![r] = fence]
  /\ handler' = [h \in Handler |->
       IF handler[h].pc = "wait"
       THEN [pc |-> "wait", grant |-> handler[h].grant, acked |-> handler[h].acked \cup {r}]
       ELSE handler[h]]
  /\ UNCHANGED <<fence, lease, writer, granted, demoted, failovers>>

(* Sentinel promotes a replica; connections to the old master break, so     *)
(* every claim that waits on one becomes uncertain.                         *)
Failover(r) ==
  /\ failovers < MaxFailovers
  /\ failovers' = failovers + 1
  /\ fence' = copies[r]
  /\ handler' = [h \in Handler |-> IF handler[h].pc = "wait" THEN Idle ELSE handler[h]]
  /\ UNCHANGED <<copies, lease, writer, granted, demoted>>

(* A node restarts: its lease and its calls were in memory.                 *)
NodeCrash(n) ==
  /\ lease[n] # None
  /\ lease' = [lease EXCEPT ![n] = None]
  /\ handler' = [h \in Handler |->
       IF handler[h] # Idle /\ handler[h].grant.node = n THEN Idle ELSE handler[h]]
  /\ writer' = [w \in Writer |->
       IF \/ writer[w].pc \in {"reading", "read"} /\ writer[w].node = n
          \/ writer[w].pc = "writing" /\ writer[w].grant.node = n
       THEN Idle ELSE writer[w]]
  /\ UNCHANGED <<fence, copies, granted, demoted, failovers>>

FenceNext ==
  \/ \E h \in Handler :
       \/ \E g \in Grant : activate(h, g)
       \/ claim(h) \/ waitAcked(h) \/ activated(h)
       \/ \E n \in Node : demote(h, n)
       \/ release(h) \/ released(h)
       \/ CommandThrows(h)
  \/ \E w \in Writer :
       \/ \E n \in Node : isWritable(w, n)
       \/ current(w) \/ writeAllowed(w) \/ writeDenied(w) \/ innerWrite(w)
  \/ \E r \in Replica : Replicate(r) \/ Failover(r)
  \/ \E n \in Node : NodeCrash(n)

FenceSpec == FenceInit /\ [][FenceNext]_fenceVars

-----------------------------------------------------------------------------
(* No grant that activate confirmed is lost with a Redis master: whichever  *)
(* replica is promoted, the stored epoch never falls below it (the comment  *)
(* on FenceDurabilityPolicy, redis-fencing-store.ts:58-61).                 *)
GrantsDurable == \A g \in granted : g.epoch <= fence.grant.epoch

(* Two nodes are never granted the same epoch, retries, lost replies and    *)
(* failovers of the authority included.                                     *)
OneGrantPerEpoch == \A g, h \in granted : g.epoch = h.epoch => g = h

(* Activating a node fences out the previous writer: a mutation whose check *)
(* began after a grant was confirmed goes through only under that grant or  *)
(* a later one, and never under a grant whose demotion was confirmed.       *)
NoStaleWriter ==
  \A w \in Writer : writer[w].pc = "writing" =>
    /\ \A g \in writer[w].floor : g.epoch <= writer[w].grant.epoch
    /\ writer[w].grant \notin writer[w].out

(***************************************************************************)
(* The inductive invariant, when WAIT asks for every replica.  A claim in  *)
(* progress has an epoch of its own; what is confirmed, or about to be, is *)
(* on the master and on every replica; a lease is a confirmed grant of its *)
(* node that was not demoted.                                              *)
(***************************************************************************)
Claiming(h) == handler[h].pc \in {"wait", "claimed"}

EpochsOwned ==
  /\ \A h \in Handler : Claiming(h) =>
       /\ \A g \in granted : g.epoch # handler[h].grant.epoch
       /\ \A k \in Handler : Claiming(k) /\ k # h
            => handler[k].grant.epoch # handler[h].grant.epoch
  /\ OneGrantPerEpoch

ClaimsStored ==
  /\ GrantsDurable
  /\ \A g \in granted, r \in Replica : g.epoch <= copies[r].grant.epoch
  /\ \A h \in Handler : Claiming(h) => handler[h].grant.epoch <= fence.grant.epoch
  /\ \A h \in Handler, r \in Replica :
       (handler[h].pc = "claimed" \/ (handler[h].pc = "wait" /\ r \in handler[h].acked))
         => handler[h].grant.epoch <= copies[r].grant.epoch

LeasesConfirmed ==
  /\ \A n \in Node : lease[n] # None =>
       lease[n] \in granted /\ lease[n] \notin demoted /\ lease[n].node = n
  /\ \A h \in Handler : handler[h].pc \in {"release", "released"}
       => handler[h].grant \in granted
  /\ demoted \subseteq granted

ChecksCovered ==
  \A w \in Writer : writer[w].pc # "idle" =>
    /\ writer[w].floor \subseteq granted
    /\ writer[w].out \subseteq demoted
    /\ writer[w].pc = "read" =>
         \A g \in writer[w].floor : g.epoch <= writer[w].seen.grant.epoch

(* The inductive invariant of the writer fence: GrantsDurable,              *)
(* OneGrantPerEpoch and NoStaleWriter with what commands in progress, the   *)
(* replicas and the checks in progress must satisfy for them to last.       *)
FenceInv ==
  /\ EpochsOwned
  /\ ClaimsStored
  /\ LeasesConfirmed
  /\ ChecksCovered
  /\ NoStaleWriter
=============================================================================
