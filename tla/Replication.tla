----------------------------- MODULE Replication -----------------------------
(***************************************************************************)
(* Write mirroring from a primary to a replica:                            *)
(* packages/server/src/replicating-tumbler-store.ts (source) and           *)
(* packages/server/src/replica-receiver.ts (receiver), each over a         *)
(* MemoryTumblerStore without TTL.                                         *)
(*                                                                         *)
(* Every mutation writes the primary first and enqueues its mirror after   *)
(* one or more awaits; ingest, too, awaits the unsealer and its store.     *)
(* Nothing serialises two mutations, or two ingests of which one is the    *)
(* retry of a push that timed out.                                         *)
(*                                                                         *)
(* Hashes and signatures are ideal and there is one stream epoch: the head *)
(* hash of sequence n stands for the first n mutations of log, so the      *)
(* hash_chain_mismatch exits are unreachable.  Secrets are sealed and the  *)
(* receiver has an unsealer (otherwise validationReady keeps it from       *)
(* promotion); the durability hooks answer true.  draining is true exactly *)
(* when the queue is not empty.                                            *)
(***************************************************************************)
EXTENDS TumblerMap, Sequences

CONSTANTS
  ClientId,        \* client ids
  Calls,           \* concurrent mutations of the primary
  Ingests,         \* concurrent ingest calls at the replica
  MaxEntries,      \* maxEntries of the primary's store
  ReplicaEntries,  \* maxEntries of the replica's store
  MaxQueue,        \* options.maxQueue
  MaxOps,          \* bound of the model: mutations after which no call starts
  NoMap            \* "no entry for this client"

ASSUME MirrorAssumption ==
  /\ MaxEntries \in Nat \ {0}
  /\ ReplicaEntries \in Nat \ {0}
  /\ MaxQueue \in Nat \ {0}
  /\ MaxOps \in Nat
  /\ NoMap \notin Map

VARIABLES
  primary,         \* the primary's store
  issued,          \* client ids used so far
  call,            \* the progress of each mutation
  log,             \* the source's hash chain: every mutation given a sequence
  queue,           \* the sequences waiting for delivery
  lost,            \* ReplicatingTumblerStore.integrityLost
  dropped,         \* history: sequences the full queue turned away
  replica,         \* the replica's store
  ckpt,            \* TumblerReplicaReceiver.checkpoint.sequence
  rlost,           \* TumblerReplicaReceiver.integrityLost
  ingest,          \* the progress of each ingest, and whether push waits for it
  applied          \* history: sequences applied to the replica's store

sourceVars   == <<primary, issued, call, log, queue, lost, dropped>>
receiverVars == <<replica, ckpt, rlost, ingest, applied>>
mirrorVars   == <<sourceVars, receiverVars>>

Idle  == [pc |-> "idle"]
Store == [ClientId -> Map \cup {NoMap}]
Updates == UNION {[S -> Counter] : S \in SUBSET Seg}

Mutation ==
       [op : {"set"}, client : ClientId, map : Map]
  \cup [op : {"delete"}, client : ClientId]
  \cup [op : {"updateCounters"}, client : ClientId, updates : Updates]
  \cup [op : {"consumeCounter"}, client : ClientId, seg : Seg, matched : Usable]

CallState == {Idle}
  \cup [pc : {"reread"}, rest : Seq(ClientId) \ {<< >>}]
  \cup [pc : {"enqueue"}, mut : Mutation, rest : Seq(ClientId)]

IngestState == {Idle}
  \cup [pc : {"wire", "unseal", "applied", "answer"}, seq : Nat, waited : BOOLEAN]
  \cup [pc : {"got"}, seq : Nat, waited : BOOLEAN, current : Map \cup {NoMap}]

(* Representation of both ends: one type invariant for the module.          *)
MirrorTypeOK ==
  /\ primary \in Store /\ replica \in Store
  /\ issued \subseteq ClientId
  /\ call \in [Calls -> CallState]
  /\ log \in Seq(Mutation)
  /\ queue \in Seq(DOMAIN log)
  /\ lost \in BOOLEAN /\ rlost \in BOOLEAN
  /\ dropped \subseteq DOMAIN log
  /\ ckpt \in 0..Len(log)
  /\ ingest \in [Ingests -> IngestState]
  /\ \A i \in Ingests : ingest[i] # Idle => ingest[i].seq \in DOMAIN log
  /\ applied \subseteq DOMAIN log

MirrorInit ==
  /\ primary = [c \in ClientId |-> NoMap]
  /\ issued = {}
  /\ call = [k \in Calls |-> Idle]
  /\ log = << >>
  /\ queue = << >>
  /\ lost = FALSE
  /\ dropped = {}
  /\ replica = [c \in ClientId |-> NoMap]
  /\ ckpt = 0
  /\ rlost = FALSE
  /\ ingest = [i \in Ingests |-> Idle]
  /\ applied = {}

-----------------------------------------------------------------------------
(* The store operations the two ends use, on a store st of capacity n.      *)

Held(st) == {c \in ClientId : st[c] # NoMap}
CanSet(st, n, c, m) ==
  /\ st[c] # NoMap \/ Cardinality(Held(st)) < n
  /\ CounterStateOk(m)

(* updateCounters: no counter may fall, then the status is reconciled.      *)
UpdateOk(m, ups) == \A s \in DOMAIN ups : ups[s] >= m.ctr[s]
Updated(m, ups) ==
  Reconciled([m EXCEPT !.ctr =
    [s \in Seg |-> IF s \in DOMAIN ups THEN ups[s] ELSE m.ctr[s]]])

(* consumeCounter: a refusal still expires an exhausted map.                *)
ConsumeOk(m, s, n) == m.ctr[s] < MaxCounter /\ n \in Usable /\ m.ctr[s] <= n
Consumed(m, s, n) ==
  IF ConsumeOk(m, s, n) THEN Reconciled([m EXCEPT !.ctr[s] = n + 1])
  ELSE IF m.ctr[s] = MaxCounter THEN [m EXCEPT !.status = "expired"] ELSE m

-----------------------------------------------------------------------------
(* ReplicatingTumblerStore: each operation writes the primary ...           *)

Start(k) == call[k] = Idle /\ Len(log) < MaxOps
Mirror(k, mut) == call' = [call EXCEPT ![k] =
                             [pc |-> "enqueue", mut |-> mut, rest |-> << >>]]
Reread(k, cs) == call' = [call EXCEPT ![k] = [pc |-> "reread", rest |-> cs]]

(* The maps callers set: a fresh credential, or a copy the caller read      *)
(* before an await, as it is or with a terminal status.  The copies are     *)
(* the stored map and, the stalest, the credential as it was issued.        *)
Copies(c) ==
  IF primary[c] = NoMap THEN {NewMap(lc, 0) : lc \in Lifecycle}
  ELSE {primary[c], NewMap(primary[c].limits, 0)}
SetInput(c) ==
  IF c \notin issued THEN {NewMap(lc, 0) : lc \in Lifecycle}
  ELSE UNION {{[m EXCEPT !.status = st] : st \in Terminal \cup {m.status}} :
                m \in {x \in Copies(c) : x.status \notin Terminal}}

set(k, c, m) ==
  /\ Start(k)
  /\ CanSet(primary, MaxEntries, c, m)
  /\ primary' = [primary EXCEPT ![c] = m]
  /\ issued' = issued \cup {c}
  /\ Mirror(k, [op |-> "set", client |-> c, map |-> m])
  /\ UNCHANGED <<log, queue, lost, dropped, receiverVars>>

(* A mutant: the deletion is not mirrored.                                  *)
deleteUnmirrored(k, c) ==
  /\ Start(k)
  /\ primary' = [primary EXCEPT ![c] = NoMap]
  /\ UNCHANGED <<call, issued, log, queue, lost, dropped, receiverVars>>

delete(k, c) ==
  /\ Start(k)
  /\ primary' = [primary EXCEPT ![c] = NoMap]
  /\ Mirror(k, [op |-> "delete", client |-> c])
  /\ UNCHANGED <<issued, log, queue, lost, dropped, receiverVars>>

(* A missing client is not an error and is mirrored all the same.           *)
updateCounters(k, c, ups) ==
  /\ Start(k)
  /\ primary[c] # NoMap => UpdateOk(primary[c], ups)
  /\ primary' = IF primary[c] = NoMap THEN primary
                ELSE [primary EXCEPT ![c] = Updated(@, ups)]
  /\ Mirror(k, [op |-> "updateCounters", client |-> c, updates |-> ups])
  /\ UNCHANGED <<issued, log, queue, lost, dropped, receiverVars>>

(* Only a successful consumption is mirrored.                               *)
consumeCounter(k, c, s, n) ==
  /\ Start(k)
  /\ primary[c] # NoMap
  /\ primary' = [primary EXCEPT ![c] = Consumed(@, s, n)]
  /\ IF ConsumeOk(primary[c], s, n)
     THEN Mirror(k, [op |-> "consumeCounter", client |-> c, seg |-> s, matched |-> n])
     ELSE UNCHANGED call
  /\ UNCHANGED <<issued, log, queue, lost, dropped, receiverVars>>

(* Accepted or not, the entry is read again and mirrored.                   *)
commitValidation(k, c, v) ==
  /\ Start(k)
  /\ primary[c] # NoMap
  /\ primary' = [primary EXCEPT ![c] = commitValidationToMap(@, v, 0)]
  /\ Reread(k, <<c>>)
  /\ UNCHANGED <<issued, log, queue, lost, dropped, receiverVars>>

replaceCredential(k, old, new, lc) ==
  /\ Start(k)
  /\ primary[old] # NoMap /\ primary[old].status \notin Terminal
  /\ new \notin issued
  /\ primary' = [primary EXCEPT
       ![old] = IF Cardinality(Held(primary)) >= MaxEntries THEN NoMap
                ELSE [@ EXCEPT !.status = "revoked"],
       ![new] = NewMap(lc, 0)]
  /\ issued' = issued \cup {new}
  /\ Reread(k, <<old, new>>)
  /\ UNCHANGED <<log, queue, lost, dropped, receiverVars>>

(* ... then primary.get, where the mutation is mirrored as a 'set' of what  *)
(* is stored now; a missing entry is skipped ...                            *)
reread(k) ==
  LET c == Head(call[k].rest)
      r == Tail(call[k].rest)
  IN
  /\ call[k].pc = "reread"
  /\ call' = [call EXCEPT ![k] =
       IF primary[c] # NoMap
       THEN [pc |-> "enqueue", rest |-> r,
             mut |-> [op |-> "set", client |-> c, map |-> primary[c]]]
       ELSE IF r = << >> THEN Idle ELSE [pc |-> "reread", rest |-> r]]
  /\ UNCHANGED <<primary, issued, log, queue, lost, dropped, receiverVars>>

(* ... and, after sealMap, enqueueMutation: the next sequence of the chain, *)
(* queued unless the queue is full.                                         *)
enqueueMutation(k) ==
  LET n == Len(log) + 1 IN
  /\ call[k].pc = "enqueue"
  /\ log' = Append(log, call[k].mut)
  /\ IF Len(queue) >= MaxQueue
     THEN /\ lost' = TRUE /\ dropped' = dropped \cup {n}
          /\ UNCHANGED queue
     ELSE /\ queue' = Append(queue, n)
          /\ UNCHANGED <<lost, dropped>>
  /\ call' = [call EXCEPT ![k] = IF @.rest = << >> THEN Idle
                                 ELSE [pc |-> "reread", rest |-> @.rest]]
  /\ UNCHANGED <<primary, issued, receiverVars>>

-----------------------------------------------------------------------------
(* drain and push: the head of the queue until it is accepted.              *)

Waiting == \E i \in Ingests : ingest[i] # Idle /\ ingest[i].waited

push(i) ==
  /\ queue # << >>
  /\ ~Waiting
  /\ ingest[i] = Idle
  /\ ingest' = [ingest EXCEPT ![i] = [pc |-> "wire", seq |-> Head(queue), waited |-> TRUE]]
  /\ UNCHANGED <<sourceVars, replica, ckpt, rlost, applied>>

(* The 200 arrives and exactly the operation that was pushed is removed; a  *)
(* different head would cost the stream its integrity.  Nobody reads the    *)
(* answer to a push that gave up.                                           *)
AtHead(n) == queue # << >> /\ Head(queue) = n
ack(i) ==
  LET n == ingest[i].seq
      w == ingest[i].waited
  IN
  /\ ingest[i].pc = "answer"
  /\ queue' = IF w /\ AtHead(n) THEN Tail(queue) ELSE queue
  /\ lost' = (lost \/ (w /\ ~AtHead(n)))
  /\ ingest' = [ingest EXCEPT ![i] = Idle]
  /\ UNCHANGED <<primary, issued, call, log, dropped, replica, ckpt, rlost, applied>>

(* The request is lost, or is so late that the receiver finds it stale.     *)
LoseRequest(i) ==
  /\ ingest[i].pc = "wire"
  /\ ingest' = [ingest EXCEPT ![i] = Idle]
  /\ UNCHANGED <<sourceVars, replica, ckpt, rlost, applied>>

(* push times out or its connection breaks; the ingest goes on.             *)
GiveUp(i) ==
  /\ ingest[i] # Idle /\ ingest[i].waited
  /\ ingest' = [ingest EXCEPT ![i].waited = FALSE]
  /\ UNCHANGED <<sourceVars, replica, ckpt, rlost, applied>>

-----------------------------------------------------------------------------
(* TumblerReplicaReceiver.ingest *)

Mut(i) == log[ingest[i].seq]
To(i, pc) == ingest' = [ingest EXCEPT ![i] =
               [pc |-> pc, seq |-> @.seq, waited |-> @.waited]]
Got(i, m) == ingest' = [ingest EXCEPT ![i] =
               [pc |-> "got", seq |-> @.seq, waited |-> @.waited, current |-> m]]
Refuse(i) == ingest' = [ingest EXCEPT ![i] = Idle]

(* A mutant: any sequence the receiver has not passed is accepted.          *)
NextSequenceAhead(i) == ingest[i].seq > ckpt

(* expectedSequence *)
NextSequence(i) == ingest[i].seq = ckpt + 1

(* envelope_replay, or sequence_gap with its integrity latch.               *)
outOfOrder(i) ==
  /\ ingest[i].pc = "wire"
  /\ ~NextSequence(i)
  /\ rlost' = (rlost \/ ingest[i].seq > ckpt + 1)
  /\ Refuse(i)
  /\ UNCHANGED <<sourceVars, replica, ckpt, applied>>

(* 'set': the sealed secret goes to the unsealer ...                        *)
ingestSet(i) ==
  /\ ingest[i].pc = "wire" /\ NextSequence(i) /\ Mut(i).op = "set"
  /\ To(i, "unseal")
  /\ UNCHANGED <<sourceVars, replica, ckpt, rlost, applied>>

unsealFails(i) ==
  /\ ingest[i].pc = "unseal"
  /\ rlost' = TRUE
  /\ Refuse(i)
  /\ UNCHANGED <<sourceVars, replica, ckpt, applied>>

(* ... then applyTumblerOp reads the stored map ...                         *)
unsealed(i) ==
  /\ ingest[i].pc = "unseal"
  /\ Got(i, replica[Mut(i).client])
  /\ UNCHANGED <<sourceVars, replica, ckpt, rlost, applied>>

(* A mutant: applyTumblerOp without its rollback checks.                    *)
NotRolledBackUnchecked(current, m) == TRUE

(* ... checks the new map against what it read and stores it.               *)
NotRolledBack(current, m) ==
  /\ current.status \in Terminal => m.status \in Terminal
  /\ m.requestCount >= current.requestCount
  /\ \A s \in Seg : m.ctr[s] >= current.ctr[s]
applySet(i) ==
  LET m == Mut(i).map
      c == Mut(i).client
      x == ingest[i].current
  IN
  /\ ingest[i].pc = "got" /\ Mut(i).op = "set"
  /\ IF (x # NoMap => NotRolledBack(x, m)) /\ CanSet(replica, ReplicaEntries, c, m)
     THEN /\ replica' = [replica EXCEPT ![c] = m]
          /\ applied' = applied \cup {ingest[i].seq}
          /\ To(i, "applied")
          /\ UNCHANGED rlost
     ELSE /\ rlost' = TRUE
          /\ Refuse(i)
          /\ UNCHANGED <<replica, applied>>
  /\ UNCHANGED <<sourceVars, ckpt>>

ingestDelete(i) ==
  /\ ingest[i].pc = "wire" /\ NextSequence(i) /\ Mut(i).op = "delete"
  /\ replica' = [replica EXCEPT ![Mut(i).client] = NoMap]
  /\ applied' = applied \cup {ingest[i].seq}
  /\ To(i, "applied")
  /\ UNCHANGED <<sourceVars, ckpt, rlost>>

ingestUpdate(i) ==
  /\ ingest[i].pc = "wire" /\ NextSequence(i) /\ Mut(i).op = "updateCounters"
  /\ Got(i, replica[Mut(i).client])
  /\ UNCHANGED <<sourceVars, replica, ckpt, rlost, applied>>

(* The counters are checked against the copy, and again by the store, for   *)
(* which a client deleted meanwhile is no error.                            *)
applyUpdate(i) ==
  LET ups == Mut(i).updates
      c   == Mut(i).client
      x   == ingest[i].current
  IN
  /\ ingest[i].pc = "got" /\ Mut(i).op = "updateCounters"
  /\ IF /\ x # NoMap /\ UpdateOk(x, ups)
        /\ replica[c] # NoMap => UpdateOk(replica[c], ups)
     THEN /\ replica' = IF replica[c] = NoMap THEN replica
                        ELSE [replica EXCEPT ![c] = Updated(@, ups)]
          /\ applied' = applied \cup {ingest[i].seq}
          /\ To(i, "applied")
          /\ UNCHANGED rlost
     ELSE /\ rlost' = TRUE
          /\ Refuse(i)
          /\ UNCHANGED <<replica, applied>>
  /\ UNCHANGED <<sourceVars, ckpt>>

ingestConsume(i) ==
  LET c == Mut(i).client
      s == Mut(i).seg
      n == Mut(i).matched
  IN
  /\ ingest[i].pc = "wire" /\ NextSequence(i) /\ Mut(i).op = "consumeCounter"
  /\ replica' = IF replica[c] = NoMap THEN replica
                ELSE [replica EXCEPT ![c] = Consumed(@, s, n)]
  /\ IF replica[c] # NoMap /\ ConsumeOk(replica[c], s, n)
     THEN applied' = applied \cup {ingest[i].seq} /\ To(i, "applied") /\ UNCHANGED rlost
     ELSE rlost' = TRUE /\ Refuse(i) /\ UNCHANGED applied
  /\ UNCHANGED <<sourceVars, ckpt>>

(* A mutant: the checkpoint is counted up instead of set to the operation.  *)
advanceByOne(i) ==
  /\ ingest[i].pc = "applied"
  /\ ckpt < Len(log)
  /\ ckpt' = ckpt + 1
  /\ To(i, "answer")
  /\ UNCHANGED <<sourceVars, replica, rlost, applied>>

(* The continuation of ingest: the checkpoint becomes this operation's,     *)
(* whatever it is now.                                                      *)
advance(i) ==
  /\ ingest[i].pc = "applied"
  /\ ckpt' = ingest[i].seq
  /\ To(i, "answer")
  /\ UNCHANGED <<sourceVars, replica, rlost, applied>>

-----------------------------------------------------------------------------
Mutate(k) ==
  \/ \E c \in ClientId :
       \/ \E m \in SetInput(c) : set(k, c, m)
       \/ c \in issued /\ delete(k, c)
       \/ \E ups \in Updates : ups # << >> /\ c \in issued /\ updateCounters(k, c, ups)
       \/ \E s \in Seg, n \in Usable : consumeCounter(k, c, s, n)
       \/ \E v \in Vector : commitValidation(k, c, v)
       \/ \E new \in ClientId, lc \in Lifecycle : replaceCredential(k, c, new, lc)

Continue(k) == reread(k) \/ enqueueMutation(k)

Ingest(i) ==
  \/ push(i) \/ ack(i) \/ outOfOrder(i)
  \/ ingestSet(i) \/ unsealed(i) \/ applySet(i)
  \/ ingestDelete(i) \/ ingestUpdate(i) \/ applyUpdate(i) \/ ingestConsume(i)
  \/ advance(i)

MirrorNext ==
  \/ \E k \in Calls : Mutate(k) \/ Continue(k)
  \/ \E i \in Ingests : Ingest(i) \/ unsealFails(i) \/ LoseRequest(i) \/ GiveUp(i)

MirrorSpec == MirrorInit /\ [][MirrorNext]_mirrorVars

-----------------------------------------------------------------------------
(* promotionCheckpoint() of both ends, and the comparison activate makes.   *)
Promotable ==
  /\ ~lost /\ queue = << >>
  /\ ~rlost /\ ckpt >= 1
  /\ ckpt = Len(log)

(* Two stored maps are the same credential; the two terminal statuses       *)
(* refuse alike.                                                            *)
SameCredential(m, n) ==
  \/ m = NoMap /\ n = NoMap
  \/ /\ m # NoMap /\ n # NoMap
     /\ m.ctr = n.ctr /\ m.requestCount = n.requestCount /\ m.limits = n.limits
     /\ m.status = n.status \/ {m.status, n.status} \subseteq Terminal

(* Ordered mirroring: when a promotion would be allowed and no mutation is  *)
(* in progress, the replica holds the primary's credentials.                *)
MirrorsPrimary ==
  (Promotable /\ \A k \in Calls : call[k] = Idle)
    => \A c \in ClientId : SameCredential(primary[c], replica[c])

(* A lost mutation is never passed over: whatever is retried, duplicated or *)
(* late, nothing at or after a sequence the full queue dropped is applied.  *)
NeverPastALoss == \A d \in dropped, s \in applied : s < d

(* The checkpoint never claims more than was applied: overlapping ingests   *)
(* may move it back, but every sequence up to it is in the replica's store. *)
CheckpointApplied == 1..ckpt \subseteq applied

(* "Apply a validated mutation while rejecting lifecycle/counter rollback"  *)
(* (replica-receiver.ts:182): no step lowers a counter or a use count of a  *)
(* replica's map or makes a terminal one live.                              *)
ReplicaNoRollback ==
  [][\A c \in ClientId : (replica[c] # NoMap /\ replica'[c] # NoMap)
        => /\ replica[c].status \in Terminal => replica'[c].status \in Terminal
           /\ replica'[c].requestCount >= replica[c].requestCount
           /\ \A s \in Seg : replica'[c].ctr[s] >= replica[c].ctr[s]]_mirrorVars

(***************************************************************************)
(* The inductive invariant.  What is queued or in flight was not dropped,  *)
(* and the operation push waits for is still the head of the queue; an     *)
(* ingest past its sequence check finds everything before it applied.      *)
(***************************************************************************)
Passed(i) == ingest[i].pc \in {"unseal", "got", "applied", "answer"}

QueueSound ==
  /\ \A q \in DOMAIN queue : queue[q] \notin dropped
  /\ \A i \in Ingests : ingest[i] # Idle =>
       /\ ingest[i].seq \notin dropped
       /\ ingest[i].waited => AtHead(ingest[i].seq)
  /\ \A i, j \in Ingests :
       (ingest[i] # Idle /\ ingest[j] # Idle /\ ingest[i].waited /\ ingest[j].waited) => i = j

IngestSound ==
  /\ \A i \in Ingests : Passed(i) => 1..(ingest[i].seq - 1) \subseteq applied
  /\ \A i \in Ingests : ingest[i].pc \in {"applied", "answer"} => ingest[i].seq \in applied

GapFree == \A s \in applied : 1..s \subseteq applied

(* The inductive invariant of the stream: a gap-free prefix of the source's *)
(* chain is applied, free of every dropped operation, however calls, pushes *)
(* and ingests interleave.                                                  *)
MirrorInv ==
  /\ QueueSound
  /\ IngestSound
  /\ GapFree
  /\ dropped \cap applied = {}
  /\ CheckpointApplied

(***************************************************************************)
(* Why the replica mirrors the primary when mutations and ingests do not   *)
(* overlap.  The chain has one history of stores, h: h[n + 1] is h[n]      *)
(* after mutation n.  The primary is the last of them up to the mutation   *)
(* in progress, the replica the one its checkpoint has reached.            *)
(***************************************************************************)
Outcome(st, mut) ==
  LET m == st[mut.client] IN
  CASE mut.op = "set"    -> mut.map
    [] mut.op = "delete" -> NoMap
    [] mut.op = "updateCounters" -> IF m = NoMap THEN NoMap ELSE Updated(m, mut.updates)
    [] mut.op = "consumeCounter" -> IF m = NoMap THEN NoMap
                                    ELSE Consumed(m, mut.seg, mut.matched)
After(st, mut) == [st EXCEPT ![mut.client] = Outcome(st, mut)]

HistoryOf(h) ==
  /\ h \in Seq(Store) /\ Len(h) = Len(log) + 1
  /\ h[1] = [c \in ClientId |-> NoMap]
  /\ \A n \in DOMAIN log : h[n + 1] = After(h[n], log[n])

SameOn(C, a, b) == \A c \in C : SameCredential(a[c], b[c])

(* A client that a replica holding st has no room for: what a replacement  *)
(* at capacity mirrors, the old credential gone without a word.            *)
Full(st, c) == st[c] = NoMap /\ ~(Cardinality(Held(st)) < ReplicaEntries)
Unwelcome(h, n) == log[n].op = "set" /\ Full(h[n], log[n].client)

(* What a mutation in progress still owes the stream, whose last store is  *)
(* st.                                                                     *)
Owed(k, st) ==
  \/ call[k].pc = "idle" /\ SameOn(ClientId, primary, st)
  \/ /\ call[k].pc = "enqueue"
     /\ \/ call[k].rest = << >> /\ SameOn(ClientId, primary, After(st, call[k].mut))
        \/ call[k].rest = << >> /\ call[k].mut.op = "set" /\ Full(st, call[k].mut.client)
        \/ \E new \in ClientId :
             /\ call[k].rest = <<new>> /\ primary[new] # NoMap
             /\ SameOn(ClientId \ {new}, primary, After(st, call[k].mut))
             /\ call[k].mut.client # new
  \/ /\ call[k].pc = "reread"
     /\ \/ \E c \in ClientId :
             /\ call[k].rest = <<c>> /\ primary[c] # NoMap
             /\ Full(st, c) \/ SameOn(ClientId \ {c}, primary, st)
        \/ \E old, new \in ClientId :
             /\ call[k].rest = <<old, new>> /\ old # new /\ primary[new] # NoMap
             /\ \/ primary[old] = NoMap /\ Full(st, new)
                \/ primary[old] # NoMap /\ SameOn(ClientId \ {old, new}, primary, st)

SourceFollows(h) ==
  \/ \E n \in DOMAIN log : Unwelcome(h, n)
  \/ \A k \in Calls : Owed(k, h[Len(log) + 1])

PrimarySound ==
  /\ Held(primary) \subseteq issued /\ IsFiniteSet(issued)
  /\ \A c \in ClientId : primary[c] # NoMap => CounterStateOk(primary[c])

(* One ingest at a time: what it checked still stands when it writes.      *)
IngestCurrent ==
  /\ \A i \in Ingests : ingest[i].pc \in {"unseal", "got", "applied"} => ingest[i].seq = ckpt + 1
  /\ \A i \in Ingests : ingest[i].pc = "got" => ingest[i].current = replica[Mut(i).client]

Reached == IF \E i \in Ingests : ingest[i].pc = "applied" THEN ckpt + 1 ELSE ckpt

ReplicaFollows(h) ==
  ~rlost => /\ SameOn(ClientId, replica, h[Reached + 1])
            /\ \A n \in 1..Reached : ~Unwelcome(h, n)

SerialInv ==
  /\ PrimarySound /\ IngestCurrent
  /\ \E h \in Seq(Store) : HistoryOf(h) /\ SourceFollows(h) /\ ReplicaFollows(h)
=============================================================================
