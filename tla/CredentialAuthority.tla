------------------------ MODULE CredentialAuthority ------------------------
(***************************************************************************)
(* The PostgreSQL credential authority and its mirror:                     *)
(* packages/server/src/ha-tumbler-map-store.ts (PgHaTumblerMapStore,       *)
(* PgTskCredentialReceiverCheckpoint and the SQL functions they call).     *)
(*                                                                         *)
(* A mutation is one SERIALIZABLE transaction that writes the credential   *)
(* and appends the signed snapshot of it to the outbox.  Its body holds    *)
(* the rows of the lease and of the fence locked, so no other mutation and *)
(* no lease grant gets in before its COMMIT; what does happen meanwhile is *)
(* that the lease runs out or that the role's privileges drift, and the    *)
(* onBeforeCommit hook asserts both again.  A refused or no-op mutation    *)
(* changes nothing.  Mutation tickets carry a fresh nonce and their own    *)
(* transaction id, so a genuine one is refused only when the nonce table   *)
(* is full.                                                                *)
(*                                                                         *)
(* createdAt names the generated credential and with it its sharedSecret.  *)
(* Snapshots travel over the outbox of HotpOutbox: any row may arrive at   *)
(* any time, again or late.                                                *)
(***************************************************************************)
EXTENDS TumblerMap, Sequences

CONSTANTS
  ClientId,      \* client ids
  Editor,        \* callers that read a map and write it back later
  NoMap,         \* "no row for this client"
  MaxRevision,   \* largest revision (2147483647)
  MaxPending,    \* options.maxPendingRows
  UsedAtSkew,          \* how far usedAt of one request may lie behind another's
  MaxRows,       \* bound of the model: outbox rows
  MaxIssued,     \* bound of the model: generated credentials
  MaxGrants,     \* bound of the model: lease grants
  MaxFence,      \* bound of the model: fence tokens
  MaxTime        \* bound of the model: the clock

ASSUME AuthorityAssumption ==
  /\ {MaxRevision, MaxPending, MaxGrants, MaxFence} \subseteq Nat \ {0}
  /\ {UsedAtSkew, MaxRows, MaxIssued, MaxTime} \subseteq Nat

VARIABLES
  maps,       \* tsk_credential_maps
  rows,       \* tsk_outbox_rows of the stream
  acked,      \* how many rows the publisher has settled
  past,       \* history: maps after each row, from the empty table
  lease,      \* the source lease: its grant, status and whether it ran out
  bound,      \* the grant the store object was constructed with
  fence,      \* tsk_outbox_fence at the source
  boundary,   \* assertRuntimeBoundaryInTx would pass
  tx,         \* the open mutation
  copy,       \* the map each editor has read
  issued,     \* credentials generated so far
  time,       \* the latest time a request was stamped with
  replica     \* the receiver: its maps, rows applied and fence

authorityVars == <<maps, rows, acked, past, lease, bound, fence, boundary, tx, copy,
                   issued, time, replica>>

Stored   == [map : Map, used : Nat, rev : 1..MaxRevision]
Table    == [ClientId -> Stored \cup {NoMap}]
Kind     == {"snapshot", "delete", "replace"}
Effects  == UNION {[S -> Stored \cup {NoMap}] : S \in SUBSET ClientId}
Mutation == [kind : Kind, rev : 1..MaxRevision, effects : Effects, fence : 1..MaxFence]
NoTx     == [kind |-> "none"]

(* Representation of both databases.                                       *)
AuthorityTypeOK ==
  /\ \A c \in ClientId : \A m \in {maps[c], replica.maps[c]} \ {NoMap} :
       m.map \in Map /\ CounterStateOk(m.map) /\ m.rev \in 1..MaxRevision
  /\ acked \in 0..Len(rows)
  /\ Len(rows) - acked <= MaxPending
  /\ replica.applied \in 0..Len(rows)
  /\ lease.grant \in 1..MaxGrants /\ bound \in 1..lease.grant

AuthorityInit ==
  /\ maps = [c \in ClientId |-> NoMap]
  /\ rows = << >> /\ acked = 0
  /\ past = <<maps>>
  /\ lease = [grant |-> 1, status |-> "active", over |-> FALSE]
  /\ bound = 1 /\ fence = 1 /\ boundary = TRUE
  /\ tx = NoTx
  /\ copy = [e \in Editor |-> NoMap]
  /\ issued = 0 /\ time = 0
  /\ replica = [maps |-> maps, applied |-> 0, fence |-> 1]

-----------------------------------------------------------------------------
(* What every mutation asserts.                                            *)

(* tsk_prepare_credential_append: the store's own grant is the head of the *)
(* lease history, active and in time, and the queue has room.              *)
Prepared(max) ==
  /\ lease.status = "active" /\ ~lease.over /\ bound = lease.grant
  /\ Len(rows) - acked < max

Rank == [active |-> 0, expiring |-> 1, expired |-> 2, revoked |-> 2]

(* assertMonotonicMap: of the map, and of lastUsedAt.                      *)
Forward(cur, next) ==
  /\ next.createdAt = cur.createdAt
  /\ \A s \in Seg : next.ctr[s] >= cur.ctr[s]
  /\ next.requestCount >= cur.requestCount
  /\ Rank[next.status] >= Rank[cur.status]
  /\ cur.status \in Terminal => next.status = cur.status

Monotonic(cur, next) == Forward(cur.map, next.map) /\ next.used >= cur.used

Row(kind, rev, effects) == [kind |-> kind, rev |-> rev, effects |-> effects, fence |-> fence]

(* appendAndApply up to the COMMIT: sign the head, insert the row, advance *)
(* the checkpoint and write the maps.                                      *)
appendAndApply(kind, rev, effects) ==
  /\ tx = NoTx /\ boundary
  /\ Prepared(MaxPending)
  /\ Len(rows) < MaxRows
  /\ rev <= MaxRevision
  /\ tx' = Row(kind, rev, effects)
  /\ UNCHANGED <<maps, rows, acked, past, lease, bound, fence, boundary, replica>>

persist(c, m, used, rev) ==
  /\ CounterStateOk(m)
  /\ appendAndApply("snapshot", rev, [x \in {c} |-> [map |-> m, used |-> used, rev |-> rev]])

Applied(table, effects) == [c \in ClientId |-> IF c \in DOMAIN effects THEN effects[c] ELSE table[c]]

(* As a bug: the lease and the role are not asserted again before COMMIT.  *)
commitTx_NoRecheck ==
  /\ tx # NoTx
  /\ rows' = Append(rows, tx)
  /\ maps' = Applied(maps, tx.effects)
  /\ past' = Append(past, maps')
  /\ tx' = NoTx
  /\ UNCHANGED <<acked, lease, bound, fence, boundary, copy, issued, time, replica>>

commitTx ==
  /\ tx # NoTx /\ boundary
  /\ Prepared(MaxPending + 1)
  /\ rows' = Append(rows, tx)
  /\ maps' = Applied(maps, tx.effects)
  /\ past' = Append(past, maps')
  /\ tx' = NoTx
  /\ UNCHANGED <<acked, lease, bound, fence, boundary, copy, issued, time, replica>>

(* The hook refuses, the serializable transaction conflicts, or the        *)
(* process dies.                                                           *)
rollbackTx ==
  /\ tx # NoTx
  /\ tx' = NoTx
  /\ UNCHANGED <<maps, rows, acked, past, lease, bound, fence, boundary, copy, issued,
                 time, replica>>

-----------------------------------------------------------------------------
(* The TumblerMapStore operations.                                         *)

get(e, c) ==
  /\ copy[e] = NoMap /\ maps[c] # NoMap /\ tx = NoTx
  /\ copy' = [copy EXCEPT ![e] = [client |-> c, stored |-> maps[c]]]
  /\ UNCHANGED <<maps, rows, acked, past, lease, bound, fence, boundary, tx, issued,
                 time, replica>>

(* set of a generated credential: provision. *)
setNew(c, lc) ==
  /\ maps[c] = NoMap /\ issued < MaxIssued
  /\ issued' = issued + 1
  /\ persist(c, NewMap(lc, issued), 0, 1)
  /\ UNCHANGED <<copy, time>>

(* set of a copy read earlier: updateKey, and the expiry written by        *)
(* verifyTSKRequest.                                                       *)
set(e, status) ==
  LET c    == copy[e].client
      old  == copy[e].stored
      next == [map |-> [old.map EXCEPT !.status = status], used |-> old.used, rev |-> old.rev]
  IN  /\ copy[e] # NoMap
      /\ maps[c] # NoMap => Monotonic(maps[c], next)
      /\ persist(c, next.map, next.used, IF maps[c] = NoMap THEN 1 ELSE maps[c].rev + 1)
      /\ copy' = [copy EXCEPT ![e] = NoMap]
      /\ UNCHANGED <<issued, time>>

(* The write is refused and the editor gives its copy up.                  *)
drop(e) ==
  /\ copy[e] # NoMap
  /\ copy' = [copy EXCEPT ![e] = NoMap]
  /\ UNCHANGED <<maps, rows, acked, past, lease, bound, fence, boundary, tx, issued,
                 time, replica>>

(* As a bug: the tombstone reuses the revision of the row it removes.      *)
delete_SameRevision(c) ==
  /\ maps[c] # NoMap
  /\ appendAndApply("delete", maps[c].rev, [x \in {c} |-> NoMap])
  /\ UNCHANGED <<copy, issued, time>>

delete(c) ==
  /\ maps[c] # NoMap
  /\ appendAndApply("delete", maps[c].rev + 1, [x \in {c} |-> NoMap])
  /\ UNCHANGED <<copy, issued, time>>

(* updateCounters: each named counter may only rise. *)
updateCounters(c, updates) ==
  LET cur  == maps[c]
      next == Reconciled([cur.map EXCEPT !.ctr =
                [s \in Seg |-> IF s \in DOMAIN updates THEN updates[s] ELSE cur.map.ctr[s]]])
  IN  /\ cur # NoMap
      /\ \A s \in DOMAIN updates : updates[s] >= cur.map.ctr[s]
      /\ persist(c, next, cur.used, cur.rev + 1)
      /\ UNCHANGED <<copy, issued, time>>

consumeCounter(c, s, matched) ==
  LET cur == maps[c]
  IN  /\ cur # NoMap
      /\ cur.map.ctr[s] <= matched
      /\ persist(c, Reconciled([cur.map EXCEPT !.ctr = [cur.map.ctr EXCEPT ![s] = matched + 1]]),
                 cur.used, cur.rev + 1)
      /\ UNCHANGED <<copy, issued, time>>

(* commitValidation: the request was stamped by the clock of its server. *)
commitValidation(c, matched, usedAt) ==
  LET cur  == maps[c]
      next == commitValidationToMap(cur.map, matched, usedAt)
  IN  /\ cur # NoMap
      /\ next # cur.map
      /\ persist(c, next, IF CommitOk(cur.map, matched, usedAt) THEN usedAt ELSE cur.used,
                 cur.rev + 1)
      /\ time' = IF usedAt > time THEN usedAt ELSE time
      /\ UNCHANGED <<copy, issued>>

replaceCredential(old, new, lc) ==
  LET cur == maps[old]
  IN  /\ cur # NoMap /\ cur.map.status \notin Terminal
      /\ maps[new] = NoMap /\ old # new
      /\ issued < MaxIssued
      /\ issued' = issued + 1
      /\ CounterStateOk(cur.map)
      /\ appendAndApply("replace", cur.rev + 1,
           [x \in {old, new} |->
              IF x = old
              THEN [map |-> [cur.map EXCEPT !.status = "revoked"], used |-> cur.used, rev |-> cur.rev + 1]
              ELSE [map |-> NewMap(lc, issued), used |-> 0, rev |-> 1]])
      /\ UNCHANGED <<copy, time>>

-----------------------------------------------------------------------------
(* PgTskCredentialReceiverCheckpoint.                                      *)

verifySnapshot(cur, next) ==
  IF cur = NoMap THEN next.rev = 1
  ELSE next.rev = cur.rev + 1 /\ Monotonic(cur, next)

(* The next row, checked against the replica's own maps.                   *)
Verified(row, table) ==
  CASE row.kind = "delete" ->
         \A c \in DOMAIN row.effects : table[c] # NoMap /\ row.rev = table[c].rev + 1
    [] row.kind = "snapshot" ->
         \A c \in DOMAIN row.effects : verifySnapshot(table[c], row.effects[c])
    [] row.kind = "replace" ->
         /\ \A c \in DOMAIN row.effects : verifySnapshot(table[c], row.effects[c])
         /\ Cardinality({c \in DOMAIN row.effects : table[c] = NoMap}) = 1

Decision(seq) ==
  IF rows[seq].fence # replica.fence THEN "reject-fence"
  ELSE IF seq <= replica.applied THEN "duplicate-ok"
  ELSE IF seq > replica.applied + 1 THEN "reject-gap"
  ELSE IF Verified(rows[seq], replica.maps) THEN "applied" ELSE "reject-fork"

(* Every other answer changes nothing.                                     *)
verifyAndApplyDelivered(seq) ==
  /\ Decision(seq) = "applied"
  /\ replica' = [maps |-> Applied(replica.maps, rows[seq].effects), applied |-> seq,
                  fence |-> replica.fence]
  /\ UNCHANGED <<maps, rows, acked, past, lease, bound, fence, boundary, tx, copy, issued, time>>

-----------------------------------------------------------------------------
(* What the control plane, the publisher, the clock and operators do.      *)

(* A renewal, a revoke, or a new epoch with its fence; the row lock of an  *)
(* open mutation keeps it out.                                             *)
leaseGrant(status, f) ==
  /\ tx = NoTx /\ lease.grant < MaxGrants
  /\ f \in fence..MaxFence
  /\ lease' = [grant |-> lease.grant + 1, status |-> status, over |-> FALSE]
  /\ fence' = f
  /\ UNCHANGED <<maps, rows, acked, past, bound, boundary, tx, copy, issued, time, replica>>

(* A new store object, bound to the grant of now. *)
construct ==
  /\ lease.status = "active" /\ bound # lease.grant /\ tx = NoTx
  /\ bound' = lease.grant
  /\ UNCHANGED <<maps, rows, acked, past, lease, fence, boundary, tx, copy, issued, time, replica>>

LeaseRunsOut ==
  /\ ~lease.over
  /\ lease' = [grant |-> lease.grant, status |-> lease.status, over |-> TRUE]
  /\ UNCHANGED <<maps, rows, acked, past, bound, fence, boundary, tx, copy, issued, time, replica>>

(* The role gains a privilege it must not have.                            *)
Drift ==
  /\ boundary /\ boundary' = FALSE
  /\ UNCHANGED <<maps, rows, acked, past, lease, bound, fence, tx, copy, issued, time, replica>>

Acknowledge ==
  /\ acked < replica.applied
  /\ acked' = acked + 1
  /\ UNCHANGED <<maps, rows, past, lease, bound, fence, boundary, tx, copy, issued, time, replica>>

ReceiverFence ==
  /\ replica.fence < fence
  /\ replica' = [maps |-> replica.maps, applied |-> replica.applied, fence |-> fence]
  /\ UNCHANGED <<maps, rows, acked, past, lease, bound, fence, boundary, tx, copy, issued, time>>

-----------------------------------------------------------------------------
UseTimes == {t \in 0..MaxTime : t + UsedAtSkew >= time}

AuthorityNext ==
  \/ \E c \in ClientId :
       \/ \E lc \in Lifecycle : \/ setNew(c, lc)
                                \/ \E new \in ClientId : replaceCredential(c, new, lc)
       \/ delete(c)
       \/ \E S \in SUBSET Seg : \E u \in [S -> Counter] : updateCounters(c, u)
       \/ \E s \in Seg, n \in Usable : consumeCounter(c, s, n)
       \/ \E v \in Vector, t \in UseTimes : commitValidation(c, v, t)
       \/ \E e \in Editor : get(e, c)
  \/ \E e \in Editor : drop(e) \/ \E status \in Status : set(e, status)
  \/ commitTx \/ rollbackTx
  \/ \E seq \in DOMAIN rows : verifyAndApplyDelivered(seq)
  \/ \E status \in {"active", "revoked"}, f \in 1..MaxFence : leaseGrant(status, f)
  \/ construct \/ LeaseRunsOut \/ Drift \/ Acknowledge \/ ReceiverFence

AuthoritySpec == AuthorityInit /\ [][AuthorityNext]_authorityVars

-----------------------------------------------------------------------------
(* The mirror is the source as it was after the last applied row: a        *)
(* replacement arrives whole, nothing arrives twice or out of order.       *)
ReplicaMirrors == replica.maps = past[replica.applied + 1]

(* No row the source commits is taken for a fork: once its turn comes, the *)
(* receiver accepts it, so the stream never halts on a genuine mutation.   *)
NeverForked == \A seq \in DOMAIN rows : Decision(seq) # "reject-fork"

(* A row becomes durable only while the lease of the store that wrote it   *)
(* is the latest grant, active and in time, and the role is still confined *)
(* to the governed functions, even if the transaction was long; and what   *)
(* it stores moves forward: while its row exists, no credential loses a    *)
(* counter, a use or its terminal status, and no secret changes under the  *)
(* same client id, however stale the copy a caller writes back.            *)
CommitsForward ==
  [][/\ rows' # rows => /\ lease.status = "active" /\ ~lease.over
                        /\ bound = lease.grant /\ boundary
     /\ \A c \in ClientId : maps[c] # NoMap /\ maps'[c] # NoMap /\ maps'[c] # maps[c] =>
          /\ maps'[c].rev = maps[c].rev + 1
          /\ maps'[c].map.createdAt = maps[c].map.createdAt
          /\ \A s \in Seg : maps'[c].map.ctr[s] >= maps[c].map.ctr[s]
          /\ maps'[c].map.requestCount >= maps[c].map.requestCount
          /\ maps[c].map.status \in Terminal => maps'[c].map.status = maps[c].map.status
    ]_authorityVars

(* The authority and its replica: bounded and well-typed, the replica is a *)
(* past of the source, and no genuine record is taken for a fork.          *)
AuthoritySound == AuthorityTypeOK /\ ReplicaMirrors /\ NeverForked

-----------------------------------------------------------------------------
(* The inductive invariant behind the authority.                           *)

AuthorityShape ==
  /\ maps \in Table /\ rows \in Seq(Mutation) /\ past \in Seq(Table)
  /\ tx = NoTx \/ tx \in Mutation
  /\ lease \in [grant : 1..MaxGrants, status : {"active", "revoked"}, over : BOOLEAN]
  /\ bound \in 1..lease.grant /\ fence \in 1..MaxFence
  /\ copy \in [Editor -> [client : ClientId, stored : Stored] \cup {NoMap}]
  /\ issued \in Nat /\ time \in Nat /\ acked \in Nat
  /\ replica \in [maps : Table, applied : Nat, fence : 1..MaxFence]

(* A mutation that fits a table: the tombstone or snapshot of each client  *)
(* is the next revision, forward, of a map that passes                     *)
(* assertTumblerMapCounterState.  lastUsedAt only moves forward as far as  *)
(* the clocks of the servers agree.                                        *)
Follows(table, row) ==
  /\ row.kind = "delete" => \A c \in DOMAIN row.effects :
       row.effects[c] = NoMap /\ table[c] # NoMap /\ row.rev = table[c].rev + 1
  /\ row.kind # "delete" => \A c \in DOMAIN row.effects :
       /\ row.effects[c] \in Stored /\ CounterStateOk(row.effects[c].map)
       /\ table[c] = NoMap => row.effects[c].rev = 1
       /\ table[c] # NoMap =>
            /\ row.effects[c].rev = table[c].rev + 1
            /\ Forward(table[c].map, row.effects[c].map)
            /\ UsedAtSkew = 0 => row.effects[c].used >= table[c].used
  /\ row.kind = "replace" => Cardinality({c \in DOMAIN row.effects : table[c] = NoMap}) = 1

(* The outbox is the history of the table, row by row.                     *)
HistoryInv ==
  /\ Len(past) = Len(rows) + 1 /\ past[Len(past)] = maps
  /\ \A i \in DOMAIN rows : past[i + 1] = Applied(past[i], rows[i].effects) /\ Follows(past[i], rows[i])
  /\ \A i \in DOMAIN past : \A c \in ClientId :
       past[i][c] # NoMap => CounterStateOk(past[i][c].map)

(* What an open mutation has prepared still fits when it commits.          *)
OpenTxInv == tx # NoTx => Follows(maps, tx) /\ Len(rows) - acked < MaxPending

(* Nothing was used later than the clock.                                  *)
UsedInv ==
  /\ \A c \in ClientId : maps[c] # NoMap => maps[c].used <= time
  /\ tx # NoTx => \A c \in DOMAIN tx.effects : tx.effects[c] # NoMap => tx.effects[c].used <= time
  /\ \A e \in Editor : copy[e] # NoMap => copy[e].stored.used <= time

(* The publisher settles what the receiver has applied, which mirrors.     *)
DeliveryInv ==
  /\ acked <= replica.applied /\ replica.applied <= Len(rows) /\ Len(rows) - acked <= MaxPending
  /\ ReplicaMirrors

AuthorityInv == AuthorityShape /\ HistoryInv /\ OpenTxInv /\ UsedInv /\ DeliveryInv
=============================================================================
