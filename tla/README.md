# TLA+ model of the TSK protocol

TSK authenticates a client by a key that changes with every use: each key is
derived from a shared secret, a time window and a set of HOTP counters. The
server accepts a counter once; around that sit lifecycle management, a client
SDK that persists counters, and two replication designs (a mirror over HTTP and
a durable outbox in PostgreSQL) with writer fencing. This directory models the
parts where the order of steps decides correctness.

## Inventory

| Component | State | Operations | What is hard |
|---|---|---|---|
| Tumbler map, counters (`core/hotp-counter.ts`, `core/validate.ts`, `server/store.ts`) | status, counters, use count, limits | validate, commit, reconcile | the counter ceiling; status and counter must change together |
| Memory store (`server/store.ts`) | map per client | set, get (TTL), delete, commit, replace, update/consume counter | each call is atomic, sequences of calls are not |
| Middleware (`server/middleware.ts`) | a copy of the map across an await | `verifyTSKRequest` | two requests with one counter; writing a stale copy back |
| Provisioner (`server/provisioner.ts`) | a copy of the map across an await | provision, revoke, replaceKey, updateKey | lost updates, check-then-act on the client limit |
| Client SDK (`client-sdk/client.ts`, `storage.ts`) | counters in memory and in a file | init, fetch | lost responses, concurrent fetches, restarts |
| Mirror source and receiver (`replicating-tumbler-store.ts`, `replica-receiver.ts`) | queue, hash chain, checkpoint, two stores | every mutation, drain/push, ingest | stream order against store order, timeouts and overlapping retries, a full queue |
| Writer fence (`promotion.ts`, `redis-fencing-store.ts`) | fence record, replicas, lease per node | activate, demote, isWritable, fenced writes | lost replies, failover of the authority, check before write |
| HOTP outbox (`tsk-hotp-outbox-pg.ts`) | rows, lease, halt marker; applied history, consumed counters | appendInTx, drainOnce, verifyAndApply | expiring leases, duplicates, crashes, a restored source |
| Control plane (`ha-control-fencing.ts`) | signed histories of provisioning, lease, cutover and activation; the epoch witness | provision, writeLease, the cutover steps, advanceEpoch, abort, activateSource | sagas over two databases and Redis, interrupted and raced |
| Source fence (`tsk-source-fence.ts`) | lease chain, ledger, frozen receipts, staged exports, receiver generations, restore witness | installLeaseGrant, freeze, export, stage, finalize, checkpoint receipts | late receipts, restores that fork, two writers |
| Credential authority (`ha-tumbler-map-store.ts`) | credential rows with revisions, outbox rows, replica | every `TumblerMapStore` operation, verifyAndApplyDelivered | long transactions under a lease, redelivery |
| Schema gates (`ha-control-fencing.ts`, `tsk-hotp-outbox-pg.ts`) | catalog, authority stamp, release stamp | criticalTx, migration, adopt; transaction scopes | DDL and stamps changing under a running operation |
| Transactor (`pg-transactor.ts`) | pool, connections, call in flight | transaction with retries and aborts | COMMIT whose answer is lost |
| HTTP transport (`http-outbox-transport.ts`) | nonces with expiry, attempts | deliver, verifyEnvelope, checkAndStore | replays, clock skew, stalls |
| File store (`file-store.ts`) | a file, a lock file, a temporary file | every store operation | death between two steps |
| Edge (`ultra-verify.ts`, `node-http/adapter.ts`) | a request across three awaits; administration requests | BPC and TSK verification, provisioning over HTTP | mutable requests, unknown outcomes |
| Sessions, agent cache, anomaly engine, failover transport, rate limiter, key layout | see the modules | see the modules | eviction, overlapping writes, late answers, boundaries |
| Demo, drills | | | not modelled (`PROJECT.json`) |

The parts interact in this way. `verifyTSKRequest` and the provisioner share one
store. The SDK talks to the middleware. `ReplicatingTumblerStore` wraps the
primary's store and pushes every mutation to a receiver; `FencedTumblerStore`
wraps a store and asks the promotion controller before each mutation; a
promotion compares the checkpoints of the two ends of the mirror. The outbox
replaces the mirror where durability matters: the credential authority appends to
it in the transaction that changes a credential, the publisher sends its rows
through the HTTP transport, and the control plane decides which node is its
source. Everything in PostgreSQL runs through the transactor and behind a schema
gate. The edge calls `verifyTSKRequest`.

## Modules

`TumblerMap` holds the pure part: a map, `commitValidationToMap`,
`validateTSKKey`, `Reconciled`. A key is the counter vector and the window it was
derived from; characters, segment layout and checksum decide nothing else.

`TskServer` (EXTENDS `TumblerMap`) is the server core. Node.js runs one
continuation at a time, so a handler is cut exactly at its awaits on the store,
and the copy it holds there is part of its state (`req`, `adm`, `upd`).
`OneTimeCredential` is the abstract specification: issued once, each use raises
the floor, dead for good. `CredOf` is the refinement mapping.

`ClientCounters` is one SDK client against one stored map. Three copies of the
counters (`server`, `disk`, `counters`) move one after the other. The server is
one step here, which `TskServer` justifies: between lookup and commit stored
counters only grow.

`Replication` (EXTENDS `TumblerMap`) is the mirror. A mutation writes the
primary, then (after reading back where the code does, and after sealing) gets
its sequence; a caller of set may hold a stale copy (the stored map or the
credential as it was issued stand for all of them); ingest is cut at its awaits; `waited` says whether the source still
waits for the answer. One stream epoch, sealed secrets, stores without TTL.

`WriterFence` is the lease. Commands and checks are cut at their awaits on the
authority, which replicates asynchronously and may fail over to any replica. A
failover keeps what the other replicas have; they resynchronise by `Replicate`.

`HotpOutbox` is the outbox. Each SERIALIZABLE transaction is one action;
everything between transactions is nondeterministic. Digests and signatures are
ideal: a head is identified with the items it covers. Sequence numbers count the
rows of the single source epoch. A restored database has no running drain as its
lease holder.

`ControlFence` is the control plane of one stream, one action per transaction,
with `provision` and `advanceEpoch` cut into their steps (`call`) and the Redis
record beside the signed histories. Heads and histories are a record and a set; a
digest names one row. `SourceFence` (EXTENDS it) is the nodes: a lease grant signs
its predecessor, so a grant is the whole chain; freeze, export, stage, finalize,
activate. `Handover` joins the two through the receipts and grants that travel
between them, and `SingleLog` is what the whole promises: one log, one writer at a
time. The refinement mapping takes the longest ledger and the node whose appends
are accepted.

`CredentialAuthority` (EXTENDS `TumblerMap`) is `PgHaTumblerMapStore` with the
database functions it calls, each operation a transaction of two steps (apply,
COMMIT with the pre-commit check), and the replica's `verifyAndApplyDelivered`.
`SourceWitness` is the restore witness of `tsk-source-fence.ts`: appends, lease
renewals, backup, restore, receipts in any order. A head is the list of rows it
covers.

`FileStore`: lock, load and stage, rename, unlock as separate steps of several
processes; a process may die at each and an operator resolves a left lock.
`Transactor`: a call from acquire to release, a COMMIT that may outlive its
connection (`limbo`), retries, aborts at every await. `HttpTransport`: attempts and
handlers, the database clock and clock offsets, expiring nonces. `SchemaGate`:
`criticalTx` step by step against DDL, writes of the stamp and the migration.
`OutboxScope`: the accounting of queries in a `DurableTx` scope and the release
stamp. `PrincipalSession`, `HttpEdge`, `Anomaly`, `Failover`, `AgentCache`,
`KeyLayout` and `ProvisionLimiter` each model the file of that name; their header
comments say what a step is and what is abstracted.

`MC*` modules instantiate these for TLC, `*Proofs` modules hold the theorems.
`MCServices` puts the components that share no state into one run: the initial
state picks one part and only that part moves.
Each definition that models code has its lines in `PROJECT.json` under `map`.
Operators whose comment says "as a bug" or calls them a mutant are faulty variants
of the definition that follows; no specification uses them, they exist to show
that the checks can fail.

## Runs

Passing:

| Run | Question | Bounds |
|---|---|---|
| ServerSerialUpdates | Is a counter ever accepted twice, a cap exceeded, a dead credential revived? Does the server implement `OneTimeCredential`? | 2 requests, 1 administrator, 1 updater that loses no update, 2 clients, counters to 2, capacity 1, one tick (so that expiry strikes between two steps) |
| ServerAnyUpdates | What survives lost updates: consistency and capacity | 3 clients and capacity 2, so that replacement below and at the limit happens; one usable counter, so that the first use reaches the ceiling; a TTL of 1 and 2 ticks, so that entries age out |
| ClientFaults | Client against loss, concurrency, restarts; does every counter get used or left behind? | 3 fetches, 2 restarts, counters to 3 with lookahead 2 |
| OutboxFaults | Loss, duplication, order, one signed line | 2 publishers, 2 rows, 2 fences, 1 restore, 2 counter values of one tumbler |
| OutboxProgress | Every row settles | 3 rows, a backlog limit of 1 |
| FenceFailover | Fencing across failovers when WAIT covers every replica | 2 nodes, 2 replicas, 2 epochs, 2 failovers, 2 commands at once |
| MirrorSerial | Is a promotable replica equal to the primary? Does anything on the replica roll back? | 1 mutation at a time, stale copies included, 3 clients against a capacity of 2 at both ends (so that a replacement happens below and at the limit), 4 operations, queue 2 |
| MirrorOverlap | Gap-freedom and the checkpoint under overlap | 2 mutations, 2 ingests, queue 1 so that it overflows, 3 operations (no call starts after the second is queued) |
| ControlRaces | Can the control database be driven to an unbacked, early or unchained epoch? | 2 promotion commands, 2 advanceEpoch callers, epochs to 2, a clock of one tick against a horizon of 1, Redis loses its record once; every receipt a caller could show, in any order |
| Handover | One source, no lost append, refinement of `SingleLog` | 3 nodes (an abort after a finalisation needs a third), epochs to 2, 2 rows, 3 grants in a chain, 2 commands |
| Services | The questions below | per part: 2 of each concurrent actor, one more value than a limit holds |

The invariants of `ControlRaces`, `Handover` and `Services` are conjunctions of
named parts: `ControlSound` of `WitnessIsBacked` and `RedisFollowsIntent`,
`HandoverSound` of `NoLostAppend` and `FreezeIsFinal`, with the type invariants.
`Services` asks of each part:

| Part | Properties |
|---|---|
| authority | `AuthoritySound`: `ReplicaMirrors` and `NeverForked` (the replica is the source at some row and never refuses a genuine one); `CommitsForward`: a commit happens under the lease, and stores nothing a stale copy could roll back |
| witness | `WitnessOneLine`: no fork is ever witnessed; two rows, so that a fork outgrows the witnessed height; one system identifier (a changed one is refused outright, and the theorem covers any number) |
| file | `FileSound`: `NoLostUpdate` and `AcceptedIsStored` across deaths |
| transactor | `TransactorSound`: `OutcomeTruthful` (what a caller is told is what became durable) and `PoolSound` |
| transport | `NonceInv`, with `AcceptedOnce` and `AckAnswersAttempt`; two timestamps, so that rows expire and are pruned |
| schema | `GateSound`: `StampStands` and `DriftStopsNextOp` |
| scope | `ScopeSound`: `CommittedScopeIsClean` and `StampFollowsTables` |
| principal | `LedgerSound`: `ContinuityHolds` and `ActiveIsLogged` |
| edge, admin | `EdgeSound`: `ConsumedIsBound`, `DeniedConsumesNothing` and `AdminAnswersTruthful` |
| anomaly | `TrackingSound`: `TrackingBounded`, `IpsAreTracked` and `AttackIsRecent` |
| failover | `FailoverSound`: `UnhealthyIsJustified` and `ReadTriesAll` |
| cache | `ServedIsValid` |
| layout | `LayoutSound`: `LayoutCovers` and `AssemblyAgrees` |
| limiter | `LimiterSound`: `RateBounded` and `RefusalsDoNotStarve` |

The bounds let each interesting case happen: two of each concurrent actor are
enough for every race the properties are about (a third only repeats one of
them), counters reach the ceiling, queues and stores fill, leases and fences are
exceeded at least once. For the invariants marked below the proofs remove the
bounds.

Where a run sets `CHECK_DEADLOCK FALSE` the system may stop: counters are used
up, the bound on mutations is reached and nothing is queued, the last epoch of
`ControlRaces` and `Handover` is spent, or a part of `Services` has used up its
bounds. `ClientFaults` and `OutboxProgress` state what must happen before.

Disagreement (a run that ends in a counterexample, see `findings`):

| Run | What happens |
|---|---|
| UpdateRevives | `updateKey` stores a copy read before its awaits: a revoked credential lives again |

Other limits of the code show when the constants of a passing run change, and
explain the values chosen there:

* `updateKey` under `Spec` instead of `SerialSpec` violates `NoReplay` too: it
  brings a consumed counter back.
* `WaitReplicas = 1` with two replicas (FenceFailover) violates `GrantsDurable`: a
  failover to the replica that did not acknowledge rolls the fence back. The code
  accepts any `waitReplicas >= 1`.
* `MaxEntries = 1` with `ReplicaEntries = 2` (MirrorSerial) violates
  `MirrorsPrimary`: a replacement at capacity drops the old credential on the
  primary and mirrors nothing about it.
* Two `Ingests` (MirrorSerial) violate `ReplicaNoRollback`: the retry of a push
  that timed out overlaps the first ingest, and both check against old copies.
* `provision` counts the clients and stores the new one in different turns, so
  `maxClients` is not a bound under concurrency; `maxEntries` is.
* A restart between an acceptance and `saveCounters`, or a lost response, leaves
  the client one counter behind the server for good: that is what
  `LockoutIsFinal` states, and the exception in `UsedOrLeftBehind`.
* Two mutations at once (`MirrorSerial` with two calls) violate `MirrorsPrimary`:
  `set`, `commitValidation` and `replaceCredential` take their place in the stream
  after awaiting their seal (`replicating-tumbler-store.ts:191`), so a later delete
  may come first; the replica is promotable and holds a deleted credential.
* The answer to an applied envelope is lost: the source retries the same
  sequence and the receiver answers 409 `envelope_replay` to every retry
  (`replica-receiver.ts:285`); the queue never empties.
* `UsedAtSkew = 1` (Services) violates `NeverForked` of `AuthoritySound`: `commitValidation` stores the
  `usedAt` of the serving process unchecked, and two processes whose clocks differ
  make `lastUsedAt` go back, which the replica takes for a fork
  (`ha-tumbler-map-store.ts:467`) and halts the stream.
* In the credential authority a stale `set` after a delete stores the credential
  again (`CommitsForward` speaks of a row while it exists), and at the last revision
  a credential can be neither used nor deleted.
* `MaxStall <= Safety` in `RetentionAssumption` (Services) is needed for
  `AcceptedOnce`, and the code does not enforce it: nothing bounds the time between
  the freshness check (`http-outbox-transport.ts:404`) and the insertion of the
  nonce (408).
* DDL that commits between a transaction's snapshot and its `LOCK TABLE` gets past
  that transaction's attestation (`ha-control-fencing.ts:833`); `DriftStopsNextOp`
  states the part that holds.
* An answer that arrives late, or as a last resort and with any status, makes an
  endpoint healthy again without a probe (`failover-transport.ts:101`).
* `closeSession` drops the session before an append that may throw, and a repeated
  bind proof activates a closed session again.
* A failed `deliverCredential` answers 400 while the credential is stored and live
  (`adapter.ts:175`).
* `validateProvisionOptions` passes options (a `keyLength` of 44 alone) that
  `generateTumblerMap` then refuses; buckets of the rate limiter are never evicted;
  the address correlation of the anomaly engine never ages out.
* After ACTIVE at an epoch, a `beginPromotionIntent` for the next one before
  `activateSource` ran leaves the stream without a source, and so does a claim that
  expires before the second transaction of `advanceEpoch`: safe, but stuck until an
  operator acts. Liveness of the handover is therefore not claimed.

## Fairness

Safety properties assume none. `ClientFaults` (`FairClientSpec`): the process is
started again after a crash, the application keeps calling fetch, and the event
loop runs every continuation (weak fairness of `InitClient`, `Send` and what
follows an answer); the network does not lose every request, so one sent again and
again arrives (strong fairness of `Deliver`). Responses may all be lost, and the
process may crash within its bound.
`OutboxProgress`: `drainOnce` is called again and again
(weak fairness), a delivery or a drain may fail any number of times but not every
time (strong fairness of the steps that failures interrupt), and a lease whose
holder died runs out on the database clock.

## Proofs

All theorems hold for every value of the constants under the named ASSUMEs.
`TypeOK`-style invariants are proved first; each safety theorem follows from an
inductive invariant. The inductive invariants and the type invariants of the
modules with proofs were checked by TLC while they were found; now that they are
proved for every value of the constants, the runs check the properties that follow
from them (`NonceInv` is both).

* `TumblerMapProofs`: `commitValidationToMap` and the reconciliation keep a map
  well-typed and consistent and never lower a counter (`CommitKeepsMap`). The
  other proof modules rest on these lemmas.
* `TskServerProofs`, under `SerialSpec` (no `updateKey` loses an update):
  `CounterInv` is inductive. `NoReplay` alone is not, because nothing in it
  relates the history to the stored counters; the invariant adds that a live
  map's counters exceed every accepted one and its use count is exact, that a
  copy written back by the auto-expiry is terminal, and that copies belong to
  issued credentials. From it: `NoReplay`, `UsageCap`, `DeadStaysDead` and the
  refinement `PromiseKept`. Under the unrestricted `Spec`: `StoredMapsConsistent`
  and `CapacityBound`.
* `ClientCountersProofs`: `ClientInv` says what each call in flight knows about
  memory, file and server; `NoRollback` and `LockoutIsFinal` follow.
* `HotpOutboxProofs`: `OutboxInv` adds to the properties what a drain about to
  acknowledge, a record in flight and the backup satisfy (a restore brings the
  backup's rows back). `AckedWasApplied`, `AppliedWasSigned`, `NoDoubleConsume` and
  `InOrder` follow.
* `WriterFenceProofs`, assuming `WaitReplicas` is the number of replicas (with
  fewer, a failover is a counterexample): `FenceInv` adds that claims in
  progress own their epochs and that what is acknowledged is on the replica.
  `NoStaleWriter`, `GrantsDurable` and `OneGrantPerEpoch` follow.
* `ReplicationProofs`: `MirrorInv`, the applied sequences are a gap-free prefix
  without dropped operations and an ingest past its check finds its predecessors
  applied. `NeverPastALoss` and `CheckpointApplied` follow, for any overlap. Two
  theorems carry the hypothesis their property needs (the counterexamples without
  it are listed under Runs):
  * `NoRollbackOneAtATime`, when ingests do not overlap: `IngestCurrent` says that
    the copy an ingest checked is still what the replica holds when it writes.
  * `SerialMirrorsPrimary`, when mutations and ingests do not overlap and the
    replica has no more room than the primary. `MirrorsPrimary` speaks of two
    stores that are seldom equal; `SerialInv` adds the history `h` of stores that
    the stream describes, `h[n + 1]` being `h[n]` after the n-th operation. The
    replica is at its place in `h`, the primary is at the end of it but for what
    the mutation in progress still owes, and if a `set` went into the stream that
    the replica has no room for (a replacement at capacity, whose deletion is not
    mirrored), the replica never gets past it and is never promotable.
* `HandoverProofs`, under `HandoverAssumption` (no node is called "nobody"):
  `ControlInv` for the control database alone, whatever receipts it is shown. The
  properties say what a fenced epoch rests on; the invariant adds where the head of
  the cutover log stands against the witness (`CutInv`), which intent a call past
  its first transaction is for (`CallsFollowIntent`), and that an epoch under way
  has no activation yet (`ActInv`). `ControlSound`, `HorizonElapsed` and
  `ActivationsChain` follow. `HandoverInv` adds the nodes: every receipt and grant
  a transaction bound was signed (`ReceiptsInv`), a lease chain holds its node's own
  epochs in order (`ChainInv`), what was frozen stays so until a later epoch
  (`FrozenInv`), every past epoch was frozen by its owner (`PastIsFrozen`), and
  freezes extend each other (`FreezesExtend`). `SingleSource`, `HandoverSound` and
  the refinement `HandoverIsOneLog` follow: every step of the composition appends to
  the one log, moves the writer or changes neither.
* `ServicesProofs` takes the components of `MCServices` one by one, each from a
  specification of its own (`FileSpec`, `TransactorSpec`, ...) that MCServices
  interleaves with the others standing still:
  * `HttpTransport`, under `RetentionAssumption` (the inequality
    `createHttpOutboxReceiver` enforces, and stalls within the safety margin):
    `NonceInv` says that a handled nonce is stored until after the last moment its
    timestamp can pass on a tolerated clock, and how far a handler may be behind its
    freshness check. `AcceptedOnce` alone says nothing of pruned rows.
  * `SourceWitness`: `WitnessTypeOK` (the witness is the last row of a gap-free
    history) and `WitnessOneLine`, which is inductive with it because a prefix of a
    prefix is a prefix (`FirstOfFirst`).
  * `CredentialAuthority`: `AuthorityInv`. The outbox is the history of the table
    row by row, each row a forward step (`HistoryInv`, `Follows`); what an open
    transaction prepared still fits when it commits (`OpenTxInv`); `UsedInv` and
    `DeliveryInv`. `AuthorityMirrors` and `CommitsForward` hold for every clock
    skew; `AuthoritySound` (with `NeverForked`) is proved under `UsedAtSkew = 0`,
    without which it is false.
  * `FileStore`: `FileInv`. Whoever is between open and unlink owns the lock and
    has staged an operation on the file as it is (`LockOwned`); a reported use is
    not offered again (`Remembered`), nor is one renamed but not yet reported.
  * `Transactor`: a connection is lent to one call (`LoanInv`), what is durable at
    each point of a call (`CommitInv`), a sleeping call has a retry left.
  * `SchemaGate`: what a snapshot still says where nothing was written since
    (`SnapshotInv`), what each step established and its locks keep (`LockInv`),
    and what the bounds of the model leave out (`BoundsInv`). `OutboxScope`:
    `ScopeSound` is inductive with its types.
  * `HttpEdge`: a request at the TSK check claims a client that was bound to its
    pair (`RequestInv`), `AdminInv`. `AgentCache`: only a call that is over was
    served.
  * `Failover`: the current streak is the last misses (`StreakInv`), the last
    resort walks the chain in order (`ChainInv`); the next healthy endpoint exists
    because a non-empty set of naturals has a least number.
  * `ProvisionLimiter`: what was granted since a grant, and what could be granted
    now, is paid for by a full bucket and the refills since (`CreditInv`).
  * `PrincipalSession`: the last checkpoint covers the heads, the heads are the
    events, and each checkpoint adds one event (`ChainsInv`); with it the log binds
    what is active (`LedgerInv`).
  * `Anomaly`: the order of eviction names each tracked client once (`OrderInv`)
    and failures are in the order of time (`OldestFirst`), so that the window's
    filter is a suffix (`WindowIsFilter`).
  * `KeyLayout`, for every key length, segment count and draw: `LayoutInv`, the
    boundaries are a segment apart (`Apart`) and leave room for the rest (`Room`);
    so sorting them changes nothing, and the concatenation of the client's segments
    is the key character by character. `FlattenSeq` is a recursive function; the
    proof gives the function it must be equal to and takes the least index where
    they differ.

Only model-checked: the two liveness properties, `UsedOrLeftBehind` and
`EveryRowSettled` (the prover has neither fairness nor ENABLED). Every other
property of a passing run is a theorem, some under the hypotheses named above.
There is no RECURSIVE operator in the models.

## Not modelled

HMAC, signatures, sealing and JSON canonicalisation (ideal), response formatting,
logging and audit, the contents of the pinned catalogs (a catalog is right or
not), authentication of mirror envelopes (assumed genuine), the clock
skew of envelopes (a stale one is a lost one), leases of the writer fence that
expire by time (a refusal), the sealed principal cache and the fallback
authorization (`principal-session.ts:422`), a restart of either end of the mirror,
a directory sync after the file store's rename. A write that passed its fence check just before a new grant may still
land: `docs/HA_OUTBOX_CONTRACT.md` says that a Redis check alone cannot fence the
store, and `NoStaleWriter` states the part that holds. After a fence advance, rows
of the old fence are refused until an operator acts. Demo, drills, test suites and
the parked code are not part of the system.

## Plan

1. `CredentialAuthority` as an implementation of `OneTimeCredential`, proved from
   `AuthorityInv`.
2. `ClientCounters` and `TskServer` composed, so that the server's single step in
   the client's model is a theorem and not an argument.
3. A restart of the mirror's source and receiver with their persistence hooks.
4. The sealed principal cache and the fallback authorization.
