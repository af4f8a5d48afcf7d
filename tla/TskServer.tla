------------------------------ MODULE TskServer ------------------------------
(***************************************************************************)
(* The TSK server core: concurrent verifyTSKRequest calls                  *)
(* (packages/server/src/middleware.ts) and TSKProvisioner ceremonies       *)
(* (packages/server/src/provisioner.ts) over one MemoryTumblerStore        *)
(* (packages/server/src/store.ts).                                         *)
(*                                                                         *)
(* Every `await store.x(...)` is a point where other calls run, so each    *)
(* handler is cut exactly there: an action runs one store operation, which *)
(* is atomic, and the synchronous code around it.  The local copy that     *)
(* store.get returned is carried across the await, as in the code.         *)
(*                                                                         *)
(* External and left nondeterministic: the authorizer callbacks (a refusal *)
(* leaves everything unchanged and is a stutter), the rate limiter, the    *)
(* clock.  Client ids are fresh random UUIDs, so an id is never reissued.  *)
(***************************************************************************)
EXTENDS TumblerMap, Sequences

CONSTANTS
  ClientId,     \* ids generateTumblerMap can draw
  Requests,     \* concurrent verifyTSKRequest calls
  Admins,       \* concurrent provision / revoke / replaceKey / getKey calls
  Updaters,     \* concurrent updateKey calls
  MaxEntries,   \* MemoryStoreConfig.maxEntries
  MaxClients,   \* ProvisionerOptions.maxClients
  MaxAge,       \* maxAgeSec in ticks; 0 disables the TTL
  MaxTime,      \* bound of the model: the last tick of the clock
  MaxUses,      \* bound of the model: accepted uses after which no request starts
  NoMap         \* "no entry for this client"

ASSUME ServerAssumption ==
  /\ IsFiniteSet(ClientId)
  /\ MaxEntries \in Nat \ {0}
  /\ MaxClients \in Nat
  /\ MaxAge \in Nat
  /\ MaxTime \in Nat
  /\ MaxUses \in Nat
  /\ NoMap \notin Map
  /\ Requests \cap Admins = {}

VARIABLES
  maps,         \* MemoryTumblerStore.maps
  issued,       \* ids drawn so far
  req,          \* the progress and local state of each verifyTSKRequest
  adm,          \* the same for provision, revoke and replaceKey
  upd,          \* the same for updateKey
  now,          \* Date.now()
  accepted      \* history: the counter vectors accepted for each client

vars == <<maps, issued, req, adm, upd, now, accepted>>

Idle == [pc |-> "idle"]

ReqState == {Idle}
     \cup [pc : {"looked"}, client : ClientId, map : Map]
     \cup [pc : {"expire"}, client : ClientId, map : Map]
     \cup [pc : {"commit"}, client : ClientId, matched : Vector, usedAt : Nat]

AdmState == {Idle, [pc |-> "provision"]}
     \cup [pc : {"revoke", "replace"}, client : ClientId]

UpdState == {Idle} \cup [pc : {"update"}, client : ClientId, map : Map]

(* Representation of the server's state: one type invariant for the module. *)
TypeOK ==
  /\ maps \in [ClientId -> Map \cup {NoMap}]
  /\ issued \subseteq ClientId
  /\ req \in [Requests -> ReqState]
  /\ adm \in [Admins -> AdmState]
  /\ upd \in [Updaters -> UpdState]
  /\ now \in 0..MaxTime
  /\ accepted \in [ClientId -> Seq(Vector)]

Init ==
  /\ maps = [c \in ClientId |-> NoMap]
  /\ issued = {}
  /\ req = [r \in Requests |-> Idle]
  /\ adm = [a \in Admins |-> Idle]
  /\ upd = [u \in Updaters |-> Idle]
  /\ now = 0
  /\ accepted = [c \in ClientId |-> << >>]

-----------------------------------------------------------------------------
(* MemoryTumblerStore *)

Present == {c \in ClientId : maps[c] # NoMap}

(* get: a map past its TTL is deleted and reported missing.                *)
TtlOver(m) == MaxAge > 0 /\ now - m.createdAt > MaxAge
AfterGet(c) == IF maps[c] # NoMap /\ TtlOver(maps[c])
               THEN [maps EXCEPT ![c] = NoMap] ELSE maps
Got(c) == AfterGet(c)[c]

(* set: throws at capacity or on an inconsistent map, else overwrites.     *)
SetOk(c, m) == /\ maps[c] # NoMap \/ Cardinality(Present) < MaxEntries
               /\ CounterStateOk(m)
AfterSet(c, m) == IF SetOk(c, m) THEN [maps EXCEPT ![c] = m] ELSE maps

(* A mutant: replacement at full capacity adds without dropping.            *)
AfterReplaceAdds(old, new, m) ==
  [maps EXCEPT ![old] = [@ EXCEPT !.status = "revoked"], ![new] = m]

(* replaceCredential: revoke the old entry, or drop it at capacity, and add *)
(* the new one.                                                             *)
ReplaceOk(old) == maps[old] # NoMap /\ maps[old].status \notin Terminal
AfterReplace(old, new, m) ==
  [maps EXCEPT ![old] = IF Cardinality(Present) >= MaxEntries THEN NoMap
                        ELSE [@ EXCEPT !.status = "revoked"],
               ![new] = m]

-----------------------------------------------------------------------------
(* verifyTSKRequest *)

(* The header checks passed; store.get for the claimed client.             *)
VerifyLookup(r, c) ==
  /\ req[r] = Idle
  /\ Len(accepted[c]) < MaxUses
  /\ maps' = AfterGet(c)
  /\ req' = [req EXCEPT ![r] = IF Got(c) = NoMap THEN Idle
               ELSE [pc |-> "looked", client |-> c, map |-> Got(c)]]
  /\ UNCHANGED <<issued, adm, upd, now, accepted>>

(* Lifecycle checks and validateTSKKey on the local copy, with the clock of *)
(* this moment.                                                             *)
VerifyDenied(r) ==
  /\ req[r].pc = "looked"
  /\ req[r].map.status \in Terminal
  /\ req' = [req EXCEPT ![r] = Idle]
  /\ UNCHANGED <<maps, issued, adm, upd, now, accepted>>

VerifyAutoExpire(r) ==
  LET m == req[r].map IN
  /\ req[r].pc = "looked"
  /\ m.status \notin Terminal
  /\ Expired(m, now) \/ CapReached(m)
  /\ req' = [req EXCEPT ![r] = [pc |-> "expire", client |-> req[r].client,
                                map |-> [m EXCEPT !.status = "expired"]]]
  /\ UNCHANGED <<maps, issued, adm, upd, now, accepted>>

VerifyKey(r, key) ==
  LET m == req[r].map IN
  /\ req[r].pc = "looked"
  /\ m.status \notin Terminal
  /\ ~Expired(m, now) /\ ~CapReached(m)
  /\ req' = [req EXCEPT ![r] =
               IF validateTSKKey(key, m, now)
               THEN [pc |-> "commit", client |-> req[r].client,
                     matched |-> key.ctr, usedAt |-> now]
               ELSE Idle]
  /\ UNCHANGED <<maps, issued, adm, upd, now, accepted>>

(* await store.set(clientId, {...map, status: 'expired'}): the copy that    *)
(* was read before the await overwrites whatever is stored now.             *)
VerifyExpireSet(r) ==
  /\ req[r].pc = "expire"
  /\ maps' = AfterSet(req[r].client, req[r].map)
  /\ req' = [req EXCEPT ![r] = Idle]
  /\ UNCHANGED <<issued, adm, upd, now, accepted>>

(* await store.commitValidation: the commit repeats the lifecycle checks on *)
(* the stored map; a missing entry is TSK_KEY_EXPIRED.                      *)
VerifyCommit(r) ==
  LET c == req[r].client
      m == maps[c]
  IN
  /\ req[r].pc = "commit"
  /\ IF m = NoMap THEN UNCHANGED <<maps, accepted>>
     ELSE /\ maps' = [maps EXCEPT ![c] = commitValidationToMap(
                        m, req[r].matched, req[r].usedAt)]
          /\ accepted' = IF CommitOk(m, req[r].matched, req[r].usedAt)
                         THEN [accepted EXCEPT ![c] = Append(@, req[r].matched)]
                         ELSE accepted
  /\ req' = [req EXCEPT ![r] = Idle]
  /\ UNCHANGED <<issued, adm, upd, now>>

-----------------------------------------------------------------------------
(* TSKProvisioner *)

(* provision: await store.list() and the client limit.                     *)
ProvisionList(a) ==
  /\ adm[a] = Idle
  /\ Cardinality(Present) < MaxClients
  /\ adm' = [adm EXCEPT ![a] = [pc |-> "provision"]]
  /\ UNCHANGED <<maps, issued, req, upd, now, accepted>>

(* provision: generateTumblerMap with a fresh id, then await store.set.    *)
ProvisionSet(a, c, lc) ==
  /\ adm[a].pc = "provision"
  /\ c \notin issued
  /\ IF LimitsOk(lc) /\ SetOk(c, NewMap(lc, now))
     THEN /\ issued' = issued \cup {c}
          /\ maps' = AfterSet(c, NewMap(lc, now))
     ELSE UNCHANGED <<maps, issued>>
  /\ adm' = [adm EXCEPT ![a] = Idle]
  /\ UNCHANGED <<req, upd, now, accepted>>

(* revoke: await store.get, then await store.delete.                       *)
RevokeLookup(a, c) ==
  /\ adm[a] = Idle
  /\ maps' = AfterGet(c)
  /\ adm' = [adm EXCEPT ![a] = IF Got(c) = NoMap THEN Idle
               ELSE [pc |-> "revoke", client |-> c]]
  /\ UNCHANGED <<issued, req, upd, now, accepted>>

RevokeDelete(a) ==
  /\ adm[a].pc = "revoke"
  /\ maps' = [maps EXCEPT ![adm[a].client] = NoMap]
  /\ adm' = [adm EXCEPT ![a] = Idle]
  /\ UNCHANGED <<issued, req, upd, now, accepted>>

(* replaceKey: await store.get and the status check, then generate the      *)
(* replacement and await store.replaceCredential.                           *)
ReplaceLookup(a, c) ==
  /\ adm[a] = Idle
  /\ maps' = AfterGet(c)
  /\ adm' = [adm EXCEPT ![a] =
               IF Got(c) # NoMap /\ Got(c).status \notin Terminal
               THEN [pc |-> "replace", client |-> c] ELSE Idle]
  /\ UNCHANGED <<issued, req, upd, now, accepted>>

ReplaceCommit(a, new, lc) ==
  LET old == adm[a].client IN
  /\ adm[a].pc = "replace"
  /\ new \notin issued
  /\ IF LimitsOk(lc) /\ ReplaceOk(old)
     THEN /\ maps' = AfterReplace(old, new, NewMap(lc, now))
          /\ issued' = issued \cup {new}
     ELSE UNCHANGED <<maps, issued>>
  /\ adm' = [adm EXCEPT ![a] = Idle]
  /\ UNCHANGED <<req, upd, now, accepted>>

(* updateKey: await store.get; missing and terminal credentials are left    *)
(* alone.                                                                   *)
UpdateLookup(u, c) ==
  /\ upd[u] = Idle
  /\ maps' = AfterGet(c)
  /\ upd' = [upd EXCEPT ![u] =
               IF Got(c) # NoMap /\ Got(c).status \notin Terminal
               THEN [pc |-> "update", client |-> c, map |-> Got(c)] ELSE Idle]
  /\ UNCHANGED <<issued, req, adm, now, accepted>>

(* updateKey: new limits, possibly a terminal status, written over the      *)
(* entry with the counters, use count and status that were read before.     *)
(* Any other status change, or a bad warning window, is refused.            *)
UpdateSet(u, lc, st) ==
  LET m == upd[u].map IN
  /\ upd[u].pc = "update"
  /\ maps' = IF /\ st \in {m.status} \cup Terminal
                /\ lc.usageWarn = m.limits.usageWarn \/ LimitsOk(lc)
             THEN AfterSet(upd[u].client, [m EXCEPT !.limits = lc, !.status = st])
             ELSE maps
  /\ upd' = [upd EXCEPT ![u] = Idle]
  /\ UNCHANGED <<issued, req, adm, now, accepted>>

(* getKey and listKeys read through store.get, which applies the TTL.       *)
GetKey(c) ==
  /\ maps' = AfterGet(c)
  /\ UNCHANGED <<issued, req, adm, upd, now, accepted>>

Tick ==
  /\ now < MaxTime
  /\ now' = now + 1
  /\ UNCHANGED <<maps, issued, req, adm, upd, accepted>>

-----------------------------------------------------------------------------
Verify(r) ==
  \/ \E c \in ClientId : VerifyLookup(r, c)
  \/ VerifyDenied(r)
  \/ VerifyAutoExpire(r)
  \/ \E ctr \in Vector, w \in 0..MaxTime : VerifyKey(r, [ctr |-> ctr, window |-> w])
  \/ VerifyExpireSet(r)
  \/ VerifyCommit(r)

Administer(a) ==
  \/ ProvisionList(a)
  \/ \E c \in ClientId, lc \in Lifecycle : ProvisionSet(a, c, lc)
  \/ \E c \in ClientId : RevokeLookup(a, c)
  \/ RevokeDelete(a)
  \/ \E c \in ClientId : ReplaceLookup(a, c)
  \/ \E c \in ClientId, lc \in Lifecycle : ReplaceCommit(a, c, lc)

Quiet ==
  \/ \E r \in Requests : Verify(r)
  \/ \E a \in Admins : Administer(a)
  \/ \E u \in Updaters, c \in ClientId : UpdateLookup(u, c)
  \/ \E c \in ClientId : GetKey(c)
  \/ Tick

Update(u) == \E lc \in Lifecycle, st \in Status : UpdateSet(u, lc, st)

Next == Quiet \/ \E u \in Updaters : Update(u)

Spec == Init /\ [][Next]_vars

(***************************************************************************)
(* The behaviours in which no updateKey loses an update: each write-back   *)
(* finds the entry it read.  The code does not enforce this; callers that  *)
(* serialise metadata updates with traffic do.                             *)
(***************************************************************************)
Unmoved(u) == upd[u].pc = "update" /\ maps[upd[u].client] = upd[u].map

SerialNext == Quiet \/ \E u \in Updaters : Unmoved(u) /\ Update(u)
SerialSpec == Init /\ [][SerialNext]_vars

-----------------------------------------------------------------------------
Live(c) == maps[c] # NoMap /\ maps[c].status \notin Terminal

(* Every stored map passes assertTumblerMapCounterState, whatever stale     *)
(* copies are written back: no map is stored that the next set or commit    *)
(* would reject as TSK_HOTP_COUNTER_STATUS_INVALID.                         *)
StoredMapsConsistent == \A c \in Present : CounterStateOk(maps[c])

(* MemoryTumblerStore never holds more than maxEntries maps, replacements   *)
(* at full capacity included.                                               *)
CapacityBound == Cardinality(Present) <= MaxEntries

(* verifyTSKRequest accepts no counter twice: of two accepted requests of   *)
(* a client, the later used a larger counter in every HOTP segment, however *)
(* verifications, expiries and lifecycle ceremonies interleave.             *)
NoReplay ==
  \A c \in ClientId : \A i, j \in DOMAIN accepted[c] :
    i < j => \A s \in Seg : accepted[c][i][s] < accepted[c][j][s]

(* The usage cap holds under concurrency: an accepted request never takes   *)
(* the number of accepted requests past the stored maxRequests.             *)
UsageCap ==
  [][\A c \in ClientId :
       (accepted'[c] # accepted[c] /\ maps[c].limits.maxRequests > 0)
         => Len(accepted'[c]) <= maps[c].limits.maxRequests]_vars

(* A credential that was revoked, replaced, expired or exhausted is never   *)
(* usable again: no stale write-back revives it.                            *)
DeadStaysDead ==
  [][\A c \in issued : ~Live(c) => ~Live(c)']_vars

(***************************************************************************)
(* Why the properties above hold, as one inductive invariant.  A copy held *)
(* across an await belongs to an issued credential, and the copy that the  *)
(* auto-expiry writes back is terminal, so writing it cannot revive        *)
(* anything; a live map's counters are above every accepted one and its    *)
(* requestCount is exact.                                                  *)
(***************************************************************************)
CopiesIssued ==
  /\ \A r \in Requests : req[r].pc # "idle" => req[r].client \in issued
  /\ \A a \in Admins : adm[a].pc \in {"revoke", "replace"} => adm[a].client \in issued
  /\ \A u \in Updaters : upd[u].pc = "update" => upd[u].client \in issued

WriteBackTerminal ==
  \A r \in Requests : req[r].pc = "expire" => req[r].map.status = "expired"

CopiesLive ==
  \A u \in Updaters : upd[u].pc = "update" => upd[u].map.status \notin Terminal

UnissuedUnused ==
  \A c \in ClientId \ issued : maps[c] = NoMap /\ accepted[c] = << >>

FloorAboveUses ==
  \A c \in ClientId : Live(c) =>
    /\ maps[c].requestCount = Len(accepted[c])
    /\ \A i \in DOMAIN accepted[c] : \A s \in Seg :
         accepted[c][i][s] < maps[c].ctr[s]

(* The inductive invariant behind NoReplay, UsageCap and KeepsPromise: the  *)
(* stored counters of a live map stay above everything it was accepted with *)
(* whatever verifyTSKRequest and the provisioner hold across an await.      *)
CounterInv ==
  /\ CopiesIssued
  /\ WriteBackTerminal
  /\ CopiesLive
  /\ UnissuedUnused
  /\ FloorAboveUses
  /\ NoReplay

(***************************************************************************)
(* The credential as its holder sees it: unborn until its id is stored,    *)
(* live with the stored counters as its floor, dead when its map is gone   *)
(* or terminal.                                                            *)
(***************************************************************************)
CredOf(c) ==
  LET zero == [s \in Seg |-> 0] IN
  CASE c \notin issued -> [phase |-> "unborn", floor |-> zero]
    [] c \in issued /\ Live(c) -> [phase |-> "live", floor |-> maps[c].ctr]
    [] OTHER -> [phase |-> "dead", floor |-> zero]

Promise == INSTANCE OneTimeCredential WITH cred <- [c \in ClientId |-> CredOf(c)]

(* The server keeps the promise of OneTimeCredential: every step of every   *)
(* handler is an issue, a use, a retirement, a rotation or invisible.       *)
KeepsPromise == Promise!AbstractSpec
=============================================================================
