-------------------------- MODULE PrincipalSession --------------------------
(***************************************************************************)
(* MemoryPrincipalSessionLedger (packages/server/src/principal-session.ts):*)
(* a principal's sessions, the hash-chained event stream of each agent,    *)
(* and the chain of checkpoints over the heads of those streams.           *)
(*                                                                         *)
(* Every method runs without an await between its reads and its writes, so *)
(* a call is one action; several callers bind, log and close in any order, *)
(* and a call may be repeated.  A chain hash is identified with the list   *)
(* of events it covers, a checkpoint hash with the checkpoints up to it.   *)
(* A proof that is stale or does not verify is refused and changes nothing;*)
(* its nonce is not remembered, so a genuine proof may be presented again. *)
(***************************************************************************)
EXTENDS Integers, Sequences

CONSTANTS
  Principal,    \* principal ids
  Agent,        \* provider and agentInstanceId: the streams of a principal
  ProviderId,   \* providerSessionIds
  MaxEvents     \* bound of the model: events per principal

ASSUME PrincipalAssumption == MaxEvents \in Nat

VARIABLES
  principals,   \* the known principals
  live,         \* activeSessionIds of each principal
  heads,        \* seq and headHash of each stream: the events it covers
  events,       \* the stored events of each stream
  checkpoints   \* the checkpoints of each principal: the heads at that time

principalVars == <<principals, live, heads, events, checkpoints>>

NoHeads == [a \in Agent |-> <<>>]

PrincipalInit ==
  /\ principals = {}
  /\ live = [p \in Principal |-> {}]
  /\ heads = [p \in Principal |-> NoHeads]
  /\ events = [p \in Principal |-> NoHeads]
  /\ checkpoints = [p \in Principal |-> <<>>]

(* bindSession logs an event on every stream it opens.                     *)
Opened(p) == {a \in Agent : heads[p][a] # <<>>}

appendEventToStream(streams, a, ev) == [streams EXCEPT ![a] = Append(@, ev)]

(* appendEventToStream, then appendCheckpoint over every stream's head.    *)
appendEventAndCheckpoint(p, a, ev) ==
  /\ Len(checkpoints[p]) < MaxEvents
  /\ events' = [events EXCEPT ![p] = appendEventToStream(@, a, ev)]
  /\ heads' = [heads EXCEPT ![p] = appendEventToStream(@, a, ev)]
  /\ checkpoints' = [checkpoints EXCEPT ![p] = Append(@, heads'[p])]

upsertPrincipal(p) == principals' = principals \cup {p}

(* upsertPrincipal, upsertStream, the active session, the bound event.     *)
bindSession(p, a, id) ==
  /\ upsertPrincipal(p)
  /\ live' = [live EXCEPT ![p] = @ \cup {id}]
  /\ appendEventAndCheckpoint(p, a, [kind |-> "bound", id |-> id])

appendStreamEvent(p, a, id) ==
  /\ p \in principals /\ a \in Opened(p)
  /\ appendEventAndCheckpoint(p, a, [kind |-> "event", id |-> id])
  /\ UNCHANGED <<principals, live>>

(* As a bug: the session is logged as closed and stays active.             *)
closeSession_StaysActive(p, a, id) ==
  /\ p \in principals /\ a \in Opened(p)
  /\ appendEventAndCheckpoint(p, a, [kind |-> "closed", id |-> id])
  /\ UNCHANGED <<principals, live>>

closeSession(p, a, id) ==
  /\ p \in principals /\ a \in Opened(p)
  /\ live' = [live EXCEPT ![p] = @ \ {id}]
  /\ appendEventAndCheckpoint(p, a, [kind |-> "closed", id |-> id])
  /\ UNCHANGED principals

(* The session is dropped before the unknown stream makes the call throw.  *)
closeSessionThrows(p, a, id) ==
  /\ p \in principals /\ a \notin Opened(p)
  /\ live' = [live EXCEPT ![p] = @ \ {id}]
  /\ UNCHANGED <<principals, heads, events, checkpoints>>

PrincipalNext ==
  \E p \in Principal, a \in Agent, id \in ProviderId :
    \/ bindSession(p, a, id) \/ appendStreamEvent(p, a, id)
    \/ closeSession(p, a, id) \/ closeSessionThrows(p, a, id)

PrincipalSpec == PrincipalInit /\ [][PrincipalNext]_principalVars

-----------------------------------------------------------------------------
SessionEvent == [kind : {"bound", "event", "closed"}, id : ProviderId]
StreamHeads == [Agent -> Seq(SessionEvent)]

PrincipalTypeOK ==
  /\ principals \subseteq Principal
  /\ live \in [Principal -> SUBSET ProviderId]
  /\ heads \in [Principal -> StreamHeads] /\ events \in [Principal -> StreamHeads]
  /\ checkpoints \in [Principal -> Seq(StreamHeads)]

(* The event that the k-th of a chain of checkpoints adds to the one       *)
(* before it.                                                              *)
Before(chain, k) == IF k = 1 THEN NoHeads ELSE chain[k - 1]
Journal(chain, k) ==
  LET a == CHOOSE b \in Agent : chain[k][b] # Before(chain, k)[b]
      h == chain[k][a]
  IN  h[Len(h)]

(* A checkpoint extends the one before it by one event of one stream.      *)
OneEvent(chain, k) ==
  \E a \in Agent :
    LET h == chain[k][a]
    IN  /\ h # <<>> /\ SubSeq(h, 1, Len(h) - 1) = Before(chain, k)[a]
        /\ \A b \in Agent \ {a} : chain[k][b] = Before(chain, k)[b]

(* verifyPrincipalContinuity answers valid for every known principal after *)
(* every call: stream heads, events and the latest checkpoint agree, and   *)
(* each checkpoint extends the one before it by one event of one stream.   *)
ContinuityHolds ==
  \A p \in principals :
    /\ checkpoints[p] # <<>>
    /\ checkpoints[p][Len(checkpoints[p])] = heads[p]
    /\ \A a \in Opened(p) : heads[p][a] = events[p][a]
    /\ \A k \in DOMAIN checkpoints[p] : OneEvent(checkpoints[p], k)

(* The chain binds the session and does not close it afterwards.           *)
Bound(chain, id) ==
  \E k \in DOMAIN chain :
    /\ Journal(chain, k) = [kind |-> "bound", id |-> id]
    /\ \A j \in DOMAIN chain : j > k => Journal(chain, j) # [kind |-> "closed", id |-> id]

(* Whoever is active can be shown to be: the log of the principal binds    *)
(* the session and does not close it afterwards, on any of its streams.    *)
ActiveIsLogged == \A p \in Principal : \A id \in live[p] : Bound(checkpoints[p], id)

(* The principal ledger verifies after every call, a failed append         *)
(* included, and vouches for every session that is active.                 *)
LedgerSound == ContinuityHolds /\ ActiveIsLogged

-----------------------------------------------------------------------------
(* The heads are the events, the last checkpoint covers them, and a        *)
(* principal is known exactly when it has a checkpoint.                    *)
ChainsInv ==
  \A p \in Principal :
    /\ heads[p] = events[p] /\ heads[p] = Before(checkpoints[p], Len(checkpoints[p]) + 1)
    /\ p \in principals <=> checkpoints[p] # <<>>
    /\ \A k \in DOMAIN checkpoints[p] : OneEvent(checkpoints[p], k)

LedgerInv == PrincipalTypeOK /\ ChainsInv /\ ActiveIsLogged
=============================================================================
