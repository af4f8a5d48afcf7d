---------------------------- MODULE OutboxScope -----------------------------
(***************************************************************************)
(* The transaction scope and the schema version of the HOTP outbox         *)
(* (packages/server/src/tsk-hotp-outbox-pg.ts): withBoundTx retains every  *)
(* query a body launches and rolls back when one failed or is in flight as *)
(* the body ends; runScoped bounds the whole by a deadline; the meta row   *)
(* holds the version the tables were attested at.                          *)
(*                                                                         *)
(* A body launches queries, waits for some of them, may swallow their      *)
(* errors, and may leave one unawaited.  Tables are changed and stamped by *)
(* an offline migration; this release is version 1 and a later one, 2.     *)
(***************************************************************************)
EXTENDS Integers, FiniteSets

CONSTANTS
  Scope,        \* calls of withBoundTx
  Query,        \* queries a body launches
  MaxRelease    \* newest release that migrates the schema

ASSUME ScopeAssumption == MaxRelease \in Nat /\ MaxRelease >= 1

VARIABLES
  scope,     \* scope[s]: open, closing, committed or rolledBack
  query,     \* query[s][q]: unused, pending, ok or failed
  unawaited, \* scopes that ended with a query in flight (hadUnawaitedInFlight)
  meta,      \* schema_version of the meta row; 0: no row
  tables,    \* the release whose manifest the catalog matches; 0: none
  ready      \* releases that hold a SchemaReadyToken

scopeVars == <<scope, query, unawaited, meta, tables, ready>>

ScopeInit ==
  /\ scope = [s \in Scope |-> "open"]
  /\ query = [s \in Scope |-> [q \in Query |-> "unused"]]
  /\ unawaited = {}
  /\ meta = 0 /\ tables = 0 /\ ready = {}

schemaRest == <<meta, tables, ready>>
bodyRest   == <<scope, query, unawaited>>

Pending(s)       == {q \in Query : query[s][q] = "pending"}
RejectionSeen(s) == \E q \in Query : query[s][q] = "failed"

-----------------------------------------------------------------------------
(* scoped.query: refused once the scope is closing.                        *)
launch(s, q) ==
  /\ scope[s] = "open" /\ query[s][q] = "unused"
  /\ query' = [query EXCEPT ![s][q] = "pending"]
  /\ UNCHANGED <<scope, unawaited, schemaRest>>

settle(s, q) ==
  /\ q \in Pending(s)
  /\ \E result \in {"ok", "failed"} : query' = [query EXCEPT ![s][q] = result]
  /\ UNCHANGED <<scope, unawaited, schemaRest>>

(* The body returns, whatever it did with the queries' errors.             *)
bodyReturns(s) ==
  /\ scope[s] = "open"
  /\ scope' = [scope EXCEPT ![s] = "closing"]
  /\ unawaited' = IF Pending(s) # {} THEN unawaited \cup {s} ELSE unawaited
  /\ UNCHANGED <<query, schemaRest>>

(* The body throws, or the deadline of runScoped aborts the transaction.   *)
abortScope(s) ==
  /\ scope[s] \in {"open", "closing"}
  /\ scope' = [scope EXCEPT ![s] = "rolledBack"]
  /\ UNCHANGED <<query, unawaited, schemaRest>>

(* As a bug: only the errors the body lets through roll back.              *)
closeScope_IgnoresRejection(s) ==
  /\ scope[s] = "closing" /\ Pending(s) = {}
  /\ scope' = [scope EXCEPT ![s] = IF s \in unawaited THEN "rolledBack" ELSE "committed"]
  /\ UNCHANGED <<query, unawaited, schemaRest>>

(* allSettled, then the verdict.                                           *)
closeScope(s) ==
  /\ scope[s] = "closing" /\ Pending(s) = {}
  /\ scope' = [scope EXCEPT ![s] =
       IF RejectionSeen(s) \/ s \in unawaited THEN "rolledBack" ELSE "committed"]
  /\ UNCHANGED <<query, unawaited, schemaRest>>

-----------------------------------------------------------------------------
(* The offline migration brings the tables to a release, never back.       *)
migrate(v) ==
  /\ v > tables
  /\ tables' = v
  /\ UNCHANGED <<meta, ready, bodyRest>>

(* provisionSchemaVersion by release v: a fresh stamp.                     *)
provisionSchemaVersion(v) ==
  /\ tables = v /\ meta \in {0, v}
  /\ meta' = v
  /\ ready' = ready \cup {v}
  /\ UNCHANGED <<tables, bodyRest>>

(* adoptCurrentSchemaVersion: an older stamp is raised, a newer refused.   *)
adoptCurrentSchemaVersion(v) ==
  /\ tables = v /\ meta <= v
  /\ meta' = v
  /\ ready' = ready \cup {v}
  /\ UNCHANGED <<tables, bodyRest>>

assertSchemaReady(v) ==
  /\ tables = v /\ meta = v
  /\ ready' = ready \cup {v}
  /\ UNCHANGED <<meta, tables, bodyRest>>

ScopeNext ==
  \/ \E s \in Scope :
       \/ \E q \in Query : launch(s, q) \/ settle(s, q)
       \/ bodyReturns(s) \/ abortScope(s) \/ closeScope(s)
  \/ \E v \in 1..MaxRelease :
       \/ migrate(v) \/ provisionSchemaVersion(v)
       \/ adoptCurrentSchemaVersion(v) \/ assertSchemaReady(v)

-----------------------------------------------------------------------------
(* A transaction commits only if every query launched in its scope had     *)
(* succeeded before the body ended: an error the body swallowed and a      *)
(* query nobody waited for both undo the whole.                            *)
CommittedScopeIsClean ==
  \A s \in Scope : scope[s] = "committed" =>
    s \notin unawaited /\ \A q \in Query : query[s][q] \in {"unused", "ok"}

(* A release is ready only if the stamp reached it; the stamp never names  *)
(* a release the tables have not reached, however stamping, migrating and  *)
(* checking by two releases interleave.                                    *)
StampFollowsTables ==
  /\ meta <= tables
  /\ \A v \in ready : v <= meta

(* Outbox transactions: what commits is clean, and what is ready is        *)
(* stamped and migrated, under interleaved queries, releases and           *)
(* adoptions.                                                              *)
ScopeSound == CommittedScopeIsClean /\ StampFollowsTables

-----------------------------------------------------------------------------
(* The scopes and the stamp by themselves, and their inductive invariant.  *)

ScopeSpec == ScopeInit /\ [][ScopeNext]_scopeVars

ScopeInv ==
  /\ scope \in [Scope -> {"open", "closing", "committed", "rolledBack"}]
  /\ query \in [Scope -> [Query -> {"unused", "pending", "ok", "failed"}]]
  /\ unawaited \subseteq Scope
  /\ meta \in 0..MaxRelease /\ tables \in 0..MaxRelease /\ ready \subseteq 1..MaxRelease
  /\ ScopeSound
=============================================================================
