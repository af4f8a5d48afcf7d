----------------------------- MODULE SchemaGate -----------------------------
(***************************************************************************)
(* The schema gate in front of every control-plane transaction: criticalTx *)
(* of packages/server/src/ha-control-fencing.ts, the readiness token, and  *)
(* the provisioning and migration of the control schema.                   *)
(*                                                                         *)
(* PostgreSQL (external): a SERIALIZABLE transaction reads through the     *)
(* snapshot its first query took, the queries on the catalog included;     *)
(* LOCK TABLE holds off later DDL but does not refresh that snapshot; a    *)
(* locking read of a row that changed since the snapshot fails.  The gate  *)
(* defends against DDL and DML by someone else, so both are actions here.  *)
(***************************************************************************)
EXTENDS Integers

CONSTANTS
  Session,    \* database sessions that run critical transactions
  Attesting,  \* those whose policy has attestEveryTx
  MaxDdl,     \* bound of the model: foreign DDL statements
  MaxDml      \* bound of the model: foreign writes to the stamp

ASSUME SchemaAssumption == Attesting \subseteq Session /\ {MaxDdl, MaxDml} \subseteq Nat

VARIABLES
  catalog,  \* the live catalog: its shape, and how often it changed
  mark,     \* tsk_ha_schema: the stamp, and how often it changed
  gate,     \* the progress of each session
  tokens    \* sessions that hold a ControlSchemaReadyToken

gateVars == <<catalog, mark, gate, tokens>>

Shape == {"v1", "pinned", "drifted"}
Stamp == {"none", "v1", "pinned", "altered"}
Outside == [pc |-> "out"]
Gate == [pc : {"entered", "locked", "attested", "held", "mutated"},
         shape : Shape, ddl : Nat, stamp : Stamp, dml : Nat, locked : Nat, share : BOOLEAN]

(* A fresh v2 schema, or a v1 installation awaiting its migration.         *)
GateInit ==
  /\ \E start \in {[shape |-> "pinned", stamp |-> "none"], [shape |-> "v1", stamp |-> "v1"]} :
       /\ catalog = [shape |-> start.shape, ddl |-> 0]
       /\ mark = [stamp |-> start.stamp, dml |-> 0]
  /\ gate = [s \in Session |-> Outside]
  /\ tokens = {}

At(s, pc)    == gate[s].pc = pc
Past(s)      == gate[s].pc \in {"locked", "attested", "held", "mutated"}
RowShared(s) == gate[s].pc \in {"held", "mutated"} /\ gate[s].share
(* ACCESS SHARE on every governed table, and ROW SHARE on the stamp's.     *)
TableLocked  == \E s \in Session : Past(s) /\ gate[s].locked > 0
StampLocked  == \E s \in Session : RowShared(s)

-----------------------------------------------------------------------------
(* BEGIN SERIALIZABLE, pinSchema, assertNoShadow: the snapshot is taken.   *)
(* Any session may try; the operations of HaControlFencing need a token.   *)
enterCriticalTx(s) ==
  /\ gate[s] = Outside
  /\ gate' = [gate EXCEPT ![s] = [pc |-> "entered", shape |-> catalog.shape, ddl |-> catalog.ddl,
                stamp |-> mark.stamp, dml |-> mark.dml, locked |-> 0, share |-> FALSE]]
  /\ UNCHANGED <<catalog, mark, tokens>>

(* LOCK TABLE ... IN ACCESS SHARE MODE, of a session that attests.         *)
lockGoverned(s) ==
  /\ At(s, "entered") /\ s \in tokens \cap Attesting
  /\ gate' = [gate EXCEPT ![s].pc = "locked", ![s].locked = catalog.ddl + 1]
  /\ UNCHANGED <<catalog, mark, tokens>>

(* As a bug: the live catalog is not compared with the pinned digest.      *)
attestControlSchema_Skipped(s) ==
  /\ At(s, "locked")
  /\ gate' = [gate EXCEPT ![s].pc = "attested"]
  /\ UNCHANGED <<catalog, mark, tokens>>

attestControlSchema(s) ==
  /\ At(s, "locked")
  /\ gate[s].shape = "pinned"
  /\ gate' = [gate EXCEPT ![s].pc = "attested"]
  /\ UNCHANGED <<catalog, mark, tokens>>

Attested(s) == At(s, "attested") \/ (At(s, "entered") /\ s \in tokens \ Attesting)

(* SELECT ... FOR SHARE: exactly one row, at the compiled version and      *)
(* digest; a stamp written since the snapshot is a serialization failure.  *)
revalidateAuthorityRow(s) ==
  /\ Attested(s)
  /\ gate[s].stamp = "pinned" /\ gate[s].dml = mark.dml
  /\ gate' = [gate EXCEPT ![s].pc = "held", ![s].share = TRUE]
  /\ UNCHANGED <<catalog, mark, tokens>>

(* fn(exec): the operation's own writes. *)
mutate(s) ==
  /\ At(s, "held")
  /\ gate' = [gate EXCEPT ![s].pc = "mutated"]
  /\ UNCHANGED <<catalog, mark, tokens>>

(* COMMIT, or any refusal, failure or retry: every lock is released.       *)
leaveCriticalTx(s) ==
  /\ gate[s] # Outside
  /\ gate' = [gate EXCEPT ![s] = Outside]
  /\ UNCHANGED <<catalog, mark, tokens>>

-----------------------------------------------------------------------------
(* assertControlSchemaReady reads one snapshot and mints the token.        *)
assertControlSchemaReady(s) ==
  /\ At(s, "entered") /\ s \notin tokens
  /\ gate[s].shape = "pinned" /\ gate[s].stamp = "pinned"
  /\ tokens' = tokens \cup {s}
  /\ gate' = [gate EXCEPT ![s] = Outside]
  /\ UNCHANGED <<catalog, mark>>

(* provisionControlSchema: attest, then stamp an unstamped schema.         *)
provisionControlSchema(s) ==
  /\ At(s, "entered") /\ s \notin tokens
  /\ gate[s].shape = "pinned" /\ gate[s].stamp = "none"
  /\ mark.dml = gate[s].dml
  /\ mark' = [stamp |-> "pinned", dml |-> mark.dml + 1]
  /\ tokens' = tokens \cup {s}
  /\ gate' = [gate EXCEPT ![s] = Outside]
  /\ UNCHANGED catalog

(* migrateControlSchemaV1ToV2: ACCESS EXCLUSIVE on every table, the stamp  *)
(* FOR UPDATE, the v1 catalog attested, the signed activations converted,  *)
(* the new catalog attested and stamped, in one transaction.               *)
migrateControlSchemaV1ToV2(s) ==
  /\ At(s, "entered")
  /\ ~TableLocked /\ ~StampLocked
  /\ gate[s].stamp = "v1" /\ gate[s].dml = mark.dml
  /\ gate[s].shape = "v1"
  /\ mark' = [stamp |-> "pinned", dml |-> mark.dml + 1]
  /\ catalog' = [shape |-> IF catalog.shape = "v1" THEN "pinned" ELSE catalog.shape,
                 ddl |-> catalog.ddl + 1]
  /\ gate' = [gate EXCEPT ![s] = Outside]
  /\ UNCHANGED tokens

-----------------------------------------------------------------------------
(* Someone with DDL rights alters a governed table, or writes the stamp.   *)
ForeignDdl ==
  /\ catalog.ddl < MaxDdl /\ ~TableLocked
  /\ \E sh \in Shape \ {catalog.shape} : catalog' = [shape |-> sh, ddl |-> catalog.ddl + 1]
  /\ UNCHANGED <<mark, gate, tokens>>

ForeignDml ==
  /\ mark.dml < MaxDml /\ ~StampLocked
  /\ \E st \in Stamp \ {mark.stamp} : mark' = [stamp |-> st, dml |-> mark.dml + 1]
  /\ UNCHANGED <<catalog, gate, tokens>>

GateNext ==
  \/ \E s \in Session : \/ enterCriticalTx(s) \/ lockGoverned(s) \/ attestControlSchema(s)
                        \/ revalidateAuthorityRow(s) \/ mutate(s) \/ leaveCriticalTx(s)
                        \/ assertControlSchemaReady(s) \/ provisionControlSchema(s)
                        \/ migrateControlSchemaV1ToV2(s)
  \/ ForeignDdl \/ ForeignDml

-----------------------------------------------------------------------------
(* Representation.                                                         *)
GateTypeOK ==
  /\ catalog \in [shape : Shape, ddl : 0..(MaxDdl + 1)]
  /\ mark \in [stamp : Stamp, dml : 0..(MaxDml + 1)]
  /\ gate \in [Session -> Gate \cup {Outside}]
  /\ tokens \subseteq Session

(* No operation mutates over an authority stamp that is not the compiled   *)
(* one at that moment, whoever wrote the stamp since its transaction began.*)
StampStands ==
  \A s \in Session : At(s, "mutated") => mark.stamp = "pinned"

(* An attesting operation mutates only when the catalog was the pinned one *)
(* at its snapshot and has not changed since its LOCK: DDL gets past the   *)
(* gate only between the snapshot and the LOCK of one transaction, so a    *)
(* drift always stops the operations that begin after it.                  *)
DriftStopsNextOp ==
  \A s \in Attesting : At(s, "mutated") =>
    /\ gate[s].locked = catalog.ddl + 1
    /\ gate[s].ddl = catalog.ddl => catalog.shape = "pinned"

(* A governed operation runs over the pinned stamp and, where it attests,  *)
(* over the pinned catalog, whatever DDL and stamps strike between its     *)
(* steps.                                                                  *)
GateSound == GateTypeOK /\ StampStands /\ DriftStopsNextOp

-----------------------------------------------------------------------------
(* The gate by itself, and the inductive invariant behind it.              *)

GateSpec == GateInit /\ [][GateNext]_gateVars

(* A session's snapshot is of the past, and still current where nothing    *)
(* was written since.                                                      *)
SnapshotInv ==
  \A s \in Session : gate[s] # Outside =>
    /\ gate[s].ddl <= catalog.ddl /\ gate[s].dml <= mark.dml
    /\ gate[s].ddl = catalog.ddl => gate[s].shape = catalog.shape
    /\ gate[s].dml = mark.dml => gate[s].stamp = mark.stamp

(* What each step of criticalTx has established, and its locks keep.       *)
LockInv ==
  \A s \in Session :
    /\ At(s, "entered") => gate[s].locked = 0
    /\ Past(s) /\ gate[s].locked > 0 => gate[s].locked = catalog.ddl + 1
    /\ gate[s].pc \in {"locked", "attested"} => gate[s].locked > 0
    /\ At(s, "attested") => gate[s].shape = "pinned"
    /\ gate[s].pc \in {"held", "mutated"} =>
         /\ gate[s].share /\ gate[s].stamp = "pinned" /\ gate[s].dml = mark.dml
         /\ s \in Attesting => gate[s].locked > 0 /\ gate[s].shape = "pinned"

(* Past the bounds of the model there is nothing left to migrate or stamp. *)
BoundsInv ==
  /\ catalog.ddl = MaxDdl + 1 =>
       /\ catalog.shape # "v1"
       /\ \A s \in Session : gate[s] # Outside /\ gate[s].dml = mark.dml => gate[s].shape # "v1"
  /\ mark.dml = MaxDml + 1 => mark.stamp = "pinned"

GateInv == GateTypeOK /\ SnapshotInv /\ LockInv /\ BoundsInv
=============================================================================
