------------------------------ MODULE HttpEdge ------------------------------
(***************************************************************************)
(* The HTTP edge: authenticateTSKHttpRequest, authenticateBpcTskHttpRequest*)
(* and the credential admin handler of packages/node-http/src/adapter.ts,  *)
(* with verifyUltraRequest (packages/bpc-bridge/src/ultra-verify.ts), which*)
(* runs the BPC check, the identity lookup and the TSK check in that order *)
(* over one frozen copy of the request's headers.                          *)
(*                                                                         *)
(* Between two awaits other handlers may rewrite the live headers, and an  *)
(* operator may bind a pair to another client.  The TSK check itself is    *)
(* one step here (TskServer models it): it accepts and consumes a key, it  *)
(* refuses, or it throws and may have consumed one.  The check of the      *)
(* client after the TSK verdict cannot fail: both read the frozen copy.    *)
(***************************************************************************)
EXTENDS FiniteSets

CONSTANTS
  Request,    \* HTTP requests
  Pair,       \* BPC pair ids
  Holder,     \* TSK client ids
  NoHolder,   \* "bound to no client"
  AdminOp     \* admin requests; the one that provisions names the credential

ASSUME EdgeAssumption == NoHolder \notin Holder

VARIABLES
  wire,       \* wire[r]: the live headers (BPC pair and claimed TSK client)
  edge,       \* edge[r]: where the request is, whether BPC vouched for it, its frozen headers
  answer,     \* answer[r]: the HTTP answer
  binding,    \* identityBinding: pair -> client
  everBound,  \* the <<pair, client>> an operator ever bound (history)
  consumed,   \* consumed[r]: the clients whose key the request consumed
  admin,      \* admin[o]: where an admin request is, or its answer
  stored,     \* credentials the store holds
  delivered   \* credentials handed to their client

edgeVars == <<wire, edge, answer, binding, everBound, consumed, admin, stored, delivered>>

Headers == [pair : Pair, client : Holder]

NoHeaders == CHOOSE h \in Headers : TRUE   \* before the request arrives: any

EdgeInit ==
  /\ wire = [r \in Request |-> NoHeaders]
  /\ edge = [r \in Request |-> [pc |-> "idle", bpc |-> FALSE, snap |-> wire[r]]]
  /\ answer = [r \in Request |-> "none"]
  /\ binding = [p \in Pair |-> NoHolder]
  /\ everBound = {}
  /\ consumed = [r \in Request |-> {}]
  /\ admin = [o \in AdminOp |-> "idle"]
  /\ stored = {} /\ delivered = {}

edgeRest  == <<binding, everBound, admin, stored, delivered>>
adminRest == <<wire, edge, answer, binding, everBound, consumed>>

EdgeAt(r, pc, vouched, h) ==
  edge' = [edge EXCEPT ![r] = [pc |-> pc, bpc |-> vouched, snap |-> h]]

Answered(r, code) ==
  /\ EdgeAt(r, "done", edge[r].bpc, edge[r].snap)
  /\ answer' = [answer EXCEPT ![r] = code]

-----------------------------------------------------------------------------
(* authenticateTSKHttpRequest: TSK alone.  The verifier reads the headers  *)
(* before it first waits; its exception reaches the application.           *)
authenticateTSKHttpRequest(r, h) ==
  /\ edge[r].pc = "idle"
  /\ wire' = [wire EXCEPT ![r] = h]
  /\ EdgeAt(r, "done", FALSE, h)
  /\ \/ /\ consumed' = [consumed EXCEPT ![r] = @ \cup {h.client}]
        /\ answer' = [answer EXCEPT ![r] = "200"]
     \/ /\ UNCHANGED consumed
        /\ answer' = [answer EXCEPT ![r] = "401"]
     \/ /\ \/ consumed' = [consumed EXCEPT ![r] = @ \cup {h.client}]
           \/ UNCHANGED consumed
        /\ answer' = [answer EXCEPT ![r] = "thrown"]
  /\ UNCHANGED edgeRest

-----------------------------------------------------------------------------
(* verifyUltraRequest.                                                     *)

(* immutableRequest: the request arrives and its headers are copied, or    *)
(* refused for their shape.                                                *)
immutableRequest(r, h) ==
  /\ edge[r].pc = "idle"
  /\ wire' = [wire EXCEPT ![r] = h]
  /\ \/ /\ EdgeAt(r, "bpc", FALSE, h)
        /\ UNCHANGED answer
     \/ Answered(r, "401")
  /\ UNCHANGED <<consumed, edgeRest>>

(* bpcVerify over the copy: a result with a valid, recent snapshot; any    *)
(* other result; or an exception, after which BPC may have used its nonce. *)
bpcVerify(r) ==
  /\ edge[r].pc = "bpc"
  /\ \/ EdgeAt(r, "resolve", FALSE, edge[r].snap) /\ UNCHANGED answer
     \/ Answered(r, "401")
     \/ Answered(r, "409")
  /\ UNCHANGED <<wire, consumed, edgeRest>>

(* As a bug: the claimed client is not compared with the bound one.        *)
resolve_AnyClaim(r) ==
  /\ edge[r].pc = "resolve"
  /\ \/ IF binding[edge[r].snap.pair] # NoHolder
        THEN /\ EdgeAt(r, "tsk", TRUE, edge[r].snap)
             /\ UNCHANGED answer
        ELSE Answered(r, "401")
     \/ Answered(r, "409")
  /\ UNCHANGED <<wire, consumed, edgeRest>>

(* identityBinding.resolve, and the claimed client has to be the bound one;*)
(* the resolver may throw.                                                 *)
resolve(r) ==
  /\ edge[r].pc = "resolve"
  /\ \/ IF binding[edge[r].snap.pair] = edge[r].snap.client
        THEN /\ EdgeAt(r, "tsk", TRUE, edge[r].snap)
             /\ UNCHANGED answer
        ELSE Answered(r, "401")
     \/ Answered(r, "409")
  /\ UNCHANGED <<wire, consumed, edgeRest>>

verifyTsk(r) ==
  /\ edge[r].pc = "tsk"
  /\ \/ /\ consumed' = [consumed EXCEPT ![r] = @ \cup {edge[r].snap.client}]
        /\ \/ Answered(r, "200") \/ Answered(r, "409")
     \/ /\ UNCHANGED consumed
        /\ \/ Answered(r, "401") \/ Answered(r, "409")
  /\ UNCHANGED <<wire, edgeRest>>

(* Another handler of the same request rewrites its headers.               *)
rewriteHeaders(r, h) ==
  /\ edge[r].pc \in {"bpc", "resolve", "tsk"}
  /\ wire' = [wire EXCEPT ![r] = h]
  /\ UNCHANGED <<edge, answer, consumed, edgeRest>>

rebind(p, c) ==
  /\ binding' = [binding EXCEPT ![p] = c]
  /\ everBound' = everBound \cup ({<<p, c>>} \ {<<p, NoHolder>>})
  /\ UNCHANGED <<wire, edge, answer, consumed, admin, stored, delivered>>

-----------------------------------------------------------------------------
(* createCredentialAdminHandler.                                           *)

(* authenticateOperator; then POST, or an operator refused, or a body or a *)
(* limit refused.                                                          *)
adminProvision(o) ==
  /\ admin[o] = "idle"
  /\ \/ /\ admin' = [admin EXCEPT ![o] = "deliver"]
        /\ stored' = stored \cup {o}
     \/ /\ \E code \in {"400", "401", "422"} : admin' = [admin EXCEPT ![o] = code]
        /\ UNCHANGED stored
  /\ UNCHANGED <<adminRest, delivered>>

(* deliverCredential; when it fails the handler answers 400 and the        *)
(* credential stays in the store.                                          *)
deliverCredential(o) ==
  /\ admin[o] = "deliver"
  /\ \/ /\ delivered' = delivered \cup {o}
        /\ admin' = [admin EXCEPT ![o] = "201"]
     \/ /\ \/ delivered' = delivered \cup {o} \/ UNCHANGED delivered
        /\ admin' = [admin EXCEPT ![o] = "400"]
  /\ UNCHANGED <<adminRest, stored>>

(* DELETE /v1/credentials/c.                                               *)
adminRevoke(o, c) ==
  /\ admin[o] = "idle"
  /\ IF c \in stored
     THEN stored' = stored \ {c} /\ admin' = [admin EXCEPT ![o] = "204"]
     ELSE UNCHANGED stored /\ admin' = [admin EXCEPT ![o] = "404"]
  /\ UNCHANGED <<adminRest, delivered>>

EdgeNext ==
  \/ \E r \in Request :
       \/ \E h \in Headers : \/ authenticateTSKHttpRequest(r, h)
                             \/ immutableRequest(r, h) \/ rewriteHeaders(r, h)
       \/ bpcVerify(r) \/ resolve(r) \/ verifyTsk(r)
  \/ \E p \in Pair, c \in Holder \cup {NoHolder} : rebind(p, c)

(* The admin handler shares no state with the authenticators.              *)
AdminNext ==
  \E o \in AdminOp :
    \/ adminProvision(o) \/ deliverCredential(o)
    \/ \E c \in AdminOp : adminRevoke(o, c)

-----------------------------------------------------------------------------
(* The key a request consumes belongs to the client it claimed on arrival, *)
(* and, on the BPC route, to a client that was bound to the very pair BPC  *)
(* verified for that request, whatever happened to the live headers and to *)
(* the binding while verifyUltraRequest was awaiting.                      *)
ConsumedIsBound ==
  \A r \in Request : \A c \in consumed[r] :
    /\ edge[r].snap.client = c
    /\ edge[r].bpc => <<edge[r].snap.pair, c>> \in everBound

(* 401 means that no key was consumed, so the caller may try again with    *)
(* the same key; whenever one may have been, the answer is 200 or 409      *)
(* (outcomeUnknown, not retryable).                                        *)
DeniedConsumesNothing ==
  \A r \in Request : answer[r] = "401" => consumed[r] = {}

(* 201 means delivered; and a credential that is in the store without      *)
(* having been delivered belongs to a request in progress or answered 400. *)
AdminAnswersTruthful ==
  \A o \in AdminOp :
    /\ admin[o] = "201" => o \in delivered
    /\ o \in stored \ delivered => admin[o] \in {"deliver", "400"}

(* What the HTTP edge answers, to a request and to an administrator,       *)
(* agrees with what was consumed, stored and delivered.                    *)
EdgeSound == ConsumedIsBound /\ DeniedConsumesNothing /\ AdminAnswersTruthful

-----------------------------------------------------------------------------
(* The edge by itself, and the inductive invariant behind it.              *)

EdgeSpec == EdgeInit /\ [][EdgeNext \/ AdminNext]_edgeVars

EdgeTypeOK ==
  /\ edge \in [Request -> [pc : {"idle", "bpc", "resolve", "tsk", "done"}, bpc : BOOLEAN,
                           snap : Headers \cup {NoHeaders}]]
  /\ answer \in [Request -> {"none", "200", "401", "409", "thrown"}]
  /\ binding \in [Pair -> Holder \cup {NoHolder}]
  /\ consumed \in [Request -> SUBSET Holder]
  /\ admin \in [AdminOp -> {"idle", "deliver", "201", "204", "400", "401", "404", "422"}]

(* A request under way has consumed nothing and is not answered; one that  *)
(* reached the TSK check claims a client that was bound to its pair.       *)
RequestInv ==
  /\ \A r \in Request :
       /\ edge[r].pc # "done" => consumed[r] = {} /\ answer[r] = "none"
       /\ edge[r].pc \in {"bpc", "resolve", "tsk"} => edge[r].snap \in Headers
       /\ edge[r].pc = "tsk" => <<edge[r].snap.pair, edge[r].snap.client>> \in everBound
  /\ \A p \in Pair : binding[p] # NoHolder => <<p, binding[p]>> \in everBound

(* Only the admin request that provisioned a credential is behind it.      *)
AdminInv == \A o \in AdminOp : o \in stored => admin[o] \in {"deliver", "201", "400"}

EdgeInv == EdgeTypeOK /\ RequestInv /\ AdminInv /\ EdgeSound
=============================================================================
