----------------------------- MODULE AgentCache -----------------------------
(***************************************************************************)
(* DpapiFailClosedAgentCache (packages/server/src/agent-cache.ts): sealed  *)
(* credential entries, written and read through an operating-system        *)
(* protector that runs as a separate process.                              *)
(*                                                                         *)
(* A write seals and then stores; a read fetches, unseals and then checks. *)
(* Calls overlap between those steps and time passes.  What an entry is    *)
(* bound to (principal, binding hash, policy digest, permissions hash) is  *)
(* one value: the check compares all four.  The sealed blob names neither  *)
(* its key nor its order, so a store may hand out an entry written under   *)
(* another key, or an older one, as long as the protector opens it.        *)
(***************************************************************************)
EXTENDS Integers

CONSTANTS
  CacheCall,    \* calls of write and read
  CacheKey,     \* cache keys
  BoundTo,      \* principal, binding, policy and permissions an entry is for
  MaxHour       \* bound of the model: the clock; entries expire within it

ASSUME CacheAssumption == MaxHour \in Nat

VARIABLES
  vault,      \* vault[k]: the sealed entry of a key
  cacheCalls, \* cacheCalls[w]: a call, its key, its entry, what the caller expects
  servedAt,   \* servedAt[w]: when a read returned its entry
  hour        \* Date.now

cacheVars == <<vault, cacheCalls, servedAt, hour>>

Never0 == -1
CacheEntry == [for : BoundTo, expires : 0..MaxHour]
NothingSealed    == [for |-> "none", expires |-> Never0]
IdleCall   == [pc |-> "idle", key |-> "none", entry |-> NothingSealed, expects |-> "none"]

CacheInit ==
  /\ vault = [k \in CacheKey |-> NothingSealed]
  /\ cacheCalls = [w \in CacheCall |-> IdleCall]
  /\ servedAt = [w \in CacheCall |-> Never0]
  /\ hour = 0

CacheStep(w, pc) ==
  LET c == cacheCalls[w]
  IN  cacheCalls' = [cacheCalls EXCEPT ![w] =
        [pc |-> pc, key |-> c.key, entry |-> c.entry, expects |-> c.expects]]

-----------------------------------------------------------------------------
(* write: createAgentCredentialCacheEntry, then the protector is started.  *)
sealEntry(w, k, entry) ==
  /\ cacheCalls[w].pc = "idle"
  /\ cacheCalls' = [cacheCalls EXCEPT ![w] =
       [pc |-> "seal", key |-> k, entry |-> entry, expects |-> "none"]]
  /\ UNCHANGED <<vault, servedAt, hour>>

(* The protector returns and store.put stores; or it fails.                *)
putEntry(w) ==
  /\ cacheCalls[w].pc = "seal"
  /\ \/ vault' = [vault EXCEPT ![cacheCalls[w].key] = cacheCalls[w].entry]
     \/ UNCHANGED vault
  /\ CacheStep(w, "over")
  /\ UNCHANGED <<servedAt, hour>>

(* read: store.get; nothing stored is CacheUnavailableError.               *)
getEntry(w, k, b) ==
  /\ cacheCalls[w].pc = "idle"
  /\ cacheCalls' = [cacheCalls EXCEPT ![w] =
       [pc |-> IF vault[k] = NothingSealed THEN "over" ELSE "unseal",
        key |-> k, entry |-> vault[k], expects |-> b]]
  /\ UNCHANGED <<vault, servedAt, hour>>

(* As a bug: the entry is checked when it is fetched, not when it is open. *)
openEntry_CheckedEarly(w) ==
  /\ cacheCalls[w].pc = "unseal"
  /\ CacheStep(w, "over")
  /\ servedAt' = [servedAt EXCEPT ![w] =
       IF cacheCalls[w].entry.for = cacheCalls[w].expects THEN hour ELSE @]
  /\ UNCHANGED <<vault, hour>>

(* unprotect returns, and validateEntryAgainstCurrentState checks expiry   *)
(* and binding before the entry is handed out; or unprotect fails.         *)
openEntry(w) ==
  /\ cacheCalls[w].pc = "unseal"
  /\ CacheStep(w, "over")
  /\ \/ /\ cacheCalls[w].entry.expires > hour
        /\ cacheCalls[w].entry.for = cacheCalls[w].expects
        /\ servedAt' = [servedAt EXCEPT ![w] = hour]
     \/ UNCHANGED servedAt
  /\ UNCHANGED <<vault, hour>>

(* External: the store hands a key the entry of another.                   *)
misplace(k, from) ==
  /\ vault[from] # NothingSealed
  /\ vault' = [vault EXCEPT ![k] = vault[from]]
  /\ UNCHANGED <<cacheCalls, servedAt, hour>>

hourPasses ==
  /\ hour < MaxHour
  /\ hour' = hour + 1
  /\ UNCHANGED <<vault, cacheCalls, servedAt>>

CacheNext ==
  \/ \E w \in CacheCall :
       \/ \E k \in CacheKey : \/ \E entry \in CacheEntry : sealEntry(w, k, entry)
                              \/ \E b \in BoundTo : getEntry(w, k, b)
       \/ putEntry(w) \/ openEntry(w)
  \/ \E k, from \in CacheKey : misplace(k, from)
  \/ hourPasses

-----------------------------------------------------------------------------
(* Fail closed: an entry that is handed out is unexpired at that moment    *)
(* and bound to what its reader expects, however long the protector took,  *)
(* whichever of two overlapping writes was stored last, and under whatever *)
(* key the store kept it.                                                  *)
ServedIsValid ==
  \A w \in CacheCall : servedAt[w] # Never0 =>
    /\ cacheCalls[w].entry.expires > servedAt[w]
    /\ cacheCalls[w].entry.for = cacheCalls[w].expects

-----------------------------------------------------------------------------
(* The cache by itself, and the inductive invariant behind it: only a call *)
(* that is over has been served, so its entry is no longer replaced.       *)

CacheSpec == CacheInit /\ [][CacheNext]_cacheVars

CacheInv ==
  /\ cacheCalls \in [CacheCall -> [pc : {"idle", "seal", "unseal", "over"},
                                   key : CacheKey \cup {"none"},
                                   entry : CacheEntry \cup {NothingSealed},
                                   expects : BoundTo \cup {"none"}]]
  /\ vault \in [CacheKey -> CacheEntry \cup {NothingSealed}]
  /\ servedAt \in [CacheCall -> Nat \cup {Never0}] /\ hour \in Nat
  /\ \A w \in CacheCall : servedAt[w] # Never0 => cacheCalls[w].pc = "over"
  /\ ServedIsValid
=============================================================================
