------------------------------ MODULE Failover ------------------------------
(***************************************************************************)
(* FailoverTransport (packages/client-sdk/src/failover-transport.ts):      *)
(* reads go down the chain of endpoints, writes to the primary only, and   *)
(* misses within a window mark an endpoint unhealthy.                      *)
(*                                                                         *)
(* Endpoint 0 is the primary.  Calls overlap: each waits for one fetch at  *)
(* a time, and what the fetch brings (an answer, or a failure or timeout)  *)
(* changes the health of its endpoint when it arrives, however late.       *)
(***************************************************************************)
EXTENDS Integers, Sequences

CONSTANTS
  Caller,          \* calls of read, write and probe
  Replicas,        \* number of read replicas
  MissThreshold,   \* missThreshold
  MissWindow,      \* windowMs
  MaxMisses, MaxMoment   \* bounds of the model: misses in a row, clock

ASSUME FailoverAssumption ==
  Replicas \in Nat /\ MissThreshold \in Nat \ {0} /\ MissWindow \in Nat

Endpoint == 0..Replicas

VARIABLES
  health,    \* health[e]: healthy, streak and streakStartedAt of an endpoint
  fetches,   \* fetches[k]: what a call is doing, and the endpoint it waits for
  tried,     \* tried[k]: the endpoints whose answer failed the call
  misses,    \* misses[e]: when e missed since its last success (history)
  moment     \* Date.now

failoverVars == <<health, fetches, tried, misses, moment>>

NotStarted == -1

FailoverInit ==
  /\ health = [e \in Endpoint |-> [healthy |-> TRUE, streak |-> 0, startedAt |-> NotStarted]]
  /\ fetches = [k \in Caller |-> [op |-> "idle", at |-> 0]]
  /\ tried = [k \in Caller |-> {}]
  /\ misses = [e \in Endpoint |-> <<>>]
  /\ moment = 0

recordSuccess(e) ==
  /\ health' = [health EXCEPT ![e] = [healthy |-> TRUE, streak |-> 0, startedAt |-> NotStarted]]
  /\ misses' = [misses EXCEPT ![e] = <<>>]

(* As a bug: misses add up however far apart they are.                     *)
recordMiss_NoWindow(e) ==
  LET h == health[e]
      streak == h.streak + 1
  IN  /\ Len(misses[e]) < MaxMisses
      /\ misses' = [misses EXCEPT ![e] = Append(@, moment)]
      /\ health' = [health EXCEPT ![e] =
           [healthy |-> h.healthy /\ streak < MissThreshold, streak |-> streak,
            startedAt |-> IF h.streak = 0 THEN moment ELSE h.startedAt]]

(* A miss outside the window of the streak starts a new one.               *)
recordMiss(e) ==
  LET h == health[e]
      anew == h.startedAt = NotStarted \/ moment - h.startedAt > MissWindow
      streak == IF anew THEN 1 ELSE h.streak + 1
  IN  /\ Len(misses[e]) < MaxMisses
      /\ misses' = [misses EXCEPT ![e] = Append(@, moment)]
      /\ health' = [health EXCEPT ![e] =
           [healthy |-> h.healthy /\ streak < MissThreshold, streak |-> streak,
            startedAt |-> IF anew THEN moment ELSE h.startedAt]]

FetchAt(k, op, e) == fetches' = [fetches EXCEPT ![k] = [op |-> op, at |-> e]]

-----------------------------------------------------------------------------
(* The next endpoint of the first loop of read: the next healthy one, or   *)
(* the last-resort loop from the start of the chain.                       *)
NextHealthy(from, hs) ==
  LET up == {e \in Endpoint : e >= from /\ hs[e].healthy}
  IN  IF up = {} THEN [op |-> "lastResort", at |-> 0]
      ELSE [op |-> "read", at |-> CHOOSE e \in up : \A d \in up : e <= d]

read(k) ==
  /\ fetches[k].op = "idle"
  /\ fetches' = [fetches EXCEPT ![k] = NextHealthy(0, health)]
  /\ UNCHANGED <<health, tried, misses, moment>>

(* write to an unhealthy primary throws at once.                           *)
write(k) ==
  /\ fetches[k].op = "idle"
  /\ FetchAt(k, IF health[0].healthy THEN "write" ELSE "threw", fetches[k].at)
  /\ UNCHANGED <<health, tried, misses, moment>>

probe(k, e) ==
  /\ fetches[k].op = "idle"
  /\ FetchAt(k, "probe", e)
  /\ UNCHANGED <<health, tried, misses, moment>>

(* The endpoint answers (for a probe: with 2xx).                           *)
fetchAnswers(k) ==
  /\ fetches[k].op \in {"read", "lastResort", "write", "probe"}
  /\ recordSuccess(fetches[k].at)
  /\ FetchAt(k, "done", fetches[k].at)
  /\ UNCHANGED <<tried, moment>>

(* The fetch of a read fails: a miss, and the next healthy endpoint; a     *)
(* last-resort fetch goes on to the next endpoint and counts as no miss.   *)
readFails(k) ==
  /\ \/ /\ fetches[k].op = "read"
        /\ recordMiss(fetches[k].at)
        /\ fetches' = [fetches EXCEPT ![k] = NextHealthy(fetches[k].at + 1, health')]
     \/ /\ fetches[k].op = "lastResort"
        /\ IF fetches[k].at = Replicas THEN FetchAt(k, "failed", 0)
           ELSE FetchAt(k, "lastResort", fetches[k].at + 1)
        /\ UNCHANGED <<health, misses>>
  /\ tried' = [tried EXCEPT ![k] = @ \cup {fetches[k].at}]
  /\ UNCHANGED moment

(* A write or a probe fails, or the probe is answered with another status. *)
fetchFails(k) ==
  /\ fetches[k].op \in {"write", "probe"}
  /\ recordMiss(fetches[k].at)
  /\ FetchAt(k, "threw", fetches[k].at)
  /\ UNCHANGED <<tried, moment>>

(* The caller goes on to its next call.                                    *)
again(k) ==
  /\ fetches[k].op \in {"done", "failed", "threw"}
  /\ FetchAt(k, "idle", 0)
  /\ tried' = [tried EXCEPT ![k] = {}]
  /\ UNCHANGED <<health, misses, moment>>

momentPasses ==
  /\ moment < MaxMoment
  /\ moment' = moment + 1
  /\ UNCHANGED <<health, fetches, tried, misses>>

FailoverNext ==
  \/ \E k \in Caller :
       \/ read(k) \/ write(k) \/ fetchAnswers(k) \/ readFails(k) \/ fetchFails(k) \/ again(k)
       \/ \E e \in Endpoint : probe(k, e)
  \/ momentPasses

-----------------------------------------------------------------------------
(* An endpoint is out of use only after missThreshold misses in a row, all *)
(* within windowMs and with no success between them, counting every call   *)
(* in flight together.                                                     *)
UnhealthyIsJustified ==
  \A e \in Endpoint : ~health[e].healthy =>
    \E i \in DOMAIN misses[e] :
      /\ i + MissThreshold - 1 \in DOMAIN misses[e]
      /\ misses[e][i + MissThreshold - 1] - misses[e][i] <= MissWindow

(* A read gives up only after every endpoint of the chain has failed it,   *)
(* the ones other calls have marked unhealthy included.                    *)
ReadTriesAll == \A k \in Caller : fetches[k].op = "failed" => tried[k] = Endpoint

(* Concurrent calls on the failover transport neither condemn an endpoint  *)
(* without a streak nor give a read up before the chain is spent.          *)
FailoverSound == UnhealthyIsJustified /\ ReadTriesAll

-----------------------------------------------------------------------------
(* The transport by itself, and the inductive invariant behind it.         *)

FailoverSpec == FailoverInit /\ [][FailoverNext]_failoverVars

FailoverTypeOK ==
  /\ health \in [Endpoint -> [healthy : BOOLEAN, streak : Nat, startedAt : Nat \cup {NotStarted}]]
  /\ fetches \in [Caller -> [op : {"idle", "read", "lastResort", "write", "probe", "done", "failed",
                                   "threw"}, at : Endpoint]]
  /\ tried \in [Caller -> SUBSET Endpoint]
  /\ misses \in [Endpoint -> Seq(Nat)]
  /\ moment \in Nat

(* The streak an endpoint is in consists of its last misses, the first of  *)
(* them at streakStartedAt and the others within the window of it.         *)
StreakInv ==
  \A e \in Endpoint : health[e].startedAt # NotStarted =>
    LET first == Len(misses[e]) - health[e].streak + 1
    IN  /\ first \in DOMAIN misses[e] /\ misses[e][first] = health[e].startedAt
        /\ \A i \in first..Len(misses[e]) : misses[e][i] - health[e].startedAt <= MissWindow

(* The last resort goes through the chain in order.                        *)
ChainInv ==
  \A k \in Caller : fetches[k].op = "lastResort" => 0..(fetches[k].at - 1) \subseteq tried[k]

FailoverInv == FailoverTypeOK /\ StreakInv /\ ChainInv /\ FailoverSound
=============================================================================
