--------------------------- MODULE ClientCounters ---------------------------
(***************************************************************************)
(* One TSKClient (packages/client-sdk/src/client.ts) with its file storage *)
(* (packages/client-sdk/src/storage.ts), talking to the server that stores *)
(* its credential.  The hard part is that a counter lives in three places, *)
(* the server's map, the client's file and the client's memory, and that   *)
(* the two ends move one after the other with a network in between.        *)
(*                                                                         *)
(* The server's verifyTSKRequest is one step here.  Between its lookup and *)
(* its commit the stored counters only grow (TskServer), so a request the  *)
(* two-step server accepts is one validateTSKKey accepts at the commit.    *)
(* The credential has no lifecycle limits and all keys are derived in the  *)
(* current TOTP window: only the counters decide.                          *)
(***************************************************************************)
EXTENDS TumblerMap

CONSTANTS
  Calls,         \* concurrent TSKClient.fetch calls
  MaxCrashes     \* bound of the model: process restarts

ASSUME ClientAssumption == MaxCrashes \in Nat

VARIABLES
  server,        \* the stored tumbler map
  disk,          \* the counter vector in the client's file
  counters,      \* TSKClient.counters
  up,            \* the process runs and init() has completed
  call,          \* the progress of each fetch and the counters it captured
  crashes        \* restarts so far

clientVars == <<server, disk, counters, up, call, crashes>>

Stored == [Seg -> Counter]
NoCall == [pc |-> "none"]

CallState == {NoCall}
     \cup [pc : {"sent", "orphan", "accepted", "denied", "saved"},
           snapshot : Vector]

(* Representation of both ends: one type invariant for the module.          *)
ClientTypeOK ==
  /\ server \in Map
  /\ disk \in Stored
  /\ counters \in Stored
  /\ up \in BOOLEAN
  /\ call \in [Calls -> CallState]
  /\ crashes \in 0..MaxCrashes

Unlimited == [maxRequests |-> 0, expiresAt |-> Never, usageWarn |-> 1,
              hotpWarn |-> 1]

ClientInit ==
  /\ server = NewMap(Unlimited, 0)
  /\ disk = [s \in Seg |-> 0]
  /\ counters = disk
  /\ up = TRUE
  /\ call = [k \in Calls |-> NoCall]
  /\ crashes = 0

-----------------------------------------------------------------------------
(* fetch: generateHeaders captures the counters, which must all be usable,  *)
(* and the request leaves.                                                  *)
Send(k) ==
  /\ up
  /\ call[k] = NoCall
  /\ counters \in Vector
  /\ call' = [call EXCEPT ![k] = [pc |-> "sent", snapshot |-> counters]]
  /\ UNCHANGED <<server, disk, counters, up, crashes>>

(* A mutant: the header is sent although the commit was refused.            *)
AcceptsWithoutCommit(m, v) == m.status \notin Terminal

Accepts(m, v) == /\ m.status \notin Terminal
                 /\ validateTSKKey([ctr |-> v, window |-> 0], m, 0)
                 /\ CommitOk(m, v, 0)

(* The request reaches the server, which accepts it and answers             *)
(* X-TSK-Authenticated: 1, or denies it and leaves its map alone.  Nobody   *)
(* waits for the answer to an orphan, a request whose sender crashed.       *)
Deliver(k) ==
  LET v  == call[k].snapshot
      ok == Accepts(server, v)
  IN
  /\ call[k].pc \in {"sent", "orphan"}
  /\ server' = IF ok THEN commitValidationToMap(server, v, 0) ELSE server
  /\ call' = [call EXCEPT ![k] =
                IF @.pc = "orphan" THEN NoCall
                ELSE [pc |-> IF ok THEN "accepted" ELSE "denied", snapshot |-> v]]
  /\ UNCHANGED <<disk, counters, up, crashes>>

nextCounters(v) == [s \in Seg |-> v[s] + 1]

(* fetch returns a response without the header: nothing is committed.       *)
ReturnDenied(k) ==
  /\ call[k].pc = "denied"
  /\ call' = [call EXCEPT ![k] = NoCall]
  /\ UNCHANGED <<server, disk, counters, up, crashes>>

(* A mutant: the counters are only kept in memory.                          *)
SaveCountersSkipped(k) ==
  /\ call[k].pc = "accepted"
  /\ call' = [call EXCEPT ![k].pc = "saved"]
  /\ UNCHANGED <<server, disk, counters, up, crashes>>

(* commitHOTPCounters, first half: saveCounters.  The file's mutation queue *)
(* makes each read-change-rename cycle one step.                            *)
SaveCounters(k) ==
  /\ call[k].pc = "accepted"
  /\ disk' = nextCounters(call[k].snapshot)
  /\ call' = [call EXCEPT ![k].pc = "saved"]
  /\ UNCHANGED <<server, counters, up, crashes>>

(* A mutant: the counters are saved but not set in memory.                  *)
CommitMemorySkipped(k) ==
  /\ call[k].pc = "saved"
  /\ call' = [call EXCEPT ![k] = NoCall]
  /\ UNCHANGED <<server, disk, counters, up, crashes>>

(* commitHOTPCounters, second half: the continuation after the await sets   *)
(* the counters in memory, and fetch returns.                               *)
CommitMemory(k) ==
  /\ call[k].pc = "saved"
  /\ counters' = nextCounters(call[k].snapshot)
  /\ call' = [call EXCEPT ![k] = NoCall]
  /\ UNCHANGED <<server, disk, up, crashes>>

(* The network loses a request or a response, so fetch throws, or           *)
(* saveCounters fails: nothing is committed on the client.                  *)
Lose(k) ==
  /\ call[k].pc \in {"sent", "orphan", "accepted", "denied"}
  /\ call' = [call EXCEPT ![k] = NoCall]
  /\ UNCHANGED <<server, disk, counters, up, crashes>>

(* The process dies.  Requests on the wire may still arrive; everything     *)
(* else that a call was doing is gone.                                      *)
Crash ==
  /\ up /\ crashes < MaxCrashes
  /\ up' = FALSE
  /\ crashes' = crashes + 1
  /\ call' = [k \in Calls |->
                IF call[k].pc \in {"sent", "orphan"}
                THEN [pc |-> "orphan", snapshot |-> call[k].snapshot]
                ELSE NoCall]
  /\ UNCHANGED <<server, disk, counters>>

(* init(): payload and counters are read from the file.                     *)
InitClient ==
  /\ ~up
  /\ counters' = disk
  /\ up' = TRUE
  /\ UNCHANGED <<server, disk, call, crashes>>

Work(k) == Send(k) \/ Deliver(k) \/ ReturnDenied(k) \/ SaveCounters(k)
           \/ CommitMemory(k)

ClientNext == (\E k \in Calls : Work(k) \/ Lose(k)) \/ Crash \/ InitClient
ClientSpec == ClientInit /\ [][ClientNext]_clientVars

(***************************************************************************)
(* The application keeps calling fetch, the event loop runs every          *)
(* continuation, a dead process is started again, and the network does not *)
(* lose every request: a call that is sent again and again arrives.        *)
(* Responses may all be lost.                                              *)
(***************************************************************************)
ClientFairness ==
  /\ WF_clientVars(InitClient)
  /\ \A k \in Calls :
       /\ WF_clientVars(Send(k))
       /\ SF_clientVars(Deliver(k))
       /\ WF_clientVars(ReturnDenied(k) \/ SaveCounters(k) \/ CommitMemory(k))

FairClientSpec == ClientSpec /\ ClientFairness

-----------------------------------------------------------------------------
Committing(k) == call[k].pc \in {"accepted", "saved"}

(* Commit-after-auth: whatever is lost, delayed or crashes, neither the     *)
(* client's file nor its memory is ever ahead of the server, so no failure  *)
(* can push the client out of the server's lookahead window.                *)
NeverAhead == \A s \in Seg : /\ disk[s] <= server.ctr[s]
                             /\ counters[s] <= disk[s]

(* Concurrent fetches cannot roll the client back: no late                  *)
(* commitHOTPCounters of an older snapshot overwrites a newer counter, in   *)
(* the file or in memory.                                                   *)
NoRollback ==
  [][\A s \in Seg : disk'[s] >= disk[s] /\ counters'[s] >= counters[s]]_clientVars

(* The client moves at most one step behind an acceptance: when a response  *)
(* is being committed the server is exactly one ahead of its snapshot, and  *)
(* no second acceptance is outstanding.                                     *)
OneCommitAtATime ==
  \A k \in Calls : Committing(k) =>
    /\ server.ctr = nextCounters(call[k].snapshot)
    /\ \A j \in Calls : Committing(j) => j = k

(* The inductive invariant behind the three: what each call still in flight *)
(* knows about memory, file and server.                                     *)
ClientInv ==
  /\ NeverAhead
  /\ OneCommitAtATime
  /\ \A k \in Calls : call[k].pc \in {"sent", "orphan"} =>
       \A s \in Seg : call[k].snapshot[s] <= counters[s]
  /\ \A k \in Calls : call[k].pc = "accepted" => disk = call[k].snapshot
  /\ \A k \in Calls : call[k].pc = "saved" => disk = nextCounters(call[k].snapshot)
  /\ \A k \in Calls : Committing(k) => counters = call[k].snapshot
  /\ (up /\ \A k \in Calls : call[k].pc # "saved") => counters = disk
  /\ ~up => \A k \in Calls : call[k].pc \in {"none", "orphan"}

(* A client left behind is locked out for good: the server never accepts a  *)
(* counter below the stored one, so once an acceptance was missed no later  *)
(* request of this client is accepted.                                      *)
LockoutIsFinal ==
  [][ (\E s \in Seg : disk[s] < server.ctr[s]) /\ (\A k \in Calls : ~Committing(k))
      => server' = server ]_clientVars

(* The server has accepted a counter this client will never commit.         *)
LeftBehind == (\E s \in Seg : disk[s] < server.ctr[s]) /\ (\A k \in Calls : ~Committing(k))

(* Concurrent fetches that overtake each other, lost messages and restarts  *)
(* never leave the client spinning: under FairClientSpec every counter      *)
(* below the ceiling is eventually used and left behind, in memory too,     *)
(* unless the response that accepted it was lost for good.                  *)
UsedOrLeftBehind ==
  \A n \in Usable : (\A s \in Seg : counters[s] = n)
                       ~> ((\A s \in Seg : counters[s] = n + 1) \/ LeftBehind)
=============================================================================
