----------------------------- MODULE Transactor -----------------------------
(***************************************************************************)
(* NodePostgresTransactor (packages/server/src/pg-transactor.ts): one      *)
(* SERIALIZABLE transaction per call on a borrowed connection, bounded by  *)
(* a deadline, with the outcome reported as one of: committed, committed   *)
(* but the connection was not returned, unknown, or not committed.         *)
(*                                                                         *)
(* The database works on its own: a COMMIT that was sent may still take    *)
(* effect after its connection is destroyed and its caller was answered.   *)
(* The caller's abort signal and the total deadline are one AbortSignal;   *)
(* everything that rejects because of it does so before another event.     *)
(***************************************************************************)
EXTENDS Naturals, FiniteSets

CONSTANTS
  Txn,         \* calls of transaction()
  Conn,        \* connections of the pool
  NoConn,      \* "holds no connection"
  MaxRetries   \* maxSerializationRetries

ASSUME TransactorAssumption == MaxRetries \in Nat /\ NoConn \notin Conn

VARIABLES
  call,     \* call[t]: where the call is, its attempt, its connection, its outcome
  conn,     \* conn[c]: in the pool, checked out, or destroyed
  dirty,    \* connections with an open transaction or session state left behind
  late,     \* calls whose pool.connect() is still to be discarded
  limbo,    \* COMMITs on destroyed connections the database may still carry out
  commits   \* commits[t]: how often the effects of the call became durable

transactorVars == <<call, conn, dirty, late, limbo, commits>>

Outcome  == {"ok", "postCommit", "ambiguous", "error"}
CallState == [pc : {"idle", "acquire", "setup", "work", "check", "commit", "acked",
                    "refused", "scrub", "sleep", "done"},
              attempt : 0..MaxRetries, on : Conn \cup {NoConn},
              outcome : Outcome \cup {"none"}]

TransactorInit ==
  /\ call = [t \in Txn |-> [pc |-> "idle", attempt |-> 0, on |-> NoConn, outcome |-> "none"]]
  /\ conn = [c \in Conn |-> "pooled"]
  /\ dirty = {} /\ late = {} /\ limbo = {}
  /\ commits = [t \in Txn |-> 0]

Goto(t, pc)    == call' = [call EXCEPT ![t].pc = pc]
Finish(t, out) == call' = [call EXCEPT ![t] = [pc |-> "done", attempt |-> call[t].attempt,
                                               on |-> NoConn, outcome |-> out]]

(* The failed attempt is over; the backoff before the next one.            *)
Retry(t) == call' = [call EXCEPT ![t] = [pc |-> "sleep", attempt |-> call[t].attempt,
                                         on |-> NoConn, outcome |-> "none"]]

(* terminalRelease(true): the connection never returns to the pool.        *)
Destroyed(t) == [conn EXCEPT ![call[t].on] = "destroyed"]

-----------------------------------------------------------------------------
begin(t) ==
  /\ call[t].pc = "idle"
  /\ Goto(t, "acquire")
  /\ UNCHANGED <<conn, dirty, late, limbo, commits>>

(* acquire: pool.connect() resolves before the bound.                      *)
acquire(t, c) ==
  /\ call[t].pc = "acquire" /\ conn[c] = "pooled"
  /\ conn' = [conn EXCEPT ![c] = "out"]
  /\ call' = [call EXCEPT ![t] = [pc |-> "setup", attempt |-> call[t].attempt, on |-> c,
                                  outcome |-> "none"]]
  /\ UNCHANGED <<dirty, late, limbo, commits>>

(* The acquisition bound passes first; a connection that still arrives is  *)
(* destroyed and never used.                                               *)
acquireTimeout(t) ==
  /\ call[t].pc = "acquire"
  /\ late' = late \cup {t}
  /\ Finish(t, "error")
  /\ UNCHANGED <<conn, dirty, limbo, commits>>

lateArrives(t, c) ==
  /\ t \in late /\ conn[c] = "pooled"
  /\ late' = late \ {t}
  /\ conn' = [conn EXCEPT ![c] = "destroyed"]
  /\ UNCHANGED <<call, dirty, limbo, commits>>

(* BEGIN, statement_timeout and its readback, the continuity nonce and the *)
(* durability settings are all confirmed.                                  *)
setup(t) ==
  /\ call[t].pc = "setup"
  /\ dirty' = dirty \cup {call[t].on}
  /\ Goto(t, "work")
  /\ UNCHANGED <<conn, late, limbo, commits>>

(* The callback and the pre-commit hook return.                            *)
work(t) ==
  /\ call[t].pc = "work"
  /\ Goto(t, "check")
  /\ UNCHANGED <<conn, dirty, late, limbo, commits>>

(* The nonce is still there, synchronous_commit is forced and the settings *)
(* are still durable: COMMIT is sent.                                      *)
check(t) ==
  /\ call[t].pc = "check"
  /\ Goto(t, "commit")
  /\ UNCHANGED <<conn, dirty, late, limbo, commits>>

(* The database carries COMMIT out, or refuses it (a serialization failure *)
(* found at commit).                                                       *)
dbCommit(t) ==
  /\ call[t].pc = "commit"
  /\ \/ /\ commits' = [commits EXCEPT ![t] = @ + 1]
        /\ Goto(t, "acked")
     \/ /\ UNCHANGED commits
        /\ Goto(t, "refused")
  /\ UNCHANGED <<conn, dirty, late, limbo>>

(* Its answer arrives: `committed' from here on.                           *)
committed(t) ==
  /\ call[t].pc = "acked"
  /\ Goto(t, "scrub")
  /\ UNCHANGED <<conn, dirty, late, limbo, commits>>

(* DISCARD ALL is confirmed and release(false) succeeds.                   *)
releaseNormally(t) ==
  /\ call[t].pc = "scrub"
  /\ dirty' = dirty \ {call[t].on}
  /\ conn' = [conn EXCEPT ![call[t].on] = "pooled"]
  /\ Finish(t, "ok")
  /\ UNCHANGED <<late, limbo, commits>>

(* DISCARD ALL or release(false) fails.                                    *)
scrubFails(t) ==
  /\ call[t].pc = "scrub"
  /\ conn' = Destroyed(t)
  /\ Finish(t, "postCommit")
  /\ UNCHANGED <<dirty, late, limbo, commits>>

-----------------------------------------------------------------------------
(* Failures.                                                               *)

(* A pre-COMMIT failure: bounded ROLLBACK, destroy; a serialization error  *)
(* is tried again while attempts are left, anything else is thrown.        *)
failBeforeCommit(t, retryable) ==
  /\ call[t].pc \in {"setup", "work", "check"}
  /\ conn' = Destroyed(t)
  /\ IF retryable /\ call[t].attempt < MaxRetries
     THEN Retry(t)
     ELSE Finish(t, "error")
  /\ UNCHANGED <<dirty, late, limbo, commits>>

nextAttempt(t) ==
  /\ call[t].pc = "sleep"
  /\ call' = [call EXCEPT ![t] = [pc |-> "acquire", attempt |-> call[t].attempt + 1,
                                  on |-> NoConn, outcome |-> "none"]]
  /\ UNCHANGED <<conn, dirty, late, limbo, commits>>

(* The COMMITs the database has not answered when their connection dies.   *)
Unanswered(t) == IF call[t].pc = "commit" THEN {t} ELSE {}

(* As a bug: a serialization error of COMMIT itself, or a connection that  *)
(* dies under it, is tried again.                                          *)
failAtCommit_Retries(t) ==
  /\ call[t].pc \in {"commit", "acked", "refused"}
  /\ conn' = Destroyed(t)
  /\ limbo' = limbo \cup Unanswered(t)
  /\ IF call[t].attempt < MaxRetries
     THEN Retry(t)
     ELSE Finish(t, "ambiguous")
  /\ UNCHANGED <<dirty, late, commits>>

(* COMMIT was sent and its confirmation is not there: the answer is lost,  *)
(* or is an error.  Never retried.                                         *)
failAtCommit(t) ==
  /\ call[t].pc \in {"commit", "acked", "refused"}
  /\ conn' = Destroyed(t)
  /\ limbo' = limbo \cup Unanswered(t)
  /\ Finish(t, "ambiguous")
  /\ UNCHANGED <<dirty, late, commits>>

(* COMMIT is answered with the ROLLBACK tag: definitively not committed.   *)
commitRolledBack(t) ==
  /\ call[t].pc = "refused"
  /\ conn' = Destroyed(t)
  /\ Finish(t, "error")
  /\ UNCHANGED <<dirty, late, limbo, commits>>

(* What the awaiting step throws when the signal fires.                    *)
AbortOutcome(t) ==
  CASE call[t].pc \in {"commit", "acked", "refused"} -> "ambiguous"
    [] call[t].pc = "scrub"                          -> "postCommit"
    [] OTHER                                         -> "error"

(* The caller aborts or the total deadline passes: the connection is       *)
(* destroyed at once, a pending pool.connect() is abandoned.               *)
abort(t) ==
  /\ call[t].pc \notin {"idle", "done"}
  /\ conn' = IF call[t].on = NoConn THEN conn ELSE Destroyed(t)
  /\ late' = IF call[t].pc = "acquire" THEN late \cup {t} ELSE late
  /\ limbo' = limbo \cup Unanswered(t)
  /\ Finish(t, AbortOutcome(t))
  /\ UNCHANGED <<dirty, commits>>

(* The database carries out, or drops, a COMMIT nobody waits for.          *)
limboResolves(t) ==
  /\ t \in limbo
  /\ limbo' = limbo \ {t}
  /\ \/ commits' = [commits EXCEPT ![t] = @ + 1]
     \/ UNCHANGED commits
  /\ UNCHANGED <<call, conn, dirty, late>>

(* The pool opens a new connection in place of a destroyed one.            *)
poolReplaces(c) ==
  /\ conn[c] = "destroyed"
  /\ conn' = [conn EXCEPT ![c] = "pooled"]
  /\ dirty' = dirty \ {c}
  /\ UNCHANGED <<call, late, limbo, commits>>

TransactorNext ==
  \/ \E t \in Txn :
       \/ begin(t) \/ acquireTimeout(t) \/ setup(t) \/ work(t) \/ check(t)
       \/ dbCommit(t) \/ committed(t) \/ releaseNormally(t) \/ scrubFails(t)
       \/ nextAttempt(t) \/ failAtCommit(t) \/ commitRolledBack(t) \/ abort(t) \/ limboResolves(t)
       \/ \E retryable \in BOOLEAN : failBeforeCommit(t, retryable)
       \/ \E c \in Conn : acquire(t, c) \/ lateArrives(t, c)
  \/ \E c \in Conn : poolReplaces(c)

-----------------------------------------------------------------------------
(* Representation.                                                         *)
TransactorTypeOK ==
  /\ call \in [Txn -> CallState]
  /\ conn \in [Conn -> {"pooled", "out", "destroyed"}]
  /\ dirty \subseteq Conn /\ late \subseteq Txn /\ limbo \subseteq Txn
  /\ commits \in [Txn -> Nat]

(* What a caller is told is what became, and what will become, durable:    *)
(* a success happened exactly once, a plain error never happened and never *)
(* will, and an unknown outcome happens at most once, through every retry, *)
(* abort, lost answer and COMMIT that outlives its connection.             *)
OutcomeTruthful ==
  \A t \in Txn :
    /\ commits[t] + Cardinality({t} \cap limbo) <= 1
    /\ call[t].outcome \in {"ok", "postCommit"} => commits[t] = 1
    /\ call[t].outcome = "error" => commits[t] = 0 /\ t \notin limbo

(* A pooled connection has no open transaction and no session state of an  *)
(* earlier borrower; a checked-out one has exactly one running borrower,   *)
(* so none leaks and none is shared, however its borrower ended.           *)
PoolSound ==
  \A c \in Conn :
    /\ conn[c] = "pooled" => c \notin dirty
    /\ Cardinality({t \in Txn : call[t].on = c}) = (IF conn[c] = "out" THEN 1 ELSE 0)

(* withTransaction through every lost answer, abort and retry: what the    *)
(* caller is told is true of the database, and the pool gets back only     *)
(* clean connections.                                                      *)
TransactorSound == TransactorTypeOK /\ OutcomeTruthful /\ PoolSound

-----------------------------------------------------------------------------
(* The transactor by itself, and the inductive invariant behind it.        *)

TransactorSpec == TransactorInit /\ [][TransactorNext]_transactorVars

(* Calls before COMMIT was carried out, and calls that hold a connection.  *)
Uncommitted == {"idle", "acquire", "setup", "work", "check", "commit", "refused", "sleep"}
Holding     == {"setup", "work", "check", "commit", "acked", "refused", "scrub"}

(* A connection that is out is lent to exactly one call, and what is in    *)
(* the pool is clean.                                                      *)
LoanInv ==
  /\ \A t \in Txn : call[t].pc \in Holding <=> call[t].on # NoConn
  /\ \A t \in Txn : call[t].on # NoConn => conn[call[t].on] = "out"
  /\ \A t, u \in Txn : call[t].on = call[u].on /\ call[t].on # NoConn => t = u
  /\ \A c \in Conn : conn[c] = "out" => \E t \in Txn : call[t].on = c
  /\ \A c \in Conn : conn[c] = "pooled" => c \notin dirty

(* What is durable at each point of a call.                                *)
CommitInv ==
  \A t \in Txn :
    /\ call[t].pc = "done" <=> call[t].outcome # "none"
    /\ call[t].pc \in Uncommitted => commits[t] = 0 /\ t \notin limbo
    /\ call[t].pc \in {"acked", "scrub"} => commits[t] = 1 /\ t \notin limbo
    /\ commits[t] \in {0, 1} /\ (t \in limbo => commits[t] = 0)
    /\ call[t].outcome \in {"ok", "postCommit"} => commits[t] = 1
    /\ call[t].outcome = "error" => commits[t] = 0 /\ t \notin limbo

RetriesLeft == \A t \in Txn : call[t].pc = "sleep" => call[t].attempt < MaxRetries

TransactorInv == TransactorTypeOK /\ LoanInv /\ CommitInv /\ RetriesLeft
=============================================================================
