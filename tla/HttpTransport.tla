---------------------------- MODULE HttpTransport ----------------------------
(***************************************************************************)
(* The authenticated outbox transport (packages/server/src/                *)
(* http-outbox-transport.ts): HttpOutboxTransport signs each delivery      *)
(* attempt with a timestamp and a fresh nonce; the receiver's handlers     *)
(* accept a nonce once, through PgReplayNonceStore, and answer with an     *)
(* envelope bound to the attempt.                                          *)
(*                                                                         *)
(* Signed requests and envelopes may be delivered late, again and to any   *)
(* handler.  The time is the database's; the clock of a receiver process   *)
(* is off by an amount of its own.  MaxStall is an assumption about the    *)
(* deployment: the time from the freshness check to the last statement of  *)
(* checkAndStore, which the code leaves to the margin nonceSafetyMs.       *)
(***************************************************************************)
EXTENDS Integers, FiniteSets

CONSTANTS
  Nonce,      \* nonces, one per delivery attempt
  Ingest,     \* concurrent runs of the receiver's handler
  Freshness,  \* freshnessMs
  Skew,       \* maxClockSkewMs of the nonce store
  Safety,     \* nonceSafetyMs
  Retention,  \* retentionMs
  MaxStall,   \* longest stall between the two checks of a handler
  Offset,     \* offsets of the receivers' clocks
  Stamps,     \* bound of the model: timestamps the publisher signs
  MaxNow      \* bound of the model: time

(* createHttpOutboxReceiver refuses a shorter retention.                   *)
ASSUME RetentionAssumption ==
  /\ {Freshness, Skew, Safety, Retention, MaxStall, MaxNow} \subseteq Nat
  /\ Retention - 2 * Skew >= 2 * Freshness + Safety
  /\ MaxStall <= Safety /\ Stamps \subseteq Nat /\ Offset \subseteq Int

VARIABLES
  dbNow,    \* the database's clock
  stamp,    \* stamp[n]: the timestamp signed with nonce n
  attempt,  \* attempt[n]: where the publisher is with it
  ingest,   \* the progress of each handler
  nonces,   \* tsk_transport_nonce: the nonces stored
  expires,  \* tsk_transport_nonce: expires_at of each
  handled,  \* handled[n]: how often `receive' ran for it
  answers   \* challenges of the signed envelopes sent back

httpVars == <<dbNow, stamp, attempt, ingest, nonces, expires, handled, answers>>

Ready       == [pc |-> "ready"]
IngestState == [pc : {"fresh", "alike", "pruned"}, nonce : Nonce, at : Int, off : Int]

HttpInit ==
  /\ dbNow = 0
  /\ stamp = [n \in Nonce |-> 0]
  /\ attempt = [n \in Nonce |-> "unsent"]
  /\ ingest = [h \in Ingest |-> Ready]
  /\ nonces = {}
  /\ expires = [n \in Nonce |-> 0]
  /\ handled = [n \in Nonce |-> 0]
  /\ answers = {}

-----------------------------------------------------------------------------
(* The publisher's side: one attempt.                                      *)

(* deliverAndAwaitAck: sign the body with this clock and a fresh nonce.    *)
deliver(n, ts) ==
  /\ attempt[n] = "unsent"
  /\ stamp' = [stamp EXCEPT ![n] = ts]
  /\ attempt' = [attempt EXCEPT ![n] = "waiting"]
  /\ UNCHANGED <<dbNow, ingest, nonces, expires, handled, answers>>

(* A signed envelope arrives: it must answer this very attempt.            *)
verifyEnvelope(n, challenge) ==
  /\ attempt[n] = "waiting" /\ challenge \in answers
  /\ attempt' = [attempt EXCEPT ![n] = IF challenge = n THEN "acked" ELSE "terminal"]
  /\ UNCHANGED <<dbNow, stamp, ingest, nonces, expires, handled, answers>>

(* Any other status is terminal or transient, a deadline is transient; the *)
(* request may still be on its way.                                        *)
attemptFails(n, class) ==
  /\ attempt[n] = "waiting"
  /\ attempt' = [attempt EXCEPT ![n] = class]
  /\ UNCHANGED <<dbNow, stamp, ingest, nonces, expires, handled, answers>>

-----------------------------------------------------------------------------
(* The receiver's side.                                                    *)

(* A request arrives, for the first time or again, and its timestamp is    *)
(* within the freshness bound of this process' clock.                      *)
checkFreshness(h, n, off) ==
  /\ ingest[h] = Ready
  /\ attempt[n] # "unsent"
  /\ dbNow + off - stamp[n] <= Freshness
  /\ stamp[n] - (dbNow + off) <= Freshness
  /\ ingest' = [ingest EXCEPT ![h] = [pc |-> "fresh", nonce |-> n, at |-> dbNow, off |-> off]]
  /\ UNCHANGED <<dbNow, stamp, attempt, nonces, expires, handled, answers>>

(* As a bug: the clocks are not compared.                                  *)
checkSkew_Trusting(h) ==
  /\ ingest[h].pc = "fresh"
  /\ ingest' = [ingest EXCEPT ![h] = [@ EXCEPT !.pc = "alike"]]
  /\ UNCHANGED <<dbNow, stamp, attempt, nonces, expires, handled, answers>>

(* checkAndStore, the database's clock against this process'.              *)
checkSkew(h) ==
  /\ ingest[h].pc = "fresh"
  /\ ingest[h].off <= Skew /\ -ingest[h].off <= Skew
  /\ ingest' = [ingest EXCEPT ![h] = [@ EXCEPT !.pc = "alike"]]
  /\ UNCHANGED <<dbNow, stamp, attempt, nonces, expires, handled, answers>>

(* checkAndStore, DELETE ... WHERE expires_at < now().                     *)
prune(h) ==
  /\ ingest[h].pc = "alike"
  /\ nonces' = {n \in nonces : expires[n] >= dbNow}
  /\ ingest' = [ingest EXCEPT ![h] = [@ EXCEPT !.pc = "pruned"]]
  /\ UNCHANGED <<dbNow, stamp, attempt, expires, handled, answers>>

(* checkAndStore, INSERT ... ON CONFLICT DO NOTHING inserts the row, and   *)
(* `receive' runs; a receipt that is lost, or replaced by a 500 when       *)
(* `receive' throws, is one that verifyEnvelope never gets.                *)
storeNonce(h) ==
  LET n == ingest[h].nonce
  IN  /\ ingest[h].pc = "pruned"
      /\ n \notin nonces
      /\ nonces' = nonces \cup {n}
      /\ expires' = [expires EXCEPT ![n] = dbNow + Retention]
      /\ handled' = [handled EXCEPT ![n] = @ + 1]
      /\ answers' = answers \cup {n}
      /\ ingest' = [ingest EXCEPT ![h] = Ready]
      /\ UNCHANGED <<dbNow, stamp, attempt>>

(* A replay (401), clocks too far apart, or a failed statement (500).      *)
refuse(h) ==
  /\ ingest[h] # Ready
  /\ ingest' = [ingest EXCEPT ![h] = Ready]
  /\ UNCHANGED <<dbNow, stamp, attempt, nonces, expires, handled, answers>>

HttpTick ==
  /\ dbNow < MaxNow
  /\ \A h \in Ingest : ingest[h] # Ready => dbNow < ingest[h].at + MaxStall
  /\ dbNow' = dbNow + 1
  /\ UNCHANGED <<stamp, attempt, ingest, nonces, expires, handled, answers>>

HttpNext ==
  \/ HttpTick
  \/ \E n \in Nonce : \/ \E ts \in Stamps : deliver(n, ts)
                      \/ \E m \in Nonce : verifyEnvelope(n, m)
                      \/ \E class \in {"terminal", "transient"} : attemptFails(n, class)
  \/ \E h \in Ingest : \/ checkSkew(h) \/ prune(h) \/ storeNonce(h) \/ refuse(h)
                       \/ \E n \in Nonce, off \in Offset :
                            checkFreshness(h, n, off)

HttpSpec == HttpInit /\ [][HttpNext]_httpVars

-----------------------------------------------------------------------------
(* Representation.                                                         *)
HttpTypeOK ==
  /\ dbNow \in Nat
  /\ stamp \in [Nonce -> Nat]
  /\ attempt \in [Nonce -> {"unsent", "waiting", "acked", "terminal", "transient"}]
  /\ ingest \in [Ingest -> IngestState \cup {Ready}]
  /\ nonces \subseteq Nonce
  /\ expires \in [Nonce -> Int]
  /\ handled \in [Nonce -> Nat]
  /\ answers \subseteq Nonce

(* A signed request reaches `receive' at most once, however often, however *)
(* late and on however many processes it is delivered: its nonce is never  *)
(* pruned while its timestamp is still fresh on some tolerated clock.      *)
AcceptedOnce == \A n \in Nonce : handled[n] <= 1

(* The publisher takes an acknowledgement only for the attempt it is       *)
(* making, and only if the receiver took that attempt in: an envelope of   *)
(* an earlier attempt of the same record does not acknowledge this one.    *)
AckAnswersAttempt ==
  \A n \in Nonce : attempt[n] = "acked" => handled[n] = 1

(* What makes AcceptedOnce inductive.  A nonce that was handled is stored, *)
(* to expire no earlier than the last moment its timestamp may pass for    *)
(* fresh, or that moment is over; a handler past the freshness check still *)
(* runs within MaxStall of it, and past the clock check within Skew.       *)
NoncesGuard ==
  \A n \in Nonce :
    /\ attempt[n] = "unsent" => handled[n] = 0 /\ n \notin nonces
    /\ n \in nonces => /\ handled[n] = 1
                      /\ expires[n] >= stamp[n] - Freshness - Skew + Retention
    /\ handled[n] = 1 /\ n \notin nonces => dbNow > stamp[n] + Freshness + Skew + MaxStall

HandlersFresh ==
  \A h \in Ingest : ingest[h] # Ready =>
    /\ attempt[ingest[h].nonce] # "unsent"
    /\ ingest[h].at <= dbNow /\ dbNow <= ingest[h].at + MaxStall
    /\ ingest[h].at + ingest[h].off - stamp[ingest[h].nonce] <= Freshness
    /\ stamp[ingest[h].nonce] - (ingest[h].at + ingest[h].off) <= Freshness
    /\ ingest[h].pc # "fresh" => ingest[h].off <= Skew /\ -ingest[h].off <= Skew

NonceInv ==
  /\ AcceptedOnce /\ AckAnswersAttempt
  /\ NoncesGuard /\ HandlersFresh
  /\ \A n \in answers : handled[n] = 1
=============================================================================
