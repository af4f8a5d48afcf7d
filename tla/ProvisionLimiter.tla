-------------------------- MODULE ProvisionLimiter --------------------------
(***************************************************************************)
(* MemoryProvisionRateLimiter (packages/server/src/provisioner.ts): one    *)
(* token bucket per requestor, refilled when a call finds that enough time *)
(* has passed; the fraction of a token in that time is forgotten.          *)
(***************************************************************************)
EXTENDS Integers, Sequences

CONSTANTS
  Requestor,     \* keys of the limiter
  MaxTokens,     \* maxPerMinute
  RefillTime,    \* time for one token (60_000 / maxPerMinute)
  MaxInstant     \* bound of the model: the clock

ASSUME LimiterAssumption == MaxTokens \in Nat \ {0} /\ RefillTime \in Nat \ {0}

VARIABLES
  bucket,     \* bucket[q]: whether q has one, its tokens and lastRefill
  grants,     \* grants[q]: when q was allowed (history)
  refused,    \* refused[q]: when q was last refused; -1 before (history)
  instant     \* Date.now

limiterVars == <<bucket, grants, refused, instant>>

LimiterInit ==
  /\ bucket = [q \in Requestor |-> [known |-> FALSE, tokens |-> 0, lastRefill |-> 0]]
  /\ grants = [q \in Requestor |-> <<>>]
  /\ refused = [q \in Requestor |-> -1]
  /\ instant = 0

(* As a bug: every call restarts the time to the next token.               *)
Refilled_Restarts(b) ==
  LET new == (instant - b.lastRefill) \div RefillTime
  IN  [b EXCEPT !.tokens = IF @ + new > MaxTokens THEN MaxTokens ELSE @ + new,
                !.lastRefill = instant]

Refilled(b) ==
  LET new == (instant - b.lastRefill) \div RefillTime
  IN  IF new > 0
      THEN [known |-> TRUE, lastRefill |-> instant,
            tokens |-> IF b.tokens + new > MaxTokens THEN MaxTokens ELSE b.tokens + new]
      ELSE b

(* The first call makes the bucket; a refusal still refills.               *)
allow(q) ==
  LET b == IF bucket[q].known THEN Refilled(bucket[q])
           ELSE [known |-> TRUE, tokens |-> MaxTokens, lastRefill |-> instant]
  IN  /\ IF b.tokens > 0
         THEN /\ bucket' = [bucket EXCEPT ![q] =
                   [known |-> TRUE, tokens |-> b.tokens - 1, lastRefill |-> b.lastRefill]]
              /\ grants' = [grants EXCEPT ![q] = Append(@, instant)]
              /\ UNCHANGED refused
         ELSE /\ bucket' = [bucket EXCEPT ![q] = b]
              /\ refused' = [refused EXCEPT ![q] = instant]
              /\ UNCHANGED grants
      /\ UNCHANGED instant

instantPasses ==
  /\ instant < MaxInstant
  /\ instant' = instant + 1
  /\ UNCHANGED <<bucket, grants, refused>>

LimiterNext == (\E q \in Requestor : allow(q)) \/ instantPasses

-----------------------------------------------------------------------------
(* However calls are spread over time, no stretch of it sees more grants   *)
(* than a full bucket and the tokens that stretch refills.                 *)
RateBounded ==
  \A q \in Requestor : \A i, j \in DOMAIN grants[q] :
    i <= j => j - i + 1 <= MaxTokens + (grants[q][j] - grants[q][i]) \div RefillTime

(* Refused calls do not keep a requestor out: one refused now has been     *)
(* allowed less than one refill time ago, however often it asked.          *)
RefusalsDoNotStarve ==
  \A q \in Requestor : refused[q] # -1 =>
    \E i \in DOMAIN grants[q] :
      grants[q][i] <= refused[q] /\ refused[q] - grants[q][i] < RefillTime

(* The rate limiter grants neither more nor less than its rate, wherever   *)
(* calls fall between two refills.                                         *)
LimiterSound == RateBounded /\ RefusalsDoNotStarve

-----------------------------------------------------------------------------
(* The limiter by itself, and the inductive invariant behind it.           *)

LimiterSpec == LimiterInit /\ [][LimiterNext]_limiterVars

LimiterTypeOK ==
  /\ instant \in Nat
  /\ bucket \in [Requestor -> [known : BOOLEAN, tokens : 0..MaxTokens, lastRefill : Nat]]
  /\ grants \in [Requestor -> Seq(Nat)]
  /\ refused \in [Requestor -> Nat \cup {-1}]

(* A bucket is made by a grant, and refilled by one: the call that finds   *)
(* new tokens takes one of them.                                           *)
RefillInv ==
  \A q \in Requestor :
    IF bucket[q].known
    THEN /\ bucket[q].tokens < MaxTokens /\ bucket[q].lastRefill <= instant
         /\ \E i \in DOMAIN grants[q] : grants[q][i] = bucket[q].lastRefill
    ELSE grants[q] = <<>> /\ refused[q] = -1

(* What was granted since a grant, and what could be granted now, is paid  *)
(* for by a full bucket and the refills since; a grant after the last      *)
(* refill came less than a refill time after it, from a bucket that was    *)
(* no longer full.                                                         *)
CreditInv ==
  \A q \in Requestor : \A i \in DOMAIN grants[q] :
    LET t    == grants[q][i]
        left == Len(grants[q]) - i + 1 + bucket[q].tokens
        last == bucket[q].lastRefill
    IN  /\ t <= instant
        /\ t <= last => left <= MaxTokens + (last - t) \div RefillTime
        /\ t > last => left < MaxTokens /\ t - last < RefillTime

LimiterInv == LimiterTypeOK /\ RefillInv /\ CreditInv /\ LimiterSound
=============================================================================
