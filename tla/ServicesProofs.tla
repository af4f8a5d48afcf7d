--------------------------- MODULE ServicesProofs ---------------------------
(***************************************************************************)
(* Theorems about the services that MCServices checks side by side: each   *)
(* section takes one of them, from its own specification, for every value  *)
(* of its constants.  The components share no variable, so each section    *)
(* stands alone but for the facts about tumbler maps and numbers.          *)
(***************************************************************************)
EXTENDS CredentialAuthority, SourceWitness, FileStore, Transactor, HttpTransport, SchemaGate,
        OutboxScope, PrincipalSession, HttpEdge, Failover, AgentCache, Anomaly, KeyLayout,
        ProvisionLimiter, TumblerMapProofs, FiniteSetTheorems, SequenceTheorems,
        WellFoundedInduction, TLAPS

-----------------------------------------------------------------------------
(***************************************************************************)
(* HttpTransport: a signed delivery reaches `receive' at most once, for    *)
(* every number of nonces and handlers, every retention that               *)
(* createHttpOutboxReceiver admits and every clock offset.                 *)
(***************************************************************************)

LEMMA Busy ==
  ASSUME NEW h \in Ingest, HttpTypeOK, ingest[h].pc # "ready"
  PROVE  ingest[h] \in IngestState /\ ingest[h] # Ready
  BY DEF HttpTypeOK, Ready

LEMMA BusyState ==
  ASSUME NEW r \in IngestState
  PROVE  /\ r # Ready /\ r.pc # "ready"
         /\ r.nonce \in Nonce /\ r.at \in Int /\ r.off \in Int
         /\ r.pc \in {"fresh", "alike", "pruned"}
  BY DEF IngestState, Ready

(* A handler's step keeps what it knows about its request.                 *)
LEMMA Stepped ==
  ASSUME NEW r \in IngestState, NEW p \in {"fresh", "alike", "pruned"}
  PROVE  LET q == [r EXCEPT !.pc = p]
         IN  q \in IngestState /\ q.pc = p /\ q.nonce = r.nonce /\ q.at = r.at /\ q.off = r.off
  BY DEF IngestState

LEMMA HttpInitOK == HttpInit => HttpTypeOK /\ NonceInv
  BY RetentionAssumption
     DEF HttpInit, HttpTypeOK, NonceInv, AcceptedOnce, AckAnswersAttempt, NoncesGuard, HandlersFresh

LEMMA HttpTypeStep == HttpTypeOK /\ [HttpNext]_httpVars => HttpTypeOK'
  <1> SUFFICES ASSUME HttpTypeOK, [HttpNext]_httpVars PROVE HttpTypeOK'
    OBVIOUS
  <1>1. CASE HttpTick
    BY <1>1 DEF HttpTick, HttpTypeOK
  <1>2. ASSUME NEW n \in Nonce, NEW ts \in Stamps, deliver(n, ts) PROVE HttpTypeOK'
    BY <1>2, RetentionAssumption DEF deliver, HttpTypeOK
  <1>3. ASSUME NEW n \in Nonce, NEW m \in Nonce, verifyEnvelope(n, m) PROVE HttpTypeOK'
    BY <1>3 DEF verifyEnvelope, HttpTypeOK
  <1>4. ASSUME NEW n \in Nonce, NEW class \in {"terminal", "transient"}, attemptFails(n, class)
        PROVE  HttpTypeOK'
    BY <1>4 DEF attemptFails, HttpTypeOK
  <1>5. ASSUME NEW h \in Ingest, NEW n \in Nonce, NEW off \in Offset, checkFreshness(h, n, off)
        PROVE  HttpTypeOK'
    <2>1. [pc |-> "fresh", nonce |-> n, at |-> dbNow, off |-> off] \in IngestState
      BY RetentionAssumption DEF IngestState, HttpTypeOK
    <2> QED
      BY <1>5, <2>1 DEF checkFreshness, HttpTypeOK
  <1>6. ASSUME NEW h \in Ingest, checkSkew(h) PROVE HttpTypeOK'
    <2>1. ingest[h] \in IngestState
      BY <1>6, Busy DEF checkSkew
    <2>2. [ingest[h] EXCEPT !.pc = "alike"] \in IngestState
      BY <2>1, Stepped
    <2> QED
      BY <1>6, <2>2 DEF checkSkew, HttpTypeOK
  <1>7. ASSUME NEW h \in Ingest, prune(h) PROVE HttpTypeOK'
    <2>1. ingest[h] \in IngestState
      BY <1>7, Busy DEF prune
    <2>2. [ingest[h] EXCEPT !.pc = "pruned"] \in IngestState
      BY <2>1, Stepped
    <2> QED
      BY <1>7, <2>2 DEF prune, HttpTypeOK
  <1>8. ASSUME NEW h \in Ingest, storeNonce(h) PROVE HttpTypeOK'
    <2>1. ingest[h].nonce \in Nonce
      BY <1>8, Busy, BusyState DEF storeNonce
    <2> QED
      BY <1>8, <2>1, RetentionAssumption DEF storeNonce, HttpTypeOK
  <1>9. ASSUME NEW h \in Ingest, refuse(h) PROVE HttpTypeOK'
    BY <1>9 DEF refuse, HttpTypeOK
  <1>10. CASE UNCHANGED httpVars
    BY <1>10 DEF httpVars, HttpTypeOK
  <1> QED
    BY <1>1, <1>2, <1>3, <1>4, <1>5, <1>6, <1>7, <1>8, <1>9, <1>10 DEF HttpNext

(* A step of one handler that changes neither clocks nor nonces.           *)
LEMMA HandlerStep ==
  ASSUME HttpTypeOK, NonceInv, NEW h \in Ingest, NEW q,
         ingest' = [ingest EXCEPT ![h] = q],
         q # Ready =>
           /\ q.nonce \in Nonce /\ attempt[q.nonce] # "unsent"
           /\ q.at <= dbNow /\ dbNow <= q.at + MaxStall
           /\ q.at + q.off - stamp[q.nonce] <= Freshness
           /\ stamp[q.nonce] - (q.at + q.off) <= Freshness
           /\ q.pc # "fresh" => q.off <= Skew /\ -q.off <= Skew,
         UNCHANGED <<dbNow, stamp, attempt>>
  PROVE  HandlersFresh'
  <1>1. \A g \in Ingest : ingest'[g] = IF g = h THEN q ELSE ingest[g]
    BY DEF HttpTypeOK
  <1>2. dbNow' = dbNow /\ stamp' = stamp /\ attempt' = attempt
    OBVIOUS
  <1> QED
    BY <1>1, <1>2 DEF NonceInv, HandlersFresh

LEMMA NonceStep == HttpTypeOK /\ NonceInv /\ [HttpNext]_httpVars => NonceInv'
  <1> SUFFICES ASSUME HttpTypeOK, NonceInv, [HttpNext]_httpVars PROVE NonceInv'
    OBVIOUS
  <1>1. CASE HttpTick
    <2>1. dbNow' = dbNow + 1 /\ dbNow \in Nat
      BY <1>1 DEF HttpTick, HttpTypeOK
    <2>2. NoncesGuard'
      BY <1>1, <2>1, RetentionAssumption DEF HttpTick, NonceInv, NoncesGuard, HttpTypeOK
    <2>3. ASSUME NEW h \in Ingest, ingest[h] # Ready
          PROVE  ingest[h].at <= dbNow' /\ dbNow' <= ingest[h].at + MaxStall
      <3>1. ingest[h].at \in Int /\ ingest[h].at <= dbNow /\ dbNow < ingest[h].at + MaxStall
        BY <1>1, <2>3, BusyState DEF HttpTick, NonceInv, HandlersFresh, HttpTypeOK
      <3> QED
        BY <2>1, <3>1, RetentionAssumption
    <2>4. HandlersFresh'
      BY <1>1, <2>3 DEF HttpTick, NonceInv, HandlersFresh
    <2> QED
      BY <1>1, <2>2, <2>4 DEF HttpTick, NonceInv, AcceptedOnce, AckAnswersAttempt
  <1>2. ASSUME NEW n \in Nonce, NEW ts \in Stamps, deliver(n, ts) PROVE NonceInv'
    <2>1. handled[n] = 0 /\ n \notin nonces /\ n \notin answers
      BY <1>2 DEF deliver, NonceInv, NoncesGuard
    <2>2. NoncesGuard'
      BY <1>2, <2>1 DEF deliver, NonceInv, NoncesGuard, HttpTypeOK
    <2>3. HandlersFresh'
      <3>1. ASSUME NEW h \in Ingest, ingest[h] # Ready
            PROVE  ingest[h].nonce \in Nonce \ {n}
        BY <1>2, <3>1, BusyState DEF deliver, NonceInv, HandlersFresh, HttpTypeOK
      <3> QED
        BY <1>2, <3>1 DEF deliver, NonceInv, HandlersFresh, HttpTypeOK
    <2>4. AckAnswersAttempt'
      BY <1>2 DEF deliver, NonceInv, AckAnswersAttempt, HttpTypeOK
    <2> QED
      BY <1>2, <2>2, <2>3, <2>4 DEF deliver, NonceInv, AcceptedOnce
  <1>3. ASSUME NEW n \in Nonce, NEW m \in Nonce, verifyEnvelope(n, m) PROVE NonceInv'
    <2>1. /\ UNCHANGED <<dbNow, stamp, ingest, nonces, expires, handled, answers>>
          /\ attempt[n] = "waiting" /\ m \in answers
          /\ attempt' = [attempt EXCEPT ![n] = IF m = n THEN "acked" ELSE "terminal"]
      BY <1>3 DEF verifyEnvelope
    <2>2. \A k \in Nonce : attempt'[k] = "unsent" <=> attempt[k] = "unsent"
      BY <2>1 DEF HttpTypeOK
    <2>3. AckAnswersAttempt'
      BY <2>1 DEF NonceInv, AckAnswersAttempt, HttpTypeOK
    <2>4. NoncesGuard'
      BY <2>1, <2>2 DEF NonceInv, NoncesGuard
    <2>5. \A h \in Ingest : ingest[h] # Ready => ingest[h].nonce \in Nonce
      BY BusyState DEF HttpTypeOK
    <2>6. HandlersFresh'
      BY <2>1, <2>2, <2>5 DEF NonceInv, HandlersFresh
    <2> QED
      BY <2>1, <2>3, <2>4, <2>6 DEF NonceInv, AcceptedOnce
  <1>4. ASSUME NEW n \in Nonce, NEW class \in {"terminal", "transient"}, attemptFails(n, class)
        PROVE  NonceInv'
    <2>1. /\ UNCHANGED <<dbNow, stamp, ingest, nonces, expires, handled, answers>>
          /\ attempt[n] = "waiting"
          /\ attempt' = [attempt EXCEPT ![n] = class]
      BY <1>4 DEF attemptFails
    <2>2. \A k \in Nonce : attempt'[k] = "unsent" <=> attempt[k] = "unsent"
      BY <2>1 DEF HttpTypeOK
    <2>3. AckAnswersAttempt'
      BY <2>1 DEF NonceInv, AckAnswersAttempt, HttpTypeOK
    <2>4. NoncesGuard'
      BY <2>1, <2>2 DEF NonceInv, NoncesGuard
    <2>5. \A h \in Ingest : ingest[h] # Ready => ingest[h].nonce \in Nonce
      BY BusyState DEF HttpTypeOK
    <2>6. HandlersFresh'
      BY <2>1, <2>2, <2>5 DEF NonceInv, HandlersFresh
    <2> QED
      BY <2>1, <2>3, <2>4, <2>6 DEF NonceInv, AcceptedOnce
  <1>5. ASSUME NEW h \in Ingest, NEW n \in Nonce, NEW off \in Offset, checkFreshness(h, n, off)
        PROVE  NonceInv'
    <2> DEFINE q == [pc |-> "fresh", nonce |-> n, at |-> dbNow, off |-> off]
    <2>1. /\ q.nonce = n /\ q.at = dbNow /\ q.off = off /\ q.pc = "fresh"
          /\ dbNow \in Nat /\ off \in Int
      BY RetentionAssumption DEF HttpTypeOK
    <2>2. HandlersFresh'
      <3> HIDE DEF q
      <3>1. ingest' = [ingest EXCEPT ![h] = q]
        BY <1>5 DEF checkFreshness, q
      <3>2. /\ attempt[n] # "unsent"
            /\ dbNow + off - stamp[n] <= Freshness
            /\ stamp[n] - (dbNow + off) <= Freshness
            /\ UNCHANGED <<dbNow, stamp, attempt>>
        BY <1>5 DEF checkFreshness
      <3>3. dbNow <= dbNow + MaxStall /\ dbNow <= dbNow
        BY <2>1, RetentionAssumption
      <3> QED
        BY <2>1, <3>1, <3>2, <3>3, HandlerStep
    <2> QED
      BY <1>5, <2>2 DEF checkFreshness, NonceInv, NoncesGuard, AcceptedOnce, AckAnswersAttempt
  <1>6. ASSUME NEW h \in Ingest, checkSkew(h) PROVE NonceInv'
    <2>1. ingest[h] \in IngestState /\ ingest[h] # Ready
      BY <1>6, Busy DEF checkSkew
    <2>2. PICK q : q = [ingest[h] EXCEPT !.pc = "alike"]
      OBVIOUS
    <2>3. /\ q \in IngestState /\ q.pc = "alike" /\ q.nonce = ingest[h].nonce
          /\ q.at = ingest[h].at /\ q.off = ingest[h].off
      BY <2>1, <2>2, Stepped
    <2>4. ingest' = [ingest EXCEPT ![h] = q]
      BY <1>6, <2>2 DEF checkSkew
    <2>5. q.nonce \in Nonce
      BY <2>3, BusyState
    <2>6. HandlersFresh'
      BY <1>6, <2>1, <2>3, <2>4, <2>5, HandlerStep DEF checkSkew, NonceInv, HandlersFresh
    <2> QED
      BY <1>6, <2>6 DEF checkSkew, NonceInv, NoncesGuard, AcceptedOnce, AckAnswersAttempt
  <1>7. ASSUME NEW h \in Ingest, prune(h) PROVE NonceInv'
    <2>1. ingest[h] \in IngestState /\ ingest[h] # Ready /\ ingest[h].pc = "alike"
      BY <1>7, Busy DEF prune
    <2>2. PICK q : q = [ingest[h] EXCEPT !.pc = "pruned"]
      OBVIOUS
    <2>3. /\ q \in IngestState /\ q.pc = "pruned" /\ q.nonce = ingest[h].nonce
          /\ q.at = ingest[h].at /\ q.off = ingest[h].off
      BY <2>1, <2>2, Stepped
    <2>4. ingest' = [ingest EXCEPT ![h] = q]
      BY <1>7, <2>2 DEF prune
    <2>5. q.nonce \in Nonce
      BY <2>3, BusyState
    <2>6. HandlersFresh'
      BY <1>7, <2>1, <2>3, <2>4, <2>5, HandlerStep DEF prune, NonceInv, HandlersFresh
    <2>7. ASSUME NEW n \in nonces, n \notin nonces'
          PROVE  dbNow > stamp[n] + Freshness + Skew + MaxStall
      <3>1. n \in Nonce /\ expires[n] < dbNow /\ expires[n] \in Int /\ dbNow \in Nat /\ stamp[n] \in Nat
        BY <1>7, <2>7 DEF prune, HttpTypeOK
      <3>2. expires[n] >= stamp[n] - Freshness - Skew + Retention
        BY <2>7, <3>1 DEF NonceInv, NoncesGuard
      <3> QED
        BY <3>1, <3>2, RetentionAssumption
    <2>8. NoncesGuard'
      BY <1>7, <2>7 DEF prune, NonceInv, NoncesGuard
    <2> QED
      BY <1>7, <2>6, <2>8 DEF prune, NonceInv, AcceptedOnce, AckAnswersAttempt
  <1>8. ASSUME NEW h \in Ingest, storeNonce(h) PROVE NonceInv'
    <2>1. ingest[h] \in IngestState /\ ingest[h] # Ready /\ ingest[h].pc = "pruned"
      BY <1>8, Busy DEF storeNonce
    <2>2. PICK n \in Nonce : n = ingest[h].nonce
      BY <2>1, BusyState
    <2>3. PICK at \in Int, off \in Int : at = ingest[h].at /\ off = ingest[h].off
      BY <2>1, BusyState
    <2>4. /\ at <= dbNow /\ dbNow <= at + MaxStall
          /\ at + off - stamp[n] <= Freshness /\ stamp[n] - (at + off) <= Freshness
          /\ off <= Skew /\ -off <= Skew
          /\ attempt[n] # "unsent"
      BY <2>1, <2>2, <2>3 DEF NonceInv, HandlersFresh
    <2>5. dbNow \in Nat /\ stamp[n] \in Nat /\ handled[n] \in Nat
      BY DEF HttpTypeOK
    <2>6. /\ n \notin nonces /\ nonces' = nonces \cup {n}
          /\ expires' = [expires EXCEPT ![n] = dbNow + Retention]
          /\ handled' = [handled EXCEPT ![n] = @ + 1]
          /\ answers' = answers \cup {n}
          /\ ingest' = [ingest EXCEPT ![h] = Ready]
          /\ UNCHANGED <<dbNow, stamp, attempt>>
      BY <1>8, <2>2 DEF storeNonce
    <2>7. handled[n] = 0
      <3>1. ~(dbNow > stamp[n] + Freshness + Skew + MaxStall)
        BY <2>4, <2>5, RetentionAssumption
      <3> QED
        BY <2>5, <2>6, <3>1 DEF NonceInv, NoncesGuard, AcceptedOnce
    <2>8. dbNow + Retention >= stamp[n] - Freshness - Skew + Retention
      BY <2>4, <2>5, RetentionAssumption
    <2>9. \A k \in Nonce : /\ handled'[k] = IF k = n THEN 1 ELSE handled[k]
                           /\ expires'[k] = IF k = n THEN dbNow + Retention ELSE expires[k]
      BY <2>6, <2>7 DEF HttpTypeOK
    <2>10. HandlersFresh'
      BY <2>6, HandlerStep
    <2>11. NoncesGuard'
      BY <2>4, <2>6, <2>8, <2>9 DEF NonceInv, NoncesGuard
    <2>12. AcceptedOnce' /\ AckAnswersAttempt'
      BY <2>6, <2>9 DEF NonceInv, AcceptedOnce, AckAnswersAttempt
    <2>13. \A k \in answers' : handled'[k] = 1
      BY <2>6, <2>9 DEF NonceInv, HttpTypeOK
    <2> QED
      BY <2>10, <2>11, <2>12, <2>13 DEF NonceInv
  <1>9. ASSUME NEW h \in Ingest, refuse(h) PROVE NonceInv'
    <2>1. HandlersFresh'
      BY <1>9, HandlerStep DEF refuse
    <2> QED
      BY <1>9, <2>1 DEF refuse, NonceInv, NoncesGuard, AcceptedOnce, AckAnswersAttempt
  <1>10. CASE UNCHANGED httpVars
    BY <1>10 DEF httpVars, NonceInv, NoncesGuard, HandlersFresh, AcceptedOnce, AckAnswersAttempt
  <1> QED
    BY <1>1, <1>2, <1>3, <1>4, <1>5, <1>6, <1>7, <1>8, <1>9, <1>10 DEF HttpNext

(* The transport's state stays well-typed.                                 *)
THEOREM HttpTypeCorrect == HttpSpec => []HttpTypeOK
  <1>1. HttpInit => HttpTypeOK
    BY HttpInitOK
  <1> QED
    BY <1>1, HttpTypeStep, PTL DEF HttpSpec

(* The nonces guard every request for as long as it may pass for fresh.    *)
THEOREM NonceInvariant == HttpSpec => []NonceInv
  <1>1. HttpInit => NonceInv
    BY HttpInitOK
  <1> QED
    BY <1>1, NonceStep, HttpTypeCorrect, PTL DEF HttpSpec

(* createHttpOutboxReceiver runs `receive' at most once for a signed       *)
(* request, whatever is delivered late or again.                           *)
THEOREM AcceptedOnceHolds == HttpSpec => []AcceptedOnce
  <1>1. NonceInv => AcceptedOnce
    BY DEF NonceInv
  <1> QED
    BY <1>1, NonceInvariant, PTL

(* verifyEnvelope takes an answer for an attempt only if the receiver took *)
(* that attempt in.                                                        *)
THEOREM AckAnswersAttemptHolds == HttpSpec => []AckAnswersAttempt
  <1>1. NonceInv => AckAnswersAttempt
    BY DEF NonceInv
  <1> QED
    BY <1>1, NonceInvariant, PTL

-----------------------------------------------------------------------------
(***************************************************************************)
(* SourceWitness: the witnessed history is one line, for every number of   *)
(* rows, lease grants, databases and receipts, whatever is restored and    *)
(* however late a receipt arrives.                                         *)
(***************************************************************************)

(* A prefix of a prefix is a prefix.                                       *)
LEMMA FirstOfFirst ==
  ASSUME NEW s \in Ledger, NEW m \in 0..Len(s), NEW n \in 0..m
  PROVE  First(First(s, m), n) = First(s, n)
  <1>1. First(s, m) \in Seq(Entry) /\ Len(First(s, m)) = m
        /\ \A i \in 1..m : First(s, m)[i] = s[i]
    BY DEF First, Ledger
  <1>2. First(s, n) \in Seq(Entry) /\ Len(First(s, n)) = n
        /\ \A i \in 1..n : First(s, n)[i] = s[i]
    BY DEF First, Ledger
  <1>3. First(First(s, m), n) \in Seq(Entry) /\ Len(First(First(s, m), n)) = n
        /\ \A i \in 1..n : First(First(s, m), n)[i] = First(s, m)[i]
    BY <1>1 DEF First
  <1> QED
    BY <1>1, <1>2, <1>3

LEMMA RowFacts ==
  ASSUME NEW w \in WitnessRow
  PROVE  /\ w # NoWitness /\ w.ledger \in Ledger /\ w.lease \in Nat /\ w.seq \in Nat
         /\ Len(w.ledger) \in Nat
  BY WitnessAssumption DEF WitnessRow, NoWitness, Ledger

LEMMA ReceiptFacts ==
  ASSUME NEW r \in Receipt, NEW k \in Nat
  PROVE  /\ r.ledger \in Ledger /\ r.lease \in Nat /\ r.prior \in Nat
         /\ [ledger |-> r.ledger, lease |-> r.lease, sys |-> r.sys, seq |-> k + 1] \in WitnessRow
  BY WitnessAssumption DEF Receipt, WitnessRow

LEMMA WitnessInitOK == WitnessInit => WitnessTypeOK /\ WitnessOneLine
  <1> SUFFICES ASSUME WitnessInit PROVE WitnessTypeOK /\ WitnessOneLine
    OBVIOUS
  <1>1. source \in SourceDb
    BY WitnessAssumption DEF WitnessInit, SourceDb, Ledger
  <1> QED
    BY <1>1 DEF WitnessInit, WitnessTypeOK, WitnessOneLine

(* What one accepted receipt adds to the history.                          *)
LEMMA Advances ==
  ASSUME WitnessTypeOK, NEW r \in receipts, advanceSourceWitness(r)
  PROVE  \E row \in WitnessRow :
           /\ row.ledger = r.ledger /\ row.lease = r.lease /\ row.sys = r.sys
           /\ row.seq = Len(history) + 1
           /\ witness' = row
           /\ history' = Append(history, row)
  <1>1. witness.seq = Len(history)
    BY DEF WitnessTypeOK, NoWitness
  <1>2. r \in Receipt /\ Len(history) \in Nat
    BY DEF WitnessTypeOK
  <1>3. PICK row : row = [ledger |-> r.ledger, lease |-> r.lease, sys |-> r.sys,
                          seq |-> witness.seq + 1]
    OBVIOUS
  <1>4. row \in WitnessRow
    BY <1>1, <1>2, <1>3, ReceiptFacts
  <1>5. row.ledger = r.ledger /\ row.lease = r.lease /\ row.sys = r.sys
        /\ row.seq = Len(history) + 1
    BY <1>1, <1>3
  <1>6. witness' = row /\ history' = Append(history, row)
    BY <1>3 DEF advanceSourceWitness
  <1> QED
    BY <1>4, <1>5, <1>6

LEMMA WitnessTypeStep == WitnessTypeOK /\ [WitnessNext]_witnessVars => WitnessTypeOK'
  <1> SUFFICES ASSUME WitnessTypeOK, [WitnessNext]_witnessVars PROVE WitnessTypeOK'
    OBVIOUS
  <1>1. ASSUME NEW x \in Entry, appendRow(x) PROVE WitnessTypeOK'
    <2>1. source \in [ledger : Ledger, lease : 1..MaxLeaseSeq, sys : SysId]
      BY DEF WitnessTypeOK, SourceDb
    <2>2. Append(source.ledger, x) \in Ledger
      BY <2>1 DEF Ledger
    <2>3. source' \in SourceDb
      BY <1>1, <2>1, <2>2 DEF appendRow, SourceDb
    <2> QED
      BY <1>1, <2>3 DEF appendRow, WitnessTypeOK
  <1>2. CASE renewLease
    <2>1. source' \in SourceDb
      BY <1>2, WitnessAssumption DEF renewLease, WitnessTypeOK, SourceDb
    <2> QED
      BY <1>2, <2>1 DEF renewLease, WitnessTypeOK
  <1>3. CASE backupSource
    BY <1>3 DEF backupSource, WitnessTypeOK
  <1>4. ASSUME NEW s \in SysId, restoreSource(s) PROVE WitnessTypeOK'
    <2>1. source' \in SourceDb
      BY <1>4 DEF restoreSource, WitnessTypeOK, SourceDb
    <2> QED
      BY <1>4, <2>1 DEF restoreSource, WitnessTypeOK
  <1>5. ASSUME NEW prior \in 0..MaxLedger, issueSourceCheckpointReceipt(prior) PROVE WitnessTypeOK'
    <2>1. [ledger |-> source.ledger, lease |-> source.lease, sys |-> source.sys, prior |-> prior]
            \in Receipt
      BY WitnessAssumption DEF WitnessTypeOK, SourceDb, Receipt
    <2>2. receipts' \subseteq Receipt
      BY <1>5, <2>1 DEF issueSourceCheckpointReceipt, WitnessTypeOK
    <2> QED
      BY <1>5, <2>2 DEF issueSourceCheckpointReceipt, WitnessTypeOK
  <1>6. ASSUME NEW r \in receipts, advanceSourceWitness(r) PROVE WitnessTypeOK'
    <2>1. PICK row \in WitnessRow : /\ row.seq = Len(history) + 1
                                    /\ witness' = row /\ history' = Append(history, row)
      BY <1>6, Advances
    <2>2. history \in Seq(WitnessRow)
      BY DEF WitnessTypeOK
    <2>3. /\ history' \in Seq(WitnessRow) /\ Len(history') = Len(history) + 1
          /\ history'[Len(history')] = row /\ history' # << >>
          /\ \A i \in 1..Len(history) : history'[i] = history[i]
      BY <2>1, <2>2
    <2>4. \A i \in DOMAIN history' : history'[i].seq = i
      BY <2>1, <2>2, <2>3 DEF WitnessTypeOK
    <2> QED
      BY <1>6, <2>1, <2>3, <2>4 DEF advanceSourceWitness, WitnessTypeOK
  <1>7. CASE UNCHANGED witnessVars
    BY <1>7 DEF witnessVars, WitnessTypeOK
  <1> QED
    BY <1>1, <1>2, <1>3, <1>4, <1>5, <1>6, <1>7 DEF WitnessNext

LEMMA OneLineStep ==
  WitnessTypeOK /\ WitnessOneLine /\ [WitnessNext]_witnessVars => WitnessOneLine'
  <1> SUFFICES ASSUME WitnessTypeOK, WitnessOneLine, [WitnessNext]_witnessVars
               PROVE  WitnessOneLine'
    OBVIOUS
  <1>1. ASSUME NEW r \in receipts, advanceSourceWitness(r) PROVE WitnessOneLine'
    <2>1. PICK row \in WitnessRow :
            /\ row.ledger = r.ledger /\ row.lease = r.lease /\ row.sys = r.sys
            /\ witness' = row /\ history' = Append(history, row)
      BY <1>1, Advances
    <2>2. history \in Seq(WitnessRow) /\ r \in Receipt
      BY DEF WitnessTypeOK
    <2>3. /\ history' \in Seq(WitnessRow) /\ Len(history') = Len(history) + 1
          /\ history'[Len(history) + 1] = row
          /\ \A i \in 1..Len(history) : history'[i] = history[i] /\ history[i] \in WitnessRow
      BY <2>1, <2>2
    <2>4. ASSUME NEW i \in 1..Len(history)
          PROVE  /\ history[i].sys = row.sys
                 /\ history[i].lease <= row.lease
                 /\ Len(history[i].ledger) <= Len(row.ledger)
                 /\ First(row.ledger, Len(history[i].ledger)) = history[i].ledger
      <3>1. PICK k \in 1..Len(history) : k = Len(history)
        BY <2>2, <2>4
      <3>2. witness = history[k] /\ witness \in WitnessRow
        BY <2>3, <2>4, <3>1 DEF WitnessTypeOK
      <3>3. witness # NoWitness /\ witness.ledger \in Ledger /\ witness.lease \in Nat
            /\ Len(witness.ledger) \in Nat
        BY <3>2, RowFacts
      <3>4. Continues(r)
        BY <1>1 DEF advanceSourceWitness
      <3>5. /\ r.sys = witness.sys /\ r.lease >= witness.lease
            /\ Len(r.ledger) >= Len(witness.ledger)
            /\ First(r.ledger, Len(witness.ledger)) = witness.ledger
        <4>1. witness # NoWitness
          BY <3>3
        <4> QED
          BY <3>4, <4>1 DEF Continues
      <3>6. r.ledger \in Ledger /\ r.lease \in Nat /\ Len(r.ledger) \in Nat
        BY <2>2, WitnessAssumption DEF Receipt, Ledger
      <3>7. CASE i = k
        BY <2>1, <3>2, <3>3, <3>5, <3>6, <3>7
      <3>8. CASE i # k
        <4>1. i < k
          BY <3>1, <3>8
        <4>2. i \in DOMAIN history /\ k \in DOMAIN history
          BY <2>2
        <4>3. /\ history[i].sys = witness.sys /\ history[i].lease <= witness.lease
              /\ Len(history[i].ledger) <= Len(witness.ledger)
              /\ First(witness.ledger, Len(history[i].ledger)) = history[i].ledger
          BY <3>2, <4>1, <4>2 DEF WitnessOneLine
        <4>4. history[i].lease \in Nat /\ Len(history[i].ledger) \in Nat
          BY <2>3, RowFacts
        <4>5. First(First(r.ledger, Len(witness.ledger)), Len(history[i].ledger))
                = First(r.ledger, Len(history[i].ledger))
          BY <3>3, <3>5, <3>6, <4>3, <4>4, FirstOfFirst
        <4> QED
          BY <2>1, <3>3, <3>5, <3>6, <4>3, <4>4, <4>5
      <3> QED
        BY <3>7, <3>8
    <2>5. ASSUME NEW i \in DOMAIN history', NEW j \in DOMAIN history', i < j
          PROVE  i \in 1..Len(history) /\ (j \in 1..Len(history) \/ j = Len(history) + 1)
      BY <2>2, <2>3, <2>5
    <2>6. DOMAIN history = 1..Len(history)
      BY <2>2
    <2> QED
      BY <2>3, <2>4, <2>5, <2>6 DEF WitnessOneLine
  <1>2. CASE UNCHANGED history
    BY <1>2 DEF WitnessOneLine
  <1> QED
    BY <1>1, <1>2
       DEF WitnessNext, witnessVars, appendRow, renewLease, backupSource, restoreSource,
           issueSourceCheckpointReceipt

(* The witness is always the last row of its history.                      *)
THEOREM WitnessTypeCorrect == WitnessSpec => []WitnessTypeOK
  <1>1. WitnessInit => WitnessTypeOK
    BY WitnessInitOK
  <1> QED
    BY <1>1, WitnessTypeStep, PTL DEF WitnessSpec

(* advanceSourceWitness never lets a forked or restored ledger become the  *)
(* witnessed one.                                                          *)
THEOREM OneLineHolds == WitnessSpec => []WitnessOneLine
  <1>1. WitnessInit => WitnessOneLine
    BY WitnessInitOK
  <1> QED
    BY <1>1, OneLineStep, WitnessTypeCorrect, PTL DEF WitnessSpec

-----------------------------------------------------------------------------
(***************************************************************************)
(* CredentialAuthority: the mirror is a past of the source and every       *)
(* genuine row is accepted in its turn.                                    *)
(***************************************************************************)

(* The ranks of the statuses, one by one.                                  *)
LEMMA Ranks ==
  /\ Rank["active"] = 0 /\ Rank["expiring"] = 1 /\ Rank["expired"] = 2 /\ Rank["revoked"] = 2
  /\ \A st \in Status : Rank[st] \in 0..2
  <1>1. Rank["active"] = 0 /\ Rank["expiring"] = 1 /\ Rank["expired"] = 2 /\ Rank["revoked"] = 2
    BY DEF Rank
  <1> QED
    BY <1>1 DEF Status

(* Where a status may go while counters and uses do not fall.              *)
LEMMA ForwardIs ==
  ASSUME NEW m \in Map, NEW n \in Map, n.createdAt = m.createdAt,
         \A s \in Seg : n.ctr[s] >= m.ctr[s],
         n.requestCount >= m.requestCount,
         \/ n.status = m.status
         \/ m.status \notin Terminal /\ n.status \in Terminal
         \/ m.status \notin Terminal /\ n.status = "expiring"
  PROVE  Forward(m, n)
  <1>1. m.status \in Status /\ n.status \in Status
    BY DEF Map
  <1>2. Rank[m.status] \in 0..2
    BY <1>1, Ranks
  <1>3. Rank[n.status] >= Rank[m.status]
    <2>1. CASE n.status = m.status
      BY <1>2, <2>1
    <2>2. CASE n.status \in Terminal
      BY <1>2, <2>2, Ranks DEF Terminal
    <2>3. CASE m.status \notin Terminal /\ n.status = "expiring"
      <3>1. m.status \in {"active", "expiring"}
        BY <1>1, <2>3 DEF Status, Terminal
      <3> QED
        BY <3>1, <2>3, Ranks
    <2> QED
      BY <2>1, <2>2, <2>3
  <1> QED
    BY <1>3 DEF Forward, Terminal

LEMMA NumbersOf ==
  ASSUME NEW m \in Map
  PROVE  m.requestCount \in Nat /\ m.createdAt \in Nat /\ \A s \in Seg : m.ctr[s] \in Nat
  BY MapAssumption DEF Map, Counter

(* A status change that a revocation or an expiry makes.                   *)
LEMMA StatusForward ==
  ASSUME NEW m \in Map, NEW st \in Terminal, m.status \notin Terminal
  PROVE  /\ [m EXCEPT !.status = st] \in Map /\ Forward(m, [m EXCEPT !.status = st])
         /\ CounterStateOk([m EXCEPT !.status = st])
  <1> DEFINE n == [m EXCEPT !.status = st]
  <1>1. st \in Status
    BY DEF Terminal, Status
  <1>2. /\ n \in Map /\ n.status = st /\ n.ctr = m.ctr /\ n.requestCount = m.requestCount
        /\ n.createdAt = m.createdAt
    <2>1. n.createdAt = m.createdAt
      BY DEF Map
    <2> QED
      BY <1>1, <2>1, StatusChange
  <1> HIDE DEF n
  <1>3. Forward(m, n) /\ CounterStateOk(n)
    BY <1>2, NumbersOf, ForwardIs DEF CounterStateOk
  <1> QED
    BY <1>2, <1>3 DEF n

(* Counters that only rose, and the status reconciled with them.           *)
LEMMA ReconciledForward ==
  ASSUME NEW m \in Map, NEW f \in [Seg -> Counter], \A s \in Seg : f[s] >= m.ctr[s]
  PROVE  /\ Reconciled([m EXCEPT !.ctr = f]) \in Map
         /\ Forward(m, Reconciled([m EXCEPT !.ctr = f]))
  <1> DEFINE n == [m EXCEPT !.ctr = f]
             r == Reconciled(n)
  <1>1. n \in Map /\ n.ctr = f /\ n.createdAt = m.createdAt /\ n.status = m.status
        /\ n.requestCount = m.requestCount
    BY DEF Map
  <1> HIDE DEF n
  <1>2. /\ r \in Map /\ r.ctr = f /\ r.createdAt = m.createdAt /\ r.requestCount = m.requestCount
        /\ n.status \in Terminal => r = n
    BY <1>1, ReconciledFacts, ReconciledCreatedAt
  <1>3. r.status \in {n.status, "expired", "expiring"}
    <2>1. "expired" \in Status /\ "expiring" \in Status
      BY DEF Status
    <2>2. [n EXCEPT !.status = "expired"].status = "expired" /\ [n EXCEPT !.status = "expiring"].status = "expiring"
      BY <1>1, <2>1, StatusChange
    <2> QED
      BY <2>2 DEF Reconciled
  <1> HIDE DEF r
  <1>4. Forward(m, r)
    <2>1. "expired" \in Terminal
      BY DEF Terminal
    <2> QED
      BY <1>1, <1>2, <1>3, <2>1, NumbersOf, ForwardIs
  <1> QED
    BY <1>2, <1>4 DEF r, n

LEMMA AdvancedForward ==
  ASSUME NEW m \in Map, NEW v \in Vector, NEW t, CommitOk(m, v, t)
  PROVE  /\ Advanced(m, v) \in Map /\ CounterStateOk(Advanced(m, v)) /\ Forward(m, Advanced(m, v))
  <1> DEFINE a == Advanced(m, v)
  <1>1. m.status \notin Terminal /\ \A s \in Seg : v[s] \in Usable /\ m.ctr[s] <= v[s]
    BY DEF CommitOk
  <1>2. /\ a \in Map /\ a.ctr = [s \in Seg |-> v[s] + 1] /\ a.requestCount = m.requestCount + 1
        /\ CounterStateOk(a) /\ a.createdAt = m.createdAt
    BY <1>1, AdvancedFacts, AdvancedCreatedAt
  <1>3. a.status \in {m.status, "expired", "expiring"}
    <2> DEFINE f == [s \in Seg |-> v[s] + 1]
               n == [m EXCEPT !.ctr = f, !.requestCount = @ + 1]
               rn == Reconciled(n)
    <2>1. f \in [Seg -> Counter]
      BY MapAssumption DEF Vector, Usable, Counter
    <2>2. n \in Map /\ n.status = m.status
      <3> HIDE DEF f
      <3>1. m.requestCount + 1 \in Nat
        BY DEF Map
      <3> QED
        BY <2>1, <3>1 DEF Map
    <2>3. a = IF UsageWarning(rn) /\ ~UsesRemainingAtMost(rn, 0)
              THEN [rn EXCEPT !.status = "expiring"] ELSE rn
      BY DEF Advanced
    <2> HIDE DEF n
    <2>4. "expired" \in Status /\ "expiring" \in Status
      BY DEF Status
    <2>5. [n EXCEPT !.status = "expired"].status = "expired" /\ [n EXCEPT !.status = "expiring"].status = "expiring"
      BY <2>2, <2>4, StatusChange
    <2>6. rn \in Map /\ rn.status \in {m.status, "expired", "expiring"}
      BY <2>2, <2>5, ReconciledFacts DEF Reconciled
    <2> HIDE DEF rn
    <2>7. [rn EXCEPT !.status = "expiring"].status = "expiring"
      BY <2>4, <2>6, StatusChange
    <2> QED
      BY <2>3, <2>6, <2>7
  <1> HIDE DEF a
  <1>4. \A s \in Seg : a.ctr[s] >= m.ctr[s]
    <2> SUFFICES ASSUME NEW s \in Seg PROVE a.ctr[s] >= m.ctr[s]
      OBVIOUS
    <2>1. v[s] \in Nat /\ m.ctr[s] \in Nat /\ m.ctr[s] <= v[s] /\ a.ctr[s] = v[s] + 1
      BY <1>1, <1>2, NumbersOf, MapAssumption DEF Usable
    <2> QED
      BY <2>1
  <1>5. "expired" \in Terminal /\ a.requestCount >= m.requestCount
    BY <1>2, NumbersOf DEF Terminal
  <1>6. Forward(m, a)
    BY <1>1, <1>2, <1>3, <1>4, <1>5, ForwardIs
  <1> QED
    BY <1>2, <1>6 DEF a

-----------------------------------------------------------------------------
(* What a mutation opens: the transaction and what the caller keeps.       *)

CopyOf == [client : ClientId, stored : Stored]

OpensTx ==
  /\ tx = NoTx /\ tx' \in Mutation /\ tx'.fence = fence
  /\ Follows(maps, tx') /\ Len(rows) - acked < MaxPending
  /\ \A c \in DOMAIN tx'.effects : tx'.effects[c] # NoMap => tx'.effects[c].used <= time'
  /\ UNCHANGED <<maps, rows, acked, past, lease, bound, fence, boundary, replica>>

CallerKeeps ==
  /\ issued' \in Nat /\ time' \in Nat /\ time' >= time
  /\ copy' \in [Editor -> CopyOf \cup {NoMap}]
  /\ \A e \in Editor : copy'[e] \in {copy[e], NoMap}

LEMMA AuthorityNumbers ==
  /\ MaxRevision \in Nat /\ MaxPending \in Nat /\ MaxGrants \in Nat /\ MaxFence \in Nat
  /\ MaxRevision >= 1 /\ MaxPending >= 1 /\ MaxGrants >= 1 /\ MaxFence >= 1
  /\ UsedAtSkew \in Nat /\ MaxRows \in Nat /\ MaxIssued \in Nat /\ MaxTime \in Nat
  BY AuthorityAssumption

LEMMA StoredFacts ==
  ASSUME NEW m \in Stored
  PROVE  m.map \in Map /\ m.used \in Nat /\ m.rev \in 1..MaxRevision
  BY DEF Stored

LEMMA MapOfClient ==
  ASSUME AuthorityInv, NEW c \in ClientId, maps[c] # NoMap
  PROVE  /\ maps[c] \in Stored /\ maps[c].map \in Map /\ maps[c].used \in Nat
         /\ maps[c].rev \in Nat /\ maps[c].rev >= 1
         /\ CounterStateOk(maps[c].map) /\ maps[c].used <= time
  <1>1. maps[c] \in Stored
    BY DEF AuthorityInv, AuthorityShape, Table
  <1>2. maps[c].map \in Map /\ maps[c].used \in Nat /\ maps[c].rev \in 1..MaxRevision
    BY <1>1, StoredFacts
  <1>3. CounterStateOk(maps[c].map)
    <2>1. Len(past) \in DOMAIN past /\ past[Len(past)] = maps
      <3>1. past \in Seq(Table) /\ rows \in Seq(Mutation) /\ Len(past) = Len(rows) + 1
            /\ past[Len(past)] = maps
        BY DEF AuthorityInv, AuthorityShape, HistoryInv
      <3>2. Len(rows) \in Nat /\ DOMAIN past = 1..Len(past)
        BY <3>1
      <3> QED
        BY <3>1, <3>2
    <2> QED
      BY <2>1 DEF AuthorityInv, HistoryInv
  <1>4. maps[c].used <= time
    BY DEF AuthorityInv, UsedInv
  <1> QED
    BY <1>1, <1>2, <1>3, <1>4, AuthorityNumbers

LEMMA EffectsAre ==
  ASSUME NEW S \in SUBSET ClientId, NEW f \in [S -> Stored \cup {NoMap}]
  PROVE  f \in Effects /\ DOMAIN f = S
  BY DEF Effects

LEMMA EffectsGive ==
  ASSUME NEW f \in Effects
  PROVE  /\ DOMAIN f \in SUBSET ClientId
         /\ \A c \in DOMAIN f : f[c] \in Stored \cup {NoMap}
  <1>1. PICK S \in SUBSET ClientId : f \in [S -> Stored \cup {NoMap}]
    BY DEF Effects
  <1> QED
    BY <1>1

(* A row whose effects follow opens.                                       *)
LEMMA RowOpens ==
  ASSUME AuthorityInv, NEW kind \in Kind, NEW rev \in Nat, NEW eff \in Effects, rev >= 1,
         appendAndApply(kind, rev, eff),
         \A row \in Mutation : row.kind = kind /\ row.rev = rev /\ row.effects = eff => Follows(maps, row),
         \A c \in DOMAIN eff : eff[c] # NoMap => eff[c].used <= time'
  PROVE  OpensTx
  <1>1. rev \in 1..MaxRevision
    BY AuthorityNumbers DEF appendAndApply
  <1>2. fence \in 1..MaxFence
    BY DEF AuthorityInv, AuthorityShape
  <1> DEFINE row == Row(kind, rev, eff)
  <1>3. row \in Mutation /\ row.kind = kind /\ row.rev = rev /\ row.effects = eff /\ row.fence = fence
    BY <1>1, <1>2 DEF Row, Mutation
  <1>4. tx = NoTx /\ tx' = row /\ Len(rows) - acked < MaxPending
        /\ UNCHANGED <<maps, rows, acked, past, lease, bound, fence, boundary, replica>>
    BY DEF appendAndApply, Prepared
  <1> HIDE DEF row
  <1>5. Follows(maps, row)
    BY <1>3
  <1> QED
    BY <1>3, <1>4, <1>5 DEF OpensTx

(* persist: the snapshot of one client.                                    *)
LEMMA SnapshotOpens ==
  ASSUME AuthorityInv, NEW c \in ClientId, NEW m \in Map, NEW used \in Nat, NEW rev \in Nat,
         persist(c, m, used, rev), used <= time',
         maps[c] = NoMap => rev = 1,
         maps[c] # NoMap => /\ rev = maps[c].rev + 1 /\ Forward(maps[c].map, m)
                            /\ UsedAtSkew = 0 => used >= maps[c].used
  PROVE  OpensTx
  <1> DEFINE st  == [map |-> m, used |-> used, rev |-> rev]
             eff == [x \in {c} |-> st]
  <1>1. rev >= 1 /\ rev <= MaxRevision /\ CounterStateOk(m) /\ appendAndApply("snapshot", rev, eff)
    BY MapOfClient DEF persist, appendAndApply
  <1>2. st \in Stored /\ st.map = m /\ st.used = used /\ st.rev = rev
    BY <1>1, AuthorityNumbers DEF Stored
  <1> HIDE DEF st
  <1>3. eff \in Effects /\ DOMAIN eff = {c} /\ eff[c] = st
    BY <1>2, EffectsAre
  <1> HIDE DEF eff
  <1>4. ASSUME NEW row \in Mutation, row.kind = "snapshot", row.rev = rev, row.effects = eff
        PROVE  Follows(maps, row)
    BY <1>1, <1>2, <1>3, <1>4 DEF Follows
  <1>5. \A x \in DOMAIN eff : eff[x] # NoMap => eff[x].used <= time'
    BY <1>2, <1>3
  <1>6. "snapshot" \in Kind
    BY DEF Kind
  <1> QED
    BY <1>1, <1>3, <1>4, <1>5, <1>6, RowOpens

LEMMA SameCaller ==
  ASSUME AuthorityInv, issued' \in Nat, time' \in Nat, time' >= time, UNCHANGED copy PROVE CallerKeeps
  BY DEF AuthorityInv, AuthorityShape, CallerKeeps, CopyOf

LEMMA ClockAndIssue ==
  ASSUME AuthorityInv PROVE issued \in Nat /\ time \in Nat /\ issued + 1 \in Nat /\ time >= time
  BY DEF AuthorityInv, AuthorityShape

LEMMA SetNewOpens ==
  ASSUME AuthorityInv, NEW c \in ClientId, NEW lc \in Lifecycle, setNew(c, lc)
  PROVE  OpensTx /\ CallerKeeps
  <1>1. maps[c] = NoMap /\ issued' = issued + 1 /\ persist(c, NewMap(lc, issued), 0, 1)
        /\ copy' = copy /\ time' = time
    BY DEF setNew
  <1>2. issued \in Nat /\ time \in Nat /\ issued' \in Nat /\ 0 <= time'
    BY <1>1, ClockAndIssue
  <1>3. NewMap(lc, issued) \in Map
    BY <1>2, NewMapFacts
  <1>4. OpensTx
    <2> DEFINE m == NewMap(lc, issued)
    <2>1. m \in Map /\ persist(c, m, 0, 1)
      BY <1>1, <1>3
    <2> HIDE DEF m
    <2> QED
      BY <1>1, <1>2, <2>1, SnapshotOpens
  <1> QED
    BY <1>1, <1>2, <1>4, SameCaller

LEMMA SetOpens ==
  ASSUME AuthorityInv, NEW e \in Editor, NEW st \in Status, set(e, st)
  PROVE  OpensTx /\ CallerKeeps
  <1> DEFINE c == copy[e].client
             old == copy[e].stored
             m == [old.map EXCEPT !.status = st]
             next == [map |-> m, used |-> old.used, rev |-> old.rev]
             rev == IF maps[c] = NoMap THEN 1 ELSE maps[c].rev + 1
  <1>1. /\ copy[e] # NoMap
        /\ maps[c] # NoMap => Monotonic(maps[c], next)
        /\ persist(c, next.map, next.used, rev)
        /\ copy' = [copy EXCEPT ![e] = NoMap] /\ issued' = issued /\ time' = time
    BY DEF set
  <1>2. copy[e] \in CopyOf
    BY <1>1 DEF AuthorityInv, AuthorityShape, CopyOf
  <1>3. c \in ClientId /\ old \in Stored
    BY <1>2 DEF CopyOf
  <1>4. old.map \in Map /\ old.used \in Nat /\ old.used <= time
    BY <1>1, <1>3, StoredFacts DEF AuthorityInv, UsedInv
  <1>5. m \in Map
    BY <1>4, StatusChange
  <1>6. next.map = m /\ next.used = old.used
    OBVIOUS
  <1>7. maps[c] # NoMap => Forward(maps[c].map, m) /\ old.used >= maps[c].used
    BY <1>1, <1>6 DEF Monotonic
  <1>8. rev \in Nat
    BY <1>3, MapOfClient
  <1>9. persist(c, m, old.used, rev)
    BY <1>1, <1>6
  <1>10. (maps[c] = NoMap => rev = 1) /\ (maps[c] # NoMap => rev = maps[c].rev + 1) /\ old.used <= time'
    BY <1>1, <1>4
  <1> HIDE DEF next, m, rev, old, c
  <1>11. OpensTx
    BY <1>3, <1>4, <1>5, <1>7, <1>8, <1>9, <1>10, SnapshotOpens
  <1>12. CallerKeeps
    BY <1>1, ClockAndIssue DEF AuthorityInv, AuthorityShape, CallerKeeps, CopyOf
  <1> QED
    BY <1>11, <1>12

LEMMA DeleteOpens ==
  ASSUME AuthorityInv, NEW c \in ClientId, delete(c)
  PROVE  OpensTx /\ CallerKeeps
  <1> DEFINE eff == [x \in {c} |-> NoMap]
             rev == maps[c].rev + 1
  <1>1. maps[c] # NoMap /\ appendAndApply("delete", rev, eff)
        /\ copy' = copy /\ issued' = issued /\ time' = time
    BY DEF delete
  <1>2. rev \in Nat /\ rev >= 1
    BY <1>1, MapOfClient
  <1>3. eff \in Effects /\ DOMAIN eff = {c} /\ eff[c] = NoMap
    BY EffectsAre
  <1>4. rev = maps[c].rev + 1 /\ "delete" \in Kind
    BY DEF Kind
  <1> HIDE DEF eff, rev
  <1>5. ASSUME NEW row \in Mutation, row.kind = "delete", row.rev = rev, row.effects = eff
        PROVE  Follows(maps, row)
    BY <1>1, <1>3, <1>4, <1>5 DEF Follows
  <1>6. OpensTx
    BY <1>1, <1>2, <1>3, <1>4, <1>5, RowOpens
  <1> QED
    BY <1>1, <1>6, ClockAndIssue, SameCaller

(* The map of a client rewritten in place, its last use kept.              *)
LEMMA RewriteOpens ==
  ASSUME AuthorityInv, NEW c \in ClientId, maps[c] # NoMap, NEW m \in Map, Forward(maps[c].map, m),
         persist(c, m, maps[c].used, maps[c].rev + 1), time' >= time, time' \in Nat
  PROVE  OpensTx
  <1> DEFINE used == maps[c].used
             rev == maps[c].rev + 1
  <1>1. used \in Nat /\ rev \in Nat /\ used >= maps[c].used /\ used <= time' /\ rev = maps[c].rev + 1
    <2>1. maps[c].used \in Nat /\ maps[c].used <= time /\ maps[c].rev \in Nat
      BY MapOfClient
    <2> QED
      BY <2>1, ClockAndIssue
  <1>2. persist(c, m, used, rev)
    OBVIOUS
  <1> HIDE DEF used, rev
  <1> QED
    BY <1>1, <1>2, SnapshotOpens

LEMMA UpdateOpens ==
  ASSUME AuthorityInv, NEW c \in ClientId, NEW S \in SUBSET Seg, NEW u \in [S -> Counter],
         updateCounters(c, u)
  PROVE  OpensTx /\ CallerKeeps
  <1> DEFINE k == maps[c].map
             f == [s \in Seg |-> IF s \in DOMAIN u THEN u[s] ELSE k.ctr[s]]
             m == Reconciled([k EXCEPT !.ctr = f])
  <1>1. /\ maps[c] # NoMap /\ \A s \in DOMAIN u : u[s] >= k.ctr[s]
        /\ persist(c, m, maps[c].used, maps[c].rev + 1)
        /\ copy' = copy /\ issued' = issued /\ time' = time
    BY DEF updateCounters
  <1>2. k \in Map /\ k.ctr \in [Seg -> Counter] /\ \A s \in Seg : k.ctr[s] \in Nat
    <2>1. k \in Map
      BY <1>1, MapOfClient
    <2> HIDE DEF k
    <2> QED
      BY <2>1, NumbersOf DEF Map
  <1>3. f \in [Seg -> Counter] /\ \A s \in Seg : f[s] >= k.ctr[s]
    <2> HIDE DEF k
    <2>1. f \in [Seg -> Counter]
      BY <1>2
    <2>2. \A s \in Seg : f[s] >= k.ctr[s]
      BY <1>1, <1>2
    <2> QED
      BY <2>1, <2>2
  <1> HIDE DEF f
  <1>4. m \in Map /\ Forward(k, m)
    <2> HIDE DEF k
    <2> QED
      BY <1>2, <1>3, ReconciledForward
  <1> HIDE DEF m
  <1>5. OpensTx
    BY <1>1, <1>4, ClockAndIssue, RewriteOpens
  <1> QED
    BY <1>1, <1>5, ClockAndIssue, SameCaller

LEMMA ConsumeOpens ==
  ASSUME AuthorityInv, NEW c \in ClientId, NEW s \in Seg, NEW n \in Usable, consumeCounter(c, s, n)
  PROVE  OpensTx /\ CallerKeeps
  <1> DEFINE k == maps[c].map
             f == [k.ctr EXCEPT ![s] = n + 1]
             m == Reconciled([k EXCEPT !.ctr = f])
  <1>1. /\ maps[c] # NoMap /\ k.ctr[s] <= n
        /\ persist(c, m, maps[c].used, maps[c].rev + 1)
        /\ copy' = copy /\ issued' = issued /\ time' = time
    BY DEF consumeCounter
  <1>2. k \in Map /\ k.ctr \in [Seg -> Counter] /\ \A z \in Seg : k.ctr[z] \in Nat
    <2>1. k \in Map
      BY <1>1, MapOfClient
    <2> HIDE DEF k
    <2> QED
      BY <2>1, NumbersOf DEF Map
  <1>3. f \in [Seg -> Counter] /\ \A z \in Seg : f[z] >= k.ctr[z]
    <2> HIDE DEF k
    <2>1. n + 1 \in Counter /\ n + 1 >= k.ctr[s]
      BY <1>1, <1>2, MapAssumption DEF Usable, Counter
    <2> QED
      BY <1>2, <2>1
  <1> HIDE DEF f
  <1>4. m \in Map /\ Forward(k, m)
    <2> HIDE DEF k
    <2> QED
      BY <1>2, <1>3, ReconciledForward
  <1> HIDE DEF m
  <1>5. OpensTx
    BY <1>1, <1>4, ClockAndIssue, RewriteOpens
  <1> QED
    BY <1>1, <1>5, ClockAndIssue, SameCaller

LEMMA ValidationOpens ==
  ASSUME AuthorityInv, NEW c \in ClientId, NEW v \in Vector, NEW t \in UseTimes,
         commitValidation(c, v, t)
  PROVE  OpensTx /\ CallerKeeps
  <1> DEFINE k == maps[c].map
             m == commitValidationToMap(k, v, t)
             used == IF CommitOk(k, v, t) THEN t ELSE maps[c].used
             rev == maps[c].rev + 1
  <1>1. /\ maps[c] # NoMap /\ m # k
        /\ persist(c, m, used, rev)
        /\ time' = (IF t > time THEN t ELSE time) /\ copy' = copy /\ issued' = issued
    BY DEF commitValidation
  <1>2. t \in Nat /\ time \in Nat /\ t + UsedAtSkew >= time /\ UsedAtSkew \in Nat
    BY AuthorityNumbers, ClockAndIssue DEF UseTimes
  <1>3. time' \in Nat /\ time' >= time /\ time' >= t
    BY <1>1, <1>2
  <1>4. /\ k \in Map /\ CounterStateOk(k) /\ maps[c].used \in Nat /\ maps[c].rev \in Nat
        /\ maps[c].used <= time
    BY <1>1, MapOfClient
  <1>5. m \in Map /\ Forward(k, m)
    <2> HIDE DEF k
    <2>1. CASE CommitOk(k, v, t)
      <3>1. m = Advanced(k, v)
        BY <2>1 DEF commitValidationToMap
      <3> QED
        BY <1>4, <2>1, <3>1, AdvancedForward
    <2>2. CASE ~CommitOk(k, v, t)
      <3>1. m = [k EXCEPT !.status = "expired"] /\ k.status \notin Terminal
        BY <1>1, <1>2, <1>4, <2>2, CommitKeepsMap DEF commitValidationToMap, CommitExpires
      <3>2. "expired" \in Terminal
        BY DEF Terminal
      <3> QED
        BY <1>4, <3>1, <3>2, StatusForward
    <2> QED
      BY <2>1, <2>2
  <1>6. used \in Nat /\ rev \in Nat /\ used <= time' /\ rev = maps[c].rev + 1
    BY <1>2, <1>3, <1>4
  <1>7. UsedAtSkew = 0 => used >= maps[c].used
    BY <1>2, <1>4
  <1>8. Forward(maps[c].map, m)
    BY <1>5
  <1> HIDE DEF m, used, rev, k
  <1>9. OpensTx
    BY <1>1, <1>5, <1>6, <1>7, <1>8, SnapshotOpens
  <1> QED
    BY <1>1, <1>3, <1>9, ClockAndIssue, SameCaller

LEMMA ReplaceOpens ==
  ASSUME AuthorityInv, NEW old \in ClientId, NEW new \in ClientId, NEW lc \in Lifecycle,
         replaceCredential(old, new, lc)
  PROVE  OpensTx /\ CallerKeeps
  <1> DEFINE k == maps[old].map
             dead == [k EXCEPT !.status = "revoked"]
             rev == maps[old].rev + 1
             so == [map |-> dead, used |-> maps[old].used, rev |-> rev]
             nm == NewMap(lc, issued)
             sn == [map |-> nm, used |-> 0, rev |-> 1]
             eff == [x \in {old, new} |-> IF x = old THEN so ELSE sn]
  <1>1. /\ maps[old] # NoMap /\ k.status \notin Terminal /\ maps[new] = NoMap /\ old # new
        /\ issued' = issued + 1 /\ copy' = copy /\ time' = time
        /\ appendAndApply("replace", rev, eff)
    BY DEF replaceCredential
  <1>2. /\ k \in Map /\ maps[old].used \in Nat /\ maps[old].used <= time
        /\ rev \in Nat /\ rev >= 1 /\ rev <= MaxRevision
    <2>1. rev <= MaxRevision
      BY <1>1 DEF appendAndApply
    <2>2. maps[old].rev \in Nat
      BY <1>1, MapOfClient
    <2> QED
      BY <1>1, <2>1, <2>2, MapOfClient
  <1>3. dead \in Map /\ Forward(k, dead) /\ CounterStateOk(dead)
    <2> HIDE DEF k
    <2>1. "revoked" \in Terminal
      BY DEF Terminal
    <2> QED
      BY <1>1, <1>2, <2>1, StatusForward
  <1>4. so \in Stored /\ so.map = dead /\ so.used = maps[old].used /\ so.rev = rev
    <2> HIDE DEF dead, rev
    <2> QED
      BY <1>2, <1>3, AuthorityNumbers DEF Stored
  <1>5. sn \in Stored /\ CounterStateOk(sn.map) /\ sn.used = 0 /\ sn.rev = 1
    <2>1. nm \in Map /\ CounterStateOk(nm)
      BY ClockAndIssue, NewMapFacts
    <2> HIDE DEF nm
    <2>2. 0 \in Nat /\ 1 \in 1..MaxRevision
      BY AuthorityNumbers
    <2> QED
      BY <2>1, <2>2 DEF Stored
  <1> HIDE DEF so, sn
  <1>6. eff \in Effects /\ DOMAIN eff = {old, new} /\ eff[old] = so /\ eff[new] = sn
    BY <1>1, <1>4, <1>5, EffectsAre
  <1>7. rev = maps[old].rev + 1 /\ Forward(maps[old].map, dead) /\ "replace" \in Kind
    BY <1>3 DEF Kind
  <1> HIDE DEF eff, dead, k
  <1>8. Cardinality({x \in DOMAIN eff : maps[x] = NoMap}) = 1
    <2>1. {x \in DOMAIN eff : maps[x] = NoMap} = {new}
      BY <1>1, <1>6
    <2> QED
      BY <2>1, FS_Singleton
  <1>9. ASSUME NEW row \in Mutation, row.kind = "replace", row.rev = rev, row.effects = eff
        PROVE  Follows(maps, row)
    <2>1. ASSUME NEW c \in DOMAIN row.effects
          PROVE  /\ row.effects[c] \in Stored /\ CounterStateOk(row.effects[c].map)
                 /\ maps[c] = NoMap => row.effects[c].rev = 1
                 /\ maps[c] # NoMap =>
                      /\ row.effects[c].rev = maps[c].rev + 1
                      /\ Forward(maps[c].map, row.effects[c].map)
                      /\ UsedAtSkew = 0 => row.effects[c].used >= maps[c].used
      <3>1. CASE c = old
        BY <1>1, <1>2, <1>3, <1>4, <1>6, <1>7, <1>9, <3>1
      <3>2. CASE c = new
        BY <1>1, <1>5, <1>6, <1>9, <3>2
      <3> QED
        BY <2>1, <3>1, <3>2, <1>6, <1>9
    <2> QED
      BY <1>8, <1>9, <2>1 DEF Follows
  <1>10. \A x \in DOMAIN eff : eff[x] # NoMap => eff[x].used <= time'
    BY <1>1, <1>2, <1>4, <1>5, <1>6, ClockAndIssue
  <1> HIDE DEF rev
  <1>11. OpensTx
    BY <1>1, <1>2, <1>6, <1>7, <1>9, <1>10, RowOpens
  <1> QED
    BY <1>1, <1>11, ClockAndIssue, SameCaller

-----------------------------------------------------------------------------
(* The invariant, part by part.                                            *)

LEMMA AuthorityInitOK == AuthorityInit => AuthorityInv
  <1> SUFFICES ASSUME AuthorityInit PROVE AuthorityInv
    OBVIOUS
  <1>1. AuthorityShape
    <2>1. /\ maps \in Table /\ rows \in Seq(Mutation) /\ tx = NoTx
          /\ bound \in 1..1 /\ fence \in 1..MaxFence /\ copy \in [Editor -> CopyOf \cup {NoMap}]
          /\ issued \in Nat /\ time \in Nat /\ acked \in Nat
      BY AuthorityNumbers DEF AuthorityInit, Table
    <2>2. past \in Seq(Table)
      <3>1. past = <<maps>>
        BY DEF AuthorityInit
      <3> QED
        BY <2>1, <3>1
    <2>3. /\ lease \in [grant : 1..MaxGrants, status : {"active", "revoked"}, over : BOOLEAN]
          /\ lease.grant = 1
      BY AuthorityNumbers DEF AuthorityInit
    <2>4. replica \in [maps : Table, applied : Nat, fence : 1..MaxFence]
      BY <2>1, AuthorityNumbers DEF AuthorityInit
    <2> QED
      BY <2>1, <2>2, <2>3, <2>4 DEF AuthorityShape, CopyOf
  <1>2. HistoryInv
    BY DEF AuthorityInit, HistoryInv
  <1>3. OpenTxInv /\ UsedInv
    BY DEF AuthorityInit, OpenTxInv, UsedInv
  <1>4. DeliveryInv
    BY AuthorityNumbers DEF AuthorityInit, DeliveryInv, ReplicaMirrors
  <1> QED
    BY <1>1, <1>2, <1>3, <1>4 DEF AuthorityInv

LEMMA OpensKeeps ==
  ASSUME AuthorityInv, OpensTx, CallerKeeps PROVE AuthorityInv'
  <1>1. AuthorityShape'
    BY DEF AuthorityInv, AuthorityShape, OpensTx, CallerKeeps, CopyOf
  <1>2. HistoryInv'
    BY DEF AuthorityInv, HistoryInv, OpensTx
  <1>3. OpenTxInv'
    BY DEF OpenTxInv, OpensTx
  <1>4. UsedInv'
    <2>1. \A c \in ClientId : maps[c] # NoMap => maps[c].used <= time'
      <3> SUFFICES ASSUME NEW c \in ClientId, maps[c] # NoMap PROVE maps[c].used <= time'
        OBVIOUS
      <3>1. maps[c].used \in Nat /\ maps[c].used <= time
        BY MapOfClient
      <3> QED
        BY <3>1, ClockAndIssue DEF CallerKeeps
    <2>2. \A e \in Editor : copy'[e] # NoMap => copy'[e].stored.used <= time'
      <3> SUFFICES ASSUME NEW e \in Editor, copy'[e] # NoMap PROVE copy'[e].stored.used <= time'
        OBVIOUS
      <3>1. copy'[e] = copy[e] /\ copy[e] \in CopyOf
        BY DEF CallerKeeps, AuthorityInv, AuthorityShape, CopyOf
      <3>2. copy[e].stored.used \in Nat
        BY <3>1, StoredFacts DEF CopyOf
      <3>3. copy[e].stored.used <= time
        BY <3>1 DEF AuthorityInv, UsedInv
      <3> QED
        BY <3>1, <3>2, <3>3, ClockAndIssue DEF CallerKeeps
    <2> QED
      BY <2>1, <2>2 DEF UsedInv, OpensTx
  <1>5. DeliveryInv'
    BY DEF AuthorityInv, DeliveryInv, ReplicaMirrors, OpensTx
  <1> QED
    BY <1>1, <1>2, <1>3, <1>4, <1>5 DEF AuthorityInv

LEMMA AppliedTable ==
  ASSUME NEW t \in Table, NEW eff \in Effects PROVE Applied(t, eff) \in Table
  BY EffectsGive DEF Applied, Table

(* The outbox and its history as sequences.                                *)
LEMMA HistoryFacts ==
  ASSUME AuthorityInv
  PROVE  /\ rows \in Seq(Mutation) /\ past \in Seq(Table) /\ Len(rows) \in Nat
         /\ Len(past) = Len(rows) + 1 /\ DOMAIN rows = 1..Len(rows) /\ DOMAIN past = 1..(Len(rows) + 1)
         /\ past[Len(rows) + 1] = maps
         /\ replica.applied \in Nat /\ acked \in Nat
  <1>1. rows \in Seq(Mutation) /\ past \in Seq(Table) /\ Len(past) = Len(rows) + 1 /\ past[Len(past)] = maps
    BY DEF AuthorityInv, AuthorityShape, HistoryInv
  <1>2. replica.applied \in Nat /\ acked \in Nat
    BY DEF AuthorityInv, AuthorityShape
  <1> QED
    BY <1>1, <1>2

(* A committed mutation lengthens the history by what it did.              *)
LEMMA CommitLengthens ==
  ASSUME NEW g \in Seq(Table), NEW r \in Seq(Mutation), Len(g) = Len(r) + 1,
         NEW row \in Mutation, NEW t \in Table, Follows(g[Len(g)], row), t = Applied(g[Len(g)], row.effects),
         \A i \in DOMAIN r : g[i + 1] = Applied(g[i], r[i].effects) /\ Follows(g[i], r[i])
  PROVE  \A i \in DOMAIN Append(r, row) :
           /\ Append(g, t)[i + 1] = Applied(Append(g, t)[i], Append(r, row)[i].effects)
           /\ Follows(Append(g, t)[i], Append(r, row)[i])
  <1> DEFINE h == Append(g, t)
             q == Append(r, row)
  <1>1. PICK n \in Nat : n = Len(r)
    OBVIOUS
  <1>2. /\ DOMAIN q = 1..(n + 1) /\ q[n + 1] = row /\ \A i \in 1..n : q[i] = r[i]
        /\ h[n + 2] = t /\ \A i \in 1..(n + 1) : h[i] = g[i]
    BY <1>1
  <1> HIDE DEF h, q
  <1>3. ASSUME NEW i \in DOMAIN q
        PROVE  h[i + 1] = Applied(h[i], q[i].effects) /\ Follows(h[i], q[i])
    <2>1. CASE i = n + 1
      BY <1>1, <1>2, <2>1
    <2>2. CASE i \in 1..n
      <3>1. i + 1 \in 1..(n + 1) /\ i \in 1..(n + 1) /\ i \in DOMAIN r
        BY <1>1, <2>2
      <3>2. h[i + 1] = g[i + 1] /\ h[i] = g[i] /\ q[i] = r[i]
        BY <1>2, <2>2, <3>1
      <3> QED
        BY <3>1, <3>2
    <2> QED
      BY <1>2, <1>3, <2>1, <2>2
  <1> QED
    BY <1>3 DEF h, q

LEMMA CommitKeeps ==
  ASSUME AuthorityInv, commitTx PROVE AuthorityInv'
  <1>1. /\ tx # NoTx /\ rows' = Append(rows, tx) /\ maps' = Applied(maps, tx.effects)
        /\ past' = Append(past, maps') /\ tx' = NoTx
        /\ UNCHANGED <<acked, lease, bound, fence, boundary, copy, issued, time, replica>>
    BY DEF commitTx
  <1>2. tx \in Mutation /\ Follows(maps, tx) /\ Len(rows) - acked < MaxPending
    BY <1>1 DEF AuthorityInv, AuthorityShape, OpenTxInv
  <1>3. tx.effects \in Effects /\ tx.kind \in Kind
    BY <1>2 DEF Mutation
  <1>4. maps \in Table
    BY DEF AuthorityInv, AuthorityShape
  <1>5. maps' \in Table
    BY <1>1, <1>3, <1>4, AppliedTable
  <1>6. AuthorityShape'
    <2>1. rows' \in Seq(Mutation)
      BY <1>1, <1>2, HistoryFacts
    <2>2. past' \in Seq(Table)
      BY <1>1, <1>5, HistoryFacts
    <2>3. /\ lease \in [grant : 1..MaxGrants, status : {"active", "revoked"}, over : BOOLEAN]
          /\ bound \in 1..lease.grant /\ fence \in 1..MaxFence
          /\ copy \in [Editor -> [client : ClientId, stored : Stored] \cup {NoMap}]
          /\ issued \in Nat /\ time \in Nat /\ acked \in Nat
          /\ replica \in [maps : Table, applied : Nat, fence : 1..MaxFence]
      BY DEF AuthorityInv, AuthorityShape
    <2> QED
      BY <1>1, <1>5, <2>1, <2>2, <2>3 DEF AuthorityShape
  <1>7. ASSUME NEW c \in ClientId, maps'[c] # NoMap, maps'[c] # maps[c]
        PROVE  c \in DOMAIN tx.effects /\ maps'[c] = tx.effects[c] /\ tx.kind # "delete"
    <2>1. c \in DOMAIN tx.effects /\ maps'[c] = tx.effects[c]
      BY <1>1, <1>7 DEF Applied
    <2> QED
      BY <1>2, <1>7, <2>1 DEF Follows
  <1>8. HistoryInv'
    <2>1. Len(past') = Len(rows') + 1 /\ past'[Len(past')] = maps'
      BY <1>1, HistoryFacts
    <2>2. \A i \in DOMAIN rows' : past'[i + 1] = Applied(past'[i], rows'[i].effects) /\ Follows(past'[i], rows'[i])
      <3>1. Follows(past[Len(past)], tx) /\ maps' = Applied(past[Len(past)], tx.effects)
        BY <1>1, <1>2, HistoryFacts
      <3>2. \A i \in DOMAIN rows : past[i + 1] = Applied(past[i], rows[i].effects) /\ Follows(past[i], rows[i])
        BY DEF AuthorityInv, HistoryInv
      <3> QED
        BY <1>1, <1>2, <1>5, <3>1, <3>2, HistoryFacts, CommitLengthens
    <2>3. ASSUME NEW i \in DOMAIN past', NEW c \in ClientId, past'[i][c] # NoMap
          PROVE  CounterStateOk(past'[i][c].map)
      <3>1. CASE i \in DOMAIN past
        <4>1. past'[i] = past[i]
          BY <1>1, <3>1, HistoryFacts
        <4> QED
          BY <2>3, <3>1, <4>1 DEF AuthorityInv, HistoryInv
      <3>2. CASE i \notin DOMAIN past
        <4>1. past'[i] = maps'
          BY <1>1, <2>3, <3>2, HistoryFacts
        <4>2. CASE maps'[c] = maps[c]
          BY <2>3, <4>1, <4>2, MapOfClient
        <4>3. CASE maps'[c] # maps[c]
          BY <1>2, <1>7, <2>3, <4>1, <4>3 DEF Follows
        <4> QED
          BY <4>2, <4>3
      <3> QED
        BY <3>1, <3>2
    <2> QED
      BY <2>1, <2>2, <2>3 DEF HistoryInv
  <1>9. OpenTxInv'
    BY <1>1 DEF OpenTxInv
  <1>10. UsedInv'
    <2>1. ASSUME NEW c \in ClientId, maps'[c] # NoMap PROVE maps'[c].used <= time
      <3>1. CASE maps'[c] = maps[c]
        BY <2>1, <3>1, MapOfClient
      <3>2. CASE maps'[c] # maps[c]
        BY <1>1, <1>7, <2>1, <3>2 DEF AuthorityInv, UsedInv
      <3> QED
        BY <3>1, <3>2
    <2> QED
      BY <1>1, <2>1 DEF AuthorityInv, UsedInv
  <1>11. DeliveryInv'
    <2>1. acked <= replica.applied /\ replica.applied <= Len(rows) /\ replica.maps = past[replica.applied + 1]
      BY DEF AuthorityInv, DeliveryInv, ReplicaMirrors
    <2>2. Len(rows') = Len(rows) + 1
      BY <1>1, HistoryFacts
    <2>3. past'[replica.applied + 1] = past[replica.applied + 1]
      BY <1>1, <2>1, HistoryFacts
    <2>4. replica.applied <= Len(rows') /\ Len(rows') - acked <= MaxPending
      BY <1>2, <2>1, <2>2, HistoryFacts, AuthorityNumbers
    <2> QED
      BY <1>1, <2>1, <2>3, <2>4 DEF DeliveryInv, ReplicaMirrors
  <1> QED
    BY <1>6, <1>8, <1>9, <1>10, <1>11 DEF AuthorityInv

LEMMA DeliverKeeps ==
  ASSUME AuthorityInv, NEW seq \in DOMAIN rows, verifyAndApplyDelivered(seq) PROVE AuthorityInv'
  <1> DEFINE t == Applied(replica.maps, rows[seq].effects)
  <1>1. /\ Decision(seq) = "applied"
        /\ replica' = [maps |-> t, applied |-> seq, fence |-> replica.fence]
        /\ UNCHANGED <<maps, rows, acked, past, lease, bound, fence, boundary, tx, copy, issued, time>>
    BY DEF verifyAndApplyDelivered
  <1>2. seq \in Nat /\ seq = replica.applied + 1 /\ seq <= Len(rows)
    <2>1. ~(seq <= replica.applied) /\ ~(seq > replica.applied + 1)
      BY <1>1 DEF Decision
    <2> QED
      BY <2>1, HistoryFacts
  <1>3. rows[seq] \in Mutation
    BY HistoryFacts
  <1>4. rows[seq].effects \in Effects
    BY <1>3 DEF Mutation
  <1>5. replica.maps \in Table /\ replica.fence \in 1..MaxFence
    BY DEF AuthorityInv, AuthorityShape
  <1>6. t \in Table
    BY <1>4, <1>5, AppliedTable
  <1>7. past[seq + 1] = t
    BY <1>2 DEF AuthorityInv, HistoryInv, DeliveryInv, ReplicaMirrors
  <1> HIDE DEF t
  <1>8. /\ replica' \in [maps : Table, applied : Nat, fence : 1..MaxFence]
        /\ replica'.maps = t /\ replica'.applied = seq
    BY <1>1, <1>2, <1>5, <1>6
  <1>9. AuthorityShape'
    BY <1>1, <1>8 DEF AuthorityInv, AuthorityShape
  <1>10. HistoryInv' /\ OpenTxInv' /\ UsedInv'
    BY <1>1 DEF AuthorityInv, HistoryInv, OpenTxInv, UsedInv
  <1>11. DeliveryInv'
    BY <1>1, <1>2, <1>7, <1>8, HistoryFacts DEF AuthorityInv, DeliveryInv, ReplicaMirrors
  <1> QED
    BY <1>9, <1>10, <1>11 DEF AuthorityInv

(* No step but a mutation, a COMMIT or a delivery touches the history.     *)
LEMMA OtherKeeps ==
  ASSUME AuthorityInv,
         \/ \E e \in Editor, c \in ClientId : get(e, c)
         \/ \E e \in Editor : drop(e)
         \/ rollbackTx
         \/ \E st \in {"active", "revoked"}, f \in 1..MaxFence : leaseGrant(st, f)
         \/ construct \/ LeaseRunsOut \/ Drift \/ Acknowledge \/ ReceiverFence
         \/ UNCHANGED authorityVars
  PROVE  AuthorityInv'
  <1>0. USE AuthorityNumbers DEF AuthorityInv
  <1>1. ASSUME NEW e \in Editor, NEW c \in ClientId, get(e, c) PROVE AuthorityInv'
    <2> DEFINE new == [client |-> c, stored |-> maps[c]]
    <2>1. /\ maps[c] # NoMap /\ copy' = [copy EXCEPT ![e] = new]
          /\ UNCHANGED <<maps, rows, acked, past, lease, bound, fence, boundary, tx, issued, time, replica>>
      BY <1>1 DEF get
    <2>2. new \in CopyOf /\ new.stored = maps[c]
      BY <2>1, MapOfClient DEF CopyOf
    <2> HIDE DEF new
    <2>3. copy' \in [Editor -> CopyOf \cup {NoMap}] /\ \A x \in Editor : copy'[x] \in {copy[x], new}
      BY <2>1, <2>2 DEF AuthorityShape, CopyOf
    <2>4. AuthorityShape'
      BY <2>1, <2>3 DEF AuthorityShape, CopyOf
    <2>5. UsedInv'
      BY <2>1, <2>2, <2>3, MapOfClient DEF UsedInv
    <2> QED
      BY <2>1, <2>4, <2>5 DEF HistoryInv, OpenTxInv, DeliveryInv, ReplicaMirrors
  <1>2. ASSUME NEW e \in Editor, drop(e) PROVE AuthorityInv'
    <2>1. /\ copy' = [copy EXCEPT ![e] = NoMap]
          /\ UNCHANGED <<maps, rows, acked, past, lease, bound, fence, boundary, tx, issued, time, replica>>
      BY <1>2 DEF drop
    <2>2. copy' \in [Editor -> CopyOf \cup {NoMap}] /\ \A x \in Editor : copy'[x] \in {copy[x], NoMap}
      BY <2>1 DEF AuthorityShape, CopyOf
    <2>3. AuthorityShape'
      BY <2>1, <2>2 DEF AuthorityShape, CopyOf
    <2>4. UsedInv'
      BY <2>1, <2>2 DEF UsedInv
    <2> QED
      BY <2>1, <2>3, <2>4 DEF HistoryInv, OpenTxInv, DeliveryInv, ReplicaMirrors
  <1>3. CASE rollbackTx
    BY <1>3 DEF rollbackTx, AuthorityShape, HistoryInv, OpenTxInv, UsedInv, DeliveryInv, ReplicaMirrors
  <1>4. ASSUME NEW st \in {"active", "revoked"}, NEW f \in 1..MaxFence, leaseGrant(st, f)
        PROVE  AuthorityInv'
    <2>1. /\ tx = NoTx /\ lease.grant < MaxGrants /\ fence' = f
          /\ lease' = [grant |-> lease.grant + 1, status |-> st, over |-> FALSE]
          /\ UNCHANGED <<maps, rows, acked, past, bound, boundary, tx, copy, issued, time, replica>>
      BY <1>4 DEF leaseGrant
    <2>2. lease.grant \in 1..MaxGrants /\ bound \in 1..lease.grant
      BY DEF AuthorityShape
    <2>3. lease.grant + 1 \in 1..MaxGrants /\ bound \in 1..(lease.grant + 1)
      BY <2>1, <2>2
    <2>4. /\ lease' \in [grant : 1..MaxGrants, status : {"active", "revoked"}, over : BOOLEAN]
          /\ lease'.grant = lease.grant + 1
      BY <2>1, <2>3
    <2>5. AuthorityShape'
      BY <2>1, <2>3, <2>4 DEF AuthorityShape
    <2> QED
      BY <2>1, <2>5 DEF HistoryInv, OpenTxInv, UsedInv, DeliveryInv, ReplicaMirrors
  <1>5. CASE construct
    <2>1. lease.grant \in 1..MaxGrants
      BY DEF AuthorityShape
    <2>2. lease.grant \in 1..lease.grant
      BY <2>1
    <2>3. AuthorityShape'
      BY <1>5, <2>2 DEF construct, AuthorityShape
    <2> QED
      BY <1>5, <2>3 DEF construct, HistoryInv, OpenTxInv, UsedInv, DeliveryInv, ReplicaMirrors
  <1>6. CASE LeaseRunsOut
    <2>1. /\ lease' = [grant |-> lease.grant, status |-> lease.status, over |-> TRUE]
          /\ UNCHANGED <<maps, rows, acked, past, bound, fence, boundary, tx, copy, issued, time, replica>>
      BY <1>6 DEF LeaseRunsOut
    <2>2. lease.grant \in 1..MaxGrants /\ lease.status \in {"active", "revoked"}
      BY DEF AuthorityShape
    <2>3. /\ lease' \in [grant : 1..MaxGrants, status : {"active", "revoked"}, over : BOOLEAN]
          /\ lease'.grant = lease.grant
      BY <2>1, <2>2
    <2>4. AuthorityShape'
      BY <2>1, <2>3 DEF AuthorityShape
    <2> QED
      BY <2>1, <2>4 DEF HistoryInv, OpenTxInv, UsedInv, DeliveryInv, ReplicaMirrors
  <1>7. CASE Drift
    BY <1>7 DEF Drift, AuthorityShape, HistoryInv, OpenTxInv, UsedInv, DeliveryInv, ReplicaMirrors
  <1>8. CASE Acknowledge
    <2>1. /\ acked < replica.applied /\ acked' = acked + 1
          /\ UNCHANGED <<maps, rows, past, lease, bound, fence, boundary, tx, copy, issued, time, replica>>
      BY <1>8 DEF Acknowledge
    <2>2. acked \in Nat /\ replica.applied \in Nat /\ Len(rows) \in Nat
      BY HistoryFacts
    <2>3. AuthorityShape' /\ HistoryInv' /\ UsedInv'
      BY <2>1, <2>2 DEF AuthorityShape, HistoryInv, UsedInv
    <2>4. OpenTxInv'
      <3>1. Len(rows) - acked < MaxPending => Len(rows) - (acked + 1) < MaxPending
        BY <2>2
      <3> QED
        BY <2>1, <3>1 DEF OpenTxInv
    <2>5. DeliveryInv'
      BY <2>1, <2>2 DEF DeliveryInv, ReplicaMirrors
    <2> QED
      BY <2>3, <2>4, <2>5
  <1>9. CASE ReceiverFence
    <2>1. /\ replica' = [maps |-> replica.maps, applied |-> replica.applied, fence |-> fence]
          /\ UNCHANGED <<maps, rows, acked, past, lease, bound, fence, boundary, tx, copy, issued, time>>
      BY <1>9 DEF ReceiverFence
    <2>2. replica.maps \in Table /\ replica.applied \in Nat /\ fence \in 1..MaxFence
      BY DEF AuthorityShape
    <2>3. /\ replica' \in [maps : Table, applied : Nat, fence : 1..MaxFence]
          /\ replica'.maps = replica.maps /\ replica'.applied = replica.applied
      BY <2>1, <2>2
    <2>4. AuthorityShape'
      BY <2>1, <2>3 DEF AuthorityShape
    <2> QED
      BY <2>1, <2>3, <2>4 DEF HistoryInv, OpenTxInv, UsedInv, DeliveryInv, ReplicaMirrors
  <1>10. CASE UNCHANGED authorityVars
    BY <1>10 DEF authorityVars, AuthorityShape, HistoryInv, OpenTxInv, UsedInv, DeliveryInv, ReplicaMirrors
  <1> QED
    BY <1>1, <1>2, <1>3, <1>4, <1>5, <1>6, <1>7, <1>8, <1>9, <1>10

LEMMA AuthorityInvStep == AuthorityInv /\ [AuthorityNext]_authorityVars => AuthorityInv'
  <1> SUFFICES ASSUME AuthorityInv, [AuthorityNext]_authorityVars PROVE AuthorityInv'
    OBVIOUS
  <1>1. ASSUME NEW c \in ClientId, NEW lc \in Lifecycle, setNew(c, lc) PROVE AuthorityInv'
    BY <1>1, SetNewOpens, OpensKeeps
  <1>2. ASSUME NEW c \in ClientId, NEW new \in ClientId, NEW lc \in Lifecycle,
               replaceCredential(c, new, lc)
        PROVE  AuthorityInv'
    BY <1>2, ReplaceOpens, OpensKeeps
  <1>3. ASSUME NEW c \in ClientId, delete(c) PROVE AuthorityInv'
    BY <1>3, DeleteOpens, OpensKeeps
  <1>4. ASSUME NEW c \in ClientId, NEW S \in SUBSET Seg, NEW u \in [S -> Counter], updateCounters(c, u)
        PROVE  AuthorityInv'
    BY <1>4, UpdateOpens, OpensKeeps
  <1>5. ASSUME NEW c \in ClientId, NEW s \in Seg, NEW n \in Usable, consumeCounter(c, s, n)
        PROVE  AuthorityInv'
    BY <1>5, ConsumeOpens, OpensKeeps
  <1>6. ASSUME NEW c \in ClientId, NEW v \in Vector, NEW t \in UseTimes, commitValidation(c, v, t)
        PROVE  AuthorityInv'
    BY <1>6, ValidationOpens, OpensKeeps
  <1>7. ASSUME NEW e \in Editor, NEW st \in Status, set(e, st) PROVE AuthorityInv'
    BY <1>7, SetOpens, OpensKeeps
  <1>8. ASSUME NEW seq \in DOMAIN rows, verifyAndApplyDelivered(seq) PROVE AuthorityInv'
    BY <1>8, DeliverKeeps
  <1>9. CASE commitTx
    BY <1>9, CommitKeeps
  <1> QED
    BY <1>1, <1>2, <1>3, <1>4, <1>5, <1>6, <1>7, <1>8, <1>9, OtherKeeps DEF AuthorityNext

-----------------------------------------------------------------------------
(* What the invariant says.                                                *)

LEMMA AuthorityTyped == AuthorityInv => AuthorityTypeOK
  <1> SUFFICES ASSUME AuthorityInv PROVE AuthorityTypeOK
    OBVIOUS
  <1>1. ASSUME NEW t \in Table, NEW i \in DOMAIN past, t = past[i], NEW c \in ClientId, t[c] # NoMap
        PROVE  t[c].map \in Map /\ CounterStateOk(t[c].map) /\ t[c].rev \in 1..MaxRevision
    <2>1. t[c] \in Stored
      BY <1>1 DEF Table
    <2>2. CounterStateOk(t[c].map)
      BY <1>1 DEF AuthorityInv, HistoryInv
    <2> QED
      BY <2>1, <2>2, StoredFacts
  <1>2. acked <= replica.applied /\ replica.applied <= Len(rows) /\ Len(rows) - acked <= MaxPending
        /\ replica.maps = past[replica.applied + 1]
    BY DEF AuthorityInv, DeliveryInv, ReplicaMirrors
  <1>3. maps \in Table /\ replica.maps \in Table
    BY DEF AuthorityInv, AuthorityShape
  <1>4. replica.applied + 1 \in DOMAIN past /\ Len(rows) + 1 \in DOMAIN past
    BY <1>2, HistoryFacts
  <1>5. ASSUME NEW c \in ClientId, NEW m \in {maps[c], replica.maps[c]} \ {NoMap}
        PROVE  m.map \in Map /\ CounterStateOk(m.map) /\ m.rev \in 1..MaxRevision
    <2>1. CASE m = maps[c]
      BY <1>1, <1>3, <1>4, <2>1, HistoryFacts
    <2>2. CASE m = replica.maps[c]
      BY <1>1, <1>2, <1>3, <1>4, <2>2
    <2> QED
      BY <2>1, <2>2
  <1>6. acked \in 0..Len(rows) /\ replica.applied \in 0..Len(rows)
    BY <1>2, HistoryFacts
  <1>7. lease.grant \in 1..MaxGrants /\ bound \in 1..lease.grant
    BY DEF AuthorityInv, AuthorityShape
  <1> QED
    BY <1>2, <1>5, <1>6, <1>7 DEF AuthorityTypeOK

(* Where the clocks agree, every row is accepted in its turn.              *)
LEMMA FollowsIsVerified ==
  ASSUME NEW row \in Mutation, NEW t \in Table, Follows(t, row), UsedAtSkew = 0
  PROVE  Verified(row, t)
  <1>1. row.kind \in Kind
    BY DEF Mutation
  <1>2. CASE row.kind = "delete"
    BY <1>2 DEF Follows, Verified
  <1>3. CASE row.kind \in {"snapshot", "replace"}
    <2>1. \A c \in DOMAIN row.effects : verifySnapshot(t[c], row.effects[c])
      BY <1>3 DEF Follows, verifySnapshot, Monotonic
    <2> QED
      BY <1>3, <2>1 DEF Follows, Verified
  <1> QED
    BY <1>1, <1>2, <1>3 DEF Kind

LEMMA NoFork == AuthorityInv /\ UsedAtSkew = 0 => NeverForked
  <1> SUFFICES ASSUME AuthorityInv, UsedAtSkew = 0, NEW seq \in DOMAIN rows, Decision(seq) = "reject-fork"
               PROVE  FALSE
    BY DEF NeverForked
  <1>1. ~(seq <= replica.applied) /\ ~(seq > replica.applied + 1) /\ ~Verified(rows[seq], replica.maps)
    BY DEF Decision
  <1>2. seq = replica.applied + 1
    BY <1>1, HistoryFacts
  <1>3. Follows(replica.maps, rows[seq]) /\ replica.maps \in Table
    BY <1>2 DEF AuthorityInv, AuthorityShape, HistoryInv, DeliveryInv, ReplicaMirrors
  <1>4. rows[seq] \in Mutation
    BY HistoryFacts
  <1> QED
    BY <1>1, <1>3, <1>4, FollowsIsVerified

(* However far apart the clocks that stamp requests are, both databases    *)
(* stay well formed and bounded, and the mirror is always the source as it *)
(* was after the last row the receiver applied.                            *)
THEOREM AuthorityMirrors == AuthoritySpec => [](AuthorityTypeOK /\ ReplicaMirrors)
  <1>1. AuthorityInv => AuthorityTypeOK /\ ReplicaMirrors
    BY AuthorityTyped DEF AuthorityInv, DeliveryInv
  <1> QED
    BY <1>1, AuthorityInitOK, AuthorityInvStep, PTL DEF AuthoritySpec

(* Where requests are stamped in order (no skew between the servers that   *)
(* commit them), no row the source committed is ever taken for a fork by   *)
(* verifyAndApplyDelivered, and both databases are sound.                  *)
THEOREM AuthoritySoundHolds ==
  ASSUME UsedAtSkew = 0 PROVE AuthoritySpec => []AuthoritySound
  <1>1. AuthorityInv => AuthoritySound
    BY AuthorityTyped, NoFork DEF AuthoritySound, AuthorityInv, DeliveryInv
  <1> QED
    BY <1>1, AuthorityInitOK, AuthorityInvStep, PTL DEF AuthoritySpec

(* A step of the authority changes the table only by a COMMIT made under   *)
(* the store's own live grant, and moves every surviving map forward.      *)
THEOREM CommitsForwardHolds == AuthoritySpec => CommitsForward
  <1> DEFINE Fwd ==
        /\ rows' # rows => /\ lease.status = "active" /\ ~lease.over
                           /\ bound = lease.grant /\ boundary
        /\ \A c \in ClientId : maps[c] # NoMap /\ maps'[c] # NoMap /\ maps'[c] # maps[c] =>
             /\ maps'[c].rev = maps[c].rev + 1
             /\ maps'[c].map.createdAt = maps[c].map.createdAt
             /\ \A s \in Seg : maps'[c].map.ctr[s] >= maps[c].map.ctr[s]
             /\ maps'[c].map.requestCount >= maps[c].map.requestCount
             /\ maps[c].map.status \in Terminal => maps'[c].map.status = maps[c].map.status
  <1>1. AuthorityInv /\ [AuthorityNext]_authorityVars => [Fwd]_authorityVars
    <2> SUFFICES ASSUME AuthorityInv, [AuthorityNext]_authorityVars PROVE [Fwd]_authorityVars
      OBVIOUS
    <2>1. CASE commitTx
      <3>1. /\ lease.status = "active" /\ ~lease.over /\ bound = lease.grant /\ boundary
            /\ tx # NoTx /\ maps' = Applied(maps, tx.effects)
        BY <2>1 DEF commitTx, Prepared
      <3>2. Follows(maps, tx)
        BY <3>1 DEF AuthorityInv, OpenTxInv
      <3>3. ASSUME NEW c \in ClientId, maps[c] # NoMap, maps'[c] # NoMap, maps'[c] # maps[c]
            PROVE  maps'[c].rev = maps[c].rev + 1 /\ Forward(maps[c].map, maps'[c].map)
        <4>1. c \in DOMAIN tx.effects /\ maps'[c] = tx.effects[c]
          BY <3>1, <3>3 DEF Applied
        <4> QED
          BY <3>2, <3>3, <4>1 DEF Follows
      <3> QED
        BY <3>1, <3>3 DEF Forward
    <2>2. CASE ~commitTx
      <3>1. maps' = maps /\ rows' = rows
        <4>1. ASSUME NEW c \in ClientId, NEW lc \in Lifecycle, NEW new \in ClientId,
                     setNew(c, lc) \/ replaceCredential(c, new, lc)
              PROVE  maps' = maps /\ rows' = rows
          BY <4>1 DEF setNew, replaceCredential, persist, appendAndApply
        <4>2. ASSUME NEW c \in ClientId, delete(c) PROVE maps' = maps /\ rows' = rows
          BY <4>2 DEF delete, appendAndApply
        <4>3. ASSUME NEW c \in ClientId, NEW u, updateCounters(c, u) PROVE maps' = maps /\ rows' = rows
          BY <4>3 DEF updateCounters, persist, appendAndApply
        <4>4. ASSUME NEW c \in ClientId, NEW s, NEW n, consumeCounter(c, s, n)
              PROVE  maps' = maps /\ rows' = rows
          BY <4>4 DEF consumeCounter, persist, appendAndApply
        <4>5. ASSUME NEW c \in ClientId, NEW v, NEW t, commitValidation(c, v, t)
              PROVE  maps' = maps /\ rows' = rows
          BY <4>5 DEF commitValidation, persist, appendAndApply
        <4>6. ASSUME NEW e \in Editor, NEW st, set(e, st) PROVE maps' = maps /\ rows' = rows
          BY <4>6 DEF set, persist, appendAndApply
        <4>7. ASSUME NEW e, NEW c, get(e, c) \/ drop(e) PROVE maps' = maps /\ rows' = rows
          BY <4>7 DEF get, drop
        <4>8. ASSUME NEW seq, verifyAndApplyDelivered(seq) PROVE maps' = maps /\ rows' = rows
          BY <4>8 DEF verifyAndApplyDelivered
        <4>9. ASSUME NEW st, NEW f, leaseGrant(st, f) PROVE maps' = maps /\ rows' = rows
          BY <4>9 DEF leaseGrant
        <4>10. CASE rollbackTx \/ construct \/ LeaseRunsOut \/ Drift \/ Acknowledge \/ ReceiverFence
                    \/ UNCHANGED authorityVars
          BY <4>10 DEF rollbackTx, construct, LeaseRunsOut, Drift, Acknowledge, ReceiverFence, authorityVars
        <4> QED
          BY <2>2, <4>1, <4>2, <4>3, <4>4, <4>5, <4>6, <4>7, <4>8, <4>9, <4>10 DEF AuthorityNext
      <3> QED
        BY <3>1
    <2> QED
      BY <2>1, <2>2
  <1>2. AuthoritySpec => [][Fwd]_authorityVars
    BY <1>1, AuthorityInitOK, AuthorityInvStep, PTL DEF AuthoritySpec
  <1> QED
    BY <1>2 DEF CommitsForward

-----------------------------------------------------------------------------
(***************************************************************************)
(* FileStore: the lock serialises processes, no process reads a torn file, *)
(* and no counter that was reported consumed comes back.                   *)
(***************************************************************************)

(* A map that an operation leaves for m: the same credential, no counter   *)
(* lower.                                                                  *)
Later(m, n) ==
  /\ n \in Map /\ CounterStateOk(n) /\ n.createdAt = m.createdAt
  /\ \A s \in Seg : n.ctr[s] >= m.ctr[s]
FreshMap(n) == n \in Map /\ CounterStateOk(n) /\ n.createdAt = minted

FileWell ==
  /\ file \in Content /\ IsFiniteSet(Entries(file)) /\ Cardinality(Entries(file)) <= FileEntries
  /\ minted \in Nat
  /\ \A c \in Entries(file) : file[c] \in Map /\ CounterStateOk(file[c]) /\ file[c].createdAt < minted

(* What the file is, what an operation makes of it and what it reports.    *)
WellAfter(d, fresh) ==
  /\ d \in Content /\ IsFiniteSet(Entries(d)) /\ Cardinality(Entries(d)) <= FileEntries
  /\ \A c \in FileClient : \/ d[c] = NoEntry
                           \/ file[c] # NoEntry /\ Later(file[c], d[c])
                           \/ fresh = 1 /\ FreshMap(d[c])

CandidateOk(c) ==
  /\ c \in [data : Content, use : SUBSET Use, fresh : 0..1]
  /\ WellAfter(c.data, c.fresh)
  /\ \A u \in c.use : Remembered(u, c.data)

LEMMA SameIsLater ==
  ASSUME NEW m \in Map, CounterStateOk(m) PROVE Later(m, m)
  BY MapAssumption DEF Later, Map, Counter

LEMMA StatusIsLater ==
  ASSUME NEW m \in Map, NEW st \in Terminal
  PROVE  Later(m, [m EXCEPT !.status = st])
  <1>1. st \in Status
    BY DEF Terminal, Status
  <1>2. [m EXCEPT !.status = st].createdAt = m.createdAt
    BY DEF Map
  <1>3. \A s \in Seg : m.ctr[s] \in Nat
    BY MapAssumption DEF Map, Counter
  <1> QED
    BY <1>1, <1>2, <1>3, StatusChange DEF Later, CounterStateOk

(* Counters no lower, and the status that follows from them.               *)
LEMMA CountersAreLater ==
  ASSUME NEW m \in Map, NEW f \in [Seg -> Counter], \A s \in Seg : f[s] >= m.ctr[s]
  PROVE  Later(m, Reconciled([m EXCEPT !.ctr = f]))
  <1> DEFINE n == [m EXCEPT !.ctr = f]
  <1>1. n \in Map /\ n.ctr = f /\ n.createdAt = m.createdAt
    BY DEF Map
  <1> HIDE DEF n
  <1>2. /\ Reconciled(n) \in Map /\ Reconciled(n).ctr = f /\ CounterStateOk(Reconciled(n))
        /\ Reconciled(n).createdAt = m.createdAt
    BY <1>1, ReconciledFacts, ReconciledCreatedAt
  <1>3. Later(m, Reconciled(n))
    BY <1>2 DEF Later
  <1> QED
    BY <1>3 DEF n

(* One client's map is replaced, within the capacity.                      *)
LEMMA OneMapAfter ==
  ASSUME FileWell, NEW c \in FileClient, NEW n, NEW fresh \in 0..1,
         \/ n = NoEntry
         \/ file[c] # NoEntry /\ Later(file[c], n)
         \/ fresh = 1 /\ FreshMap(n),
         n = NoEntry \/ c \in Entries(file) \/ ~Full(file)
  PROVE  WellAfter([file EXCEPT ![c] = n], fresh)
  <1> DEFINE d == [file EXCEPT ![c] = n]
  <1>0. NoEntry \notin Map /\ FileEntries \in Nat
    BY FileAssumption
  <1>1. n \in Map \cup {NoEntry}
    BY DEF Later, FreshMap
  <1>2. d \in Content /\ d[c] = n /\ \A x \in FileClient \ {c} : d[x] = file[x]
    BY <1>1 DEF FileWell, Content
  <1>3. IsFiniteSet(Entries(file)) /\ Cardinality(Entries(file)) \in Nat
        /\ Cardinality(Entries(file)) <= FileEntries
    BY FS_CardinalityType DEF FileWell
  <1> HIDE DEF d
  <1>4. IsFiniteSet(Entries(d)) /\ Cardinality(Entries(d)) <= FileEntries
    <2>1. CASE n = NoEntry \/ c \in Entries(file)
      <3>1. Entries(d) \in SUBSET Entries(file)
        BY <1>2, <2>1 DEF Entries
      <3>2. IsFiniteSet(Entries(d)) /\ Cardinality(Entries(d)) <= Cardinality(Entries(file))
        BY <1>3, <3>1, FS_Subset
      <3>3. Cardinality(Entries(d)) \in Nat
        BY <3>2, FS_CardinalityType
      <3> QED
        BY <1>0, <1>3, <3>2, <3>3
    <2>2. CASE n # NoEntry /\ c \notin Entries(file) /\ ~Full(file)
      <3>1. Entries(d) = Entries(file) \cup {c}
        BY <1>2, <2>2 DEF Entries
      <3>2. /\ IsFiniteSet(Entries(file) \cup {c})
            /\ Cardinality(Entries(file) \cup {c}) = Cardinality(Entries(file)) + 1
        BY <1>3, <2>2, FS_AddElement
      <3>3. Cardinality(Entries(file)) < FileEntries
        BY <1>0, <1>3, <2>2 DEF Full
      <3> QED
        BY <1>0, <1>3, <3>1, <3>2, <3>3
    <2> QED
      BY <2>1, <2>2
  <1>5. ASSUME NEW x \in FileClient
        PROVE  \/ d[x] = NoEntry
               \/ file[x] # NoEntry /\ Later(file[x], d[x])
               \/ fresh = 1 /\ FreshMap(d[x])
    <2>1. CASE x = c
      BY <1>2, <2>1
    <2>2. CASE x # c
      BY <1>2, <2>2, SameIsLater DEF FileWell, Entries
    <2> QED
      BY <2>1, <2>2
  <1>6. WellAfter(d, fresh)
    BY <1>2, <1>4, <1>5 DEF WellAfter
  <1> QED
    BY <1>6 DEF d

(* A candidate that reports no use.                                        *)
LEMMA SilentCandidate ==
  ASSUME NEW d, NEW fresh \in 0..1, WellAfter(d, fresh), NEW c,
         c = [data |-> d, use |-> {}, fresh |-> fresh]
  PROVE  CandidateOk(c)
  <1>1. d \in Content
    BY DEF WellAfter
  <1>2. c \in [data : Content, use : SUBSET Use, fresh : 0..1] /\ c.data = d /\ c.use = {} /\ c.fresh = fresh
    BY <1>1
  <1> QED
    BY <1>2 DEF CandidateOk

LEMMA QuietIsOk ==
  ASSUME NEW d, WellAfter(d, 0) PROVE CandidateOk(Quiet(d))
  <1>1. PICK c : c = Quiet(d)
    OBVIOUS
  <1>2. c = [data |-> d, use |-> {}, fresh |-> 0] /\ 0 \in 0..1
    BY <1>1 DEF Quiet
  <1> QED
    BY <1>1, <1>2, SilentCandidate

LEMMA MintingIsOk ==
  ASSUME NEW d, WellAfter(d, 1) PROVE CandidateOk(Minting(d))
  <1>1. PICK c : c = Minting(d)
    OBVIOUS
  <1>2. c = [data |-> d, use |-> {}, fresh |-> 1] /\ 1 \in 0..1
    BY <1>1 DEF Minting
  <1> QED
    BY <1>1, <1>2, SilentCandidate

LEMMA NewMapIsFresh ==
  ASSUME NEW lc \in Lifecycle, minted \in Nat PROVE FreshMap(NewMap(lc, minted))
  <1>1. NewMap(lc, minted).createdAt = minted
    BY DEF NewMap
  <1> QED
    BY <1>1, NewMapFacts DEF FreshMap

LEMMA EntryFacts ==
  ASSUME FileWell, NEW c \in Entries(file)
  PROVE  /\ c \in FileClient /\ file[c] \in Map /\ file[c] # NoEntry /\ CounterStateOk(file[c])
         /\ file[c].createdAt < minted /\ file[c].createdAt \in Nat /\ \A s \in Seg : file[c].ctr[s] \in Nat
  <1>1. c \in FileClient /\ file[c] \in Map /\ file[c] # NoEntry /\ CounterStateOk(file[c])
        /\ file[c].createdAt < minted
    BY DEF FileWell, Entries
  <1> QED
    BY <1>1, MapAssumption DEF Map, Counter

LEMMA SetIsOk ==
  ASSUME FileWell, NEW c \in fileSet(file) PROVE CandidateOk(c)
  <1>1. \/ \E x \in FileClient, lc \in Lifecycle :
             /\ x \in Entries(file) \/ ~Full(file)
             /\ c = Minting([file EXCEPT ![x] = NewMap(lc, minted)])
        \/ \E x \in Entries(file), st \in Terminal :
             c = Quiet([file EXCEPT ![x] = [file[x] EXCEPT !.status = st]])
    BY DEF fileSet
  <1>2. ASSUME NEW x \in FileClient, NEW lc \in Lifecycle,
               x \in Entries(file) \/ ~Full(file),
               c = Minting([file EXCEPT ![x] = NewMap(lc, minted)])
        PROVE  CandidateOk(c)
    <2>1. FreshMap(NewMap(lc, minted))
      BY NewMapIsFresh DEF FileWell
    <2>2. WellAfter([file EXCEPT ![x] = NewMap(lc, minted)], 1)
      BY <1>2, <2>1, OneMapAfter
    <2> QED
      BY <1>2, <2>2, MintingIsOk
  <1>3. ASSUME NEW x \in Entries(file), NEW st \in Terminal,
               c = Quiet([file EXCEPT ![x] = [file[x] EXCEPT !.status = st]])
        PROVE  CandidateOk(c)
    <2>1. Later(file[x], [file[x] EXCEPT !.status = st])
      BY EntryFacts, StatusIsLater
    <2>2. WellAfter([file EXCEPT ![x] = [file[x] EXCEPT !.status = st]], 0)
      BY <2>1, EntryFacts, OneMapAfter
    <2> QED
      BY <1>3, <2>2, QuietIsOk
  <1> QED
    BY <1>1, <1>2, <1>3

LEMMA DeleteIsOk ==
  ASSUME FileWell, NEW c \in fileDelete(file) PROVE CandidateOk(c)
  <1>1. PICK x \in Entries(file) : c = Quiet([file EXCEPT ![x] = NoEntry])
    BY DEF fileDelete
  <1>2. WellAfter([file EXCEPT ![x] = NoEntry], 0)
    BY EntryFacts, OneMapAfter
  <1> QED
    BY <1>1, <1>2, QuietIsOk

LEMMA UpdateIsOk ==
  ASSUME FileWell, NEW c \in fileUpdateCounters(file) PROVE CandidateOk(c)
  <1>1. PICK x \in Entries(file), f \in [Seg -> Counter] :
          /\ \A s \in Seg : f[s] >= file[x].ctr[s]
          /\ c = Quiet([file EXCEPT ![x] = Reconciled([file[x] EXCEPT !.ctr = f])])
    <2>1. PICK u \in Entries(file) \X [Seg -> Counter] :
            /\ \A s \in Seg : u[2][s] >= file[u[1]].ctr[s]
            /\ c = Quiet([file EXCEPT ![u[1]] = Reconciled([file[u[1]] EXCEPT !.ctr = u[2]])])
      BY DEF fileUpdateCounters
    <2> QED
      BY <2>1
  <1>2. Later(file[x], Reconciled([file[x] EXCEPT !.ctr = f]))
    BY <1>1, EntryFacts, CountersAreLater
  <1>3. WellAfter([file EXCEPT ![x] = Reconciled([file[x] EXCEPT !.ctr = f])], 0)
    BY <1>2, EntryFacts, OneMapAfter
  <1> QED
    BY <1>1, <1>3, QuietIsOk

LEMMA ConsumeIsOk ==
  ASSUME FileWell, NEW c \in fileConsumeCounter(file) PROVE CandidateOk(c)
  <1>1. CASE \E x \in {x \in Entries(file) : UsesRemainingAtMost(file[x], 0)} :
               c = Quiet([file EXCEPT ![x].status = "expired"])
    <2>1. PICK x \in Entries(file) : c = Quiet([file EXCEPT ![x] = [file[x] EXCEPT !.status = "expired"]])
      BY <1>1
    <2>2. Later(file[x], [file[x] EXCEPT !.status = "expired"])
      BY EntryFacts, StatusIsLater DEF Terminal
    <2>3. WellAfter([file EXCEPT ![x] = [file[x] EXCEPT !.status = "expired"]], 0)
      BY <2>2, EntryFacts, OneMapAfter
    <2> QED
      BY <2>1, <2>3, QuietIsOk
  <1>2. CASE \E u \in {x \in Entries(file) \X Seg \X Usable : x[3] >= file[x[1]].ctr[x[2]]} :
               c = Quiet([file EXCEPT ![u[1]] =
                     Reconciled([file[u[1]] EXCEPT !.ctr = [file[u[1]].ctr EXCEPT ![u[2]] = u[3] + 1]])])
    <2>1. PICK x \in Entries(file), s \in Seg, k \in Usable :
            /\ k >= file[x].ctr[s]
            /\ c = Quiet([file EXCEPT ![x] =
                     Reconciled([file[x] EXCEPT !.ctr = [file[x].ctr EXCEPT ![s] = k + 1]])])
      BY <1>2
    <2> DEFINE f == [file[x].ctr EXCEPT ![s] = k + 1]
    <2>2. file[x].ctr \in [Seg -> Counter] /\ k + 1 \in Counter /\ k + 1 >= file[x].ctr[s]
      BY <2>1, EntryFacts, MapAssumption DEF Map, Usable, Counter
    <2>3. f \in [Seg -> Counter] /\ \A z \in Seg : f[z] >= file[x].ctr[z]
      BY <2>2, EntryFacts
    <2> HIDE DEF f
    <2>4. Later(file[x], Reconciled([file[x] EXCEPT !.ctr = f]))
      BY <2>3, EntryFacts, CountersAreLater
    <2>5. WellAfter([file EXCEPT ![x] = Reconciled([file[x] EXCEPT !.ctr = f])], 0)
      BY <2>4, EntryFacts, OneMapAfter
    <2> QED
      BY <2>1, <2>5, QuietIsOk DEF f
  <1> QED
    BY <1>1, <1>2 DEF fileConsumeCounter

(* The commit of a validation: the use it reports is past.                 *)
LEMMA CommitIsOk ==
  ASSUME FileWell, NEW c \in fileCommitValidation(file) PROVE CandidateOk(c)
  <1>1. PICK x \in Entries(file), v \in Vector :
          c = [data  |-> [file EXCEPT ![x] = commitValidationToMap(file[x], v, 0)],
               use   |-> IF CommitOk(file[x], v, 0)
                         THEN {[client |-> x, born |-> file[x].createdAt, ctr |-> v]} ELSE {},
               fresh |-> 0]
    BY DEF fileCommitValidation
  <1> DEFINE n == commitValidationToMap(file[x], v, 0)
  <1>2. CASE ~CommitOk(file[x], v, 0)
    <2>1. n \in {file[x], [file[x] EXCEPT !.status = "expired"]}
      BY <1>2, EntryFacts, CommitKeepsMap
    <2>2. "expired" \in Terminal
      BY DEF Terminal
    <2>3. Later(file[x], n)
      BY <2>1, <2>2, EntryFacts, SameIsLater, StatusIsLater
    <2>4. WellAfter([file EXCEPT ![x] = n], 0)
      BY <2>3, EntryFacts, OneMapAfter
    <2>5. c = Quiet([file EXCEPT ![x] = n])
      BY <1>1, <1>2 DEF Quiet
    <2> HIDE DEF n
    <2> QED
      BY <2>4, <2>5, QuietIsOk
  <1>3. CASE CommitOk(file[x], v, 0)
    <2>1. file[x].status \notin Terminal /\ \A s \in Seg : v[s] \in Usable /\ file[x].ctr[s] <= v[s]
      BY <1>3 DEF CommitOk
    <2>2. n = Advanced(file[x], v)
      BY <1>3 DEF commitValidationToMap
    <2>3. /\ n \in Map /\ n.ctr = [s \in Seg |-> v[s] + 1] /\ CounterStateOk(n)
          /\ n.createdAt = file[x].createdAt
      BY <2>1, <2>2, EntryFacts, AdvancedFacts, AdvancedCreatedAt
    <2> HIDE DEF n
    <2>4. \A s \in Seg : v[s] \in Nat /\ n.ctr[s] > v[s] /\ n.ctr[s] >= file[x].ctr[s]
      <3> SUFFICES ASSUME NEW s \in Seg PROVE v[s] \in Nat /\ n.ctr[s] > v[s] /\ n.ctr[s] >= file[x].ctr[s]
        OBVIOUS
      <3>1. v[s] \in Nat /\ file[x].ctr[s] <= v[s] /\ file[x].ctr[s] \in Nat /\ n.ctr[s] = v[s] + 1
        BY <2>1, <2>3, EntryFacts, MapAssumption DEF Usable
      <3> QED
        BY <3>1
    <2>5. Later(file[x], n)
      BY <2>3, <2>4 DEF Later
    <2> DEFINE d == [file EXCEPT ![x] = n]
               u == [client |-> x, born |-> file[x].createdAt, ctr |-> v]
    <2>6. WellAfter(d, 0) /\ d \in Content
      <3>1. WellAfter(d, 0)
        BY <2>5, EntryFacts, OneMapAfter
      <3> HIDE DEF d
      <3> QED
        BY <3>1 DEF WellAfter
    <2>7. u \in Use /\ u.client = x /\ u.born = file[x].createdAt /\ u.ctr = v
      BY EntryFacts DEF Use, Vector
    <2>8. d[x] = n
      BY EntryFacts DEF FileWell, Content
    <2>9. c = [data |-> d, use |-> {u}, fresh |-> 0]
      BY <1>1, <1>3 DEF n
    <2> HIDE DEF d, u
    <2>10. Remembered(u, d)
      BY <2>4, <2>7, <2>8, EntryFacts DEF Remembered
    <2>11. /\ c \in [data : Content, use : SUBSET Use, fresh : 0..1]
           /\ c.data = d /\ c.use = {u} /\ c.fresh = 0
      BY <2>6, <2>7, <2>9
    <2> QED
      BY <2>6, <2>10, <2>11 DEF CandidateOk
  <1> QED
    BY <1>2, <1>3

LEMMA ReplaceIsOk ==
  ASSUME FileWell, NEW c \in fileReplaceCredential(file) PROVE CandidateOk(c)
  <1>1. PICK x \in Entries(file), y \in FileClient \ Entries(file), lc \in Lifecycle :
          /\ file[x].status \notin Terminal
          /\ c = Minting([file EXCEPT ![x] = IF Full(file) THEN NoEntry
                                             ELSE [file[x] EXCEPT !.status = "revoked"],
                                      ![y] = NewMap(lc, minted)])
    BY DEF fileReplaceCredential
  <1>2. x # y /\ x \in FileClient /\ file[y] = NoEntry
    BY <1>1 DEF Entries
  <1> DEFINE old == IF Full(file) THEN NoEntry ELSE [file[x] EXCEPT !.status = "revoked"]
             new == NewMap(lc, minted)
             d == [file EXCEPT ![x] = old, ![y] = new]
  <1>3. old = NoEntry \/ Later(file[x], old)
    BY EntryFacts, StatusIsLater DEF Terminal
  <1>4. FreshMap(new)
    BY NewMapIsFresh DEF FileWell
  <1>5. Full(file) => old = NoEntry
    OBVIOUS
  <1>a. ~Full(file) => Cardinality(Entries(file)) < FileEntries
    BY FS_CardinalityType, FileAssumption DEF FileWell, Full
  <1>b. c = Minting(d)
    BY <1>1
  <1> HIDE DEF old, new
  <1>6. old \in Map \cup {NoEntry} /\ new \in Map /\ new # NoEntry
    BY <1>3, <1>4, FileAssumption DEF Later, FreshMap
  <1>7. d \in Content /\ d[x] = old /\ d[y] = new /\ \A z \in FileClient \ {x, y} : d[z] = file[z]
    BY <1>2, <1>6 DEF FileWell, Content
  <1> HIDE DEF d
  <1>8. /\ IsFiniteSet(Entries(file)) /\ Cardinality(Entries(file)) \in Nat
        /\ Cardinality(Entries(file)) <= FileEntries /\ FileEntries \in Nat
    BY FS_CardinalityType, FileAssumption DEF FileWell
  <1>9. IsFiniteSet(Entries(d)) /\ Cardinality(Entries(d)) <= FileEntries
    <2>1. CASE old = NoEntry
      <3>1. Entries(d) = (Entries(file) \ {x}) \cup {y} /\ y \notin Entries(file) \ {x}
        BY <1>1, <1>2, <1>6, <1>7, <2>1 DEF Entries
      <3>2. /\ IsFiniteSet(Entries(file) \ {x})
            /\ Cardinality(Entries(file) \ {x}) = Cardinality(Entries(file)) - 1
        BY <1>8, FS_RemoveElement
      <3>3. /\ IsFiniteSet((Entries(file) \ {x}) \cup {y})
            /\ Cardinality((Entries(file) \ {x}) \cup {y}) = Cardinality(Entries(file) \ {x}) + 1
        BY <3>1, <3>2, FS_AddElement
      <3> QED
        BY <1>8, <3>1, <3>2, <3>3
    <2>2. CASE old # NoEntry
      <3>1. Entries(d) = Entries(file) \cup {y}
        BY <1>1, <1>2, <1>6, <1>7, <2>2 DEF Entries
      <3>2. /\ IsFiniteSet(Entries(file) \cup {y})
            /\ Cardinality(Entries(file) \cup {y}) = Cardinality(Entries(file)) + 1
        BY <1>1, <1>8, FS_AddElement
      <3>3. Cardinality(Entries(file)) < FileEntries
        BY <1>5, <1>a, <2>2
      <3> QED
        BY <1>8, <3>1, <3>2, <3>3
    <2> QED
      BY <2>1, <2>2
  <1>10. ASSUME NEW z \in FileClient
         PROVE  \/ d[z] = NoEntry
                \/ file[z] # NoEntry /\ Later(file[z], d[z])
                \/ 1 = 1 /\ FreshMap(d[z])
    <2>1. CASE z = x
      BY <1>3, <1>7, <2>1, EntryFacts
    <2>2. CASE z = y
      BY <1>4, <1>7, <2>2
    <2>3. CASE z \notin {x, y}
      BY <1>7, <2>3, SameIsLater DEF FileWell, Entries
    <2> QED
      BY <2>1, <2>2, <2>3
  <1>11. WellAfter(d, 1)
    BY <1>7, <1>9, <1>10 DEF WellAfter
  <1> QED
    BY <1>b, <1>11, MintingIsOk

LEMMA CandidatesAreOk ==
  ASSUME FileWell, NEW c \in Candidates(file) PROVE CandidateOk(c)
  BY SetIsOk, DeleteIsOk, UpdateIsOk, ConsumeIsOk, CommitIsOk, ReplaceIsOk DEF Candidates

LEMMA WellFileIs == FileInv => FileWell
  BY DEF FileInv, FileShape, FileSound, FileTypeOK, FileWell

LEMMA ProcStates ==
  ASSUME NEW st \in ProcState
  PROVE  /\ st.pc \in {"idle", "locked", "dead", "staged", "unlock"}
         /\ st.pc = "staged" => /\ st.base \in Content /\ st.cand.data \in Content
                                /\ st.cand.use \in SUBSET Use /\ st.cand.fresh \in 0..1
         /\ st.pc = "unlock" => st.use \in SUBSET Use
  BY DEF ProcState, Resting

(* One process moves to another state, the file as it was.                 *)
LEMMA ProcMoves ==
  ASSUME FileInv, NEW p \in Proc, NEW st \in ProcState,
         proc' = [proc EXCEPT ![p] = st], UNCHANGED <<file, minted, spent>>,
         lockfile' \in Proc \cup {NoProc},
         lockfile' = lockfile \/ (\A q \in Proc \ {p} : proc[q].pc \notin {"locked", "staged", "unlock"}),
         st.pc \in {"locked", "staged", "unlock"} => lockfile' = p,
         st.pc = "staged" => st.base = file /\ st.cand \in Candidates(file),
         st.pc = "unlock" => \A u \in st.use : Remembered(u, file)
  PROVE  FileInv'
  <1>0. FileShape /\ LockOwned /\ (\A u \in spent : Remembered(u, file)) /\ FileTypeOK /\ NoLostUpdate
        /\ AcceptedIsStored
    BY DEF FileInv, FileSound
  <1>1. /\ proc' \in [Proc -> ProcState] /\ proc'[p] = st
        /\ \A q \in Proc \ {p} : proc'[q] = proc[q]
    BY <1>0 DEF FileShape
  <1>2. FileShape'
    BY <1>0, <1>1 DEF FileShape, Entries
  <1>3. Candidates(file)' = Candidates(file)
    BY DEF Candidates, fileSet, fileDelete, fileUpdateCounters, fileConsumeCounter,
           fileCommitValidation, fileReplaceCredential, Entries, Full, Quiet, Minting
  <1>4. \A u : Remembered(u, file)' <=> Remembered(u, file)
    BY DEF Remembered
  <1>5. LockOwned'
    <2> SUFFICES ASSUME NEW q \in Proc
                 PROVE  /\ proc'[q].pc \in {"locked", "staged", "unlock"} => lockfile' = q
                        /\ proc'[q].pc = "staged" => proc'[q].cand \in Candidates(file)
                        /\ proc'[q].pc = "unlock" => \A u \in proc'[q].use : Remembered(u, file)
      BY <1>3, <1>4 DEF LockOwned
    <2>1. CASE q = p
      BY <1>1, <2>1
    <2>2. CASE q # p
      BY <1>0, <1>1, <2>2 DEF LockOwned
    <2> QED
      BY <2>1, <2>2
  <1>6. (\A u \in spent : Remembered(u, file))'
    BY <1>0, <1>4
  <1>7. FileTypeOK' /\ AcceptedIsStored'
    BY <1>0 DEF FileTypeOK, AcceptedIsStored, Entries
  <1>8. NoLostUpdate'
    BY <1>0, <1>1 DEF NoLostUpdate
  <1> QED
    BY <1>2, <1>5, <1>6, <1>7, <1>8 DEF FileInv, FileSound

(* The whole candidate becomes the file.                                   *)
LEMMA RenameKeeps ==
  ASSUME FileInv, NEW p \in Proc, rename(p)
  PROVE  FileInv'
  <1>0. FileShape /\ LockOwned /\ (\A u \in spent : Remembered(u, file)) /\ FileTypeOK /\ NoLostUpdate
        /\ AcceptedIsStored /\ FileWell
    BY WellFileIs DEF FileInv, FileSound
  <1>1. proc[p] \in ProcState /\ proc[p].pc = "staged" /\ lockfile = p
    BY <1>0 DEF rename, FileShape, LockOwned
  <1>2. PICK c : c = proc[p].cand /\ c \in Candidates(file)
    BY <1>0, <1>1 DEF LockOwned
  <1>3. CandidateOk(c)
    BY <1>0, <1>2, CandidatesAreOk
  <1>4. PICK d \in Content, us \in SUBSET Use, fresh \in 0..1 :
          d = c.data /\ us = c.use /\ fresh = c.fresh /\ WellAfter(d, fresh) /\ \A u \in us : Remembered(u, d)
    BY <1>3 DEF CandidateOk
  <1> DEFINE st == [pc |-> "unlock", use |-> us]
  <1>5. /\ file' = d /\ minted' = minted + fresh /\ proc' = [proc EXCEPT ![p] = st]
        /\ UNCHANGED <<lockfile, spent, deaths>>
    BY <1>2, <1>4 DEF rename
  <1>6. st \in ProcState /\ st.pc = "unlock" /\ st.use = us
    BY DEF ProcState
  <1> HIDE DEF st
  <1>7. /\ proc' \in [Proc -> ProcState] /\ proc'[p] = st
        /\ \A q \in Proc \ {p} : proc'[q] = proc[q] /\ proc[q].pc \notin {"locked", "staged", "unlock"}
    BY <1>0, <1>1, <1>5, <1>6 DEF FileShape, LockOwned
  <1>8. minted \in Nat /\ minted' \in Nat /\ minted <= minted' /\ (fresh = 1 => minted < minted')
    BY <1>0, <1>5 DEF FileShape
  <1>9. ASSUME NEW x \in Entries(d)
        PROVE  /\ x \in FileClient /\ d[x] \in Map /\ CounterStateOk(d[x]) /\ d[x].createdAt < minted'
               /\ \/ d[x].createdAt = minted
                  \/ x \in Entries(file) /\ Later(file[x], d[x])
    <2>1. x \in FileClient /\ d[x] # NoEntry
      BY DEF Entries
    <2>2. CASE file[x] # NoEntry /\ Later(file[x], d[x])
      <3>1. x \in Entries(file)
        BY <2>1, <2>2 DEF Entries
      <3>2. file[x].createdAt \in Nat /\ file[x].createdAt < minted
        BY <1>0, <3>1, EntryFacts
      <3>3. d[x].createdAt = file[x].createdAt /\ d[x] \in Map /\ CounterStateOk(d[x])
        BY <2>2 DEF Later
      <3> QED
        BY <1>8, <2>1, <2>2, <3>1, <3>2, <3>3
    <2>3. CASE fresh = 1 /\ FreshMap(d[x])
      BY <1>8, <2>1, <2>3 DEF FreshMap
    <2> QED
      BY <1>4, <2>1, <2>2, <2>3 DEF WellAfter
  <1>10. FileShape'
    <2>1. IsFiniteSet(Entries(d))
      BY <1>4 DEF WellAfter
    <2>2. Entries(file)' = Entries(d)
      BY <1>5 DEF Entries
    <2> QED
      BY <1>5, <1>7, <1>8, <1>9, <2>1, <2>2 DEF FileShape
  <1>11. FileTypeOK'
    <2>1. Cardinality(Entries(d)) <= FileEntries
      BY <1>4 DEF WellAfter
    <2>2. Entries(file)' = Entries(d)
      BY <1>5 DEF Entries
    <2> QED
      BY <1>0, <1>5, <1>9, <2>1, <2>2 DEF FileTypeOK
  <1>12. ASSUME NEW u \in Use, Remembered(u, file) PROVE Remembered(u, d)'
    <2>1. u.born \in Nat /\ u.client \in FileClient /\ u.born < minted /\ \A s \in Seg : u.ctr[s] \in Nat
      BY <1>12, MapAssumption DEF Use, Remembered, Usable
    <2>2. u.born < minted'
      BY <1>8, <2>1
    <2>3. ASSUME d[u.client] # NoEntry, d[u.client].createdAt = u.born, NEW s \in Seg
          PROVE  d[u.client].ctr[s] > u.ctr[s]
      <3>1. u.client \in Entries(d)
        BY <2>1, <2>3 DEF Entries
      <3>2. d[u.client].createdAt # minted
        BY <1>8, <2>1, <2>3
      <3>3. u.client \in Entries(file) /\ Later(file[u.client], d[u.client])
        BY <1>9, <3>1, <3>2
      <3>4. file[u.client] # NoEntry /\ file[u.client].createdAt = u.born
        BY <2>3, <3>3 DEF Later, Entries
      <3>5. file[u.client].ctr[s] > u.ctr[s]
        BY <1>12, <3>4 DEF Remembered
      <3>6. d[u.client].ctr[s] >= file[u.client].ctr[s] /\ d[u.client] \in Map
        BY <3>3 DEF Later
      <3>7. d[u.client].ctr[s] \in Nat /\ file[u.client].ctr[s] \in Nat
        BY <1>0, <3>3, <3>6, EntryFacts, MapAssumption DEF Map, Counter
      <3> QED
        BY <2>1, <3>5, <3>6, <3>7
    <2> QED
      BY <2>2, <2>3 DEF Remembered
  <1>13. \A u \in spent' : Remembered(u, file)'
    BY <1>0, <1>5, <1>12 DEF FileTypeOK, Remembered
  <1>14. \A u \in us : Remembered(u, file)'
    <2> SUFFICES ASSUME NEW u \in us PROVE Remembered(u, file)'
      OBVIOUS
    <2>1. Remembered(u, d) /\ u.born \in Nat
      BY <1>4 DEF Use
    <2> QED
      BY <1>5, <1>8, <2>1 DEF Remembered
  <1>15. LockOwned'
    <2> SUFFICES ASSUME NEW q \in Proc
                 PROVE  /\ proc'[q].pc \in {"locked", "staged", "unlock"} => lockfile' = q
                        /\ proc'[q].pc # "staged"
                        /\ proc'[q].pc = "unlock" => \A u \in proc'[q].use : Remembered(u, file)'
      BY DEF LockOwned
    <2>1. CASE q = p
      BY <1>1, <1>5, <1>6, <1>7, <1>14, <2>1
    <2>2. CASE q # p
      BY <1>7, <2>2
    <2> QED
      BY <2>1, <2>2
  <1>16. NoLostUpdate'
    BY <1>6, <1>7 DEF NoLostUpdate
  <1>17. AcceptedIsStored'
    BY <1>13 DEF AcceptedIsStored, Remembered
  <1> QED
    BY <1>10, <1>11, <1>13, <1>15, <1>16, <1>17 DEF FileInv, FileSound

LEMMA FileInvStep == FileInv /\ [FileNext]_fileVars => FileInv'
  <1> SUFFICES ASSUME FileInv, [FileNext]_fileVars PROVE FileInv'
    OBVIOUS
  <1>0. FileShape /\ LockOwned /\ (\A u \in spent : Remembered(u, file)) /\ FileTypeOK /\ FileWell
    BY WellFileIs DEF FileInv, FileSound
  <1>a. lockfile \in Proc \cup {NoProc} /\ \A p \in Proc : proc[p] \in ProcState
    BY <1>0 DEF FileTypeOK, FileShape
  <1>b. \A p, q \in Proc : lockfile \in {p, NoProc} /\ q # p => proc[q].pc \notin {"locked", "staged", "unlock"}
    BY <1>0, FileAssumption DEF LockOwned
  <1>1. ASSUME NEW p \in Proc, openLock(p) PROVE FileInv'
    <2> DEFINE st == [pc |-> "locked"]
    <2>1. st \in ProcState /\ st.pc = "locked"
      BY DEF ProcState
    <2>2. /\ proc' = [proc EXCEPT ![p] = st] /\ lockfile = NoProc /\ lockfile' = p
          /\ UNCHANGED <<file, minted, spent>>
      BY <1>1 DEF openLock
    <2> HIDE DEF st
    <2> QED
      BY <1>b, <2>1, <2>2, ProcMoves
  <1>2. ASSUME NEW p \in Proc, stage(p) PROVE FileInv'
    <2>1. PICK c \in Candidates(file) : proc' = [proc EXCEPT ![p] = [pc |-> "staged", base |-> file, cand |-> c]]
      BY <1>2 DEF stage
    <2> DEFINE st == [pc |-> "staged", base |-> file, cand |-> c]
    <2>2. c \in [data : Content, use : SUBSET Use, fresh : 0..1] /\ file \in Content
      BY <1>0, CandidatesAreOk DEF CandidateOk, FileShape
    <2>3. st \in ProcState /\ st.pc = "staged" /\ st.base = file /\ st.cand = c
      BY <2>2 DEF ProcState
    <2>4. /\ proc' = [proc EXCEPT ![p] = st] /\ lockfile = p /\ lockfile' = lockfile
          /\ UNCHANGED <<file, minted, spent>>
      BY <1>0, <1>2, <2>1 DEF stage, LockOwned
    <2> HIDE DEF st
    <2> QED
      BY <1>a, <2>3, <2>4, ProcMoves
  <1>3. ASSUME NEW p \in Proc, noChange(p) PROVE FileInv'
    <2> DEFINE st == [pc |-> "unlock", use |-> {}]
    <2>1. st \in ProcState /\ st.pc = "unlock" /\ st.use = {}
      BY DEF ProcState
    <2>2. /\ proc' = [proc EXCEPT ![p] = st] /\ lockfile = p /\ lockfile' = lockfile
          /\ UNCHANGED <<file, minted, spent>>
      BY <1>0, <1>3 DEF noChange, LockOwned
    <2> HIDE DEF st
    <2> QED
      BY <1>a, <2>1, <2>2, ProcMoves
  <1>4. ASSUME NEW p \in Proc, rename(p) PROVE FileInv'
    BY <1>4, RenameKeeps
  <1>5. ASSUME NEW p \in Proc, Die(p) PROVE FileInv'
    <2> DEFINE st == [pc |-> "dead"]
    <2>1. st \in ProcState /\ st.pc = "dead"
      BY DEF ProcState
    <2>2. /\ proc' = [proc EXCEPT ![p] = st] /\ lockfile' = lockfile
          /\ UNCHANGED <<file, minted, spent>>
      BY <1>5 DEF Die
    <2> HIDE DEF st
    <2> QED
      BY <1>a, <2>1, <2>2, ProcMoves
  <1>6. ASSUME NEW p \in Proc, Resolve(p) PROVE FileInv'
    <2>1. Resting \in ProcState /\ Resting.pc = "idle"
      BY DEF ProcState, Resting
    <2>2. /\ proc' = [proc EXCEPT ![p] = Resting]
          /\ lockfile' = lockfile \/ (lockfile = p /\ lockfile' = NoProc)
          /\ UNCHANGED <<file, minted, spent>>
      BY <1>6 DEF Resolve
    <2> QED
      BY <1>a, <1>b, <2>1, <2>2, ProcMoves
  <1>7. ASSUME NEW p \in Proc, unlock(p) PROVE FileInv'
    <2>1. /\ proc[p].pc = "unlock" /\ lockfile = p /\ lockfile' = NoProc
          /\ spent' = spent \cup proc[p].use /\ proc' = [proc EXCEPT ![p] = Resting]
          /\ UNCHANGED <<file, minted>>
      BY <1>7 DEF unlock
    <2>2. proc[p].use \in SUBSET Use /\ \A u \in proc[p].use : Remembered(u, file)
      BY <1>0, <1>a, <2>1, ProcStates DEF LockOwned
    <2>3. /\ proc' \in [Proc -> ProcState] /\ proc'[p].pc = "idle"
          /\ \A q \in Proc \ {p} : proc'[q] = proc[q] /\ proc[q].pc \notin {"locked", "staged", "unlock"}
      BY <1>0, <1>b, <2>1 DEF FileShape, ProcState, Resting
    <2>4. FileShape' /\ LockOwned' /\ NoLostUpdate'
      BY <1>0, <2>1, <2>3 DEF FileShape, LockOwned, NoLostUpdate, Entries
    <2>5. \A u \in spent' : Remembered(u, file)'
      BY <1>0, <2>1, <2>2 DEF Remembered
    <2>6. AcceptedIsStored'
      BY <2>5 DEF AcceptedIsStored, Remembered
    <2>7. FileTypeOK'
      BY <1>0, <2>1, <2>2 DEF FileTypeOK, Entries
    <2> QED
      BY <2>4, <2>5, <2>6, <2>7 DEF FileInv, FileSound
  <1>8. CASE UNCHANGED fileVars
    <2>1. Candidates(file)' = Candidates(file)
      BY <1>8 DEF fileVars, Candidates, fileSet, fileDelete, fileUpdateCounters, fileConsumeCounter,
             fileCommitValidation, fileReplaceCredential, Entries, Full, Quiet, Minting
    <2>2. LockOwned' /\ (\A u \in spent : Remembered(u, file))'
      BY <1>0, <1>8, <2>1 DEF fileVars, LockOwned, Remembered
    <2> QED
      BY <1>8, <2>2
         DEF fileVars, FileInv, FileShape, FileSound, FileTypeOK, NoLostUpdate, AcceptedIsStored, Entries
  <1> QED
    BY <1>1, <1>2, <1>3, <1>4, <1>5, <1>6, <1>7, <1>8 DEF FileNext

(* The file stays well-formed and within its capacity, no process renames  *)
(* over an update it has not seen, and a use reported as accepted stays    *)
(* past, for any number of processes, deaths and locks an operator         *)
(* resolves (FileTumblerStore.transaction and flush).                      *)
THEOREM FileSoundHolds == FileSpec => []FileSound
  <1>1. FileInit => FileInv
    <2> SUFFICES ASSUME FileInit PROVE FileInv
      OBVIOUS
    <2>1. Entries(file) = {}
      BY DEF FileInit, Entries
    <2>2. IsFiniteSet(Entries(file)) /\ Cardinality(Entries(file)) <= FileEntries
      BY <2>1, FS_EmptySet, FileAssumption
    <2>3. FileShape
      BY <2>1, <2>2 DEF FileInit, FileShape, Content, ProcState
    <2>4. LockOwned /\ NoLostUpdate
      BY DEF FileInit, LockOwned, NoLostUpdate, Resting
    <2>5. FileTypeOK /\ AcceptedIsStored /\ \A u \in spent : Remembered(u, file)
      BY <2>1, <2>2 DEF FileInit, FileTypeOK, AcceptedIsStored
    <2> QED
      BY <2>3, <2>4, <2>5 DEF FileInv, FileSound
  <1>2. FileInv => FileSound
    BY DEF FileInv
  <1> QED
    BY <1>1, <1>2, FileInvStep, PTL DEF FileSpec

-----------------------------------------------------------------------------
(***************************************************************************)
(* Transactor: every loan of the pool is returned, and a transaction that  *)
(* answered is the one that committed.                                     *)
(***************************************************************************)

(* A step of one call: where it goes, what it holds, what it answered.     *)
Moves(t, pc, on, out) ==
  /\ call' \in [Txn -> CallState]
  /\ call'[t].pc = pc /\ call'[t].on = on /\ call'[t].outcome = out
  /\ pc = "sleep" => call'[t].attempt = call[t].attempt
  /\ \A u \in Txn \ {t} : call'[u] = call[u]

LEMMA CallStateFacts ==
  ASSUME TransactorTypeOK, NEW t \in Txn
  PROVE  /\ call[t].attempt \in 0..MaxRetries /\ call[t].on \in Conn \cup {NoConn}
         /\ call[t].outcome \in Outcome \cup {"none"}
         /\ call[t].pc \in Uncommitted \cup {"acked", "scrub", "done"}
         /\ commits[t] \in Nat
  <1>1. call[t] \in CallState
    BY DEF TransactorTypeOK
  <1>2. commits[t] \in Nat
    BY DEF TransactorTypeOK
  <1> QED
    BY <1>1, <1>2 DEF CallState, Uncommitted

LEMMA CallMoves ==
  ASSUME TransactorTypeOK, NEW t \in Txn
  PROVE  /\ \A pc \in Uncommitted \cup {"acked", "scrub"} :
              Goto(t, pc) => Moves(t, pc, call[t].on, call[t].outcome)
         /\ \A out \in Outcome : Finish(t, out) => Moves(t, "done", NoConn, out)
         /\ Retry(t) => Moves(t, "sleep", NoConn, "none")
         /\ nextAttempt(t) /\ call[t].attempt < MaxRetries => Moves(t, "acquire", NoConn, "none")
         /\ \A c \in Conn : acquire(t, c) => Moves(t, "setup", c, "none")
  <1>0. call[t] \in CallState /\ call \in [Txn -> CallState] /\ call[t].attempt \in 0..MaxRetries
    BY CallStateFacts DEF TransactorTypeOK
  <1>1. ASSUME NEW r \in CallState, call' = [call EXCEPT ![t] = r],
               r.pc = "sleep" => r.attempt = call[t].attempt
        PROVE  Moves(t, r.pc, r.on, r.outcome)
    BY <1>0, <1>1 DEF Moves
  <1>2. ASSUME NEW pc \in Uncommitted \cup {"acked", "scrub"}, Goto(t, pc)
        PROVE  Moves(t, pc, call[t].on, call[t].outcome)
    <2>1. [call[t] EXCEPT !.pc = pc] \in CallState
      BY <1>0 DEF CallState, Uncommitted
    <2>2. PICK r \in CallState : r = [call[t] EXCEPT !.pc = pc]
      BY <2>1
    <2>3. /\ r.pc = pc /\ r.on = call[t].on /\ r.outcome = call[t].outcome
          /\ r.attempt = call[t].attempt
      BY <1>0, <2>2 DEF CallState
    <2>4. call' = [call EXCEPT ![t] = r]
      BY <1>2, <2>2 DEF Goto
    <2> QED
      BY <1>1, <2>3, <2>4
  <1>3. ASSUME NEW pc \in {"setup", "sleep", "acquire", "done"}, NEW a \in 0..MaxRetries,
               NEW on \in Conn \cup {NoConn}, NEW out \in Outcome \cup {"none"},
               pc = "sleep" => a = call[t].attempt,
               call' = [call EXCEPT ![t] = [pc |-> pc, attempt |-> a, on |-> on, outcome |-> out]]
        PROVE  Moves(t, pc, on, out)
    <2>1. [pc |-> pc, attempt |-> a, on |-> on, outcome |-> out] \in CallState
      BY DEF CallState
    <2>2. PICK r \in CallState : /\ r = [pc |-> pc, attempt |-> a, on |-> on, outcome |-> out]
                                 /\ r.pc = pc /\ r.on = on /\ r.outcome = out /\ r.attempt = a
      BY <2>1
    <2> QED
      BY <1>1, <1>3, <2>2
  <1>4. ASSUME NEW out \in Outcome, Finish(t, out) PROVE Moves(t, "done", NoConn, out)
    BY <1>0, <1>3, <1>4 DEF Finish
  <1>5. Retry(t) => Moves(t, "sleep", NoConn, "none")
    BY <1>0, <1>3 DEF Retry
  <1>6. nextAttempt(t) /\ call[t].attempt < MaxRetries => Moves(t, "acquire", NoConn, "none")
    <2>1. call[t].attempt < MaxRetries => call[t].attempt + 1 \in 0..MaxRetries
      BY <1>0, TransactorAssumption
    <2> QED
      BY <1>3, <2>1 DEF nextAttempt
  <1>7. ASSUME NEW c \in Conn, acquire(t, c) PROVE Moves(t, "setup", c, "none")
    BY <1>0, <1>3, <1>7 DEF acquire
  <1> QED
    BY <1>2, <1>4, <1>5, <1>6, <1>7

LEMMA TransactorInitOK == TransactorInit => TransactorInv
  BY TransactorAssumption
     DEF TransactorInit, TransactorInv, TransactorTypeOK, LoanInv, CommitInv, RetriesLeft, CallState,
         Uncommitted, Holding

(* A step of a call that holds the same connection, or none, as before.    *)
LEMMA KeepsLoan ==
  ASSUME TransactorInv, NEW t \in Txn, NEW pc, NEW out, Moves(t, pc, call[t].on, out),
         pc \in Holding <=> call[t].pc \in Holding, UNCHANGED conn,
         dirty' \subseteq dirty \cup ({call[t].on} \ {NoConn})
  PROVE  LoanInv'
  <1>1. \A u \in Txn : call'[u].on = call[u].on /\ (call'[u].pc \in Holding <=> call[u].pc \in Holding)
    BY DEF Moves
  <1>2. call[t].on # NoConn => conn[call[t].on] = "out"
    BY DEF TransactorInv, LoanInv
  <1> QED
    BY <1>1, <1>2 DEF TransactorInv, LoanInv

(* A call gives its connection up: destroyed, or clean in the pool.        *)
LEMMA EndsLoan ==
  ASSUME TransactorInv, NEW t \in Txn, NEW pc, NEW out, Moves(t, pc, NoConn, out), pc \notin Holding,
         NEW st \in {"pooled", "destroyed"}, call[t].on # NoConn,
         conn' = [conn EXCEPT ![call[t].on] = st], dirty' \subseteq dirty,
         st = "pooled" => call[t].on \notin dirty'
  PROVE  LoanInv' /\ conn' \in [Conn -> {"pooled", "out", "destroyed"}]
  <1>0. call[t].on \in Conn /\ conn \in [Conn -> {"pooled", "out", "destroyed"}]
    BY CallStateFacts DEF TransactorInv, TransactorTypeOK
  <1>1. /\ conn'[call[t].on] = st /\ \A c \in Conn \ {call[t].on} : conn'[c] = conn[c]
        /\ conn' \in [Conn -> {"pooled", "out", "destroyed"}]
    BY <1>0
  <1>2. \A u \in Txn : IF u = t THEN call'[u].on = NoConn /\ call'[u].pc \notin Holding
                       ELSE call'[u] = call[u]
    BY DEF Moves
  <1>3. \A u \in Txn \ {t} : call[u].on # call[t].on
    BY DEF TransactorInv, LoanInv
  <1>4. \A u \in Txn : call[u].on \in Conn \cup {NoConn}
    BY CallStateFacts DEF TransactorInv
  <1>5. \A u \in Txn : call'[u].on # NoConn => conn'[call'[u].on] = "out"
    BY <1>1, <1>2, <1>3, <1>4 DEF TransactorInv, LoanInv
  <1>6. \A c \in Conn : conn'[c] = "out" => \E u \in Txn : call'[u].on = c
    BY <1>1, <1>2 DEF TransactorInv, LoanInv
  <1> QED
    BY <1>1, <1>2, <1>5, <1>6 DEF TransactorInv, LoanInv

(* What one call did is all that changed of the commits.                   *)
LEMMA CommitsMove ==
  ASSUME TransactorInv, NEW t \in Txn, NEW pc, NEW on, NEW out, Moves(t, pc, on, out),
         \A u \in Txn \ {t} : commits'[u] = commits[u] /\ (u \in limbo' <=> u \in limbo),
         pc = "done" <=> out # "none",
         pc \in Uncommitted => commits'[t] = 0 /\ t \notin limbo',
         pc \in {"acked", "scrub"} => commits'[t] = 1 /\ t \notin limbo',
         commits'[t] \in {0, 1} /\ (t \in limbo' => commits'[t] = 0),
         out \in {"ok", "postCommit"} => commits'[t] = 1,
         out = "error" => commits'[t] = 0 /\ t \notin limbo',
         pc = "sleep" => call[t].attempt < MaxRetries
  PROVE  CommitInv' /\ RetriesLeft'
  BY DEF TransactorInv, CommitInv, RetriesLeft, Moves

LEMMA TransactorInvStep == TransactorInv /\ [TransactorNext]_transactorVars => TransactorInv'
  <1> SUFFICES ASSUME TransactorInv, [TransactorNext]_transactorVars PROVE TransactorInv'
    OBVIOUS
  <1>0. /\ TransactorTypeOK /\ LoanInv /\ CommitInv /\ RetriesLeft
        /\ \A t \in Txn : /\ call[t].pc \notin Holding => call[t].on = NoConn
                          /\ call[t].pc \in Holding => call[t].on # NoConn
                          /\ call[t].pc # "done" => call[t].outcome = "none"
                          /\ call[t].on \in Conn \cup {NoConn}
                          /\ commits[t] \in Nat
    BY CallStateFacts DEF TransactorInv, LoanInv, CommitInv
  <1> USE DEF Uncommitted, Holding, Outcome
  <1>1. ASSUME NEW t \in Txn, begin(t) PROVE TransactorInv'
    <2>1. call[t].pc = "idle" /\ UNCHANGED <<conn, dirty, late, limbo, commits>>
      BY <1>1 DEF begin
    <2>2. Moves(t, "acquire", call[t].on, "none")
      BY <1>0, <1>1, <2>1, CallMoves DEF begin
    <2>3. LoanInv'
      BY <2>1, <2>2, KeepsLoan
    <2>4. CommitInv' /\ RetriesLeft'
      BY <1>0, <2>1, <2>2, CommitsMove DEF CommitInv
    <2> QED
      BY <1>0, <2>1, <2>2, <2>3, <2>4 DEF TransactorInv, TransactorTypeOK, Moves
  <1>2. ASSUME NEW t \in Txn, NEW c \in Conn, acquire(t, c) PROVE TransactorInv'
    <2>1. /\ call[t].pc = "acquire" /\ conn[c] = "pooled" /\ UNCHANGED <<dirty, late, limbo, commits>>
          /\ conn' = [conn EXCEPT ![c] = "out"]
      BY <1>2 DEF acquire
    <2>2. Moves(t, "setup", c, "none")
      BY <1>0, <1>2, CallMoves
    <2>3. /\ conn' \in [Conn -> {"pooled", "out", "destroyed"}]
          /\ conn'[c] = "out" /\ \A d \in Conn \ {c} : conn'[d] = conn[d]
      BY <1>0, <2>1 DEF TransactorTypeOK
    <2>4. c # NoConn /\ \A u \in Txn : call[u].on # c
      BY <1>0, <2>1, TransactorAssumption DEF LoanInv
    <2>5. \A u \in Txn : IF u = t THEN call'[u].on = c /\ call'[u].pc = "setup"
                         ELSE call'[u] = call[u]
      BY <2>2 DEF Moves
    <2>6. LoanInv'
      <3>1. \A u \in Txn : call'[u].on # NoConn => conn'[call'[u].on] = "out"
        BY <1>0, <2>3, <2>4, <2>5 DEF LoanInv
      <3>2. \A d \in Conn : conn'[d] = "out" => \E u \in Txn : call'[u].on = d
        <4> SUFFICES ASSUME NEW d \in Conn, conn'[d] = "out" PROVE \E u \in Txn : call'[u].on = d
          OBVIOUS
        <4>1. CASE d = c
          BY <2>5, <4>1
        <4>2. CASE d # c
          <5>1. PICK u \in Txn : call[u].on = d
            BY <1>0, <2>3, <4>2 DEF LoanInv
          <5>2. u # t
            BY <1>0, <2>1, <5>1, TransactorAssumption
          <5> QED
            BY <2>5, <5>1, <5>2
        <4> QED
          BY <4>1, <4>2
      <3>3. /\ \A u, v \in Txn : call'[u].on = call'[v].on /\ call'[u].on # NoConn => u = v
            /\ \A u \in Txn : call'[u].pc \in Holding <=> call'[u].on # NoConn
        BY <1>0, <2>4, <2>5 DEF LoanInv
      <3>4. \A d \in Conn : conn'[d] = "pooled" => d \notin dirty'
        BY <1>0, <2>1, <2>3 DEF LoanInv
      <3> QED
        BY <3>1, <3>2, <3>3, <3>4 DEF LoanInv
    <2>7. CommitInv' /\ RetriesLeft'
      BY <1>0, <2>1, <2>2, CommitsMove DEF CommitInv
    <2> QED
      BY <1>0, <2>1, <2>2, <2>3, <2>6, <2>7 DEF TransactorInv, TransactorTypeOK, Moves
  <1>3. ASSUME NEW t \in Txn, acquireTimeout(t) PROVE TransactorInv'
    <2>1. call[t].pc = "acquire" /\ UNCHANGED <<conn, dirty, limbo, commits>> /\ late' = late \cup {t}
      BY <1>3 DEF acquireTimeout
    <2>2. Moves(t, "done", call[t].on, "error")
      BY <1>0, <1>3, <2>1, CallMoves DEF acquireTimeout
    <2>3. LoanInv'
      BY <2>1, <2>2, KeepsLoan
    <2>4. CommitInv' /\ RetriesLeft'
      BY <1>0, <2>1, <2>2, CommitsMove DEF CommitInv
    <2> QED
      BY <1>0, <2>1, <2>2, <2>3, <2>4 DEF TransactorInv, TransactorTypeOK, Moves
  <1>4. ASSUME NEW t \in Txn, NEW c \in Conn, lateArrives(t, c) PROVE TransactorInv'
    <2>1. /\ conn[c] = "pooled" /\ late' = late \ {t} /\ conn' = [conn EXCEPT ![c] = "destroyed"]
          /\ UNCHANGED <<call, dirty, limbo, commits>>
      BY <1>4 DEF lateArrives
    <2>2. /\ conn' \in [Conn -> {"pooled", "out", "destroyed"}]
          /\ conn'[c] = "destroyed" /\ \A d \in Conn \ {c} : conn'[d] = conn[d]
      BY <1>0, <2>1 DEF TransactorTypeOK
    <2>3. LoanInv'
      BY <1>0, <2>1, <2>2 DEF LoanInv
    <2> QED
      BY <1>0, <2>1, <2>2, <2>3 DEF TransactorInv, TransactorTypeOK, CommitInv, RetriesLeft
  <1>5. ASSUME NEW t \in Txn, setup(t) PROVE TransactorInv'
    <2>1. /\ call[t].pc = "setup" /\ UNCHANGED <<conn, late, limbo, commits>>
          /\ dirty' = dirty \cup {call[t].on} /\ call[t].on # NoConn
      BY <1>0, <1>5 DEF setup
    <2>2. Moves(t, "work", call[t].on, "none")
      BY <1>0, <1>5, <2>1, CallMoves DEF setup
    <2>3. LoanInv'
      BY <2>1, <2>2, KeepsLoan
    <2>4. CommitInv' /\ RetriesLeft'
      BY <1>0, <2>1, <2>2, CommitsMove DEF CommitInv
    <2> QED
      BY <1>0, <2>1, <2>2, <2>3, <2>4 DEF TransactorInv, TransactorTypeOK, Moves
  <1>6. ASSUME NEW t \in Txn, work(t) \/ check(t) \/ committed(t) PROVE TransactorInv'
    <2>1. PICK pc \in {"check", "commit", "scrub"} :
            /\ pc = "check" => call[t].pc = "work"
            /\ pc = "commit" => call[t].pc = "check"
            /\ pc = "scrub" => call[t].pc = "acked"
            /\ Goto(t, pc) /\ UNCHANGED <<conn, dirty, late, limbo, commits>>
      BY <1>6 DEF work, check, committed
    <2>2. Moves(t, pc, call[t].on, "none")
      BY <1>0, <2>1, CallMoves
    <2>3. LoanInv'
      BY <2>1, <2>2, KeepsLoan
    <2>4. CommitInv' /\ RetriesLeft'
      BY <1>0, <2>1, <2>2, CommitsMove DEF CommitInv
    <2> QED
      BY <1>0, <2>1, <2>2, <2>3, <2>4 DEF TransactorInv, TransactorTypeOK, Moves
  <1>7. ASSUME NEW t \in Txn, dbCommit(t) PROVE TransactorInv'
    <2>1. PICK pc \in {"acked", "refused"} :
            /\ commits' = IF pc = "acked" THEN [commits EXCEPT ![t] = @ + 1] ELSE commits
            /\ Goto(t, pc)
      BY <1>7 DEF dbCommit
    <2>2. call[t].pc = "commit" /\ UNCHANGED <<conn, dirty, late, limbo>>
      BY <1>7 DEF dbCommit
    <2>3. Moves(t, pc, call[t].on, "none")
      BY <1>0, <2>1, <2>2, CallMoves
    <2>4. LoanInv'
      BY <2>2, <2>3, KeepsLoan
    <2>5. /\ commits' \in [Txn -> Nat] /\ \A u \in Txn \ {t} : commits'[u] = commits[u]
          /\ commits'[t] = IF pc = "acked" THEN commits[t] + 1 ELSE commits[t]
      BY <1>0, <2>1 DEF TransactorTypeOK
    <2>6. CommitInv' /\ RetriesLeft'
      BY <1>0, <2>2, <2>3, <2>5, CommitsMove DEF CommitInv
    <2> QED
      BY <1>0, <2>2, <2>3, <2>4, <2>5, <2>6 DEF TransactorInv, TransactorTypeOK, Moves
  <1>8. ASSUME NEW t \in Txn, releaseNormally(t) PROVE TransactorInv'
    <2>1. /\ call[t].pc = "scrub" /\ UNCHANGED <<late, limbo, commits>>
          /\ dirty' = dirty \ {call[t].on} /\ conn' = [conn EXCEPT ![call[t].on] = "pooled"]
      BY <1>8 DEF releaseNormally
    <2>2. Moves(t, "done", NoConn, "ok")
      BY <1>0, <1>8, CallMoves DEF releaseNormally
    <2>3. LoanInv' /\ conn' \in [Conn -> {"pooled", "out", "destroyed"}]
      BY <1>0, <2>1, <2>2, EndsLoan
    <2>4. CommitInv' /\ RetriesLeft'
      BY <1>0, <2>1, <2>2, CommitsMove DEF CommitInv
    <2> QED
      BY <1>0, <2>1, <2>2, <2>3, <2>4 DEF TransactorInv, TransactorTypeOK, Moves
  <1>9. (* Every other end of an attempt destroys the connection. *)
        ASSUME NEW t \in Txn, NEW pc \in {"sleep", "done"}, NEW out \in Outcome \cup {"none"},
               Moves(t, pc, NoConn, out), call[t].pc \in Holding,
               conn' = Destroyed(t), limbo' = limbo \cup Unanswered(t),
               UNCHANGED <<dirty, commits>>, late' = late,
               pc = "sleep" => call[t].attempt < MaxRetries /\ call[t].pc \in {"setup", "work", "check"},
               pc = "done" <=> out # "none",
               out = "error" => call[t].pc \in {"setup", "work", "check", "refused"},
               out \in {"ok", "postCommit"} => call[t].pc = "scrub"
        PROVE  TransactorInv'
    <2>1. conn' = [conn EXCEPT ![call[t].on] = "destroyed"] /\ call[t].on # NoConn
      BY <1>0, <1>9 DEF Destroyed
    <2>2. LoanInv' /\ conn' \in [Conn -> {"pooled", "out", "destroyed"}]
      BY <1>0, <1>9, <2>1, EndsLoan
    <2>3. \A u \in Txn : u \in limbo' <=> u \in limbo \/ (u = t /\ call[t].pc = "commit")
      BY <1>9 DEF Unanswered
    <2>4. CommitInv' /\ RetriesLeft'
      BY <1>0, <1>9, <2>3, CommitsMove DEF CommitInv
    <2>5. limbo' \subseteq Txn
      BY <1>0, <1>9 DEF TransactorTypeOK, Unanswered
    <2> QED
      BY <1>0, <1>9, <2>2, <2>4, <2>5 DEF TransactorInv, TransactorTypeOK, Moves
  <1>10. ASSUME NEW t \in Txn, scrubFails(t) PROVE TransactorInv'
    <2>1. call[t].pc = "scrub" /\ Unanswered(t) = {} /\ Moves(t, "done", NoConn, "postCommit")
      BY <1>0, <1>10, CallMoves DEF scrubFails, Unanswered
    <2> QED
      BY <1>9, <1>10, <2>1 DEF scrubFails
  <1>11. ASSUME NEW t \in Txn, NEW retryable \in BOOLEAN, failBeforeCommit(t, retryable)
         PROVE  TransactorInv'
    <2>1. /\ call[t].pc \in {"setup", "work", "check"} /\ Unanswered(t) = {}
          /\ \/ Moves(t, "sleep", NoConn, "none") /\ call[t].attempt < MaxRetries
             \/ Moves(t, "done", NoConn, "error")
      BY <1>0, <1>11, CallMoves DEF failBeforeCommit, Unanswered
    <2> QED
      BY <1>9, <1>11, <2>1 DEF failBeforeCommit
  <1>12. ASSUME NEW t \in Txn, nextAttempt(t) PROVE TransactorInv'
    <2>1. call[t].pc = "sleep" /\ UNCHANGED <<conn, dirty, late, limbo, commits>>
      BY <1>12 DEF nextAttempt
    <2>2. Moves(t, "acquire", call[t].on, "none")
      BY <1>0, <1>12, <2>1, CallMoves DEF RetriesLeft
    <2>3. LoanInv'
      BY <2>1, <2>2, KeepsLoan
    <2>4. CommitInv' /\ RetriesLeft'
      BY <1>0, <2>1, <2>2, CommitsMove DEF CommitInv
    <2> QED
      BY <1>0, <2>1, <2>2, <2>3, <2>4 DEF TransactorInv, TransactorTypeOK, Moves
  <1>13. ASSUME NEW t \in Txn, failAtCommit(t) PROVE TransactorInv'
    <2>1. call[t].pc \in {"commit", "acked", "refused"} /\ Moves(t, "done", NoConn, "ambiguous")
      BY <1>0, <1>13, CallMoves DEF failAtCommit
    <2> QED
      BY <1>9, <1>13, <2>1 DEF failAtCommit
  <1>14. ASSUME NEW t \in Txn, commitRolledBack(t) PROVE TransactorInv'
    <2>1. call[t].pc = "refused" /\ Unanswered(t) = {} /\ Moves(t, "done", NoConn, "error")
      BY <1>0, <1>14, CallMoves DEF commitRolledBack, Unanswered
    <2> QED
      BY <1>9, <1>14, <2>1 DEF commitRolledBack
  <1>15. ASSUME NEW t \in Txn, abort(t) PROVE TransactorInv'
    <2>1. /\ call[t].pc \in Holding \cup {"acquire", "sleep"}
          /\ AbortOutcome(t) \in Outcome
          /\ AbortOutcome(t) = "error" => call[t].pc \in {"acquire", "sleep", "setup", "work", "check"}
          /\ AbortOutcome(t) \in {"ok", "postCommit"} => call[t].pc = "scrub"
      BY <1>0, <1>15, CallStateFacts DEF abort, AbortOutcome
    <2>2. Moves(t, "done", NoConn, AbortOutcome(t))
      BY <1>0, <1>15, <2>1, CallMoves DEF abort
    <2>3. CASE call[t].pc \in Holding
      <3>1. /\ conn' = Destroyed(t) /\ late' = late /\ limbo' = limbo \cup Unanswered(t)
            /\ UNCHANGED <<dirty, commits>>
        BY <1>0, <1>15, <2>3 DEF abort
      <3>2. /\ AbortOutcome(t) \in Outcome \cup {"none"} /\ AbortOutcome(t) # "none"
            /\ AbortOutcome(t) = "error" => call[t].pc \in {"setup", "work", "check", "refused"}
        BY <2>1, <2>3
      <3> QED
        BY <1>9, <2>1, <2>2, <2>3, <3>1, <3>2
    <2>4. CASE call[t].pc \notin Holding
      <3>1. /\ call[t].pc \in {"acquire", "sleep"} /\ call[t].on = NoConn /\ Unanswered(t) = {}
            /\ AbortOutcome(t) = "error"
        BY <1>0, <2>1, <2>4 DEF Unanswered, AbortOutcome
      <3>2. UNCHANGED <<conn, dirty, commits>> /\ limbo' = limbo /\ late' \subseteq late \cup {t}
        BY <1>15, <3>1 DEF abort
      <3>3. Moves(t, "done", call[t].on, "error")
        BY <2>2, <3>1
      <3>4. LoanInv'
        BY <2>4, <3>2, <3>3, KeepsLoan
      <3>5. CommitInv' /\ RetriesLeft'
        BY <1>0, <3>1, <3>2, <3>3, CommitsMove DEF CommitInv
      <3> QED
        BY <1>0, <3>2, <3>3, <3>4, <3>5 DEF TransactorInv, TransactorTypeOK, Moves
    <2> QED
      BY <2>3, <2>4
  <1>16. ASSUME NEW t \in Txn, limboResolves(t) PROVE TransactorInv'
    <2>1. /\ t \in limbo /\ limbo' = limbo \ {t} /\ UNCHANGED <<call, conn, dirty, late>>
          /\ commits' = [commits EXCEPT ![t] = @ + 1] \/ UNCHANGED commits
      BY <1>16 DEF limboResolves
    <2>2. /\ commits[t] = 0 /\ call[t].pc = "done" /\ call[t].outcome \notin {"ok", "postCommit", "error"}
      BY <1>0, <2>1, CallStateFacts DEF CommitInv
    <2>3. /\ commits' \in [Txn -> Nat] /\ \A u \in Txn \ {t} : commits'[u] = commits[u]
          /\ commits'[t] \in {0, 1}
      BY <1>0, <2>1, <2>2 DEF TransactorTypeOK
    <2>4. CommitInv' /\ RetriesLeft'
      BY <1>0, <2>1, <2>2, <2>3 DEF CommitInv, RetriesLeft
    <2> QED
      BY <1>0, <2>1, <2>3, <2>4 DEF TransactorInv, TransactorTypeOK, LoanInv
  <1>17. ASSUME NEW c \in Conn, poolReplaces(c) PROVE TransactorInv'
    <2>1. /\ conn[c] = "destroyed" /\ conn' = [conn EXCEPT ![c] = "pooled"]
          /\ dirty' = dirty \ {c} /\ UNCHANGED <<call, late, limbo, commits>>
      BY <1>17 DEF poolReplaces
    <2>2. /\ conn' \in [Conn -> {"pooled", "out", "destroyed"}]
          /\ conn'[c] = "pooled" /\ \A d \in Conn \ {c} : conn'[d] = conn[d]
      BY <1>0, <2>1 DEF TransactorTypeOK
    <2>3. LoanInv'
      BY <1>0, <2>1, <2>2 DEF LoanInv
    <2> QED
      BY <1>0, <2>1, <2>2, <2>3 DEF TransactorInv, TransactorTypeOK, CommitInv, RetriesLeft
  <1>18. CASE UNCHANGED transactorVars
    BY <1>0, <1>18 DEF transactorVars, TransactorInv, TransactorTypeOK, LoanInv, CommitInv, RetriesLeft
  <1> QED
    BY <1>1, <1>2, <1>3, <1>4, <1>5, <1>6, <1>7, <1>8, <1>10, <1>11, <1>12, <1>13, <1>14, <1>15,
       <1>16, <1>17, <1>18 DEF TransactorNext

LEMMA TransactorPromises == TransactorInv => TransactorSound
  <1> SUFFICES ASSUME TransactorInv PROVE TransactorSound
    OBVIOUS
  <1>1. OutcomeTruthful
    <2> SUFFICES ASSUME NEW t \in Txn
                 PROVE  /\ commits[t] + Cardinality({t} \cap limbo) <= 1
                        /\ call[t].outcome \in {"ok", "postCommit"} => commits[t] = 1
                        /\ call[t].outcome = "error" => commits[t] = 0 /\ t \notin limbo
      BY DEF OutcomeTruthful
    <2>1. CASE t \in limbo
      <3>1. Cardinality({t} \cap limbo) = 1
        <4>1. {t} \cap limbo = {t}
          BY <2>1
        <4> QED
          BY <4>1, FS_Singleton
      <3> QED
        BY <2>1, <3>1 DEF TransactorInv, CommitInv
    <2>2. CASE t \notin limbo
      <3>1. Cardinality({t} \cap limbo) = 0
        <4>1. {t} \cap limbo = {}
          BY <2>2
        <4> QED
          BY <4>1, FS_EmptySet
      <3> QED
        BY <2>2, <3>1 DEF TransactorInv, CommitInv
    <2> QED
      BY <2>1, <2>2
  <1>2. PoolSound
    <2> SUFFICES ASSUME NEW c \in Conn
                 PROVE  Cardinality({t \in Txn : call[t].on = c}) = (IF conn[c] = "out" THEN 1 ELSE 0)
      BY DEF PoolSound, TransactorInv, LoanInv
    <2>1. CASE conn[c] = "out"
      <3>1. PICK t \in Txn : call[t].on = c
        BY <2>1 DEF TransactorInv, LoanInv
      <3>2. {u \in Txn : call[u].on = c} = {t}
        BY <3>1, TransactorAssumption DEF TransactorInv, LoanInv
      <3> QED
        BY <2>1, <3>2, FS_Singleton
    <2>2. CASE conn[c] # "out"
      <3>1. {u \in Txn : call[u].on = c} = {}
        BY <2>2, TransactorAssumption DEF TransactorInv, LoanInv
      <3> QED
        BY <2>2, <3>1, FS_EmptySet
    <2> QED
      BY <2>1, <2>2
  <1> QED
    BY <1>1, <1>2 DEF TransactorSound, TransactorInv

(* What transaction() tells its caller is true of the database, and a      *)
(* connection is lent to one call at a time and clean in the pool, for any *)
(* number of calls, connections and retries.                               *)
THEOREM TransactorSoundHolds == TransactorSpec => []TransactorSound
  BY TransactorInitOK, TransactorInvStep, TransactorPromises, PTL DEF TransactorSpec

-----------------------------------------------------------------------------
(***************************************************************************)
(* SchemaGate: what a store commits was attested under the locks it holds. *)
(***************************************************************************)

(* The invariant of one session in progress.                               *)
Fits(s, r) ==
  /\ r.ddl <= catalog.ddl /\ r.dml <= mark.dml
  /\ r.ddl = catalog.ddl => r.shape = catalog.shape
  /\ r.dml = mark.dml => r.stamp = mark.stamp
  /\ r.pc = "entered" => r.locked = 0
  /\ r.pc # "entered" /\ r.locked > 0 => r.locked = catalog.ddl + 1
  /\ r.pc \in {"locked", "attested"} => r.locked > 0
  /\ r.pc = "attested" => r.shape = "pinned"
  /\ r.pc \in {"held", "mutated"} =>
       /\ r.share /\ r.stamp = "pinned" /\ r.dml = mark.dml
       /\ s \in Attesting => r.locked > 0 /\ r.shape = "pinned"
  /\ catalog.ddl = MaxDdl + 1 /\ r.dml = mark.dml => r.shape # "v1"

GateLimits ==
  /\ catalog.ddl = MaxDdl + 1 => catalog.shape # "v1"
  /\ mark.dml = MaxDml + 1 => mark.stamp = "pinned"

GateFits == GateLimits /\ \A s \in Session : gate[s] # Outside => Fits(s, gate[s])

LEMMA GateFields ==
  ASSUME NEW r \in Gate
  PROVE  /\ r # Outside /\ r.pc # "out" /\ r.ddl \in Nat /\ r.dml \in Nat /\ r.locked \in Nat
         /\ r.pc \in {"entered", "locked", "attested", "held", "mutated"}
         /\ r.share \in BOOLEAN /\ r.shape \in Shape /\ r.stamp \in Stamp
  BY DEF Gate, Outside

LEMMA GateInvIs ==
  GateTypeOK => (GateInv <=> GateFits)
  <1> SUFFICES ASSUME GateTypeOK PROVE GateInv <=> GateFits
    OBVIOUS
  <1>1. \A s \in Session : gate[s] # Outside => /\ gate[s] \in Gate /\ gate[s].pc # "out"
                                               /\ gate[s].pc \in {"entered", "locked", "attested",
                                                                  "held", "mutated"}
    BY GateFields DEF GateTypeOK
  <1>2. \A s \in Session : gate[s] = Outside => gate[s].pc = "out"
    BY DEF Outside
  <1>3. \A s \in Session : /\ Past(s) <=> gate[s] # Outside /\ gate[s].pc # "entered"
                           /\ \A pc : At(s, pc) <=> gate[s].pc = pc
    BY <1>1, <1>2 DEF Past, At
  <1>4. ASSUME GateInv PROVE GateLimits /\ \A s \in Session : gate[s] # Outside => Fits(s, gate[s])
    BY <1>1, <1>2, <1>3, <1>4 DEF GateInv, SnapshotInv, LockInv, BoundsInv, Fits, GateLimits
  <1>5. ASSUME GateLimits, \A s \in Session : gate[s] # Outside => Fits(s, gate[s]) PROVE GateInv
    <2>1. SnapshotInv /\ BoundsInv
      BY <1>5 DEF SnapshotInv, BoundsInv, Fits, GateLimits
    <2>2. LockInv
      BY <1>1, <1>2, <1>3, <1>5 DEF LockInv, Fits
    <2> QED
      BY <2>1, <2>2 DEF GateInv
  <1> QED
    BY <1>4, <1>5 DEF GateFits

LEMMA GateInvNext == GateTypeOK' => (GateInv' <=> GateFits')
  BY GateInvIs, PTL

LEMMA GateInitOK == GateInit => GateInv
  <1> SUFFICES ASSUME GateInit PROVE GateInv
    OBVIOUS
  <1>1. \A s \in Session : gate[s] = Outside
    BY DEF GateInit
  <1>2. /\ catalog.ddl = 0 /\ mark.dml = 0
        /\ catalog \in [shape : Shape, ddl : 0..(MaxDdl + 1)]
        /\ mark \in [stamp : Stamp, dml : 0..(MaxDml + 1)]
    BY SchemaAssumption DEF GateInit, Shape, Stamp
  <1>3. GateTypeOK
    BY <1>2 DEF GateInit, GateTypeOK
  <1>4. MaxDdl + 1 # 0 /\ MaxDml + 1 # 0
    BY SchemaAssumption
  <1> QED
    BY <1>1, <1>2, <1>3, <1>4, GateInvIs DEF GateFits, GateLimits

(* A step of one session, over the same catalog and stamp.                 *)
LEMMA SessionMoves ==
  ASSUME GateInv, NEW s \in Session, NEW r \in Gate \cup {Outside}, r # Outside => Fits(s, r),
         gate' = [gate EXCEPT ![s] = r], UNCHANGED <<catalog, mark>>, tokens' \subseteq Session
  PROVE  GateInv'
  <1>1. GateTypeOK /\ GateFits
    BY GateInvIs DEF GateInv
  <1>2. GateTypeOK'
    BY <1>1 DEF GateTypeOK
  <1>3. \A u \in Session : gate'[u] = IF u = s THEN r ELSE gate[u]
    BY <1>1 DEF GateTypeOK
  <1>4. \A u \in Session : gate'[u] # Outside => Fits(u, gate'[u])
    BY <1>1, <1>3 DEF GateFits
  <1>5. \A u \in Session : \A q : Fits(u, q)' <=> Fits(u, q')
    BY DEF Fits
  <1>6. GateLimits'
    BY <1>1 DEF GateFits, GateLimits
  <1>7. GateFits'
    BY <1>4, <1>6 DEF GateFits, Fits
  <1> QED
    BY <1>2, <1>7, GateInvNext

(* A write of the stamp, when no session holds its row.                    *)
LEMMA StampMoves ==
  ASSUME GateInv, NEW st \in Stamp, mark' = [stamp |-> st, dml |-> mark.dml + 1],
         mark.dml <= MaxDml, mark.dml = MaxDml => st = "pinned",
         tokens' \subseteq Session, gate' \in [Session -> Gate \cup {Outside}],
         \A s \in Session : gate'[s] = gate[s] \/ gate'[s] = Outside,
         ~StampLocked, catalog' \in [shape : Shape, ddl : 0..(MaxDdl + 1)],
         \/ catalog' = catalog
         \/ /\ ~TableLocked /\ catalog'.ddl = catalog.ddl + 1 /\ catalog'.shape # "v1"
  PROVE  GateInv'
  <1>1. GateTypeOK /\ GateFits /\ MaxDdl \in Nat /\ MaxDml \in Nat
    BY GateInvIs, SchemaAssumption DEF GateInv
  <1>2. mark.dml \in Nat /\ catalog.ddl \in Nat
    BY <1>1 DEF GateTypeOK
  <1>3. mark'.dml = mark.dml + 1 /\ mark'.stamp = st /\ mark' \in [stamp : Stamp, dml : 0..(MaxDml + 1)]
    BY <1>1, <1>2
  <1>4. GateTypeOK'
    BY <1>3 DEF GateTypeOK
  <1>5. GateLimits'
    BY <1>1, <1>2, <1>3 DEF GateFits, GateLimits
  <1>6. ASSUME NEW s \in Session, gate'[s] # Outside
        PROVE  Fits(s, gate[s])' /\ gate'[s] = gate[s]
    <2>1. gate'[s] = gate[s] /\ gate[s] \in Gate /\ Fits(s, gate[s])
      BY <1>1, <1>6 DEF GateFits, GateTypeOK
    <2>2. PICK r \in Gate : r = gate[s]
      BY <2>1
    <2>3. /\ r.ddl \in Nat /\ r.dml \in Nat /\ r.locked \in Nat
          /\ r.pc \in {"entered", "locked", "attested", "held", "mutated"}
      BY GateFields
    <2>4. r.pc \notin {"held", "mutated"}
      BY <2>1, <2>2 DEF StampLocked, RowShared, Fits
    <2>5. TableLocked \/ r.pc = "entered" \/ ~(r.locked > 0)
      BY <2>2, <2>3 DEF TableLocked, Past
    <2> QED
      BY <1>2, <1>3, <2>1, <2>2, <2>3, <2>4, <2>5 DEF Fits
  <1>7. GateFits'
    BY <1>5, <1>6 DEF GateFits
  <1> QED
    BY <1>4, <1>7, GateInvNext

LEMMA GateInvStep == GateInv /\ [GateNext]_gateVars => GateInv'
  <1> SUFFICES ASSUME GateInv, [GateNext]_gateVars PROVE GateInv'
    OBVIOUS
  <1>0. /\ GateTypeOK /\ GateFits /\ MaxDdl \in Nat /\ MaxDml \in Nat
        /\ catalog.ddl \in Nat /\ mark.dml \in Nat /\ catalog.shape \in Shape /\ mark.stamp \in Stamp
        /\ catalog.ddl <= MaxDdl + 1 /\ mark.dml <= MaxDml + 1 /\ tokens \subseteq Session
    BY GateInvIs, SchemaAssumption DEF GateInv, GateTypeOK
  <1>a. ASSUME NEW s \in Session, gate[s] # Outside
        PROVE  gate[s] \in Gate /\ Fits(s, gate[s])
    BY <1>0, <1>a DEF GateTypeOK, GateFits
  <1>b. \A s \in Session : \A pc : At(s, pc) /\ pc # "out" => gate[s] # Outside
    BY DEF At, Outside
  <1>1. ASSUME NEW s \in Session, enterCriticalTx(s) PROVE GateInv'
    <2> DEFINE r == [pc |-> "entered", shape |-> catalog.shape, ddl |-> catalog.ddl,
                     stamp |-> mark.stamp, dml |-> mark.dml, locked |-> 0, share |-> FALSE]
    <2>1. r \in Gate
      BY <1>0 DEF Gate
    <2>2. Fits(s, r)
      BY <1>0 DEF Fits, GateFits, GateLimits
    <2> QED
      BY <1>0, <1>1, <2>1, <2>2, SessionMoves DEF enterCriticalTx
  <1>2. ASSUME NEW s \in Session, lockGoverned(s) PROVE GateInv'
    <2>1. gate[s] \in Gate /\ Fits(s, gate[s]) /\ gate[s].pc = "entered"
      BY <1>a, <1>b, <1>2 DEF lockGoverned, At
    <2>2. PICK q \in Gate : q = [gate[s] EXCEPT !.pc = "locked"]
      BY <2>1 DEF Gate
    <2>3. /\ q.shape = gate[s].shape /\ q.ddl = gate[s].ddl /\ q.stamp = gate[s].stamp
          /\ q.dml = gate[s].dml /\ q.pc = "locked"
      BY <2>1, <2>2 DEF Gate
    <2>4. PICK r \in Gate : r = [q EXCEPT !.locked = catalog.ddl + 1]
      <3>1. catalog.ddl + 1 \in Nat
        BY <1>0
      <3> QED
        BY <3>1 DEF Gate
    <2>5. /\ r.shape = gate[s].shape /\ r.ddl = gate[s].ddl /\ r.stamp = gate[s].stamp
          /\ r.dml = gate[s].dml /\ r.pc = "locked" /\ r.locked = catalog.ddl + 1
      BY <2>3, <2>4 DEF Gate
    <2>6. Fits(s, r)
      BY <1>0, <2>1, <2>5 DEF Fits
    <2>7. gate' = [gate EXCEPT ![s] = r]
      BY <1>2, <2>2, <2>4 DEF lockGoverned
    <2> QED
      BY <1>0, <1>2, <2>6, <2>7, SessionMoves DEF lockGoverned
  <1>3. ASSUME NEW s \in Session, attestControlSchema(s) \/ mutate(s) PROVE GateInv'
    <2>1. PICK pc \in {"attested", "mutated"} :
            /\ pc = "attested" => gate[s].pc = "locked" /\ gate[s].shape = "pinned"
            /\ pc = "mutated" => gate[s].pc = "held"
            /\ gate' = [gate EXCEPT ![s].pc = pc] /\ UNCHANGED <<catalog, mark, tokens>>
      BY <1>3 DEF attestControlSchema, mutate, At
    <2>2. gate[s] \in Gate /\ Fits(s, gate[s])
      BY <1>a, <2>1 DEF Outside
    <2>3. PICK r \in Gate : r = [gate[s] EXCEPT !.pc = pc]
      BY <2>2 DEF Gate
    <2>4. /\ r.shape = gate[s].shape /\ r.ddl = gate[s].ddl /\ r.stamp = gate[s].stamp
          /\ r.dml = gate[s].dml /\ r.pc = pc /\ r.locked = gate[s].locked /\ r.share = gate[s].share
      BY <2>2, <2>3 DEF Gate
    <2>5. Fits(s, r)
      BY <2>1, <2>2, <2>4 DEF Fits
    <2> QED
      BY <1>0, <2>1, <2>3, <2>5, SessionMoves
  <1>4. ASSUME NEW s \in Session, revalidateAuthorityRow(s) PROVE GateInv'
    <2>1. /\ gate[s].pc = "attested" \/ (gate[s].pc = "entered" /\ s \notin Attesting)
          /\ gate[s].stamp = "pinned" /\ gate[s].dml = mark.dml
          /\ gate' = [gate EXCEPT ![s].pc = "held", ![s].share = TRUE]
          /\ UNCHANGED <<catalog, mark, tokens>>
      BY <1>4 DEF revalidateAuthorityRow, Attested, At
    <2>2. gate[s] \in Gate /\ Fits(s, gate[s])
      BY <1>a, <2>1 DEF Outside
    <2>3. PICK q \in Gate : q = [gate[s] EXCEPT !.pc = "held"]
      BY <2>2 DEF Gate
    <2>4. /\ q.shape = gate[s].shape /\ q.ddl = gate[s].ddl /\ q.stamp = gate[s].stamp
          /\ q.dml = gate[s].dml /\ q.pc = "held" /\ q.locked = gate[s].locked
      BY <2>2, <2>3 DEF Gate
    <2>5. PICK r \in Gate : r = [q EXCEPT !.share = TRUE]
      BY DEF Gate
    <2>6. /\ r.shape = gate[s].shape /\ r.ddl = gate[s].ddl /\ r.stamp = gate[s].stamp
          /\ r.dml = gate[s].dml /\ r.pc = "held" /\ r.locked = gate[s].locked /\ r.share = TRUE
      BY <2>4, <2>5 DEF Gate
    <2>7. Fits(s, r)
      BY <1>0, <2>1, <2>2, <2>6, GateFields DEF Fits
    <2>8. gate' = [gate EXCEPT ![s] = r]
      BY <2>1, <2>3, <2>5
    <2> QED
      BY <1>0, <2>1, <2>7, <2>8, SessionMoves
  <1>5. ASSUME NEW s \in Session, leaveCriticalTx(s) \/ assertControlSchemaReady(s) PROVE GateInv'
    BY <1>0, <1>5, SessionMoves DEF leaveCriticalTx, assertControlSchemaReady
  <1>6. ASSUME NEW s \in Session, provisionControlSchema(s) PROVE GateInv'
    <2>1. gate[s] \in Gate /\ Fits(s, gate[s])
      BY <1>a, <1>b, <1>6 DEF provisionControlSchema
    <2>2. /\ gate[s].stamp = "none" /\ mark.dml = gate[s].dml
          /\ mark' = [stamp |-> "pinned", dml |-> mark.dml + 1]
          /\ gate' = [gate EXCEPT ![s] = Outside] /\ tokens' = tokens \cup {s} /\ catalog' = catalog
      BY <1>6 DEF provisionControlSchema
    <2>3. mark.stamp = "none" /\ mark.dml <= MaxDml
      BY <1>0, <2>1, <2>2 DEF Fits, GateFits, GateLimits
    <2>4. ~StampLocked
      <3> SUFFICES ASSUME NEW u \in Session, RowShared(u) PROVE FALSE
        BY DEF StampLocked
      <3>1. gate[u].pc \in {"held", "mutated"} /\ gate[u] # Outside
        BY DEF RowShared, Outside
      <3> QED
        BY <1>a, <2>3, <3>1 DEF Fits
    <2>5. /\ gate' \in [Session -> Gate \cup {Outside}]
          /\ \A u \in Session : gate'[u] = gate[u] \/ gate'[u] = Outside
      BY <1>0, <2>2 DEF GateTypeOK
    <2>6. /\ "pinned" \in Stamp /\ tokens' \subseteq Session
          /\ catalog' \in [shape : Shape, ddl : 0..(MaxDdl + 1)]
      BY <1>0, <2>2 DEF Stamp, GateTypeOK
    <2> QED
      BY <2>2, <2>3, <2>4, <2>5, <2>6, StampMoves
  <1>7. ASSUME NEW s \in Session, migrateControlSchemaV1ToV2(s) PROVE GateInv'
    <2>1. gate[s] \in Gate /\ Fits(s, gate[s])
      BY <1>a, <1>b, <1>7 DEF migrateControlSchemaV1ToV2
    <2>2. /\ ~TableLocked /\ ~StampLocked
          /\ gate[s].stamp = "v1" /\ gate[s].dml = mark.dml /\ gate[s].shape = "v1"
          /\ mark' = [stamp |-> "pinned", dml |-> mark.dml + 1]
          /\ catalog' = [shape |-> IF catalog.shape = "v1" THEN "pinned" ELSE catalog.shape,
                         ddl |-> catalog.ddl + 1]
          /\ gate' = [gate EXCEPT ![s] = Outside] /\ tokens' = tokens
      BY <1>7 DEF migrateControlSchemaV1ToV2
    <2>3. mark.dml <= MaxDml /\ catalog.ddl <= MaxDdl
      BY <1>0, <2>1, <2>2 DEF Fits, GateFits, GateLimits
    <2>4. /\ catalog' \in [shape : Shape, ddl : 0..(MaxDdl + 1)]
          /\ catalog'.ddl = catalog.ddl + 1 /\ catalog'.shape # "v1"
      BY <1>0, <2>2, <2>3 DEF Shape
    <2>5. /\ gate' \in [Session -> Gate \cup {Outside}]
          /\ \A u \in Session : gate'[u] = gate[u] \/ gate'[u] = Outside
      BY <1>0, <2>2 DEF GateTypeOK
    <2>6. "pinned" \in Stamp
      BY DEF Stamp
    <2> QED
      BY <1>0, <2>2, <2>3, <2>4, <2>5, <2>6, StampMoves
  <1>8. CASE ForeignDdl
    <2>1. PICK sh \in Shape : catalog' = [shape |-> sh, ddl |-> catalog.ddl + 1]
      BY <1>8 DEF ForeignDdl
    <2>2. catalog.ddl < MaxDdl /\ ~TableLocked /\ UNCHANGED <<mark, gate, tokens>>
      BY <1>8 DEF ForeignDdl
    <2>3. /\ catalog' \in [shape : Shape, ddl : 0..(MaxDdl + 1)] /\ catalog'.ddl = catalog.ddl + 1
          /\ catalog'.ddl # MaxDdl + 1
      BY <1>0, <2>1, <2>2
    <2>4. GateTypeOK'
      BY <1>0, <2>2, <2>3 DEF GateTypeOK
    <2>5. ASSUME NEW s \in Session, gate[s] # Outside PROVE Fits(s, gate[s])'
      <3>1. PICK r \in Gate : r = gate[s] /\ Fits(s, r)
        BY <1>a, <2>5
      <3>2. /\ r.ddl \in Nat /\ r.dml \in Nat /\ r.locked \in Nat
            /\ r.pc \in {"entered", "locked", "attested", "held", "mutated"}
        BY GateFields
      <3>3. r.pc = "entered" \/ ~(r.locked > 0)
        BY <2>2, <3>1, <3>2 DEF TableLocked, Past
      <3> QED
        BY <1>0, <2>2, <2>3, <3>1, <3>2, <3>3 DEF Fits
    <2>6. GateFits'
      BY <1>0, <2>2, <2>3, <2>5 DEF GateFits, GateLimits
    <2> QED
      BY <2>4, <2>6, GateInvNext
  <1>9. CASE ForeignDml
    <2>1. PICK st \in Stamp : mark' = [stamp |-> st, dml |-> mark.dml + 1]
      BY <1>9 DEF ForeignDml
    <2> QED
      BY <1>0, <1>9, <2>1, StampMoves DEF ForeignDml, GateTypeOK
  <1>10. CASE UNCHANGED gateVars
    BY <1>10 DEF gateVars, GateInv, GateTypeOK, SnapshotInv, LockInv, BoundsInv, At, Past
  <1> QED
    BY <1>1, <1>2, <1>3, <1>4, <1>5, <1>6, <1>7, <1>8, <1>9, <1>10 DEF GateNext

(* A critical transaction mutates only over the pinned stamp, and where it *)
(* attests over the catalog it attested, whatever DDL and stamps others    *)
(* write between its steps (criticalTx).                                   *)
THEOREM GateSoundHolds == GateSpec => []GateSound
  <1>1. GateInv => GateSound
    <2> SUFFICES ASSUME GateInv PROVE StampStands /\ DriftStopsNextOp
      BY DEF GateSound, GateInv
    <2>1. GateTypeOK /\ GateFits
      BY GateInvIs DEF GateInv
    <2>2. ASSUME NEW s \in Session, At(s, "mutated") PROVE Fits(s, gate[s]) /\ gate[s].pc = "mutated"
      BY <2>1, <2>2 DEF GateFits, At, Outside
    <2>3. StampStands
      BY <2>2 DEF StampStands, Fits
    <2>4. DriftStopsNextOp
      BY <2>2, SchemaAssumption DEF DriftStopsNextOp, Fits
    <2> QED
      BY <2>3, <2>4
  <1> QED
    BY <1>1, GateInitOK, GateInvStep, PTL DEF GateSpec

-----------------------------------------------------------------------------
(***************************************************************************)
(* OutboxScope: a committed scope left no query behind.                    *)
(***************************************************************************)

LEMMA ScopeInitOK == ScopeInit => ScopeInv
  BY ScopeAssumption DEF ScopeInit, ScopeInv, ScopeSound, CommittedScopeIsClean, StampFollowsTables

(* A query of an open or closing scope changes its state.                  *)
LEMMA QueryMoves ==
  ASSUME ScopeInv, NEW s \in Scope, NEW q \in Query, NEW st \in {"pending", "ok", "failed"},
         query' = [query EXCEPT ![s][q] = st], scope[s] # "committed",
         UNCHANGED <<scope, unawaited, schemaRest>>
  PROVE  ScopeInv'
  <1>1. /\ query' \in [Scope -> [Query -> {"unused", "pending", "ok", "failed"}]]
        /\ \A u \in Scope \ {s} : query'[u] = query[u]
    BY DEF ScopeInv
  <1>2. CommittedScopeIsClean'
    BY <1>1 DEF ScopeInv, ScopeSound, CommittedScopeIsClean
  <1>3. StampFollowsTables'
    BY DEF ScopeInv, ScopeSound, StampFollowsTables, schemaRest
  <1> QED
    BY <1>1, <1>2, <1>3 DEF ScopeInv, ScopeSound, schemaRest

LEMMA ScopeInvStep == ScopeInv /\ [ScopeNext]_scopeVars => ScopeInv'
  <1> SUFFICES ASSUME ScopeInv, [ScopeNext]_scopeVars PROVE ScopeInv'
    OBVIOUS
  <1>1. ASSUME NEW s \in Scope, NEW q \in Query, launch(s, q) PROVE ScopeInv'
    BY <1>1, QueryMoves DEF launch
  <1>2. ASSUME NEW s \in Scope, NEW q \in Query, settle(s, q) PROVE ScopeInv'
    <2>1. query[s][q] = "pending" /\ scope[s] # "committed"
      BY <1>2 DEF settle, Pending, ScopeInv, ScopeSound, CommittedScopeIsClean
    <2> QED
      BY <1>2, <2>1, QueryMoves DEF settle
  <1>3. ASSUME NEW s \in Scope, bodyReturns(s) \/ abortScope(s) PROVE ScopeInv'
    <2>1. PICK st \in {"closing", "rolledBack"} : scope' = [scope EXCEPT ![s] = st]
      BY <1>3 DEF bodyReturns, abortScope
    <2>2. /\ scope[s] \in {"open", "closing"} /\ query' = query /\ UNCHANGED <<meta, tables, ready>>
          /\ unawaited' \subseteq Scope /\ unawaited \subseteq unawaited'
          /\ \A u \in Scope \ {s} : u \in unawaited' <=> u \in unawaited
      BY <1>3 DEF bodyReturns, abortScope, schemaRest, ScopeInv
    <2>3. CommittedScopeIsClean'
      BY <2>1, <2>2 DEF ScopeInv, ScopeSound, CommittedScopeIsClean
    <2> QED
      BY <2>1, <2>2, <2>3 DEF ScopeInv, ScopeSound, StampFollowsTables
  <1>4. ASSUME NEW s \in Scope, closeScope(s) PROVE ScopeInv'
    <2>1. PICK st \in {"rolledBack", "committed"} :
            /\ scope' = [scope EXCEPT ![s] = st]
            /\ st = "committed" => ~RejectionSeen(s) /\ s \notin unawaited
      BY <1>4 DEF closeScope
    <2>2. Pending(s) = {} /\ UNCHANGED <<query, unawaited, meta, tables, ready>>
      BY <1>4 DEF closeScope, schemaRest
    <2>3. st = "committed" => \A q \in Query : query[s][q] \in {"unused", "ok"}
      BY <2>1, <2>2 DEF Pending, RejectionSeen, ScopeInv
    <2>4. CommittedScopeIsClean'
      BY <2>1, <2>2, <2>3 DEF ScopeInv, ScopeSound, CommittedScopeIsClean
    <2> QED
      BY <2>1, <2>2, <2>4 DEF ScopeInv, ScopeSound, StampFollowsTables
  <1>5. ASSUME NEW v \in 1..MaxRelease,
               migrate(v) \/ provisionSchemaVersion(v) \/ adoptCurrentSchemaVersion(v)
                 \/ assertSchemaReady(v)
        PROVE  ScopeInv'
    <2>1. /\ UNCHANGED <<scope, query, unawaited>>
          /\ \/ v > tables /\ tables' = v /\ UNCHANGED <<meta, ready>>
             \/ tables = v /\ meta <= v /\ meta' = v /\ ready' = ready \cup {v} /\ tables' = tables
      BY <1>5, ScopeAssumption
         DEF migrate, provisionSchemaVersion, adoptCurrentSchemaVersion, assertSchemaReady, bodyRest,
             ScopeInv
    <2>2. /\ meta \in 0..MaxRelease /\ tables \in 0..MaxRelease /\ ready \subseteq 1..MaxRelease
          /\ meta <= tables /\ \A w \in ready : w <= meta /\ w \in Nat
          /\ meta \in Nat /\ tables \in Nat /\ v \in Nat /\ v \in 0..MaxRelease
      BY ScopeAssumption DEF ScopeInv, ScopeSound, StampFollowsTables
    <2>3. meta' <= tables'
      BY <2>1, <2>2
    <2>4. ASSUME NEW w \in ready' PROVE w <= meta'
      <3>1. (w = v /\ meta' = v) \/ w \in ready
        BY <2>1
      <3>2. meta <= meta' /\ meta' \in Nat
        BY <2>1, <2>2
      <3>3. CASE w = v /\ meta' = v
        BY <2>2, <3>3
      <3>4. CASE w \in ready
        <4>1. w <= meta /\ w \in Nat /\ meta \in Nat
          BY <2>2, <3>4
        <4> QED
          BY <3>2, <4>1
      <3> QED
        BY <3>1, <3>3, <3>4
    <2>5. /\ tables' \in 0..MaxRelease /\ meta' \in 0..MaxRelease
          /\ ready' \subseteq 1..MaxRelease
      BY <2>1, <2>2
    <2> QED
      BY <2>1, <2>3, <2>4, <2>5 DEF ScopeInv, ScopeSound, CommittedScopeIsClean, StampFollowsTables
  <1>6. CASE UNCHANGED scopeVars
    BY <1>6 DEF scopeVars, ScopeInv, ScopeSound, CommittedScopeIsClean, StampFollowsTables
  <1> QED
    BY <1>1, <1>2, <1>3, <1>4, <1>5, <1>6 DEF ScopeNext

(* A bound transaction commits only if every query it launched succeeded   *)
(* and was awaited, and the schema stamp never runs ahead of the tables    *)
(* (withBoundTx, provisionSchemaVersion, adoptCurrentSchemaVersion).       *)
THEOREM ScopeSoundHolds == ScopeSpec => []ScopeSound
  <1>1. ScopeInv => ScopeSound
    BY DEF ScopeInv
  <1> QED
    BY <1>1, ScopeInitOK, ScopeInvStep, PTL DEF ScopeSpec

-----------------------------------------------------------------------------
(***************************************************************************)
(* PrincipalSession: the chain of checkpoints verifies after every call, and *)
(* the log binds every active session.                                     *)
(***************************************************************************)

(* What Before, Journal and OneEvent say of a checkpoint stays so when the *)
(* chain grows.                                                            *)
LEMMA ChainGrows ==
  ASSUME NEW chain \in Seq(StreamHeads), NEW h \in StreamHeads, NEW k \in 1..Len(chain)
  PROVE  /\ Before(Append(chain, h), k) = Before(chain, k)
         /\ Journal(Append(chain, h), k) = Journal(chain, k)
         /\ OneEvent(Append(chain, h), k) <=> OneEvent(chain, k)
  <1> DEFINE c == Append(chain, h)
  <1>1. \A i \in 1..Len(chain) : c[i] = chain[i]
    OBVIOUS
  <1>2. k = 1 \/ k - 1 \in 1..Len(chain)
    OBVIOUS
  <1>3. c[k] = chain[k] /\ Before(c, k) = Before(chain, k)
    BY <1>1, <1>2 DEF Before
  <1> HIDE DEF c
  <1>4. Journal(c, k) = Journal(chain, k)
    BY <1>3 DEF Journal
  <1>5. OneEvent(c, k) <=> OneEvent(chain, k)
    BY <1>3 DEF OneEvent
  <1> QED
    BY <1>3, <1>4, <1>5 DEF c

(* A chain that ends in the heads of the streams, extended by the heads    *)
(* with one more event: the new checkpoint reads that event.               *)
LEMMA ChainExtended ==
  ASSUME NEW chain \in Seq(StreamHeads), NEW a \in Agent, NEW ev \in SessionEvent,
         NEW h \in StreamHeads, h = Before(chain, Len(chain) + 1),
         NEW g, g = appendEventToStream(h, a, ev)
  PROVE  /\ g \in StreamHeads /\ Append(chain, g) \in Seq(StreamHeads)
         /\ Len(Append(chain, g)) = Len(chain) + 1
         /\ Before(Append(chain, g), Len(chain) + 2) = g
         /\ OneEvent(Append(chain, g), Len(chain) + 1)
         /\ Journal(Append(chain, g), Len(chain) + 1) = ev
  <1> DEFINE n == Len(chain)
             c == Append(chain, g)
  <1>1. n \in Nat /\ h[a] \in Seq(SessionEvent)
    BY DEF StreamHeads
  <1>2. /\ g \in StreamHeads /\ g[a] = Append(h[a], ev)
        /\ \A b \in Agent \ {a} : g[b] = h[b]
    BY <1>1 DEF StreamHeads, appendEventToStream
  <1>3. /\ c \in Seq(StreamHeads) /\ Len(c) = n + 1 /\ c[n + 1] = g
        /\ \A i \in 1..n : c[i] = chain[i]
    BY <1>1, <1>2
  <1>4. Before(c, n + 2) = g /\ Before(c, n + 1) = h
    <2>1. n + 2 # 1 /\ (n + 2) - 1 = n + 1 /\ (n + 1) - 1 = n
      BY <1>1
    <2>2. CASE n = 0
      BY <1>3, <2>1, <2>2 DEF Before
    <2>3. CASE n # 0
      <3>1. n + 1 # 1 /\ n \in 1..n
        BY <1>1, <2>3
      <3> QED
        BY <1>3, <2>1, <3>1 DEF Before
    <2> QED
      BY <2>2, <2>3
  <1> HIDE DEF c, n
  <1>5. Journal(c, n + 1) = ev
    <2>1. PICK s \in Seq(SessionEvent) : s = h[a]
      BY <1>1
    <2>2. /\ Before(c, n + 1)[a] = s /\ c[n + 1][a] = Append(s, ev)
          /\ \A b \in Agent \ {a} : c[n + 1][b] = Before(c, n + 1)[b]
      BY <1>2, <1>3, <1>4, <2>1
    <2>3. /\ Append(s, ev) # s /\ Append(s, ev)[Len(Append(s, ev))] = ev
      <3>1. Len(s) \in Nat /\ Len(Append(s, ev)) = Len(s) + 1 /\ Append(s, ev)[Len(s) + 1] = ev
        OBVIOUS
      <3>2. Len(s) + 1 # Len(s)
        BY <3>1
      <3> QED
        BY <3>1, <3>2
    <2>4. \A b \in Agent : c[n + 1][b] # Before(c, n + 1)[b] <=> b = a
      BY <2>2, <2>3
    <2>5. (CHOOSE b \in Agent : c[n + 1][b] # Before(c, n + 1)[b]) = a
      BY <2>4
    <2> QED
      BY <2>2, <2>3, <2>5 DEF Journal
  <1>6. OneEvent(c, n + 1)
    <2>1. PICK s \in Seq(SessionEvent) : s = h[a]
      BY <1>1
    <2>a. Append(s, ev) \in Seq(SessionEvent)
      BY AppendProperties
    <2>2. PICK t \in Seq(SessionEvent) : t = Append(s, ev)
      BY <2>a
    <2>3. t # <<>> /\ Len(t) = Len(s) + 1 /\ Len(s) \in Nat
      BY <2>2
    <2>4. SubSeq(t, 1, Len(t) - 1) = s
      <3>1. Len(t) - 1 = Len(s)
        BY <2>3
      <3>2. SubSeq(t, 1, Len(s)) = s
        BY <2>2
      <3> QED
        BY <3>1, <3>2
    <2>5. c[n + 1][a] = t /\ Before(c, n + 1)[a] = s
      BY <1>2, <1>3, <1>4, <2>1, <2>2
    <2>6. \A b \in Agent \ {a} : c[n + 1][b] = Before(c, n + 1)[b]
      BY <1>2, <1>3, <1>4
    <2> QED
      BY <2>3, <2>4, <2>5, <2>6 DEF OneEvent
  <1> QED
    BY <1>2, <1>3, <1>4, <1>5, <1>6 DEF c, n

(* A bound session stays bound while the log grows, unless it is closed.   *)
LEMMA StaysBound ==
  ASSUME NEW chain \in Seq(StreamHeads), NEW g \in StreamHeads, NEW id \in ProviderId,
         Bound(chain, id),
         Journal(Append(chain, g), Len(chain) + 1) # [kind |-> "closed", id |-> id]
  PROVE  Bound(Append(chain, g), id)
  <1> DEFINE c == Append(chain, g)
  <1>1. PICK k \in 1..Len(chain) :
          /\ Journal(chain, k) = [kind |-> "bound", id |-> id]
          /\ \A j \in 1..Len(chain) : j > k => Journal(chain, j) # [kind |-> "closed", id |-> id]
    BY DEF Bound
  <1>2. \A j \in 1..Len(chain) : Journal(c, j) = Journal(chain, j)
    BY ChainGrows
  <1>3. DOMAIN c = 1..(Len(chain) + 1) /\ Len(chain) \in Nat
    OBVIOUS
  <1> HIDE DEF c
  <1>4. k \in DOMAIN c /\ Journal(c, k) = [kind |-> "bound", id |-> id]
    BY <1>1, <1>2, <1>3
  <1>5. \A j \in DOMAIN c : j > k => Journal(c, j) # [kind |-> "closed", id |-> id]
    <2> TAKE j \in DOMAIN c
    <2>1. CASE j = Len(chain) + 1
      BY <2>1 DEF c
    <2>2. CASE j # Len(chain) + 1
      <3>1. j \in 1..Len(chain)
        BY <1>3, <2>2
      <3> QED
        BY <1>1, <1>2, <3>1
    <2> QED
      BY <2>1, <2>2
  <1> QED
    BY <1>4, <1>5 DEF Bound, c

LEMMA BoundNow ==
  ASSUME NEW chain \in Seq(StreamHeads), NEW g \in StreamHeads, NEW id \in ProviderId,
         Journal(Append(chain, g), Len(chain) + 1) = [kind |-> "bound", id |-> id]
  PROVE  Bound(Append(chain, g), id)
  <1>1. /\ DOMAIN Append(chain, g) = 1..(Len(chain) + 1) /\ Len(chain) + 1 \in 1..(Len(chain) + 1)
        /\ \A j \in 1..(Len(chain) + 1) : ~ (j > Len(chain) + 1)
    OBVIOUS
  <1> QED
    BY <1>1 DEF Bound

(* One append: everything but the sessions that stay active.               *)
LEMMA AppendKeepsChains ==
  ASSUME LedgerInv, NEW p \in Principal, NEW a \in Agent, NEW ev \in SessionEvent,
         appendEventAndCheckpoint(p, a, ev)
  PROVE  /\ heads' \in [Principal -> StreamHeads] /\ events' \in [Principal -> StreamHeads]
         /\ checkpoints' \in [Principal -> Seq(StreamHeads)]
         /\ \A q \in Principal :
              /\ heads'[q] = events'[q]
              /\ heads'[q] = Before(checkpoints'[q], Len(checkpoints'[q]) + 1)
              /\ \A k \in DOMAIN checkpoints'[q] : OneEvent(checkpoints'[q], k)
         /\ \A q \in Principal \ {p} : checkpoints'[q] = checkpoints[q]
         /\ checkpoints'[p] # <<>>
         /\ \E g \in StreamHeads :
              /\ checkpoints'[p] = Append(checkpoints[p], g)
              /\ Journal(checkpoints'[p], Len(checkpoints[p]) + 1) = ev
  <1>0. PrincipalTypeOK /\ ChainsInv
    BY DEF LedgerInv
  <1>1. PICK h \in StreamHeads :
          /\ h = heads[p] /\ h = events[p]
          /\ h = Before(checkpoints[p], Len(checkpoints[p]) + 1)
    BY <1>0 DEF PrincipalTypeOK, ChainsInv
  <1>2. PICK chain \in Seq(StreamHeads) : chain = checkpoints[p]
    BY <1>0 DEF PrincipalTypeOK
  <1>3. PICK g : g = appendEventToStream(h, a, ev)
    OBVIOUS
  <1>4. /\ g \in StreamHeads /\ Append(chain, g) \in Seq(StreamHeads)
        /\ Len(Append(chain, g)) = Len(chain) + 1
        /\ Before(Append(chain, g), Len(chain) + 2) = g
        /\ OneEvent(Append(chain, g), Len(chain) + 1)
        /\ Journal(Append(chain, g), Len(chain) + 1) = ev
    BY <1>1, <1>2, <1>3, ChainExtended
  <1>5. /\ heads' = [heads EXCEPT ![p] = g] /\ events' = [events EXCEPT ![p] = g]
    BY <1>0, <1>1, <1>3 DEF appendEventAndCheckpoint, PrincipalTypeOK
  <1>6. heads'[p] = g /\ events'[p] = g /\ \A q \in Principal \ {p} : heads'[q] = heads[q] /\ events'[q] = events[q]
    BY <1>0, <1>5 DEF PrincipalTypeOK
  <1>7. checkpoints' = [checkpoints EXCEPT ![p] = Append(chain, g)]
    BY <1>2, <1>6 DEF appendEventAndCheckpoint
  <1>8. checkpoints'[p] = Append(chain, g) /\ \A q \in Principal \ {p} : checkpoints'[q] = checkpoints[q]
    BY <1>0, <1>7 DEF PrincipalTypeOK
  <1>9. /\ heads' \in [Principal -> StreamHeads] /\ events' \in [Principal -> StreamHeads]
        /\ checkpoints' \in [Principal -> Seq(StreamHeads)]
    BY <1>0, <1>4, <1>5, <1>7 DEF PrincipalTypeOK
  <1>10. \A k \in DOMAIN Append(chain, g) : OneEvent(Append(chain, g), k)
    <2> TAKE k \in DOMAIN Append(chain, g)
    <2>1. k = Len(chain) + 1 \/ k \in 1..Len(chain)
      BY <1>4
    <2>2. ASSUME k \in 1..Len(chain) PROVE OneEvent(Append(chain, g), k)
      <3>1. OneEvent(chain, k)
        <4>1. k \in DOMAIN checkpoints[p]
          BY <1>2, <2>2
        <4> QED
          BY <1>0, <1>2, <4>1, Zenon DEF ChainsInv
      <3> QED
        BY <1>4, <2>2, <3>1, ChainGrows
    <2> QED
      BY <1>4, <2>1, <2>2
  <1>11. ASSUME NEW q \in Principal
         PROVE  /\ heads'[q] = events'[q]
                /\ heads'[q] = Before(checkpoints'[q], Len(checkpoints'[q]) + 1)
                /\ \A k \in DOMAIN checkpoints'[q] : OneEvent(checkpoints'[q], k)
    <2>1. CASE q = p
      <3>1. Len(checkpoints'[p]) + 1 = Len(chain) + 2
        BY <1>4, <1>8
      <3>2. Before(checkpoints'[p], Len(checkpoints'[p]) + 1) = g
        BY <1>4, <1>8, <3>1
      <3>3. \A k \in DOMAIN checkpoints'[p] : OneEvent(checkpoints'[p], k)
        BY <1>8, <1>10
      <3> QED
        BY <1>6, <2>1, <3>2, <3>3
    <2>2. CASE q # p
      BY <1>0, <1>6, <1>8, <2>2 DEF ChainsInv
    <2> QED
      BY <2>1, <2>2
  <1>12. Append(chain, g) # <<>>
    <2>1. Len(chain) + 1 # 0
      OBVIOUS
    <2> QED
      BY <1>4, <2>1, EmptySeq
  <1> QED
    BY <1>2, <1>4, <1>8, <1>9, <1>11, <1>12

LEMMA LedgerInvStep == LedgerInv /\ [PrincipalNext]_principalVars => LedgerInv'
  <1> SUFFICES ASSUME LedgerInv, [PrincipalNext]_principalVars PROVE LedgerInv'
    OBVIOUS
  <1>0. PrincipalTypeOK /\ ChainsInv /\ ActiveIsLogged
    BY DEF LedgerInv
  <1>1. ASSUME NEW p \in Principal, NEW a \in Agent, NEW id \in ProviderId, NEW ev \in SessionEvent,
               appendEventAndCheckpoint(p, a, ev),
               principals' = principals \cup {p},
               live' \in [Principal -> SUBSET ProviderId],
               \A q \in Principal \ {p} : live'[q] = live[q],
               \A i \in live'[p] : \/ i \in live[p] /\ ev # [kind |-> "closed", id |-> i]
                                   \/ ev = [kind |-> "bound", id |-> i]
        PROVE  LedgerInv'
    <2>1. PICK g \in StreamHeads :
            /\ checkpoints'[p] = Append(checkpoints[p], g)
            /\ Journal(checkpoints'[p], Len(checkpoints[p]) + 1) = ev
      BY <1>1, AppendKeepsChains
    <2>2. /\ heads' \in [Principal -> StreamHeads] /\ events' \in [Principal -> StreamHeads]
          /\ checkpoints' \in [Principal -> Seq(StreamHeads)]
          /\ \A q \in Principal :
               /\ heads'[q] = events'[q]
               /\ heads'[q] = Before(checkpoints'[q], Len(checkpoints'[q]) + 1)
               /\ \A k \in DOMAIN checkpoints'[q] : OneEvent(checkpoints'[q], k)
          /\ \A q \in Principal \ {p} : checkpoints'[q] = checkpoints[q]
          /\ checkpoints'[p] # <<>>
      BY <1>1, AppendKeepsChains
    <2>3. PrincipalTypeOK'
      BY <1>0, <1>1, <2>2 DEF PrincipalTypeOK
    <2>4. \A q \in Principal : q \in principals' <=> checkpoints'[q] # <<>>
      BY <1>0, <1>1, <2>2 DEF ChainsInv
    <2>5. ChainsInv'
      BY <2>2, <2>4 DEF ChainsInv
    <2>6. ActiveIsLogged'
      <3> SUFFICES ASSUME NEW q \in Principal, NEW i \in live'[q] PROVE Bound(checkpoints'[q], i)
        BY DEF ActiveIsLogged
      <3>1. CASE q # p
        BY <1>0, <1>1, <2>2, <3>1 DEF ActiveIsLogged
      <3>2. CASE q = p
        <4>1. i \in ProviderId /\ checkpoints[p] \in Seq(StreamHeads)
          BY <1>0, <1>1 DEF PrincipalTypeOK
        <4>2. CASE i \in live[p] /\ ev # [kind |-> "closed", id |-> i]
          <5>1. Bound(checkpoints[p], i)
            BY <1>0, <4>2 DEF ActiveIsLogged
          <5> QED
            BY <2>1, <3>2, <4>1, <4>2, <5>1, StaysBound
        <4>3. CASE ev = [kind |-> "bound", id |-> i]
          BY <2>1, <3>2, <4>1, <4>3, BoundNow
        <4> QED
          BY <1>1, <3>2, <4>2, <4>3
      <3> QED
        BY <3>1, <3>2
    <2> QED
      BY <2>3, <2>5, <2>6 DEF LedgerInv
  <1>2. ASSUME NEW p \in Principal, NEW a \in Agent, NEW id \in ProviderId, bindSession(p, a, id)
        PROVE  LedgerInv'
    <2>1. [kind |-> "bound", id |-> id] \in SessionEvent
      BY DEF SessionEvent
    <2>2. /\ appendEventAndCheckpoint(p, a, [kind |-> "bound", id |-> id])
          /\ principals' = principals \cup {p}
          /\ live' = [live EXCEPT ![p] = live[p] \cup {id}]
      BY <1>2 DEF bindSession, upsertPrincipal
    <2>3. /\ live' \in [Principal -> SUBSET ProviderId]
          /\ \A q \in Principal \ {p} : live'[q] = live[q]
          /\ live'[p] = live[p] \cup {id}
      BY <1>0, <2>2 DEF PrincipalTypeOK
    <2>4. \A i : [kind |-> "bound", id |-> id] # [kind |-> "closed", id |-> i]
      OBVIOUS
    <2> QED
      BY <1>1, <2>1, <2>2, <2>3, <2>4
  <1>3. ASSUME NEW p \in Principal, NEW a \in Agent, NEW id \in ProviderId, appendStreamEvent(p, a, id)
        PROVE  LedgerInv'
    <2>1. [kind |-> "event", id |-> id] \in SessionEvent
      BY DEF SessionEvent
    <2>2. /\ appendEventAndCheckpoint(p, a, [kind |-> "event", id |-> id])
          /\ principals' = principals \cup {p} /\ live' = live
      BY <1>3 DEF appendStreamEvent
    <2>3. \A i : [kind |-> "event", id |-> id] # [kind |-> "closed", id |-> i]
      OBVIOUS
    <2>4. live' \in [Principal -> SUBSET ProviderId]
      BY <1>0, <2>2 DEF PrincipalTypeOK
    <2> QED
      BY <1>1, <2>1, <2>2, <2>3, <2>4
  <1>4. ASSUME NEW p \in Principal, NEW a \in Agent, NEW id \in ProviderId, closeSession(p, a, id)
        PROVE  LedgerInv'
    <2>1. [kind |-> "closed", id |-> id] \in SessionEvent
      BY DEF SessionEvent
    <2>2. /\ appendEventAndCheckpoint(p, a, [kind |-> "closed", id |-> id])
          /\ principals' = principals \cup {p}
          /\ live' = [live EXCEPT ![p] = live[p] \ {id}]
      BY <1>4 DEF closeSession
    <2>3. /\ live' \in [Principal -> SUBSET ProviderId]
          /\ \A q \in Principal \ {p} : live'[q] = live[q]
          /\ live'[p] = live[p] \ {id}
      BY <1>0, <2>2 DEF PrincipalTypeOK
    <2>4. \A i : i # id => [kind |-> "closed", id |-> id] # [kind |-> "closed", id |-> i]
      OBVIOUS
    <2> QED
      BY <1>1, <2>1, <2>2, <2>3, <2>4
  <1>5. ASSUME NEW p \in Principal, NEW a \in Agent, NEW id \in ProviderId, closeSessionThrows(p, a, id)
        PROVE  LedgerInv'
    <2>1. /\ live' = [live EXCEPT ![p] = live[p] \ {id}]
          /\ UNCHANGED <<principals, heads, events, checkpoints>>
      BY <1>5 DEF closeSessionThrows
    <2>2. /\ live' \in [Principal -> SUBSET ProviderId]
          /\ \A q \in Principal : live'[q] \subseteq live[q]
      BY <1>0, <2>1 DEF PrincipalTypeOK
    <2> QED
      BY <1>0, <2>1, <2>2 DEF LedgerInv, PrincipalTypeOK, ChainsInv, ActiveIsLogged
  <1>6. CASE UNCHANGED principalVars
    BY <1>0, <1>6 DEF principalVars, LedgerInv, PrincipalTypeOK, ChainsInv, ActiveIsLogged
  <1> QED
    BY <1>2, <1>3, <1>4, <1>5, <1>6 DEF PrincipalNext

(* After any calls of bindSession, appendStreamEvent and closeSession, by  *)
(* any number of principals and agents, verifyPrincipalContinuity answers  *)
(* valid, and the log binds every active session and does not close it.    *)
THEOREM LedgerSoundHolds == PrincipalSpec => []LedgerSound
  <1>1. PrincipalInit => LedgerInv
    <2> SUFFICES ASSUME PrincipalInit PROVE LedgerInv
      OBVIOUS
    <2>1. NoHeads \in StreamHeads
      BY DEF NoHeads, StreamHeads
    <2>2. PrincipalTypeOK /\ ActiveIsLogged
      BY <2>1 DEF PrincipalInit, PrincipalTypeOK, ActiveIsLogged
    <2>3. ChainsInv
      <3> SUFFICES ASSUME NEW p \in Principal
                   PROVE  /\ heads[p] = NoHeads /\ events[p] = NoHeads
                          /\ Before(checkpoints[p], Len(checkpoints[p]) + 1) = NoHeads
                          /\ p \notin principals /\ checkpoints[p] = <<>>
                          /\ DOMAIN checkpoints[p] = {}
        BY DEF ChainsInv
      <3>1. /\ heads[p] = NoHeads /\ events[p] = NoHeads
            /\ p \notin principals /\ checkpoints[p] = <<>>
        BY DEF PrincipalInit
      <3>2. Len(<<>>) + 1 = 1 /\ DOMAIN <<>> = {}
        OBVIOUS
      <3> QED
        BY <3>1, <3>2 DEF Before
    <2> QED
      BY <2>2, <2>3 DEF LedgerInv
  <1>2. LedgerInv => LedgerSound
    <2> SUFFICES ASSUME LedgerInv PROVE ContinuityHolds
      BY DEF LedgerInv, LedgerSound
    <2> SUFFICES ASSUME NEW p \in principals
                 PROVE  /\ checkpoints[p] # <<>>
                        /\ checkpoints[p][Len(checkpoints[p])] = heads[p]
                        /\ heads[p] = events[p]
                        /\ \A k \in DOMAIN checkpoints[p] : OneEvent(checkpoints[p], k)
      BY DEF ContinuityHolds
    <2>1. /\ p \in Principal /\ checkpoints[p] \in Seq(StreamHeads) /\ checkpoints[p] # <<>>
          /\ heads[p] = events[p] /\ heads[p] = Before(checkpoints[p], Len(checkpoints[p]) + 1)
          /\ \A k \in DOMAIN checkpoints[p] : OneEvent(checkpoints[p], k)
      BY DEF LedgerInv, PrincipalTypeOK, ChainsInv
    <2>2. Len(checkpoints[p]) + 1 # 1 /\ (Len(checkpoints[p]) + 1) - 1 = Len(checkpoints[p])
      BY <2>1
    <2> QED
      BY <2>1, <2>2 DEF Before
  <1> QED
    BY <1>1, <1>2, LedgerInvStep, PTL DEF PrincipalSpec

-----------------------------------------------------------------------------
(***************************************************************************)
(* HttpEdge: a request is authorised for the principal it names, and what  *)
(* the admin routes answer is what the provisioner did.                    *)
(***************************************************************************)

LEMMA EdgeInitOK == EdgeInit => EdgeInv
  <1> SUFFICES ASSUME EdgeInit PROVE EdgeInv
    OBVIOUS
  <1>1. EdgeTypeOK
    BY DEF EdgeInit, EdgeTypeOK
  <1>2. RequestInv /\ AdminInv
    BY DEF EdgeInit, RequestInv, AdminInv
  <1>3. EdgeSound
    BY DEF EdgeInit, EdgeSound, ConsumedIsBound, DeniedConsumesNothing, AdminAnswersTruthful
  <1> QED
    BY <1>1, <1>2, <1>3 DEF EdgeInv

(* One request moves on: where to, with which copy of its headers, what it *)
(* is answered and which keys it has consumed.                             *)
RequestState == [pc : {"idle", "bpc", "resolve", "tsk", "done"}, bpc : BOOLEAN, snap : Headers \cup {NoHeaders}]

LEMMA RequestMoves ==
  ASSUME EdgeInv, NEW r \in Request, NEW st \in RequestState,
         NEW code \in {"none", "200", "401", "409", "thrown"}, NEW cs \in SUBSET Holder,
         edge' = [edge EXCEPT ![r] = st], answer' = [answer EXCEPT ![r] = code],
         consumed' = [consumed EXCEPT ![r] = cs], UNCHANGED edgeRest,
         st.pc # "done" => st.snap \in Headers /\ cs = {} /\ code = "none",
         st.pc = "tsk" => <<st.snap.pair, st.snap.client>> \in everBound,
         code = "401" => cs = {},
         \A c \in cs : c = st.snap.client /\ (st.bpc => <<st.snap.pair, c>> \in everBound)
  PROVE  EdgeInv'
  <1>0. EdgeTypeOK /\ RequestInv /\ AdminInv /\ EdgeSound
    BY DEF EdgeInv
  <1>2. /\ edge'[r] = st
        /\ \A u \in Request \ {r} : edge'[u] = edge[u]
        /\ edge' \in [Request -> RequestState]
    BY <1>0 DEF EdgeTypeOK, RequestState
  <1>3. /\ answer'[r] = code /\ consumed'[r] = cs
        /\ \A u \in Request \ {r} : answer'[u] = answer[u] /\ consumed'[u] = consumed[u]
    BY <1>0 DEF EdgeTypeOK
  <1>4. UNCHANGED <<binding, everBound, admin, stored, delivered>>
    BY DEF edgeRest
  <1>5. EdgeTypeOK'
    BY <1>0, <1>2, <1>4 DEF EdgeTypeOK, RequestState
  <1>6. RequestInv'
    BY <1>0, <1>2, <1>3, <1>4 DEF RequestInv
  <1>7. AdminInv'
    BY <1>0, <1>4 DEF AdminInv
  <1>8. ConsumedIsBound'
    <2> SUFFICES ASSUME NEW u \in Request, NEW c \in consumed'[u]
                 PROVE  /\ edge'[u].snap.client = c
                        /\ edge'[u].bpc => <<edge'[u].snap.pair, c>> \in everBound
      BY <1>4 DEF ConsumedIsBound
    <2>1. CASE u = r
      BY <1>2, <1>3, <2>1
    <2>2. CASE u # r
      BY <1>0, <1>2, <1>3, <2>2 DEF EdgeSound, ConsumedIsBound
    <2> QED
      BY <2>1, <2>2
  <1>9. DeniedConsumesNothing' /\ AdminAnswersTruthful'
    BY <1>0, <1>3, <1>4 DEF EdgeSound, DeniedConsumesNothing, AdminAnswersTruthful
  <1> QED
    BY <1>5, <1>6, <1>7, <1>8, <1>9 DEF EdgeInv, EdgeSound

(* A request is answered without having consumed a key.                    *)
LEMMA Refuses ==
  ASSUME EdgeInv, NEW r \in Request, edge[r].pc # "done", NEW code \in {"401", "409"},
         Answered(r, code), consumed' = consumed, UNCHANGED edgeRest
  PROVE  EdgeInv'
  <1>1. edge[r].bpc \in BOOLEAN /\ edge[r].snap \in Headers \cup {NoHeaders} /\ consumed[r] = {}
    BY DEF EdgeInv, EdgeTypeOK, RequestInv
  <1>2. consumed' = [consumed EXCEPT ![r] = {}] /\ {} \in SUBSET Holder
    BY <1>1 DEF EdgeInv, EdgeTypeOK
  <1>3. PICK st \in RequestState :
          st.pc = "done" /\ edge' = [edge EXCEPT ![r] = st]
    <2> DEFINE st == [pc |-> "done", bpc |-> edge[r].bpc, snap |-> edge[r].snap]
    <2>1. st \in RequestState /\ st.pc = "done"
      BY <1>1 DEF RequestState
    <2>2. edge' = [edge EXCEPT ![r] = st]
      BY DEF Answered, EdgeAt
    <2> HIDE DEF st
    <2> QED
      BY <2>1, <2>2
  <1>4. answer' = [answer EXCEPT ![r] = code]
    BY DEF Answered
  <1> QED
    BY <1>2, <1>3, <1>4, RequestMoves

(* A request goes on to the next check, neither answered nor consuming.    *)
LEMMA GoesTo ==
  ASSUME EdgeInv, NEW r \in Request, edge[r].pc # "done", NEW pc \in {"bpc", "resolve", "tsk"},
         NEW v \in BOOLEAN, NEW h \in Headers, EdgeAt(r, pc, v, h), UNCHANGED <<answer, consumed>>,
         UNCHANGED edgeRest, pc = "tsk" => <<h.pair, h.client>> \in everBound
  PROVE  EdgeInv'
  <1>1. consumed[r] = {} /\ answer[r] = "none"
    BY DEF EdgeInv, RequestInv
  <1>2. /\ consumed' = [consumed EXCEPT ![r] = {}] /\ {} \in SUBSET Holder
        /\ answer' = [answer EXCEPT ![r] = "none"]
    BY <1>1 DEF EdgeInv, EdgeTypeOK
  <1> DEFINE st == [pc |-> pc, bpc |-> v, snap |-> h]
  <1>3. st \in RequestState /\ st.pc = pc /\ st.snap = h
    BY DEF RequestState
  <1>4. edge' = [edge EXCEPT ![r] = st]
    BY DEF EdgeAt
  <1> HIDE DEF st
  <1>5. st.pc = "tsk" => <<st.snap.pair, st.snap.client>> \in everBound
    BY <1>3
  <1> QED
    BY <1>2, <1>3, <1>4, <1>5, RequestMoves

LEMMA EdgeInvStep == EdgeInv /\ [EdgeNext \/ AdminNext]_edgeVars => EdgeInv'
  <1> SUFFICES ASSUME EdgeInv, [EdgeNext \/ AdminNext]_edgeVars PROVE EdgeInv'
    OBVIOUS
  <1>0. EdgeTypeOK /\ RequestInv /\ AdminInv /\ EdgeSound
    BY DEF EdgeInv
  <1>1. ASSUME NEW r \in Request, NEW h \in Headers, authenticateTSKHttpRequest(r, h) PROVE EdgeInv'
    <2>1. edge[r].pc = "idle" /\ EdgeAt(r, "done", FALSE, h) /\ UNCHANGED edgeRest /\ h.client \in Holder
      BY <1>1 DEF authenticateTSKHttpRequest, Headers
    <2>2. consumed[r] = {} /\ consumed \in [Request -> SUBSET Holder]
      BY <1>0, <2>1 DEF RequestInv, EdgeTypeOK
    <2>3. PICK code \in {"200", "401", "thrown"}, cs \in {{}, {h.client}} :
            /\ answer' = [answer EXCEPT ![r] = code] /\ consumed' = [consumed EXCEPT ![r] = cs]
            /\ code = "401" => cs = {}
      BY <1>1, <2>2 DEF authenticateTSKHttpRequest
    <2> DEFINE st == [pc |-> "done", bpc |-> FALSE, snap |-> h]
    <2>4. st \in RequestState /\ st.pc = "done" /\ st.bpc = FALSE /\ st.snap = h
      BY DEF RequestState
    <2>5. edge' = [edge EXCEPT ![r] = st]
      BY <2>1 DEF EdgeAt
    <2> HIDE DEF st
    <2>6. cs \in SUBSET Holder /\ \A c \in cs : c = st.snap.client /\ ~st.bpc
      BY <2>1, <2>4
    <2> QED
      BY <2>1, <2>3, <2>4, <2>5, <2>6, RequestMoves
  <1>2. ASSUME NEW r \in Request, NEW h \in Headers, immutableRequest(r, h) PROVE EdgeInv'
    <2>1. /\ edge[r].pc = "idle" /\ consumed' = consumed /\ UNCHANGED edgeRest
          /\ (EdgeAt(r, "bpc", FALSE, h) /\ UNCHANGED answer) \/ Answered(r, "401")
      BY <1>2 DEF immutableRequest
    <2> QED
      BY <2>1, GoesTo, Refuses
  <1>3. ASSUME NEW r \in Request, bpcVerify(r) PROVE EdgeInv'
    <2>1. /\ edge[r].pc = "bpc" /\ consumed' = consumed /\ UNCHANGED edgeRest
          /\ \/ EdgeAt(r, "resolve", FALSE, edge[r].snap) /\ UNCHANGED answer
             \/ Answered(r, "401") \/ Answered(r, "409")
      BY <1>3 DEF bpcVerify
    <2>2. edge[r].snap \in Headers
      BY <1>0, <2>1 DEF RequestInv
    <2> QED
      BY <2>1, <2>2, GoesTo, Refuses
  <1>4. ASSUME NEW r \in Request, resolve(r) PROVE EdgeInv'
    <2>1. /\ edge[r].pc = "resolve" /\ consumed' = consumed /\ UNCHANGED edgeRest
          /\ \/ /\ EdgeAt(r, "tsk", TRUE, edge[r].snap) /\ UNCHANGED answer
                /\ binding[edge[r].snap.pair] = edge[r].snap.client
             \/ Answered(r, "401") \/ Answered(r, "409")
      BY <1>4 DEF resolve
    <2>2. PICK h \in Headers : h = edge[r].snap
      BY <1>0, <2>1 DEF RequestInv
    <2>3. h.pair \in Pair /\ h.client \in Holder /\ h.client # NoHolder
      BY EdgeAssumption DEF Headers
    <2>4. binding[h.pair] = h.client => <<h.pair, h.client>> \in everBound
      BY <1>0, <2>3 DEF RequestInv
    <2> QED
      BY <2>1, <2>2, <2>4, GoesTo, Refuses
  <1>5. ASSUME NEW r \in Request, verifyTsk(r) PROVE EdgeInv'
    <2>1. edge[r].pc = "tsk" /\ UNCHANGED edgeRest
      BY <1>5 DEF verifyTsk
    <2>2. PICK h \in Headers : h = edge[r].snap
      BY <1>0, <2>1 DEF RequestInv
    <2>3. h.client \in Holder /\ <<h.pair, h.client>> \in everBound /\ consumed[r] = {}
          /\ edge[r].bpc \in BOOLEAN
      BY <1>0, <2>1, <2>2 DEF Headers, RequestInv, EdgeTypeOK
    <2>4. CASE consumed' = consumed /\ (Answered(r, "401") \/ Answered(r, "409"))
      BY <2>1, <2>4, Refuses
    <2>5. CASE /\ consumed' = [consumed EXCEPT ![r] = @ \cup {edge[r].snap.client}]
               /\ Answered(r, "200") \/ Answered(r, "409")
      <3>1. consumed' = [consumed EXCEPT ![r] = {h.client}] /\ {h.client} \in SUBSET Holder
        BY <1>0, <2>2, <2>3, <2>5 DEF EdgeTypeOK
      <3>2. PICK code \in {"200", "409"} : Answered(r, code)
        BY <2>5
      <3> DEFINE st == [pc |-> "done", bpc |-> edge[r].bpc, snap |-> h]
      <3>3. st \in RequestState /\ st.pc = "done" /\ st.snap = h
        BY <2>3 DEF RequestState
      <3>4. edge' = [edge EXCEPT ![r] = st] /\ answer' = [answer EXCEPT ![r] = code]
        BY <2>2, <3>2 DEF Answered, EdgeAt
      <3> HIDE DEF st
      <3>5. \A c \in {h.client} : c = st.snap.client /\ (st.bpc => <<st.snap.pair, c>> \in everBound)
        BY <2>3, <3>3
      <3>6. PICK cs \in SUBSET Holder : cs = {h.client}
        BY <3>1
      <3>7. consumed' = [consumed EXCEPT ![r] = cs] /\ code # "401"
            /\ \A c \in cs : c = st.snap.client /\ (st.bpc => <<st.snap.pair, c>> \in everBound)
        BY <3>1, <3>5, <3>6
      <3> QED
        BY <2>1, <3>3, <3>4, <3>7, RequestMoves
    <2> QED
      BY <1>5, <2>4, <2>5 DEF verifyTsk
  <1>6. ASSUME NEW r \in Request, NEW h \in Headers, rewriteHeaders(r, h) PROVE EdgeInv'
    BY <1>0, <1>6
       DEF rewriteHeaders, edgeRest, EdgeInv, EdgeTypeOK, RequestInv, AdminInv, EdgeSound,
           ConsumedIsBound, DeniedConsumesNothing, AdminAnswersTruthful
  <1>7. ASSUME NEW p \in Pair, NEW c \in Holder \cup {NoHolder}, rebind(p, c) PROVE EdgeInv'
    <2>1. /\ binding' = [binding EXCEPT ![p] = c]
          /\ everBound' = everBound \cup ({<<p, c>>} \ {<<p, NoHolder>>})
          /\ UNCHANGED <<wire, edge, answer, consumed, admin, stored, delivered>>
      BY <1>7 DEF rebind
    <2>2. /\ binding' \in [Pair -> Holder \cup {NoHolder}] /\ binding'[p] = c
          /\ \A q \in Pair \ {p} : binding'[q] = binding[q]
      BY <1>0, <2>1 DEF EdgeTypeOK
    <2>3. everBound \subseteq everBound' /\ (c # NoHolder => <<p, c>> \in everBound')
      BY <2>1
    <2>4. RequestInv'
      BY <1>0, <2>1, <2>2, <2>3 DEF RequestInv
    <2> QED
      BY <1>0, <2>1, <2>2, <2>3, <2>4
         DEF EdgeInv, EdgeTypeOK, AdminInv, EdgeSound, ConsumedIsBound, DeniedConsumesNothing,
             AdminAnswersTruthful
  <1>8. ASSUME NEW o \in AdminOp,
               adminProvision(o) \/ deliverCredential(o) \/ \E c \in AdminOp : adminRevoke(o, c)
        PROVE  EdgeInv'
    <2>1. UNCHANGED <<wire, edge, answer, binding, everBound, consumed>>
      BY <1>8 DEF adminProvision, deliverCredential, adminRevoke, adminRest
    <2>2. PICK st \in {"deliver", "201", "204", "400", "401", "404", "422"} :
            /\ admin' = [admin EXCEPT ![o] = st]
            /\ admin[o] = "idle" \/ (admin[o] = "deliver" /\ st \in {"201", "400"})
            /\ st = "201" => o \in delivered'
            /\ o \in stored' => o \in stored \/ st = "deliver"
            /\ stored' \ {o} \subseteq stored /\ delivered \subseteq delivered'
      BY <1>8 DEF adminProvision, deliverCredential, adminRevoke
    <2>3. /\ admin' \in [AdminOp -> {"idle", "deliver", "201", "204", "400", "401", "404", "422"}]
          /\ admin'[o] = st /\ \A u \in AdminOp \ {o} : admin'[u] = admin[u]
      BY <1>0, <2>2 DEF EdgeTypeOK
    <2>4. o \in stored => admin[o] = "deliver"
      BY <1>0, <2>2 DEF AdminInv
    <2>5. AdminInv' /\ AdminAnswersTruthful'
      BY <1>0, <2>2, <2>3, <2>4 DEF AdminInv, EdgeSound, AdminAnswersTruthful
    <2> QED
      BY <1>0, <2>1, <2>3, <2>5
         DEF EdgeInv, EdgeTypeOK, RequestInv, EdgeSound, ConsumedIsBound, DeniedConsumesNothing
  <1>9. CASE UNCHANGED edgeVars
    BY <1>0, <1>9
       DEF edgeVars, EdgeInv, EdgeTypeOK, RequestInv, AdminInv, EdgeSound, ConsumedIsBound,
           DeniedConsumesNothing, AdminAnswersTruthful
  <1> QED
    BY <1>1, <1>2, <1>3, <1>4, <1>5, <1>6, <1>7, <1>8, <1>9 DEF EdgeNext, AdminNext

(* A key is consumed only for the client the request claimed, bound to the *)
(* pair BPC verified; a 401 consumed none; and an admin answer agrees with *)
(* what was stored and delivered, for any number of requests in flight     *)
(* (authenticateBpcTskHttpRequest, createCredentialAdminHandler).          *)
THEOREM EdgeSoundHolds == EdgeSpec => []EdgeSound
  <1>1. EdgeInv => EdgeSound
    BY DEF EdgeInv
  <1> QED
    BY <1>1, EdgeInitOK, EdgeInvStep, PTL DEF EdgeSpec

-----------------------------------------------------------------------------
(***************************************************************************)
(* AgentCache: what a call is served was sealed for it and has not expired. *)
(***************************************************************************)

CallRecord == [pc : {"idle", "seal", "unseal", "over"}, key : CacheKey \cup {"none"},
               entry : CacheEntry \cup {NothingSealed}, expects : BoundTo \cup {"none"}]

(* A call that has not been served takes a step that serves nothing.       *)
LEMMA CallSteps ==
  ASSUME CacheInv, NEW w \in CacheCall, NEW c \in CallRecord, servedAt[w] = Never0,
         cacheCalls' = [cacheCalls EXCEPT ![w] = c], UNCHANGED <<servedAt, hour>>,
         vault' \in [CacheKey -> CacheEntry \cup {NothingSealed}]
  PROVE  CacheInv'
  BY DEF CacheInv, CallRecord, ServedIsValid

LEMMA CacheInvStep == CacheInv /\ [CacheNext]_cacheVars => CacheInv'
  <1> SUFFICES ASSUME CacheInv, [CacheNext]_cacheVars PROVE CacheInv'
    OBVIOUS
  <1>0. /\ cacheCalls \in [CacheCall -> CallRecord]
        /\ vault \in [CacheKey -> CacheEntry \cup {NothingSealed}]
        /\ \A w \in CacheCall : cacheCalls[w].pc # "over" => servedAt[w] = Never0
    BY DEF CacheInv, CallRecord
  <1>1. ASSUME NEW w \in CacheCall, NEW k \in CacheKey, NEW entry \in CacheEntry, sealEntry(w, k, entry)
        PROVE  CacheInv'
    <2> DEFINE c == [pc |-> "seal", key |-> k, entry |-> entry, expects |-> "none"]
    <2>1. c \in CallRecord /\ cacheCalls' = [cacheCalls EXCEPT ![w] = c] /\ cacheCalls[w].pc = "idle"
      BY <1>1 DEF sealEntry, CallRecord
    <2> HIDE DEF c
    <2> QED
      BY <1>0, <1>1, <2>1, CallSteps DEF sealEntry
  <1>2. ASSUME NEW w \in CacheCall, NEW k \in CacheKey, NEW b \in BoundTo, getEntry(w, k, b)
        PROVE  CacheInv'
    <2> DEFINE c == [pc |-> IF vault[k] = NothingSealed THEN "over" ELSE "unseal",
                     key |-> k, entry |-> vault[k], expects |-> b]
    <2>1. c \in CallRecord /\ cacheCalls' = [cacheCalls EXCEPT ![w] = c] /\ cacheCalls[w].pc = "idle"
      BY <1>0, <1>2 DEF getEntry, CallRecord
    <2> HIDE DEF c
    <2> QED
      BY <1>0, <1>2, <2>1, CallSteps DEF getEntry
  <1>3. ASSUME NEW w \in CacheCall, putEntry(w) PROVE CacheInv'
    <2>1. PICK o \in CallRecord : o = cacheCalls[w]
      BY <1>0
    <2> DEFINE c == [pc |-> "over", key |-> o.key, entry |-> o.entry, expects |-> o.expects]
    <2>2. c \in CallRecord /\ cacheCalls' = [cacheCalls EXCEPT ![w] = c] /\ cacheCalls[w].pc = "seal"
      BY <1>3, <2>1 DEF putEntry, CacheStep, CallRecord
    <2> HIDE DEF c
    <2>3. o.entry \in CacheEntry \cup {NothingSealed}
      BY <2>1 DEF CallRecord
    <2>4. vault' \in [CacheKey -> CacheEntry \cup {NothingSealed}]
      BY <1>0, <1>3, <2>1, <2>3 DEF putEntry
    <2> QED
      BY <1>0, <1>3, <2>2, <2>4, CallSteps DEF putEntry
  <1>4. ASSUME NEW w \in CacheCall, openEntry(w) PROVE CacheInv'
    <2>1. PICK o \in CallRecord : o = cacheCalls[w]
      BY <1>0
    <2> DEFINE c == [pc |-> "over", key |-> o.key, entry |-> o.entry, expects |-> o.expects]
    <2>2. /\ c \in CallRecord /\ cacheCalls' = [cacheCalls EXCEPT ![w] = c]
          /\ c.pc = "over" /\ c.entry = o.entry /\ c.expects = o.expects
          /\ cacheCalls[w].pc = "unseal" /\ UNCHANGED <<vault, hour>>
      BY <1>4, <2>1 DEF openEntry, CacheStep, CallRecord
    <2> HIDE DEF c
    <2>3. CASE UNCHANGED servedAt
      BY <1>0, <2>2, <2>3, CallSteps
    <2>4. CASE /\ o.entry.expires > hour /\ o.entry.for = o.expects
               /\ servedAt' = [servedAt EXCEPT ![w] = hour]
      <3>1. /\ cacheCalls' \in [CacheCall -> CallRecord] /\ cacheCalls'[w] = c
            /\ \A v \in CacheCall \ {w} : cacheCalls'[v] = cacheCalls[v]
        BY <1>0, <2>2
      <3>2. /\ servedAt' \in [CacheCall -> Nat \cup {Never0}] /\ servedAt'[w] = hour
            /\ \A v \in CacheCall \ {w} : servedAt'[v] = servedAt[v]
        BY <2>4 DEF CacheInv
      <3>3. ServedIsValid'
        BY <2>2, <2>4, <3>1, <3>2 DEF CacheInv, ServedIsValid
      <3>4. \A v \in CacheCall : servedAt'[v] # Never0 => cacheCalls'[v].pc = "over"
        BY <2>2, <3>1, <3>2 DEF CacheInv
      <3> QED
        BY <2>2, <3>1, <3>2, <3>3, <3>4 DEF CacheInv, CallRecord
    <2> QED
      BY <1>4, <2>1, <2>3, <2>4 DEF openEntry
  <1>5. ASSUME NEW k \in CacheKey, NEW from \in CacheKey, misplace(k, from) PROVE CacheInv'
    BY <1>5 DEF misplace, CacheInv, ServedIsValid
  <1>6. CASE hourPasses
    BY <1>6 DEF hourPasses, CacheInv, ServedIsValid
  <1>7. CASE UNCHANGED cacheVars
    BY <1>7 DEF cacheVars, CacheInv, ServedIsValid
  <1> QED
    BY <1>1, <1>2, <1>3, <1>4, <1>5, <1>6, <1>7 DEF CacheNext

(* An entry handed out is unexpired at that moment and bound to what its   *)
(* reader expects, for any number of overlapping calls, any store that     *)
(* misplaces entries and any delay of the protector                        *)
(* (DpapiFailClosedAgentCache.read).                                       *)
THEOREM ServedIsValidHolds == CacheSpec => []ServedIsValid
  <1>1. CacheInit => CacheInv
    BY DEF CacheInit, CacheInv, ServedIsValid, IdleCall, Never0
  <1>2. CacheInv => ServedIsValid
    BY DEF CacheInv
  <1> QED
    BY <1>1, <1>2, CacheInvStep, PTL DEF CacheSpec

-----------------------------------------------------------------------------
(***************************************************************************)
(* Failover: a target is down only after its failures, and the caller walks *)
(* the chain.                                                              *)
(***************************************************************************)

LEMMA LeastNumber ==
  ASSUME NEW T \in SUBSET Nat, T # {}
  PROVE  \E x \in T : \A y \in T : x <= y
  <1> DEFINE Below == {ss \in Nat \X Nat : ss[1] < ss[2]}
  <1>1. IsWellFoundedOn(Below, Nat)
    BY NatLessThanWellFounded DEF OpToRel
  <1> HIDE DEF Below
  <1>2. PICK x \in T : \A y \in T : <<y, x>> \notin Below
    BY <1>1, WFMin
  <1>3. \A y \in T : ~(y < x)
    BY <1>2 DEF Below
  <1> QED
    BY <1>3

-----------------------------------------------------------------------------
(* The failover transport.                                                 *)

HealthState == [healthy : BOOLEAN, streak : Nat, startedAt : Nat \cup {NotStarted}]
FetchState  == [op : {"idle", "read", "lastResort", "write", "probe", "done", "failed", "threw"},
                at : Endpoint]

(* What is known of the health of the endpoints, and of the callers.       *)
HealthInv ==
  /\ health \in [Endpoint -> HealthState] /\ misses \in [Endpoint -> Seq(Nat)]
  /\ StreakInv /\ UnhealthyIsJustified
CallerInv ==
  /\ fetches \in [Caller -> FetchState] /\ tried \in [Caller -> SUBSET Endpoint]
  /\ ChainInv /\ ReadTriesAll

LEMMA FailoverParts == FailoverInv <=> HealthInv /\ CallerInv /\ moment \in Nat
  BY DEF FailoverInv, HealthInv, CallerInv, FailoverTypeOK, FailoverSound, HealthState, FetchState

LEMMA FailoverPartsNext == FailoverInv' <=> HealthInv' /\ CallerInv' /\ moment' \in Nat
  BY DEF FailoverInv, HealthInv, CallerInv, FailoverTypeOK, FailoverSound, HealthState, FetchState

LEMMA SuccessKeeps ==
  ASSUME HealthInv, NEW e \in Endpoint, recordSuccess(e)
  PROVE  HealthInv'
  <1> DEFINE h == [healthy |-> TRUE, streak |-> 0, startedAt |-> NotStarted]
  <1>1. h \in HealthState /\ h.healthy = TRUE /\ h.startedAt = NotStarted
    BY DEF HealthState
  <1>2. health' = [health EXCEPT ![e] = h] /\ misses' = [misses EXCEPT ![e] = <<>>]
    BY DEF recordSuccess
  <1> HIDE DEF h
  <1>3. /\ health' \in [Endpoint -> HealthState] /\ misses' \in [Endpoint -> Seq(Nat)]
        /\ health'[e] = h
        /\ \A d \in Endpoint \ {e} : health'[d] = health[d] /\ misses'[d] = misses[d]
    BY <1>1, <1>2 DEF HealthInv
  <1>4. StreakInv'
    BY <1>1, <1>3 DEF HealthInv, StreakInv
  <1>5. UnhealthyIsJustified'
    BY <1>1, <1>3 DEF HealthInv, UnhealthyIsJustified
  <1> QED
    BY <1>3, <1>4, <1>5 DEF HealthInv

LEMMA MissKeeps ==
  ASSUME HealthInv, moment \in Nat, NEW e \in Endpoint, recordMiss(e)
  PROVE  HealthInv'
  <1>1. PICK h \in HealthState : h = health[e]
    BY DEF HealthInv
  <1>2. PICK m \in Seq(Nat) : m = misses[e]
    BY DEF HealthInv
  <1> DEFINE anew == h.startedAt = NotStarted \/ moment - h.startedAt > MissWindow
             streak == IF anew THEN 1 ELSE h.streak + 1
             start == IF anew THEN moment ELSE h.startedAt
             up == h.healthy /\ streak < MissThreshold
             g == [healthy |-> up, streak |-> streak, startedAt |-> start]
             m2 == Append(m, moment)
  <1>3. health' = [health EXCEPT ![e] = g] /\ misses' = [misses EXCEPT ![e] = m2]
    BY <1>1, <1>2 DEF recordMiss
  <1>4. h.startedAt \in Nat \cup {NotStarted} /\ h.streak \in Nat /\ h.healthy \in BOOLEAN
    BY <1>1 DEF HealthState
  <1>5. streak \in Nat /\ start \in Nat /\ up \in BOOLEAN
    BY <1>4
  <1>6. g \in HealthState /\ g.streak = streak /\ g.startedAt = start /\ (g.healthy <=> up)
    BY <1>5 DEF HealthState
  <1>7. /\ m2 \in Seq(Nat) /\ Len(m2) = Len(m) + 1 /\ DOMAIN m2 = 1..(Len(m) + 1)
        /\ m2[Len(m) + 1] = moment /\ \A i \in 1..Len(m) : m2[i] = m[i]
        /\ Len(m) \in Nat /\ DOMAIN m = 1..Len(m) /\ \A i \in 1..Len(m) : m[i] \in Nat
    OBVIOUS
  <1>b. Len(m) \in Nat /\ Len(m2) = Len(m) + 1
    BY <1>7
  <1>8. ~anew => LET first == Len(m) - h.streak + 1
                 IN  /\ first \in 1..Len(m) /\ m[first] = h.startedAt
                     /\ \A i \in first..Len(m) : m[i] - h.startedAt <= MissWindow
    BY <1>1, <1>2, <1>7 DEF HealthInv, StreakInv
  <1> DEFINE first == Len(m2) - streak + 1
  <1>9. /\ first \in 1..Len(m2) /\ m2[first] = start
        /\ \A i \in first..Len(m2) : m2[i] - start <= MissWindow
    <2>1. CASE anew
      BY <2>1, <1>7, FailoverAssumption
    <2>2. CASE ~anew
      <3>0. PICK a \in Int : a = Len(m) - h.streak + 1
        BY <1>4, <1>7
      <3>1. /\ a \in 1..Len(m) /\ m[a] = h.startedAt
            /\ \A i \in a..Len(m) : m[i] - h.startedAt <= MissWindow
        BY <2>2, <1>8, <3>0
      <3>a. first = a
        <4>1. streak = h.streak + 1 /\ Len(m2) = Len(m) + 1
          BY <2>2, <1>7
        <4>2. PICK n \in Nat, j \in Nat : n = Len(m) /\ j = h.streak
          BY <1>4, <1>b
        <4> HIDE DEF streak, m2
        <4>3. first = (n + 1) - (j + 1) + 1 /\ a = n - j + 1
          BY <3>0, <4>1, <4>2
        <4> QED
          BY <4>3
      <3>2. start = h.startedAt /\ moment - start <= MissWindow /\ start \in Nat
        BY <2>2, <1>4, FailoverAssumption
      <3> HIDE DEF first, start, anew, streak, up, g, m2
      <3>3. ASSUME NEW i \in a..Len(m2) PROVE m2[i] - start <= MissWindow
        <4>1. CASE i = Len(m) + 1
          BY <4>1, <3>2, <1>7
        <4>2. CASE i # Len(m) + 1
          <5>1. i \in a..Len(m) /\ i \in 1..Len(m)
            BY <4>2, <3>1, <1>b
          <5> QED
            BY <5>1, <3>1, <3>2, <1>7
        <4> QED
          BY <4>1, <4>2
      <3> QED
        BY <3>1, <3>2, <3>3, <3>a, <1>7
    <2> QED
      BY <2>1, <2>2
  <1>10. ~up => \/ ~h.healthy
                \/ streak >= MissThreshold
    BY <1>5, FailoverAssumption
  <1>11. first = Len(m2) - streak + 1
    OBVIOUS
  <1> HIDE DEF first, start, anew, streak, up, g, m2
  <1>12. /\ health' \in [Endpoint -> HealthState] /\ misses' \in [Endpoint -> Seq(Nat)]
         /\ health'[e] = g /\ misses'[e] = m2
         /\ \A d \in Endpoint \ {e} : health'[d] = health[d] /\ misses'[d] = misses[d]
    BY <1>3, <1>6, <1>7 DEF HealthInv
  <1>13. StreakInv'
    <2> SUFFICES ASSUME NEW d \in Endpoint, health'[d].startedAt # NotStarted
                 PROVE  LET f == Len(misses'[d]) - health'[d].streak + 1
                        IN  /\ f \in DOMAIN misses'[d] /\ misses'[d][f] = health'[d].startedAt
                            /\ \A i \in f..Len(misses'[d]) :
                                 misses'[d][i] - health'[d].startedAt <= MissWindow
      BY DEF StreakInv
    <2>1. CASE d = e
      BY <2>1, <1>6, <1>7, <1>9, <1>11, <1>12
    <2>2. CASE d # e
      BY <2>2, <1>12 DEF HealthInv, StreakInv
    <2> QED
      BY <2>1, <2>2
  <1>14. UnhealthyIsJustified'
    <2> SUFFICES ASSUME NEW d \in Endpoint, ~health'[d].healthy
                 PROVE  \E i \in DOMAIN misses'[d] :
                          /\ i + MissThreshold - 1 \in DOMAIN misses'[d]
                          /\ misses'[d][i + MissThreshold - 1] - misses'[d][i] <= MissWindow
      BY DEF UnhealthyIsJustified
    <2>1. CASE d # e
      BY <2>1, <1>12 DEF HealthInv, UnhealthyIsJustified
    <2>2. CASE d = e /\ ~h.healthy
      <3>1. PICK i \in DOMAIN m : /\ i + MissThreshold - 1 \in DOMAIN m
                                  /\ m[i + MissThreshold - 1] - m[i] <= MissWindow
        BY <2>2, <1>1, <1>2 DEF HealthInv, UnhealthyIsJustified
      <3>2. i \in DOMAIN m2 /\ i + MissThreshold - 1 \in DOMAIN m2
            /\ m2[i + MissThreshold - 1] = m[i + MissThreshold - 1] /\ m2[i] = m[i]
        BY <3>1, <1>7
      <3> QED
        BY <2>2, <3>1, <3>2, <1>12
    <2>3. CASE d = e /\ streak >= MissThreshold
      <3>1. /\ first + MissThreshold - 1 \in first..Len(m2) /\ first \in DOMAIN m2
            /\ first + MissThreshold - 1 \in DOMAIN m2
        BY <2>3, <1>5, <1>7, <1>9, <1>11, FailoverAssumption
      <3>2. m2[first + MissThreshold - 1] - m2[first] <= MissWindow
        BY <3>1, <1>9
      <3> QED
        BY <2>3, <3>1, <3>2, <1>12
    <2> QED
      BY <2>1, <2>2, <2>3, <1>6, <1>10, <1>12
  <1> QED
    BY <1>12, <1>13, <1>14 DEF HealthInv

(* The next endpoint of a read is an endpoint, and the first of the last   *)
(* resort is the primary.                                                  *)
LEMMA NextHealthyIs ==
  ASSUME NEW from \in Nat, NEW hs
  PROVE  /\ NextHealthy(from, hs) \in FetchState
         /\ NextHealthy(from, hs).op \in {"read", "lastResort"}
         /\ NextHealthy(from, hs).op = "lastResort" => NextHealthy(from, hs).at = 0
  <1> DEFINE up == {e \in Endpoint : e >= from /\ hs[e].healthy}
  <1>0. 0 \in Endpoint
    BY FailoverAssumption DEF Endpoint
  <1>1. CASE up = {}
    <2>1. NextHealthy(from, hs) = [op |-> "lastResort", at |-> 0]
      BY <1>1 DEF NextHealthy
    <2> QED
      BY <2>1, <1>0 DEF FetchState
  <1>2. CASE up # {}
    <2> DEFINE least == CHOOSE e \in up : \A d \in up : e <= d
    <2>1. NextHealthy(from, hs) = [op |-> "read", at |-> least]
      BY <1>2 DEF NextHealthy
    <2>2. up \in SUBSET Nat
      BY FailoverAssumption DEF Endpoint
    <2>3. \E e \in up : \A d \in up : e <= d
      <3> HIDE DEF up
      <3> QED
        BY <1>2, <2>2, LeastNumber
    <2>4. least \in up
      <3> HIDE DEF up
      <3> QED
        BY <2>3
    <2>5. least \in Endpoint
      BY <2>4
    <2> HIDE DEF least, up
    <2> QED
      BY <2>1, <2>5 DEF FetchState
  <1> QED
    BY <1>1, <1>2

(* One caller goes on.                                                     *)
LEMMA CallerMovesOn ==
  ASSUME CallerInv, NEW k \in Caller, NEW f \in FetchState, NEW t \in SUBSET Endpoint,
         fetches' = [fetches EXCEPT ![k] = f], tried' = [tried EXCEPT ![k] = t],
         f.op = "lastResort" => 0..(f.at - 1) \subseteq t,
         f.op = "failed" => t = Endpoint
  PROVE  CallerInv'
  <1>1. /\ fetches' \in [Caller -> FetchState] /\ tried' \in [Caller -> SUBSET Endpoint]
        /\ fetches'[k] = f /\ tried'[k] = t
        /\ \A j \in Caller \ {k} : fetches'[j] = fetches[j] /\ tried'[j] = tried[j]
    BY DEF CallerInv
  <1>2. ChainInv'
    BY <1>1 DEF CallerInv, ChainInv
  <1>3. ReadTriesAll'
    BY <1>1 DEF CallerInv, ReadTriesAll
  <1> QED
    BY <1>1, <1>2, <1>3 DEF CallerInv

(* A caller goes on to an operation other than a last resort.              *)
LEMMA CallerAt ==
  ASSUME CallerInv, NEW k \in Caller, NEW op \in {"idle", "write", "probe", "done", "threw"},
         NEW e \in Endpoint, FetchAt(k, op, e), UNCHANGED tried
  PROVE  CallerInv'
  <1> DEFINE f == [op |-> op, at |-> e]
  <1>1. f \in FetchState /\ f.op = op /\ fetches' = [fetches EXCEPT ![k] = f]
    BY DEF FetchState, FetchAt
  <1>2. tried[k] \in SUBSET Endpoint /\ tried' = [tried EXCEPT ![k] = tried[k]]
    BY DEF CallerInv
  <1> HIDE DEF f
  <1> QED
    BY <1>1, <1>2, CallerMovesOn

LEMMA FailoverInvStep == FailoverInv /\ [FailoverNext]_failoverVars => FailoverInv'
  <1> SUFFICES ASSUME FailoverInv, [FailoverNext]_failoverVars PROVE FailoverInv'
    OBVIOUS
  <1>0. HealthInv /\ CallerInv /\ moment \in Nat
    BY FailoverParts
  <1>a. 0 \in Endpoint /\ \A k \in Caller : fetches[k] \in FetchState /\ fetches[k].at \in Endpoint
                                            /\ tried[k] \in SUBSET Endpoint
    BY <1>0, FailoverAssumption DEF CallerInv, FetchState, Endpoint
  <1>b. ASSUME UNCHANGED <<health, misses>> PROVE HealthInv'
    BY <1>0, <1>b DEF HealthInv, StreakInv, UnhealthyIsJustified
  <1>1. ASSUME NEW k \in Caller, read(k) PROVE FailoverInv'
    <2>1. PICK f \in FetchState : /\ fetches' = [fetches EXCEPT ![k] = f]
                                  /\ f.op \in {"read", "lastResort"} /\ (f.op = "lastResort" => f.at = 0)
      BY <1>1, NextHealthyIs DEF read
    <2>2. tried' = [tried EXCEPT ![k] = tried[k]] /\ (f.op = "lastResort" => 0..(f.at - 1) = {})
      BY <1>0, <1>1, <2>1 DEF read, CallerInv
    <2>3. CallerInv'
      BY <1>0, <1>a, <2>1, <2>2, CallerMovesOn
    <2> QED
      BY <1>0, <1>1, <1>b, <2>3, FailoverPartsNext DEF read
  <1>2. ASSUME NEW k \in Caller, write(k) PROVE FailoverInv'
    <2>1. CallerInv'
      <3>1. PICK op \in {"write", "threw"} : FetchAt(k, op, fetches[k].at)
        BY <1>2 DEF write
      <3> QED
        BY <1>0, <1>2, <1>a, <3>1, CallerAt DEF write
    <2> QED
      BY <1>0, <1>2, <1>b, <2>1, FailoverPartsNext DEF write
  <1>3. ASSUME NEW k \in Caller, NEW e \in Endpoint, probe(k, e) PROVE FailoverInv'
    <2>1. CallerInv'
      BY <1>0, <1>3, CallerAt DEF probe
    <2> QED
      BY <1>0, <1>3, <1>b, <2>1, FailoverPartsNext DEF probe
  <1>4. ASSUME NEW k \in Caller, fetchAnswers(k) PROVE FailoverInv'
    <2>1. CallerInv'
      BY <1>0, <1>a, <1>4, CallerAt DEF fetchAnswers
    <2>2. HealthInv'
      BY <1>0, <1>a, <1>4, SuccessKeeps DEF fetchAnswers
    <2> QED
      BY <1>0, <1>4, <2>1, <2>2, FailoverPartsNext DEF fetchAnswers
  <1>5. ASSUME NEW k \in Caller, readFails(k) PROVE FailoverInv'
    <2>1. PICK e \in Endpoint : e = fetches[k].at
      BY <1>a
    <2>2. PICK t \in SUBSET Endpoint : t = tried[k] \cup {e}
      BY <1>a
    <2>3. tried' = [tried EXCEPT ![k] = t] /\ moment' = moment /\ e \in Nat
      BY <1>5, <2>1, <2>2, FailoverAssumption DEF readFails, Endpoint
    <2>4. CASE /\ recordMiss(e) /\ fetches' = [fetches EXCEPT ![k] = NextHealthy(e + 1, health')]
      <3>1. PICK f \in FetchState : /\ fetches' = [fetches EXCEPT ![k] = f]
                                    /\ f.op \in {"read", "lastResort"} /\ (f.op = "lastResort" => f.at = 0)
        <4>1. e + 1 \in Nat
          BY <2>3
        <4> QED
          BY <2>4, <4>1, NextHealthyIs
      <3>2. f.op = "lastResort" => 0..(f.at - 1) = {}
        BY <3>1
      <3>3. CallerInv'
        BY <1>0, <2>3, <3>1, <3>2, CallerMovesOn
      <3>4. HealthInv'
        BY <1>0, <2>4, MissKeeps
      <3> QED
        BY <1>0, <2>3, <3>3, <3>4, FailoverPartsNext
    <2>5. CASE /\ fetches[k].op = "lastResort" /\ UNCHANGED <<health, misses>>
               /\ IF e = Replicas THEN FetchAt(k, "failed", 0) ELSE FetchAt(k, "lastResort", e + 1)
      <3>1. 0..(e - 1) \subseteq tried[k]
        BY <1>0, <2>1, <2>5 DEF CallerInv, ChainInv
      <3>2. 0..e \subseteq t
        <4> SUFFICES ASSUME NEW x \in 0..e PROVE x \in t
          OBVIOUS
        <4>1. x = e \/ x \in 0..(e - 1)
          BY <2>3
        <4> QED
          BY <2>2, <3>1, <4>1
      <3>3. CASE e = Replicas
        <4> DEFINE f == [op |-> "failed", at |-> 0]
        <4>1. f \in FetchState /\ f.op = "failed" /\ fetches' = [fetches EXCEPT ![k] = f]
          BY <1>a, <2>5, <3>3 DEF FetchState, FetchAt
        <4>2. t = Endpoint
          BY <3>2, <3>3 DEF Endpoint
        <4> HIDE DEF f
        <4>3. CallerInv'
          BY <1>0, <2>3, <4>1, <4>2, CallerMovesOn
        <4> QED
          BY <1>0, <1>b, <2>3, <2>5, <4>3, FailoverPartsNext
      <3>4. CASE e # Replicas
        <4> DEFINE f == [op |-> "lastResort", at |-> e + 1]
        <4>0. e + 1 \in Endpoint /\ (e + 1) - 1 = e
          BY <2>1, <2>3, <3>4, FailoverAssumption DEF Endpoint
        <4>1. /\ f \in FetchState /\ f.op = "lastResort" /\ f.at = e + 1
              /\ fetches' = [fetches EXCEPT ![k] = f]
          BY <2>5, <3>4, <4>0 DEF FetchState, FetchAt
        <4> HIDE DEF f
        <4>2. 0..(f.at - 1) \subseteq t
          BY <3>2, <4>0, <4>1
        <4>3. CallerInv'
          BY <1>0, <2>3, <4>1, <4>2, CallerMovesOn
        <4> QED
          BY <1>0, <1>b, <2>3, <2>5, <4>3, FailoverPartsNext
      <3> QED
        BY <3>3, <3>4
    <2> QED
      BY <1>5, <2>1, <2>4, <2>5 DEF readFails
  <1>6. ASSUME NEW k \in Caller, fetchFails(k) PROVE FailoverInv'
    <2>1. CallerInv'
      BY <1>0, <1>a, <1>6, CallerAt DEF fetchFails
    <2>2. HealthInv'
      BY <1>0, <1>a, <1>6, MissKeeps DEF fetchFails
    <2> QED
      BY <1>0, <1>6, <2>1, <2>2, FailoverPartsNext DEF fetchFails
  <1>7. ASSUME NEW k \in Caller, again(k) PROVE FailoverInv'
    <2> DEFINE f == [op |-> "idle", at |-> 0]
    <2>1. f \in FetchState /\ f.op = "idle" /\ fetches' = [fetches EXCEPT ![k] = f]
      BY <1>a, <1>7 DEF FetchState, FetchAt, again
    <2>2. tried' = [tried EXCEPT ![k] = {}] /\ {} \in SUBSET Endpoint
      BY <1>7 DEF again
    <2> HIDE DEF f
    <2>3. CallerInv'
      BY <1>0, <2>1, <2>2, CallerMovesOn
    <2> QED
      BY <1>0, <1>7, <1>b, <2>3, FailoverPartsNext DEF again
  <1>8. CASE momentPasses
    <2>1. CallerInv' /\ HealthInv' /\ moment' \in Nat
      BY <1>0, <1>8, <1>b DEF momentPasses, CallerInv, ChainInv, ReadTriesAll
    <2> QED
      BY <2>1, FailoverPartsNext
  <1>9. CASE UNCHANGED failoverVars
    <2>1. CallerInv' /\ HealthInv' /\ moment' \in Nat
      BY <1>0, <1>9, <1>b DEF failoverVars, CallerInv, ChainInv, ReadTriesAll
    <2> QED
      BY <2>1, FailoverPartsNext
  <1> QED
    BY <1>1, <1>2, <1>3, <1>4, <1>5, <1>6, <1>7, <1>8, <1>9 DEF FailoverNext

(* An endpoint is out of use only after missThreshold misses in a row      *)
(* within windowMs, and a read gives up only after every endpoint failed   *)
(* it, for any number of replicas and overlapping calls                    *)
(* (FailoverTransport.read, write and probe).                              *)
THEOREM FailoverSoundHolds == FailoverSpec => []FailoverSound
  <1>1. FailoverInit => FailoverInv
    <2> SUFFICES ASSUME FailoverInit PROVE FailoverInv
      OBVIOUS
    <2>1. 0 \in Endpoint
      BY FailoverAssumption DEF Endpoint
    <2>2. HealthInv
      BY DEF FailoverInit, HealthInv, HealthState, StreakInv, UnhealthyIsJustified
    <2>3. CallerInv /\ moment \in Nat
      BY <2>1 DEF FailoverInit, CallerInv, FetchState, ChainInv, ReadTriesAll
    <2> QED
      BY <2>2, <2>3, FailoverParts
  <1>2. FailoverInv => FailoverSound
    BY DEF FailoverInv
  <1> QED
    BY <1>1, <1>2, FailoverInvStep, PTL DEF FailoverSpec

-----------------------------------------------------------------------------
(***************************************************************************)
(* Anomaly: what the engine tracks stays within its limits, and an attack  *)
(* verdict rests on recent failures.                                       *)
(***************************************************************************)

(* A set of positions of a sequence is finite, and no larger than it.      *)
LEMMA Positions ==
  ASSUME NEW n \in Nat, NEW D \in SUBSET (1..n)
  PROVE  IsFiniteSet(D) /\ Cardinality(D) \in Nat /\ Cardinality(D) <= n
  <1>1. IsFiniteSet(1..n) /\ Cardinality(1..n) = n
    BY FS_Interval
  <1> QED
    BY <1>1, FS_Subset, FS_CardinalityType

(* Positions that contain every smaller one are the first so many.         *)
LEMMA FirstPositions ==
  ASSUME NEW n \in Nat, NEW D \in SUBSET (1..n),
         \A i \in D, j \in 1..n : j <= i => j \in D
  PROVE  \A i \in 1..n : i \in D <=> i <= Cardinality(D)
  <1> DEFINE Out == {i \in 1..(n + 1) : i \notin D}
  <1>1. n + 1 \in Out /\ Out \in SUBSET Nat
    OBVIOUS
  <1> HIDE DEF Out
  <1>2. PICK m \in Out : \A y \in Out : m <= y
    BY <1>1, LeastNumber
  <1>3. m \in 1..(n + 1) /\ m \notin D
    BY <1>2 DEF Out
  <1>4. D = 1..(m - 1)
    <2>1. ASSUME NEW i \in D PROVE i \in 1..(m - 1)
      <3>1. i < m
        BY <1>3
      <3> QED
        BY <1>3, <3>1
    <2>2. ASSUME NEW i \in 1..(m - 1) PROVE i \in D
      <3>1. i \in 1..(n + 1) /\ ~ (m <= i)
        BY <1>3
      <3> QED
        BY <1>2, <3>1 DEF Out
    <2> QED
      BY <2>1, <2>2
  <1>5. Cardinality(D) = m - 1
    <2>1. Cardinality(1..(m - 1)) = m - 1
      BY <1>3, FS_Interval
    <2> QED
      BY <1>4, <2>1
  <1> QED
    BY <1>3, <1>4, <1>5

(* The end of a sequence, from a position on.                              *)
LEMMA EndOf ==
  ASSUME NEW S, NEW es \in Seq(S), NEW m \in Nat, m >= 1, m <= Len(es) + 1
  PROVE  /\ SubSeq(es, m, Len(es)) \in Seq(S)
         /\ Len(SubSeq(es, m, Len(es))) = Len(es) - m + 1
         /\ \A i \in 1..(Len(es) - m + 1) :
              SubSeq(es, m, Len(es))[i] = es[m + i - 1] /\ m + i - 1 \in DOMAIN es
  <1>1. Len(es) \in Nat /\ \A i \in m..Len(es) : es[i] \in S
    OBVIOUS
  <1>2. /\ SubSeq(es, m, Len(es)) \in Seq(S)
        /\ Len(SubSeq(es, m, Len(es))) = IF m <= Len(es) THEN Len(es) - m + 1 ELSE 0
        /\ \A i \in 1..(Len(es) - m + 1) : SubSeq(es, m, Len(es))[i] = es[m + i - 1]
    BY <1>1, SubSeqProperties
  <1>3. \A i \in 1..(Len(es) - m + 1) : m + i - 1 \in DOMAIN es
    BY <1>1
  <1> QED
    BY <1>1, <1>2, <1>3

-----------------------------------------------------------------------------
(* A list without repetition has as many entries as there are in it.       *)
LEMMA ListCounts ==
  ASSUME NEW S, NEW s \in Seq(S), \A i, j \in DOMAIN s : s[i] = s[j] => i = j,
         NEW T, \A x : x \in T <=> \E i \in DOMAIN s : s[i] = x
  PROVE  IsFiniteSet(T) /\ Cardinality(T) = Len(s)
  <1>1. Len(s) \in Nat /\ DOMAIN s = 1..Len(s)
    OBVIOUS
  <1>2. IsFiniteSet(1..Len(s)) /\ Cardinality(1..Len(s)) = Len(s)
    BY <1>1, FS_Interval
  <1>3. s \in [1..Len(s) -> T]
    <2>1. s \in [1..Len(s) -> S]
      BY LenProperties
    <2>2. \A i \in 1..Len(s) : s[i] \in T
      BY <1>1
    <2> QED
      BY <2>1, <2>2
  <1>4. s \in Bijection(1..Len(s), T)
    BY <1>1, <1>3 DEF Bijection, Injection, Surjection, IsInjective
  <1>5. ExistsBijection(1..Len(s), T)
    BY <1>4 DEF ExistsBijection
  <1> QED
    BY <1>2, <1>5, FS_Bijection

(* indexOf and splice on a list without repetition.                        *)
LEMMA Spliced ==
  ASSUME NEW S, NEW s \in Seq(S), \A i, j \in DOMAIN s : s[i] = s[j] => i = j, NEW c
  PROVE  /\ Without(s, c) \in Seq(S)
         /\ \A i, j \in DOMAIN Without(s, c) : Without(s, c)[i] = Without(s, c)[j] => i = j
         /\ \A x : (\E i \in DOMAIN Without(s, c) : Without(s, c)[i] = x)
                     <=> x # c /\ \E i \in DOMAIN s : s[i] = x
         /\ (\A i \in DOMAIN s : s[i] # c) => Len(Without(s, c)) = Len(s)
         /\ (\E i \in DOMAIN s : s[i] = c) => Len(Without(s, c)) = Len(s) - 1
  <1>1. Len(s) \in Nat /\ DOMAIN s = 1..Len(s)
    OBVIOUS
  <1>2. CASE \A i \in DOMAIN s : s[i] # c
    <2>1. Without(s, c) = s
      BY <1>2 DEF Without
    <2> QED
      BY <1>2, <2>1
  <1>3. CASE \E i \in DOMAIN s : s[i] = c
    <2>1. PICK k \in 1..Len(s) : s[k] = c
      BY <1>1, <1>3
    <2>2. indexOf(s, c) = k
      <3>1. \A i \in DOMAIN s : (s[i] = c /\ \A j \in DOMAIN s : s[j] = c => i <= j) <=> i = k
        BY <1>1, <2>1
      <3> QED
        BY <1>1, <3>1 DEF indexOf
    <2>3. PICK t : t = [i \in 1..(Len(s) - 1) |-> IF i < k THEN s[i] ELSE s[i + 1]]
      OBVIOUS
    <2>4. Without(s, c) = t
      BY <1>3, <2>2, <2>3 DEF Without
    <2>5. /\ DOMAIN t = 1..(Len(s) - 1)
          /\ \A i \in 1..(Len(s) - 1) : t[i] = IF i < k THEN s[i] ELSE s[i + 1]
      BY <2>3
    <2>6. Len(s) - 1 \in Nat /\ \A i \in 1..(Len(s) - 1) : i \in 1..Len(s) /\ i + 1 \in 1..Len(s)
      BY <1>1, <2>1
    <2>a. ASSUME NEW i \in 1..(Len(s) - 1)
          PROVE  \E a \in 1..Len(s) : t[i] = s[a] /\ ((i < k /\ a = i) \/ (i >= k /\ a = i + 1))
      <3>1. i < k \/ i >= k
        BY <2>1
      <3>2. CASE i < k
        BY <2>5, <2>6, <3>2
      <3>3. CASE i >= k
        <4>1. t[i] = s[i + 1] /\ i + 1 \in 1..Len(s)
          BY <2>1, <2>5, <2>6, <3>3
        <4> QED
          BY <3>3, <4>1
      <3> QED
        BY <3>1, <3>2, <3>3
    <2>7. t \in Seq(S) /\ Len(t) = Len(s) - 1
      <3>1. \A i \in 1..(Len(s) - 1) : t[i] \in S
        BY <2>5, <2>6
      <3>2. t \in [1..(Len(s) - 1) -> S]
        BY <2>3, <2>5, <3>1
      <3>3. PICK l \in Nat : l = Len(s) - 1
        BY <2>6
      <3>4. t \in [1..l -> S]
        BY <3>2, <3>3
      <3>5. t \in Seq(S)
        BY <3>4, SeqDef
      <3>6. DOMAIN t = 1..l /\ DOMAIN t = 1..Len(t) /\ Len(t) \in Nat
        BY <3>4, <3>5, LenProperties
      <3>7. Len(t) = l
        BY <3>6
      <3> QED
        BY <3>3, <3>5, <3>7
    <2>8. ASSUME NEW i \in 1..(Len(s) - 1), NEW j \in 1..(Len(s) - 1), t[i] = t[j] PROVE i = j
      <3>1. PICK a \in 1..Len(s) :
              t[i] = s[a] /\ ((i < k /\ a = i) \/ (i >= k /\ a = i + 1))
        BY <2>a
      <3>2. PICK b \in 1..Len(s) :
              t[j] = s[b] /\ ((j < k /\ b = j) \/ (j >= k /\ b = j + 1))
        BY <2>a
      <3>3. a = b
        BY <1>1, <2>8, <3>1, <3>2
      <3> QED
        BY <2>1, <3>1, <3>2, <3>3
    <2>9. ASSUME NEW x
          PROVE  (\E i \in 1..(Len(s) - 1) : t[i] = x) <=> x # c /\ \E i \in 1..Len(s) : s[i] = x
      <3>1. ASSUME NEW i \in 1..(Len(s) - 1), t[i] = x PROVE x # c /\ \E m \in 1..Len(s) : s[m] = x
        <4>1. PICK a \in 1..Len(s) : t[i] = s[a] /\ a # k
          <5>1. PICK a \in 1..Len(s) : t[i] = s[a] /\ ((i < k /\ a = i) \/ (i >= k /\ a = i + 1))
            BY <2>a
          <5>2. a # k
            BY <2>1, <5>1
          <5> QED
            BY <5>1, <5>2
        <4>2. s[a] # s[k]
          BY <1>1, <2>1, <4>1
        <4> QED
          BY <2>1, <3>1, <4>1, <4>2
      <3>2. ASSUME x # c, NEW i \in 1..Len(s), s[i] = x PROVE \E m \in 1..(Len(s) - 1) : t[m] = x
        <4>1. i # k
          BY <2>1, <3>2
        <4>2. CASE i < k
          <5>1. i \in 1..(Len(s) - 1)
            BY <1>1, <2>1, <4>2
          <5> QED
            BY <2>5, <3>2, <4>2, <5>1
        <4>3. CASE i > k
          <5>1. i - 1 \in 1..(Len(s) - 1) /\ ~ (i - 1 < k) /\ (i - 1) + 1 = i
            BY <1>1, <2>1, <4>3
          <5>2. t[i - 1] = s[i]
            BY <2>5, <5>1
          <5> QED
            BY <3>2, <5>1, <5>2
        <4> QED
          BY <2>1, <4>1, <4>2, <4>3
      <3> QED
        BY <3>1, <3>2
    <2> QED
      BY <1>1, <1>3, <2>4, <2>5, <2>7, <2>8, <2>9
  <1> QED
    BY <1>2, <1>3

-----------------------------------------------------------------------------
(* Aged-out failures in a list, before or after one more is recorded.      *)
LEMMA InWindowIs ==
  ASSUME watch \in Nat, NEW es \in Seq(Failure)
  PROVE  /\ AgedOut(es) \in SUBSET (1..Len(es))
         /\ Cardinality(AgedOut(es)) \in Nat /\ Cardinality(AgedOut(es)) <= Len(es)
         /\ InWindow(es) \in Seq(Failure)
         /\ Len(InWindow(es)) = Len(es) - Cardinality(AgedOut(es))
         /\ \A i \in 1..(Len(es) - Cardinality(AgedOut(es))) :
              /\ Cardinality(AgedOut(es)) + i \in DOMAIN es
              /\ InWindow(es)[i] = es[Cardinality(AgedOut(es)) + i]
  <1>1. Len(es) \in Nat /\ AgedOut(es) \in SUBSET (1..Len(es))
    BY DEF AgedOut
  <1>2. PICK k \in Nat : k = Cardinality(AgedOut(es)) /\ k <= Len(es)
    BY <1>1, Positions
  <1>3. k + 1 \in Nat /\ k + 1 >= 1 /\ k + 1 <= Len(es) + 1 /\ Len(es) - (k + 1) + 1 = Len(es) - k
    BY <1>1, <1>2
  <1>4. /\ SubSeq(es, k + 1, Len(es)) \in Seq(Failure)
        /\ Len(SubSeq(es, k + 1, Len(es))) = Len(es) - k
        /\ \A i \in 1..(Len(es) - k) :
             SubSeq(es, k + 1, Len(es))[i] = es[(k + 1) + i - 1] /\ (k + 1) + i - 1 \in DOMAIN es
    BY <1>3, EndOf
  <1>5. \A i \in 1..(Len(es) - k) : (k + 1) + i - 1 = k + i
    BY <1>1, <1>2
  <1> QED
    BY <1>1, <1>2, <1>4, <1>5 DEF InWindow

(* What record keeps: the new failure among it, no more than the cap, in   *)
(* the order of time.                                                      *)
LEMMA Kept ==
  ASSUME AnomalyInv, NEW c \in Suspect, NEW e \in Failure, e.at = watch,
         NEW kept, kept = InWindow(Append(failures[c], e)),
         NEW fs, fs = IF Len(kept) > MaxPerClient THEN Newest(kept) ELSE kept
  PROVE  /\ fs \in Seq(Failure) /\ fs # <<>> /\ Len(fs) <= MaxPerClient
         /\ \A i \in DOMAIN fs :
              /\ fs[i].at <= watch
              /\ \A j \in DOMAIN fs : i <= j => fs[i].at <= fs[j].at
  <1>0. /\ watch \in Nat /\ failures[c] \in Seq(Failure) /\ Window \in Nat \ {0}
        /\ MaxPerClient \in Nat \ {0}
    BY AnomalyAssumption DEF AnomalyInv, AnomalyTypeOK
  <1>1. PICK n \in Nat : n = Len(failures[c])
    BY <1>0
  <1>a. Append(failures[c], e) \in Seq(Failure)
    BY <1>0, AppendProperties
  <1>2. PICK es \in Seq(Failure) : es = Append(failures[c], e)
    BY <1>a
  <1>3. Len(es) = n + 1 /\ es[n + 1] = e /\ \A i \in 1..n : es[i] = failures[c][i]
    BY <1>0, <1>1, <1>2
  <1>4. \A i \in 1..(n + 1) : es[i].at \in Nat
    <2>1. \A i \in 1..(n + 1) : es[i] \in Failure
      BY <1>3
    <2> QED
      BY <2>1 DEF Failure
  <1>5. ASSUME NEW i \in 1..(n + 1)
        PROVE  es[i].at <= watch /\ \A j \in 1..(n + 1) : i <= j => es[i].at <= es[j].at
    <2>1. \A m \in 1..n : failures[c][m].at <= watch
                          /\ \A j \in 1..n : m <= j => failures[c][m].at <= failures[c][j].at
      BY <1>0, <1>1 DEF AnomalyInv, OldestFirst
    <2>2. CASE i = n + 1
      <3>1. \A j \in 1..(n + 1) : i <= j => j = n + 1
        BY <2>2
      <3> QED
        BY <1>0, <1>3, <2>2, <3>1
    <2>3. CASE i # n + 1
      <3>1. i \in 1..n /\ es[i] = failures[c][i] /\ es[i].at <= watch
        BY <1>3, <2>1, <2>3
      <3>2. ASSUME NEW j \in 1..(n + 1), i <= j PROVE es[i].at <= es[j].at
        <4>1. CASE j = n + 1
          BY <1>3, <3>1, <4>1
        <4>2. CASE j # n + 1
          <5>1. j \in 1..n
            BY <4>2
          <5> QED
            BY <1>3, <2>1, <3>1, <3>2, <5>1
        <4> QED
          BY <4>1, <4>2
      <3> QED
        BY <3>1, <3>2
    <2> QED
      BY <2>2, <2>3
  <1>6. PICK k \in Nat :
          /\ k = Cardinality(AgedOut(es)) /\ k <= n
          /\ kept \in Seq(Failure) /\ Len(kept) = n + 1 - k
          /\ \A i \in 1..(n + 1 - k) : k + i \in 1..(n + 1) /\ kept[i] = es[k + i]
    <2>1. AgedOut(es) \in SUBSET (1..n)
      <3>1. DOMAIN es = 1..(n + 1) /\ ~ (es[n + 1].at <= watch - Window)
        BY <1>0, <1>3
      <3> QED
        BY <3>1 DEF AgedOut
    <2>2. PICK k \in Nat : k = Cardinality(AgedOut(es)) /\ k <= n
      BY <2>1, Positions
    <2>3. kept = InWindow(es)
      BY <1>2
    <2>4. /\ kept \in Seq(Failure) /\ Len(kept) = Len(es) - k
          /\ \A i \in 1..(Len(es) - k) : k + i \in DOMAIN es /\ kept[i] = es[k + i]
      BY <1>0, <2>2, <2>3, InWindowIs
    <2>5. DOMAIN es = 1..(n + 1)
      BY <1>3
    <2>6. \A i \in 1..(n + 1 - k) : k + i \in 1..(n + 1) /\ kept[i] = es[k + i]
      BY <1>3, <2>4, <2>5
    <2>7. Len(kept) = n + 1 - k
      BY <1>3, <2>4
    <2> QED
      BY <2>2, <2>4, <2>6, <2>7
  <1>7. PICK m \in Nat :
          /\ fs \in Seq(Failure) /\ Len(fs) \in Nat \ {0} /\ Len(fs) <= MaxPerClient
          /\ \A i \in 1..Len(fs) : m + i \in 1..(n + 1) /\ fs[i] = es[m + i]
    <2>1. CASE Len(kept) <= MaxPerClient
      <3>1. fs = kept
        BY <1>0, <1>6, <2>1
      <3>2. Len(kept) \in Nat \ {0} /\ 1..Len(kept) = 1..(n + 1 - k)
        BY <1>6
      <3>3. \A i \in 1..Len(fs) : k + i \in 1..(n + 1) /\ fs[i] = es[k + i]
        BY <1>6, <3>1, <3>2
      <3> QED
        BY <1>6, <2>1, <3>1, <3>2, <3>3
    <2>2. CASE Len(kept) > MaxPerClient
      <3>1. fs = SubSeq(kept, Len(kept) - MaxPerClient + 1, Len(kept))
        BY <2>2 DEF Newest
      <3>2. PICK d \in Nat : d = Len(kept) - MaxPerClient
        BY <1>0, <1>6, <2>2
      <3>a. PICK l \in Nat, M \in Nat \ {0} : l = Len(kept) /\ M = MaxPerClient /\ d = l - M
        BY <1>0, <1>6, <3>2
      <3>b. d + 1 \in Nat /\ d + 1 >= 1 /\ d + 1 <= l + 1 /\ l - (d + 1) + 1 = M
        BY <3>a
      <3>3. d + 1 \in Nat /\ d + 1 >= 1 /\ d + 1 <= Len(kept) + 1 /\ Len(kept) - (d + 1) + 1 = MaxPerClient
        BY <3>a, <3>b
      <3>4. /\ fs \in Seq(Failure) /\ Len(fs) = MaxPerClient
            /\ \A i \in 1..MaxPerClient : fs[i] = kept[(d + 1) + i - 1] /\ (d + 1) + i - 1 \in DOMAIN kept
        <4>1. PICK q \in Nat : q = d + 1
          BY <3>3
        <4>2. /\ SubSeq(kept, q, Len(kept)) \in Seq(Failure)
              /\ Len(SubSeq(kept, q, Len(kept))) = Len(kept) - q + 1
              /\ \A i \in 1..(Len(kept) - q + 1) :
                   SubSeq(kept, q, Len(kept))[i] = kept[q + i - 1] /\ q + i - 1 \in DOMAIN kept
          <5>1. kept \in Seq(Failure) /\ q >= 1 /\ q <= Len(kept) + 1
            BY <1>6, <3>3, <4>1
          <5> QED
            BY <5>1, EndOf
        <4>3. fs = SubSeq(kept, q, Len(kept)) /\ Len(kept) - q + 1 = MaxPerClient
          BY <3>1, <3>2, <3>3, <4>1
        <4> QED
          BY <4>1, <4>2, <4>3
      <3>5. \A i \in 1..MaxPerClient : (k + d) + i \in 1..(n + 1) /\ fs[i] = es[(k + d) + i]
        <4> TAKE i \in 1..MaxPerClient
        <4>1. d + i \in 1..(n + 1 - k) /\ fs[i] = kept[d + i]
          <5>1. (d + 1) + i - 1 = d + i
            BY <1>0
          <5>2. fs[i] = kept[d + i] /\ d + i \in DOMAIN kept
            BY <3>4, <5>1
          <5>3. DOMAIN kept = 1..(n + 1 - k)
            BY <1>6
          <5> QED
            BY <5>2, <5>3
        <4>2. k + (d + i) = (k + d) + i
          BY <1>0
        <4>3. k + (d + i) \in 1..(n + 1) /\ kept[d + i] = es[k + (d + i)]
          BY <1>6, <4>1
        <4> QED
          BY <4>1, <4>2, <4>3
      <3>6. PICK m \in Nat : m = k + d
        OBVIOUS
      <3>7. \A i \in 1..Len(fs) : m + i \in 1..(n + 1) /\ fs[i] = es[m + i]
        BY <3>4, <3>5, <3>6
      <3>8. Len(fs) \in Nat \ {0} /\ Len(fs) <= MaxPerClient
        BY <1>0, <3>4
      <3> QED
        BY <3>4, <3>7, <3>8
    <2> QED
      BY <1>0, <1>6, <2>1, <2>2
  <1>8. DOMAIN fs = 1..Len(fs) /\ fs # <<>>
    BY <1>7
  <1>9. ASSUME NEW i \in 1..Len(fs)
        PROVE  fs[i].at <= watch /\ \A j \in 1..Len(fs) : i <= j => fs[i].at <= fs[j].at
    <2>1. m + i \in 1..(n + 1) /\ fs[i] = es[m + i]
      BY <1>7
    <2>2. ASSUME NEW j \in 1..Len(fs), i <= j PROVE fs[i].at <= fs[j].at
      <3>1. m + j \in 1..(n + 1) /\ fs[j] = es[m + j] /\ m + i <= m + j
        BY <1>7, <2>2
      <3> QED
        BY <1>5, <2>1, <3>1
    <2> QED
      BY <1>5, <2>1, <2>2
  <1> QED
    BY <1>7, <1>8, <1>9

(* A failure is recorded: OrderInv, from what becomes of the access order. *)
LEMMA OrderAfter ==
  ASSUME AnomalyTypeOK, OrderInv, NEW c \in Suspect,
         accessOrder' = Append(Without(IF Evicted(c) = {} THEN accessOrder ELSE Tail(accessOrder), c), c)
  PROVE  /\ accessOrder' \in Seq(Suspect) /\ Len(accessOrder') <= MaxEntries
         /\ \A i, j \in DOMAIN accessOrder' : accessOrder'[i] = accessOrder'[j] => i = j
         /\ \A d \in Suspect : (\E i \in DOMAIN accessOrder' : accessOrder'[i] = d)
                              <=> d = c \/ (d \in Tracked /\ d \notin Evicted(c))
  <1> DEFINE ao == accessOrder
  <1>1. /\ ao \in Seq(Suspect) /\ Len(ao) \in Nat /\ DOMAIN ao = 1..Len(ao) /\ Len(ao) <= MaxEntries
        /\ MaxEntries \in Nat \ {0}
        /\ \A i, j \in 1..Len(ao) : ao[i] = ao[j] => i = j
        /\ \A d \in Suspect : d \in Tracked <=> \E i \in 1..Len(ao) : ao[i] = d
    BY AnomalyAssumption DEF AnomalyTypeOK, OrderInv
  <1>2. Cardinality(Tracked) = Len(ao)
    <2>1. \A x : x \in Tracked <=> \E i \in DOMAIN ao : ao[i] = x
      <3>1. Tracked \subseteq Suspect /\ \A i \in DOMAIN ao : ao[i] \in Suspect
        BY <1>1 DEF Tracked
      <3> QED
        BY <1>1, <3>1
    <2> QED
      BY <1>1, <2>1, ListCounts
  <1> DEFINE base == IF Evicted(c) = {} THEN ao ELSE Tail(ao)
  <1>3. /\ base \in Seq(Suspect)
        /\ \A i, j \in DOMAIN base : base[i] = base[j] => i = j
        /\ \A d \in Suspect : (\E i \in DOMAIN base : base[i] = d) <=> d \in Tracked /\ d \notin Evicted(c)
        /\ Len(base) \in Nat
        /\ Len(base) < MaxEntries \/ (c \in Tracked /\ Evicted(c) = {} /\ Len(base) <= MaxEntries)
    <2>1. CASE Evicted(c) = {}
      <3>1. base = ao
        BY <2>1
      <3>2. c \in Tracked \/ Cardinality(Tracked) < MaxEntries \/ ao = <<>>
        <4>1. ~ (c \notin Tracked /\ Cardinality(Tracked) >= MaxEntries /\ ao # <<>>)
          BY <2>1 DEF Evicted
        <4> QED
          BY <1>1, <1>2, <4>1
      <3>3. ao = <<>> => Len(ao) = 0
        OBVIOUS
      <3> QED
        BY <1>1, <1>2, <2>1, <3>1, <3>2, <3>3
    <2>2. CASE Evicted(c) # {}
      <3>1. Evicted(c) = {ao[1]} /\ c \notin Tracked /\ ao # <<>>
        BY <2>2 DEF Evicted
      <3>2. base = Tail(ao)
        BY <2>2
      <3>3. PICK n \in Nat : n = Len(ao) - 1 /\ Len(ao) # 0
        <4>1. Len(ao) # 0
          BY <1>1, <3>1, EmptySeq
        <4>2. Len(ao) - 1 \in Nat
          BY <1>1, <4>1
        <4> QED
          BY <4>1, <4>2
      <3>4. PICK bs \in Seq(Suspect) :
              bs = base /\ Len(bs) = n /\ \A i \in 1..n : bs[i] = ao[i + 1]
        <4>1. /\ Tail(ao) \in Seq(Suspect) /\ Len(Tail(ao)) = Len(ao) - 1
              /\ \A i \in 1..Len(Tail(ao)) : Tail(ao)[i] = ao[i + 1]
          BY <1>1, <3>1, HeadTailProperties
        <4>2. Len(Tail(ao)) = n
          BY <3>3, <4>1
        <4> QED
          BY <3>2, <4>1, <4>2
      <3> HIDE DEF base
      <3>5. DOMAIN bs = 1..n
        BY <3>4
      <3>6. \A i \in 1..n : i + 1 \in 1..Len(ao) /\ i + 1 # 1
        BY <1>1, <3>3
      <3>7. ASSUME NEW i \in 1..n, NEW j \in 1..n, bs[i] = bs[j] PROVE i = j
        <4>0. ao[i + 1] = ao[j + 1]
          BY <3>4, <3>7
        <4>1. i + 1 = j + 1
          BY <1>1, <3>6, <4>0
        <4> QED
          BY <4>1
      <3>8. ASSUME NEW d \in Suspect
            PROVE  (\E i \in 1..n : bs[i] = d) <=> d \in Tracked /\ d # ao[1]
        <4>1. ASSUME NEW i \in 1..n, bs[i] = d PROVE d \in Tracked /\ d # ao[1]
          <5>1. ao[i + 1] = d /\ i + 1 \in 1..Len(ao) /\ 1 \in 1..Len(ao) /\ i + 1 # 1
            BY <1>1, <3>3, <3>4, <3>6, <4>1
          <5> QED
            BY <1>1, <5>1
        <4>2. ASSUME d \in Tracked, d # ao[1] PROVE \E i \in 1..n : bs[i] = d
          <5>1. PICK j \in 1..Len(ao) : ao[j] = d
            BY <1>1, <4>2
          <5>2. j - 1 \in 1..n /\ (j - 1) + 1 = j
            BY <1>1, <3>3, <4>2, <5>1
          <5>3. bs[j - 1] = d
            BY <3>4, <5>1, <5>2
          <5> QED
            BY <5>2, <5>3
        <4> QED
          BY <4>1, <4>2
      <3>9. Len(bs) = n /\ n < MaxEntries
        BY <1>1, <3>3, <3>4
      <3> QED
        BY <3>1, <3>4, <3>5, <3>7, <3>8, <3>9, Zenon
    <2> QED
      BY <2>1, <2>2
  <1> HIDE DEF base
  <1> DEFINE w == Without(base, c)
  <1>4. /\ w \in Seq(Suspect)
        /\ \A i, j \in DOMAIN w : w[i] = w[j] => i = j
        /\ \A x : (\E i \in DOMAIN w : w[i] = x) <=> x # c /\ \E i \in DOMAIN base : base[i] = x
        /\ (\A i \in DOMAIN base : base[i] # c) => Len(w) = Len(base)
        /\ (\E i \in DOMAIN base : base[i] = c) => Len(w) = Len(base) - 1
    BY <1>3, Spliced
  <1>5. accessOrder' = Append(w, c)
    BY DEF base
  <1> HIDE DEF w
  <1>6. PICK n \in Nat : n = Len(w) /\ DOMAIN w = 1..n
    BY <1>4
  <1>7. n < MaxEntries
    <2>1. CASE c \in Tracked /\ Evicted(c) = {} /\ Len(base) <= MaxEntries
      <3>1. \E i \in DOMAIN base : base[i] = c
        BY <1>3, <2>1
      <3> QED
        BY <1>1, <1>3, <1>4, <1>6, <2>1, <3>1
    <2>2. CASE Len(base) < MaxEntries
      <3>1. Len(w) = Len(base) \/ Len(w) = Len(base) - 1
        BY <1>4
      <3> QED
        BY <1>1, <1>3, <1>6, <2>2, <3>1
    <2> QED
      BY <1>3, <2>1, <2>2
  <1>8. PICK r \in Seq(Suspect) :
          r = accessOrder' /\ Len(r) = n + 1 /\ r[n + 1] = c /\ \A i \in 1..n : r[i] = w[i]
    <2>1. /\ Append(w, c) \in Seq(Suspect) /\ Len(Append(w, c)) = n + 1 /\ Append(w, c)[n + 1] = c
          /\ \A i \in 1..n : Append(w, c)[i] = w[i]
      BY <1>4, <1>6, AppendProperties
    <2> QED
      BY <1>5, <2>1
  <1>9. DOMAIN r = 1..(n + 1) /\ \A i \in 1..(n + 1) : i = n + 1 \/ i \in 1..n
    <2>1. DOMAIN r = 1..Len(r)
      BY <1>8, LenProperties
    <2>2. DOMAIN r = 1..(n + 1)
      BY <1>8, <2>1
    <2>3. \A i \in 1..(n + 1) : i = n + 1 \/ i \in 1..n
      BY <1>6
    <2> QED
      BY <2>2, <2>3
  <1>10. \A i \in 1..n : w[i] # c
    BY <1>4, <1>6
  <1>11. \A i, j \in 1..(n + 1) : r[i] = r[j] => i = j
    <2>1. \A i, j \in 1..n : w[i] = w[j] => i = j
      BY <1>4, <1>6
    <2>2. \A i, j \in 1..n : r[i] = r[j] => i = j
      BY <1>8, <2>1
    <2>3. \A i \in 1..n : r[i] # r[n + 1]
      BY <1>8, <1>10
    <2> QED
      BY <1>9, <2>2, <2>3
  <1>12. ASSUME NEW d \in Suspect
         PROVE  (\E i \in 1..(n + 1) : r[i] = d) <=> d = c \/ (d \in Tracked /\ d \notin Evicted(c))
    <2>1. (\E i \in 1..n : w[i] = d) <=> d # c /\ d \in Tracked /\ d \notin Evicted(c)
      BY <1>3, <1>4, <1>6
    <2>2. n + 1 \in 1..(n + 1) /\ \A i \in 1..n : i \in 1..(n + 1)
      OBVIOUS
    <2> QED
      BY <1>8, <1>9, <2>1, <2>2
  <1>13. Len(r) <= MaxEntries
    BY <1>1, <1>7, <1>8
  <1> QED
    BY <1>8, <1>9, <1>11, <1>12, <1>13

LEMMA AnomalyInvStep == AnomalyInv /\ [AnomalyNext]_anomalyVars => AnomalyInv'
  <1> SUFFICES ASSUME AnomalyInv, [AnomalyNext]_anomalyVars PROVE AnomalyInv'
    OBVIOUS
  <1>0. AnomalyTypeOK /\ OrderInv /\ OldestFirst /\ PerClientInv /\ IpsAreTracked
    BY DEF AnomalyInv
  <1>1. ASSUME NEW c \in Suspect, NEW ip \in Ip \cup {NoIp}, NEW kind \in Kinds, record(c, ip, kind)
        PROVE  AnomalyInv'
    <2> DEFINE e == [at |-> watch, kind |-> kind, ip |-> ip]
               kept == InWindow(Append(failures[c], e))
               fs == IF Len(kept) > MaxPerClient THEN Newest(kept) ELSE kept
    <2>1. e \in Failure /\ e.at = watch
      BY <1>0 DEF AnomalyTypeOK, Failure
    <2>2. /\ seen' = seen + 1 /\ watch' = watch
          /\ failures' = [d \in Suspect |-> IF d = c THEN fs
                                          ELSE IF d \in Evicted(c) THEN <<>> ELSE failures[d]]
          /\ accessOrder' = Append(Without(IF Evicted(c) = {} THEN accessOrder ELSE Tail(accessOrder), c), c)
          /\ ipFailures' = [i \in Ip |-> (ipFailures[i] \ Evicted(c)) \cup (IF i = ip THEN {c} ELSE {})]
      BY <1>1 DEF record
    <2> HIDE DEF e
    <2>3. /\ fs \in Seq(Failure) /\ fs # <<>> /\ Len(fs) <= MaxPerClient
          /\ \A i \in DOMAIN fs :
               /\ fs[i].at <= watch
               /\ \A j \in DOMAIN fs : i <= j => fs[i].at <= fs[j].at
      BY <2>1, Kept
    <2> HIDE DEF kept, fs
    <2>4. /\ accessOrder' \in Seq(Suspect) /\ Len(accessOrder') <= MaxEntries
          /\ \A i, j \in DOMAIN accessOrder' : accessOrder'[i] = accessOrder'[j] => i = j
          /\ \A d \in Suspect : (\E i \in DOMAIN accessOrder' : accessOrder'[i] = d)
                               <=> d = c \/ (d \in Tracked /\ d \notin Evicted(c))
      BY <1>0, <2>2, OrderAfter
    <2>5. /\ failures'[c] = fs
          /\ \A d \in Suspect \ {c} :
               \/ d \in Evicted(c) /\ failures'[d] = <<>>
               \/ d \notin Evicted(c) /\ failures'[d] = failures[d]
      BY <2>2
    <2>6. failures' \in [Suspect -> Seq(Failure)]
      <3>1. <<>> \in Seq(Failure) /\ \A d \in Suspect : failures[d] \in Seq(Failure)
        BY <1>0 DEF AnomalyTypeOK
      <3> QED
        BY <2>2, <2>3, <3>1
    <2>7. \A d \in Suspect : d \in Tracked' <=> d = c \/ (d \in Tracked /\ d \notin Evicted(c))
      BY <2>3, <2>5 DEF Tracked
    <2>8. ipFailures' \in [Ip -> SUBSET Suspect]
      BY <1>0, <2>2 DEF AnomalyTypeOK
    <2>9. AnomalyTypeOK'
      BY <1>0, <2>2, <2>4, <2>6, <2>8 DEF AnomalyTypeOK
    <2>10. OrderInv'
      BY <2>4, <2>7 DEF OrderInv
    <2>11. OldestFirst'
      <3> SUFFICES ASSUME NEW d \in Suspect
                   PROVE  \A i \in DOMAIN failures'[d] :
                            /\ failures'[d][i].at <= watch
                            /\ \A j \in DOMAIN failures'[d] :
                                 i <= j => failures'[d][i].at <= failures'[d][j].at
        BY <2>2 DEF OldestFirst
      <3>1. CASE d = c
        BY <2>3, <2>5, <3>1
      <3>2. CASE failures'[d] = <<>>
        BY <3>2
      <3>3. CASE failures'[d] = failures[d]
        BY <1>0, <3>3 DEF OldestFirst
      <3> QED
        BY <2>5, <3>1, <3>2, <3>3
    <2>12. PerClientInv'
      <3>1. Len(<<>>) <= MaxPerClient
        BY AnomalyAssumption
      <3> QED
        BY <1>0, <2>3, <2>5, <3>1 DEF PerClientInv
    <2>13. IpsAreTracked'
      <3> SUFFICES ASSUME NEW i \in Ip, NEW d \in ipFailures'[i] PROVE d \in Tracked'
        BY DEF IpsAreTracked
      <3>1. d = c \/ (d \in ipFailures[i] /\ d \notin Evicted(c))
        BY <2>2
      <3>2. d \in Suspect /\ (d = c \/ (d \in Tracked /\ d \notin Evicted(c)))
        BY <1>0, <3>1 DEF IpsAreTracked, AnomalyTypeOK
      <3> QED
        BY <2>7, <3>2
    <2> QED
      BY <2>9, <2>10, <2>11, <2>12, <2>13 DEF AnomalyInv
  <1>2. ASSUME NEW c \in Suspect, reset(c) PROVE AnomalyInv'
    <2>1. /\ failures' = [failures EXCEPT ![c] = <<>>] /\ watch' = watch /\ seen' = seen
          /\ accessOrder' = Without(accessOrder, c)
          /\ ipFailures' = [i \in Ip |-> ipFailures[i] \ {c}]
      BY <1>2 DEF reset
    <2>2. /\ accessOrder \in Seq(Suspect) /\ Len(accessOrder) \in Nat /\ Len(accessOrder) <= MaxEntries
          /\ MaxEntries \in Nat
          /\ \A i, j \in DOMAIN accessOrder : accessOrder[i] = accessOrder[j] => i = j
      BY <1>0, AnomalyAssumption DEF AnomalyTypeOK, OrderInv
    <2>3. /\ accessOrder' \in Seq(Suspect)
          /\ \A i, j \in DOMAIN accessOrder' : accessOrder'[i] = accessOrder'[j] => i = j
          /\ \A x : (\E i \in DOMAIN accessOrder' : accessOrder'[i] = x)
                      <=> x # c /\ \E i \in DOMAIN accessOrder : accessOrder[i] = x
          /\ (\A i \in DOMAIN accessOrder : accessOrder[i] # c) => Len(accessOrder') = Len(accessOrder)
          /\ (\E i \in DOMAIN accessOrder : accessOrder[i] = c) => Len(accessOrder') = Len(accessOrder) - 1
      BY <2>1, <2>2, Spliced
    <2>a. Len(accessOrder') = Len(accessOrder) \/ Len(accessOrder') = Len(accessOrder) - 1
      BY <2>3
    <2>4. Len(accessOrder') <= MaxEntries
      BY <2>2, <2>a
    <2>5. /\ failures' \in [Suspect -> Seq(Failure)] /\ failures'[c] = <<>>
          /\ \A d \in Suspect \ {c} : failures'[d] = failures[d]
      BY <1>0, <2>1 DEF AnomalyTypeOK
    <2>6. \A d \in Suspect : d \in Tracked' <=> d # c /\ d \in Tracked
      BY <2>5 DEF Tracked
    <2>7. AnomalyTypeOK'
      BY <1>0, <2>1, <2>3, <2>5 DEF AnomalyTypeOK
    <2>8. OrderInv'
      BY <1>0, <2>3, <2>4, <2>6 DEF OrderInv
    <2>9. OldestFirst'
      BY <1>0, <2>1, <2>5 DEF OldestFirst
    <2>10. PerClientInv'
      <3>1. Len(<<>>) <= MaxPerClient
        BY AnomalyAssumption
      <3> QED
        BY <1>0, <2>5, <3>1 DEF PerClientInv
    <2>11. IpsAreTracked'
      <3> SUFFICES ASSUME NEW i \in Ip, NEW d \in ipFailures'[i] PROVE d \in Tracked'
        BY DEF IpsAreTracked
      <3>1. d # c /\ d \in ipFailures[i]
        BY <2>1
      <3>2. d \in Suspect /\ d \in Tracked
        BY <1>0, <3>1 DEF IpsAreTracked, AnomalyTypeOK
      <3> QED
        BY <2>6, <3>1, <3>2
    <2> QED
      BY <2>7, <2>8, <2>9, <2>10, <2>11 DEF AnomalyInv
  <1>3. CASE watchTick
    <2>1. watch' = watch + 1 /\ UNCHANGED <<failures, ipFailures, accessOrder, seen>> /\ watch \in Nat
      BY <1>0, <1>3 DEF watchTick, AnomalyTypeOK
    <2>2. OldestFirst'
      <3>1. ASSUME NEW d \in Suspect, NEW i \in DOMAIN failures[d] PROVE failures[d][i].at <= watch + 1
        <4>1. failures[d][i] \in Failure
          BY <1>0 DEF AnomalyTypeOK
        <4>2. failures[d][i].at \in Nat /\ failures[d][i].at <= watch
          BY <1>0, <4>1 DEF OldestFirst, Failure
        <4> QED
          BY <2>1, <4>2
      <3> QED
        BY <1>0, <2>1, <3>1 DEF OldestFirst
    <2> QED
      BY <1>0, <2>1, <2>2 DEF AnomalyInv, AnomalyTypeOK, OrderInv, PerClientInv, IpsAreTracked, Tracked
  <1>4. CASE UNCHANGED anomalyVars
    BY <1>0, <1>4
       DEF anomalyVars, AnomalyInv, AnomalyTypeOK, OrderInv, OldestFirst, PerClientInv, IpsAreTracked, Tracked
  <1> QED
    BY <1>1, <1>2, <1>3, <1>4 DEF AnomalyNext

(* One failure alone scores at most 45.                                    *)
LEMMA OneFailureScoresLow ==
  ASSUME AnomalyInv, NEW c \in Suspect, Len(Scored(c)) <= 1
  PROVE  Verdict(c) # "attack"
  <1>0. watch \in Nat /\ failures[c] \in Seq(Failure)
    BY DEF AnomalyInv, AnomalyTypeOK
  <1>1. Scored(c) \in Seq(Failure)
    BY <1>0, InWindowIs DEF Scored
  <1>2. PICK es \in Seq(Failure) : es = Scored(c) /\ Len(es) \in Nat /\ Len(es) <= 1
    BY <1>1
  <1>3. ASSUME NEW kind PROVE OfKind(es, kind) \in Nat /\ OfKind(es, kind) <= 1
    <2>1. {i \in DOMAIN es : es[i].kind = kind} \in SUBSET (1..Len(es))
      BY <1>2
    <2>2. /\ Cardinality({i \in DOMAIN es : es[i].kind = kind}) \in Nat
          /\ Cardinality({i \in DOMAIN es : es[i].kind = kind}) <= Len(es)
      BY <1>2, <2>1, Positions
    <2> QED
      BY <1>2, <2>2 DEF OfKind
  <1>4. PICK st \in Nat, to \in Nat :
          st = OfKind(es, "stolen") /\ to = OfKind(es, "total") /\ st <= 1 /\ to <= 1
    BY <1>3
  <1>5. ~ (Len(es) >= HighRate) /\ ~ (Len(es) >= MediumRate)
    BY <1>2, AnomalyAssumption
  <1>6. PICK more \in Nat : more = (IF Distributed(es) THEN 25 ELSE 0) /\ more <= 25
    OBVIOUS
  <1>7. score(c) = IF es = <<>> THEN 0
                   ELSE 0 + (IF st >= 2 THEN 50 ELSE IF st = 1 THEN 20 ELSE 0)
                          + (IF to >= 3 THEN 30 ELSE 0) + more
    BY <1>2, <1>4, <1>5, <1>6 DEF score
  <1>8. score(c) \in Nat /\ score(c) <= 45
    BY <1>4, <1>6, <1>7
  <1> QED
    BY <1>8 DEF Verdict

LEMMA AnomalyIsSound == AnomalyInv => TrackingSound /\ ScoredIsTheWindow
  <1> SUFFICES ASSUME AnomalyInv PROVE TrackingSound /\ ScoredIsTheWindow
    OBVIOUS
  <1>0. AnomalyTypeOK /\ OrderInv /\ OldestFirst /\ PerClientInv /\ IpsAreTracked
    BY DEF AnomalyInv
  <1>1. TrackingBounded
    <2>1. /\ accessOrder \in Seq(Suspect) /\ Tracked \subseteq Suspect
          /\ \A i \in DOMAIN accessOrder : accessOrder[i] \in Suspect
      BY <1>0 DEF AnomalyTypeOK, Tracked
    <2>2. \A x : x \in Tracked <=> \E i \in DOMAIN accessOrder : accessOrder[i] = x
      BY <1>0, <2>1 DEF OrderInv
    <2>3. Cardinality(Tracked) = Len(accessOrder)
      BY <1>0, <2>1, <2>2, ListCounts DEF OrderInv
    <2> QED
      BY <1>0, <2>2, <2>3 DEF TrackingBounded, OrderInv, PerClientInv
  <1>2. AttackIsRecent
    <2> SUFFICES ASSUME NEW c \in Suspect,
                        ~ Cardinality({i \in DOMAIN failures[c] : failures[c][i].at > watch - Window}) >= 2
                 PROVE  Verdict(c) # "attack"
      BY DEF AttackIsRecent
    <2> DEFINE fs == failures[c]
               Recent == {i \in DOMAIN fs : fs[i].at > watch - Window}
    <2>1. /\ watch \in Nat /\ fs \in Seq(Failure) /\ Len(fs) \in Nat /\ DOMAIN fs = 1..Len(fs)
          /\ Window \in Nat
      BY <1>0, AnomalyAssumption DEF AnomalyTypeOK
    <2>2. \A i \in 1..Len(fs) : fs[i].at \in Nat
      <3>1. \A i \in 1..Len(fs) : fs[i] \in Failure
        BY <2>1
      <3> QED
        BY <3>1 DEF Failure
    <2>3. Recent = (1..Len(fs)) \ AgedOut(fs) /\ AgedOut(fs) = (1..Len(fs)) \cap AgedOut(fs)
      BY <2>1, <2>2 DEF AgedOut
    <2>4. IsFiniteSet(1..Len(fs)) /\ Cardinality(1..Len(fs)) = Len(fs)
      BY <2>1, FS_Interval
    <2>5. Cardinality(Recent) = Len(fs) - Cardinality(AgedOut(fs))
      <3>1. Cardinality((1..Len(fs)) \ AgedOut(fs))
              = Cardinality(1..Len(fs)) - Cardinality((1..Len(fs)) \cap AgedOut(fs))
        BY <2>4, FS_Difference
      <3> HIDE DEF fs, Recent
      <3> QED
        BY <2>3, <2>4, <3>1
    <2>6. Len(Scored(c)) = Len(fs) - Cardinality(AgedOut(fs)) /\ Len(Scored(c)) \in Nat
      <3>1. /\ Len(InWindow(fs)) = Len(fs) - Cardinality(AgedOut(fs))
            /\ InWindow(fs) \in Seq(Failure)
        BY <2>1, InWindowIs
      <3>2. Len(InWindow(fs)) \in Nat
        BY <3>1
      <3> QED
        BY <3>1, <3>2 DEF Scored
    <2>7. Len(Scored(c)) <= 1
      BY <2>5, <2>6
    <2> QED
      BY <2>7, OneFailureScoresLow
  <1>3. ScoredIsTheWindow
    <2> SUFFICES ASSUME NEW c \in Suspect, NEW i \in DOMAIN failures[c]
                 PROVE  failures[c][i].at > watch - Window <=> i > Cardinality(AgedOut(failures[c]))
      BY DEF ScoredIsTheWindow
    <2>1. PICK fs \in Seq(Failure) : fs = failures[c]
      BY <1>0 DEF AnomalyTypeOK
    <2>2. PICK n \in Nat : n = Len(fs) /\ DOMAIN fs = 1..n
      OBVIOUS
    <2>3. \A k \in 1..n : fs[k].at \in Nat
      <3>1. \A k \in 1..n : fs[k] \in Failure
        BY <2>2
      <3> QED
        BY <3>1 DEF Failure
    <2>4. watch \in Nat /\ Window \in Nat
      BY <1>0, AnomalyAssumption DEF AnomalyTypeOK
    <2>5. \A k, l \in 1..n : l <= k => fs[l].at <= fs[k].at
      BY <1>0, <2>1, <2>2 DEF OldestFirst
    <2>6. AgedOut(fs) \in SUBSET (1..n) /\ Cardinality(AgedOut(fs)) \in Nat
      BY <2>2, <2>4, InWindowIs
    <2>7. \A k \in 1..n : k \in AgedOut(fs) <=> fs[k].at <= watch - Window
      BY <2>2 DEF AgedOut
    <2>8. \A k \in AgedOut(fs), l \in 1..n : l <= k => l \in AgedOut(fs)
      BY <2>3, <2>4, <2>5, <2>6, <2>7
    <2>9. \A k \in 1..n : k \in AgedOut(fs) <=> k <= Cardinality(AgedOut(fs))
      BY <2>6, <2>8, FirstPositions
    <2>10. i \in 1..n
      BY <2>1, <2>2
    <2> QED
      BY <2>1, <2>3, <2>4, <2>6, <2>7, <2>9, <2>10
  <1> QED
    BY <1>0, <1>1, <1>2, <1>3 DEF TrackingSound

(* The inductive invariant: the order of eviction, the order of time, the  *)
(* caps and the addresses together.                                        *)
THEOREM AnomalyInvariant == AnomalySpec => []AnomalyInv
  <1>1. AnomalyInit => AnomalyInv
    <2> SUFFICES ASSUME AnomalyInit PROVE AnomalyInv
      OBVIOUS
    <2>1. Tracked = {} /\ \A d \in Suspect : failures[d] = <<>>
      BY DEF AnomalyInit, Tracked
    <2>2. Len(<<>>) = 0 /\ DOMAIN <<>> = {} /\ <<>> \in Seq(Failure) /\ <<>> \in Seq(Suspect)
      OBVIOUS
    <2>3. AnomalyTypeOK /\ IpsAreTracked
      BY <2>2 DEF AnomalyInit, AnomalyTypeOK, IpsAreTracked
    <2>4. OrderInv /\ OldestFirst /\ PerClientInv
      BY <2>1, <2>2, AnomalyAssumption DEF AnomalyInit, OrderInv, OldestFirst, PerClientInv
    <2> QED
      BY <2>3, <2>4 DEF AnomalyInv
  <1> QED
    BY <1>1, AnomalyInvStep, PTL DEF AnomalySpec

(* The engine keeps no more than maxEntries clients and maxEventsPerClient *)
(* failures of each, its access order and its addresses name exactly the   *)
(* clients it tracks, and an attack verdict rests on two failures inside   *)
(* the window, for every configuration with thresholds above one           *)
(* (MemoryAnomalyEngine record, reset and score).                          *)
THEOREM TrackingSoundHolds == AnomalySpec => []TrackingSound
  BY AnomalyInvariant, AnomalyIsSound, PTL

(* Dropping the leading failures that have aged out is the filter on       *)
(* timestamps that record and score apply: the list is in order of time.   *)
THEOREM WindowIsFilter == AnomalySpec => []ScoredIsTheWindow
  BY AnomalyInvariant, AnomalyIsSound, PTL

-----------------------------------------------------------------------------
(***************************************************************************)
(* KeyLayout: every layout covers the key, and the key the client puts     *)
(* together from lengths is the one the server slices at its positions.    *)
(***************************************************************************)

(* Sorting what is in order already changes nothing.                       *)
LEMMA AscendingKeeps ==
  ASSUME NEW s \in Seq(Int), \A i, j \in DOMAIN s : i < j => s[i] < s[j]
  PROVE  Ascending(s) = s
  <1>1. PICK n \in Nat : n = Len(s) /\ DOMAIN s = 1..n
    BY LenProperties
  <1>2. ASSUME NEW i \in 1..n PROVE Place(s, i) = i
    <2>1. {j \in DOMAIN s : s[j] < s[i] \/ (s[j] = s[i] /\ j < i)} = 1..(i - 1)
      <3>1. ASSUME NEW j \in 1..n PROVE (s[j] < s[i] \/ (s[j] = s[i] /\ j < i)) <=> j < i
        <4>1. s[i] \in Int /\ s[j] \in Int
          BY <1>1, ElementOfSeq
        <4>2. (j < i => s[j] < s[i]) /\ (i < j => s[i] < s[j])
          BY <1>1
        <4> QED
          BY <4>1, <4>2
      <3>2. \A j : j \in 1..(i - 1) <=> j \in 1..n /\ j < i
        OBVIOUS
      <3> QED
        BY <1>1, <3>1, <3>2
    <2>2. Cardinality(1..(i - 1)) = i - 1
      <3>1. 1 \in Int /\ i - 1 \in Int /\ (1 > i - 1 => i - 1 = 0)
        OBVIOUS
      <3>2. Cardinality(1..(i - 1)) = IF 1 > i - 1 THEN 0 ELSE (i - 1) - 1 + 1
        BY <3>1, FS_Interval
      <3> QED
        BY <3>1, <3>2
    <2>3. Place(s, i)
            = 1 + Cardinality({j \in DOMAIN s : s[j] < s[i] \/ (s[j] = s[i] /\ j < i)})
      BY DEF Place
    <2>4. Place(s, i) = 1 + Cardinality(1..(i - 1))
      BY <2>1, <2>3
    <2> QED
      BY <2>2, <2>4
  <1>3. ASSUME NEW i \in 1..n PROVE (CHOOSE j \in DOMAIN s : Place(s, j) = i) = i
    <2>1. \A j \in DOMAIN s : Place(s, j) = i <=> j = i
      BY <1>1, <1>2
    <2> HIDE DEF Place
    <2> QED
      BY <1>1, <2>1
  <1>4. Ascending(s) = [i \in 1..n |-> s[i]]
    <2>1. Ascending(s) = [x \in 1..n |-> s[CHOOSE i \in DOMAIN s : Place(s, i) = x]]
      BY <1>1 DEF Ascending
    <2>2. \A x \in 1..n : s[CHOOSE i \in DOMAIN s : Place(s, i) = x] = s[x]
      BY <1>3
    <2> QED
      BY <2>1, <2>2, Zenon
  <1> QED
    BY <1>1, <1>4

(* Room for more segments is more room.                                    *)
LEMMA RoomGrows ==
  ASSUME NEW a \in Int, NEW b \in Int, NEW m \in Nat, a <= b
  PROVE  a * m <= b * m
  <1>1. PICK d \in Nat : b = a + d
    <2>1. b - a \in Nat /\ b = a + (b - a)
      OBVIOUS
    <2> QED
      BY <2>1
  <1>2. b * m = a * m + d * m
    BY <1>1
  <1>3. d * m \in Nat /\ a * m \in Int
    OBVIOUS
  <1> QED
    BY <1>2, <1>3

LEMMA LayoutInvInit == LayoutInit => LayoutInv
  BY DEF LayoutInit, LayoutInv, LayoutCovers

LEMMA OptionsType ==
  ASSUME asked \in LayoutOptions
  PROVE  Options.keyLength \in Int /\ Options.minTumblers \in Int /\ Options.maxTumblers \in Int
  <1>1. PICK o : o = asked
    OBVIOUS
  <1>2. {o.keyLength, o.minTumblers, o.maxTumblers} \subseteq Int \cup {Unset}
    BY <1>1, LayoutAssumption
  <1>3. \A v \in Int \cup {Unset}, d \in Int : Given(v, d) \in Int
    BY DEF Given
  <1>4. /\ Options.keyLength = Given(o.keyLength, 64)
        /\ Options.minTumblers = Given(o.minTumblers, 2)
        /\ Options.maxTumblers = Given(o.maxTumblers, 5)
    BY <1>1 DEF Options, WithDefaults
  <1>5. /\ o.keyLength \in Int \cup {Unset} /\ o.minTumblers \in Int \cup {Unset}
        /\ o.maxTumblers \in Int \cup {Unset} /\ {64, 2, 5} \subseteq Int
    BY <1>2
  <1> QED
    BY <1>3, <1>4, <1>5

LEMMA DrawCountKeeps == LayoutInv /\ drawCount => LayoutInv'
  <1> SUFFICES ASSUME LayoutInv, drawCount PROVE LayoutInv'
    OBVIOUS
  <1>0. asked \in LayoutOptions /\ asked' = asked /\ pieces \in Nat /\ cuts \in Seq(Int)
    BY DEF LayoutInv, drawCount
  <1>1. CASE drawing' \in {"refused", "threw"}
    BY <1>0, <1>1 DEF drawCount, LayoutInv, LayoutCovers
  <1>2. CASE drawing' \notin {"refused", "threw"}
    <2>1. PICK n \in Options.minTumblers..Options.maxTumblers :
            /\ validateOptions(Options) /\ pieces' = n + 1 /\ cuts' = <<0>> /\ drawing' = "cutting"
      BY <1>2 DEF drawCount
    <2>2. PICK K, L, H \in Int : K = Options.keyLength /\ L = Options.minTumblers /\ H = Options.maxTumblers
      BY <1>0, OptionsType
    <2>3. MinSegment \in Nat /\ ChecksumLength \in Nat
      BY LayoutAssumption
    <2>4. L >= 1 /\ n \in Int /\ L <= n /\ n <= H /\ K >= (H + 1) * MinSegment + ChecksumLength
      BY <2>1, <2>2 DEF validateOptions
    <2>5. checksumStart' = K - ChecksumLength
      BY <1>0, <2>2 DEF checksumStart, Options
    <2>6. (n + 1) * MinSegment <= (H + 1) * MinSegment
      <3>1. n + 1 \in Int /\ H + 1 \in Int /\ n + 1 <= H + 1
        BY <2>4
      <3> QED
        BY <2>3, <3>1, RoomGrows
    <2>7. (n + 1) * MinSegment \in Int /\ (H + 1) * MinSegment \in Int
      BY <2>3, <2>4
    <2>8. 0 + (n + 1) * MinSegment <= K - ChecksumLength
      BY <2>3, <2>4, <2>6, <2>7
    <2>9. cuts' \in Seq(Int) /\ Len(cuts') = 1 /\ cuts'[1] = 0 /\ DOMAIN cuts' = {1}
      BY <2>1
    <2>10. pieces' \in Nat /\ pieces' >= 2 /\ pieces' - 1 + 1 = n + 1 /\ Len(cuts') \in 1..pieces'
      BY <2>1, <2>4, <2>9
    <2>11. Room' /\ checksumStart' \in Int
      <3>1. checksumStart' \in Int
        BY <2>3, <2>5
      <3>2. cuts'[1] + (pieces' - 1 + 1) * MinSegment <= checksumStart'
        BY <2>5, <2>8, <2>9, <2>10
      <3> QED
        BY <2>9, <3>1, <3>2 DEF Room
    <2>12. Apart'
      BY <2>9 DEF Apart
    <2> QED
      BY <1>0, <2>1, <2>9, <2>10, <2>11, <2>12 DEF LayoutInv, LayoutCovers
  <1> QED
    BY <1>1, <1>2

LEMMA DrawBoundaryKeeps == LayoutInv /\ drawBoundary => LayoutInv'
  <1> SUFFICES ASSUME LayoutInv, drawBoundary PROVE LayoutInv'
    OBVIOUS
  <1>1. PICK p \in Nat : p = pieces /\ p >= 2
    BY DEF LayoutInv, drawBoundary
  <1>2. PICK n \in Nat : n = Len(cuts) /\ n \in 1..p /\ n < p /\ DOMAIN cuts = 1..n
    BY <1>1 DEF LayoutInv, drawBoundary
  <1>3. PICK e \in Int : e = checksumStart
    BY DEF LayoutInv, drawBoundary
  <1>4. PICK m \in Nat : m = MinSegment
    BY LayoutAssumption
  <1>5. PICK c \in Int : c = cuts[n]
    BY <1>2, ElementOfSeq DEF LayoutInv
  <1>6. PICK ideal \in Int : cuts' = Append(cuts, Clamped(ideal))
    <2>1. PICK base \in Int : base = e \div p
      BY <1>1
    <2>2. PICK most \in Int : most = base \div 5
      OBVIOUS
    <2>3. PICK jitter \in -most..most : cuts' = Append(cuts, Clamped(n * base + jitter))
      BY <1>1, <1>2, <1>3, <2>1, <2>2 DEF drawBoundary
    <2>4. n * base + jitter \in Int
      OBVIOUS
    <2> QED
      BY <2>3, <2>4
  <1>7. PICK w \in Int : w = (p - n) * m
    BY <1>1, <1>2, <1>4
  <1>8. PICK x \in Int : x = Clamped(ideal) /\ c + m <= x /\ x + w <= e
    <2>1. Clamped(ideal) = Larger(c + m, Smaller(e - w, ideal))
      BY <1>1, <1>2, <1>3, <1>4, <1>5, <1>7 DEF Clamped
    <2>2. c + m + w <= e
      <3>1. c + (p - n + 1) * m <= e
        BY <1>1, <1>2, <1>3, <1>4, <1>5 DEF LayoutInv, Room, drawBoundary
      <3>2. (p - n + 1) * m = w + m
        BY <1>7
      <3> QED
        BY <3>1, <3>2
    <2>3. PICK x \in Int : x = Larger(c + m, Smaller(e - w, ideal))
      BY DEF Larger, Smaller
    <2> QED
      BY <2>1, <2>2, <2>3 DEF Larger, Smaller
  <1>9. /\ cuts' \in Seq(Int) /\ Len(cuts') = n + 1 /\ DOMAIN cuts' = 1..(n + 1) /\ cuts'[n + 1] = x
        /\ \A i \in 1..n : cuts'[i] = cuts[i]
    BY <1>2, <1>6, <1>8, AppendProperties DEF LayoutInv
  <1>10. \A i \in 1..(n + 1) : i = n + 1 \/ i \in 1..n
    OBVIOUS
  <1>11. \A i \in 1..n : cuts[i] \in Int
    BY <1>2, ElementOfSeq DEF LayoutInv
  <1>12. UNCHANGED <<drawing, asked, pieces>> /\ checksumStart' = checksumStart
    BY DEF drawBoundary, checksumStart, Options
  <1>13. Apart'
    <2>1. ASSUME NEW i \in 1..n PROVE cuts'[i] + m <= x
      <3>1. i = n \/ (i < n /\ n \in 1..n)
        OBVIOUS
      <3>2. i < n => cuts[i] + m <= c
        BY <1>2, <1>4, <1>5, <3>1 DEF LayoutInv, Apart, drawBoundary
      <3>3. PICK d \in Int : d = cuts[i] /\ cuts'[i] = d
        BY <1>9, <1>11
      <3>4. d = c \/ d + m <= c
        BY <1>5, <3>1, <3>2, <3>3
      <3>5. d + m <= x
        BY <1>8, <3>4
      <3> QED
        BY <3>3, <3>5
    <2>2. ASSUME NEW i \in 1..n, NEW j \in 1..n, i < j PROVE cuts'[i] + m <= cuts'[j]
      BY <1>2, <1>4, <1>9, <2>2 DEF LayoutInv, Apart, drawBoundary
    <2>3. ASSUME NEW i \in 1..(n + 1), NEW j \in 1..(n + 1), i < j PROVE cuts'[i] + m <= cuts'[j]
      <3>1. i \in 1..n
        BY <2>3
      <3> QED
        BY <1>9, <1>10, <2>1, <2>2, <2>3, <3>1
    <2> QED
      BY <1>4, <1>9, <2>3 DEF Apart
  <1>14. Room'
    <2>1. ASSUME NEW i \in 1..n PROVE cuts'[i] + (p - i + 1) * m <= e
      BY <1>1, <1>2, <1>3, <1>4, <1>9 DEF LayoutInv, Room, drawBoundary
    <2>2. cuts'[n + 1] + (p - (n + 1) + 1) * m <= e
      <3>1. p - (n + 1) + 1 = p - n
        OBVIOUS
      <3> QED
        BY <1>7, <1>8, <1>9, <3>1
    <2>3. \A i \in 1..(n + 1) : cuts'[i] + (p - i + 1) * m <= e
      BY <1>10, <2>1, <2>2
    <2> QED
      BY <1>1, <1>3, <1>4, <1>9, <1>12, <2>3 DEF Room
  <1>15. cuts'[1] = 0 /\ Len(cuts') \in 1..p
    BY <1>2, <1>9 DEF LayoutInv, drawBoundary
  <1>16. drawing = "cutting"
    BY DEF drawBoundary
  <1> QED
    BY <1>1, <1>3, <1>9, <1>12, <1>13, <1>14, <1>15, <1>16 DEF LayoutInv, LayoutCovers

LEMMA DrawTypesKeeps == LayoutInv /\ drawTypes => LayoutInv'
  <1> SUFFICES ASSUME LayoutInv, drawTypes PROVE LayoutInv'
    OBVIOUS
  <1>1. PICK p \in Nat : p = pieces /\ p >= 2 /\ p = Len(cuts) /\ DOMAIN cuts = 1..p /\ cuts \in Seq(Int)
    BY DEF LayoutInv, drawTypes
  <1>2. PICK e \in Int : e = checksumStart
    BY DEF LayoutInv, drawTypes
  <1>3. PICK m \in Nat : m = MinSegment /\ m > 0
    BY LayoutAssumption
  <1>4. \A i \in 1..p : cuts[i] \in Int
    BY <1>1, ElementOfSeq
  <1>5. \A i, j \in 1..p : i < j => cuts[i] + m <= cuts[j]
    BY <1>1, <1>3 DEF LayoutInv, Apart, drawTypes
  <1>6. \A i \in 1..p : cuts[i] + m <= e
    <2>1. ASSUME NEW i \in 1..p PROVE cuts[i] + m <= e
      <3>1. cuts[p] + (p - p + 1) * m <= e
        BY <1>1, <1>2, <1>3 DEF LayoutInv, Room, drawTypes
      <3>2. (p - p + 1) * m = m /\ cuts[p] \in Int /\ cuts[i] \in Int
        BY <1>1, <1>4
      <3>3. i = p \/ cuts[i] + m <= cuts[p]
        BY <1>1, <1>5
      <3> QED
        BY <3>1, <3>2, <3>3
    <2> QED
      BY <2>1
  <1>7. Ascending(cuts) = cuts
    <2>1. \A i, j \in DOMAIN cuts : i < j => cuts[i] < cuts[j]
      BY <1>1, <1>3, <1>4, <1>5
    <2> QED
      BY <1>1, <2>1, AscendingKeeps
  <1>8. cuts' = Append(cuts, e)
    BY <1>2, <1>7 DEF drawTypes
  <1>9. /\ cuts' \in Seq(Int) /\ Len(cuts') = p + 1 /\ DOMAIN cuts' = 1..(p + 1) /\ cuts'[p + 1] = e
        /\ \A i \in 1..p : cuts'[i] = cuts[i]
    BY <1>1, <1>8, AppendProperties
  <1>10. \A i \in 1..(p + 1) : i = p + 1 \/ i \in 1..p
    OBVIOUS
  <1>11. UNCHANGED <<asked, pieces>> /\ checksumStart' = checksumStart /\ drawing' = "cut"
    BY DEF drawTypes, checksumStart, Options
  <1>12. ASSUME NEW i \in 1..(p + 1), NEW j \in 1..(p + 1), i < j PROVE cuts'[i] + m <= cuts'[j]
    <2>1. i \in 1..p
      BY <1>12
    <2> QED
      BY <1>5, <1>6, <1>9, <1>10, <1>12, <2>1
  <1>13. Apart'
    BY <1>3, <1>9, <1>12 DEF Apart
  <1>14. ASSUME NEW i \in 1..p PROVE cuts'[i + 1] - cuts'[i] >= m
    <2>1. i \in 1..(p + 1) /\ i + 1 \in 1..(p + 1) /\ i < i + 1
      OBVIOUS
    <2>2. cuts'[i] + m <= cuts'[i + 1]
      BY <1>12, <2>1
    <2>3. cuts'[i] \in Int /\ cuts'[i + 1] \in Int
      BY <1>9, <2>1, ElementOfSeq
    <2> QED
      BY <2>2, <2>3
  <1>15. \E i \in 1..p : rotating'[i] = "hotp"
    <2>1. PICK required \in 2..p, ts \in [2..p -> {"totp", "hotp"}] :
            /\ ts[required] = "hotp"
            /\ rotating' = <<"static">> \o [i \in 1..(p - 1) |-> ts[i + 1]]
      BY <1>1 DEF drawTypes
    <2>2. PICK t : t = [i \in 1..(p - 1) |-> ts[i + 1]]
      OBVIOUS
    <2>3. t \in Seq({"totp", "hotp"}) /\ Len(t) = p - 1
      <3>0. \A i \in 1..(p - 1) : i + 1 \in 2..p
        BY <1>1
      <3>1. \A i \in 1..(p - 1) : ts[i + 1] \in {"totp", "hotp"}
        BY <3>0
      <3>2. t \in [1..(p - 1) -> {"totp", "hotp"}] /\ p - 1 \in Nat
        BY <1>1, <2>2, <3>1
      <3> QED
        BY <3>2
    <2>4. PICK u : u = <<"static">>
      OBVIOUS
    <2>5. u \in Seq({"static", "totp", "hotp"}) /\ Len(u) = 1 /\ t \in Seq({"static", "totp", "hotp"})
      <3>1. {"totp", "hotp"} \subseteq {"static", "totp", "hotp"}
        OBVIOUS
      <3> QED
        BY <2>3, <2>4, <3>1
    <2>6. required \in 1..p /\ required > 1 /\ required <= 1 + (p - 1) /\ required - 1 \in 1..(p - 1)
      BY <1>1
    <2>7. (u \o t)[required] = t[required - 1]
      BY <2>3, <2>5, <2>6, ConcatProperties
    <2>8. t[required - 1] = ts[required]
      BY <2>2, <2>6
    <2> QED
      BY <2>1, <2>2, <2>4, <2>6, <2>7, <2>8
  <1>16. cuts'[1] = 0
    BY <1>1, <1>9 DEF LayoutInv, drawTypes
  <1>17. LayoutCovers'
    BY <1>1, <1>2, <1>3, <1>9, <1>11, <1>14, <1>15, <1>16 DEF LayoutCovers
  <1> QED
    BY <1>1, <1>9, <1>11, <1>13, <1>17 DEF LayoutInv

(* randomNonOverlappingSegments: the boundaries drawn so far are a segment *)
(* apart, and leave room for the segments still to come.                   *)
THEOREM LayoutInvariant == LayoutSpec => []LayoutInv
  <1>1. LayoutInv /\ UNCHANGED layoutVars => LayoutInv'
    BY DEF LayoutInv, layoutVars, Apart, Room, LayoutCovers, checksumStart, Options
  <1>2. LayoutInv /\ [LayoutNext]_layoutVars => LayoutInv'
    BY <1>1, DrawCountKeeps, DrawBoundaryKeeps, DrawTypesKeeps DEF LayoutNext
  <1> QED
    BY <1>2, LayoutInvInit, PTL DEF LayoutSpec

(* The arithmetic of a slice from a + 1 to b of a key of length n.           *)
LEMMA SliceBounds ==
  ASSUME NEW a \in Nat, NEW b \in Nat, NEW l \in Nat, NEW n \in Nat, l = b - a, b <= n
  PROVE  /\ \A o \in (a + 1)..b : o \in 1..n
         /\ b - (a + 1) + 1 = l /\ (a + 1 <= b \/ l = 0)
         /\ \A o \in 1..l : a + o \in 1..n /\ a + 1 + o - 1 = a + o
  <1>1. a + l = b /\ (a + 1 <= b \/ l = 0)
    OBVIOUS
  <1> QED
    BY <1>1

(* What the client puts together from the lengths alone has, at each of    *)
(* the server's positions, the value derived for that segment.             *)
LEMMA AssembledKey ==
  ASSUME NEW p \in Nat, p >= 1, NEW c \in Seq(Int), Len(c) = p + 1, c[1] = 0,
         \A i, j \in DOMAIN c : i < j => c[i] < c[j],
         NEW seqs, seqs = [i \in 1..p |-> segmentValue(i, c[i + 1] - c[i])]
  PROVE  /\ Len(FlattenSeq(seqs)) = c[p + 1]
         /\ \A i \in 1..p : SubSeq(FlattenSeq(seqs), c[i] + 1, c[i + 1])
                              = segmentValue(i, c[i + 1] - c[i])
  <1> DEFINE PieceOf(x) == CHOOSE j \in 1..p : c[j] < x /\ x <= c[j + 1]
             Char(x) == <<PieceOf(x), x - c[PieceOf(x)]>>
             Chars == {Char(x) : x \in Int}
             Whole(n) == [x \in 1..n |-> Char(x)]
             w == [i \in 1..p |-> Whole(c[i + 1])]
  <1>1. DOMAIN c = 1..(p + 1) /\ \A i \in 1..(p + 1) : c[i] \in Int
    BY ElementOfSeq
  <1>2. \A i \in 1..p : i \in 1..(p + 1) /\ i + 1 \in 1..(p + 1)
    OBVIOUS
  <1>3. \A i, j \in 1..(p + 1) : i <= j => c[i] <= c[j]
    <2>1. ASSUME NEW i \in 1..(p + 1), NEW j \in 1..(p + 1), i <= j PROVE c[i] <= c[j]
      <3>1. c[i] \in Int /\ c[j] \in Int
        BY <1>1
      <3>2. i = j \/ i < j
        BY <2>1
      <3>3. i < j => c[i] < c[j]
        BY <1>1
      <3> QED
        BY <3>1, <3>2, <3>3
    <2> QED
      BY <2>1
  <1>4. ASSUME NEW j \in 1..p, NEW o \in 1..(c[j + 1] - c[j])
        PROVE  c[j] + o \in Int /\ Char(c[j] + o) = <<j, o>>
    <2>1. PICK a, b \in Int : a = c[j] /\ b = c[j + 1]
      BY <1>1, <1>2
    <2>2. PICK x \in Int : x = a + o /\ a < x /\ x <= b /\ x - a = o
      <3>1. o \in 1..(b - a)
        BY <2>1
      <3>2. a + o \in Int /\ a < a + o /\ a + o <= b /\ (a + o) - a = o
        BY <3>1
      <3> QED
        BY <3>2
    <2>3. ASSUME NEW i \in 1..p, c[i] < x, x <= c[i + 1] PROVE i = j
      <3>1. PICK a1, b1 \in Int : a1 = c[i] /\ b1 = c[i + 1]
        BY <1>1, <1>2
      <3>2. CASE i < j
        <4>1. i + 1 <= j /\ i + 1 \in 1..(p + 1) /\ j \in 1..(p + 1)
          BY <3>2
        <4>2. b1 <= a
          BY <1>3, <2>1, <3>1, <4>1
        <4> QED
          BY <2>2, <2>3, <3>1, <4>2
      <3>3. CASE j < i
        <4>1. j + 1 <= i /\ j + 1 \in 1..(p + 1) /\ i \in 1..(p + 1)
          BY <3>3
        <4>2. b <= a1
          BY <1>3, <2>1, <3>1, <4>1
        <4> QED
          BY <2>2, <2>3, <3>1, <4>2
      <3> QED
        BY <3>2, <3>3
    <2>4. PieceOf(x) = j
      <3>1. c[j] < x /\ x <= c[j + 1]
        BY <2>1, <2>2
      <3> QED
        BY <2>3, <3>1
    <2> HIDE DEF PieceOf
    <2> QED
      BY <2>1, <2>2, <2>4
  <1> HIDE DEF Char
  <1>5. \A n \in Nat : Whole(n) \in Seq(Chars) /\ Len(Whole(n)) = n /\ DOMAIN Whole(n) = 1..n
                       /\ \A x \in 1..n : Whole(n)[x] = Char(x)
    <2>1. ASSUME NEW n \in Nat PROVE Whole(n) \in [1..n -> Chars]
      OBVIOUS
    <2> HIDE DEF Chars
    <2>2. ASSUME NEW n \in Nat
          PROVE  Whole(n) \in Seq(Chars) /\ Len(Whole(n)) = n
      <3>1. PICK q \in [1..n -> Chars] : q = Whole(n)
        BY <2>1
      <3>2. q \in Seq(Chars) /\ Len(q) = n
        OBVIOUS
      <3> QED
        BY <3>1, <3>2
    <2>3. \A n \in Nat : DOMAIN Whole(n) = 1..n /\ \A x \in 1..n : Whole(n)[x] = Char(x)
      OBVIOUS
    <2> HIDE DEF Whole
    <2> QED
      BY <2>2, <2>3
  <1>6. ASSUME NEW i \in 1..p
        PROVE  /\ c[i + 1] - c[i] \in Nat /\ c[i + 1] \in Nat /\ c[i] \in Nat
               /\ seqs[i] \in Seq(Chars) /\ Len(seqs[i]) = c[i + 1] - c[i]
               /\ seqs[i] = segmentValue(i, c[i + 1] - c[i])
               /\ \A o \in 1..(c[i + 1] - c[i]) : seqs[i][o] = Char(c[i] + o)
    <2>1. PICK a, b \in Int : a = c[i] /\ b = c[i + 1]
      BY <1>1, <1>2
    <2>2. 0 <= a /\ a <= b
      <3>1. 1 \in 1..(p + 1) /\ i \in 1..(p + 1) /\ i + 1 \in 1..(p + 1) /\ 1 <= i /\ i <= i + 1
        OBVIOUS
      <3> QED
        BY <1>3, <2>1, <3>1
    <2>3. PICK l \in Nat : l = b - a
      BY <2>2
    <2>4. PICK v : v = seqs[i]
      OBVIOUS
    <2>5. v = [o \in 1..l |-> <<i, o>>] /\ v = segmentValue(i, l)
      BY <2>1, <2>3, <2>4 DEF segmentValue
    <2>6. \A o \in 1..l : <<i, o>> = Char(a + o) /\ a + o \in Int
      BY <1>4, <2>1, <2>3
    <2>7. \A o \in 1..l : <<i, o>> \in Chars
      BY <2>6
    <2>8. v \in [1..l -> Chars]
      <3> HIDE DEF Chars
      <3> QED
        BY <2>5, <2>7
    <2>9. v \in Seq(Chars) /\ Len(v) = l
      <3> HIDE DEF Chars
      <3> QED
        BY <2>8
    <2>10. \A o \in 1..l : v[o] = Char(a + o)
      BY <2>5, <2>6
    <2> HIDE DEF Chars
    <2> QED
      BY <2>1, <2>2, <2>3, <2>4, <2>5, <2>9, <2>10
  <1> HIDE DEF Chars
  <1>7. \A i \in 1..p : w[i] = Whole(c[i + 1])
    OBVIOUS
  <1> HIDE DEF Whole, w
  <1>8. ASSUME NEW i \in 1..p PROVE w[i] = IF i = 1 THEN seqs[i] ELSE w[i - 1] \o seqs[i]
    <2>1. PICK a, b, l \in Nat : a = c[i] /\ b = c[i + 1] /\ l = b - a
      BY <1>6
    <2>2. PICK v \in Seq(Chars) : v = seqs[i] /\ Len(v) = l /\ \A o \in 1..l : v[o] = Char(a + o)
      BY <1>6, <2>1
    <2>3. /\ w[i] = Whole(b) /\ Whole(b) \in Seq(Chars) /\ Len(Whole(b)) = b
          /\ \A x \in 1..b : Whole(b)[x] = Char(x)
      BY <1>5, <1>7, <2>1
    <2>4. CASE i = 1
      <3>1. a = 0 /\ l = b
        BY <2>1, <2>4
      <3>2. \A x \in 1..b : v[x] = Whole(b)[x]
        BY <2>2, <2>3, <3>1
      <3>3. v = Whole(b)
        BY <2>2, <2>3, <3>1, <3>2, SeqEqual
      <3> QED
        BY <2>2, <2>3, <2>4, <3>3
    <2>5. CASE i # 1
      <3>1. i - 1 \in 1..p /\ (i - 1) + 1 = i
        BY <2>5
      <3>2. /\ w[i - 1] = Whole(a) /\ Whole(a) \in Seq(Chars) /\ Len(Whole(a)) = a
            /\ \A x \in 1..a : Whole(a)[x] = Char(x)
        BY <1>5, <1>7, <2>1, <3>1
      <3>3. PICK u \in Seq(Chars) : u = Whole(a) /\ Len(u) = a
        BY <3>2
      <3>4. /\ u \o v \in Seq(Chars) /\ Len(u \o v) = a + l
            /\ \A x \in 1..(a + l) : (u \o v)[x] = IF x <= a THEN u[x] ELSE v[x - a]
        <4>1. Len(u) = a /\ Len(v) = l
          BY <2>2, <3>3
        <4>2. PICK S : S = Chars
          OBVIOUS
        <4>3. u \in Seq(S) /\ v \in Seq(S) /\ a \in Nat /\ l \in Nat
          BY <4>2
        <4>4. u \o v \in Seq(S)
          BY ONLY <4>3
        <4>5. Len(u \o v) = a + l
          BY ONLY <4>1, <4>3
        <4>6. \A x \in 1..(a + l) : (u \o v)[x] = IF x <= a THEN u[x] ELSE v[x - a]
          BY ONLY <4>1, <4>3, ConcatProperties
        <4> QED
          BY <4>2, <4>4, <4>5, <4>6
      <3>5. a + l = b
        BY <2>1
      <3>6. ASSUME NEW x \in 1..b PROVE (u \o v)[x] = Char(x)
        <4>1. CASE x <= a
          <5>1. x \in 1..a
            BY <4>1
          <5> QED
            BY <3>2, <3>3, <3>4, <3>5, <4>1, <5>1
        <4>2. CASE ~(x <= a)
          <5>1. x - a \in 1..l /\ a + (x - a) = x
            BY <3>5, <4>2
          <5>2. (u \o v)[x] = v[x - a]
            BY <3>4, <3>5, <4>2
          <5>3. v[x - a] = Char(a + (x - a))
            BY <2>2, <5>1
          <5> QED
            BY <5>1, <5>2, <5>3
        <4> QED
          BY <4>1, <4>2
      <3>7. u \o v = Whole(b)
        <4>1. PICK q \in Seq(Chars) : q = u \o v /\ Len(q) = b /\ \A x \in 1..b : q[x] = Char(x)
          BY <3>4, <3>5, <3>6
        <4>2. PICK t \in Seq(Chars) : t = Whole(b) /\ Len(t) = b /\ \A x \in 1..b : t[x] = Char(x)
          BY <2>3
        <4>3. \A x \in 1..b : q[x] = t[x]
          BY <4>1, <4>2
        <4>4. q = t
          BY <4>1, <4>2, <4>3, SeqEqual
        <4> QED
          BY <4>1, <4>2, <4>4
      <3> QED
        BY <2>2, <2>3, <2>5, <3>2, <3>3, <3>7
    <2> QED
      BY <2>4, <2>5
  <1> DEFINE Fixed(g) == g = [i \in 1..p |-> IF i = 1 THEN seqs[i] ELSE g[i - 1] \o seqs[i]]
             f == CHOOSE g : Fixed(g)
  <1>9. Fixed(w)
    <2>1. w = [i \in 1..p |-> w[i]]
      BY DEF w
    <2> QED
      BY <1>8, <2>1
  <1>10. Len(seqs) = p /\ p # 0
    OBVIOUS
  <1>11. FlattenSeq(seqs) = f[p]
    BY <1>10 DEF FlattenSeq
  <1>12. Fixed(f)
    BY <1>9
  <1>13. \A i \in 1..p : f[i] = IF i = 1 THEN seqs[i] ELSE f[i - 1] \o seqs[i]
    BY <1>12
  <1> HIDE DEF f, Fixed
  <1>14. \A i \in 1..p : f[i] = w[i]
    <2> SUFFICES ASSUME NEW z \in 1..p, f[z] # w[z] PROVE FALSE
      OBVIOUS
    <2> DEFINE T == {i \in 1..p : f[i] # w[i]}
    <2>1. T \in SUBSET Nat /\ T # {}
      <3>1. z \in T
        OBVIOUS
      <3>2. \A i \in T : i \in Nat
        OBVIOUS
      <3> QED
        BY <3>1, <3>2
    <2>2. PICK x \in T : \A y \in T : x <= y
      BY <2>1, LeastNumber
    <2>3. x \in 1..p /\ f[x] # w[x]
      OBVIOUS
    <2>4. x # 1
      BY <1>8, <1>13, <2>3
    <2>5. x - 1 \in 1..p /\ ~(x <= x - 1)
      BY <2>3, <2>4
    <2>6. f[x - 1] = w[x - 1]
      BY <2>2, <2>5
    <2> QED
      BY <1>8, <1>13, <2>3, <2>4, <2>6
  <1>15. PICK B \in Seq(Chars) : /\ B = FlattenSeq(seqs) /\ Len(B) = c[p + 1]
                                 /\ \A x \in 1..c[p + 1] : B[x] = Char(x)
    <2>1. p \in 1..p
      OBVIOUS
    <2>2. c[p + 1] \in Nat /\ w[p] = Whole(c[p + 1])
      BY <1>6, <1>7, <2>1
    <2> QED
      BY <1>5, <1>11, <1>14, <2>1, <2>2
  <1>16. ASSUME NEW i \in 1..p
         PROVE  SubSeq(B, c[i] + 1, c[i + 1]) = segmentValue(i, c[i + 1] - c[i])
    <2>1. PICK a, b, l, n \in Nat : a = c[i] /\ b = c[i + 1] /\ l = b - a /\ n = c[p + 1] /\ b <= n
      <3>1. p \in 1..p /\ i + 1 \in 1..(p + 1) /\ p + 1 \in 1..(p + 1) /\ i + 1 <= p + 1
        OBVIOUS
      <3> QED
        BY <1>3, <1>6, <3>1
    <2>2. PICK v \in Seq(Chars) : /\ v = segmentValue(i, l) /\ Len(v) = l
                                  /\ \A o \in 1..l : v[o] = Char(a + o)
      BY <1>6, <2>1
    <2>3. PICK s : s = SubSeq(B, a + 1, b)
      OBVIOUS
    <2>4. Len(B) = n /\ \A x \in 1..n : B[x] = Char(x) /\ B[x] \in Chars
      <3>1. Len(B) = n /\ \A x \in 1..n : B[x] = Char(x)
        BY <1>15, <2>1
      <3>2. \A x \in 1..n : B[x] \in Chars
        BY <3>1, ElementOfSeq
      <3> QED
        BY <3>1, <3>2
    <2>10. l = b - a /\ b <= n
      BY <2>1
    <2>5. /\ \A o \in (a + 1)..b : o \in 1..n
          /\ b - (a + 1) + 1 = l /\ (a + 1 <= b \/ l = 0)
          /\ \A o \in 1..l : a + o \in 1..n /\ a + 1 + o - 1 = a + o
      BY <2>10, SliceBounds
    <2>6. /\ s \in Seq(Chars) /\ Len(s) = (IF a + 1 <= b THEN b - (a + 1) + 1 ELSE 0)
          /\ \A o \in 1..(b - (a + 1) + 1) : s[o] = B[a + 1 + o - 1]
      <3>5. a + 1 \in Int /\ b \in Int
        OBVIOUS
      <3>6. \A o \in (a + 1)..b : B[o] \in Chars
        BY <2>4, <2>5
      <3>1. a + 1 \in Int /\ b \in Int /\ \A o \in (a + 1)..b : B[o] \in Chars
        BY <3>5, <3>6
      <3>2. PICK S, m : S = Chars /\ m = a + 1
        OBVIOUS
      <3>3. m \in Int /\ b \in Int /\ (\A o \in m..b : B[o] \in S) /\ s = SubSeq(B, m, b)
        BY <2>3, <3>1, <3>2
      <3>4. /\ s \in Seq(S) /\ Len(s) = (IF m <= b THEN b - m + 1 ELSE 0)
            /\ \A o \in 1..(b - m + 1) : s[o] = B[m + o - 1]
        BY ONLY <3>3, SubSeqProperties
      <3> QED
        BY <3>2, <3>4
    <2>8. Len(s) = l /\ \A o \in 1..l : s[o] = B[a + o]
      <3>1. b - (a + 1) + 1 = l /\ (a + 1 <= b \/ l = 0)
        BY <2>5
      <3>2. \A o \in 1..l : a + 1 + o - 1 = a + o
        BY <2>5
      <3>3. Len(s) = l
        BY <2>6, <3>1
      <3>4. \A o \in 1..l : s[o] = B[a + 1 + o - 1]
        BY <2>6, <3>1
      <3> QED
        BY <3>2, <3>3, <3>4
    <2>9. ASSUME NEW o \in 1..l PROVE s[o] = v[o]
      <3>1. a + o \in 1..n
        BY <2>5
      <3> QED
        BY <2>2, <2>4, <2>8, <3>1
    <2>7. s = v
      BY <2>2, <2>6, <2>8, <2>9, SeqEqual
    <2> QED
      BY <2>1, <2>2, <2>3, <2>7
  <1> QED
    BY <1>15, <1>16

(* Whatever generateTumblerMap draws under options that validateOptions     *)
(* admits, the segments cover the key and what generateKeyFromClientPayload *)
(* puts together matches validateTSKKey's slices: the drawn boundaries      *)
(* ascend strictly, so AssembledKey applies to them.                        *)
THEOREM LayoutSoundHolds == LayoutSpec => []LayoutSound
  <1>1. LayoutInv => LayoutSound
    <2> SUFFICES ASSUME LayoutInv, drawing = "cut" PROVE LayoutSound
      BY DEF LayoutSound, LayoutCovers, AssemblyAgrees
    <2>1. /\ Len(cuts) = pieces + 1 /\ cuts[1] = 0 /\ cuts[pieces + 1] = checksumStart
          /\ \E i \in 1..pieces : rotating[i] = "hotp"
      BY DEF LayoutInv, LayoutCovers
    <2>2. pieces \in Nat /\ pieces >= 1 /\ cuts \in Seq(Int)
      BY <2>1 DEF LayoutInv
    <2>3. \A i, j \in DOMAIN cuts : i < j => cuts[i] < cuts[j]
      <3> SUFFICES ASSUME NEW i \in DOMAIN cuts, NEW j \in DOMAIN cuts, i < j
                   PROVE  cuts[i] < cuts[j]
        OBVIOUS
      <3>1. cuts[i] + MinSegment <= cuts[j]
        BY DEF LayoutInv, Apart
      <3>2. cuts[i] \in Int /\ cuts[j] \in Int
        BY <2>2
      <3>3. MinSegment \in Nat /\ MinSegment > 0
        BY LayoutAssumption
      <3> QED
        BY <3>1, <3>2, <3>3
    <2>4. PICK p, c, seqs : /\ p = pieces /\ c = cuts
                            /\ seqs = [i \in 1..p |-> segmentValue(i, c[i + 1] - c[i])]
      OBVIOUS
    <2>5. /\ Len(FlattenSeq(seqs)) = c[p + 1]
          /\ \A i \in 1..p : SubSeq(FlattenSeq(seqs), c[i] + 1, c[i + 1])
                               = segmentValue(i, c[i + 1] - c[i])
      <3>1. p \in Nat /\ p >= 1 /\ c \in Seq(Int) /\ Len(c) = p + 1 /\ c[1] = 0
        BY <2>1, <2>2, <2>4
      <3>2. \A i, j \in DOMAIN c : i < j => c[i] < c[j]
        BY <2>3, <2>4
      <3>3. seqs = [i \in 1..p |-> segmentValue(i, c[i + 1] - c[i])]
        BY <2>4
      <3> QED
        BY ONLY <3>1, <3>2, <3>3, AssembledKey
    <2>6. seqs = [i \in 1..pieces |-> segmentValue(i, segmentLength(i))]
      BY <2>4 DEF segmentLength
    <2>7. FlattenSeq(seqs) = clientBody
      BY <2>6 DEF clientBody
    <2>8. Len(clientBody) = checksumStart
      BY <2>1, <2>4, <2>5, <2>7
    <2>9. \A i \in 1..pieces : sliceMatches(i)
      BY <2>4, <2>5, <2>7 DEF sliceMatches
    <2> QED
      BY <2>8, <2>9 DEF LayoutSound, AssemblyAgrees, LayoutInv
  <1> QED
    BY <1>1, LayoutInvariant, PTL

-----------------------------------------------------------------------------
(***************************************************************************)
(* ProvisionLimiter: the token bucket grants no more than it was refilled. *)
(***************************************************************************)

LEMMA DivIs ==
  ASSUME NEW a \in Nat, NEW R \in Nat \ {0}
  PROVE  /\ a \div R \in Nat
         /\ R * (a \div R) <= a
         /\ a < R * (a \div R) + R
  OBVIOUS
LEMMA DivLeast ==
  ASSUME NEW a \in Nat, NEW R \in Nat \ {0}, NEW q \in Nat, R * q <= a
  PROVE  q <= a \div R
  <1>1. PICK p \in Nat : p = a \div R /\ R * p <= a /\ a < R * p + R
    BY DivIs
  <1>2. SUFFICES ASSUME q >= p + 1 PROVE FALSE
    BY <1>1
  <1>3. R * q >= R * (p + 1)
    BY <1>2
  <1>4. R * (p + 1) = R * p + R
    OBVIOUS
  <1>5. R * q \in Nat /\ R * p \in Nat
    OBVIOUS
  <1> QED
    BY <1>1, <1>3, <1>4, <1>5
LEMMA DivSum ==
  ASSUME NEW a \in Nat, NEW b \in Nat, NEW R \in Nat \ {0}
  PROVE  a \div R + b \div R <= (a + b) \div R
  <1>1. PICK p \in Nat, q \in Nat : p = a \div R /\ R * p <= a /\ q = b \div R /\ R * q <= b
    BY DivIs
  <1>2. R * (p + q) = R * p + R * q /\ R * p \in Nat /\ R * q \in Nat
    OBVIOUS
  <1>3. R * (p + q) <= a + b /\ a + b \in Nat /\ p + q \in Nat
    BY <1>1, <1>2
  <1> QED
    BY <1>1, <1>3, DivLeast
LEMMA DivMonotone ==
  ASSUME NEW a \in Nat, NEW b \in Nat, NEW R \in Nat \ {0}, a <= b
  PROVE  a \div R <= b \div R
  <1>1. PICK p \in Nat : p = a \div R /\ R * p <= a /\ R * p \in Nat
    BY DivIs
  <1> QED
    BY <1>1, DivLeast
LEMMA DivCarry ==
  ASSUME NEW a \in Nat, NEW b \in Nat, NEW R \in Nat \ {0}, b < R
  PROVE  (a + b) \div R <= 1 + a \div R
  <1>1. PICK p \in Nat, q \in Nat : p = (a + b) \div R /\ R * p <= a + b /\ q = a \div R /\ R * q <= a /\ a < R * q + R
    <2>1. a + b \in Nat 
      OBVIOUS
    <2> QED BY <2>1, DivIs
  <1>2. SUFFICES ASSUME p >= q + 2 PROVE FALSE
    BY <1>1
  <1>3. R * p >= R * (q + 2) 
    BY <1>2
  <1>4. R * (q + 2) = R * q + R + R /\ R * q \in Nat /\ R * p \in Nat
    OBVIOUS
  <1> QED
    BY <1>1, <1>3, <1>4

-----------------------------------------------------------------------------
(* The provisioning limiter.                                               *)

BucketState == [known : BOOLEAN, tokens : 0..MaxTokens, lastRefill : Nat]

(* The credit of one grant at t, of which `left' grants are taken or to    *)
(* take, and the same after one more.                                      *)
Credit(t, left, last) ==
  /\ t <= last => left <= MaxTokens + (last - t) \div RefillTime
  /\ t > last => left < MaxTokens /\ t - last < RefillTime

LEMMA CreditIs == CreditInv <=>
  \A q \in Requestor : \A i \in DOMAIN grants[q] :
    /\ grants[q][i] <= instant
    /\ Credit(grants[q][i], Len(grants[q]) - i + 1 + bucket[q].tokens, bucket[q].lastRefill)
  BY DEF CreditInv, Credit

LEMMA CreditIsNext == CreditInv' <=>
  \A q \in Requestor : \A i \in DOMAIN grants'[q] :
    /\ grants'[q][i] <= instant'
    /\ Credit(grants'[q][i], Len(grants'[q]) - i + 1 + bucket'[q].tokens, bucket'[q].lastRefill)
  BY DEF CreditInv, Credit

(* A credit pays for what a stretch up to now has seen.                    *)
LEMMA CreditPays ==
  ASSUME NEW t \in Nat, NEW left \in Nat, NEW last \in Nat, NEW now \in Nat, t <= now, last <= now,
         Credit(t, left, last)
  PROVE  left <= MaxTokens + (now - t) \div RefillTime
  <1>1. PICK d \in Nat : d = now - t
    OBVIOUS
  <1>2. d \div RefillTime \in Nat
    BY DivIs, LimiterAssumption
  <1>3. CASE t > last
    BY <1>1, <1>2, <1>3, LimiterAssumption DEF Credit
  <1>4. CASE t <= last
    <2>1. PICK a \in Nat : a = last - t
      BY <1>4
    <2>2. a <= d /\ left <= MaxTokens + a \div RefillTime /\ a \div RefillTime \in Nat
      BY <1>1, <1>4, <2>1, DivIs, LimiterAssumption DEF Credit
    <2>3. a \div RefillTime <= d \div RefillTime
      BY <2>2, DivMonotone, LimiterAssumption
    <2> QED
      BY <1>1, <1>2, <2>2, <2>3, LimiterAssumption
  <1> QED
    BY <1>3, <1>4

(* A refill adds no more credit than the time since the last one.          *)
LEMMA CreditRefills ==
  ASSUME NEW t \in Nat, NEW left \in Nat, NEW last \in Nat, NEW now \in Nat, t <= now, last <= now,
         Credit(t, left, last), NEW more \in Nat, more <= left + (now - last) \div RefillTime
  PROVE  Credit(t, more, now)
  <1>0. RefillTime \in Nat \ {0} /\ MaxTokens \in Nat
    BY LimiterAssumption
  <1>1. PICK b \in Nat : b = now - last
    OBVIOUS
  <1>2. PICK n \in Nat : n = b \div RefillTime /\ more <= left + n
    BY <1>0, <1>1, DivIs
  <1>3. PICK d \in Nat : d = now - t
    OBVIOUS
  <1>4. PICK p \in Nat : p = d \div RefillTime
    BY <1>0, DivIs
  <1>5. CASE t <= last
    <2>1. PICK a \in Nat : a = last - t /\ d = a + b
      BY <1>1, <1>3, <1>5
    <2>2. PICK m \in Nat : m = a \div RefillTime /\ left <= MaxTokens + m
      BY <1>0, <1>5, <2>1, DivIs DEF Credit
    <2>3. m + n <= p
      BY <1>0, <1>2, <1>4, <2>1, <2>2, DivSum
    <2>4. more <= MaxTokens + p
      BY <1>0, <1>2, <2>2, <2>3
    <2> QED
      BY <1>3, <1>4, <2>4 DEF Credit
  <1>6. CASE t > last
    <2>1. PICK a \in Nat : a = t - last /\ b = d + a /\ a < RefillTime /\ left < MaxTokens
      BY <1>1, <1>3, <1>6 DEF Credit
    <2>2. n <= 1 + p
      BY <1>0, <1>2, <1>4, <2>1, DivCarry
    <2>3. more <= MaxTokens + p
      BY <1>0, <1>2, <2>1, <2>2
    <2> QED
      BY <1>3, <1>4, <2>3 DEF Credit
  <1> QED
    BY <1>5, <1>6

(* A grant at `now', from a bucket refilled at `last' and with `tok'       *)
(* tokens left, keeps the invariant.                                       *)
LEMMA Granted ==
  ASSUME LimiterInv, NEW q \in Requestor, NEW tok \in Nat, tok < MaxTokens, NEW last \in Nat,
         last <= instant,
         bucket' = [bucket EXCEPT ![q] = [known |-> TRUE, tokens |-> tok, lastRefill |-> last]],
         grants' = [grants EXCEPT ![q] = Append(grants[q], instant)],
         UNCHANGED <<refused, instant>>,
         last = instant \/ (\E i \in DOMAIN grants[q] : grants[q][i] = last),
         \A i \in DOMAIN grants[q] : Credit(grants[q][i], Len(grants[q]) - i + 2 + tok, last),
         Credit(instant, 1 + tok, last)
  PROVE  LimiterInv'
  <1>0. /\ LimiterTypeOK /\ RefillInv /\ CreditInv /\ RateBounded /\ RefusalsDoNotStarve
        /\ RefillTime \in Nat \ {0} /\ MaxTokens \in Nat
    BY LimiterAssumption DEF LimiterInv, LimiterSound
  <1> DEFINE b == [known |-> TRUE, tokens |-> tok, lastRefill |-> last]
  <1>1. /\ b \in BucketState /\ b.known = TRUE /\ b.tokens = tok /\ b.lastRefill = last
    BY <1>0 DEF BucketState
  <1>2. PICK g \in Seq(Nat) : g = grants[q]
    BY <1>0 DEF LimiterTypeOK
  <1> DEFINE g2 == Append(g, instant)
  <1>a. instant \in Nat
    BY <1>0 DEF LimiterTypeOK
  <1>3. /\ g2 \in Seq(Nat) /\ Len(g2) = Len(g) + 1 /\ DOMAIN g2 = 1..(Len(g) + 1)
        /\ g2[Len(g) + 1] = instant /\ \A i \in 1..Len(g) : g2[i] = g[i]
        /\ Len(g) \in Nat /\ DOMAIN g = 1..Len(g) /\ \A i \in 1..Len(g) : g[i] \in Nat
    BY <1>a
  <1>4. bucket' = [bucket EXCEPT ![q] = b] /\ grants' = [grants EXCEPT ![q] = g2]
    BY <1>2
  <1> HIDE DEF b, g2
  <1>5. /\ bucket' \in [Requestor -> BucketState] /\ grants' \in [Requestor -> Seq(Nat)]
        /\ bucket'[q] = b /\ grants'[q] = g2
        /\ \A r \in Requestor \ {q} : bucket'[r] = bucket[r] /\ grants'[r] = grants[r]
    BY <1>0, <1>1, <1>3, <1>4 DEF LimiterTypeOK, BucketState
  <1>6. LimiterTypeOK'
    BY <1>0, <1>5 DEF LimiterTypeOK, BucketState
  <1>7. \E i \in DOMAIN g2 : g2[i] = last
    <2>1. CASE last = instant
      <3>1. Len(g) + 1 \in DOMAIN g2
        BY <1>3
      <3> QED
        BY <1>3, <2>1, <3>1
    <2>2. CASE \E i \in DOMAIN g : g[i] = last
      <3>1. PICK i \in 1..Len(g) : g[i] = last
        BY <1>3, <2>2
      <3>2. i \in DOMAIN g2 /\ g2[i] = last
        BY <1>3, <3>1
      <3> QED
        BY <3>2
    <2> QED
      BY <1>2, <2>1, <2>2
  <1>8. RefillInv'
    <2> SUFFICES ASSUME NEW r \in Requestor
                 PROVE  IF bucket'[r].known
                        THEN /\ bucket'[r].tokens < MaxTokens /\ bucket'[r].lastRefill <= instant'
                             /\ \E i \in DOMAIN grants'[r] : grants'[r][i] = bucket'[r].lastRefill
                        ELSE grants'[r] = <<>> /\ refused'[r] = -1
      BY DEF RefillInv
    <2>1. CASE r = q
      BY <1>1, <1>5, <1>7, <2>1
    <2>2. CASE r # q
      BY <1>0, <1>5, <2>2 DEF RefillInv
    <2> QED
      BY <2>1, <2>2
  <1>9. ASSUME NEW i \in DOMAIN g2
        PROVE  /\ g2[i] \in Nat /\ g2[i] <= instant
               /\ Credit(g2[i], Len(g2) - i + 1 + tok, last)
    <2>1. CASE i = Len(g) + 1
      <3>1. Len(g2) - i + 1 + tok = 1 + tok /\ g2[i] = instant /\ instant \in Nat
        BY <1>0, <1>3, <2>1 DEF LimiterTypeOK
      <3> QED
        BY <3>1
    <2>2. CASE i # Len(g) + 1
      <3>1. i \in 1..Len(g)
        BY <1>3, <2>2
      <3>2. Len(g2) - i + 1 + tok = Len(g) - i + 2 + tok
        BY <1>3, <3>1
      <3>3. g2[i] = g[i] /\ g[i] \in Nat /\ g[i] <= instant
        BY <1>0, <1>2, <1>3, <3>1 DEF CreditInv
      <3>4. Credit(g[i], Len(g) - i + 2 + tok, last)
        BY <1>2, <1>3, <3>1
      <3> QED
        BY <3>2, <3>3, <3>4
    <2> QED
      BY <2>1, <2>2
  <1>10. CreditInv'
    <2> SUFFICES ASSUME NEW r \in Requestor, NEW i \in DOMAIN grants'[r]
                 PROVE  /\ grants'[r][i] <= instant'
                        /\ Credit(grants'[r][i], Len(grants'[r]) - i + 1 + bucket'[r].tokens,
                                  bucket'[r].lastRefill)
      BY CreditIsNext
    <2>1. CASE r = q
      BY <1>1, <1>5, <1>9, <2>1
    <2>2. CASE r # q
      BY <1>0, <1>5, <2>2, CreditIs
    <2> QED
      BY <2>1, <2>2
  <1>11. RateBounded'
    <2> SUFFICES ASSUME NEW r \in Requestor, NEW i \in DOMAIN grants'[r], NEW j \in DOMAIN grants'[r],
                        i <= j
                 PROVE  j - i + 1 <= MaxTokens + (grants'[r][j] - grants'[r][i]) \div RefillTime
      BY DEF RateBounded
    <2>1. CASE r # q
      BY <1>0, <1>5, <2>1 DEF RateBounded
    <2>2. CASE r = q /\ j \in 1..Len(g)
      <3>1. i \in 1..Len(g)
        BY <1>3, <1>5, <2>2
      <3>2. g2[i] = g[i] /\ g2[j] = g[j]
        BY <1>3, <2>2, <3>1
      <3>3. j - i + 1 <= MaxTokens + (g[j] - g[i]) \div RefillTime
        BY <1>0, <1>2, <1>3, <2>2, <3>1 DEF RateBounded
      <3> QED
        BY <1>5, <2>2, <3>2, <3>3
    <2>3. CASE r = q /\ j = Len(g) + 1
      <3>1. i \in 1..(Len(g) + 1) /\ i \in DOMAIN g2
        BY <1>3, <1>5, <2>3
      <3>2. PICK left \in Nat : left = Len(g2) - i + 1 + tok
        BY <1>3, <3>1
      <3>3. left <= MaxTokens + (instant - g2[i]) \div RefillTime
        BY <1>0, <1>9, <3>1, <3>2, CreditPays DEF LimiterTypeOK
      <3>4. j - i + 1 <= left
        BY <1>3, <2>3, <3>1, <3>2
      <3>5. PICK d \in Nat : d = instant - g2[i]
        BY <1>0, <1>9, <3>1 DEF LimiterTypeOK
      <3>6. d \div RefillTime \in Nat
        BY <1>0, <3>5, DivIs
      <3>7. j - i + 1 <= MaxTokens + d \div RefillTime
        BY <1>0, <1>3, <2>3, <3>1, <3>3, <3>4, <3>5, <3>6
      <3> QED
        BY <1>3, <1>5, <2>3, <3>5, <3>7
    <2>4. r = q => j \in 1..Len(g) \/ j = Len(g) + 1
      <3> SUFFICES ASSUME r = q PROVE j \in 1..Len(g) \/ j = Len(g) + 1
        OBVIOUS
      <3>1. j \in 1..(Len(g) + 1) /\ Len(g) \in Nat
        BY <1>3, <1>5
      <3> QED
        BY <3>1
    <2> QED
      BY <2>1, <2>2, <2>3, <2>4
  <1>12. RefusalsDoNotStarve'
    <2> SUFFICES ASSUME NEW r \in Requestor, refused[r] # -1
                 PROVE  \E i \in DOMAIN grants'[r] :
                          grants'[r][i] <= refused[r] /\ refused[r] - grants'[r][i] < RefillTime
      BY DEF RefusalsDoNotStarve
    <2>1. PICK i \in DOMAIN grants[r] : grants[r][i] <= refused[r] /\ refused[r] - grants[r][i] < RefillTime
      BY <1>0 DEF RefusalsDoNotStarve
    <2>2. i \in DOMAIN grants'[r] /\ grants'[r][i] = grants[r][i]
      <3>1. CASE r = q
        <4>1. i \in 1..Len(g) /\ Len(g) \in Nat
          BY <1>2, <1>3, <2>1, <3>1
        <4>2. i \in 1..(Len(g) + 1)
          BY <4>1
        <4> QED
          BY <1>2, <1>3, <1>5, <3>1, <4>1, <4>2
      <3>2. CASE r # q
        BY <1>5, <2>1, <3>2
      <3> QED
        BY <3>1, <3>2
    <2> QED
      BY <2>1, <2>2
  <1> QED
    BY <1>6, <1>8, <1>10, <1>11, <1>12 DEF LimiterInv, LimiterSound

LEMMA LimiterInvStep == LimiterInv /\ [LimiterNext]_limiterVars => LimiterInv'
  <1> SUFFICES ASSUME LimiterInv, [LimiterNext]_limiterVars PROVE LimiterInv'
    OBVIOUS
  <1>0. /\ LimiterTypeOK /\ RefillInv /\ CreditInv /\ RateBounded /\ RefusalsDoNotStarve
        /\ RefillTime \in Nat \ {0} /\ MaxTokens \in Nat \ {0}
    BY LimiterAssumption DEF LimiterInv, LimiterSound
  <1>1. ASSUME NEW q \in Requestor, allow(q) PROVE LimiterInv'
    <2>1. PICK o \in BucketState : o = bucket[q]
      BY <1>0 DEF LimiterTypeOK, BucketState
    <2>2. PICK g \in Seq(Nat) : g = grants[q]
      BY <1>0 DEF LimiterTypeOK
    <2>3. /\ instant \in Nat /\ Len(g) \in Nat /\ DOMAIN g = 1..Len(g)
          /\ o.tokens \in Nat /\ o.lastRefill \in Nat /\ o.known \in BOOLEAN
      BY <1>0, <2>1 DEF LimiterTypeOK, BucketState
    <2>4. ASSUME NEW i \in 1..Len(g)
          PROVE  /\ g[i] \in Nat /\ g[i] <= instant
                 /\ Credit(g[i], Len(g) - i + 1 + o.tokens, o.lastRefill)
                 /\ Len(g) - i + 1 + o.tokens \in Nat
      <3>1. g[i] \in Nat /\ Len(g) - i + 1 + o.tokens \in Nat
        BY <2>3
      <3> QED
        BY <1>0, <2>1, <2>2, <2>3, <3>1, CreditIs
    <2>5. CASE ~o.known
      <3>1. g = <<>> /\ Len(g) = 0
        BY <1>0, <2>1, <2>2, <2>5 DEF RefillInv
      <3>2. PICK tok \in Nat : tok = MaxTokens - 1
        BY <1>0
      <3>3. /\ bucket' = [bucket EXCEPT ![q] = [known |-> TRUE, tokens |-> tok, lastRefill |-> instant]]
            /\ grants' = [grants EXCEPT ![q] = Append(grants[q], instant)]
            /\ UNCHANGED <<refused, instant>>
        BY <1>0, <1>1, <2>1, <2>5, <3>2 DEF allow
      <3>4. Credit(instant, 1 + tok, instant)
        <4>1. 0 \div RefillTime \in Nat /\ instant - instant = 0
          BY <1>0, <2>3, DivIs
        <4> QED
          BY <1>0, <2>3, <3>2, <4>1 DEF Credit
      <3>5. \A i \in DOMAIN grants[q] : Credit(grants[q][i], Len(grants[q]) - i + 2 + tok, instant)
        BY <2>2, <2>3, <3>1
      <3>6. tok < MaxTokens /\ instant <= instant
        BY <1>0, <2>3, <3>2
      <3> QED
        BY <2>3, <3>3, <3>4, <3>5, <3>6, Granted
    <2>6. CASE o.known
      <3>1. o.tokens < MaxTokens /\ o.lastRefill <= instant /\ \E i \in DOMAIN g : g[i] = o.lastRefill
        BY <1>0, <2>1, <2>2, <2>6 DEF RefillInv
      <3>2. PICK d \in Nat : d = instant - o.lastRefill
        BY <2>3, <3>1
      <3>3. PICK new \in Nat : new = d \div RefillTime
        BY <1>0, DivIs
      <3>4. CASE new > 0
        <4>1. PICK tok \in Nat :
                tok + 1 = IF o.tokens + new > MaxTokens THEN MaxTokens ELSE o.tokens + new
          <5>1. (IF o.tokens + new > MaxTokens THEN MaxTokens ELSE o.tokens + new) - 1 \in Nat
            BY <1>0, <2>3, <3>4
          <5>2. PICK tok \in Nat :
                  tok = (IF o.tokens + new > MaxTokens THEN MaxTokens ELSE o.tokens + new) - 1
            BY <5>1
          <5>3. tok + 1 = IF o.tokens + new > MaxTokens THEN MaxTokens ELSE o.tokens + new
            BY <5>2, <1>0, <2>3
          <5> QED
            BY <5>3
        <4>2. tok < MaxTokens /\ tok + 1 <= o.tokens + new
          BY <1>0, <2>3, <4>1
        <4> DEFINE b == [known |-> TRUE, lastRefill |-> instant,
                         tokens |-> IF o.tokens + new > MaxTokens THEN MaxTokens ELSE o.tokens + new]
        <4>3. Refilled(bucket[q]) = b
          BY <2>1, <3>2, <3>3, <3>4 DEF Refilled
        <4>4. b.tokens = tok + 1 /\ b.lastRefill = instant
          BY <4>1
        <4> HIDE DEF b
        <4>5. b.tokens > 0 /\ b.tokens - 1 = tok
          BY <4>4
        <4>6. /\ bucket' = [bucket EXCEPT ![q] = [known |-> TRUE, tokens |-> tok, lastRefill |-> instant]]
              /\ grants' = [grants EXCEPT ![q] = Append(grants[q], instant)]
              /\ UNCHANGED <<refused, instant>>
          BY <1>1, <2>1, <2>6, <4>3, <4>4, <4>5 DEF allow
        <4>7. ASSUME NEW i \in 1..Len(g) PROVE Credit(g[i], Len(g) - i + 2 + tok, instant)
          <5>1. PICK left \in Nat : left = Len(g) - i + 1 + o.tokens
            BY <2>4
          <5>0. i \in Nat /\ i <= Len(g)
            BY <2>3
          <5>a. PICK n \in Nat, ot \in Nat, k \in Nat : n = Len(g) /\ ot = o.tokens /\ k = i /\ k <= n
            BY <2>3, <5>0
          <5>b. n - k + 2 + tok \in Nat
            BY <5>a
          <5>2. PICK more \in Nat : more = Len(g) - i + 2 + tok
            BY <5>a, <5>b
          <5>3. more <= left + new
            <6>1. left = n - k + 1 + ot /\ more = n - k + 2 + tok /\ tok + 1 <= ot + new
              BY <4>2, <5>1, <5>2, <5>a
            <6> QED
              BY <6>1
          <5>4. Credit(g[i], more, instant)
            BY <2>3, <2>4, <3>1, <3>2, <3>3, <5>1, <5>3, CreditRefills
          <5> QED
            BY <5>2, <5>4
        <4>8. Credit(instant, 1 + tok, instant)
          <5>1. 0 \div RefillTime \in Nat /\ instant - instant = 0
            BY <1>0, <2>3, DivIs
          <5> QED
            BY <1>0, <2>3, <4>2, <5>1 DEF Credit
        <4>9. instant <= instant
          BY <2>3
        <4> QED
          BY <2>2, <2>3, <4>2, <4>6, <4>7, <4>8, <4>9, Granted
      <3>5. CASE new = 0
        <4>1. Refilled(bucket[q]) = o
          BY <2>1, <3>2, <3>3, <3>5 DEF Refilled
        <4>2. d < RefillTime
          BY <1>0, <3>3, <3>5, DivIs
        <4>3. CASE o.tokens > 0
          <5>1. PICK tok \in Nat : tok = o.tokens - 1
            BY <2>3, <4>3
          <5>2. /\ bucket' = [bucket EXCEPT ![q] =
                                [known |-> TRUE, tokens |-> tok, lastRefill |-> o.lastRefill]]
                /\ grants' = [grants EXCEPT ![q] = Append(grants[q], instant)]
                /\ UNCHANGED <<refused, instant>>
            BY <1>1, <2>1, <2>6, <4>1, <4>3, <5>1 DEF allow
          <5>3. \A i \in 1..Len(g) : Credit(g[i], Len(g) - i + 2 + tok, o.lastRefill)
            <6> SUFFICES ASSUME NEW i \in 1..Len(g) PROVE Credit(g[i], Len(g) - i + 2 + tok, o.lastRefill)
              OBVIOUS
            <6>1. Len(g) - i + 2 + tok = Len(g) - i + 1 + o.tokens
              <7>0. i \in Nat
                BY <2>3
              <7>1. PICK n \in Nat, ot \in Nat, k \in Nat : n = Len(g) /\ ot = o.tokens /\ k = i /\ tok = ot - 1
                BY <2>3, <5>1, <7>0
              <7>a. tok = ot - 1
                BY <7>1
              <7>2. n - k + 2 + tok = n - k + 1 + ot
                BY <7>a
              <7> QED
                BY <7>1, <7>2
            <6> QED
              BY <2>4, <6>1
          <5>4. Credit(instant, 1 + tok, o.lastRefill)
            <6>1. instant <= o.lastRefill => instant = o.lastRefill
              BY <2>3, <3>1
            <6>2. 0 \div RefillTime \in Nat /\ instant - instant = 0
              BY <1>0, <2>3, DivIs
            <6>3. 1 + tok < MaxTokens /\ instant - o.lastRefill < RefillTime
              BY <1>0, <2>3, <3>1, <3>2, <4>2, <5>1
            <6> QED
              BY <1>0, <2>3, <6>1, <6>2, <6>3 DEF Credit
          <5>5. tok < MaxTokens
            BY <1>0, <2>3, <3>1, <5>1
          <5> QED
            BY <2>2, <2>3, <3>1, <5>2, <5>3, <5>4, <5>5, Granted
        <4>4. CASE o.tokens = 0
          <5>1. /\ bucket' = [bucket EXCEPT ![q] = o] /\ refused' = [refused EXCEPT ![q] = instant]
                /\ UNCHANGED <<grants, instant>>
            BY <1>1, <2>1, <2>6, <4>1, <4>4 DEF allow
          <5>2. bucket' = bucket
            BY <1>0, <2>1, <5>1 DEF LimiterTypeOK
          <5>3. /\ refused' \in [Requestor -> Nat \cup {-1}] /\ refused'[q] = instant
                /\ \A r \in Requestor \ {q} : refused'[r] = refused[r]
            BY <1>0, <2>3, <5>1 DEF LimiterTypeOK
          <5>4. LimiterTypeOK' /\ CreditInv' /\ RateBounded'
            BY <1>0, <5>1, <5>2, <5>3 DEF LimiterTypeOK, CreditInv, RateBounded
          <5>5. RefillInv'
            BY <1>0, <2>1, <2>6, <5>1, <5>2, <5>3 DEF RefillInv
          <5>6. RefusalsDoNotStarve'
            <6> SUFFICES ASSUME NEW r \in Requestor, refused'[r] # -1
                         PROVE  \E i \in DOMAIN grants[r] :
                                  grants[r][i] <= refused'[r] /\ refused'[r] - grants[r][i] < RefillTime
              BY <5>1 DEF RefusalsDoNotStarve
            <6>1. CASE r # q
              BY <1>0, <5>3, <6>1 DEF RefusalsDoNotStarve
            <6>2. CASE r = q
              <7>1. PICK i \in DOMAIN g : g[i] = o.lastRefill
                BY <3>1
              <7>2. g[i] <= instant /\ instant - g[i] < RefillTime
                BY <2>3, <3>1, <3>2, <4>2, <7>1
              <7> QED
                BY <2>2, <5>3, <6>2, <7>1, <7>2
            <6> QED
              BY <6>1, <6>2
          <5> QED
            BY <5>4, <5>5, <5>6 DEF LimiterInv, LimiterSound
        <4> QED
          BY <2>3, <4>3, <4>4
      <3> QED
        BY <3>4, <3>5
    <2> QED
      BY <2>5, <2>6
  <1>2. CASE instantPasses
    <2>1. /\ instant' = instant + 1 /\ UNCHANGED <<bucket, grants, refused>> /\ instant \in Nat
      BY <1>0, <1>2 DEF instantPasses, LimiterTypeOK
    <2>2. LimiterTypeOK' /\ RateBounded' /\ RefusalsDoNotStarve'
      BY <1>0, <2>1 DEF LimiterTypeOK, RateBounded, RefusalsDoNotStarve
    <2>3. RefillInv'
      <3>1. \A q \in Requestor : bucket[q].lastRefill \in Nat
        BY <1>0 DEF LimiterTypeOK
      <3> QED
        BY <1>0, <2>1, <3>1 DEF RefillInv
    <2>4. CreditInv'
      <3>1. \A q \in Requestor : \A i \in DOMAIN grants[q] : grants[q][i] \in Nat
        BY <1>0 DEF LimiterTypeOK
      <3>2. \A q \in Requestor : \A i \in DOMAIN grants[q] : grants[q][i] <= instant'
        BY <1>0, <2>1, <3>1 DEF CreditInv
      <3> QED
        BY <1>0, <2>1, <3>2, CreditIs, CreditIsNext
    <2> QED
      BY <2>2, <2>3, <2>4 DEF LimiterInv, LimiterSound
  <1>3. CASE UNCHANGED limiterVars
    BY <1>0, <1>3
       DEF limiterVars, LimiterInv, LimiterSound, LimiterTypeOK, RefillInv, CreditInv, RateBounded,
           RefusalsDoNotStarve
  <1> QED
    BY <1>1, <1>2, <1>3 DEF LimiterNext

(* No stretch of time sees more grants than a full bucket and the tokens   *)
(* it refills, and a requestor refused now was allowed less than one       *)
(* refill time ago, for every rate and any number of requestors            *)
(* (MemoryProvisionRateLimiter.allow).                                     *)
THEOREM LimiterSoundHolds == LimiterSpec => []LimiterSound
  <1>1. LimiterInit => LimiterInv
    BY LimiterAssumption
       DEF LimiterInit, LimiterInv, LimiterSound, LimiterTypeOK, RefillInv, CreditInv, RateBounded,
           RefusalsDoNotStarve
  <1>2. LimiterInv => LimiterSound
    BY DEF LimiterInv
  <1> QED
    BY <1>1, <1>2, LimiterInvStep, PTL DEF LimiterSpec
=============================================================================
