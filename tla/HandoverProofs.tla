--------------------------- MODULE HandoverProofs ---------------------------
(***************************************************************************)
(* Proofs about the control plane (ControlFence) and about the handover of *)
(* a stream between its nodes (SourceFence, Handover).                     *)
(*                                                                         *)
(* First ControlSpec: the control plane under any receipts and chains.     *)
(* Every change of the cutover log is one of four moves (LogMoves), and    *)
(* the parts of ControlInv follow from the moves.  Then HandoverSpec,      *)
(* whose control steps are steps of ControlSpec: an epoch has one owner    *)
(* (OwnerUnique), a node of an earlier epoch is frozen (LeasedNode), and   *)
(* freezes extend each other, which gives SingleSource, NoLostAppend and   *)
(* the refinement of SingleLog.                                            *)
(***************************************************************************)
EXTENDS Handover, FiniteSetTheorems, SequenceTheorems, TLAPS

ControlStep == ControlNext(FrozenReceipt, FinalizedReceipt, Chain)

(* What the phase of a row says about its fields.                          *)
LEMMA CutRowFacts ==
  ASSUME NEW r \in CutRow
  PROVE  /\ r.seq \in Nat /\ r.epoch \in Nat /\ r.epoch \in Epochs /\ r.cmd \in Cmd /\ r # NoCut
         /\ r.phase \in BeforeFence \cup PastFence /\ r.phase # "none"
         /\ r.phase = "SOURCE_FENCED" => r \in BoundRow /\ r.frozen \in FrozenReceipt
         /\ r.phase \in {"FENCED", "IMPORTING"} => r \in FencedRow
         /\ r.phase \in {"READY", "ACTIVE"} => r \in LiveRow /\ r.final \in FinalizedReceipt
  <1>1. r \in BareRow \/ r \in BoundRow \/ r \in FencedRow \/ r \in LiveRow
    BY DEF CutRow
  <1>2. CASE r \in BareRow
    BY <1>2, ControlAssumption DEF BareRow, Epochs, NoCut, BeforeFence, PastFence
  <1>3. CASE r \in BoundRow
    BY <1>3, ControlAssumption DEF BoundRow, Epochs, NoCut, BeforeFence, PastFence
  <1>4. CASE r \in FencedRow
    BY <1>4, ControlAssumption DEF FencedRow, Epochs, NoCut, BeforeFence, PastFence
  <1>5. CASE r \in LiveRow
    BY <1>5, ControlAssumption DEF LiveRow, Epochs, NoCut, BeforeFence, PastFence
  <1> QED
    BY <1>1, <1>2, <1>3, <1>4, <1>5

(* The rows the transitions write.                                         *)
LEMMA NewRows ==
  ASSUME NEW q \in Nat, NEW e \in Epochs, NEW c \in Cmd
  PROVE  /\ \A ph \in {"PREPARING", "ABORTED"} :
              [seq |-> q + 1, epoch |-> e, cmd |-> c, phase |-> ph] \in CutRow
         /\ \A fr \in FrozenReceipt :
              [seq |-> q + 1, epoch |-> e, cmd |-> c, phase |-> "SOURCE_FENCED", frozen |-> fr]
                \in CutRow
         /\ \A n \in Nat, rec \in Claim :
              \A ph \in {"FENCED", "IMPORTING"} :
                [seq |-> q + 1, epoch |-> e, cmd |-> c, phase |-> ph, lease |-> n, record |-> rec]
                  \in CutRow
         /\ \A br \in FinalizedReceipt :
              \A ph \in {"READY", "ACTIVE"} :
                [seq |-> q + 1, epoch |-> e, cmd |-> c, phase |-> ph, final |-> br] \in CutRow
  BY DEF CutRow, BareRow, BoundRow, FencedRow, LiveRow

LEMMA CallFacts ==
  ASSUME NEW x \in Call \cup {Idle}, x # Idle
  PROVE  /\ x \in Call /\ x.claim \in Claim /\ x.margin \in Nat /\ x.lease \in Nat
         /\ x.claim.epoch \in Nat /\ x.claim.epoch \in Epochs /\ x.claim.cmd \in Cmd
         /\ x.claim # NoRecord
         /\ [x EXCEPT !.pc = "claimed"] \in Call
         /\ [x EXCEPT !.pc = "claimed"] # Idle
         /\ [x EXCEPT !.pc = "claimed"].claim = x.claim
  BY ControlAssumption DEF Call, Claim, Idle, Epochs, NoRecord

LEMMA HeadFacts ==
  ASSUME ControlTypeOK
  PROVE  /\ wit.epoch \in Nat /\ wit.epoch \in Epochs /\ clock \in Nat
         /\ cut.seq \in Nat
         /\ cut.phase # "none" <=> cut \in CutRow
         /\ grant.seq \in Nat
         /\ grant # NoGrant => grant \in GrantRow
         /\ act.epoch \in Nat
         /\ MaxEpoch \in Nat
  <1>1. wit.epoch \in Nat /\ wit.epoch \in Epochs /\ clock \in Nat /\ MaxEpoch \in Nat
    BY ControlAssumption DEF ControlTypeOK, Epochs
  <1>2. cut.seq \in Nat /\ (cut.phase # "none" <=> cut \in CutRow)
    BY CutRowFacts DEF ControlTypeOK, NoCut
  <1>3. grant.seq \in Nat /\ (grant # NoGrant => grant \in GrantRow)
    BY DEF ControlTypeOK, NoGrant, GrantRow
  <1>4. act.epoch \in Nat
    BY ControlAssumption DEF ControlTypeOK, NoAct, ActRow, Epochs
  <1> QED
    BY <1>1, <1>2, <1>3, <1>4

(* A transition of the cutover log keeps its representation.               *)
LEMMA CutTyped ==
  ASSUME ControlTypeOK, NEW row \in CutRow, cutTransition(row)
  PROVE  cut' \in CutRow \cup {NoCut} /\ cuts' \subseteq CutRow
  BY DEF ControlTypeOK, cutTransition

LEMMA ControlTypeStep ==
  ASSUME ControlTypeOK, [ControlStep]_controlVars
  PROVE  ControlTypeOK'
  <1>1. ASSUME NEW m \in Marker, provisionIntent(m) PROVE ControlTypeOK'
    BY <1>1 DEF provisionIntent, ControlTypeOK
  <1>2. ASSUME NEW m \in Marker, provisionIncomplete(m) PROVE ControlTypeOK'
    <2>1. prov' = [state |-> "incomplete", marker |-> m]
      BY <1>2 DEF provisionIncomplete
    <2>2. 0 \in Epochs
      BY ControlAssumption DEF Epochs
    <2> QED
      BY <1>2, <2>1, <2>2 DEF provisionIncomplete, ControlTypeOK
  <1>3. ASSUME NEW m \in Marker, provisionComplete(m) PROVE ControlTypeOK'
    <2>1. prov' = [state |-> "provisioned", marker |-> m]
      BY <1>3 DEF provisionComplete
    <2>2. 0 \in Epochs
      BY ControlAssumption DEF Epochs
    <2> QED
      BY <1>3, <2>1, <2>2 DEF provisionComplete, ControlTypeOK
  <1>4. ASSUME NEW h \in Holder, NEW st \in Status, NEW x \in Times, NEW c \in LeaseCmd,
               writeLease(h, st, x, c)
        PROVE  ControlTypeOK'
    <2>1. grant' = [seq |-> grant.seq + 1, holder |-> h, epoch |-> wit.epoch,
                    status |-> st, max |-> x, cmd |-> c] /\ grants' = grants \cup {grant'}
      BY <1>4 DEF writeLease
    <2>2. grant.seq + 1 \in Nat \ {0} /\ wit.epoch \in Epochs
      BY HeadFacts
    <2>3. grant' \in GrantRow
      BY <2>1, <2>2 DEF GrantRow
    <2> QED
      BY <1>4, <2>1, <2>3 DEF writeLease, ControlTypeOK
  <1>5. ASSUME NEW c \in Cmd, beginPromotionIntent(c) PROVE ControlTypeOK'
    <2>1. wit.epoch + 1 \in Epochs
      BY <1>5, HeadFacts DEF beginPromotionIntent, Epochs
    <2>2. cut' \in CutRow \cup {NoCut} /\ cuts' \subseteq CutRow
      BY <1>5, <2>1, NewRows, HeadFacts, CutTyped DEF beginPromotionIntent
    <2> QED
      BY <1>5, <2>2 DEF beginPromotionIntent, ControlTypeOK
  <1>6. ASSUME NEW c \in Cmd, NEW fr \in FrozenReceipt, bindSourceFenced(c, fr) PROVE ControlTypeOK'
    <2>1. cut.epoch \in Epochs
      BY <1>6, HeadFacts, CutRowFacts DEF bindSourceFenced, CutAt
    <2>2. cut' \in CutRow \cup {NoCut} /\ cuts' \subseteq CutRow
      BY <1>6, <2>1, NewRows, HeadFacts, CutTyped DEF bindSourceFenced
    <2> QED
      BY <1>6, <2>2 DEF bindSourceFenced, ControlTypeOK
  <1>7. ASSUME NEW c \in Cmd, markImporting(c) PROVE ControlTypeOK'
    <2>1. cut.epoch \in Epochs /\ cut.lease \in Nat /\ cut.record \in Claim
      BY <1>7, HeadFacts, CutRowFacts DEF markImporting, CutAt, FencedRow
    <2>2. cut' \in CutRow \cup {NoCut} /\ cuts' \subseteq CutRow
      BY <1>7, <2>1, NewRows, HeadFacts, CutTyped DEF markImporting
    <2> QED
      BY <1>7, <2>2 DEF markImporting, ControlTypeOK
  <1>8. ASSUME NEW c \in Cmd, NEW br \in FinalizedReceipt, markReady(c, br) PROVE ControlTypeOK'
    <2>1. cut.epoch \in Epochs
      BY <1>8, HeadFacts, CutRowFacts DEF markReady, CutAt
    <2>2. cut' \in CutRow \cup {NoCut} /\ cuts' \subseteq CutRow
      BY <1>8, <2>1, NewRows, HeadFacts, CutTyped DEF markReady
    <2> QED
      BY <1>8, <2>2 DEF markReady, ControlTypeOK
  <1>9. ASSUME NEW c \in Cmd, activate(c) PROVE ControlTypeOK'
    <2>1. cut.epoch \in Epochs /\ cut.final \in FinalizedReceipt
      BY <1>9, HeadFacts, CutRowFacts DEF activate, CutAt
    <2>2. cut' \in CutRow \cup {NoCut} /\ cuts' \subseteq CutRow
      BY <1>9, <2>1, NewRows, HeadFacts, CutTyped DEF activate
    <2> QED
      BY <1>9, <2>2 DEF activate, ControlTypeOK
  <1>10. ASSUME NEW c \in Cmd, NEW prior \in Chain, activateSource(c, prior) PROVE ControlTypeOK'
    <2>1. cut \in CutRow /\ cut.epoch \in Epochs /\ cut.final \in FinalizedReceipt
      BY <1>10, HeadFacts, CutRowFacts DEF activateSource, CutAt
    <2>2. [epoch |-> cut.epoch, status |-> "active", cmd |-> c] \in Grant
      BY <2>1 DEF Grant
    <2>3. PICK ch : ch = Append(prior, [epoch |-> cut.epoch, status |-> "active", cmd |-> c])
      OBVIOUS
    <2>4. ch \in Chain
      BY <2>2, <2>3 DEF Chain
    <2>5. cut.final.node \in Node
      BY <2>1 DEF FinalizedReceipt
    <2>6. act' = [epoch |-> cut.epoch, cmd |-> c, node |-> cut.final.node, final |-> cut.final,
                  prior |-> prior, chain |-> ch]
          /\ acts' = acts \cup {act'}
      BY <1>10, <2>3 DEF activateSource
    <2>7. act' \in ActRow
      BY <2>1, <2>4, <2>5, <2>6 DEF ActRow
    <2> QED
      BY <1>10, <2>6, <2>7 DEF activateSource, ControlTypeOK
  <1>11. ASSUME NEW c \in Cmd, abortFencedPromotion(c) PROVE ControlTypeOK'
    <2>1. cut.epoch \in Epochs
      BY <1>11, HeadFacts, CutRowFacts DEF abortFencedPromotion
    <2>2. cut' \in CutRow \cup {NoCut} /\ cuts' \subseteq CutRow
      BY <1>11, <2>1, NewRows, HeadFacts, CutTyped DEF abortFencedPromotion
    <2> QED
      BY <1>11, <2>2 DEF abortFencedPromotion, ControlTypeOK
  <1>12. ASSUME NEW k \in Caller, NEW claim \in Claim, NEW margin \in Margin,
                advanceCheck(k, claim, margin)
         PROVE  ControlTypeOK'
    <2>1. grant.seq \in Nat
      BY HeadFacts
    <2>2. [pc |-> "claim", claim |-> claim, margin |-> margin, lease |-> grant.seq] \in Call
      BY <2>1 DEF Call
    <2> QED
      BY <1>12, <2>2 DEF advanceCheck, ControlTypeOK
  <1>13. ASSUME NEW k \in Caller, advanceClaim(k) PROVE ControlTypeOK'
    <2>1. calls[k] \in Call \cup {Idle} /\ calls[k] # Idle
      BY <1>13 DEF advanceClaim, ControlTypeOK, Idle
    <2>2. redis' \in Claim \cup {NoRecord}
      BY <1>13, <2>1, CallFacts DEF advanceClaim, ControlTypeOK
    <2>3. calls' \in [Caller -> Call \cup {Idle}]
      BY <1>13, <2>1, CallFacts DEF advanceClaim, ControlTypeOK
    <2> QED
      BY <1>13, <2>2, <2>3 DEF advanceClaim, ControlTypeOK
  <1>14. ASSUME NEW k \in Caller, advanceCommit(k) PROVE ControlTypeOK'
    <2>1. calls[k] \in Call \cup {Idle} /\ calls[k] # Idle
      BY <1>14 DEF advanceCommit, ControlTypeOK, Idle
    <2>2. PICK claim \in Claim : claim = calls[k].claim /\ claim.epoch \in Epochs /\ claim.cmd \in Cmd
      BY <2>1, CallFacts
    <2>3. cut' \in CutRow \cup {NoCut} /\ cuts' \subseteq CutRow
      BY <1>14, <2>2, NewRows, HeadFacts, CutTyped DEF advanceCommit
    <2>4. wit' \in [state : {"none", "incomplete", "provisioned"}, epoch : Epochs]
      BY <1>14, <2>2 DEF advanceCommit, ControlTypeOK
    <2> QED
      BY <1>14, <2>3, <2>4 DEF advanceCommit, ControlTypeOK
  <1>15. ASSUME NEW k \in Caller, advanceFails(k) PROVE ControlTypeOK'
    BY <1>15 DEF advanceFails, ControlTypeOK
  <1>16. CASE ClockTick
    BY <1>16, ControlAssumption DEF ClockTick, ControlTypeOK
  <1>17. CASE RedisLoses
    BY <1>17, ControlAssumption DEF RedisLoses, ControlTypeOK
  <1>18. CASE UNCHANGED controlVars
    BY <1>18 DEF controlVars, ControlTypeOK
  <1> QED
    BY <1>1, <1>2, <1>3, <1>4, <1>5, <1>6, <1>7, <1>8, <1>9, <1>10, <1>11, <1>12, <1>13, <1>14,
       <1>15, <1>16, <1>17, <1>18
       DEF ControlStep, ControlNext

-----------------------------------------------------------------------------
(* What a step may do to the cutover log and to the witness.               *)

OpensIntent(row) ==
  /\ cut.phase \in {"none", "ACTIVE", "ABORTED"} /\ row.phase = "PREPARING"
  /\ row.epoch = wit.epoch + 1 /\ wit'.epoch = wit.epoch

BindsFreeze(row) ==
  /\ cut.phase = "PREPARING" /\ row.phase = "SOURCE_FENCED"
  /\ row.epoch = cut.epoch /\ row.cmd = cut.cmd /\ row.frozen.epoch < row.epoch
  /\ wit'.epoch = wit.epoch

RaisesWitness(row) ==
  /\ cut.phase = "SOURCE_FENCED" /\ row.phase = "FENCED"
  /\ row.epoch = cut.epoch /\ row.cmd = cut.cmd
  /\ row.record.epoch = row.epoch /\ row.record.cmd = row.cmd
  /\ wit'.epoch = wit.epoch + 1 /\ UNCHANGED <<act, acts>>

GoesOn(row) ==
  /\ cut.phase \in {"FENCED", "IMPORTING", "READY"}
  /\ row.phase \in {"IMPORTING", "READY", "ACTIVE", "ABORTED"}
  /\ row.epoch = cut.epoch /\ row.cmd = cut.cmd
  /\ row.phase \in {"READY", "ACTIVE"} => row.final.node # row.final.frozen.node
  /\ wit'.epoch = wit.epoch /\ UNCHANGED <<act, acts>>

LogStep(row) ==
  /\ cut' = row /\ cuts' = cuts \cup {row} /\ UNCHANGED <<act, acts>>
  /\ OpensIntent(row) \/ BindsFreeze(row) \/ RaisesWitness(row) \/ GoesOn(row)

LogStutters == wit'.epoch = wit.epoch /\ UNCHANGED <<cut, cuts>>

LEMMA LogMoves ==
  ASSUME ControlTypeOK, ControlInv, [ControlStep]_controlVars
  PROVE  LogStutters \/ \E row \in CutRow : LogStep(row)
  <1>0. ControlTypeOK'
    BY ControlTypeStep
  <1>1. ASSUME NEW m \in Marker, provisionIncomplete(m) \/ provisionComplete(m) PROVE LogStutters
    <2>1. prov.state # "provisioned"
      BY <1>1 DEF provisionIncomplete, provisionComplete
    <2>2. wit.epoch = 0
      BY <2>1 DEF ControlInv, GenesisInv
    <2>3. wit'.epoch = 0
      BY <1>1 DEF provisionIncomplete, provisionComplete, ControlTypeOK
    <2> QED
      BY <1>1, <2>2, <2>3 DEF provisionIncomplete, provisionComplete, LogStutters
  <1>2. ASSUME NEW c \in Cmd, beginPromotionIntent(c) PROVE \E row \in CutRow : LogStep(row)
    <2>1. cut' = [seq |-> cut.seq + 1, epoch |-> wit.epoch + 1, cmd |-> c, phase |-> "PREPARING"]
          /\ cuts' = cuts \cup {cut'}
      BY <1>2 DEF beginPromotionIntent, cutTransition
    <2>2. cut' \in CutRow
      BY <1>0, <2>1, HeadFacts DEF ControlTypeOK, NoCut
    <2>3. OpensIntent(cut')
      BY <1>2, <2>1 DEF beginPromotionIntent, OpensIntent, Terminal
    <2> QED
      BY <1>2, <2>1, <2>2, <2>3 DEF beginPromotionIntent, LogStep
  <1>3. ASSUME NEW c \in Cmd, NEW fr \in FrozenReceipt, bindSourceFenced(c, fr)
        PROVE  \E row \in CutRow : LogStep(row)
    <2>1. cut' = [seq |-> cut.seq + 1, epoch |-> cut.epoch, cmd |-> c,
                  phase |-> "SOURCE_FENCED", frozen |-> fr]
          /\ cuts' = cuts \cup {cut'}
      BY <1>3 DEF bindSourceFenced, cutTransition
    <2>2. cut' \in CutRow
      BY <1>0, <2>1, HeadFacts DEF ControlTypeOK, NoCut
    <2>3. cut \in CutRow /\ cut.epoch \in Nat /\ act.epoch \in Nat
      BY <1>3, HeadFacts, CutRowFacts DEF bindSourceFenced, CutAt
    <2>4. fr.epoch = act.epoch /\ act.epoch < cut.epoch
      BY <1>3, <2>3 DEF bindSourceFenced, ConsumedActivationEpochs
    <2>5. BindsFreeze(cut')
      BY <1>3, <2>1, <2>4 DEF bindSourceFenced, BindsFreeze, CutAt
    <2> QED
      BY <1>3, <2>1, <2>2, <2>5 DEF bindSourceFenced, LogStep
  <1>4. ASSUME NEW c \in Cmd, markImporting(c) PROVE \E row \in CutRow : LogStep(row)
    <2>1. /\ cut' = [seq |-> cut.seq + 1, epoch |-> cut.epoch, cmd |-> c, phase |-> "IMPORTING",
                     lease |-> cut.lease, record |-> cut.record]
          /\ cuts' = cuts \cup {cut'}
      BY <1>4 DEF markImporting, cutTransition
    <2>2. cut' \in CutRow
      BY <1>0, <2>1, HeadFacts DEF ControlTypeOK, NoCut
    <2>3. GoesOn(cut')
      BY <1>4, <2>1 DEF markImporting, GoesOn, CutAt
    <2> QED
      BY <1>4, <2>1, <2>2, <2>3 DEF markImporting, LogStep
  <1>5. ASSUME NEW c \in Cmd, NEW br \in FinalizedReceipt, markReady(c, br)
        PROVE  \E row \in CutRow : LogStep(row)
    <2>1. /\ cut' = [seq |-> cut.seq + 1, epoch |-> cut.epoch, cmd |-> c, phase |-> "READY",
                     final |-> br]
          /\ cuts' = cuts \cup {cut'}
      BY <1>5 DEF markReady, cutTransition
    <2>2. cut' \in CutRow
      BY <1>0, <2>1, HeadFacts DEF ControlTypeOK, NoCut
    <2>3. GoesOn(cut')
      BY <1>5, <2>1 DEF markReady, GoesOn, CutAt
    <2> QED
      BY <1>5, <2>1, <2>2, <2>3 DEF markReady, LogStep
  <1>6. ASSUME NEW c \in Cmd, activate(c) PROVE \E row \in CutRow : LogStep(row)
    <2>1. /\ cut' = [seq |-> cut.seq + 1, epoch |-> cut.epoch, cmd |-> c, phase |-> "ACTIVE",
                     final |-> cut.final]
          /\ cuts' = cuts \cup {cut'}
      BY <1>6 DEF activate, cutTransition
    <2>2. cut' \in CutRow
      BY <1>0, <2>1, HeadFacts DEF ControlTypeOK, NoCut
    <2>3. cut.final.node # cut.final.frozen.node
      BY <1>6 DEF activate, CutAt, ControlInv, ActInv
    <2>4. GoesOn(cut')
      BY <1>6, <2>1, <2>3 DEF activate, GoesOn, CutAt
    <2> QED
      BY <1>6, <2>1, <2>2, <2>4 DEF activate, LogStep
  <1>7. ASSUME NEW c \in Cmd, abortFencedPromotion(c) PROVE \E row \in CutRow : LogStep(row)
    <2>1. /\ cut' = [seq |-> cut.seq + 1, epoch |-> cut.epoch, cmd |-> c, phase |-> "ABORTED"]
          /\ cuts' = cuts \cup {cut'}
      BY <1>7 DEF abortFencedPromotion, cutTransition
    <2>2. cut' \in CutRow
      BY <1>0, <2>1, HeadFacts DEF ControlTypeOK, NoCut
    <2>3. GoesOn(cut')
      BY <1>7, <2>1 DEF abortFencedPromotion, GoesOn, CutAt
    <2> QED
      BY <1>7, <2>1, <2>2, <2>3 DEF abortFencedPromotion, LogStep
  <1>8. ASSUME NEW k \in Caller, advanceCommit(k) PROVE \E row \in CutRow : LogStep(row)
    <2>1. calls[k] \in Call \cup {Idle} /\ calls[k] # Idle
      BY <1>8 DEF advanceCommit, ControlTypeOK, Idle
    <2>2. PICK claim \in Claim : claim = calls[k].claim /\ claim.epoch \in Nat
      BY <2>1, CallFacts
    <2>3. /\ cut' = [seq |-> cut.seq + 1, epoch |-> claim.epoch, cmd |-> claim.cmd,
                     phase |-> "FENCED", lease |-> grant.seq, record |-> claim]
          /\ cuts' = cuts \cup {cut'}
      BY <1>8, <2>2 DEF advanceCommit, cutTransition
    <2>4. cut' \in CutRow
      BY <1>0, <2>3, HeadFacts DEF ControlTypeOK, NoCut
    <2>5. Fenceable(claim.cmd, claim.epoch) /\ wit'.epoch = claim.epoch
      BY <1>8, <2>2 DEF advanceCommit, ControlTypeOK
    <2>6. wit'.epoch = wit.epoch + 1
      BY <2>2, <2>5, HeadFacts DEF Fenceable
    <2>7. UNCHANGED <<act, acts>>
      BY <1>8 DEF advanceCommit
    <2>8. RaisesWitness(cut')
      BY <2>2, <2>3, <2>5, <2>6, <2>7 DEF RaisesWitness, Fenceable, CutAt
    <2> QED
      BY <2>3, <2>4, <2>7, <2>8 DEF LogStep
  <1> QED
    BY <1>1, <1>2, <1>3, <1>4, <1>5, <1>6, <1>7, <1>8
       DEF ControlStep, ControlNext, controlVars, LogStutters, provisionIntent, writeLease,
           activateSource, advanceCheck, advanceClaim, advanceFails, ClockTick, RedisLoses

(* The cutover log against the witness.                                    *)
LEMMA CutStep ==
  ASSUME ControlTypeOK, ControlInv, [ControlStep]_controlVars
  PROVE  CutInv'
  <1>0. wit.epoch \in Nat /\ CutInv /\ (cut.phase # "none" => cut \in CutRow)
    BY HeadFacts DEF ControlInv
  <1>1. \A r \in cuts : r \in CutRow /\ r.epoch \in Nat
    BY CutRowFacts DEF ControlTypeOK
  <1>2. CASE LogStutters
    BY <1>0, <1>2 DEF LogStutters, CutInv, Rows
  <1>3. ASSUME NEW row \in CutRow, LogStep(row) PROVE CutInv'
    <2>1. /\ cut' = row /\ cuts' = cuts \cup {row}
          /\ row.epoch \in Nat /\ row.phase # "none" /\ row.phase \in BeforeFence \cup PastFence
      BY <1>3, CutRowFacts DEF LogStep
    <2>2. CASE OpensIntent(row)
      BY <1>0, <1>1, <2>1, <2>2 DEF OpensIntent, CutInv, Rows, BeforeFence, PastFence
    <2>3. CASE BindsFreeze(row)
      BY <1>0, <1>1, <2>1, <2>3 DEF BindsFreeze, CutInv, Rows, BeforeFence, PastFence
    <2>4. CASE RaisesWitness(row)
      BY <1>0, <1>1, <2>1, <2>4 DEF RaisesWitness, CutInv, Rows, BeforeFence, PastFence
    <2>5. CASE GoesOn(row)
      BY <1>0, <1>1, <2>1, <2>5 DEF GoesOn, CutInv, Rows, BeforeFence, PastFence
    <2> QED
      BY <1>3, <2>2, <2>3, <2>4, <2>5 DEF LogStep
  <1> QED
    BY <1>2, <1>3, LogMoves

LEMMA GenesisStep ==
  ASSUME ControlTypeOK, ControlInv, [ControlStep]_controlVars
  PROVE  GenesisInv'
  <1>1. ASSUME NEW m \in Marker, provisionIntent(m) \/ provisionIncomplete(m) \/ provisionComplete(m)
        PROVE  GenesisInv'
    BY <1>1 DEF provisionIntent, provisionIncomplete, provisionComplete, ControlInv, GenesisInv,
                Unprovisioned
  <1>2. ASSUME NEW k \in Caller, advanceCommit(k) PROVE GenesisInv'
    BY <1>2 DEF advanceCommit, Fenceable, ControlInv, GenesisInv
  <1>3. CASE UNCHANGED <<prov, wit>>
    BY <1>3 DEF ControlInv, GenesisInv
  <1> QED
    BY <1>1, <1>2, <1>3
       DEF ControlStep, ControlNext, controlVars, writeLease, beginPromotionIntent,
           bindSourceFenced, markImporting, markReady, activate, activateSource,
           abortFencedPromotion, advanceCheck, advanceClaim, advanceFails, ClockTick, RedisLoses

(* A claim for the SOURCE_FENCED intent stays one until its epoch is the   *)
(* witness: the only way out of SOURCE_FENCED raises the witness.          *)
LEMMA IntentStands ==
  ASSUME ControlTypeOK, ControlInv, [ControlStep]_controlVars, NEW e \in Nat, NEW c,
         e <= wit.epoch \/ (e = wit.epoch + 1 /\ CutAt("SOURCE_FENCED", c))
  PROVE  e <= wit'.epoch \/ (e = wit'.epoch + 1 /\ CutAt("SOURCE_FENCED", c)')
  <1>0. wit.epoch \in Nat
    BY HeadFacts
  <1>1. CASE LogStutters
    BY <1>1 DEF LogStutters, CutAt
  <1>2. ASSUME NEW row \in CutRow, LogStep(row)
        PROVE  e <= wit'.epoch \/ (e = wit'.epoch + 1 /\ CutAt("SOURCE_FENCED", c)')
    BY <1>0, <1>2 DEF LogStep, OpensIntent, BindsFreeze, RaisesWitness, GoesOn, CutAt
  <1> QED
    BY <1>1, <1>2, LogMoves

LEMMA CallsStep ==
  ASSUME ControlTypeOK, ControlInv, [ControlStep]_controlVars
  PROVE  CallsFollowIntent'
  <1> DEFINE Follows(x) == \/ x.claim.epoch <= wit.epoch
                           \/ x.claim.epoch = wit.epoch + 1 /\ CutAt("SOURCE_FENCED", x.claim.cmd)
  <1>0. \A k \in Caller : calls[k] \in Call \cup {Idle}
    BY DEF ControlTypeOK
  <1>1. ASSUME NEW k \in Caller, NEW x \in Call, Follows(x)
        PROVE  Follows(x)'
    <2>1. x.claim.epoch \in Nat
      BY ControlAssumption DEF Call, Claim, Epochs
    <2> QED
      BY <1>1, <2>1, IntentStands
  <1>2. ASSUME NEW k \in Caller, calls[k] # Idle PROVE calls[k] \in Call /\ Follows(calls[k])
    BY <1>0, <1>2 DEF ControlInv, CallsFollowIntent
  <1>3. ASSUME NEW k \in Caller, calls'[k] # Idle
        PROVE  \E x \in Call : calls'[k].claim = x.claim /\ Follows(x)
    <2>1. CASE calls'[k] = calls[k]
      BY <1>2, <1>3, <2>1
    <2>2. ASSUME NEW claim \in Claim, NEW margin \in Margin, advanceCheck(k, claim, margin)
          PROVE  \E x \in Call : calls'[k].claim = x.claim /\ Follows(x)
      <3>1. calls'[k] = [pc |-> "claim", claim |-> claim, margin |-> margin, lease |-> grant.seq]
        BY <2>2 DEF advanceCheck, ControlTypeOK
      <3>2. calls'[k] \in Call /\ calls'[k].claim = claim
        BY <3>1, HeadFacts DEF Call
      <3>3. claim.epoch \in Nat /\ wit.epoch \in Nat
        BY HeadFacts, ControlAssumption DEF Claim, Epochs
      <3>4. claim.epoch = wit.epoch + 1 /\ CutAt("SOURCE_FENCED", claim.cmd)
        BY <2>2, <3>3 DEF advanceCheck, Fenceable
      <3> QED
        BY <3>2, <3>4
    <2>3. CASE advanceClaim(k)
      <3>1. calls[k] # Idle
        BY <2>3 DEF advanceClaim, Idle
      <3>2. calls'[k].claim = calls[k].claim
        BY <1>0, <1>3, <2>3, <3>1, CallFacts DEF advanceClaim, ControlTypeOK
      <3> QED
        BY <1>2, <3>1, <3>2
    <2>4. CASE advanceCommit(k) \/ advanceFails(k)
      BY <1>3, <2>4 DEF advanceCommit, advanceFails, ControlTypeOK
    <2>5. ASSUME NEW j \in Caller \ {k},
                 \/ \E claim \in Claim, margin \in Margin : advanceCheck(j, claim, margin)
                 \/ advanceClaim(j) \/ advanceCommit(j) \/ advanceFails(j)
          PROVE  calls'[k] = calls[k]
      BY <2>5 DEF advanceCheck, advanceClaim, advanceCommit, advanceFails, ControlTypeOK
    <2>6. CASE UNCHANGED calls
      BY <2>1, <2>6
    <2>7. \/ UNCHANGED calls
          \/ \E j \in Caller : \/ \E claim \in Claim, margin \in Margin :
                                    advanceCheck(j, claim, margin)
                               \/ advanceClaim(j) \/ advanceCommit(j) \/ advanceFails(j)
      BY DEF ControlStep, ControlNext, controlVars, provisionIntent, provisionIncomplete,
             provisionComplete, writeLease, beginPromotionIntent, bindSourceFenced, markImporting,
             markReady, activate, activateSource, abortFencedPromotion, ClockTick, RedisLoses
    <2> QED
      BY <2>1, <2>2, <2>3, <2>4, <2>5, <2>6, <2>7
  <1> QED
    BY <1>1, <1>3 DEF CallsFollowIntent

LEMMA RedisStep ==
  ASSUME ControlTypeOK, ControlInv, [ControlStep]_controlVars
  PROVE  RedisFollowsIntent'
  <1>1. ASSUME redis' = redis PROVE RedisFollowsIntent'
    <2>1. redis # NoRecord => redis \in Claim /\ redis.epoch \in Nat
      BY ControlAssumption DEF ControlTypeOK, Claim, Epochs
    <2> QED
      BY <1>1, <2>1, IntentStands DEF ControlInv, RedisFollowsIntent
  <1>2. ASSUME NEW k \in Caller, advanceClaim(k) PROVE RedisFollowsIntent'
    <2>1. calls[k] \in Call \cup {Idle} /\ calls[k] # Idle
      BY <1>2 DEF advanceClaim, ControlTypeOK, Idle
    <2>2. redis' = redis \/ redis' = calls[k].claim
      BY <1>2 DEF advanceClaim
    <2>3. calls[k].claim.epoch \in Nat
      BY <2>1, CallFacts
    <2> QED
      BY <1>1, <2>1, <2>2, <2>3, IntentStands DEF ControlInv, CallsFollowIntent, RedisFollowsIntent
  <1>3. CASE RedisLoses
    BY <1>3 DEF RedisLoses, RedisFollowsIntent
  <1> QED
    BY <1>1, <1>2, <1>3
       DEF ControlStep, ControlNext, controlVars, provisionIntent, provisionIncomplete,
           provisionComplete, writeLease, beginPromotionIntent, bindSourceFenced, markImporting,
           markReady, activate, activateSource, abortFencedPromotion, ClockTick,
           advanceCheck, advanceCommit, advanceFails

(* The FENCED row of an epoch and the freeze it rests on are there once.   *)
LEMMA BackedStep ==
  ASSUME ControlTypeOK, ControlInv, [ControlStep]_controlVars
  PROVE  WitnessIsBacked'
  <1>0. wit.epoch \in Nat /\ CutInv /\ WitnessIsBacked /\ (cut.phase # "none" => cut \in CutRow)
    BY HeadFacts DEF ControlInv
  <1>1. CASE LogStutters
    BY <1>0, <1>1 DEF LogStutters, WitnessIsBacked, Rows, BoundFreeze
  <1>2. ASSUME NEW row \in CutRow, LogStep(row) PROVE WitnessIsBacked'
    <2>1. /\ cut' = row /\ cuts' = cuts \cup {row}
          /\ row.epoch \in Nat /\ row.cmd \in Cmd
      BY <1>2, CutRowFacts DEF LogStep
    <2>2. ASSUME NEW e \in 1..wit.epoch
          PROVE  \E f \in Rows("FENCED", e)' :
                   /\ Rows("FENCED", e)' = {f}
                   /\ f.record.epoch = e /\ f.record.cmd = f.cmd
                   /\ \E b \in BoundFreeze(f.cmd, e)' : /\ BoundFreeze(f.cmd, e)' = {b}
                                                       /\ b.frozen.epoch < e
      <3>1. row.phase \in {"FENCED", "SOURCE_FENCED"} => row.epoch # e
        <4>1. cut.phase \in BeforeFence => cut.epoch = wit.epoch + 1
          BY <1>0 DEF CutInv
        <4>2. CASE BindsFreeze(row) \/ RaisesWitness(row)
          BY <1>0, <4>1, <4>2 DEF BindsFreeze, RaisesWitness, BeforeFence
        <4>3. CASE OpensIntent(row) \/ GoesOn(row)
          BY <4>3 DEF OpensIntent, GoesOn
        <4> QED
          BY <1>2, <4>2, <4>3 DEF LogStep
      <3>2. Rows("FENCED", e)' = Rows("FENCED", e)
        BY <2>1, <3>1 DEF Rows
      <3>3. \A c : BoundFreeze(c, e)' = BoundFreeze(c, e)
        BY <2>1, <3>1 DEF BoundFreeze
      <3>4. PICK f \in Rows("FENCED", e) :
              /\ Rows("FENCED", e) = {f}
              /\ f.record.epoch = e /\ f.record.cmd = f.cmd
              /\ \E b \in BoundFreeze(f.cmd, e) : BoundFreeze(f.cmd, e) = {b} /\ b.frozen.epoch < e
        BY <1>0 DEF WitnessIsBacked
      <3>5. BoundFreeze(f.cmd, e)' = BoundFreeze(f.cmd, e)
        BY <3>3
      <3> QED
        BY <3>2, <3>4, <3>5
    <2>3. CASE RaisesWitness(row)
      <3>1. wit'.epoch = wit.epoch + 1 /\ row.epoch = wit.epoch + 1 /\ cut.epoch = row.epoch
            /\ row.phase = "FENCED" /\ row.record.epoch = row.epoch /\ row.record.cmd = row.cmd
            /\ cut.phase = "SOURCE_FENCED" /\ cut.cmd = row.cmd
        BY <1>0, <2>3 DEF RaisesWitness, CutInv, BeforeFence
      <3>2. \A r \in cuts : r.phase = "FENCED" => r.epoch # row.epoch
        <4>1. \A r \in cuts : r.epoch \in Nat
          BY CutRowFacts DEF ControlTypeOK
        <4> QED
          BY <1>0, <3>1, <4>1 DEF CutInv, PastFence
      <3>3. Rows("FENCED", row.epoch)' = {row}
        BY <2>1, <3>1, <3>2 DEF Rows
      <3>4. Rows("SOURCE_FENCED", row.epoch) = {cut} /\ cut.frozen.epoch < cut.epoch
        BY <1>0, <3>1 DEF CutInv
      <3>5. BoundFreeze(row.cmd, row.epoch)' = {cut}
        <4>1. \A r \in cuts : r.phase = "SOURCE_FENCED" /\ r.epoch = row.epoch => r = cut
          BY <3>4 DEF Rows
        <4>2. cut \in cuts
          BY <3>4 DEF Rows
        <4> QED
          BY <2>1, <3>1, <4>1, <4>2 DEF BoundFreeze
      <3>6. \A e \in 1..wit'.epoch : e \in 1..wit.epoch \/ e = row.epoch
        BY <1>0, <3>1
      <3>7. \E f \in Rows("FENCED", row.epoch)' :
              /\ Rows("FENCED", row.epoch)' = {f}
              /\ f.record.epoch = row.epoch /\ f.record.cmd = f.cmd
              /\ \E b \in BoundFreeze(f.cmd, row.epoch)' : /\ BoundFreeze(f.cmd, row.epoch)' = {b}
                                                          /\ b.frozen.epoch < row.epoch
        BY <3>1, <3>3, <3>4, <3>5
      <3>8. ASSUME NEW e \in 1..wit'.epoch
            PROVE  \E f \in Rows("FENCED", e)' :
                     /\ Rows("FENCED", e)' = {f}
                     /\ f.record.epoch = e /\ f.record.cmd = f.cmd
                     /\ \E b \in BoundFreeze(f.cmd, e)' : /\ BoundFreeze(f.cmd, e)' = {b}
                                                         /\ b.frozen.epoch < e
        <4>1. CASE e = row.epoch
          BY <3>7, <4>1
        <4>2. CASE e \in 1..wit.epoch
          BY <2>2, <4>2
        <4> QED
          BY <3>6, <4>1, <4>2
      <3> QED
        BY <3>8 DEF WitnessIsBacked
    <2>4. CASE wit'.epoch = wit.epoch
      BY <2>2, <2>4 DEF WitnessIsBacked
    <2> QED
      BY <1>2, <2>3, <2>4 DEF LogStep, OpensIntent, BindsFreeze, GoesOn
  <1> QED
    BY <1>1, <1>2, LogMoves

LEMMA HorizonStep ==
  ASSUME ControlTypeOK, ControlInv, [ControlStep]_controlVars
  PROVE  HorizonElapsed'
  <1>0. /\ wit.epoch \in Nat /\ clock \in Nat /\ HorizonElapsed
        /\ \A g \in grants : g.epoch \in Nat /\ g.max \in Nat
    BY HeadFacts, ControlAssumption DEF ControlInv, ControlTypeOK, GrantRow, Epochs, Times
  <1>1. ASSUME NEW h \in Holder, NEW st \in Status, NEW x \in Times, NEW c \in LeaseCmd,
               writeLease(h, st, x, c)
        PROVE  HorizonElapsed'
    <2>1. /\ grants' = grants \cup {grant'} /\ grant'.epoch = wit.epoch
          /\ UNCHANGED <<wit, clock>>
      BY <1>1 DEF writeLease
    <2> QED
      BY <1>0, <2>1 DEF HorizonElapsed
  <1>2. ASSUME NEW k \in Caller, advanceCommit(k) PROVE HorizonElapsed'
    <2>1. calls[k] \in Call \cup {Idle} /\ calls[k] # Idle
      BY <1>2 DEF advanceCommit, ControlTypeOK, Idle
    <2>2. PICK target \in Nat, margin \in Nat :
            /\ target = calls[k].claim.epoch /\ margin = calls[k].margin
      BY <2>1, CallFacts
    <2>3. wit.epoch = target - 1 /\ wit'.epoch = target /\ UNCHANGED <<grants, clock>>
      BY <1>2, <2>2 DEF advanceCommit, Fenceable, ControlTypeOK
    <2>4. \A g \in grants : g.epoch = wit.epoch => clock >= g.max + margin
      BY <1>2, <2>2, <2>3 DEF advanceCommit, proveOldFenced, GrantsAt
    <2> QED
      BY <1>0, <2>2, <2>3, <2>4 DEF HorizonElapsed
  <1>3. ASSUME NEW m \in Marker, provisionIncomplete(m) \/ provisionComplete(m) PROVE HorizonElapsed'
    BY <1>0, <1>3 DEF provisionIncomplete, provisionComplete, HorizonElapsed
  <1>4. CASE ClockTick
    BY <1>0, <1>4 DEF ClockTick, HorizonElapsed
  <1>5. CASE UNCHANGED <<wit, grants, clock>>
    BY <1>0, <1>5 DEF HorizonElapsed
  <1> QED
    BY <1>1, <1>2, <1>3, <1>4, <1>5
       DEF ControlStep, ControlNext, controlVars, provisionIntent, beginPromotionIntent,
           bindSourceFenced, markImporting, markReady, activate, activateSource,
           abortFencedPromotion, advanceCheck, advanceClaim, advanceFails, RedisLoses

(* The activations form one chain, and no activated epoch was aborted.     *)
LEMMA ActStep ==
  ASSUME ControlTypeOK, ControlInv, [ControlStep]_controlVars
  PROVE  ActInv' /\ ActivationsChain'
  <1>0. /\ wit.epoch \in Nat /\ act.epoch \in Nat /\ CutInv /\ ActInv /\ ActivationsChain
        /\ (cut.phase # "none" => cut \in CutRow)
        /\ \A a \in acts : a \in ActRow /\ a.epoch \in Nat /\ a.final.frozen.epoch \in Nat
    BY HeadFacts, ControlAssumption
       DEF ControlInv, ControlTypeOK, ActRow, FinalizedReceipt, FrozenReceipt, Epochs
  <1>1. ASSUME NEW c \in Cmd, NEW prior \in Chain, activateSource(c, prior)
        PROVE  ActInv' /\ ActivationsChain'
    <2>1. PICK new : /\ new.epoch = cut.epoch /\ new.final = cut.final
                     /\ act' = new /\ acts' = acts \cup {new}
      BY <1>1 DEF activateSource
    <2>2. /\ cut.phase = "ACTIVE" /\ cut.epoch \in Nat /\ cut.epoch = wit.epoch
          /\ cut.final.node # cut.final.frozen.node
          /\ Rows("ABORTED", cut.epoch) = {}
      BY <1>0, <1>1 DEF activateSource, CutAt, CutInv, ActInv, PastFence
    <2>3. /\ act.epoch < cut.epoch /\ cut.final.frozen.epoch = act.epoch
          /\ ConsumedActivationEpochs(act.epoch, cut.epoch)
          /\ UNCHANGED <<cut, cuts, wit>>
      BY <1>0, <1>1, <2>2 DEF activateSource, ConsumedActivationEpochs
    <2>4. \A e \in (act.epoch + 1)..(cut.epoch - 1) : Rows("ABORTED", e) # {}
      <3> SUFFICES ASSUME NEW e \in (act.epoch + 1)..(cut.epoch - 1) PROVE Rows("ABORTED", e) # {}
        OBVIOUS
      <3>1. PICK T : /\ T = {r \in cuts : r.epoch = e /\ r.phase \in {"ACTIVE", "ABORTED"}}
                     /\ Cardinality(T) = 1 /\ \A r \in T : r.phase = "ABORTED"
        BY <2>3 DEF ConsumedActivationEpochs
      <3>2. T # {}
        BY <3>1, FS_EmptySet
      <3>3. PICK r \in T : r \in cuts /\ r.epoch = e /\ r.phase = "ABORTED"
        BY <3>1, <3>2
      <3> QED
        BY <3>3 DEF Rows
    <2>5. \A a \in acts : a.epoch <= act.epoch /\ a.epoch <= wit.epoch
      BY <1>0 DEF ActivationsChain
    <2>6. act.epoch = 0 \/ act \in acts
      BY <1>0 DEF ActInv, NoAct
    <2>7. ActInv'
      BY <1>0, <2>1, <2>2, <2>3 DEF ActInv
    <2>8. ASSUME NEW a \in acts
          PROVE  /\ a.epoch <= act'.epoch /\ a.epoch <= wit'.epoch
                 /\ a.final.node # a.final.frozen.node
                 /\ a.final.frozen.epoch < a.epoch
                 /\ a.final.frozen.epoch = 0 \/ \E b \in acts' : b.epoch = a.final.frozen.epoch
                 /\ \A b \in acts' : b.epoch < a.epoch => b.epoch <= a.final.frozen.epoch
                 /\ \A b \in acts' : b.epoch = a.epoch => b = a
                 /\ \A e \in (a.final.frozen.epoch + 1)..(a.epoch - 1) : Rows("ABORTED", e)' # {}
                 /\ Rows("ABORTED", a.epoch)' = {}
      <3>1. \A e : Rows("ABORTED", e)' = Rows("ABORTED", e)
        BY <2>3 DEF Rows
      <3>2. a.epoch < cut.epoch
        BY <1>0, <2>2, <2>3, <2>5
      <3> QED
        BY <1>0, <2>1, <2>2, <2>3, <2>5, <3>1, <3>2 DEF ActivationsChain
    <2>9. /\ new.epoch <= act'.epoch /\ new.epoch <= wit'.epoch
          /\ new.final.node # new.final.frozen.node
          /\ new.final.frozen.epoch < new.epoch
          /\ new.final.frozen.epoch = 0 \/ \E b \in acts' : b.epoch = new.final.frozen.epoch
          /\ \A b \in acts' : b.epoch < new.epoch => b.epoch <= new.final.frozen.epoch
          /\ \A b \in acts' : b.epoch = new.epoch => b = new
          /\ \A e \in (new.final.frozen.epoch + 1)..(new.epoch - 1) : Rows("ABORTED", e)' # {}
          /\ Rows("ABORTED", new.epoch)' = {}
      <3>1. \A e : Rows("ABORTED", e)' = Rows("ABORTED", e)
        BY <2>3 DEF Rows
      <3>2. \A b \in acts : b.epoch < cut.epoch
        BY <1>0, <2>2, <2>3, <2>5
      <3> QED
        BY <1>0, <2>1, <2>2, <2>3, <2>4, <2>5, <2>6, <3>1, <3>2
    <2>10. ActivationsChain'
      BY <2>1, <2>8, <2>9 DEF ActivationsChain
    <2> QED
      BY <2>7, <2>10
  <1>2. ASSUME UNCHANGED <<act, acts>> PROVE ActInv' /\ ActivationsChain'
    <2>1. CASE LogStutters
      BY <1>0, <1>2, <2>1 DEF LogStutters, ActInv, ActivationsChain, Rows
    <2>2. ASSUME NEW row \in CutRow, LogStep(row) PROVE ActInv' /\ ActivationsChain'
      <3>1. /\ cut' = row /\ cuts' = cuts \cup {row} /\ wit'.epoch \in Nat
            /\ wit'.epoch >= wit.epoch
        BY <1>0, <2>2 DEF LogStep, OpensIntent, BindsFreeze, RaisesWitness, GoesOn
      <3>2. ActInv'
        <4>1. \A a \in acts : a.epoch <= wit.epoch
          BY <1>0 DEF ActivationsChain
        <4> QED
          BY <1>0, <1>2, <2>2, <3>1, <4>1
             DEF LogStep, OpensIntent, BindsFreeze, RaisesWitness, GoesOn, ActInv
      <3>3. row.phase = "ABORTED" => \A a \in acts : a.epoch # row.epoch
        BY <1>0, <2>2
           DEF LogStep, OpensIntent, BindsFreeze, RaisesWitness, GoesOn, ActInv, CutInv, PastFence
      <3>4. \A a \in acts : Rows("ABORTED", a.epoch)' = Rows("ABORTED", a.epoch)
        BY <3>1, <3>3 DEF Rows
      <3>5. \A e : Rows("ABORTED", e) # {} => Rows("ABORTED", e)' # {}
        BY <3>1 DEF Rows
      <3>6. ActivationsChain'
        BY <1>0, <1>2, <3>1, <3>4, <3>5 DEF ActivationsChain
      <3> QED
        BY <3>2, <3>6
    <2> QED
      BY <2>1, <2>2, LogMoves
  <1> QED
    BY <1>1, <1>2
       DEF ControlStep, ControlNext, controlVars, provisionIntent, provisionIncomplete,
           provisionComplete, writeLease, beginPromotionIntent, bindSourceFenced, markImporting,
           markReady, activate, abortFencedPromotion, ClockTick, RedisLoses,
           advanceCheck, advanceClaim, advanceCommit, advanceFails

LEMMA ControlInitOK == ControlInit => ControlTypeOK /\ ControlInv
  <1> SUFFICES ASSUME ControlInit PROVE ControlTypeOK /\ ControlInv
    OBVIOUS
  <1>1. wit.epoch = 0 /\ 1..wit.epoch = {}
    BY DEF ControlInit
  <1>2. ControlTypeOK
    BY ControlAssumption DEF ControlInit, ControlTypeOK, Epochs
  <1>3. GenesisInv /\ CutInv
    BY DEF ControlInit, GenesisInv, CutInv, Unprovisioned, NoCut, BeforeFence, PastFence
  <1>4. CallsFollowIntent /\ RedisFollowsIntent /\ HorizonElapsed
    BY DEF ControlInit, CallsFollowIntent, RedisFollowsIntent, HorizonElapsed
  <1>5. ActInv /\ ActivationsChain
    BY DEF ControlInit, ActInv, ActivationsChain, NoCut
  <1>6. WitnessIsBacked
    BY <1>1 DEF WitnessIsBacked
  <1> QED
    BY <1>2, <1>3, <1>4, <1>5, <1>6 DEF ControlInv

LEMMA ControlInvStep ==
  ControlTypeOK /\ ControlInv /\ [ControlStep]_controlVars => ControlTypeOK' /\ ControlInv'
  BY ControlTypeStep, GenesisStep, CutStep, CallsStep, ActStep, BackedStep, RedisStep, HorizonStep
     DEF ControlInv

(* The control plane keeps its inductive invariant, whatever receipts and  *)
(* chains callers present and however advanceEpoch calls interleave.       *)
THEOREM ControlInvariant == ControlSpec => [](ControlTypeOK /\ ControlInv)
  BY ControlInitOK, ControlInvStep, PTL DEF ControlSpec, ControlStep

(* The signed log backs the witness epoch by epoch, and Redis is ahead of  *)
(* it only for the intent that is SOURCE_FENCED (advanceEpoch).            *)
THEOREM ControlSoundHolds == ControlSpec => []ControlSound
  <1>1. ControlTypeOK /\ ControlInv => ControlSound
    BY DEF ControlInv, ControlSound
  <1> QED
    BY <1>1, ControlInvariant, PTL

(* Every control lease of an epoch the witness has left is past its        *)
(* deadline on the control clock (writeLease against advanceEpoch).        *)
THEOREM HorizonElapsedHolds == ControlSpec => []HorizonElapsed
  <1>1. ControlTypeOK /\ ControlInv => HorizonElapsed
    BY DEF ControlInv
  <1> QED
    BY <1>1, ControlInvariant, PTL

(* Activations form one chain of source epochs with only aborted epochs    *)
(* between them (activateSource, abortFencedPromotion).                    *)
THEOREM ActivationsChainHolds == ControlSpec => []ActivationsChain
  <1>1. ControlTypeOK /\ ControlInv => ActivationsChain
    BY DEF ControlInv
  <1> QED
    BY <1>1, ControlInvariant, PTL

-----------------------------------------------------------------------------
(* Prefixes.                                                               *)

LEMMA PrefixElements ==
  ASSUME NEW S, NEW s \in Seq(S), NEW t \in Seq(S)
  PROVE  IsPrefix(s, t) <=> Len(s) <= Len(t) /\ \A i \in 1..Len(s) : s[i] = t[i]
  <1>1. SubSeq(s, 1, Len(s)) = s
    OBVIOUS
  <1>2. ASSUME Len(s) <= Len(t)
        PROVE  /\ SubSeq(t, 1, Len(s)) \in Seq(S) /\ Len(SubSeq(t, 1, Len(s))) = Len(s)
               /\ \A i \in 1..Len(s) : SubSeq(t, 1, Len(s))[i] = t[i]
    BY <1>2
  <1>3. ASSUME Len(s) <= Len(t), \A i \in 1..Len(s) : s[i] = t[i]
        PROVE  s = SubSeq(t, 1, Len(s))
    BY <1>2, <1>3
  <1> QED
    BY <1>1, <1>2, <1>3 DEF IsPrefix

LEMMA PrefixOrder ==
  ASSUME NEW S, NEW s \in Seq(S), NEW t \in Seq(S)
  PROVE  /\ IsPrefix(s, s) /\ IsPrefix(<<>>, s)
         /\ IsPrefix(s, t) /\ IsPrefix(t, s) => s = t
         /\ IsPrefix(s, t) /\ Len(t) <= Len(s) => s = t
         /\ IsPrefix(s, t) => Len(s) <= Len(t)
         /\ \A u \in Seq(S) : IsPrefix(s, t) /\ IsPrefix(t, u) => IsPrefix(s, u)
         /\ \A x \in S : IsPrefix(s, t) => IsPrefix(s, Append(t, x))
  <1>1. IsPrefix(s, s)
    BY PrefixElements
  <1>2. IsPrefix(<<>>, s)
    <2>1. <<>> \in Seq(S) /\ Len(<<>>) = 0
      OBVIOUS
    <2>2. PICK e \in Seq(S) : e = <<>> /\ Len(e) = 0
      BY <2>1
    <2>3. Len(e) <= Len(s) /\ \A i \in 1..Len(e) : e[i] = s[i]
      BY <2>2
    <2> QED
      BY <2>2, <2>3, PrefixElements
  <1>3. IsPrefix(s, t) => Len(s) <= Len(t)
    BY PrefixElements
  <1>4. IsPrefix(s, t) /\ Len(t) <= Len(s) => s = t
    BY PrefixElements
  <1>5. IsPrefix(t, s) => Len(t) <= Len(s)
    BY PrefixElements
  <1>6. ASSUME NEW u \in Seq(S), IsPrefix(s, t), IsPrefix(t, u) PROVE IsPrefix(s, u)
    BY <1>6, PrefixElements
  <1>7. ASSUME NEW x \in S, IsPrefix(s, t) PROVE IsPrefix(s, Append(t, x))
    <2>0. Append(t, x) \in Seq(S) /\ Len(Append(t, x)) = Len(t) + 1
          /\ \A i \in 1..Len(t) : Append(t, x)[i] = t[i]
      OBVIOUS
    <2>1. PICK u \in Seq(S) : /\ u = Append(t, x) /\ Len(u) = Len(t) + 1
                              /\ \A i \in 1..Len(t) : u[i] = t[i]
      BY <2>0
    <2>2. Len(s) <= Len(t) /\ \A i \in 1..Len(s) : s[i] = t[i]
      BY <1>7, PrefixElements
    <2>3. Len(s) <= Len(u) /\ \A i \in 1..Len(s) : s[i] = u[i]
      BY <2>1, <2>2
    <2> QED
      BY <2>1, <2>3, PrefixElements
  <1> QED
    BY <1>1, <1>2, <1>3, <1>4, <1>5, <1>6, <1>7

-----------------------------------------------------------------------------
(* The control plane inside the handover.                                  *)

LEMMA ReceiptsSubsets ==
  ASSUME SourceTypeOK, ControlTypeOK
  PROVE  /\ frozen \subseteq FrozenReceipt
         /\ {pointer[n] : n \in Node} \ {NoReceipt} \subseteq FinalizedReceipt
         /\ (IF cut.phase = "ACTIVE" THEN Presentable(cut.final.node) ELSE {}) \subseteq Chain
  <1>1. /\ frozen \subseteq FrozenReceipt
        /\ {pointer[n] : n \in Node} \ {NoReceipt} \subseteq FinalizedReceipt
    BY DEF SourceTypeOK
  <1>2. (IF cut.phase = "ACTIVE" THEN Presentable(cut.final.node) ELSE {}) \subseteq Chain
    <2> SUFFICES ASSUME cut.phase = "ACTIVE" PROVE Presentable(cut.final.node) \subseteq Chain
      OBVIOUS
    <2>1. cut.final.node \in Node
      BY HeadFacts, CutRowFacts DEF FinalizedReceipt
    <2>2. lease[cut.final.node] \in Seq(Grant)
      BY <2>1 DEF SourceTypeOK, Chain
    <2>3. \A i \in 0..Len(lease[cut.final.node]) : SubSeq(lease[cut.final.node], 1, i) \in Seq(Grant)
      BY <2>2
    <2> QED
      BY <2>3 DEF Presentable, Chain
  <1> QED
    BY <1>1, <1>2

LEMMA ReceiptsTyped ==
  ASSUME SourceTypeOK, ControlTypeOK
  PROVE  ControlSteps => ControlStep
  <1> DEFINE br == {pointer[n] : n \in Node} \ {NoReceipt}
             pc == IF cut.phase = "ACTIVE" THEN Presentable(cut.final.node) ELSE {}
  <1>1. frozen \subseteq FrozenReceipt /\ br \subseteq FinalizedReceipt /\ pc \subseteq Chain
    BY ReceiptsSubsets
  <1> HIDE DEF br, pc
  <1>2. ControlNext(frozen, br, pc) => ControlStep
    BY <1>1 DEF ControlStep, ControlNext
  <1> QED
    BY <1>2 DEF ControlSteps, br, pc

(* Facts of the representation.                                            *)
LEMMA FrozenFacts ==
  ASSUME NEW fr \in FrozenReceipt
  PROVE  /\ fr.node \in Node /\ fr.epoch \in Epochs /\ fr.epoch \in Nat /\ fr.rows \in Seq(Row)
         /\ fr # NoExport /\ fr.cmd \in Cmd
  BY ControlAssumption DEF FrozenReceipt, NoExport, Epochs

LEMMA ActFacts ==
  ASSUME NEW a \in ActRow
  PROVE  /\ a.epoch \in Epochs /\ a.epoch \in Nat /\ a.node \in Node /\ a.cmd \in Cmd
         /\ a.prior \in Seq(Grant) /\ a.chain \in Seq(Grant)
         /\ a.final \in FinalizedReceipt /\ a.final.frozen \in FrozenReceipt
  BY ControlAssumption DEF ActRow, FinalizedReceipt, Epochs, Chain

LEMMA LeaseFacts ==
  ASSUME SourceTypeOK, NEW n \in Node
  PROVE  /\ lease[n] \in Seq(Grant) /\ ledger[n] \in Seq(Row) /\ fence[n] \in Int
         /\ \A i \in DOMAIN lease[n] : /\ lease[n][i].epoch \in Epochs /\ lease[n][i].epoch \in Nat
                                       /\ i \in 1..Len(lease[n])
                                       /\ lease[n][i].status \in {"active", "revoked"}
         /\ Leased(n) => /\ Len(lease[n]) \in DOMAIN lease[n] /\ Len(lease[n]) \in Nat
                         /\ LeaseAt(n) \in Epochs /\ LeaseAt(n) \in Nat
                         /\ HeadStatus(n) \in {"active", "revoked"}
  <1>1. lease[n] \in Seq(Grant) /\ ledger[n] \in Seq(Row) /\ fence[n] \in Int
    BY ControlAssumption DEF SourceTypeOK, Chain
  <1>2. ASSUME NEW i \in DOMAIN lease[n]
        PROVE  /\ lease[n][i].epoch \in Epochs /\ lease[n][i].epoch \in Nat /\ i \in 1..Len(lease[n])
               /\ lease[n][i].status \in {"active", "revoked"}
    <2>1. i \in 1..Len(lease[n]) /\ lease[n][i] \in Grant
      BY <1>1
    <2> QED
      BY <2>1, ControlAssumption DEF Grant, Epochs
  <1>3. Leased(n) => Len(lease[n]) \in DOMAIN lease[n] /\ Len(lease[n]) \in Nat
    BY <1>1 DEF Leased
  <1> QED
    BY <1>1, <1>2, <1>3 DEF LeaseAt, HeadStatus

LEMMA SourceTypeStep ==
  ASSUME SourceTypeOK, ControlTypeOK, HandoverInv, [HandoverNext]_handoverVars
  PROVE  SourceTypeOK'
  <1>1. ASSUME NEW n \in Node, appendFenced(n) PROVE SourceTypeOK'
    <2>1. [by |-> n, epoch |-> fence[n]] \in Row
      BY <1>1, LeaseFacts DEF appendFenced, Writable, Row
    <2>2. Append(ledger[n], [by |-> n, epoch |-> fence[n]]) \in Seq(Row)
      BY <2>1, LeaseFacts
    <2>3. ledger' \in [Node -> Seq(Row)]
      BY <1>1, <2>2 DEF appendFenced, SourceTypeOK
    <2> QED
      BY <1>1, <2>3 DEF appendFenced, SourceTypeOK
  <1>2. ASSUME NEW n \in Node, NEW st \in {"active", "revoked"}, NEW c \in LeaseCmd,
               installLeaseGrant(n, st, c)
        PROVE  SourceTypeOK'
    <2>1. [epoch |-> LeaseAt(n), status |-> st, cmd |-> c] \in Grant
      BY <1>2, LeaseFacts DEF installLeaseGrant, Grant
    <2>2. Append(lease[n], [epoch |-> LeaseAt(n), status |-> st, cmd |-> c]) \in Chain
      BY <2>1, LeaseFacts DEF Chain
    <2>3. lease' \in [Node -> Chain]
      BY <1>2, <2>2 DEF installLeaseGrant, SourceTypeOK
    <2> QED
      BY <1>2, <2>3 DEF installLeaseGrant, SourceTypeOK
  <1>3. ASSUME NEW n \in Node, NEW c \in Cmd, emitSourceFrozenReceipt(n, c) PROVE SourceTypeOK'
    <2>1. [node |-> n, epoch |-> LeaseAt(n), cmd |-> c, rows |-> ledger[n]] \in FrozenReceipt
      BY <1>3, LeaseFacts DEF emitSourceFrozenReceipt, FrozenReceipt
    <2> QED
      BY <1>3, <2>1 DEF emitSourceFrozenReceipt, SourceTypeOK
  <1>4. ASSUME NEW n \in Node, NEW g \in Generation, NEW fr \in frozen, stageReceiverExport(n, g, fr)
        PROVE  SourceTypeOK'
    <2>1. fr \in FrozenReceipt
      BY DEF SourceTypeOK
    <2>2. [staged[n] EXCEPT ![g] = fr] \in [Generation -> FrozenReceipt \cup {NoExport}]
      BY <2>1 DEF SourceTypeOK
    <2>3. staged' = [staged EXCEPT ![n] = [staged[n] EXCEPT ![g] = fr]]
      BY <1>4 DEF stageReceiverExport
    <2> QED
      BY <1>4, <2>2, <2>3 DEF stageReceiverExport, SourceTypeOK
  <1>5. ASSUME NEW n \in Node, NEW g \in Generation, finalizeReceiverGeneration(n, g)
        PROVE  SourceTypeOK'
    <2>1. staged[n][g] \in FrozenReceipt
      BY <1>5 DEF finalizeReceiverGeneration, SourceTypeOK
    <2>2. [node |-> n, gen |-> g, frozen |-> staged[n][g]] \in FinalizedReceipt
      BY <2>1 DEF FinalizedReceipt
    <2> QED
      BY <1>5, <2>2 DEF finalizeReceiverGeneration, SourceTypeOK
  <1>6. ASSUME NEW n \in Node, NEW a \in acts, activateFinalizedReceiverAsSource(n, a)
        PROVE  SourceTypeOK'
    <2>1. a \in ActRow
      BY DEF ControlTypeOK
    <2>2. a.chain \in Chain /\ a.final.frozen.rows \in Seq(Row) /\ a.epoch \in -1..MaxEpoch
      BY <2>1, ActFacts, FrozenFacts, ControlAssumption DEF Chain, Epochs
    <2>3. lease' \in [Node -> Chain]
      BY <1>6, <2>2 DEF activateFinalizedReceiverAsSource, SourceTypeOK
    <2>4. ledger' \in [Node -> Seq(Row)] /\ fence' \in [Node -> -1..MaxEpoch]
      BY <1>6, <2>2 DEF activateFinalizedReceiverAsSource, SourceTypeOK
    <2> QED
      BY <1>6, <2>3, <2>4 DEF activateFinalizedReceiverAsSource, SourceTypeOK
  <1>7. CASE UNCHANGED sourceVars
    BY <1>7 DEF sourceVars, SourceTypeOK
  <1>8. \A n \in Node : NextLeaseCmd(n) \subseteq LeaseCmd
    BY DEF NextLeaseCmd
  <1> QED
    BY <1>1, <1>2, <1>3, <1>4, <1>5, <1>6, <1>7, <1>8 DEF HandoverNext, NodeSteps, handoverVars

-----------------------------------------------------------------------------
(* Consequences of the invariant.                                          *)

Known == ControlTypeOK /\ ControlInv /\ SourceTypeOK /\ HandoverInv

(* An epoch has one owner, and none is past the current activation.        *)
LEMMA OwnerUnique ==
  ASSUME ControlTypeOK, ActivationsChain, NEW e \in Nat, NEW m \in Node, NEW n \in Node,
         Owns(m, e), Owns(n, e)
  PROVE  m = n /\ e <= act.epoch
  <1>1. \A a \in acts : a.epoch \in Nat /\ a.epoch > 0 /\ a.epoch <= act.epoch
    <2>1. \A a \in acts : a.epoch \in Nat /\ a.final.frozen.epoch \in Nat
      BY ActFacts, FrozenFacts DEF ControlTypeOK
    <2> QED
      BY <2>1 DEF ActivationsChain
  <1>2. act.epoch \in Nat
    BY HeadFacts
  <1>3. e = 0 => m = Origin /\ n = Origin
    BY <1>1 DEF Owns
  <1>4. e # 0 => /\ \E a \in acts : a.epoch = e /\ a.node = m
                 /\ \E a \in acts : a.epoch = e /\ a.node = n
    BY DEF Owns
  <1> QED
    BY <1>1, <1>2, <1>3, <1>4 DEF ActivationsChain

(* The node of a signed freeze owns its epoch, and as long as it has no    *)
(* later one its lease is revoked.                                         *)
LEMMA FrozenNode ==
  ASSUME Known, NEW fr \in frozen
  PROVE  /\ fr.node \in Node /\ fr.epoch \in Nat /\ fr.rows \in Seq(Row)
         /\ Leased(fr.node) /\ Owns(fr.node, fr.epoch)
         /\ fr.epoch <= LeaseAt(fr.node) /\ fr.epoch <= act.epoch
         /\ LeaseAt(fr.node) = fr.epoch =>
              HeadStatus(fr.node) = "revoked" /\ ledger[fr.node] = fr.rows
  <1>1. fr.node \in Node /\ fr.epoch \in Nat /\ fr.rows \in Seq(Row)
    BY FrozenFacts DEF Known, SourceTypeOK
  <1>2. PICK n \in Node : n = fr.node
    BY <1>1
  <1>3. PICK i \in DOMAIN lease[n] : lease[n][i].epoch = fr.epoch /\ lease[n][i].status = "revoked"
    BY <1>2 DEF Known, HandoverInv, FrozenInv
  <1>4. lease[n] \in Seq(Grant) /\ i \in 1..Len(lease[n])
    BY <1>3, LeaseFacts DEF Known
  <1>5. Leased(n)
    BY <1>4 DEF Leased
  <1>6. PICK k \in DOMAIN lease[n] : k = Len(lease[n]) /\ k \in Nat /\ i <= k
    BY <1>4, <1>5, LeaseFacts DEF Known
  <1>7. /\ LeaseAt(n) = lease[n][k].epoch /\ HeadStatus(n) = lease[n][k].status
        /\ LeaseAt(n) \in Nat
    BY <1>5, <1>6, LeaseFacts DEF LeaseAt, HeadStatus, Known
  <1>8. Owns(n, fr.epoch)
    BY <1>3 DEF Known, HandoverInv, ChainInv
  <1>9. fr.epoch <= LeaseAt(n) /\ (LeaseAt(n) = fr.epoch => HeadStatus(n) = "revoked")
    <2>1. CASE i = k
      BY <1>1, <1>3, <1>7, <2>1
    <2>2. CASE i # k
      <3>1. i < k
        BY <1>4, <1>6, <2>2
      <3> QED
        BY <1>3, <1>6, <1>7, <3>1 DEF Known, HandoverInv, ChainInv
    <2> QED
      BY <2>1, <2>2
  <1>10. fr.epoch <= act.epoch
    BY <1>1, <1>2, <1>8, OwnerUnique DEF Known, ControlInv
  <1>11. LeaseAt(n) = fr.epoch => ledger[n] = fr.rows
    BY <1>2 DEF Known, HandoverInv, FrozenInv
  <1> QED
    BY <1>1, <1>2, <1>5, <1>8, <1>9, <1>10, <1>11

(* Where a leased node stands: the current source, or frozen.              *)
LEMMA LeasedNode ==
  ASSUME Known, NEW n \in Node, Leased(n)
  PROVE  /\ Owns(n, LeaseAt(n)) /\ LeaseAt(n) \in Nat /\ LeaseAt(n) <= act.epoch
         /\ fence[n] = LeaseAt(n)
         /\ LeaseAt(n) # act.epoch =>
              /\ HeadStatus(n) = "revoked"
              /\ \E fr \in frozen : /\ fr.node = n /\ fr.epoch = LeaseAt(n)
                                    /\ fr.rows = ledger[n]
  <1>1. Len(lease[n]) \in DOMAIN lease[n] /\ LeaseAt(n) \in Nat /\ LeaseAt(n) \in Epochs
    BY LeaseFacts DEF Known
  <1>2. Owns(n, LeaseAt(n))
    BY <1>1 DEF Known, HandoverInv, ChainInv, LeaseAt
  <1>3. LeaseAt(n) <= act.epoch
    BY <1>1, <1>2, OwnerUnique DEF Known, ControlInv
  <1>4. fence[n] = LeaseAt(n)
    BY DEF Known, HandoverInv, FenceInv
  <1>5. ASSUME LeaseAt(n) # act.epoch
        PROVE  /\ HeadStatus(n) = "revoked"
               /\ \E fr \in frozen : fr.node = n /\ fr.epoch = LeaseAt(n) /\ fr.rows = ledger[n]
    <2>1. act.epoch \in Nat
      BY HeadFacts DEF Known
    <2>2. LeaseAt(n) < act.epoch
      BY <1>1, <1>3, <1>5, <2>1
    <2>3. PICK fr \in frozen : fr.node = n /\ fr.epoch = LeaseAt(n)
      BY <1>1, <1>2, <2>2 DEF Known, HandoverInv, PastIsFrozen
    <2> QED
      BY <2>3, FrozenNode
  <1> QED
    BY <1>1, <1>2, <1>3, <1>4, <1>5

(* Freezes of one epoch are of one node and of the same rows.              *)
LEMMA SameFreeze ==
  ASSUME Known, NEW f \in frozen, NEW g \in frozen, f.epoch = g.epoch
  PROVE  f.node = g.node /\ f.rows = g.rows
  <1>1. f.node = g.node
    BY FrozenNode, OwnerUnique DEF Known, ControlInv
  <1>2. f.epoch <= g.epoch /\ g.epoch <= f.epoch
    BY FrozenNode
  <1>3. IsPrefix(f.rows, g.rows) /\ IsPrefix(g.rows, f.rows)
    BY <1>2 DEF Known, HandoverInv, FreezesExtend
  <1>4. f.rows \in Seq(Row) /\ g.rows \in Seq(Row)
    BY FrozenNode
  <1> QED
    BY <1>1, <1>3, <1>4, PrefixOrder

(* A node of an earlier epoch has a prefix of the ledger of a later one.   *)
LEMMA EarlierIsPrefix ==
  ASSUME Known, NEW m \in Node, NEW n \in Node, Leased(n),
         Leased(m) => LeaseAt(m) < LeaseAt(n)
  PROVE  IsPrefix(ledger[m], ledger[n])
  <1>1. ledger[m] \in Seq(Row) /\ ledger[n] \in Seq(Row)
    BY LeaseFacts DEF Known
  <1>2. CASE ~Leased(m)
    <2>1. ledger[m] = <<>>
      BY <1>2 DEF Known, HandoverInv, FenceInv
    <2> QED
      BY <1>1, <2>1, PrefixOrder
  <1>3. CASE Leased(m)
    <2>1. LeaseAt(m) \in Nat /\ LeaseAt(n) \in Nat /\ LeaseAt(n) <= act.epoch /\ act.epoch \in Nat
      BY <1>3, LeasedNode, HeadFacts DEF Known
    <2>2. LeaseAt(m) < LeaseAt(n) /\ LeaseAt(m) # act.epoch
      BY <1>3, <2>1
    <2>3. PICK fr \in frozen : fr.node = m /\ fr.epoch = LeaseAt(m) /\ fr.rows = ledger[m]
      BY <1>3, <2>2, LeasedNode
    <2> QED
      BY <2>2, <2>3 DEF Known, HandoverInv, FreezesExtend
  <1> QED
    BY <1>2, <1>3

LEMMA PromisesKept ==
  ASSUME Known
  PROVE  SingleSource /\ NoLostAppend /\ FreezeIsFinal
  <1>1. ASSUME NEW n \in Node, Writable(n) PROVE Leased(n) /\ LeaseAt(n) = act.epoch
    BY <1>1, LeasedNode DEF Writable
  <1>2. SingleSource
    <2> SUFFICES ASSUME NEW m \in Node, NEW n \in Node, Writable(m), Writable(n) PROVE m = n
      BY DEF SingleSource
    <2>1. Owns(m, act.epoch) /\ Owns(n, act.epoch) /\ act.epoch \in Nat
      BY <1>1, LeasedNode, HeadFacts DEF Known
    <2> QED
      BY <2>1, OwnerUnique DEF Known, ControlInv
  <1>3. ASSUME NEW m \in Node, NEW n \in Node, Leased(n), Leased(m) => LeaseAt(m) <= LeaseAt(n)
        PROVE  IsPrefix(ledger[m], ledger[n])
    <2>1. CASE m = n
      BY <2>1, PrefixOrder, LeaseFacts DEF Known
    <2>2. CASE Leased(m) /\ m # n
      <3>1. LeaseAt(m) # LeaseAt(n) /\ LeaseAt(m) \in Nat /\ LeaseAt(n) \in Nat
        BY <1>3, <2>2, LeasedNode, OwnerUnique DEF Known, ControlInv
      <3> QED
        BY <1>3, <2>2, <3>1, EarlierIsPrefix
    <2>3. CASE ~Leased(m)
      BY <1>3, <2>3, EarlierIsPrefix
    <2> QED
      BY <2>1, <2>2, <2>3
  <1>4. ASSUME NEW m \in Node, NEW n \in Node
        PROVE  /\ IsPrefix(ledger[m], ledger[n]) \/ IsPrefix(ledger[n], ledger[m])
               /\ Writable(n) => IsPrefix(ledger[m], ledger[n])
    <2>1. ASSUME Writable(n) PROVE IsPrefix(ledger[m], ledger[n])
      BY <1>1, <1>3, <2>1, LeasedNode
    <2>2. CASE Leased(m) /\ Leased(n)
      <3>1. LeaseAt(m) \in Nat /\ LeaseAt(n) \in Nat
        BY <2>2, LeasedNode
      <3>2. LeaseAt(m) <= LeaseAt(n) \/ LeaseAt(n) <= LeaseAt(m)
        BY <3>1
      <3> QED
        BY <1>3, <2>1, <2>2, <3>2
    <2>3. CASE ~Leased(m) \/ ~Leased(n)
      <3>1. ledger[m] = <<>> \/ ledger[n] = <<>>
        BY <2>3 DEF Known, HandoverInv, FenceInv
      <3>2. ledger[m] \in Seq(Row) /\ ledger[n] \in Seq(Row)
        BY LeaseFacts DEF Known
      <3> QED
        BY <2>1, <3>1, <3>2, PrefixOrder
    <2> QED
      BY <2>2, <2>3
  <1>5. NoLostAppend
    BY <1>4 DEF NoLostAppend
  <1>6. FreezeIsFinal
    <2> SUFFICES ASSUME NEW r \in cuts, r.phase = "SOURCE_FENCED"
                 PROVE  /\ LeaseAt(r.frozen.node) = r.frozen.epoch =>
                             /\ HeadStatus(r.frozen.node) = "revoked"
                             /\ ledger[r.frozen.node] = r.frozen.rows
                        /\ IsPrefix(r.frozen.rows, ledger[r.frozen.node])
      BY DEF FreezeIsFinal
    <2>1. PICK fr \in frozen : fr = r.frozen
      BY DEF Known, HandoverInv, ReceiptsInv
    <2>2. LeaseAt(fr.node) = fr.epoch => HeadStatus(fr.node) = "revoked" /\ ledger[fr.node] = fr.rows
      BY FrozenNode
    <2>3. IsPrefix(fr.rows, ledger[fr.node])
      <3>1. CASE LeaseAt(fr.node) = fr.epoch
        BY <2>2, <3>1, FrozenNode, PrefixOrder
      <3>2. CASE LeaseAt(fr.node) # fr.epoch
        <4>1. /\ fr.node \in Node /\ Leased(fr.node) /\ fr.epoch \in Nat
              /\ fr.epoch <= LeaseAt(fr.node)
          BY FrozenNode
        <4>2. LeaseAt(fr.node) \in Nat
          BY <4>1, LeasedNode
        <4>3. fr.epoch < LeaseAt(fr.node)
          BY <3>2, <4>1, <4>2
        <4> QED
          BY <4>1, <4>3 DEF Known, HandoverInv, FreezesExtend
      <3> QED
        BY <3>1, <3>2
    <2> QED
      BY <2>1, <2>2, <2>3
  <1> QED
    BY <1>2, <1>5, <1>6

-----------------------------------------------------------------------------
(* The steps of the nodes.                                                 *)

(* A grant installed on the chain of one node.                             *)
LEMMA LeaseGrows ==
  ASSUME SourceTypeOK, NEW n \in Node, NEW g \in Grant,
         lease' = [lease EXCEPT ![n] = Append(lease[n], g)]
  PROVE  /\ \A m \in Node \ {n} : /\ lease'[m] = lease[m]
                                  /\ Leased(m)' = Leased(m) /\ LeaseAt(m)' = LeaseAt(m)
                                  /\ HeadStatus(m)' = HeadStatus(m)
         /\ Leased(n)' /\ LeaseAt(n)' = g.epoch /\ HeadStatus(n)' = g.status
         /\ DOMAIN lease'[n] = 1..(Len(lease[n]) + 1) /\ DOMAIN lease[n] = 1..Len(lease[n])
         /\ lease'[n][Len(lease[n]) + 1] = g
         /\ \A i \in DOMAIN lease[n] : lease'[n][i] = lease[n][i]
         /\ Len(lease[n]) \in Nat
  <1>1. \A m \in Node : lease'[m] = IF m = n THEN Append(lease[n], g) ELSE lease[m]
    BY DEF SourceTypeOK
  <1>2. lease[n] \in Seq(Grant)
    BY LeaseFacts
  <1>3. PICK ch : ch = Append(lease[n], g)
    OBVIOUS
  <1>4. /\ Len(ch) = Len(lease[n]) + 1 /\ ch[Len(lease[n]) + 1] = g /\ ch # <<>>
        /\ \A i \in 1..Len(lease[n]) : ch[i] = lease[n][i]
        /\ DOMAIN ch = 1..(Len(lease[n]) + 1) /\ DOMAIN lease[n] = 1..Len(lease[n])
        /\ Len(lease[n]) \in Nat
    BY <1>2, <1>3
  <1>5. lease'[n] = ch
    BY <1>1, <1>3
  <1> QED
    BY <1>1, <1>4, <1>5 DEF Leased, LeaseAt, HeadStatus

LEMMA ChainGrows ==
  ASSUME SourceTypeOK, ChainInv, NEW n \in Node, NEW g \in Grant, acts' = acts,
         lease' = [lease EXCEPT ![n] = Append(lease[n], g)],
         Owns(n, g.epoch), Leased(n) => LeaseAt(n) <= g.epoch,
         g.status = "active" => \A i \in DOMAIN lease[n] :
                                  lease[n][i].epoch = g.epoch => lease[n][i].status # "revoked"
  PROVE  ChainInv'
  <1> DEFINE k == Len(lease[n]) + 1
  <1>0. /\ g.epoch \in Nat /\ g.status \in {"active", "revoked"}
        /\ Len(lease[n]) \in Nat /\ DOMAIN lease'[n] = 1..k /\ DOMAIN lease[n] = 1..Len(lease[n])
        /\ lease'[n][k] = g /\ \A i \in DOMAIN lease[n] : lease'[n][i] = lease[n][i]
    <2>1. g.epoch \in Nat /\ g.status \in {"active", "revoked"}
      BY ControlAssumption DEF Grant, Epochs
    <2> QED
      BY <2>1, LeaseGrows
  <1>1. \A m \in Node : \A e : Owns(m, e)' = Owns(m, e)
    BY DEF Owns
  <1>2. \A i \in DOMAIN lease'[n] : i \in DOMAIN lease[n] \/ i = k
    BY <1>0
  <1>3. ASSUME NEW i \in DOMAIN lease[n]
        PROVE  /\ lease[n][i].epoch <= g.epoch
               /\ lease[n][i].status = "revoked" /\ g.epoch = lease[n][i].epoch =>
                    g.status = "revoked"
    <2>1. Leased(n)
      BY <1>0, <1>3 DEF Leased
    <2>2. PICK l \in DOMAIN lease[n] : l = Len(lease[n]) /\ LeaseAt(n) = lease[n][l].epoch
      BY <2>1, LeaseFacts DEF LeaseAt
    <2>3. lease[n][i].epoch \in Nat /\ lease[n][l].epoch \in Nat
      BY LeaseFacts
    <2>4. lease[n][i].epoch <= lease[n][l].epoch
      BY <1>0, <2>2, <2>3 DEF ChainInv
    <2> QED
      BY <1>0, <2>1, <2>2, <2>3, <2>4
  <1> HIDE DEF k
  <1>4. \A i \in DOMAIN lease'[n] : Owns(n, lease'[n][i].epoch)
    BY <1>0, <1>2 DEF ChainInv
  <1>5. ASSUME NEW i \in DOMAIN lease'[n], NEW j \in DOMAIN lease'[n], i < j
        PROVE  /\ lease'[n][i].epoch <= lease'[n][j].epoch
               /\ lease'[n][i].status = "revoked" /\ lease'[n][j].epoch = lease'[n][i].epoch =>
                    lease'[n][j].status = "revoked"
    <2>1. i \in DOMAIN lease[n] /\ (j \in DOMAIN lease[n] \/ j = k)
      BY <1>0, <1>2, <1>5 DEF k
    <2>2. CASE j \in DOMAIN lease[n]
      BY <1>0, <1>5, <2>1, <2>2 DEF ChainInv
    <2>3. CASE j = k
      BY <1>0, <1>3, <2>1, <2>3
    <2> QED
      BY <2>1, <2>2, <2>3
  <1>6. \A m \in Node \ {n} : lease'[m] = lease[m]
    BY LeaseGrows
  <1>7. lease'[Origin] # <<>>
    <2>1. lease'[n] # <<>>
      BY LeaseGrows DEF Leased
    <2> QED
      BY <1>6, <2>1, SourceAssumption DEF ChainInv
  <1> QED
    BY <1>1, <1>4, <1>5, <1>6, <1>7 DEF ChainInv

LEMMA AppendStep ==
  ASSUME Known, NEW n \in Node, appendFenced(n), UNCHANGED controlVars
  PROVE  HandoverInv'
  <1>1. /\ Leased(n) /\ HeadStatus(n) = "active"
        /\ UNCHANGED <<lease, fence, frozen, cut, cuts, act, acts>>
        /\ ledger' = [ledger EXCEPT ![n] = Append(ledger[n], [by |-> n, epoch |-> fence[n]])]
    BY DEF appendFenced, Writable, controlVars
  <1>2. [by |-> n, epoch |-> fence[n]] \in Row
    BY LeaseFacts DEF appendFenced, Writable, Row, Known
  <1>3. \A m \in Node : ledger'[m] = IF m = n THEN Append(ledger[n], [by |-> n, epoch |-> fence[n]])
                                    ELSE ledger[m]
    BY <1>1 DEF Known, SourceTypeOK
  <1>4. /\ \A m \in Node : Leased(m)' = Leased(m) /\ LeaseAt(m)' = LeaseAt(m)
        /\ \A m \in Node : \A e : Owns(m, e)' = Owns(m, e)
    BY <1>1 DEF Leased, LeaseAt, Owns
  <1>5. ReceiptsInv' /\ ChainInv' /\ PastIsFrozen'
    BY <1>1, <1>4 DEF Known, HandoverInv, ReceiptsInv, ChainInv, PastIsFrozen
  <1>6. FenceInv'
    BY <1>1, <1>3, <1>4 DEF Known, HandoverInv, FenceInv
  <1>7. FrozenInv'
    <2> SUFFICES ASSUME NEW fr \in frozen
                 PROVE  /\ \E i \in DOMAIN lease[fr.node] : /\ lease[fr.node][i].epoch = fr.epoch
                                                           /\ lease[fr.node][i].status = "revoked"
                        /\ LeaseAt(fr.node) = fr.epoch => ledger'[fr.node] = fr.rows
      BY <1>1, <1>4, FrozenNode DEF FrozenInv
    <2>1. fr.node \in Node /\ (LeaseAt(fr.node) = fr.epoch => fr.node # n)
      BY <1>1, FrozenNode
    <2> QED
      BY <1>3, <2>1 DEF Known, HandoverInv, FrozenInv
  <1>8. ASSUME NEW f \in frozen, NEW m \in Node, Leased(m), f.epoch < LeaseAt(m)
        PROVE  IsPrefix(f.rows, ledger'[m])
    <2>1. IsPrefix(f.rows, ledger[m]) /\ f.rows \in Seq(Row) /\ ledger[m] \in Seq(Row)
      BY <1>8, FrozenNode, LeaseFacts DEF Known, HandoverInv, FreezesExtend
    <2> QED
      BY <1>2, <1>3, <2>1, PrefixOrder
  <1>9. FreezesExtend'
    BY <1>1, <1>4, <1>8 DEF Known, HandoverInv, FreezesExtend
  <1> QED
    BY <1>5, <1>6, <1>7, <1>9 DEF HandoverInv

LEMMA GrantStep ==
  ASSUME Known, NEW n \in Node, NEW st \in {"active", "revoked"}, NEW c \in LeaseCmd,
         installLeaseGrant(n, st, c), UNCHANGED controlVars
  PROVE  HandoverInv'
  <1>1. PICK g \in Grant :
          /\ g.epoch = LeaseAt(n) /\ g.status = st /\ Installs(lease[n], g)
          /\ lease' = [lease EXCEPT ![n] = Append(lease[n], g)]
    <2>1. [epoch |-> LeaseAt(n), status |-> st, cmd |-> c] \in Grant
      BY LeaseFacts DEF installLeaseGrant, Grant, Known
    <2> QED
      BY <2>1 DEF installLeaseGrant
  <1>2. Leased(n) /\ UNCHANGED <<fence, ledger, frozen, cut, cuts, act, acts>>
    BY DEF installLeaseGrant, controlVars
  <1>3. Owns(n, LeaseAt(n)) /\ LeaseAt(n) \in Nat
    BY <1>2, LeasedNode
  <1>4. ChainInv'
    <2>1. Owns(n, g.epoch) /\ LeaseAt(n) <= g.epoch
      BY <1>1, <1>3
    <2>2. g.status = "active" => \A i \in DOMAIN lease[n] :
                                   lease[n][i].epoch = g.epoch => lease[n][i].status # "revoked"
      BY <1>1 DEF Installs
    <2>3. SourceTypeOK /\ ChainInv
      BY DEF Known, HandoverInv
    <2> QED
      BY <1>1, <1>2, <2>1, <2>2, <2>3, ChainGrows
  <1>5. /\ \A m \in Node : Leased(m)' = Leased(m) /\ LeaseAt(m)' = LeaseAt(m)
        /\ \A m \in Node : \A i \in DOMAIN lease[m] : i \in DOMAIN lease'[m] /\ lease'[m][i] = lease[m][i]
    <2>1. SourceTypeOK /\ n \in Node /\ DOMAIN lease[n] \subseteq DOMAIN lease'[n]
      BY <1>1, LeaseGrows DEF Known
    <2>2. Leased(n)' = Leased(n) /\ LeaseAt(n)' = LeaseAt(n)
      BY <1>1, <1>2, <2>1, LeaseGrows
    <2>3. \A m \in Node \ {n} : /\ lease'[m] = lease[m] /\ Leased(m)' = Leased(m)
                                /\ LeaseAt(m)' = LeaseAt(m)
      BY <1>1, <2>1, LeaseGrows
    <2>4. \A i \in DOMAIN lease[n] : lease'[n][i] = lease[n][i]
      BY <1>1, <2>1, LeaseGrows
    <2> QED
      BY <2>1, <2>2, <2>3, <2>4
  <1>6. ReceiptsInv' /\ PastIsFrozen'
    BY <1>2 DEF Known, HandoverInv, ReceiptsInv, PastIsFrozen, Owns
  <1>7. FenceInv'
    BY <1>2, <1>5 DEF Known, HandoverInv, FenceInv
  <1>8. FrozenInv'
    BY <1>2, <1>5, FrozenNode DEF Known, HandoverInv, FrozenInv
  <1>9. FreezesExtend'
    BY <1>2, <1>5 DEF Known, HandoverInv, FreezesExtend
  <1> QED
    BY <1>4, <1>6, <1>7, <1>8, <1>9 DEF HandoverInv

LEMMA EmitStep ==
  ASSUME Known, NEW n \in Node, NEW c \in Cmd, emitSourceFrozenReceipt(n, c), UNCHANGED controlVars
  PROVE  HandoverInv'
  <1>1. PICK new \in FrozenReceipt :
          /\ new.node = n /\ new.epoch = LeaseAt(n) /\ new.rows = ledger[n]
          /\ frozen' = frozen \cup {new}
    <2>1. [node |-> n, epoch |-> LeaseAt(n), cmd |-> c, rows |-> ledger[n]] \in FrozenReceipt
      BY LeaseFacts DEF emitSourceFrozenReceipt, FrozenReceipt, Known
    <2> QED
      BY <2>1 DEF emitSourceFrozenReceipt
  <1>2. /\ Leased(n) /\ HeadStatus(n) = "revoked"
        /\ UNCHANGED <<lease, fence, ledger, cut, cuts, act, acts>>
    BY DEF emitSourceFrozenReceipt, controlVars
  <1>3. /\ \A m \in Node : Leased(m)' = Leased(m) /\ LeaseAt(m)' = LeaseAt(m)
        /\ \A m \in Node : \A e : Owns(m, e)' = Owns(m, e)
    BY <1>2 DEF Leased, LeaseAt, Owns
  <1>4. ReceiptsInv' /\ ChainInv' /\ FenceInv' /\ PastIsFrozen'
    BY <1>1, <1>2, <1>3
       DEF Known, HandoverInv, ReceiptsInv, ChainInv, FenceInv, PastIsFrozen
  <1>5. FrozenInv'
    <2>1. \E i \in DOMAIN lease[n] : lease[n][i].epoch = LeaseAt(n) /\ lease[n][i].status = "revoked"
      BY <1>2, LeaseFacts DEF Known, LeaseAt, HeadStatus
    <2> QED
      BY <1>1, <1>2, <1>3, <2>1, FrozenNode DEF Known, HandoverInv, FrozenInv
  <1>6. /\ LeaseAt(n) \in Nat /\ LeaseAt(n) <= act.epoch /\ ledger[n] \in Seq(Row)
        /\ act.epoch \in Nat
    BY <1>2, LeasedNode, LeaseFacts, HeadFacts DEF Known
  <1>7. (* An earlier freeze of the epoch has the same rows. *)
        ASSUME NEW f \in frozen, f.epoch = LeaseAt(n) PROVE f.rows = ledger[n]
    <2>1. f.node = n
      BY <1>2, <1>6, <1>7, LeasedNode, FrozenNode, OwnerUnique DEF Known, ControlInv
    <2> QED
      BY <1>7, <2>1, FrozenNode
  <1>8. ASSUME NEW f \in frozen
        PROVE  /\ f.epoch <= LeaseAt(n) => IsPrefix(f.rows, ledger[n])
               /\ LeaseAt(n) <= f.epoch => IsPrefix(ledger[n], f.rows)
    <2>1. f.epoch \in Nat /\ f.rows \in Seq(Row) /\ f.epoch <= act.epoch
      BY FrozenNode
    <2>2. CASE f.epoch = LeaseAt(n)
      BY <1>6, <1>7, <2>2, PrefixOrder
    <2>3. CASE f.epoch < LeaseAt(n)
      BY <1>2, <1>6, <2>1, <2>3 DEF Known, HandoverInv, FreezesExtend
    <2>4. CASE LeaseAt(n) < f.epoch
      <3>1. LeaseAt(n) # act.epoch
        BY <1>6, <2>1, <2>4
      <3>2. PICK g \in frozen : g.node = n /\ g.epoch = LeaseAt(n) /\ g.rows = ledger[n]
        BY <1>2, <3>1, LeasedNode
      <3> QED
        BY <1>6, <2>1, <2>4, <3>2 DEF Known, HandoverInv, FreezesExtend
    <2> QED
      BY <1>6, <2>1, <2>2, <2>3, <2>4
  <1>9. ASSUME NEW m \in Node, Leased(m), LeaseAt(n) < LeaseAt(m) PROVE IsPrefix(ledger[n], ledger[m])
    BY <1>9, EarlierIsPrefix
  <1>10. FreezesExtend'
    <2>1. ASSUME NEW f \in frozen', NEW g \in frozen', f.epoch <= g.epoch
          PROVE  IsPrefix(f.rows, g.rows)
      <3>1. CASE f = new /\ g = new
        BY <1>1, <1>6, <3>1, PrefixOrder
      <3>2. CASE f = new /\ g \in frozen
        BY <1>1, <1>8, <2>1, <3>2
      <3>3. CASE f \in frozen /\ g = new
        BY <1>1, <1>8, <2>1, <3>3
      <3>4. CASE f \in frozen /\ g \in frozen
        BY <2>1, <3>4 DEF Known, HandoverInv, FreezesExtend
      <3> QED
        BY <1>1, <3>1, <3>2, <3>3, <3>4
    <2>2. ASSUME NEW f \in frozen', NEW m \in Node, Leased(m), f.epoch < LeaseAt(m)
          PROVE  IsPrefix(f.rows, ledger[m])
      BY <1>1, <1>9, <2>2 DEF Known, HandoverInv, FreezesExtend
    <2> QED
      BY <1>2, <1>3, <2>1, <2>2 DEF FreezesExtend
  <1> QED
    BY <1>4, <1>5, <1>10 DEF HandoverInv

(* The first installation of an activation: only the current activation    *)
(* can be, and every freeze signed so far is a prefix of what it imports.  *)
Appoints(n, g, fr) ==
  /\ lease' = [lease EXCEPT ![n] = Append(lease[n], g)]
  /\ g.epoch = act.epoch /\ g.status = "active" /\ Owns(n, act.epoch)
  /\ Leased(n) => LeaseAt(n) < act.epoch
  /\ fr.epoch < act.epoch
  /\ \A f \in frozen : f.epoch <= fr.epoch
  /\ IsPrefix(ledger[n], fr.rows)
  /\ ledger' = [ledger EXCEPT ![n] = fr.rows]
  /\ fence' = [fence EXCEPT ![n] = act.epoch]

LEMMA Activation ==
  ASSUME Known, NEW n \in Node, NEW a \in acts, activateFinalizedReceiverAsSource(n, a)
  PROVE  UNCHANGED <<lease, ledger, fence>> \/ \E g \in Grant, fr \in frozen : Appoints(n, g, fr)
  <1>1. /\ a \in ActRow /\ a.epoch \in Nat /\ a.epoch \in Epochs /\ a.prior \in Seq(Grant)
        /\ a.chain \in Seq(Grant) /\ a.cmd \in Cmd /\ act.epoch \in Nat
    BY ActFacts, HeadFacts DEF Known, ControlTypeOK
  <1>2. PICK g \in Grant : /\ g.epoch = a.epoch /\ g.status = "active"
                          /\ a.chain = Append(a.prior, g)
    <2>1. [epoch |-> a.epoch, status |-> "active", cmd |-> a.cmd] \in Grant
      BY <1>1 DEF Grant
    <2> QED
      BY <2>1 DEF Known, HandoverInv, ReceiptsInv
  <1>3. /\ Len(a.chain) = Len(a.prior) + 1 /\ a.chain[Len(a.chain)] = g
        /\ Len(a.prior) \in Nat /\ Len(a.chain) \in 1..Len(a.chain)
    BY <1>1, <1>2
  <1>4. PICK fr \in frozen : fr = a.final.frozen
    BY DEF Known, HandoverInv, ReceiptsInv
  <1>5. /\ a.node = n /\ fr.epoch < a.epoch /\ IsPrefix(ledger[n], fr.rows) /\ fence[n] <= a.epoch
        /\ (lease[n] = a.prior /\ Installs(lease[n], g)) \/ IsPrefix(a.chain, lease[n])
        /\ lease' = [lease EXCEPT ![n] = IF lease[n] = a.prior THEN a.chain ELSE lease[n]]
        /\ ledger' = [ledger EXCEPT ![n] = fr.rows]
        /\ fence' = [fence EXCEPT ![n] = a.epoch]
    BY <1>3, <1>4 DEF activateFinalizedReceiverAsSource
  <1>6. /\ lease[n] \in Seq(Grant) /\ ledger[n] \in Seq(Row) /\ fence[n] \in Int
        /\ fr.rows \in Seq(Row) /\ fr.epoch \in Nat
    BY LeaseFacts, FrozenNode DEF Known
  <1>7. Owns(n, a.epoch)
    BY <1>5 DEF Owns
  <1>8. CASE lease[n] # a.prior
    <2>1. /\ Len(a.chain) <= Len(lease[n])
          /\ \A i \in 1..Len(a.chain) : a.chain[i] = lease[n][i]
      BY <1>1, <1>5, <1>6, <1>8, PrefixElements
    <2>2. PICK k \in DOMAIN lease[n] : k = Len(a.chain) /\ lease[n][k] = g /\ k <= Len(lease[n])
      BY <1>3, <1>6, <2>1
    <2>3. Leased(n)
      BY <1>6, <2>2 DEF Leased
    <2>4. PICK l \in DOMAIN lease[n] : l = Len(lease[n]) /\ LeaseAt(n) = lease[n][l].epoch /\ l \in Nat
      BY <2>3, LeaseFacts DEF LeaseAt, Known
    <2>5. LeaseAt(n) \in Nat /\ fence[n] = LeaseAt(n) /\ k \in Nat
      BY <1>3, <2>2, <2>3, LeasedNode
    <2>6. a.epoch <= LeaseAt(n)
      <3>1. CASE k = l
        BY <1>1, <1>2, <2>2, <2>4, <3>1
      <3>2. CASE k < l
        BY <1>2, <2>2, <2>4, <3>2 DEF Known, HandoverInv, ChainInv
      <3> QED
        BY <2>2, <2>4, <2>5, <3>1, <3>2
    <2>7. fence[n] = a.epoch
      BY <1>1, <1>5, <2>5, <2>6
    <2>8. ledger[n] = fr.rows
      <3>1. fr.epoch < LeaseAt(n)
        BY <1>1, <1>5, <1>6, <2>5, <2>6
      <3>2. IsPrefix(fr.rows, ledger[n])
        BY <2>3, <3>1 DEF Known, HandoverInv, FreezesExtend
      <3> QED
        BY <1>5, <1>6, <3>2, PrefixOrder
    <2> QED
      BY <1>5, <1>8, <2>7, <2>8 DEF Known, SourceTypeOK
  <1>9. CASE lease[n] = a.prior
    <2>1. ~IsPrefix(a.chain, lease[n])
      BY <1>1, <1>3, <1>6, <1>9, PrefixElements
    <2>2. lease' = [lease EXCEPT ![n] = Append(lease[n], g)]
      BY <1>2, <1>5, <1>9
    <2>3. \A i \in DOMAIN lease[n] : lease[n][i].epoch < a.epoch
      BY <1>9 DEF Known, HandoverInv, ReceiptsInv
    <2>4. Leased(n) => LeaseAt(n) < a.epoch
      BY <2>3, LeaseFacts DEF Known, LeaseAt
    <2>5. \A f \in frozen : f.epoch # a.epoch
      <3> SUFFICES ASSUME NEW f \in frozen, f.epoch = a.epoch PROVE FALSE
        OBVIOUS
      <3>1. f.node = n
        BY <1>1, <1>5, <1>7, FrozenNode, OwnerUnique DEF Known, ControlInv
      <3>2. \E i \in DOMAIN lease[n] : lease[n][i].epoch = a.epoch
        BY <3>1 DEF Known, HandoverInv, FrozenInv
      <3> QED
        BY <1>1, <2>3, <3>2
    <2>6. a.epoch = act.epoch
      <3>1. a.epoch <= act.epoch
        BY DEF Known, ControlInv, ActivationsChain
      <3>2. ~(a.epoch < act.epoch)
        BY <1>1, <1>7, <2>5 DEF Known, HandoverInv, PastIsFrozen
      <3> QED
        BY <1>1, <3>1, <3>2
    <2>7. ASSUME NEW f \in frozen PROVE f.epoch <= fr.epoch
      <3>1. f.epoch \in Nat /\ f.epoch < a.epoch /\ Owns(f.node, f.epoch)
        BY <1>1, <2>5, <2>6, FrozenNode
      <3>2. CASE f.epoch = 0
        BY <1>6, <3>2
      <3>3. CASE f.epoch # 0
        <4>1. PICK b \in acts : b.epoch = f.epoch
          BY <3>1, <3>3 DEF Owns
        <4> QED
          BY <1>4, <3>1, <4>1 DEF Known, ControlInv, ActivationsChain
      <3> QED
        BY <3>2, <3>3
    <2>8. Appoints(n, g, fr)
      BY <1>2, <1>5, <1>7, <2>2, <2>4, <2>6, <2>7 DEF Appoints
    <2> QED
      BY <2>8
  <1> QED
    BY <1>8, <1>9

LEMMA ActivationStep ==
  ASSUME Known, NEW n \in Node, NEW a \in acts, activateFinalizedReceiverAsSource(n, a),
         UNCHANGED controlVars
  PROVE  HandoverInv'
  <1>1. UNCHANGED <<frozen, cut, cuts, act, acts>>
    BY DEF activateFinalizedReceiverAsSource, controlVars
  <1>2. CASE UNCHANGED <<lease, ledger, fence>>
    BY <1>1, <1>2
       DEF Known, HandoverInv, ReceiptsInv, ChainInv, FenceInv, FrozenInv, PastIsFrozen,
           FreezesExtend, Owns, Leased, LeaseAt
  <1>3. ASSUME NEW g \in Grant, NEW fr \in frozen, Appoints(n, g, fr) PROVE HandoverInv'
    <2>1. /\ lease' = [lease EXCEPT ![n] = Append(lease[n], g)]
          /\ g.epoch = act.epoch /\ g.status = "active" /\ Owns(n, act.epoch)
          /\ Leased(n) => LeaseAt(n) < act.epoch
          /\ fr.epoch < act.epoch
          /\ \A f \in frozen : f.epoch <= fr.epoch
          /\ ledger' = [ledger EXCEPT ![n] = fr.rows]
          /\ fence' = [fence EXCEPT ![n] = act.epoch]
      BY <1>3 DEF Appoints
    <2>2. act.epoch \in Nat /\ fr.rows \in Seq(Row) /\ fr.epoch \in Nat /\ SourceTypeOK
      BY HeadFacts, FrozenNode DEF Known
    <2>3. \A m \in Node \ {n} : /\ lease'[m] = lease[m] /\ ledger'[m] = ledger[m]
                                /\ fence'[m] = fence[m]
                                /\ Leased(m)' = Leased(m) /\ LeaseAt(m)' = LeaseAt(m)
      <3>1. \A m \in Node \ {n} : ledger'[m] = ledger[m] /\ fence'[m] = fence[m]
        BY <2>1, <2>2 DEF SourceTypeOK
      <3> QED
        BY <2>1, <2>2, <3>1, LeaseGrows
    <2>4. /\ Leased(n)' /\ LeaseAt(n)' = act.epoch /\ ledger'[n] = fr.rows /\ fence'[n] = act.epoch
          /\ \A i \in DOMAIN lease[n] : i \in DOMAIN lease'[n] /\ lease'[n][i] = lease[n][i]
      <3>1. ledger'[n] = fr.rows /\ fence'[n] = act.epoch
        BY <2>1, <2>2 DEF SourceTypeOK
      <3>2. /\ DOMAIN lease[n] \subseteq DOMAIN lease'[n]
            /\ \A i \in DOMAIN lease[n] : lease'[n][i] = lease[n][i]
        BY <2>1, <2>2, LeaseGrows
      <3>3. Leased(n)' /\ LeaseAt(n)' = act.epoch
        BY <2>1, <2>2, LeaseGrows
      <3> QED
        BY <3>1, <3>2, <3>3
    <2>5. ChainInv'
      <3>1. \A i \in DOMAIN lease[n] : lease[n][i].epoch # g.epoch
        <4> SUFFICES ASSUME NEW i \in DOMAIN lease[n], lease[n][i].epoch = act.epoch PROVE FALSE
          BY <2>1
        <4>1. Leased(n) /\ i \in 1..Len(lease[n]) /\ lease[n] \in Seq(Grant)
          BY <2>2, LeaseFacts DEF Leased
        <4>2. PICK l \in DOMAIN lease[n] : l = Len(lease[n]) /\ LeaseAt(n) = lease[n][l].epoch
          BY <2>2, <4>1, LeaseFacts DEF LeaseAt
        <4>3. i = l \/ i < l
          BY <4>1, <4>2
        <4>4. lease[n][i].epoch <= LeaseAt(n) /\ LeaseAt(n) \in Nat
          BY <2>2, <4>1, <4>2, <4>3, LeaseFacts DEF Known, HandoverInv, ChainInv
        <4> QED
          BY <2>1, <2>2, <4>1, <4>4
      <3>2. Owns(n, g.epoch) /\ (Leased(n) => LeaseAt(n) <= g.epoch)
        BY <2>1, <2>2, LeaseFacts
      <3>3. ChainInv
        BY DEF Known, HandoverInv
      <3> QED
        BY <1>1, <2>1, <2>2, <3>1, <3>2, <3>3, ChainGrows
    <2>6. ReceiptsInv' /\ PastIsFrozen'
      BY <1>1 DEF Known, HandoverInv, ReceiptsInv, PastIsFrozen, Owns
    <2>7. FenceInv'
      BY <2>3, <2>4 DEF Known, HandoverInv, FenceInv
    <2>8. FrozenInv'
      <3>1. ASSUME NEW f \in frozen
            PROVE  /\ \E i \in DOMAIN lease'[f.node] : /\ lease'[f.node][i].epoch = f.epoch
                                                      /\ lease'[f.node][i].status = "revoked"
                   /\ LeaseAt(f.node)' = f.epoch => ledger'[f.node] = f.rows
        <4>1. f.node \in Node /\ f.epoch \in Nat /\ f.epoch # act.epoch
          BY <2>1, <2>2, FrozenNode
        <4>2. PICK i \in DOMAIN lease[f.node] : /\ lease[f.node][i].epoch = f.epoch
                                               /\ lease[f.node][i].status = "revoked"
          BY DEF Known, HandoverInv, FrozenInv
        <4>3. CASE f.node = n
          BY <2>4, <4>1, <4>2, <4>3
        <4>4. CASE f.node # n
          BY <2>3, <4>1, <4>2, <4>4 DEF Known, HandoverInv, FrozenInv
        <4> QED
          BY <4>3, <4>4
      <3> QED
        BY <1>1, <3>1 DEF FrozenInv
    <2>9. FreezesExtend'
      <3>1. \A f \in frozen : IsPrefix(f.rows, fr.rows)
        BY <2>1 DEF Known, HandoverInv, FreezesExtend
      <3>2. ASSUME NEW f \in frozen, NEW m \in Node, Leased(m)', f.epoch < LeaseAt(m)'
            PROVE  IsPrefix(f.rows, ledger'[m])
        BY <2>3, <2>4, <3>1, <3>2 DEF Known, HandoverInv, FreezesExtend
      <3> QED
        BY <1>1, <3>2 DEF Known, HandoverInv, FreezesExtend
    <2> QED
      BY <2>5, <2>6, <2>7, <2>8, <2>9 DEF HandoverInv
  <1> QED
    BY <1>2, <1>3, Activation

(* A step that leaves leases, ledgers, fences and the freezes alone.       *)
LEMMA ControlKeeps ==
  ASSUME Known, UNCHANGED <<lease, ledger, fence, frozen>>, acts \subseteq acts'
  PROVE  ChainInv' /\ FenceInv' /\ FrozenInv' /\ FreezesExtend'
  <1>1. /\ \A m \in Node : Leased(m)' = Leased(m) /\ LeaseAt(m)' = LeaseAt(m)
        /\ \A m \in Node : \A e : Owns(m, e) => Owns(m, e)'
    BY DEF Leased, LeaseAt, Owns
  <1>2. ChainInv'
    BY <1>1 DEF Known, HandoverInv, ChainInv
  <1>3. FenceInv' /\ FreezesExtend'
    BY <1>1 DEF Known, HandoverInv, FenceInv, FreezesExtend
  <1>4. FrozenInv'
    BY <1>1, FrozenNode DEF Known, HandoverInv, FrozenInv
  <1> QED
    BY <1>2, <1>3, <1>4

LEMMA ImportStep ==
  ASSUME Known, UNCHANGED <<lease, ledger, fence, frozen, cut, cuts, act, acts>>
  PROVE  HandoverInv'
  <1>1. ReceiptsInv' /\ PastIsFrozen'
    BY DEF Known, HandoverInv, ReceiptsInv, PastIsFrozen, Owns
  <1> QED
    BY <1>1, ControlKeeps DEF HandoverInv

(* A row appended to the cutover log, with the receipt it carries.         *)
LEMMA RowStep ==
  ASSUME Known, NEW row \in CutRow, cutTransition(row), UNCHANGED <<act, acts>>, UNCHANGED sourceVars,
         row.phase = "SOURCE_FENCED" => row.frozen \in frozen,
         row.phase \in {"READY", "ACTIVE"} => row.final.frozen \in frozen
  PROVE  HandoverInv'
  <1>1. UNCHANGED <<lease, ledger, fence, frozen>> /\ cut' = row /\ cuts' = cuts \cup {row}
    BY DEF sourceVars, cutTransition
  <1>2. ReceiptsInv'
    BY <1>1 DEF Known, HandoverInv, ReceiptsInv
  <1>3. PastIsFrozen'
    BY <1>1 DEF Known, HandoverInv, PastIsFrozen, Owns
  <1> QED
    BY <1>1, <1>2, <1>3, ControlKeeps DEF HandoverInv

LEMMA ActivateSourceStep ==
  ASSUME Known, NEW c \in Cmd, NEW prior \in Chain, activateSource(c, prior), UNCHANGED sourceVars
  PROVE  HandoverInv'
  <1>1. PICK row : /\ row = [epoch |-> cut.epoch, cmd |-> c, node |-> cut.final.node,
                             final |-> cut.final, prior |-> prior,
                             chain |-> Append(prior, [epoch |-> cut.epoch, status |-> "active",
                                                      cmd |-> c])]
                   /\ act' = row /\ acts' = acts \cup {row} /\ UNCHANGED <<cut, cuts>>
    BY DEF activateSource
  <1>2. /\ cut.phase = "ACTIVE" /\ cut.final.frozen.epoch = act.epoch /\ cut.epoch > act.epoch
        /\ \A i \in DOMAIN prior : prior[i].epoch < cut.epoch
    BY DEF activateSource, CutAt, PriorChainOk, ConsumedActivationEpochs
  <1>3. UNCHANGED <<lease, ledger, fence, frozen>>
    BY DEF sourceVars
  <1>4. PICK fr \in frozen : fr = cut.final.frozen
    BY <1>2 DEF Known, HandoverInv, ReceiptsInv
  <1>5. ReceiptsInv'
    <2>1. row.final.frozen \in frozen
      BY <1>1, <1>4
    <2>2. row.chain = Append(row.prior, [epoch |-> row.epoch, status |-> "active", cmd |-> row.cmd])
      BY <1>1
    <2>3. \A i \in DOMAIN row.prior : row.prior[i].epoch < row.epoch
      BY <1>1, <1>2
    <2> HIDE DEF HandoverInv
    <2>4. ReceiptsInv
      BY DEF Known, HandoverInv
    <2> QED
      BY <1>1, <1>3, <2>1, <2>2, <2>3, <2>4 DEF ReceiptsInv
  <1>6. PastIsFrozen'
    <2> SUFFICES ASSUME NEW n \in Node, NEW e \in Epochs, Owns(n, e)', e < act'.epoch
                 PROVE  \E f \in frozen : f.node = n /\ f.epoch = e
      BY <1>3 DEF PastIsFrozen
    <2>1. e \in Nat /\ act.epoch \in Nat /\ row.epoch = cut.epoch /\ cut.epoch \in Nat
      BY <1>1, <1>2, HeadFacts, CutRowFacts, ControlAssumption DEF Epochs, Known
    <2>2. e # row.epoch
      BY <1>1, <2>1
    <2>3. Owns(n, e)
      BY <1>1, <2>2 DEF Owns
    <2>4. e <= act.epoch
      BY <2>1, <2>3, OwnerUnique DEF Known, ControlInv
    <2>5. CASE e < act.epoch
      BY <2>3, <2>5 DEF Known, HandoverInv, PastIsFrozen
    <2>6. CASE e = act.epoch
      <3>1. fr.node \in Node /\ Owns(fr.node, act.epoch) /\ fr.epoch = act.epoch
        BY <1>2, <1>4, FrozenNode
      <3>2. fr.node = n
        BY <2>1, <2>3, <2>6, <3>1, OwnerUnique DEF Known, ControlInv
      <3> QED
        BY <2>6, <3>1, <3>2
    <2> QED
      BY <2>1, <2>4, <2>5, <2>6
  <1> QED
    BY <1>1, <1>3, <1>5, <1>6, ControlKeeps DEF HandoverInv

LEMMA ControlHandoverStep ==
  ASSUME Known, ControlSteps, UNCHANGED sourceVars
  PROVE  HandoverInv'
  <1>0. /\ cut.seq \in Nat /\ (cut.phase # "none" <=> cut \in CutRow)
        /\ UNCHANGED <<lease, ledger, fence, frozen>>
    BY HeadFacts DEF Known, sourceVars
  <1>1. CASE UNCHANGED <<cut, cuts, act, acts>>
    BY <1>0, <1>1, ImportStep
  <1>2. ASSUME NEW c \in Cmd, beginPromotionIntent(c) PROVE HandoverInv'
    <2>1. PICK row : /\ row = [seq |-> cut.seq + 1, epoch |-> wit.epoch + 1, cmd |-> c,
                               phase |-> "PREPARING"]
                     /\ cutTransition(row) /\ UNCHANGED <<act, acts>>
      BY <1>2 DEF beginPromotionIntent
    <2>2. wit.epoch + 1 \in Epochs
      BY <1>2, HeadFacts, ControlAssumption DEF beginPromotionIntent, Epochs, Known
    <2>3. row \in CutRow /\ row.phase = "PREPARING"
      BY <1>0, <2>1, <2>2, NewRows
    <2> QED
      BY <2>1, <2>3, RowStep
  <1>3. ASSUME NEW c \in Cmd, NEW fr \in frozen, bindSourceFenced(c, fr) PROVE HandoverInv'
    <2>1. PICK row : /\ row = [seq |-> cut.seq + 1, epoch |-> cut.epoch, cmd |-> c,
                               phase |-> "SOURCE_FENCED", frozen |-> fr]
                     /\ cutTransition(row) /\ UNCHANGED <<act, acts>> /\ cut.phase = "PREPARING"
      BY <1>3 DEF bindSourceFenced, CutAt
    <2>2. cut.epoch \in Epochs /\ fr \in FrozenReceipt
      BY <1>0, <2>1, CutRowFacts DEF Known, SourceTypeOK
    <2>3. row \in CutRow /\ row.phase = "SOURCE_FENCED" /\ row.frozen = fr
      BY <1>0, <2>1, <2>2, NewRows
    <2> QED
      BY <2>1, <2>3, RowStep
  <1>4. ASSUME NEW c \in Cmd, markImporting(c) PROVE HandoverInv'
    <2>1. PICK row : /\ row = [seq |-> cut.seq + 1, epoch |-> cut.epoch, cmd |-> c,
                               phase |-> "IMPORTING", lease |-> cut.lease, record |-> cut.record]
                     /\ cutTransition(row) /\ UNCHANGED <<act, acts>> /\ cut.phase = "FENCED"
      BY <1>4 DEF markImporting, CutAt
    <2>2. cut \in FencedRow /\ cut.epoch \in Epochs
      BY <1>0, <2>1, CutRowFacts
    <2>3. cut.lease \in Nat /\ cut.record \in Claim
      BY <2>2 DEF FencedRow
    <2>4. row \in CutRow /\ row.phase = "IMPORTING"
      BY <1>0, <2>1, <2>2, <2>3, NewRows
    <2> QED
      BY <2>1, <2>4, RowStep
  <1>5. ASSUME NEW c \in Cmd, NEW br \in FinalizedReceipt, markReady(c, br) PROVE HandoverInv'
    <2>1. PICK row : /\ row = [seq |-> cut.seq + 1, epoch |-> cut.epoch, cmd |-> c,
                               phase |-> "READY", final |-> br]
                     /\ cutTransition(row) /\ UNCHANGED <<act, acts>> /\ cut.phase = "IMPORTING"
      BY <1>5 DEF markReady, CutAt
    <2>2. br.frozen \in frozen
      BY <1>5 DEF markReady, BoundFreeze, Known, HandoverInv, ReceiptsInv
    <2>3. cut.epoch \in Epochs
      BY <1>0, <2>1, CutRowFacts
    <2>4. row \in CutRow /\ row.phase = "READY" /\ row.final = br
      BY <1>0, <2>1, <2>3, NewRows
    <2> QED
      BY <2>1, <2>2, <2>4, RowStep
  <1>6. ASSUME NEW c \in Cmd, activate(c) PROVE HandoverInv'
    <2>1. PICK row : /\ row = [seq |-> cut.seq + 1, epoch |-> cut.epoch, cmd |-> c,
                               phase |-> "ACTIVE", final |-> cut.final]
                     /\ cutTransition(row) /\ UNCHANGED <<act, acts>> /\ cut.phase = "READY"
      BY <1>6 DEF activate, CutAt
    <2>2. cut.epoch \in Epochs /\ cut.final \in FinalizedReceipt
      BY <1>0, <2>1, CutRowFacts
    <2>3. cut.final.frozen \in frozen
      BY <2>1 DEF Known, HandoverInv, ReceiptsInv
    <2>4. row \in CutRow /\ row.phase = "ACTIVE" /\ row.final = cut.final
      BY <1>0, <2>1, <2>2, NewRows
    <2> QED
      BY <2>1, <2>3, <2>4, RowStep
  <1>7. ASSUME NEW c \in Cmd, abortFencedPromotion(c) PROVE HandoverInv'
    <2>1. PICK row : /\ row = [seq |-> cut.seq + 1, epoch |-> cut.epoch, cmd |-> c,
                               phase |-> "ABORTED"]
                     /\ cutTransition(row) /\ UNCHANGED <<act, acts>> /\ cut.phase # "none"
      BY <1>7 DEF abortFencedPromotion
    <2>2. cut.epoch \in Epochs
      BY <1>0, <2>1, CutRowFacts
    <2>3. row \in CutRow /\ row.phase = "ABORTED"
      BY <1>0, <2>1, <2>2, NewRows
    <2> QED
      BY <2>1, <2>3, RowStep
  <1>8. ASSUME NEW k \in Caller, advanceCommit(k) PROVE HandoverInv'
    <2>1. PICK row : /\ row = [seq |-> cut.seq + 1, epoch |-> calls[k].claim.epoch,
                               cmd |-> calls[k].claim.cmd, phase |-> "FENCED",
                               lease |-> grant.seq, record |-> calls[k].claim]
                     /\ cutTransition(row) /\ UNCHANGED <<act, acts>>
      BY <1>8 DEF advanceCommit
    <2>2. calls[k] \in Call \cup {Idle} /\ calls[k] # Idle
      BY <1>8 DEF advanceCommit, Known, ControlTypeOK, Idle
    <2>3. /\ calls[k].claim \in Claim /\ calls[k].claim.epoch \in Epochs
          /\ calls[k].claim.cmd \in Cmd
      BY <2>2, CallFacts
    <2>4. grant.seq \in Nat
      BY HeadFacts DEF Known
    <2>5. row \in CutRow /\ row.phase = "FENCED"
      BY <1>0, <2>1, <2>3, <2>4, NewRows
    <2> QED
      BY <2>1, <2>5, RowStep
  <1>9. ASSUME NEW c \in Cmd, NEW prior \in Chain, activateSource(c, prior) PROVE HandoverInv'
    BY <1>9, ActivateSourceStep
  <1>10. ControlSteps =>
           \/ UNCHANGED <<cut, cuts, act, acts>>
           \/ \E c \in Cmd : \/ beginPromotionIntent(c)
                             \/ \E r \in frozen : bindSourceFenced(c, r)
                             \/ markImporting(c)
                             \/ \E r \in FinalizedReceipt : markReady(c, r)
                             \/ activate(c)
                             \/ \E prior \in Chain : activateSource(c, prior)
                             \/ abortFencedPromotion(c)
           \/ \E k \in Caller : advanceCommit(k)
    <2> SUFFICES ASSUME ControlSteps
                 PROVE  \/ UNCHANGED <<cut, cuts, act, acts>>
                        \/ \E c \in Cmd : \/ beginPromotionIntent(c)
                                          \/ \E r \in frozen : bindSourceFenced(c, r)
                                          \/ markImporting(c)
                                          \/ \E r \in FinalizedReceipt : markReady(c, r)
                                          \/ activate(c)
                                          \/ \E prior \in Chain : activateSource(c, prior)
                                          \/ abortFencedPromotion(c)
                        \/ \E k \in Caller : advanceCommit(k)
      OBVIOUS
    <2> DEFINE br == {pointer[n] : n \in Node} \ {NoReceipt}
               pc == IF cut.phase = "ACTIVE" THEN Presentable(cut.final.node) ELSE {}
    <2>1. br \subseteq FinalizedReceipt /\ pc \subseteq Chain
      BY ReceiptsSubsets DEF Known
    <2>2. ControlNext(frozen, br, pc)
      BY DEF ControlSteps
    <2> HIDE DEF br, pc
    <2>3. \A m \in Marker : provisionIntent(m) \/ provisionIncomplete(m) \/ provisionComplete(m) =>
            UNCHANGED <<cut, cuts, act, acts>>
      BY DEF provisionIntent, provisionIncomplete, provisionComplete
    <2>4. \A h \in Holder, st \in Status, x \in Times, c \in LeaseCmd :
            writeLease(h, st, x, c) => UNCHANGED <<cut, cuts, act, acts>>
      BY DEF writeLease
    <2>5. \A k \in Caller :
            /\ \A claim \in Claim, margin \in Margin :
                 advanceCheck(k, claim, margin) => UNCHANGED <<cut, cuts, act, acts>>
            /\ advanceClaim(k) \/ advanceFails(k) => UNCHANGED <<cut, cuts, act, acts>>
      BY DEF advanceCheck, advanceClaim, advanceFails
    <2>6. ClockTick \/ RedisLoses => UNCHANGED <<cut, cuts, act, acts>>
      BY DEF ClockTick, RedisLoses
    <2> QED
      BY <2>1, <2>2, <2>3, <2>4, <2>5, <2>6 DEF ControlNext
  <1> QED
    BY <1>1, <1>2, <1>3, <1>4, <1>5, <1>6, <1>7, <1>8, <1>9, <1>10

LEMMA HandoverInitOK == HandoverInit => Known
  <1> SUFFICES ASSUME HandoverInit PROVE Known
    OBVIOUS
  <1>1. ControlTypeOK /\ ControlInv /\ act = NoAct /\ acts = {} /\ cuts = {} /\ cut = NoCut
    BY ControlInitOK DEF HandoverInit, ControlInit
  <1>2. PICK one \in Seq(Grant) : one = <<Genesis>> /\ one # <<>> /\ Len(one) = 1 /\ one[1] = Genesis
    <2>1. Genesis \in Grant
      BY ControlAssumption DEF Genesis, Grant, Epochs
    <2>2. /\ <<Genesis>> \in Seq(Grant) /\ <<Genesis>> # <<>>
          /\ Len(<<Genesis>>) = 1 /\ <<Genesis>>[1] = Genesis
      BY <2>1
    <2> QED
      BY <2>2
  <1>3. /\ lease = [n \in Node |-> IF n = Origin THEN one ELSE <<>>]
        /\ fence = [n \in Node |-> IF n = Origin THEN 0 ELSE -1]
        /\ ledger = [n \in Node |-> <<>>] /\ frozen = {}
    BY <1>2 DEF HandoverInit, SourceInit
  <1>4. SourceTypeOK
    <2>1. lease \in [Node -> Chain]
      BY <1>2, <1>3 DEF Chain
    <2>2. fence \in [Node -> -1..MaxEpoch] /\ ledger \in [Node -> Seq(Row)]
      BY <1>3, ControlAssumption
    <2>3. /\ staged \in [Node -> [Generation -> FrozenReceipt \cup {NoExport}]]
          /\ pointer \in [Node -> FinalizedReceipt \cup {NoReceipt}]
      BY DEF HandoverInit, SourceInit
    <2> QED
      BY <1>3, <2>1, <2>2, <2>3 DEF SourceTypeOK
  <1>5. /\ Origin \in Node /\ lease[Origin] = one
        /\ \A n \in Node \ {Origin} : lease[n] = <<>> /\ ~Leased(n) /\ DOMAIN lease[n] = {}
    BY <1>3, SourceAssumption DEF Leased
  <1>6. DOMAIN one = {1} /\ Genesis.epoch = 0
    BY <1>2 DEF Genesis
  <1>7. Leased(Origin) /\ LeaseAt(Origin) = 0
    BY <1>2, <1>5, <1>6 DEF Leased, LeaseAt
  <1>8. ChainInv
    <2>1. ASSUME NEW n \in Node
          PROVE  /\ \A i \in DOMAIN lease[n] : Owns(n, lease[n][i].epoch)
                 /\ \A i, j \in DOMAIN lease[n] : ~(i < j)
      <3>1. CASE n = Origin
        BY <1>2, <1>5, <1>6, <3>1 DEF Owns
      <3>2. CASE n # Origin
        BY <1>5, <3>2
      <3> QED
        BY <3>1, <3>2
    <2> QED
      BY <1>2, <1>5, <2>1 DEF ChainInv
  <1>9. FenceInv
    BY <1>3, <1>5, <1>7 DEF FenceInv
  <1>10. ReceiptsInv
    BY <1>1 DEF ReceiptsInv, NoCut
  <1>11. FrozenInv /\ FreezesExtend
    BY <1>3 DEF FrozenInv, FreezesExtend
  <1>12. PastIsFrozen
    BY <1>1, ControlAssumption DEF PastIsFrozen, NoAct, Epochs
  <1> QED
    BY <1>1, <1>4, <1>8, <1>9, <1>10, <1>11, <1>12 DEF Known, HandoverInv

LEMMA HandoverInvStep == Known /\ [HandoverNext]_handoverVars => Known'
  <1> SUFFICES ASSUME Known, [HandoverNext]_handoverVars PROVE Known'
    OBVIOUS
  <1>1. SourceTypeOK'
    BY SourceTypeStep DEF Known
  <1>2. ControlTypeOK' /\ ControlInv'
    <2>1. [ControlStep]_controlVars
      BY ReceiptsTyped DEF HandoverNext, handoverVars, Known
    <2> QED
      BY <2>1, ControlInvStep DEF Known
  <1>3. HandoverInv'
    <2>1. CASE UNCHANGED handoverVars
      BY <2>1, ImportStep DEF handoverVars, controlVars, sourceVars
    <2>2. CASE ControlSteps /\ UNCHANGED sourceVars
      BY <2>2, ControlHandoverStep
    <2>3. ASSUME UNCHANGED controlVars, NEW n \in Node, appendFenced(n) PROVE HandoverInv'
      BY <2>3, AppendStep
    <2>4. ASSUME UNCHANGED controlVars, NEW n \in Node, NEW st \in {"active", "revoked"},
                 NEW c \in LeaseCmd, installLeaseGrant(n, st, c)
          PROVE  HandoverInv'
      BY <2>4, GrantStep
    <2>5. ASSUME UNCHANGED controlVars, NEW n \in Node, NEW c \in Cmd, emitSourceFrozenReceipt(n, c)
          PROVE  HandoverInv'
      BY <2>5, EmitStep
    <2>6. ASSUME UNCHANGED controlVars, NEW n \in Node, NEW g \in Generation,
                 (\E fr \in frozen : stageReceiverExport(n, g, fr)) \/ finalizeReceiverGeneration(n, g)
          PROVE  HandoverInv'
      BY <2>6, ImportStep DEF stageReceiverExport, finalizeReceiverGeneration, controlVars
    <2>7. ASSUME UNCHANGED controlVars, NEW n \in Node, NEW a \in acts,
                 activateFinalizedReceiverAsSource(n, a)
          PROVE  HandoverInv'
      BY <2>7, ActivationStep
    <2>8. \A n \in Node : NextLeaseCmd(n) \subseteq LeaseCmd
      BY DEF NextLeaseCmd
    <2> QED
      BY <2>1, <2>2, <2>3, <2>4, <2>5, <2>6, <2>7, <2>8 DEF HandoverNext, NodeSteps
  <1> QED
    BY <1>1, <1>2, <1>3 DEF Known

(* Control plane and nodes together keep the joint inductive invariant.    *)
THEOREM HandoverInvariant == HandoverSpec => []Known
  BY HandoverInitOK, HandoverInvStep, PTL DEF HandoverSpec

(* At most one node accepts appends, for any number of nodes, commands,    *)
(* epochs, grants and rows (appendFenced under assertSourceLeaseWritable). *)
THEOREM SingleSourceHolds == HandoverSpec => []SingleSource
  BY HandoverInvariant, PromisesKept, PTL

(* A bound freeze is final, and the node that accepts appends holds every  *)
(* append ever committed (emitSourceFrozenReceipt,                         *)
(* activateFinalizedReceiverAsSource).                                     *)
THEOREM HandoverSoundHolds == HandoverSpec => []HandoverSound
  <1>1. Known => HandoverSound
    BY PromisesKept DEF HandoverSound, Known
  <1> QED
    BY <1>1, HandoverInvariant, PTL

(* Between the nodes the control plane keeps the promises it makes alone.  *)
THEOREM HandoverControlHolds == HandoverSpec => [](ControlSound /\ HorizonElapsed /\ ActivationsChain)
  <1>1. Known => ControlSound /\ HorizonElapsed /\ ActivationsChain
    BY DEF Known, ControlInv, ControlSound
  <1> QED
    BY <1>1, HandoverInvariant, PTL

-----------------------------------------------------------------------------
(* The refinement of SingleLog.                                            *)

(* The log is the ledger that extends all others, and the writer is the    *)
(* one node that accepts appends.                                          *)
LogIs    == \A n \in Node : (\A m \in Node : IsPrefix(ledger[m], ledger[n])) => LogNow = ledger[n]
WriterIs == /\ \A n \in Node : Writable(n) => WriterNow = n
            /\ (\A n \in Node : ~Writable(n)) => WriterNow = "nobody"

LEMMA Abstraction == Known => LogIs /\ WriterIs /\ SingleSource /\ NoLostAppend
  <1> SUFFICES ASSUME Known PROVE LogIs /\ WriterIs /\ SingleSource /\ NoLostAppend
    OBVIOUS
  <1>1. SingleSource /\ NoLostAppend
    BY PromisesKept
  <1>2. ASSUME NEW n \in Node, \A m \in Node : IsPrefix(ledger[m], ledger[n])
        PROVE  LogNow = ledger[n]
    <2>1. \A m \in Node : ledger[m] \in Seq(Row)
      BY LeaseFacts DEF Known
    <2>2. \A m \in Node : Len(ledger[m]) <= Len(ledger[n])
      BY <1>2, <2>1, PrefixOrder
    <2>3. Longest \in Node /\ \A m \in Node : Len(ledger[m]) <= Len(ledger[Longest])
      BY <2>2 DEF Longest
    <2> QED
      BY <1>2, <2>1, <2>3, PrefixOrder DEF LogNow
  <1>3. ASSUME NEW n \in Node, Writable(n) PROVE WriterNow = n
    <2>1. Writing # {} /\ \E m \in Node : Writable(m)
      BY <1>3 DEF Writing
    <2>2. PICK w : w = CHOOSE m \in Node : Writable(m)
      OBVIOUS
    <2>3. w \in Node /\ Writable(w)
      BY <2>1, <2>2
    <2> QED
      BY <1>1, <1>3, <2>1, <2>2, <2>3 DEF WriterNow, SingleSource
  <1>4. (\A n \in Node : ~Writable(n)) => WriterNow = "nobody"
    BY DEF WriterNow, Writing
  <1> QED
    BY <1>1, <1>2, <1>3, <1>4 DEF LogIs, WriterIs

LEMMA AbstractionNext == Known' => LogIs' /\ WriterIs' /\ SingleSource' /\ NoLostAppend'
  BY Abstraction, PTL

(* The log changes only when a ledger does.                                *)
LEMMA SameLog ==
  ASSUME UNCHANGED ledger
  PROVE  LogNow' = LogNow
  BY DEF LogNow, Longest

LEMMA SameWriter ==
  ASSUME Known, Known', \A n \in Node : Writable(n)' = Writable(n)
  PROVE  WriterNow' = WriterNow
  <1>1. WriterIs /\ WriterIs'
    BY Abstraction, AbstractionNext
  <1> QED
    BY <1>1 DEF WriterIs

LEMMA AppendIsWrite ==
  ASSUME Known, Known', NEW n \in Node, appendFenced(n)
  PROVE  OneLog!Write
  <1>1. /\ Writable(n) /\ UNCHANGED <<lease, fence>>
        /\ ledger' = [ledger EXCEPT ![n] = Append(ledger[n], [by |-> n, epoch |-> fence[n]])]
    BY DEF appendFenced
  <1>2. [by |-> n, epoch |-> fence[n]] \in Row
    BY <1>1, LeaseFacts DEF Writable, Row, Known
  <1>3. \A m \in Node : Writable(m)' = Writable(m)
    BY <1>1 DEF Writable, Leased, HeadStatus, LeaseAt
  <1>4. LogIs /\ LogIs' /\ WriterIs /\ NoLostAppend /\ NoLostAppend'
    BY Abstraction, AbstractionNext
  <1>5. LogNow = ledger[n]
    BY <1>1, <1>4 DEF LogIs, NoLostAppend
  <1>6. LogNow' = ledger'[n]
    BY <1>1, <1>3, <1>4 DEF LogIs, NoLostAppend
  <1>7. ledger'[n] = Append(ledger[n], [by |-> n, epoch |-> fence[n]])
    BY <1>1 DEF Known, SourceTypeOK
  <1>8. WriterNow' = WriterNow /\ WriterNow = n
    BY <1>1, <1>3, <1>4, SameWriter DEF WriterIs
  <1>9. WriterNow # "nobody"
    BY <1>8, HandoverAssumption
  <1> QED
    BY <1>2, <1>5, <1>6, <1>7, <1>8, <1>9 DEF OneLog!Write

LEMMA GrantIsStop ==
  ASSUME Known, Known', NEW n \in Node, NEW st \in {"active", "revoked"}, NEW c \in LeaseCmd,
         installLeaseGrant(n, st, c)
  PROVE  OneLog!Stop \/ UNCHANGED <<LogNow, WriterNow>>
  <1>1. PICK g \in Grant : /\ g.epoch = LeaseAt(n) /\ g.status = st /\ Leased(n)
                           /\ Installs(lease[n], g)
                           /\ lease' = [lease EXCEPT ![n] = Append(lease[n], g)]
                           /\ UNCHANGED <<fence, ledger>>
    <2>1. [epoch |-> LeaseAt(n), status |-> st, cmd |-> c] \in Grant
      BY LeaseFacts DEF installLeaseGrant, Grant, Known
    <2> QED
      BY <2>1 DEF installLeaseGrant
  <1>2. /\ \A m \in Node \ {n} : Writable(m)' = Writable(m)
        /\ Leased(n)' /\ HeadStatus(n)' = st /\ LeaseAt(n)' = LeaseAt(n)
    BY <1>1, LeaseGrows DEF Known, Writable
  <1>3. Writable(n)' => Writable(n)
    <2> SUFFICES ASSUME Writable(n)' PROVE Writable(n)
      OBVIOUS
    <2>1. st = "active" /\ fence[n] = LeaseAt(n)
      BY <1>1, <1>2 DEF Writable
    <2>2. Len(lease[n]) \in DOMAIN lease[n] /\ HeadStatus(n) \in {"active", "revoked"}
      BY <1>1, LeaseFacts DEF Known
    <2>3. HeadStatus(n) # "revoked"
      BY <1>1, <2>1, <2>2 DEF Installs, LeaseAt, HeadStatus
    <2> QED
      BY <1>1, <2>1, <2>2, <2>3 DEF Writable
  <1>4. LogNow' = LogNow
    BY <1>1, SameLog
  <1>5. CASE Writable(n)' = Writable(n)
    BY <1>2, <1>4, <1>5, SameWriter
  <1>6. CASE Writable(n)' # Writable(n)
    <2>1. Writable(n) /\ ~Writable(n)'
      BY <1>3, <1>6 DEF Writable
    <2>2. WriterIs /\ WriterIs' /\ SingleSource
      BY Abstraction, AbstractionNext
    <2>3. \A m \in Node : ~Writable(m)'
      BY <1>2, <2>1, <2>2 DEF SingleSource
    <2>4. WriterNow = n /\ WriterNow' = "nobody" /\ n # "nobody"
      BY <2>1, <2>2, <2>3, HandoverAssumption DEF WriterIs
    <2> QED
      BY <1>4, <2>4 DEF OneLog!Stop
  <1> QED
    BY <1>5, <1>6

LEMMA ActivationIsAppoint ==
  ASSUME Known, Known', NEW n \in Node, NEW g \in Grant, NEW fr \in frozen, Appoints(n, g, fr)
  PROVE  OneLog!Appoint
  <1>1. /\ lease' = [lease EXCEPT ![n] = Append(lease[n], g)]
        /\ g.epoch = act.epoch /\ g.status = "active" /\ Owns(n, act.epoch)
        /\ Leased(n) => LeaseAt(n) < act.epoch
        /\ fr.epoch < act.epoch
        /\ \A f \in frozen : f.epoch <= fr.epoch
        /\ ledger' = [ledger EXCEPT ![n] = fr.rows]
        /\ fence' = [fence EXCEPT ![n] = act.epoch]
    BY DEF Appoints
  <1>2. act.epoch \in Nat /\ SourceTypeOK
    BY HeadFacts DEF Known
  <1>3. LogIs /\ LogIs' /\ WriterIs /\ WriterIs' /\ NoLostAppend'
    BY Abstraction, AbstractionNext
  <1>4. (* No node holds the current epoch yet. *)
        ASSUME NEW m \in Node, Leased(m)
        PROVE  LeaseAt(m) # act.epoch /\ LeaseAt(m) \in Nat
    <2>1. Owns(m, LeaseAt(m)) /\ LeaseAt(m) \in Nat
      BY <1>4, LeasedNode
    <2>2. LeaseAt(m) = act.epoch => m = n
      BY <1>1, <1>2, <2>1, OwnerUnique DEF Known, ControlInv
    <2> QED
      BY <1>1, <1>2, <1>4, <2>1, <2>2
  <1>5. ASSUME NEW m \in Node PROVE ~Writable(m)
    BY <1>4, LeasedNode DEF Writable
  <1>6. fr.node \in Node /\ fr.rows \in Seq(Row) /\ ledger[fr.node] = fr.rows
    <2>1. /\ fr.node \in Node /\ fr.rows \in Seq(Row) /\ Leased(fr.node) /\ fr.epoch \in Nat
          /\ fr.epoch <= LeaseAt(fr.node)
      BY FrozenNode
    <2>2. PICK f \in frozen : f.node = fr.node /\ f.epoch = LeaseAt(fr.node)
      BY <1>4, <2>1, LeasedNode
    <2>3. LeaseAt(fr.node) \in Nat /\ LeaseAt(fr.node) <= fr.epoch
      BY <1>1, <1>4, <2>1, <2>2
    <2>4. LeaseAt(fr.node) = fr.epoch
      BY <2>1, <2>3
    <2> QED
      BY <2>1, <2>4, FrozenNode
  <1>7. ASSUME NEW m \in Node PROVE IsPrefix(ledger[m], fr.rows)
    <2>1. CASE Leased(m)
      <3>1. PICK f \in frozen : f.rows = ledger[m]
        BY <1>4, <2>1, LeasedNode
      <3> QED
        BY <1>1, <3>1 DEF Known, HandoverInv, FreezesExtend
    <2>2. CASE ~Leased(m)
      <3>1. ledger[m] = <<>>
        BY <2>2 DEF Known, HandoverInv, FenceInv
      <3> QED
        BY <1>6, <3>1, PrefixOrder
    <2> QED
      BY <2>1, <2>2
  <1>8. LogNow = fr.rows
    BY <1>3, <1>6, <1>7 DEF LogIs
  <1>9. Writable(n)' /\ ledger'[n] = fr.rows
    <2>1. Leased(n)' /\ HeadStatus(n)' = "active" /\ LeaseAt(n)' = act.epoch
      BY <1>1, <1>2, LeaseGrows
    <2>2. ledger'[n] = fr.rows /\ fence'[n] = act.epoch
      BY <1>1, <1>2 DEF SourceTypeOK
    <2> QED
      BY <2>1, <2>2 DEF Writable
  <1>10. LogNow' = fr.rows
    BY <1>3, <1>9 DEF LogIs, NoLostAppend
  <1>11. WriterNow = "nobody" /\ WriterNow' = n
    BY <1>3, <1>5, <1>9 DEF WriterIs
  <1> QED
    BY <1>8, <1>10, <1>11 DEF OneLog!Appoint

LEMMA HandoverRefines ==
  Known /\ Known' /\ [HandoverNext]_handoverVars =>
    [OneLog!Write \/ OneLog!Stop \/ OneLog!Appoint]_<<LogNow, WriterNow>>
  <1> SUFFICES ASSUME Known, Known', [HandoverNext]_handoverVars
               PROVE  OneLog!Write \/ OneLog!Stop \/ OneLog!Appoint \/ UNCHANGED <<LogNow, WriterNow>>
    OBVIOUS
  <1>1. CASE UNCHANGED <<lease, ledger, fence>>
    <2>1. \A m \in Node : Writable(m)' = Writable(m)
      BY <1>1 DEF Writable, Leased, HeadStatus, LeaseAt
    <2> QED
      BY <1>1, <2>1, SameLog, SameWriter
  <1>2. UNCHANGED handoverVars \/ (ControlSteps /\ UNCHANGED sourceVars) =>
          UNCHANGED <<lease, ledger, fence>>
    BY DEF handoverVars, sourceVars
  <1>3. ASSUME NEW n \in Node, NEW a \in acts, activateFinalizedReceiverAsSource(n, a)
        PROVE  OneLog!Appoint \/ UNCHANGED <<lease, ledger, fence>>
    BY <1>3, Activation, ActivationIsAppoint
  <1>4. ASSUME NEW n \in Node
        PROVE  /\ \A c \in Cmd : emitSourceFrozenReceipt(n, c) => UNCHANGED <<lease, ledger, fence>>
               /\ \A g \in Generation, fr \in frozen :
                    stageReceiverExport(n, g, fr) => UNCHANGED <<lease, ledger, fence>>
               /\ \A g \in Generation :
                    finalizeReceiverGeneration(n, g) => UNCHANGED <<lease, ledger, fence>>
    BY DEF emitSourceFrozenReceipt, stageReceiverExport, finalizeReceiverGeneration
  <1>5. \A n \in Node : NextLeaseCmd(n) \subseteq LeaseCmd
    BY DEF NextLeaseCmd
  <1> QED
    BY <1>1, <1>2, <1>3, <1>4, <1>5, AppendIsWrite, GrantIsStop DEF HandoverNext, NodeSteps

(* The handover implements one log with one writer: a fenced append is a   *)
(* Write, a revoke of the writer a Stop, the first installation of an      *)
(* activation an Appoint, and every other step of the control plane and of *)
(* the nodes is invisible.                                                 *)
THEOREM HandoverIsOneLog == HandoverSpec => IsOneLog
  <1>1. HandoverInit => OneLog!LogInit
    <2> SUFFICES ASSUME HandoverInit PROVE LogNow = <<>> /\ WriterNow \in Node \cup {"nobody"}
      BY DEF OneLog!LogInit
    <2>1. Known
      BY HandoverInitOK
    <2>2. LogIs /\ WriterIs
      BY <2>1, Abstraction
    <2>3. \A n \in Node : ledger[n] = <<>>
      BY DEF HandoverInit, SourceInit
    <2>4. Origin \in Node /\ \A m \in Node : IsPrefix(ledger[m], ledger[Origin])
      BY <2>1, <2>3, SourceAssumption, LeaseFacts, PrefixOrder DEF Known
    <2>5. LogNow = <<>>
      BY <2>2, <2>3, <2>4 DEF LogIs
    <2>6. WriterNow \in Node \cup {"nobody"}
      BY <2>2 DEF WriterIs
    <2> QED
      BY <2>5, <2>6
  <1> QED
    BY <1>1, HandoverRefines, HandoverInvariant, PTL DEF HandoverSpec, IsOneLog, OneLog!LogSpec
=============================================================================
