----------------------------- MODULE HarqProofs -----------------------------
(***************************************************************************)
(* Theorems about Harq, for every finite set of UEs, every number of       *)
(* processes and every limit on retransmissions.                           *)
(*                                                                         *)
(* HarqInv is inductive.  What it adds to the properties of Harq is where  *)
(* the PDU of a process is at each moment: Held by a receiver that counts  *)
(* as many attempts, in the air towards a receiver that counts one less,   *)
(* in evaluation, or behind a feedback that tells what happened.           *)
(***************************************************************************)
EXTENDS Harq, FiniteSetTheorems, WellFoundedInduction, TLAPS

\* The receiver keeps the corrupted PDU of the process.
Held(p) ==
  /\ rx[p].status = "CORRUPTED" /\ rx[p].pdu = tx[p].pdu
  /\ rx[p].transmissions = tx[p].transmissions
  /\ tx[p].transmissions \in 1 .. MaxHarqRtx

ProcessInv(p) ==
  /\ tx[p].status = "EMPTY" => rx[p].status = "EMPTY"
  /\ tx[p].status = "BUFFERED" => Held(p)
  /\ tx[p].status = "SELECTED" =>
       Held(p) \/ (tx[p].transmissions = 0 /\ rx[p].status = "EMPTY")
  /\ tx[p].status \in {"BUFFERED", "SELECTED"} => tx[p].pdu \notin delivered
  /\ rx[p].status = "EMPTY" => rx[p].transmissions = 0
  /\ rx[p].status = "EVALUATING" =>
       /\ tx[p].status = "WAITING" /\ rx[p].pdu = tx[p].pdu
       /\ rx[p].transmissions = tx[p].transmissions
       /\ tx[p].transmissions # 0 /\ tx[p].pdu \notin delivered

DataInv(f) ==
  /\ tx[f.proc].status = "WAITING" /\ f.pdu = tx[f.proc].pdu
  /\ f.txNumber = tx[f.proc].transmissions /\ f.pdu \notin delivered
  /\ rx[f.proc].transmissions = f.txNumber - 1
  /\ rx[f.proc].status = IF f.txNumber = 1 THEN "EMPTY" ELSE "CORRUPTED"

FeedbackInv(b) ==
  /\ tx[b.proc].status = "WAITING" /\ b.pdu = tx[b.proc].pdu
  /\ b.ack => rx[b.proc].status = "EMPTY" /\ b.pdu \in delivered
  /\ ~b.ack =>
       /\ b.pdu \notin delivered
       /\ Held(b.proc) \/ (LastAttempt(tx[b.proc]) /\ rx[b.proc].status = "EMPTY")

Busy(p) ==
  \/ \E f \in data : f.proc = p
  \/ \E b \in feedback : b.proc = p
  \/ rx[p].status = "EVALUATING"

EndsInv ==
  /\ \A p \in Proc : ProcessInv(p)
  /\ \A f \in data : DataInv(f)
  /\ \A b \in feedback : FeedbackInv(b)
  /\ \A f \in data, b \in feedback : f.proc # b.proc
  /\ \A p \in Proc : tx[p].status = "WAITING" => Busy(p)

\* A PDU is in one process at most, and settled only when it has left it.
PduInv ==
  /\ \A p \in Proc : tx[p].status # "EMPTY" =>
       /\ tx[p].pdu \in PduId
       /\ tx[p].pdu \notin acked \cup failed \cup unserved \cup aborted
  /\ \A p, q \in Proc :
       tx[p].status # "EMPTY" /\ tx[q].status # "EMPTY" /\ tx[p].pdu = tx[q].pdu => p = q

\* What happens between a main loop and its flush.
TtiInv ==
  /\ \A u \in Ue : selected[u] # None =>
       flushing /\ tx[<<u, selected[u]>>].status = "SELECTED" /\ u \notin granted
  /\ \A p \in Proc : tx[p].status = "SELECTED" => selected[p[1]] = p[2]
  /\ granted # {} => flushing

HarqInv ==
  TypeOK /\ NoError /\ EndsInv /\ PduInv /\ TtiInv /\ OutcomesTrue /\ RtxCounted
-----------------------------------------------------------------------------
USE HarqAssumption

LEMMA ReadyFinite == IsFiniteSet(Ready) /\ Cardinality(Ready) \in Nat
<1>1. IsFiniteSet(Acid)
  BY FS_Interval DEF Acid
<1>2. IsFiniteSet(Proc)
  BY <1>1, FS_Product DEF Proc
<1>3. Ready \in SUBSET Proc
  BY DEF Ready
<1> QED BY <1>2, <1>3, FS_Subset, FS_CardinalityType

\* Every step but a negative feedback leaves at most the units that were ready.
LEMMA NoMoreReady ==
  ASSUME RtxCounted, needRtx \in Nat, needRtx' = needRtx, Ready' \subseteq Ready
  PROVE  RtxCounted'
<1>1. Cardinality(Ready') <= Cardinality(Ready)
  BY ReadyFinite, FS_Subset
<1>2. Cardinality(Ready') \in Nat
  BY ReadyFinite, FS_Subset, FS_CardinalityType
<1> QED BY <1>1, <1>2, ReadyFinite DEF RtxCounted

LEMMA InitInv == Init => HarqInv
<1> SUFFICES ASSUME Init PROVE HarqInv
  OBVIOUS
<1> USE DEF Init, TxReset, RxReset
<1>1. TypeOK /\ NoError
  <2>1. tx \in [Proc -> TxUnit] /\ rx \in [Proc -> RxProcess]
    BY DEF TxUnit, RxProcess
  <2>2. nextPdu \in 0 .. MaxPdus
    OBVIOUS
  <2> QED BY <2>1, <2>2 DEF TypeOK, NoError
<1>2. EndsInv
  BY DEF EndsInv, ProcessInv
<1>3. PduInv /\ TtiInv /\ OutcomesTrue
  BY DEF PduInv, TtiInv, OutcomesTrue
<1>4. RtxCounted
  <2>1. Ready = {}
    BY DEF Ready
  <2> QED BY <2>1, FS_EmptySet DEF RtxCounted
<1> QED BY <1>1, <1>2, <1>3, <1>4 DEF HarqInv

\* A process has one frame in the air at most.
LEMMA DataUnique ==
  ASSUME HarqInv, NEW f \in data, NEW g \in data, f.proc = g.proc
  PROVE  f = g
<1>1. DataInv(f) /\ DataInv(g)
  BY DEF HarqInv, EndsInv
<1>2. f.pdu = g.pdu /\ f.txNumber = g.txNumber
  BY <1>1 DEF DataInv
<1>3. f \in DataFrame /\ g \in DataFrame
  BY DEF HarqInv, TypeOK
<1>4. /\ f = [proc |-> f.proc, pdu |-> f.pdu, txNumber |-> f.txNumber]
      /\ g = [proc |-> g.proc, pdu |-> g.pdu, txNumber |-> g.txNumber]
  BY <1>3 DEF DataFrame
<1> QED BY <1>2, <1>4

LEMMA FeedbackUnique ==
  ASSUME HarqInv, NEW b \in feedback, NEW c \in feedback, b.proc = c.proc
  PROVE  b = c
<1>1. FeedbackInv(b) /\ FeedbackInv(c)
  BY DEF HarqInv, EndsInv
<1>2. b \in Feedback /\ c \in Feedback
  BY DEF HarqInv, TypeOK
<1>3. b.pdu = c.pdu /\ b.ack = c.ack
  BY <1>1, <1>2 DEF FeedbackInv, Feedback
<1> QED BY <1>2, <1>3 DEF Feedback

LEMMA ReceiveDataInv ==
  ASSUME HarqInv, NEW f \in data, NEW ok \in BOOLEAN, ReceiveData(f, ok)
  PROVE  HarqInv'
<1> USE DEF HarqInv
<1> DEFINE p == f.proc
<1>1. p \in Proc /\ DataInv(f) /\ f.txNumber \in 1 .. MaxHarqRtx + 1 /\ f.pdu \in PduId
  BY DEF TypeOK, EndsInv, DataFrame
<1>2. /\ rx' = [rx EXCEPT ![p] = [status |-> "EVALUATING", pdu |-> f.pdu, ok |-> ok,
                                  transmissions |-> f.txNumber]]
      /\ data' = data \ {f} /\ err' = err
      /\ UNCHANGED <<tx, tti, needRtx, feedback, nextPdu, history, handovers>>
  <2>1. /\ ~(Ndi(f) /\ rx[p].status # "EMPTY") /\ rx[p].status \in {"EMPTY", "CORRUPTED"}
        /\ rx[p].transmissions + 1 = f.txNumber
    BY <1>1 DEF DataInv, Ndi
  <2> QED BY <2>1 DEF ReceiveData
<1> USE DEF tti, history
<1>3. TypeOK' /\ NoError'
  <2>1. rx' \in [Proc -> RxProcess]
    BY <1>1, <1>2 DEF TypeOK, RxProcess
  <2>2. PduId' = PduId /\ TxUnit' = TxUnit /\ RxProcess' = RxProcess
        /\ DataFrame' = DataFrame /\ Feedback' = Feedback
    BY <1>2 DEF PduId, TxUnit, RxProcess, DataFrame, Feedback
  <2> QED BY <1>2, <2>1, <2>2 DEF TypeOK, NoError
<1>4. EndsInv'
  <2>1. ASSUME NEW q \in Proc PROVE ProcessInv(q)'
    BY <1>1, <1>2 DEF EndsInv, ProcessInv, Held, DataInv, TypeOK, TxUnit, RxProcess, DataFrame
  <2>2. ASSUME NEW g \in data' PROVE DataInv(g)'
    <3>1. g \in data /\ g # f /\ DataInv(g)
      BY <1>2 DEF EndsInv
    <3>2. g.proc # p
      BY <3>1, DataUnique
    <3>3. g.proc \in Proc
      BY <3>1 DEF TypeOK, DataFrame
    <3> QED BY <1>1, <1>2, <3>1, <3>2, <3>3 DEF DataInv, TypeOK
  <2>3. ASSUME NEW b \in feedback' PROVE FeedbackInv(b)'
    BY <1>1, <1>2 DEF EndsInv, FeedbackInv, Held, LastAttempt, TypeOK
  <2>4. ASSUME NEW g \in data', NEW b \in feedback' PROVE g.proc # b.proc
    BY <1>2 DEF EndsInv
  <2>5. ASSUME NEW q \in Proc, tx'[q].status = "WAITING" PROVE Busy(q)'
    BY <1>1, <1>2, <2>5 DEF EndsInv, Busy, TypeOK
  <2> QED BY <2>1, <2>2, <2>3, <2>4, <2>5 DEF EndsInv
<1>5. PduInv' /\ TtiInv' /\ OutcomesTrue'
  BY <1>2 DEF PduInv, TtiInv, OutcomesTrue, PduId
<1>6. RtxCounted'
  BY <1>2, NoMoreReady DEF Ready, TypeOK
<1> QED BY <1>3, <1>4, <1>5, <1>6

LEMMA ExtractInv ==
  ASSUME HarqInv, NEW p \in Proc, ExtractCorrectPdus(p)
  PROVE  HarqInv'
<1> USE DEF HarqInv, tti, history
<1> DEFINE b == [proc |-> p, pdu |-> rx[p].pdu, ack |-> rx[p].ok]
<1>1. /\ tx \in [Proc -> TxUnit] /\ rx \in [Proc -> RxProcess]
      /\ rx[p].status = "EVALUATING" /\ tx[p].status = "WAITING" /\ tx[p].pdu \in PduId
      /\ rx[p].pdu = tx[p].pdu /\ rx[p].transmissions = tx[p].transmissions
      /\ tx[p].transmissions \in 1 .. MaxHarqRtx + 1 /\ tx[p].pdu \notin delivered
      /\ rx[p].ok \in BOOLEAN
  BY DEF TypeOK, EndsInv, ProcessInv, PduInv, ExtractCorrectPdus, TxUnit, RxProcess
<1>2. /\ feedback' = feedback \cup {b} /\ err' = err
      /\ UNCHANGED <<tx, tti, needRtx, data, nextPdu, acked, failed, unserved,
                     aborted, handovers>>
      /\ twice' = {}
  BY <1>1 DEF ExtractCorrectPdus, OutcomesTrue
<1> DEFINE r == IF rx[p].ok THEN RxReset ELSE Corrupted(rx[p])
<1>3. /\ r \in RxProcess /\ r.status \in {"EMPTY", "CORRUPTED"}
      /\ r.status = "EMPTY" => r.transmissions = 0
      /\ rx[p].ok => r.status = "EMPTY"
      /\ ~rx[p].ok => \/ LastAttempt(tx[p]) /\ r.status = "EMPTY"
                      \/ /\ r.status = "CORRUPTED" /\ r.pdu = tx[p].pdu
                         /\ r.transmissions = tx[p].transmissions
                         /\ tx[p].transmissions \in 1 .. MaxHarqRtx
  BY <1>1 DEF Corrupted, RxReset, RxProcess, LastAttempt
<1>4. /\ rx' = [rx EXCEPT ![p] = r]
      /\ delivered' = delivered \cup (IF rx[p].ok THEN {tx[p].pdu} ELSE {})
  BY <1>1 DEF ExtractCorrectPdus, Extracted
<1> HIDE DEF r
<1>5. ASSUME NEW q \in Proc, q # p, tx[q].status # "EMPTY" PROVE tx[q].pdu # tx[p].pdu
  BY <1>1, <1>5 DEF PduInv
<1>6. TypeOK' /\ NoError'
  <2>1. rx' \in [Proc -> RxProcess]
    BY <1>1, <1>3, <1>4
  <2>2. PduId' = PduId /\ TxUnit' = TxUnit /\ RxProcess' = RxProcess
        /\ DataFrame' = DataFrame /\ Feedback' = Feedback
    BY <1>2 DEF PduId, TxUnit, RxProcess, DataFrame, Feedback
  <2>3. b \in Feedback
    BY <1>1 DEF Feedback
  <2> QED BY <1>1, <1>2, <1>4, <2>1, <2>2, <2>3 DEF TypeOK, NoError
<1>7. EndsInv'
  <2>1. ASSUME NEW q \in Proc PROVE ProcessInv(q)'
    <3>1. CASE q = p
      BY <1>1, <1>2, <1>3, <1>4, <3>1 DEF ProcessInv
    <3>2. CASE q # p
      <4>1. ProcessInv(q) /\ rx'[q] = rx[q] /\ tx'[q] = tx[q]
        BY <1>1, <1>2, <1>4, <3>2 DEF EndsInv
      <4> QED BY <1>4, <1>5, <3>2, <4>1 DEF ProcessInv, Held
    <3> QED BY <3>1, <3>2
  <2>2. ASSUME NEW f \in data' PROVE DataInv(f)'
    <3>1. f \in data /\ DataInv(f) /\ f.proc \in Proc
      BY <1>2 DEF EndsInv, TypeOK, DataFrame
    <3>2. f.proc # p
      BY <1>1, <3>1 DEF DataInv
    <3> QED BY <1>1, <1>2, <1>4, <1>5, <3>1, <3>2 DEF DataInv
  <2>3. ASSUME NEW c \in feedback' PROVE FeedbackInv(c)'
    <3>1. CASE c = b
      BY <1>1, <1>2, <1>3, <1>4, <3>1 DEF FeedbackInv, Held, LastAttempt
    <3>2. CASE c \in feedback
      <4>1. FeedbackInv(c) /\ c.proc \in Proc /\ c.ack \in BOOLEAN
        BY <3>2 DEF EndsInv, TypeOK, Feedback
      <4>2. c.proc # p
        BY <1>1, <4>1 DEF FeedbackInv, Held
      <4> QED BY <1>1, <1>2, <1>4, <1>5, <4>1, <4>2 DEF FeedbackInv, Held, LastAttempt
    <3> QED BY <1>2, <3>1, <3>2
  <2>4. ASSUME NEW f \in data', NEW c \in feedback' PROVE f.proc # c.proc
    BY <1>1, <1>2 DEF EndsInv, DataInv
  <2>5. ASSUME NEW q \in Proc, tx'[q].status = "WAITING" PROVE Busy(q)'
    <3>1. CASE q = p
      <4>1. b \in feedback' /\ b.proc = q
        BY <1>2, <3>1
      <4> QED BY <4>1, Zenon DEF Busy
    <3>2. CASE q # p
      <4>1. Busy(q) /\ rx'[q] = rx[q]
        BY <1>1, <1>2, <1>4, <2>5, <3>2 DEF EndsInv
      <4> QED BY <1>2, <4>1 DEF Busy
    <3> QED BY <3>1, <3>2
  <2> QED BY <2>1, <2>2, <2>3, <2>4, <2>5 DEF EndsInv
<1>8. PduInv' /\ TtiInv' /\ OutcomesTrue'
  BY <1>1, <1>2, <1>4 DEF PduInv, TtiInv, OutcomesTrue, PduId
<1>9. RtxCounted'
  BY <1>2, NoMoreReady DEF Ready, TypeOK
<1> QED BY <1>6, <1>7, <1>8, <1>9

LEMMA ReceiveHarqFeedbackInv ==
  ASSUME HarqInv, NEW b \in feedback, ReceiveHarqFeedback(b)
  PROVE  HarqInv'
<1> USE DEF HarqInv, tti, history
<1> DEFINE p == b.proc
           t == IF ~b.ack /\ ~LastAttempt(tx[p])
                THEN [tx[p] EXCEPT !.status = "BUFFERED"] ELSE TxReset
<1>1. /\ tx \in [Proc -> TxUnit] /\ p \in Proc /\ b.ack \in BOOLEAN
      /\ FeedbackInv(b) /\ tx[p].status = "WAITING" /\ b.pdu = tx[p].pdu
      /\ tx[p].pdu \in PduId /\ needRtx \in Nat
  BY DEF TypeOK, Feedback, EndsInv, FeedbackInv, PduInv
<1>2. /\ tx' = [tx EXCEPT ![p] = t] /\ feedback' = feedback \ {b} /\ err' = err
      /\ UNCHANGED <<rx, tti, data, nextPdu, delivered, twice, unserved, aborted,
                     handovers>>
      /\ acked' = acked \cup (IF b.ack THEN {tx[p].pdu} ELSE {})
      /\ failed' = failed \cup (IF ~b.ack /\ LastAttempt(tx[p]) THEN {tx[p].pdu} ELSE {})
      /\ needRtx' = IF ~b.ack /\ ~LastAttempt(tx[p]) THEN needRtx + 1 ELSE needRtx
  <2>1. PduFeedback(p, b.ack) /\ feedback' = feedback \ {b} /\ err' = err
        /\ UNCHANGED <<rx, tti, data, nextPdu, delivered, twice, unserved, aborted,
                       handovers>>
    BY <1>1 DEF ReceiveHarqFeedback
  <2>2. CASE b.ack
    BY <1>1, <2>1, <2>2 DEF PduFeedback, GivesUp
  <2>3. CASE ~b.ack /\ LastAttempt(tx[p])
    BY <1>1, <2>1, <2>3 DEF PduFeedback, GivesUp
  <2>4. CASE ~b.ack /\ ~LastAttempt(tx[p])
    BY <1>1, <2>1, <2>4 DEF PduFeedback, GivesUp, SignalProcessForRtx
  <2> QED BY <1>1, <2>1, <2>2, <2>3, <2>4
<1>3. /\ t \in TxUnit /\ t.status \in {"EMPTY", "BUFFERED"}
      /\ t.status = "BUFFERED" <=> ~b.ack /\ ~LastAttempt(tx[p])
      /\ t.status = "BUFFERED" => t.pdu = tx[p].pdu /\ t.transmissions = tx[p].transmissions
  BY <1>1 DEF TxUnit, TxReset
<1> HIDE DEF t
<1>4. TypeOK' /\ NoError'
  <2>1. tx' \in [Proc -> TxUnit]
    BY <1>1, <1>2, <1>3
  <2>2. PduId' = PduId /\ TxUnit' = TxUnit /\ RxProcess' = RxProcess
        /\ DataFrame' = DataFrame /\ Feedback' = Feedback
    BY <1>2 DEF PduId, TxUnit, RxProcess, DataFrame, Feedback
  <2>3. needRtx' \in Nat
    BY <1>1, <1>2
  <2> QED BY <1>1, <1>2, <2>1, <2>2, <2>3 DEF TypeOK, NoError
<1>5. EndsInv'
  <2>1. ASSUME NEW q \in Proc PROVE ProcessInv(q)'
    <3>1. CASE q = p
      <4>1. rx[p].status # "EVALUATING"
        BY <1>1 DEF FeedbackInv, Held
      <4>2. t.status = "BUFFERED" => Held(p) /\ tx[p].pdu \notin delivered
        BY <1>1, <1>3 DEF FeedbackInv
      <4>3. t.status = "EMPTY" => rx[p].status = "EMPTY"
        BY <1>1, <1>3 DEF FeedbackInv, Held, LastAttempt
      <4>4. rx[p].status = "EMPTY" => rx[p].transmissions = 0
        BY <1>1 DEF EndsInv, ProcessInv
      <4> QED BY <1>1, <1>2, <1>3, <3>1, <4>1, <4>2, <4>3, <4>4 DEF ProcessInv, Held
    <3>2. CASE q # p
      <4>1. ProcessInv(q) /\ rx'[q] = rx[q] /\ tx'[q] = tx[q]
        BY <1>1, <1>2, <3>2 DEF EndsInv
      <4> QED BY <1>2, <4>1 DEF ProcessInv, Held
    <3> QED BY <3>1, <3>2
  <2>2. ASSUME NEW f \in data' PROVE DataInv(f)'
    <3>1. f \in data /\ DataInv(f) /\ f.proc \in Proc
      BY <1>2 DEF EndsInv, TypeOK, DataFrame
    <3>2. f.proc # p
      BY <3>1 DEF EndsInv
    <3> QED BY <1>1, <1>2, <3>1, <3>2 DEF DataInv
  <2>3. ASSUME NEW c \in feedback' PROVE FeedbackInv(c)'
    <3>1. c \in feedback /\ FeedbackInv(c) /\ c.proc \in Proc
      BY <1>2 DEF EndsInv, TypeOK, Feedback
    <3>2. c.proc # p
      BY <1>2, <3>1, FeedbackUnique
    <3> QED BY <1>1, <1>2, <3>1, <3>2 DEF FeedbackInv, Held, LastAttempt
  <2>4. ASSUME NEW f \in data', NEW c \in feedback' PROVE f.proc # c.proc
    BY <1>2 DEF EndsInv
  <2>5. ASSUME NEW q \in Proc, tx'[q].status = "WAITING" PROVE Busy(q)'
    <3>1. q # p
      BY <1>1, <1>2, <1>3, <2>5
    <3>2. Busy(q)
      BY <1>1, <1>2, <2>5, <3>1 DEF EndsInv
    <3> QED BY <1>2, <3>1, <3>2 DEF Busy
  <2> QED BY <2>1, <2>2, <2>3, <2>4, <2>5 DEF EndsInv
<1>6. PduInv'
  <2>1. ASSUME NEW q \in Proc, tx'[q].status # "EMPTY"
        PROVE  /\ tx[q].status # "EMPTY" /\ tx'[q].pdu = tx[q].pdu /\ tx[q].pdu \in PduId
               /\ tx[q].pdu \notin acked' \cup failed' \cup unserved \cup aborted
    <3>1. CASE q = p
      BY <1>1, <1>2, <1>3, <2>1, <3>1 DEF PduInv
    <3>2. CASE q # p
      <4>1. tx'[q] = tx[q] /\ tx[q].pdu # tx[p].pdu
        BY <1>1, <1>2, <2>1, <3>2 DEF PduInv
      <4> QED BY <1>2, <2>1, <4>1 DEF PduInv
    <3> QED BY <3>1, <3>2
  <2>2. ASSUME NEW q \in Proc, NEW s \in Proc, tx'[q].status # "EMPTY",
               tx'[s].status # "EMPTY", tx'[q].pdu = tx'[s].pdu
        PROVE  q = s
    BY <2>1, <2>2 DEF PduInv
  <2>3. PduId' = PduId
    BY <1>2 DEF PduId
  <2> QED BY <1>2, <2>1, <2>2, <2>3 DEF PduInv
<1>7. TtiInv'
  <2>1. \A q \in Proc : q # p => tx'[q] = tx[q]
    BY <1>1, <1>2
  <2>2. ASSUME NEW u \in Ue, selected[u] # None
        PROVE  flushing /\ tx'[<<u, selected[u]>>].status = "SELECTED" /\ u \notin granted
    <3>1. <<u, selected[u]>> \in Proc
      BY <2>2 DEF TypeOK, Proc
    <3> QED BY <1>1, <2>1, <2>2, <3>1 DEF TtiInv
  <2>3. ASSUME NEW q \in Proc, tx'[q].status = "SELECTED" PROVE selected[q[1]] = q[2]
    BY <1>1, <1>2, <1>3, <2>1, <2>3 DEF TtiInv
  <2> QED BY <1>2, <2>2, <2>3 DEF TtiInv
<1>8. OutcomesTrue'
  <2>1. b.ack => tx[p].pdu \in delivered
    BY <1>1 DEF FeedbackInv
  <2>2. ~b.ack => tx[p].pdu \notin delivered
    BY <1>1 DEF FeedbackInv
  <2> QED BY <1>1, <1>2, <2>1, <2>2 DEF OutcomesTrue
<1>9. RtxCounted'
  <2>1. CASE ~b.ack /\ ~LastAttempt(tx[p])
    <3>1. Ready' \subseteq Ready \cup {p}
      BY <1>1, <1>2 DEF Ready
    <3>2. /\ IsFiniteSet(Ready \cup {p})
          /\ Cardinality(Ready \cup {p}) \in {Cardinality(Ready), Cardinality(Ready) + 1}
      BY ReadyFinite, FS_AddElement
    <3>3. Cardinality(Ready') <= Cardinality(Ready \cup {p})
      BY <3>1, <3>2, FS_Subset
    <3>4. Cardinality(Ready') \in Nat
      BY <3>1, <3>2, FS_Subset, FS_CardinalityType
    <3> QED BY <1>1, <1>2, <2>1, <3>2, <3>3, <3>4, ReadyFinite DEF RtxCounted
  <2>2. CASE ~(~b.ack /\ ~LastAttempt(tx[p]))
    <3>1. t.status = "EMPTY"
      BY <1>3, <2>2
    <3>2. Ready' \subseteq Ready
      BY <1>1, <1>2, <3>1 DEF Ready
    <3> QED BY <1>1, <1>2, <2>2, <3>2, NoMoreReady
  <2> QED BY <2>1, <2>2
<1> QED BY <1>4, <1>5, <1>6, <1>7, <1>8, <1>9

LEMMA ScheduleInv ==
  ASSUME HarqInv, NEW R \in SUBSET Ready, NEW G \in SUBSET Ue, Schedule(R, G)
  PROVE  HarqInv'
<1> USE DEF HarqInv, tti, history
<1>1. /\ tx \in [Proc -> TxUnit] /\ selected \in [Ue -> Acid \cup {None}] /\ needRtx \in Nat
      /\ R \subseteq Proc /\ \A p \in R : tx[p].status = "BUFFERED"
      /\ \A p, q \in R : p[1] = q[1] => p = q
      /\ \A u \in Ue : selected[u] = None
      /\ \A p \in Proc : tx[p].status # "SELECTED"
  <2>1. \A u \in Ue : selected[u] = None
    BY DEF Schedule, TtiInv
  <2>2. ASSUME NEW p \in Proc PROVE tx[p].status # "SELECTED"
    <3>1. p[1] \in Ue /\ p[2] \in Acid
      BY DEF Proc
    <3> QED BY <2>1, <3>1 DEF TtiInv, None, Acid
  <2>3. R \subseteq Proc /\ \A p \in R : tx[p].status = "BUFFERED"
    BY DEF Ready
  <2>4. \A p, q \in R : p[1] = q[1] => p = q
    BY DEF Schedule, Retransmissions, RtxChoices
  <2> QED BY <2>1, <2>2, <2>3, <2>4 DEF TypeOK
<1>2. /\ \A p \in Proc : tx'[p] = IF p \in R THEN [tx[p] EXCEPT !.status = "SELECTED"]
                                  ELSE tx[p]
      /\ needRtx' = needRtx - Cardinality(R) /\ err' = err
      /\ granted' = G /\ flushing' = TRUE /\ G \cap {p[1] : p \in R} = {}
      /\ UNCHANGED <<rx, data, feedback, nextPdu, history, handovers>>
  BY DEF Schedule, Eligible
<1>3. /\ selected' \in [Ue -> Acid \cup {None}]
      /\ \A p \in R : selected'[p[1]] = p[2]
      /\ \A u \in Ue : selected'[u] # None => <<u, selected'[u]>> \in R
  <2>1. selected' = [u \in Ue |-> IF \E a \in Acid : <<u, a>> \in R
                                  THEN CHOOSE a \in Acid : <<u, a>> \in R ELSE selected[u]]
    BY DEF Schedule
  <2>2. ASSUME NEW u \in Ue, \E a \in Acid : <<u, a>> \in R
        PROVE  selected'[u] \in Acid /\ <<u, selected'[u]>> \in R
    BY <2>1, <2>2
  <2>3. ASSUME NEW u \in Ue, ~\E a \in Acid : <<u, a>> \in R
        PROVE  selected'[u] = None
    BY <1>1, <2>1, <2>3
  <2>4. ASSUME NEW p \in R PROVE selected'[p[1]] = p[2]
    <3>1. PICK u \in Ue, a \in Acid : p = <<u, a>>
      BY <1>1 DEF Proc
    <3>2. <<u, selected'[u]>> \in R
      BY <2>2, <3>1
    <3> QED BY <1>1, <3>1, <3>2
  <2> QED BY <2>1, <2>2, <2>3, <2>4
<1>4. \A p \in Proc : /\ tx'[p] \in TxUnit /\ tx'[p].pdu = tx[p].pdu
                      /\ tx'[p].transmissions = tx[p].transmissions
                      /\ tx'[p].status = IF p \in R THEN "SELECTED" ELSE tx[p].status
  <2>1. SUFFICES ASSUME NEW p \in Proc
                 PROVE  /\ tx'[p] \in TxUnit /\ tx'[p].pdu = tx[p].pdu
                        /\ tx'[p].transmissions = tx[p].transmissions
                        /\ tx'[p].status = IF p \in R THEN "SELECTED" ELSE tx[p].status
    OBVIOUS
  <2>2. tx[p] \in TxUnit
    BY <1>1
  <2>3. CASE p \in R
    <3>1. tx'[p] = [tx[p] EXCEPT !.status = "SELECTED"]
      BY <1>2, <2>3
    <3> QED BY <2>2, <2>3, <3>1 DEF TxUnit
  <2>4. CASE p \notin R
    BY <1>2, <2>2, <2>4
  <2> QED BY <2>3, <2>4
<1>5. Ready' = Ready \ R /\ needRtx' \in Nat /\ RtxCounted'
  <2>1. Ready' = Ready \ R
    BY <1>1, <1>4 DEF Ready
  <2>2. IsFiniteSet(R) /\ Cardinality(R) \in Nat /\ Cardinality(R) <= Cardinality(Ready)
    BY ReadyFinite, FS_Subset, FS_CardinalityType
  <2>3. Cardinality(Ready \ R) = Cardinality(Ready) - Cardinality(R)
    <3>1. Ready \cap R = R
      OBVIOUS
    <3> QED BY <3>1, ReadyFinite, FS_Difference
  <2> QED BY <1>1, <1>2, <2>1, <2>2, <2>3, ReadyFinite DEF RtxCounted
<1>6. TypeOK' /\ NoError'
  <2>1. tx' \in [Proc -> TxUnit]
    <3>1. tx' = [p \in Proc |-> tx'[p]]
      BY DEF Schedule
    <3> QED BY <1>4, <3>1
  <2>2. PduId' = PduId /\ TxUnit' = TxUnit /\ RxProcess' = RxProcess
        /\ DataFrame' = DataFrame /\ Feedback' = Feedback
    BY <1>2 DEF PduId, TxUnit, RxProcess, DataFrame, Feedback
  <2> QED BY <1>2, <1>3, <1>5, <2>1, <2>2 DEF TypeOK, NoError
<1>7. EndsInv'
  <2>1. ASSUME NEW p \in Proc PROVE ProcessInv(p)'
    <3>1. ProcessInv(p)
      BY DEF EndsInv
    <3> QED BY <1>1, <1>2, <1>4, <3>1 DEF ProcessInv, Held
  <2>2. ASSUME NEW f \in data' PROVE DataInv(f)'
    <3>1. f \in data /\ DataInv(f) /\ f.proc \in Proc
      BY <1>2 DEF EndsInv, TypeOK, DataFrame
    <3> QED BY <1>1, <1>2, <1>4, <3>1 DEF DataInv
  <2>3. ASSUME NEW b \in feedback' PROVE FeedbackInv(b)'
    <3>1. b \in feedback /\ FeedbackInv(b) /\ b.proc \in Proc
      BY <1>2 DEF EndsInv, TypeOK, Feedback
    <3> QED BY <1>1, <1>2, <1>4, <3>1 DEF FeedbackInv, Held, LastAttempt
  <2>4. ASSUME NEW f \in data', NEW b \in feedback' PROVE f.proc # b.proc
    BY <1>2 DEF EndsInv
  <2>5. ASSUME NEW p \in Proc, tx'[p].status = "WAITING" PROVE Busy(p)'
    BY <1>2, <1>4, <2>5 DEF EndsInv, Busy
  <2> QED BY <2>1, <2>2, <2>3, <2>4, <2>5 DEF EndsInv
<1>8. PduInv' /\ OutcomesTrue'
  <2>1. \A p \in Proc : tx'[p].status # "EMPTY" => tx[p].status # "EMPTY"
    BY <1>1, <1>4
  <2> QED BY <1>2, <1>4, <2>1 DEF PduInv, OutcomesTrue, PduId
<1>9. TtiInv'
  <2>1. ASSUME NEW u \in Ue, selected'[u] # None
        PROVE  tx'[<<u, selected'[u]>>].status = "SELECTED" /\ u \notin granted'
    <3>1. <<u, selected'[u]>> \in R
      BY <1>3, <2>1
    <3>2. <<u, selected'[u]>>[1] = u
      OBVIOUS
    <3>3. u \in {p[1] : p \in R}
      BY <3>1, <3>2, Zenon
    <3> QED BY <1>1, <1>2, <1>4, <3>1, <3>3
  <2>2. ASSUME NEW p \in Proc, tx'[p].status = "SELECTED" PROVE selected'[p[1]] = p[2]
    BY <1>1, <1>3, <1>4, <2>2
  <2> QED BY <1>2, <2>1, <2>2 DEF TtiInv
<1> QED BY <1>5, <1>6, <1>7, <1>8, <1>9

\* A nonempty set of natural numbers has a least element.
LEMMA Least ==
  ASSUME NEW S \in SUBSET Nat, S # {}
  PROVE  \E m \in S : \A n \in S : m <= n
<1>1. IsWellFoundedOn(OpToRel(<, Nat), Nat)
  BY NatLessThanWellFounded
<1>2. \E m \in S : \A n \in S : <<n, m>> \notin OpToRel(<, Nat)
  BY <1>1, WFMin
<1>3. PICK m \in S : \A n \in S : <<n, m>> \notin OpToRel(<, Nat)
  BY <1>2
<1>4. ASSUME NEW n \in S PROVE m <= n
  <2>1. <<n, m>> \notin OpToRel(<, Nat)
    BY <1>3
  <2>2. ~(n < m)
    BY <2>1 DEF OpToRel
  <2> QED BY <2>2
<1> QED BY <1>4

LEMMA MacPduMakeInv ==
  ASSUME HarqInv, NEW u \in Ue, MacPduMake(u)
  PROVE  HarqInv'
<1> USE DEF HarqInv, tti, history
<1> DEFINE a == FirstAvailable(u)
           p == <<u, a>>
           t == [status |-> "SELECTED", pdu |-> nextPdu, transmissions |-> 0]
<1>1. /\ tx \in [Proc -> TxUnit] /\ selected \in [Ue -> Acid \cup {None}] /\ nextPdu \in Nat
      /\ nextPdu < MaxPdus /\ selected[u] = None /\ flushing /\ u \in granted
  <2>1. nextPdu \in Nat /\ selected \in [Ue -> Acid \cup {None}]
    BY DEF TypeOK
  <2> QED BY <2>1 DEF MacPduMake, TtiInv, TypeOK
<1>2. a # None => a \in Acid /\ tx[p].status = "EMPTY"
  <2>1. SUFFICES ASSUME a # None PROVE a \in Acid /\ tx[p].status = "EMPTY"
    OBVIOUS
  <2>2. /\ Available(u) # {}
        /\ a = CHOOSE c \in Available(u) : \A d \in Available(u) : c <= d
    BY <1>1, <2>1 DEF FirstAvailable
  <2>3. Available(u) \subseteq Nat
    BY DEF Available, Empty, Acid
  <2>4. \E c \in Available(u) : \A d \in Available(u) : c <= d
    BY <2>2, <2>3, Least
  <2>5. a \in Available(u)
    BY <2>2, <2>4
  <2> QED BY <2>5 DEF Available, Empty
<1>3. /\ granted' = granted \ {u} /\ nextPdu' = nextPdu + 1 /\ err' = err
      /\ UNCHANGED <<rx, needRtx, flushing, data, feedback, delivered, twice,
                     acked, failed, aborted, handovers>>
      /\ a = None => unserved' = unserved \cup {nextPdu} /\ UNCHANGED <<tx, selected>>
      /\ a # None => /\ tx' = [tx EXCEPT ![p] = t] /\ unserved' = unserved
                     /\ selected' = [selected EXCEPT ![u] = a]
  BY <1>2 DEF MacPduMake
<1> HIDE DEF a
<1>4. /\ PduId \subseteq PduId' /\ nextPdu \in PduId' /\ nextPdu \notin PduId
      /\ \A T \in {delivered, twice, acked, failed, unserved, aborted} : T \subseteq PduId
  BY <1>1, <1>3 DEF PduId, TypeOK
<1>5. /\ TxUnit \subseteq TxUnit' /\ RxProcess \subseteq RxProcess'
      /\ DataFrame \subseteq DataFrame' /\ Feedback \subseteq Feedback'
  <2>1. PduId \cup {None} \subseteq (PduId \cup {None})'
    BY <1>4
  <2> HIDE DEF HarqInv
  <2> QED BY <1>4, <2>1 DEF TxUnit, RxProcess, DataFrame, Feedback
<1>6. /\ \A q \in Proc : tx'[q] = tx[q] \/ (a # None /\ q = p)
      /\ a # None => p \in Proc /\ tx'[p] = t /\ t \in TxUnit'
  BY <1>1, <1>2, <1>3, <1>4 DEF Proc, TxUnit
<1>7. TypeOK' /\ NoError'
  <2>1. tx' \in [Proc -> TxUnit']
    <3>1. tx \in [Proc -> TxUnit']
      BY <1>1, <1>5
    <3> QED BY <1>3, <1>6, <3>1
  <2>2. rx' \in [Proc -> RxProcess']
    <3>1. rx \in [Proc -> RxProcess]
      BY DEF TypeOK
    <3> QED BY <1>3, <1>5, <3>1
  <2>3. data' \subseteq DataFrame' /\ feedback' \subseteq Feedback'
    BY <1>3, <1>5 DEF TypeOK
  <2>4. selected' \in [Ue -> Acid \cup {None}]
    BY <1>1, <1>2, <1>3
  <2>5. \A T \in {delivered', twice', acked', failed', unserved', aborted'} : T \subseteq PduId'
    BY <1>3, <1>4
  <2>6. nextPdu' \in 0 .. MaxPdus /\ needRtx' \in Nat /\ handovers' \in Nat
        /\ granted' \subseteq Ue /\ flushing' \in BOOLEAN
    BY <1>1, <1>3 DEF TypeOK
  <2> QED BY <1>3, <2>1, <2>2, <2>3, <2>4, <2>5, <2>6 DEF TypeOK, NoError
<1>8. EndsInv'
  <2>1. ASSUME NEW q \in Proc PROVE ProcessInv(q)'
    <3>1. ProcessInv(q)
      BY DEF EndsInv
    <3>2. CASE tx'[q] = tx[q]
      BY <1>3, <3>1, <3>2 DEF ProcessInv, Held
    <3>3. CASE a # None /\ q = p
      BY <1>2, <1>3, <1>4, <1>6, <3>1, <3>3 DEF ProcessInv, Held
    <3> QED BY <1>6, <3>2, <3>3
  <2>2. ASSUME NEW q \in Proc, tx[q].status = "WAITING" PROVE tx'[q] = tx[q]
    BY <1>2, <1>6, <2>2
  <2>3. ASSUME NEW f \in data' PROVE DataInv(f)'
    <3>1. f \in data /\ DataInv(f) /\ f.proc \in Proc
      BY <1>3 DEF EndsInv, TypeOK, DataFrame
    <3> QED BY <1>3, <2>2, <3>1 DEF DataInv
  <2>4. ASSUME NEW b \in feedback' PROVE FeedbackInv(b)'
    <3>1. b \in feedback /\ FeedbackInv(b) /\ b.proc \in Proc
      BY <1>3 DEF EndsInv, TypeOK, Feedback
    <3> QED BY <1>3, <2>2, <3>1 DEF FeedbackInv, Held, LastAttempt
  <2>5. ASSUME NEW f \in data', NEW b \in feedback' PROVE f.proc # b.proc
    BY <1>3 DEF EndsInv
  <2>6. ASSUME NEW q \in Proc, tx'[q].status = "WAITING" PROVE Busy(q)'
    <3>1. tx'[q] = tx[q]
      BY <1>6, <2>6
    <3> QED BY <1>3, <2>6, <3>1 DEF EndsInv, Busy
  <2> QED BY <2>1, <2>3, <2>4, <2>5, <2>6 DEF EndsInv
<1>9. PduInv'
  <2>1. ASSUME NEW q \in Proc, tx'[q].status # "EMPTY"
        PROVE  \/ /\ tx'[q] = tx[q] /\ tx[q].status # "EMPTY" /\ tx[q].pdu \in PduId
                  /\ tx[q].pdu \notin acked \cup failed \cup unserved \cup aborted
               \/ a # None /\ q = p /\ tx'[q].pdu = nextPdu
    BY <1>6, <2>1 DEF PduInv
  <2>2. ASSUME NEW q \in Proc, NEW s \in Proc, tx'[q].status # "EMPTY",
               tx'[s].status # "EMPTY", tx'[q].pdu = tx'[s].pdu
        PROVE  q = s
    BY <1>4, <2>1, <2>2 DEF PduInv
  <2>3. ASSUME NEW q \in Proc, tx'[q].status # "EMPTY"
        PROVE  tx'[q].pdu \in PduId' /\ tx'[q].pdu \notin acked' \cup failed' \cup unserved' \cup aborted'
    BY <1>3, <1>4, <2>1, <2>3
  <2> QED BY <2>2, <2>3 DEF PduInv
<1>10. TtiInv'
  <2>1. ASSUME NEW v \in Ue, selected'[v] # None
        PROVE  tx'[<<v, selected'[v]>>].status = "SELECTED" /\ v \notin granted'
    <3>1. CASE a # None /\ v = u
      BY <1>1, <1>3, <1>6, <3>1
    <3>2. CASE ~(a # None /\ v = u)
      <4>1. selected'[v] = selected[v]
        BY <1>1, <1>3, <3>2
      <4>2. v # u /\ <<v, selected[v]>> \in Proc
        BY <1>1, <2>1, <4>1 DEF Proc
      <4>3. tx'[<<v, selected[v]>>] = tx[<<v, selected[v]>>]
        BY <1>6, <4>2
      <4> QED BY <1>3, <2>1, <4>1, <4>3 DEF TtiInv
    <3> QED BY <3>1, <3>2
  <2>2. ASSUME NEW q \in Proc, tx'[q].status = "SELECTED" PROVE selected'[q[1]] = q[2]
    <3>1. CASE a # None /\ q = p
      BY <1>1, <1>3, <3>1
    <3>2. CASE ~(a # None /\ q = p)
      <4>1. tx[q].status = "SELECTED" /\ q[1] \in Ue /\ q[2] \in Acid /\ selected[q[1]] = q[2]
        BY <1>6, <2>2, <3>2 DEF TtiInv, Proc
      <4>2. q[1] # u
        BY <1>1, <4>1 DEF None, Acid
      <4> QED BY <1>1, <1>3, <4>1, <4>2
    <3> QED BY <3>1, <3>2
  <2> QED BY <1>1, <1>3, <2>1, <2>2 DEF TtiInv
<1>11. OutcomesTrue'
  BY <1>3 DEF OutcomesTrue
<1>12. RtxCounted'
  <2>1. Ready' \subseteq Ready
    BY <1>6 DEF Ready
  <2> QED BY <1>3, <2>1, NoMoreReady DEF TypeOK
<1> QED BY <1>7, <1>8, <1>9, <1>10, <1>11, <1>12

LEMMA FlushInv == HarqInv /\ Flush => HarqInv'
<1> SUFFICES ASSUME HarqInv, Flush PROVE HarqInv'
  OBVIOUS
<1> USE DEF HarqInv, tti, history
<1> DEFINE Frame(p) == [proc |-> p, pdu |-> tx[p].pdu, txNumber |-> tx[p].transmissions + 1]
<1>1. /\ tx \in [Proc -> TxUnit] /\ Sent \subseteq Proc
      /\ \A p \in Proc : p \in Sent <=> tx[p].status = "SELECTED"
  BY DEF Sent, TtiInv, TypeOK
<1>2. ASSUME NEW p \in Sent
      PROVE  /\ tx[p].status = "SELECTED" /\ tx[p].pdu \in PduId /\ tx[p].pdu \notin delivered
             /\ tx[p].transmissions \in 0 .. MaxHarqRtx
             /\ rx[p].transmissions = tx[p].transmissions
             /\ rx[p].status = IF tx[p].transmissions = 0 THEN "EMPTY" ELSE "CORRUPTED"
  <2>1. ProcessInv(p) /\ p \in Proc /\ tx[p].status = "SELECTED"
    BY <1>1, <1>2 DEF EndsInv
  <2>2. tx[p].pdu \in PduId
    BY <2>1 DEF PduInv
  <2> QED BY <2>1, <2>2 DEF ProcessInv, Held
<1>3. /\ tx' = [p \in Proc |-> IF p \in Sent THEN ExtractPdu(tx[p]) ELSE tx[p]]
      /\ data' = data \cup {Frame(p) : p \in Sent}
      /\ selected' = [u \in Ue |-> None] /\ granted' = {} /\ flushing' = FALSE /\ err' = err
      /\ UNCHANGED <<rx, needRtx, feedback, nextPdu, history, handovers>>
  BY DEF Flush
<1>4. ASSUME NEW p \in Sent
      PROVE  /\ tx'[p] \in TxUnit /\ tx'[p].status = "WAITING" /\ tx'[p].pdu = tx[p].pdu
             /\ tx'[p].transmissions = tx[p].transmissions + 1
  <2>1. tx[p] \in TxUnit /\ tx'[p] = ExtractPdu(tx[p])
    BY <1>1, <1>3
  <2>2. tx[p].transmissions \in 0 .. MaxHarqRtx
    BY <1>2
  <2>3. tx'[p] = [status |-> "WAITING", pdu |-> tx[p].pdu,
                  transmissions |-> tx[p].transmissions + 1]
    BY <2>1, Zenon DEF ExtractPdu, TxUnit
  <2> QED BY <2>1, <2>2, <2>3 DEF TxUnit
<1>5. \A p \in Proc : p \notin Sent => tx'[p] = tx[p]
  BY <1>3
<1>6. \A p \in Proc : tx'[p].pdu = tx[p].pdu
  BY <1>4, <1>5
<1>7. TypeOK' /\ NoError'
  <2>1. tx' \in [Proc -> TxUnit]
    BY <1>1, <1>3, <1>4, <1>5
  <2>2. PduId' = PduId /\ TxUnit' = TxUnit /\ RxProcess' = RxProcess
        /\ DataFrame' = DataFrame /\ Feedback' = Feedback
    BY <1>3 DEF PduId, TxUnit, RxProcess, DataFrame, Feedback
  <2>3. ASSUME NEW p \in Sent PROVE Frame(p) \in DataFrame
    BY <1>1, <1>2, <2>3 DEF DataFrame
  <2>4. data' \subseteq DataFrame
    BY <1>3, <2>3 DEF TypeOK
  <2> QED BY <1>3, <2>1, <2>2, <2>4 DEF TypeOK, NoError
<1>8. EndsInv'
  <2>1. ASSUME NEW p \in Proc PROVE ProcessInv(p)'
    <3>1. ProcessInv(p)
      BY DEF EndsInv
    <3>2. CASE p \in Sent
      BY <1>2, <1>3, <1>4, <3>1, <3>2 DEF ProcessInv
    <3>3. CASE p \notin Sent
      BY <1>3, <1>5, <3>1, <3>3 DEF ProcessInv, Held
    <3> QED BY <3>2, <3>3
  <2>2. ASSUME NEW p \in Proc, tx[p].status = "WAITING" PROVE tx'[p] = tx[p]
    BY <1>1, <1>5, <2>2
  <2>3. ASSUME NEW f \in data' PROVE DataInv(f)'
    <3>1. CASE f \in data
      <4>1. DataInv(f) /\ f.proc \in Proc
        BY <3>1 DEF EndsInv, TypeOK, DataFrame
      <4> QED BY <1>3, <2>2, <4>1 DEF DataInv
    <3>2. ASSUME NEW p \in Sent, f = Frame(p) PROVE DataInv(f)'
      <4>1. f.proc = p /\ f.pdu = tx[p].pdu /\ f.txNumber = tx[p].transmissions + 1
        BY <3>2
      <4> QED BY <1>2, <1>3, <1>4, <4>1 DEF DataInv
    <3> QED BY <1>3, <3>1, <3>2
  <2>4. ASSUME NEW b \in feedback' PROVE FeedbackInv(b)' /\ b.proc \notin Sent
    <3>1. b \in feedback /\ FeedbackInv(b) /\ b.proc \in Proc
      BY <1>3 DEF EndsInv, TypeOK, Feedback
    <3>2. tx[b.proc].status = "WAITING"
      BY <3>1 DEF FeedbackInv
    <3> QED BY <1>1, <1>3, <2>2, <3>1, <3>2 DEF FeedbackInv, Held, LastAttempt
  <2>5. ASSUME NEW f \in data', NEW b \in feedback' PROVE f.proc # b.proc
    BY <1>3, <2>4 DEF EndsInv
  <2>6. ASSUME NEW p \in Proc, tx'[p].status = "WAITING" PROVE Busy(p)'
    <3>1. CASE p \in Sent
      <4>1. Frame(p) \in data' /\ Frame(p).proc = p
        BY <1>3, <3>1
      <4> QED BY <4>1, Zenon DEF Busy
    <3>2. CASE p \notin Sent
      BY <1>3, <1>5, <2>6, <3>2 DEF EndsInv, Busy
    <3> QED BY <3>1, <3>2
  <2> QED BY <2>1, <2>3, <2>4, <2>5, <2>6 DEF EndsInv
<1>9. PduInv' /\ OutcomesTrue'
  <2>1. \A p \in Proc : tx'[p].status # "EMPTY" => tx[p].status # "EMPTY"
    BY <1>2, <1>5
  <2> QED BY <1>3, <1>6, <2>1 DEF PduInv, OutcomesTrue, PduId
<1>10. TtiInv'
  <2>1. \A p \in Proc : tx'[p].status # "SELECTED"
    BY <1>1, <1>4, <1>5
  <2> QED BY <1>3, <2>1 DEF TtiInv
<1>11. RtxCounted'
  <2>1. Ready' \subseteq Ready
    BY <1>4, <1>5 DEF Ready
  <2> QED BY <1>3, <2>1, NoMoreReady DEF TypeOK
<1> QED BY <1>7, <1>8, <1>9, <1>10, <1>11

LEMMA HandoverInv ==
  ASSUME HarqInv, NEW u \in Ue, Handover(u)
  PROVE  HarqInv'
<1> USE DEF HarqInv, tti, history
<1>1. /\ tx \in [Proc -> TxUnit] /\ rx \in [Proc -> RxProcess] /\ handovers \in Nat
      /\ ~flushing /\ err' = err /\ needRtx' = needRtx /\ handovers' = handovers + 1
      /\ data' = {f \in data : f.proc[1] # u} /\ feedback' = {b \in feedback : b.proc[1] # u}
      /\ aborted' = aborted \cup {tx[p].pdu : p \in InUse(u)}
      /\ UNCHANGED <<tti, nextPdu, delivered, twice, acked, failed, unserved>>
  BY DEF Handover, OtherFrames, AfterHandover, TypeOK
<1>2. \A p \in Proc : /\ tx'[p] = IF p[1] = u THEN TxReset ELSE tx[p]
                      /\ rx'[p] = IF p[1] = u THEN RxReset ELSE rx[p]
  BY DEF Handover
<1>3. ASSUME NEW p \in Proc, tx'[p].status # "EMPTY"
      PROVE  p[1] # u /\ tx'[p] = tx[p] /\ rx'[p] = rx[p] /\ tx[p].status # "EMPTY"
  BY <1>2, <1>3 DEF TxReset
<1>4. InUse(u) \subseteq {p \in Proc : p[1] = u /\ tx[p].status # "EMPTY"}
  BY DEF InUse, Proc
<1>5. TypeOK' /\ NoError'
  <2>1. TxReset \in TxUnit /\ RxReset \in RxProcess
    BY DEF TxReset, RxReset, TxUnit, RxProcess
  <2>2. tx' \in [Proc -> TxUnit] /\ rx' \in [Proc -> RxProcess]
    BY <1>1, <2>1 DEF Handover
  <2>3. PduId' = PduId /\ TxUnit' = TxUnit /\ RxProcess' = RxProcess
        /\ DataFrame' = DataFrame /\ Feedback' = Feedback
    BY <1>1 DEF PduId, TxUnit, RxProcess, DataFrame, Feedback
  <2>4. {tx[p].pdu : p \in InUse(u)} \subseteq PduId
    BY <1>4 DEF PduInv
  <2>5. data' \subseteq DataFrame /\ feedback' \subseteq Feedback
    BY <1>1 DEF TypeOK
  <2>6. aborted' \subseteq PduId
    BY <1>1, <2>4 DEF TypeOK
  <2> QED BY <1>1, <2>2, <2>3, <2>5, <2>6 DEF TypeOK, NoError
<1>6. EndsInv'
  <2>1. ASSUME NEW p \in Proc PROVE ProcessInv(p)'
    <3>1. ProcessInv(p)
      BY DEF EndsInv
    <3> QED BY <1>1, <1>2, <3>1 DEF ProcessInv, Held, TxReset, RxReset
  <2>2. ASSUME NEW f \in data' PROVE DataInv(f)'
    <3>1. f \in data /\ DataInv(f) /\ f.proc \in Proc /\ f.proc[1] # u
      BY <1>1 DEF EndsInv, TypeOK, DataFrame
    <3> QED BY <1>1, <1>2, <3>1 DEF DataInv
  <2>3. ASSUME NEW b \in feedback' PROVE FeedbackInv(b)'
    <3>1. b \in feedback /\ FeedbackInv(b) /\ b.proc \in Proc /\ b.proc[1] # u
      BY <1>1 DEF EndsInv, TypeOK, Feedback
    <3> QED BY <1>1, <1>2, <3>1 DEF FeedbackInv, Held, LastAttempt
  <2>4. ASSUME NEW f \in data', NEW b \in feedback' PROVE f.proc # b.proc
    BY <1>1 DEF EndsInv
  <2>5. ASSUME NEW p \in Proc, tx'[p].status = "WAITING" PROVE Busy(p)'
    <3>1. p[1] # u /\ Busy(p) /\ rx'[p] = rx[p]
      BY <1>3, <2>5 DEF EndsInv
    <3> QED BY <1>1, <3>1 DEF Busy
  <2> QED BY <2>1, <2>2, <2>3, <2>4, <2>5 DEF EndsInv
<1>7. PduInv'
  <2>1. ASSUME NEW p \in Proc, tx'[p].status # "EMPTY" PROVE tx[p].pdu \notin aborted'
    <3>1. p[1] # u /\ tx[p].status # "EMPTY" /\ tx[p].pdu \notin aborted
      BY <1>3, <2>1 DEF PduInv
    <3>2. ASSUME NEW q \in InUse(u) PROVE tx[q].pdu # tx[p].pdu
      BY <1>4, <3>1 DEF PduInv
    <3> QED BY <1>1, <3>1, <3>2
  <2> QED BY <1>1, <1>3, <2>1 DEF PduInv, PduId
<1>8. TtiInv'
  <2>1. \A v \in Ue : selected'[v] = None
    BY <1>1 DEF TtiInv
  <2>2. ASSUME NEW p \in Proc PROVE tx'[p].status # "SELECTED"
    <3>1. p[1] \in Ue /\ p[2] \in Acid /\ selected[p[1]] = None
      BY <1>1, <2>1 DEF Proc
    <3>2. tx[p].status # "SELECTED"
      BY <3>1 DEF TtiInv, None, Acid
    <3> QED BY <1>2, <3>2 DEF TxReset
  <2> QED BY <1>1, <2>1, <2>2 DEF TtiInv
<1>9. OutcomesTrue'
  BY <1>1 DEF OutcomesTrue
<1>10. RtxCounted'
  <2>1. Ready' \subseteq Ready
    BY <1>3 DEF Ready
  <2> QED BY <1>1, <2>1, NoMoreReady DEF TypeOK
<1> QED BY <1>5, <1>6, <1>7, <1>8, <1>9, <1>10

LEMMA NextInv == HarqInv /\ [Next]_vars => HarqInv'
<1> SUFFICES ASSUME HarqInv, [Next]_vars PROVE HarqInv'
  OBVIOUS
<1>1. CASE \E R \in SUBSET Ready, G \in SUBSET Ue : Schedule(R, G)
  BY <1>1, ScheduleInv
<1>2. CASE \E u \in Ue : MacPduMake(u)
  BY <1>2, MacPduMakeInv
<1>3. CASE Flush
  BY <1>3, FlushInv
<1>4. CASE \E f \in data, ok \in BOOLEAN : ReceiveData(f, ok)
  BY <1>4, ReceiveDataInv
<1>5. CASE \E p \in Proc : ExtractCorrectPdus(p)
  BY <1>5, ExtractInv
<1>6. CASE \E b \in feedback : ReceiveHarqFeedback(b)
  BY <1>6, ReceiveHarqFeedbackInv
<1>7. CASE \E u \in Ue : Handover(u)
  BY <1>7, HandoverInv
<1>8. CASE UNCHANGED vars
  <2> USE <1>8 DEF vars
  <2>1. TypeOK' /\ NoError'
    BY DEF HarqInv, TypeOK, NoError, TxUnit, RxProcess, DataFrame, Feedback, PduId
  <2>2. EndsInv'
    BY DEF HarqInv, EndsInv, ProcessInv, DataInv, FeedbackInv, Busy, Held, LastAttempt
  <2>3. PduInv' /\ TtiInv' /\ OutcomesTrue'
    BY DEF HarqInv, PduInv, TtiInv, OutcomesTrue, PduId
  <2>4. RtxCounted'
    BY NoMoreReady DEF HarqInv, Ready, TypeOK
  <2> QED BY <2>1, <2>2, <2>3, <2>4 DEF HarqInv
<1> QED BY <1>1, <1>2, <1>3, <1>4, <1>5, <1>6, <1>7, <1>8 DEF Next, Tti
-----------------------------------------------------------------------------
(* The theorems.                                                           *)

LEMMA Inductive == Spec => []HarqInv
BY InitInv, NextInv, PTL DEF Spec

\* Type correctness.
THEOREM TypeCorrect == Spec => []TypeOK
<1>1. HarqInv => TypeOK
  BY DEF HarqInv
<1> QED BY <1>1, Inductive, PTL

\* No exception of LteHarqUnitTx or LteHarqProcessRx is ever thrown.
THEOREM NeverFails == Spec => []NoError
<1>1. HarqInv => NoError
  BY DEF HarqInv
<1> QED BY <1>1, Inductive, PTL

\* Both ends of a process agree on whether it is free and, when the gNB waits
\* to retransmit, on the PDU and on the number of attempts.
THEOREM BothEndsAgree == Spec => []EndsAgree
<1>1. ASSUME HarqInv PROVE EndsAgree
  <2>1. ASSUME NEW p \in Proc, tx[p].status = "EMPTY"
        PROVE  rx[p].status = "EMPTY" /\ \A f \in data \cup feedback : f.proc # p
    BY <1>1, <2>1 DEF HarqInv, EndsInv, ProcessInv, DataInv, FeedbackInv
  <2>2. ASSUME NEW p \in Proc, tx[p].status = "BUFFERED" PROVE Held(p)
    BY <1>1, <2>2 DEF HarqInv, EndsInv, ProcessInv
  <2> QED BY <2>1, <2>2 DEF EndsAgree, Held
<1> QED BY <1>1, Inductive, PTL

\* A unit that waits is owed exactly one thing, which carries its PDU.
THEOREM OneThingInFlight == Spec => []WaitsForSomething
<1>1. ASSUME HarqInv, NEW p \in Proc, tx[p].status = "WAITING"
      PROVE  LET D == {f \in data : f.proc = p}
                 F == {fb \in feedback : fb.proc = p}
                 E == {q \in {p} : rx[q].status = "EVALUATING"}
             IN /\ Cardinality(D) + Cardinality(F) + Cardinality(E) = 1
                /\ \A f \in D \cup F : f.pdu = tx[p].pdu
                /\ \A q \in E : rx[q].pdu = tx[p].pdu
  <2> DEFINE D == {f \in data : f.proc = p}
             F == {fb \in feedback : fb.proc = p}
             E == {q \in {p} : rx[q].status = "EVALUATING"}
  <2>1. /\ \A f \in D : DataInv(f) /\ D = {f} /\ F = {} /\ E = {}
        /\ \A b \in F : FeedbackInv(b) /\ F = {b} /\ D = {} /\ E = {}
    <3>1. ASSUME NEW f \in D PROVE DataInv(f) /\ D = {f} /\ F = {} /\ E = {}
      <4>1. D = {f}
        BY <1>1, DataUnique
      <4>2. DataInv(f) /\ F = {}
        BY <1>1 DEF HarqInv, EndsInv
      <4>3. E = {}
        BY <4>2 DEF DataInv
      <4> QED BY <4>1, <4>2, <4>3
    <3>2. ASSUME NEW b \in F PROVE FeedbackInv(b) /\ F = {b} /\ D = {} /\ E = {}
      <4>1. F = {b}
        BY <1>1, FeedbackUnique
      <4>2. FeedbackInv(b) /\ D = {} /\ b.ack \in BOOLEAN
        BY <1>1 DEF HarqInv, EndsInv, TypeOK, Feedback
      <4>3. E = {}
        BY <4>2 DEF FeedbackInv, Held
      <4> QED BY <4>1, <4>2, <4>3
    <3> QED BY <3>1, <3>2
  <2>2. D # {} \/ F # {} \/ E = {p}
    BY <1>1 DEF HarqInv, EndsInv, Busy
  <2>3. E = {p} => D = {} /\ F = {} /\ rx[p].pdu = tx[p].pdu
    BY <1>1, <2>1 DEF HarqInv, EndsInv, ProcessInv
  <2>4. PICK x : \/ D = {x} /\ F = {} /\ E = {}
                 \/ D = {} /\ F = {x} /\ E = {}
                 \/ D = {} /\ F = {} /\ E = {x}
    BY <2>1, <2>2, <2>3
  <2>5. Cardinality(D) + Cardinality(F) + Cardinality(E) = 1
    <3>1. Cardinality({x}) = 1 /\ Cardinality({}) = 0
      BY FS_Singleton, FS_EmptySet
    <3> HIDE DEF D, F, E
    <3> QED BY <2>4, <3>1
  <2>6. \A f \in D \cup F : f.pdu = tx[p].pdu
    BY <2>1 DEF DataInv, FeedbackInv
  <2>7. \A q \in E : rx[q].pdu = tx[p].pdu
    BY <2>3
  <2> HIDE DEF D, F, E
  <2> QED BY <2>5, <2>6, <2>7 DEF D, F, E
<1>2. HarqInv => WaitsForSomething
  BY <1>1 DEF WaitsForSomething
<1> QED BY <1>2, Inductive, PTL

\* The counter never hides a unit from scheduleRetransmissions.
THEOREM CounterSound == Spec => []RtxCounted
<1>1. HarqInv => RtxCounted
  BY DEF HarqInv
<1> QED BY <1>1, Inductive, PTL

\* Acknowledged PDUs were delivered, given-up ones were not, none twice.
THEOREM OutcomesSound == Spec => []OutcomesTrue
<1>1. HarqInv => OutcomesTrue
  BY DEF HarqInv
<1> QED BY <1>1, Inductive, PTL
-----------------------------------------------------------------------------
(* Harq implements HarqService.                                            *)

Pdus   == 0 .. MaxPdus - 1
Status == [m \in Pdus |-> PduStatus(m)]

\* The status of some PDUs becomes o.
LEMMA StatusUpdate ==
  ASSUME NEW M \in SUBSET Pdus, NEW o,
         \A m \in Pdus : PduStatus(m)' = IF m \in M THEN o ELSE PduStatus(m)
  PROVE  Status' = [m \in Pdus |-> IF m \in M THEN o ELSE Status[m]]
<1>1. Status' = [m \in Pdus |-> PduStatus(m)']
  BY DEF Status, Pdus
<1>2. \A m \in Pdus : Status[m] = PduStatus(m)
  BY Zenon DEF Status
<1> QED BY <1>1, <1>2, Zenon

\* A step of Harq is a step of the service or changes nothing of it.
LEMMA StepRefines ==
  ASSUME HarqInv, HarqInv', [Next]_vars
  PROVE  [Service!Next]_(Service!svars)
<1> DEFINE Abstract == <<nextPdu, acked, failed, unserved, aborted>>
<1>1. PduId \subseteq Pdus /\ \A T \in {delivered, acked, failed, unserved, aborted} : T \subseteq PduId
  BY DEF HarqInv, TypeOK, PduId, Pdus
<1>2. ASSUME NEW p \in Proc, tx[p].status # "EMPTY"
      PROVE  tx[p].pdu \in Pdus /\ PduStatus(tx[p].pdu) = "pending"
  BY <1>1, <1>2 DEF HarqInv, PduInv, PduStatus, PduId, TypeOK
<1>3. ASSUME UNCHANGED Abstract PROVE Status' = Status
  BY <1>3 DEF Status, PduStatus
<1>4. ASSUME UNCHANGED Abstract, UNCHANGED delivered
      PROVE  UNCHANGED Service!svars
  BY <1>3, <1>4 DEF Service!svars, Status, Pdus
<1>5. ASSUME NEW R \in SUBSET Ready, NEW G \in SUBSET Ue, Schedule(R, G)
      PROVE  UNCHANGED Service!svars
  BY <1>4, <1>5 DEF Schedule, history
<1>6. ASSUME NEW u \in Ue, MacPduMake(u) PROVE Service!Next
  <2> DEFINE o == IF unserved' = unserved THEN "pending" ELSE "dropped"
  <2>1. /\ nextPdu \in Nat /\ nextPdu < MaxPdus /\ nextPdu' = nextPdu + 1
        /\ unserved' \in {unserved, unserved \cup {nextPdu}}
        /\ acked' = acked /\ failed' = failed /\ aborted' = aborted /\ delivered' = delivered
    <3>1. err' = "none" /\ nextPdu \in Nat
      BY DEF HarqInv, NoError, TypeOK
    <3>2. ~Fail("insertPdu: unit is not empty")
      BY <3>1 DEF Fail
    <3> QED BY <1>6, <3>1, <3>2 DEF MacPduMake
  <2>2. nextPdu \in Pdus
    BY <2>1 DEF Pdus
  <2>3. nextPdu \notin acked \cup failed \cup unserved \cup aborted
    BY <1>1, <2>1 DEF PduId
  <2>4. Status[nextPdu] = "unbuilt"
    BY <2>1, <2>2 DEF Status, PduStatus
  <2>5. Status' = [Status EXCEPT ![nextPdu] = o]
    <3>1. ASSUME NEW m \in Pdus, m # nextPdu PROVE PduStatus(m)' = PduStatus(m)
      <4>1. m >= nextPdu' <=> m >= nextPdu
        BY <2>1, <3>1 DEF Pdus
      <4>2. m \in unserved' <=> m \in unserved
        BY <2>1, <3>1
      <4> QED BY <2>1, <4>1, <4>2 DEF PduStatus
    <3>2. ASSUME NEW m \in Pdus, m = nextPdu PROVE PduStatus(m)' = o
      <4>1. ~(m >= nextPdu')
        BY <2>1, <3>2
      <4>2. /\ m \in unserved' <=> unserved' # unserved
            /\ m \notin acked \cup failed \cup aborted
        BY <2>1, <2>3, <3>2
      <4> QED BY <2>1, <4>1, <4>2 DEF PduStatus
    <3>3. Status' = [m \in Pdus |-> IF m \in {nextPdu} THEN o ELSE Status[m]]
      <4>1. {nextPdu} \in SUBSET Pdus
        BY <2>2
      <4>2. \A m \in Pdus : PduStatus(m)' = IF m \in {nextPdu} THEN o ELSE PduStatus(m)
        BY <3>1, <3>2, Zenon
      <4> HIDE DEF o
      <4> QED BY <4>1, <4>2, StatusUpdate, Zenon
    <3> QED BY <2>2, <3>3 DEF Status
  <2>6. Service!Build(nextPdu, o)
    BY <2>1, <2>4, <2>5 DEF Service!Build, Status, Pdus
  <2> QED BY <2>2, <2>6 DEF Service!Next, Pdus
<1>7. ASSUME Flush PROVE UNCHANGED Service!svars
  BY <1>4, <1>7 DEF Flush, history
<1>8. ASSUME NEW f \in data, NEW ok \in BOOLEAN, ReceiveData(f, ok)
      PROVE  UNCHANGED Service!svars
  BY <1>4, <1>8 DEF ReceiveData, Fail, history
<1>9. ASSUME NEW p \in Proc, ExtractCorrectPdus(p)
      PROVE  Service!Next \/ UNCHANGED Service!svars
  <2> DEFINE m == rx[p].pdu
  <2>1. /\ tx[p].status # "EMPTY" /\ tx[p].pdu = m /\ m \notin delivered
    BY <1>9 DEF HarqInv, EndsInv, ProcessInv, ExtractCorrectPdus
  <2>2. UNCHANGED Abstract /\ delivered' \in {delivered, delivered \cup {m}}
    BY <1>9 DEF ExtractCorrectPdus
  <2>3. Status' = Status
    BY <1>3, <2>2
  <2>4. m \in Pdus /\ Status[m] = "pending"
    BY <1>2, <2>1 DEF Status
  <2>5. CASE delivered' = delivered
    BY <1>4, <2>2, <2>5
  <2>6. CASE delivered' = delivered \cup {m}
    <3>1. Service!HandUp(m)
      BY <2>1, <2>3, <2>4, <2>6 DEF Service!HandUp, Status, Pdus
    <3> QED BY <2>4, <3>1 DEF Service!Next, Pdus
  <2> QED BY <2>2, <2>5, <2>6
<1>10. ASSUME NEW b \in feedback, ReceiveHarqFeedback(b)
       PROVE  Service!Next \/ UNCHANGED Service!svars
  <2> DEFINE p == b.proc
             m == tx[p].pdu
  <2>1. /\ FeedbackInv(b) /\ p \in Proc /\ b.ack \in BOOLEAN /\ tx[p].status = "WAITING"
        /\ b.pdu = m
    BY DEF HarqInv, EndsInv, TypeOK, Feedback, FeedbackInv
  <2>2. m \in Pdus /\ Status[m] = "pending" /\ ~(m >= nextPdu)
        /\ m \notin acked \cup failed \cup unserved \cup aborted
    <3>1. m \in PduId /\ m \notin acked \cup failed \cup unserved \cup aborted
      BY <2>1 DEF HarqInv, PduInv
    <3>2. ~(m >= nextPdu)
      BY <3>1 DEF PduId, HarqInv, TypeOK
    <3> QED BY <1>2, <2>1, <3>1, <3>2 DEF Status
  <2>3. PduFeedback(p, b.ack) /\ UNCHANGED <<nextPdu, delivered, unserved, aborted>>
    BY <1>10, <2>1 DEF ReceiveHarqFeedback
  <2>4. ASSUME NEW s, \A n \in Pdus : PduStatus(n)' = IF n \in {m} THEN s ELSE PduStatus(n)
        PROVE  Status' = [Status EXCEPT ![m] = s]
    <3>1. {m} \in SUBSET Pdus
      BY <2>2
    <3>2. Status' = [n \in Pdus |-> IF n \in {m} THEN s ELSE Status[n]]
      BY <2>4, <3>1, StatusUpdate, Zenon
    <3> QED BY <2>2, <3>2 DEF Status
  <2>5. CASE b.ack
    <3>1. acked' = acked \cup {m} /\ failed' = failed
      BY <2>3, <2>5 DEF PduFeedback, GivesUp
    <3>2. ASSUME NEW n \in Pdus
          PROVE  PduStatus(n)' = IF n \in {m} THEN "acked" ELSE PduStatus(n)
      <4> HIDE DEF m
      <4>1. CASE n = m
        BY <2>2, <2>3, <3>1, <4>1 DEF PduStatus
      <4>2. CASE n # m
        BY <2>3, <3>1, <4>2 DEF PduStatus
      <4> QED BY <4>1, <4>2
    <3>3. m \in delivered
      BY <2>1, <2>5 DEF FeedbackInv
    <3>4. Service!Acknowledge(m)
      BY <2>2, <2>3, <2>4, <3>2, <3>3 DEF Service!Acknowledge, Status, Pdus
    <3> QED BY <2>2, <3>4 DEF Service!Next, Pdus
  <2>6. CASE ~b.ack /\ LastAttempt(tx[p])
    <3>1. failed' = failed \cup {m} /\ acked' = acked
      BY <2>3, <2>6 DEF PduFeedback, GivesUp
    <3>2. ASSUME NEW n \in Pdus
          PROVE  PduStatus(n)' = IF n \in {m} THEN "failed" ELSE PduStatus(n)
      <4> HIDE DEF m
      <4>1. CASE n = m
        BY <2>2, <2>3, <3>1, <4>1 DEF PduStatus
      <4>2. CASE n # m
        BY <2>3, <3>1, <4>2 DEF PduStatus
      <4> QED BY <4>1, <4>2
    <3>3. m \notin delivered
      BY <2>1, <2>6 DEF FeedbackInv
    <3>4. Service!GiveUp(m)
      BY <2>2, <2>3, <2>4, <3>2, <3>3 DEF Service!GiveUp, Status, Pdus
    <3> QED BY <2>2, <3>4 DEF Service!Next, Pdus
  <2>7. CASE ~b.ack /\ ~LastAttempt(tx[p])
    <3>1. acked' = acked /\ failed' = failed
      BY <2>3, <2>7 DEF PduFeedback, GivesUp
    <3> QED BY <1>4, <2>3, <3>1
  <2> QED BY <2>1, <2>5, <2>6, <2>7
<1>11. ASSUME NEW u \in Ue, Handover(u) PROVE Service!Next
  <2> DEFINE M == {tx[p].pdu : p \in InUse(u)}
  <2>1. \A p \in InUse(u) : p \in Proc /\ tx[p].status # "EMPTY"
    BY DEF InUse, Proc
  <2>2. aborted' = aborted \cup M
        /\ UNCHANGED <<nextPdu, delivered, acked, failed, unserved>>
    BY <1>11 DEF Handover
  <2>3. \A m \in M : m \in Pdus /\ PduStatus(m) = "pending" /\ m \in PduId
                     /\ m \notin acked \cup failed \cup unserved \cup aborted
    BY <1>2, <2>1 DEF HarqInv, PduInv
  <2> HIDE DEF M
  <2>4. M \in SUBSET Pdus /\ \A m \in M : Status[m] = "pending"
    BY <2>3 DEF Status
  <2>5. ASSUME NEW m \in Pdus
        PROVE  PduStatus(m)' = IF m \in M THEN "dropped" ELSE PduStatus(m)
    <3>1. CASE m \in M
      <4>1. ~(m >= nextPdu) /\ m \in PduId /\ m \notin acked \cup failed
        BY <2>3, <3>1 DEF HarqInv, TypeOK, PduId
      <4> QED BY <2>2, <3>1, <4>1 DEF PduStatus
    <3>2. CASE m \notin M
      BY <2>2, <3>2 DEF PduStatus
    <3> QED BY <3>1, <3>2
  <2>6. Status' = [m \in Pdus |-> IF m \in M THEN "dropped" ELSE Status[m]]
    BY <2>4, <2>5, StatusUpdate, Zenon
  <2>7. Service!Drop(M)
    BY <2>2, <2>4, <2>6 DEF Service!Drop, Status, Pdus
  <2> QED BY <2>4, <2>7 DEF Service!Next, Pdus
<1>12. ASSUME UNCHANGED vars PROVE UNCHANGED Service!svars
  BY <1>4, <1>12 DEF vars
<1> QED BY <1>5, <1>6, <1>7, <1>8, <1>9, <1>10, <1>11, <1>12 DEF Next, Tti

\* Downlink H-ARQ implements its service: a PDU is handed up at most once, is
\* taken as acknowledged only afterwards and as lost only if it never is.
THEOREM Implements == Spec => ServiceSpec
<1>1. Init => Service!Init
  BY DEF Init, Service!Init, PduStatus
<1> QED BY <1>1, StepRefines, Inductive, PTL DEF Spec, ServiceSpec, Service!Spec
=============================================================================
