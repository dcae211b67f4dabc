-------------------------------- MODULE Harq --------------------------------
(***************************************************************************)
(* Downlink H-ARQ between a gNB and its UEs on one carrier                 *)
(* (stack/mac/buffer/harq, LteMacEnb.cc, LteSchedulerEnbDl.cc).            *)
(*                                                                         *)
(* A process of a UE has a transmitting side tx[p] in the gNB (unit 0 of   *)
(* LteHarqProcessTx: scheduleGrant offers new data to codeword 0 only) and *)
(* a receiving side rx[p] in the UE (LteHarqProcessRx).  A TTI of the gNB  *)
(* is the main loop (Schedule), the SDUs that RLC returns in the same      *)
(* instant (MacPduMake) and the flush message of lower priority (Flush).   *)
(* Whether the air corrupts a frame and which retransmissions fit in the   *)
(* blocks of a TTI are free choices.  Feedback is never corrupted: the PHY *)
(* passes HARQPKT frames up without the decider.  MAC PDUs are numbered in *)
(* the order in which they are built.  A cRuntimeError is a value of err.  *)
(***************************************************************************)
EXTENDS Integers, FiniteSets

CONSTANTS
  Ue,            \* the UEs that the gNB may serve
  NumProc,       \* harqProcesses: processes per UE
  MaxHarqRtx,    \* maxHarqRtx: retransmissions before a PDU is discarded
  MaxPdus,       \* bound: MAC PDUs built
  MaxHandovers   \* bound: handovers

ASSUME HarqAssumption ==
  /\ IsFiniteSet(Ue) /\ NumProc \in Nat \ {0} /\ MaxHarqRtx \in Nat
  /\ MaxPdus \in Nat /\ MaxHandovers \in Nat

Acid == 0 .. NumProc - 1
Proc == Ue \X Acid
None == -1                  \* HARQ_NONE, and pduId_ of an empty unit

VARIABLES
  tx,         \* units of the gNB's LteHarqBufferTx
  rx,         \* processes of the UEs' LteHarqBufferRx
  selected,   \* selectedAcid_ of each UE's LteHarqBufferTx
  needRtx,    \* needRtxDl_: retransmissions the gNB believes are waiting
  granted,    \* UEs in scheduleListDl_ whose SDU RLC has not returned yet
  flushing,   \* flushHarqMsg is scheduled
  data,       \* DATAPKT frames in the air
  feedback,   \* HARQPKT frames in the air
  nextPdu,    \* number of the next MAC PDU
  delivered,  \* history: PDUs handed to macPduUnmake, a PDU delivered twice
  twice,      \*   is in twice
  acked,      \* history: PDUs whose unit was reset by an ACK
  failed,     \* history: PDUs whose unit was reset by the last NACK
  unserved,   \* history: PDUs deleted for lack of an empty process
  aborted,    \* history: PDUs whose buffer a handover deleted
  handovers,
  err

tti     == <<selected, granted, flushing>>
history == <<delivered, twice, acked, failed, unserved, aborted>>
vars == <<tx, rx, selected, needRtx, granted, flushing, data, feedback,
          nextPdu, delivered, twice, acked, failed, unserved, aborted,
          handovers, err>>

TxReset == [status |-> "EMPTY", pdu |-> None, transmissions |-> 0]
RxReset == [status |-> "EMPTY", pdu |-> None, ok |-> FALSE, transmissions |-> 0]

Init ==
  /\ tx = [p \in Proc |-> TxReset] /\ rx = [p \in Proc |-> RxReset]
  /\ selected = [u \in Ue |-> None] /\ needRtx = 0
  /\ granted = {} /\ flushing = FALSE
  /\ data = {} /\ feedback = {} /\ nextPdu = 0
  /\ delivered = {} /\ twice = {} /\ acked = {} /\ failed = {}
  /\ unserved = {} /\ aborted = {} /\ handovers = 0 /\ err = "none"

\* An exception ends the simulation.
Running == err = "none"
Fail(e) ==
  /\ err' = e
  /\ UNCHANGED <<tx, rx, tti, needRtx, data, feedback, nextPdu, history, handovers>>
-----------------------------------------------------------------------------
(* The gNB's TTI                                                           *)

\* The processes rtxschedule may serve: BUFFERED units, one of a UE.
Ready == {p \in Proc : tx[p].status = "BUFFERED"}
RtxChoices ==
  {S \in SUBSET Ready : \A p, q \in S : p[1] = q[1] => p = q}

\* scheduleRetransmissions does not look for processes when none is counted.
Retransmissions == IF needRtx = 0 THEN {{}} ELSE RtxChoices

\* A UE that retransmits is granted no new data in the same TTI.
Eligible(R) == Ue \ {p[1] : p \in R}

Schedule(R, G) ==
  /\ Running /\ ~flushing
  /\ R \in Retransmissions /\ G \subseteq Eligible(R)
  /\ tx' = [p \in Proc |-> IF p \in R THEN [tx[p] EXCEPT !.status = "SELECTED"]
                           ELSE tx[p]]
  /\ selected' = [u \in Ue |-> IF \E a \in Acid : <<u, a>> \in R
                               THEN CHOOSE a \in Acid : <<u, a>> \in R
                               ELSE selected[u]]
  /\ needRtx' = needRtx - Cardinality(R)
  /\ granted' = G /\ flushing' = TRUE
  /\ UNCHANGED <<rx, data, feedback, nextPdu, history, handovers, err>>

Empty(u) == {a \in Acid : tx[<<u, a>>].status = "EMPTY"}
\* Mutant: a process that waits to retransmit counts as available.
NotInUse(u) == {a \in Acid : tx[<<u, a>>].status \in {"EMPTY", "BUFFERED"}}
Available(u) == Empty(u)

FirstAvailable(u) ==
  IF selected[u] # None THEN selected[u]
  ELSE IF Available(u) = {} THEN None
  ELSE CHOOSE a \in Available(u) : \A b \in Available(u) : a <= b

\* RLC returns the SDU of a granted UE; the PDU built from it takes a process
\* or is deleted.  (RLC may also return nothing: the grant lapses in Flush.)
MacPduMake(u) ==
  /\ Running /\ flushing /\ u \in granted /\ nextPdu < MaxPdus
  /\ LET a == FirstAvailable(u) IN
     IF a # None /\ tx[<<u, a>>].status # "EMPTY"
     THEN Fail("insertPdu: unit is not empty")
     ELSE
       /\ granted' = granted \ {u} /\ nextPdu' = nextPdu + 1
       /\ IF a = None
          THEN /\ unserved' = unserved \cup {nextPdu}
               /\ UNCHANGED <<tx, selected>>
          ELSE /\ tx' = [tx EXCEPT ![<<u, a>>] = [status |-> "SELECTED",
                                     pdu |-> nextPdu, transmissions |-> 0]]
               /\ selected' = [selected EXCEPT ![u] = a]
               /\ UNCHANGED unserved
       /\ UNCHANGED <<rx, needRtx, flushing, data, feedback, delivered, twice,
                      acked, failed, aborted, handovers, err>>

\* sendSelectedDown of every UE.
Sent == {p \in Proc : p[2] = selected[p[1]] /\ tx[p].status = "SELECTED"}
ExtractPdu(t) == [t EXCEPT !.status = "WAITING", !.transmissions = @ + 1]

Flush ==
  /\ Running /\ flushing
  /\ tx' = [p \in Proc |-> IF p \in Sent THEN ExtractPdu(tx[p]) ELSE tx[p]]
  /\ data' = data \cup
       {[proc |-> p, pdu |-> tx[p].pdu, txNumber |-> tx[p].transmissions + 1] : p \in Sent}
  /\ selected' = [u \in Ue |-> None]
  /\ granted' = {} /\ flushing' = FALSE
  /\ UNCHANGED <<rx, needRtx, feedback, nextPdu, history, handovers, err>>
-----------------------------------------------------------------------------
(* The UE                                                                  *)

Ndi(f) == f.txNumber = 1

ReceiveData(f, ok) ==
  /\ Running /\ f \in data
  /\ IF Ndi(f) /\ rx[f.proc].status # "EMPTY"
     THEN Fail("insertPdu: new data in a busy process")
     ELSE IF rx[f.proc].status \notin {"EMPTY", "CORRUPTED"}
     THEN Fail("insertPdu: process is not empty")
     ELSE
       /\ rx' = [rx EXCEPT ![f.proc] =
                   [status |-> "EVALUATING", pdu |-> f.pdu, ok |-> ok,
                    transmissions |-> rx[f.proc].transmissions + 1]]
       /\ data' = data \ {f}
       /\ UNCHANGED <<tx, tti, needRtx, feedback, nextPdu, history, handovers, err>>

\* createFeedback of a PDU whose evaluation time is over.
\* Mutant: the process of a PDU that was given up is not reset.
KeepCorrupted(r) == [r EXCEPT !.status = "CORRUPTED"]
Corrupted(r) ==
  IF r.transmissions = MaxHarqRtx + 1 THEN RxReset ELSE [r EXCEPT !.status = "CORRUPTED"]

Extracted(r) == RxReset

\* A main loop of the UE: feedback, and extraction of a correct PDU.
ExtractCorrectPdus(p) ==
  /\ Running /\ rx[p].status = "EVALUATING"
  /\ feedback' = feedback \cup {[proc |-> p, pdu |-> rx[p].pdu, ack |-> rx[p].ok]}
  /\ IF rx[p].ok
     THEN /\ rx' = [rx EXCEPT ![p] = Extracted(rx[p])]
          /\ delivered' = delivered \cup {rx[p].pdu}
          /\ twice' = twice \cup ({rx[p].pdu} \cap delivered)
     ELSE /\ rx' = [rx EXCEPT ![p] = Corrupted(rx[p])]
          /\ UNCHANGED <<delivered, twice>>
  /\ UNCHANGED <<tx, tti, needRtx, data, nextPdu, acked, failed, unserved,
                 aborted, handovers, err>>
-----------------------------------------------------------------------------
(* Feedback at the gNB                                                     *)

LastAttempt(t) == t.transmissions = MaxHarqRtx + 1

\* Mutant: the limit is looked at before the result.
LimitFirst(t, ack) == LastAttempt(t)
GivesUp(t, ack) == ~ack /\ LastAttempt(t)

\* Mutant: pduFeedback does not tell the MAC that a unit is ready.
Unsignalled == needRtx
SignalProcessForRtx == needRtx + 1

PduFeedback(p, ack) ==
  CASE GivesUp(tx[p], ack) ->
         /\ tx' = [tx EXCEPT ![p] = TxReset]
         /\ failed' = failed \cup {tx[p].pdu} /\ UNCHANGED <<acked, needRtx>>
    [] ~ack /\ ~GivesUp(tx[p], ack) ->
         /\ tx' = [tx EXCEPT ![p].status = "BUFFERED"]
         /\ needRtx' = SignalProcessForRtx /\ UNCHANGED <<acked, failed>>
    [] OTHER ->
         /\ tx' = [tx EXCEPT ![p] = TxReset]
         /\ acked' = acked \cup {tx[p].pdu} /\ UNCHANGED <<failed, needRtx>>

ReceiveHarqFeedback(fb) ==
  /\ Running /\ fb \in feedback
  /\ IF fb.pdu # tx[fb.proc].pdu
     THEN Fail("receiveHarqFeedback: feedback of another PDU")
     ELSE IF tx[fb.proc].status # "WAITING"
     THEN Fail("pduFeedback: unit does not wait for feedback")
     ELSE
       /\ PduFeedback(fb.proc, fb.ack)
       /\ feedback' = feedback \ {fb}
       /\ UNCHANGED <<rx, tti, data, nextPdu, delivered, twice, unserved, aborted,
                      handovers, err>>
-----------------------------------------------------------------------------
(* Handover                                                                *)

InUse(u) == {p \in {u} \X Acid : tx[p].status # "EMPTY"}

\* Mutant: the PHY accepts frames that were in the air.
KeptFrames(F, u) == F
OtherFrames(F, u) == {f \in F : f.proc[1] # u}

\* Mutant: the counter is cleared with the buffers, for every UE.
Cleared(u) == 0
AfterHandover(u) == needRtx

\* doHandover deletes the buffers of both sides and changes the serving node,
\* after which both PHYs drop what was in the air.  The counter needRtx is
\* not told.  handoverTrigger_ is scheduled long before a TTI's messages, so
\* it never comes between a main loop and its flush.
Handover(u) ==
  /\ Running /\ ~flushing /\ handovers < MaxHandovers
  /\ tx' = [p \in Proc |-> IF p[1] = u THEN TxReset ELSE tx[p]]
  /\ rx' = [p \in Proc |-> IF p[1] = u THEN RxReset ELSE rx[p]]
  /\ data' = OtherFrames(data, u) /\ feedback' = OtherFrames(feedback, u)
  /\ aborted' = aborted \cup {tx[p].pdu : p \in InUse(u)}
  /\ handovers' = handovers + 1
  /\ needRtx' = AfterHandover(u)
  /\ UNCHANGED <<tti, nextPdu, delivered, twice, acked, failed, unserved, err>>
-----------------------------------------------------------------------------
Tti ==
  \/ \E R \in SUBSET Ready, G \in SUBSET Ue : Schedule(R, G)
  \/ \E u \in Ue : MacPduMake(u)
  \/ Flush

Next ==
  \/ Tti
  \/ \E f \in data, ok \in BOOLEAN : ReceiveData(f, ok)
  \/ \E p \in Proc : ExtractCorrectPdus(p)
  \/ \E fb \in feedback : ReceiveHarqFeedback(fb)
  \/ \E u \in Ue : Handover(u)

Spec == Init /\ [][Next]_vars

\* Frames take a TTI and main loops are periodic (LteMacBase schedules the
\* next tick before it handles one), so all of these happen.  That a process
\* that waits to retransmit is served again and again is an assumption on the
\* air: rtxschedule serves it when its PDU fits in the blocks of a TTI.
Fairness ==
  /\ WF_vars(Flush)
  /\ \A p \in Proc :
       /\ WF_vars(\E f \in data, ok \in BOOLEAN : f.proc = p /\ ReceiveData(f, ok))
       /\ WF_vars(ExtractCorrectPdus(p))
       /\ WF_vars(\E fb \in feedback : fb.proc = p /\ ReceiveHarqFeedback(fb))
       /\ SF_vars(\E R \in SUBSET Ready, G \in SUBSET Ue : p \in R /\ Schedule(R, G))

FairSpec == Spec /\ Fairness
-----------------------------------------------------------------------------
PduId == 0 .. nextPdu - 1

TxUnit == [status : {"EMPTY", "SELECTED", "WAITING", "BUFFERED"},
           pdu : PduId \cup {None}, transmissions : 0 .. MaxHarqRtx + 1]
RxProcess == [status : {"EMPTY", "EVALUATING", "CORRUPTED"},
              pdu : PduId \cup {None}, ok : BOOLEAN, transmissions : 0 .. MaxHarqRtx + 1]
DataFrame == [proc : Proc, pdu : PduId, txNumber : 1 .. MaxHarqRtx + 1]
Feedback  == [proc : Proc, pdu : PduId, ack : BOOLEAN]

\* The shape of the state, and the range of the PDU numbers.
TypeOK ==
  /\ nextPdu \in 0 .. MaxPdus /\ needRtx \in Nat /\ handovers \in Nat
  /\ tx \in [Proc -> TxUnit] /\ rx \in [Proc -> RxProcess]
  /\ selected \in [Ue -> Acid \cup {None}]
  /\ granted \subseteq Ue /\ flushing \in BOOLEAN
  /\ data \subseteq DataFrame /\ feedback \subseteq Feedback
  /\ \A S \in {delivered, twice, acked, failed, unserved, aborted} : S \subseteq PduId

\* No exception of the H-ARQ classes is thrown: new data never finds a busy
\* process, feedback always finds the unit that waits for it.
NoError == err = "none"

\* Both ends count the same attempts: a unit that is free has a free process at
\* the UE and nothing in the air, and one that waits to retransmit has a
\* corrupted PDU at the UE with as many attempts.  The two limits on the number
\* of attempts (LteHarqUnitTx, LteHarqProcessRx) therefore expire together.
EndsAgree ==
  \A p \in Proc :
    /\ tx[p].status = "EMPTY" =>
         rx[p].status = "EMPTY" /\ \A f \in data \cup feedback : f.proc # p
    /\ tx[p].status = "BUFFERED" =>
         /\ rx[p].status = "CORRUPTED" /\ rx[p].pdu = tx[p].pdu
         /\ rx[p].transmissions = tx[p].transmissions

\* No process is lost: for a unit that waits there is exactly one of a frame in
\* the air, a PDU in evaluation and a feedback in the air, with its PDU.
WaitsForSomething ==
  \A p \in Proc : tx[p].status = "WAITING" =>
    LET D == {f \in data : f.proc = p}
        F == {fb \in feedback : fb.proc = p}
        E == {q \in {p} : rx[q].status = "EVALUATING"}
    IN /\ Cardinality(D) + Cardinality(F) + Cardinality(E) = 1
       /\ \A f \in D \cup F : f.pdu = tx[p].pdu
       /\ \A q \in E : rx[q].pdu = tx[p].pdu

\* The counter that lets scheduleRetransmissions skip its search never hides a
\* unit that waits to retransmit.
RtxCounted == needRtx >= Cardinality(Ready)

\* What the gNB believes of a PDU is what happened to it, and no PDU is handed
\* up twice, in spite of retransmissions and handovers.
OutcomesTrue == acked \subseteq delivered /\ failed \cap delivered = {} /\ twice = {}

\* The scheduler "checks HARQ descriptors" before it grants: no PDU is built
\* that has no process to go to.
NoPduUnserved == unserved = {}

\* Every PDU is settled: its process becomes free again.
EventuallySettled ==
  \A m \in 0 .. MaxPdus - 1 :
    m < nextPdu ~> m \in acked \cup failed \cup unserved \cup aborted
-----------------------------------------------------------------------------
(* What H-ARQ promises, see HarqService.                                   *)
PduStatus(m) ==
  IF m >= nextPdu THEN "unbuilt"
  ELSE IF m \in acked THEN "acked"
  ELSE IF m \in failed THEN "failed"
  ELSE IF m \in unserved \cup aborted THEN "dropped" ELSE "pending"
Service == INSTANCE HarqService WITH
             Pdu      <- 0 .. MaxPdus - 1,
             status   <- [m \in 0 .. MaxPdus - 1 |-> PduStatus(m)],
             handedUp <- delivered
ServiceSpec == Service!Spec
=============================================================================
