----------------------------- MODULE AmRxQueue -----------------------------
(***************************************************************************)
(* The receiving entity of RLC AM (stack/rlc/am/AmRxQueue.cc), written as  *)
(* AmTxQueue is: a record r, an operator for each function of the class.   *)
(*                                                                         *)
(* pduBuffer_ is the set r.pduBuffer of the sequence numbers it holds, the *)
(* buffered PDU s being at position s - firstSeqNum.  received_ is kept as *)
(* the set of POSITIONS that are marked, because the code moves the marks  *)
(* and the PDUs by different rules.  h gives the header of a PDU.  A call  *)
(* of sendStatusReport is prohibited for ackReportInterval after a report; *)
(* whether it is, is the argument "allowed".                               *)
(***************************************************************************)
EXTENDS Integers, FiniteSets, FiniteSetsExt

CONSTANT RxWindowSize   \* rxWindowSize

ASSUME RxAssumption == RxWindowSize \in Nat \ {0}

NoSdu == -1

RxStart ==
  [ firstSeqNum |-> 0,      \* rxWindowDesc_.firstSeqNum_
    seqNum      |-> 0,      \* rxWindowDesc_.seqNum_: the next PDU expected
    pduBuffer   |-> {},     \* pduBuffer_, by sequence number
    received    |-> {},     \* received_, by position
    pending     |-> {},     \* pendingPduBuffer_
    firstSdu    |-> 0,      \* firstSdu_
    timer       |-> FALSE,  \* timer_ is running
    ackInfo     |-> FALSE,  \* ackFlowControlInfo_ is set
    accepted    |-> {},     \* history: the PDUs that were ever buffered
    passedUp    |-> {},     \* history: SDUs given to PDCP
    badSdu      |-> {},     \* history: SDUs given to PDCP twice or damaged
    out         |-> {},     \* control PDUs given to the local AmTxQueue
    err         |-> "none" ]

RxFail(r, e) == [r EXCEPT !.err = IF @ = "none" THEN e ELSE @]
\* Mutant: the beginning of the window is not looked at.
MarkedLater(r, sn) == sn - r.firstSeqNum \in r.received \ {0}
Marked(r, sn) == sn - r.firstSeqNum \in r.received
IsFirst(h, sn) == h[sn].firstSn = sn
IsLast(h, sn)  == h[sn].lastSn = sn
-----------------------------------------------------------------------------
(* Status reports                                                          *)

\* Positions marked without a hole from the beginning of the window.
Cumulative(r) ==
  CHOOSE c \in 0 .. RxWindowSize :
    0 .. c - 1 \subseteq r.received /\ (c < RxWindowSize => c \notin r.received)

\* Mutant: the cumulative acknowledgement names the first missing PDU.
ReportMissing(r, allowed) ==
  IF ~allowed THEN r
  ELSE [r EXCEPT !.out = @ \cup
         {[type |-> "ACK", lastSn |-> r.firstSeqNum + Cumulative(r), bitmap |-> {}]}]

SendStatusReport(r, allowed) ==
  IF ~allowed THEN r
  ELSE [r EXCEPT !.out = @ \cup
         {[type   |-> "ACK",
           lastSn |-> r.firstSeqNum + Cumulative(r) - 1,
           bitmap |-> {r.firstSeqNum + i : i \in {j \in r.received : j > Cumulative(r)}}]}]

\* The report timer: report, and run again while a PDU is buffered.
RxTimerHandle(r, allowed) ==
  [SendStatusReport(r, allowed) EXCEPT !.timer = r.pduBuffer # {}]
-----------------------------------------------------------------------------
(* Reassembly                                                              *)

\* Give to PDCP the SDU whose fragments are the PDUs S.
Deliver(r, h, sdu, S) ==
  [r EXCEPT !.passedUp = @ \cup {sdu},
            !.badSdu   = IF sdu \in r.passedUp \/ \E s \in S : S # h[s].firstSn .. h[s].lastSn
                         THEN @ \cup {sdu} ELSE @]

\* Pass up the SDU whose first fragment in the window is sn.  Fragments that
\* left the window are waiting in pendingPduBuffer_, which is used only when
\* the fragment at the beginning of the window is not the first of its SDU.
PassUp(r, h, sn, allowed) ==
  LET sdu   == h[sn].sdu
      moved == sn = r.firstSeqNum /\ ~IsFirst(h, sn)
      S     == (IF moved THEN r.pending ELSE {}) \cup (sn .. h[sn].lastSn)
  IN IF moved /\ \E p \in r.pending : h[p].sdu # sdu
     THEN RxFail(r, "passUp: pending PDUs of another SDU")
     ELSE IF Cardinality(S) < h[sn].lastSn - h[sn].firstSn + 1
     THEN RxFail(r, "passUp: missing fragments")
     ELSE SendStatusReport(
            Deliver([r EXCEPT !.pending = IF moved THEN {} ELSE @], h, sdu, S), allowed)

\* The positions of S that a search visits from sn on, up to the first
\* position that is not marked.
Visited(r, sn, S) ==
  {s \in S : \A q \in S : (s <= q /\ q < sn) \/ (sn < q /\ q <= s) => Marked(r, q)}

\* PDU sn has just been buffered.  The searches visit marked positions and
\* dereference what is buffered there.
CheckCompleteSdu(r0, h, sn, allowed) ==
  LET r      == [r0 EXCEPT !.firstSdu = IF @ = NoSdu THEN h[sn].sdu ELSE @]
      before == (IF h[sn].firstSn > r.firstSeqNum THEN h[sn].firstSn ELSE r.firstSeqNum) .. sn - 1
      after  == sn + 1 .. h[sn].lastSn
      begin  == sn = r.firstSeqNum    \* predecessors, if any, left the window
      start  == IF before = {} THEN sn ELSE h[sn].firstSn
  IN IF begin /\ ~IsFirst(h, sn) /\ r.firstSdu # h[sn].sdu
     THEN RxFail(r, "checkCompleteSdu: first SDU error")
     ELSE IF ~(Visited(r, sn, before) \subseteq r.pduBuffer)
     THEN RxFail(r, "checkCompleteSdu: marked position is empty")
     ELSE IF \/ Visited(r, sn, before) # before
             \/ ~begin /\ h[sn].firstSn < r.firstSeqNum   \* no first fragment found
     THEN r
     ELSE IF ~(Visited(r, sn, after) \subseteq r.pduBuffer)
     THEN RxFail(r, "checkCompleteSdu: marked position is empty")
     ELSE IF Visited(r, sn, after) # after THEN r
     ELSE PassUp(r, h, start, allowed)
-----------------------------------------------------------------------------
(* PDUs from the peer                                                      *)

\* A DATA PDU.  A report that the gap triggers describes the window before
\* the PDU is buffered, and prohibits the one that passUp would send.
EnqueData(r0, h, sn, allowed) ==
  LET idx == sn - r0.firstSeqNum
      gap == sn # r0.seqNum
      r1  == [r0 EXCEPT !.timer = TRUE, !.ackInfo = TRUE]
      r2  == SendStatusReport([r1 EXCEPT !.seqNum = sn + 1], gap /\ allowed)
  IN IF idx < 0 THEN r1
     ELSE IF idx >= RxWindowSize THEN RxFail(r1, "enque: out of window")
     ELSE IF idx \notin r0.received
     THEN CheckCompleteSdu([r2 EXCEPT !.pduBuffer = @ \cup {sn},
                                      !.received  = @ \cup {idx},
                                      !.accepted  = @ \cup {sn}], h, sn, allowed /\ ~gap)
     ELSE IF sn \notin r0.pduBuffer THEN RxFail(r2, "enque: marked position is empty")
     ELSE r2

\* Mutants: marks are not cleared behind the copy, or are all cleared.
KeptMarks(r, pos)    == r.received \cup {i - pos : i \in {j \in r.received : j >= pos}}
ClearedMarks(r, pos) == {}

\* received_ is shifted by copying every position i >= pos to i - pos and
\* clearing i: a position below pos that nothing is copied to keeps its mark.
ShiftedMarks(r, pos) ==
  {i - pos : i \in {j \in r.received : j >= pos}}
    \cup {j \in r.received : j < pos /\ j >= RxWindowSize - pos}

\* Mutant: the window start is moved one PDU too far.
MoveRxWindowBeyond(r, h, sn) ==
  IF sn <= r.firstSeqNum THEN r
  ELSE [r EXCEPT !.firstSeqNum = sn + 1,
                 !.pduBuffer   = {s \in @ : s > sn},
                 !.received    = ShiftedMarks(r, sn + 1 - r.firstSeqNum)]

\* PDUs that leave the window wait in pendingPduBuffer_ until the last PDU of
\* their SDU leaves it.
MoveRxWindow(r, h, sn) ==
  LET pos    == sn - r.firstSeqNum
      leave  == {s \in r.pduBuffer : s < sn}
      closed == {s \in leave : IsLast(h, s)}
      open   == {s \in leave : \A c \in closed : c < s}
  IN IF pos <= 0 THEN r
     ELSE IF pos > RxWindowSize THEN RxFail(r, "moveRxWindow: out of window")
     ELSE [r EXCEPT !.firstSeqNum = sn,
                    !.pduBuffer   = @ \ leave,
                    !.received    = ShiftedMarks(r, pos),
                    !.pending     = IF closed = {} THEN @ \cup open ELSE open,
                    !.firstSdu    = IF sn - 1 \in open THEN h[sn - 1].sdu ELSE NoSdu]

\* The acknowledgement copies *ackFlowControlInfo_, which only a DATA PDU sets.
EnqueMrw(r0, h, p) ==
  LET r == MoveRxWindow(r0, h, p.lastSn)
  IN IF ~r.ackInfo THEN RxFail(r, "enque: null ackFlowControlInfo_")
     ELSE [r EXCEPT !.out = @ \cup
            {[type |-> "MRW_ACK", mrw |-> p.mrw, firstSn |-> r.firstSeqNum]}]

EnquePdu(r, h, p, allowed) ==
  IF p.type = "DATA" THEN EnqueData(r, h, p.sn, allowed) ELSE EnqueMrw(r, h, p)
=============================================================================
