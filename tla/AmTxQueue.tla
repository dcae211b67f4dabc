----------------------------- MODULE AmTxQueue -----------------------------
(***************************************************************************)
(* The transmitting entity of RLC AM (stack/rlc/am/AmTxQueue.cc).          *)
(*                                                                         *)
(* The entity is a record t; each function of the class is an operator     *)
(* from the record before the call to the record after it, so that a       *)
(* handler that calls several of them is their composition.                *)
(*                                                                         *)
(* The per-position arrays of the code (pduRtxQueue_, received_,           *)
(* discarded_) are indexed here by sequence number, position i of the      *)
(* window being sequence number firstSeqNum + i.  A PDU is its sequence    *)
(* number: the header fields that fragmentFrame writes once and nobody     *)
(* changes are kept in t.header.  PDUs handed to pduBuffer_ during a call  *)
(* are collected in t.out; the module that composes the entities puts them *)
(* in the air.  A cRuntimeError, which ends the simulation, is a value of  *)
(* t.err.                                                                  *)
(***************************************************************************)
EXTENDS Integers, FiniteSets

CONSTANTS
  TxWindowSize,  \* txWindowSize: positions of the transmission window
  MaxRtx         \* maxRtx: retransmissions of a PDU before it is discarded

\* 200 is written in the code: fragmentFrame and addPdus throw beyond it.
ASSUME TxAssumption == TxWindowSize \in 1..200 /\ MaxRtx \in Nat

VARIABLE tx      \* the transmitting entity

Header == [sdu : Nat, firstSn : Nat, lastSn : Nat]

\* Control PDUs of the peer that AmRxQueue routes to this entity.
ControlPdu ==
  [type : {"ACK"}, lastSn : Int, bitmap : SUBSET Nat]
    \cup [type : {"MRW_ACK"}, mrw : Nat, firstSn : Nat]

DataPdu(sn, n) == [type |-> "DATA", sn |-> sn, txNumber |-> n]
MrwPdu(m, sn)  == [type |-> "MRW", mrw |-> m, lastSn |-> sn]

TxStart ==
  [ firstSeqNum |-> 0,          \* txWindowDesc_.firstSeqNum_
    seqNum      |-> 0,          \* txWindowDesc_.seqNum_
    header      |-> [s \in {} |-> 0],  \* header of every PDU built so far
    rtxQueue    |-> [s \in {} |-> 0],  \* pduRtxQueue_: txNumber of the stored copy
    received    |-> {},         \* received_
    discarded   |-> {},         \* discarded_
    pduTimer    |-> {},         \* events of pduTimer_
    mrwSeqNum   |-> 0,          \* mrwDesc_.mrwSeqNum_ (lastMrw_ is one less)
    mrwRtxQueue |-> [m \in {} |-> 0],  \* mrwRtxQueue_: lastSn of the stored command
    mrwTimer    |-> {},         \* events of mrwTimer_
    statusTimer |-> FALSE,      \* bufferStatusTimer_.busy()
    nextSdu     |-> 0,          \* PDCP sequence number of the next SDU
    backlog     |-> 0,          \* SDUs that wait in sduQueue_ between events
    lost        |-> {},         \* history: SDUs that addPdus popped and did not send
    givenUp     |-> {},         \* history: SDUs that were discarded
    out         |-> {},         \* PDUs given to pduBuffer_ in this call
    err         |-> "none" ]

\* An exception: what the handler would do next no longer matters.
Fail(t, e) == [t EXCEPT !.err = IF @ = "none" THEN e ELSE @]
Outstanding(t) == t.firstSeqNum .. t.seqNum - 1
Resolved(t) == t.received \cup t.discarded
PduFailed(t, sn) == t.rtxQueue[sn] + 1 > MaxRtx
-----------------------------------------------------------------------------
(* Sending SDUs                                                            *)

WindowOpen(t) == t.seqNum - t.firstSeqNum < TxWindowSize
\* Mutant: the last position of the window is used too.
FitsExactly(t, n) == t.seqNum + n <= t.firstSeqNum + TxWindowSize
Fits(t, n) == t.seqNum + n < t.firstSeqNum + TxWindowSize

\* The fragments of one SDU, with the checks addPdus makes at each position.
AddFragments(t, n) ==
  LET new == t.seqNum .. t.seqNum + n - 1
      h   == [sdu |-> t.nextSdu, firstSn |-> t.seqNum, lastSn |-> t.seqNum + n - 1]
  IN IF new \cap DOMAIN t.rtxQueue # {} THEN Fail(t, "addPdus: busy position")
     ELSE IF new \cap Resolved(t) # {} THEN Fail(t, "addPdus: marked position")
     ELSE [t EXCEPT
            !.header      = [s \in DOMAIN t.header \cup new |->
                               IF s \in new THEN h ELSE t.header[s]],
            !.rtxQueue    = [s \in DOMAIN t.rtxQueue \cup new |->
                               IF s \in new THEN 0 ELSE t.rtxQueue[s]],
            !.pduTimer    = @ \cup new,
            !.seqNum      = @ + n,
            !.nextSdu     = @ + 1,
            !.statusTimer = TRUE,
            !.out         = @ \cup {DataPdu(s, 0) : s \in new}]

\* An iteration of addPdus on the SDU at the head of sduQueue_.  An SDU whose
\* n fragments do not fit has already been popped, and no one keeps it.
AddPdus(t, n) ==
  IF Fits(t, n) THEN AddFragments(t, n)
  ELSE [t EXCEPT !.nextSdu = @ + 1, !.lost = @ \cup {t.nextSdu}]

\* An SDU of n fragments arrives.  The other branch would leave it in
\* sduQueue_; that it is never taken is part of TxInv below, which is why
\* moveTxWindow has no queued SDU to hand to addPdus.
Enque(t, n) ==
  IF WindowOpen(t) THEN AddPdus(t, n)
  ELSE [t EXCEPT !.nextSdu = @ + 1, !.backlog = @ + 1]
-----------------------------------------------------------------------------
(* Moving the window                                                       *)

SendMrw(t, sn) ==
  [t EXCEPT !.mrwRtxQueue = [m \in DOMAIN t.mrwRtxQueue \cup {t.mrwSeqNum} |->
                               IF m = t.mrwSeqNum THEN sn ELSE t.mrwRtxQueue[m]],
            !.mrwTimer    = @ \cup {t.mrwSeqNum},
            !.mrwSeqNum   = @ + 1,
            !.out         = @ \cup {MrwPdu(t.mrwSeqNum, sn)}]

\* Mutant: the command skips PDUs that are still unresolved.
AllSent(t) == t.seqNum

\* The first outstanding PDU neither received nor discarded (seqNum if none).
FirstUnresolved(t) ==
  CHOOSE s \in t.firstSeqNum .. t.seqNum :
    /\ s \in Outstanding(t) => s \notin Resolved(t)
    /\ t.firstSeqNum .. s - 1 \subseteq Resolved(t)

CheckForMrw(t) ==
  IF t.seqNum > t.firstSeqNum /\ t.firstSeqNum \in Resolved(t)
  THEN SendMrw(t, FirstUnresolved(t))
  ELSE t

\* The loops throw on an empty position before pos and up to the last
\* outstanding PDU, and on a busy one after it.
MoveTxWindow(t, sn) ==
  LET moved == t.firstSeqNum .. sn - 1
      kept  == sn .. t.seqNum - 1
  IN IF sn <= t.firstSeqNum THEN t
     ELSE IF ~(moved \cup kept \subseteq DOMAIN t.rtxQueue)
     THEN Fail(t, "moveTxWindow: empty position")
     ELSE IF DOMAIN t.rtxQueue \ (moved \cup kept) # {}
     THEN Fail(t, "moveTxWindow: busy position")
     ELSE [t EXCEPT !.firstSeqNum = sn,
                    !.rtxQueue    = [s \in kept |-> t.rtxQueue[s]],
                    !.pduTimer    = @ \ moved,
                    !.received    = @ \cap kept,
                    !.discarded   = @ \cap kept]

\* Mutant: the backward search is missing.
DiscardForward(t, sn) ==
  LET same == {s \in sn .. t.seqNum - 1 : t.header[s].sdu = t.header[sn].sdu}
  IN CheckForMrw([t EXCEPT !.discarded = @ \cup same, !.pduTimer = @ \ same,
                           !.givenUp = @ \cup {t.header[sn].sdu}])

\* Give up the SDU that PDU sn belongs to: every PDU of it in the window.
Discard(t, sn) ==
  LET same == {s \in Outstanding(t) : t.header[s].sdu = t.header[sn].sdu}
      stop == {s \in same : s <= sn \/ s \notin t.discarded}
  IN CheckForMrw([t EXCEPT !.discarded = @ \cup same,
                           !.pduTimer  = @ \ stop,
                           !.givenUp   = @ \cup {t.header[sn].sdu}])
-----------------------------------------------------------------------------
(* Control PDUs from the peer                                              *)

\* The code's own check lets sn = firstSeqNum + windowSize through, and
\* received_.at then throws.
RecvCumulativeAck(t, sn) ==
  IF sn < t.firstSeqNum THEN t
  ELSE IF sn >= t.firstSeqNum + TxWindowSize THEN Fail(t, "recvCumulativeAck: out of window")
  ELSE CheckForMrw([t EXCEPT
         !.pduTimer = @ \ {s \in t.firstSeqNum .. sn : s \notin t.received},
         !.received = @ \cup (t.firstSeqNum .. sn)])

\* Mutant: the timers of acknowledged PDUs keep running.
RecvAcksOnly(t, S) == [t EXCEPT !.received = @ \cup {s \in S : s >= t.firstSeqNum}]

\* recvAck for every set bit of the bitmap; positions behind the window are
\* ignored.  Its ASSERT, that the PDU is in pduRtxQueue_, is not recorded in err:
\* it is what AckedPdusAreStored in RlcAm says of the marks.
RecvAcks(t, S) ==
  LET new == {s \in S : s >= t.firstSeqNum}
  IN IF \E s \in new : s >= t.firstSeqNum + TxWindowSize
     THEN Fail(t, "recvAck: out of window")
     ELSE [t EXCEPT !.pduTimer = @ \ (new \ t.received), !.received = @ \cup new]

\* Mutant: the timer of an acknowledged command keeps running.
RecvMrwAckOnly(t, m) ==
  [t EXCEPT !.mrwRtxQueue = [k \in DOMAIN t.mrwRtxQueue \ {m} |-> t.mrwRtxQueue[k]]]

RecvMrwAck(t, m) ==
  [t EXCEPT !.mrwRtxQueue = [k \in DOMAIN t.mrwRtxQueue \ {m} |-> t.mrwRtxQueue[k]],
            !.mrwTimer    = @ \ {m}]

HandleControlPacket(t, p) ==
  IF p.type = "MRW_ACK"
  THEN RecvMrwAck(MoveTxWindow(t, p.firstSn), p.mrw)
  ELSE RecvAcks(RecvCumulativeAck(t, p.lastSn), p.bitmap)
-----------------------------------------------------------------------------
(* Timers                                                                  *)

PduTimerHandle(t0, sn) ==
  LET t == [t0 EXCEPT !.pduTimer = @ \ {sn}]
  IN IF sn < t.firstSeqNum \/ sn >= t.firstSeqNum + TxWindowSize
     THEN Fail(t, "pduTimerHandle: out of window")
     ELSE IF sn \notin DOMAIN t.rtxQueue THEN Fail(t, "pduTimerHandle: PDU not found")
     ELSE IF sn \in t.received THEN Fail(t, "pduTimerHandle: already received")
     ELSE IF PduFailed(t, sn) THEN Discard(t, sn)
     ELSE [t EXCEPT !.rtxQueue[sn] = @ + 1,
                    !.pduTimer     = @ \cup {sn},
                    !.out          = @ \cup {DataPdu(sn, t.rtxQueue[sn] + 1)}]

\* Mutant: an MRW command is sent only once.
MrwTimerOnce(t, m) ==
  [t EXCEPT !.mrwTimer    = @ \ {m},
            !.mrwRtxQueue = [k \in DOMAIN t.mrwRtxQueue \ {m} |-> t.mrwRtxQueue[k]]]

MrwTimerHandle(t0, m) ==
  LET t == [t0 EXCEPT !.mrwTimer = @ \ {m}]
  IN IF m \notin DOMAIN t.mrwRtxQueue THEN Fail(t, "mrwTimerHandle: MRW not found")
     ELSE IF m < t.mrwSeqNum - 1
     THEN [t EXCEPT !.mrwRtxQueue = [k \in DOMAIN t.mrwRtxQueue \ {m} |-> t.mrwRtxQueue[k]]]
     ELSE [t EXCEPT !.mrwTimer = @ \cup {m},
                    !.out      = @ \cup {MrwPdu(m, t.mrwRtxQueue[m])}]

BufferStatusTimerHandle(t) == [CheckForMrw(t) EXCEPT !.statusTimer = FALSE]
-----------------------------------------------------------------------------
(* The entity in an arbitrary environment: any SDU and any control PDU.    *)

\* The step that ends in the record t, whose PDUs have gone to the MAC.
TxBecomes(t) == tx.err = "none" /\ tx' = [t EXCEPT !.out = {}]

TxInit == tx = TxStart

TxNext ==
  \/ \E n \in Nat \ {0}   : TxBecomes(Enque(tx, n))
  \/ \E p \in ControlPdu  : TxBecomes(HandleControlPacket(tx, p))
  \/ \E sn \in tx.pduTimer : TxBecomes(PduTimerHandle(tx, sn))
  \/ \E m \in tx.mrwTimer : TxBecomes(MrwTimerHandle(tx, m))
  \/ tx.statusTimer /\ TxBecomes(BufferStatusTimerHandle(tx))

TxSpec == TxInit /\ [][TxNext]_tx
-----------------------------------------------------------------------------
TxErrors ==
  {"none", "addPdus: busy position", "addPdus: marked position",
   "moveTxWindow: empty position", "moveTxWindow: busy position",
   "recvCumulativeAck: out of window", "recvAck: out of window",
   "pduTimerHandle: out of window", "pduTimerHandle: PDU not found",
   "pduTimerHandle: already received", "mrwTimerHandle: MRW not found"}

\* The shape of the record.
TxTypeOK ==
  /\ DOMAIN tx = DOMAIN TxStart
  /\ tx.firstSeqNum \in Nat /\ tx.seqNum \in Nat /\ tx.mrwSeqNum \in Nat
  /\ tx.header \in [0 .. tx.seqNum - 1 -> Header]
  /\ tx.rtxQueue \in [DOMAIN tx.rtxQueue -> 0 .. MaxRtx]
  /\ tx.mrwRtxQueue \in [DOMAIN tx.mrwRtxQueue -> Nat]
  /\ \A S \in {tx.received, tx.discarded, tx.pduTimer, tx.mrwTimer,
               tx.lost, tx.givenUp} : S \subseteq Nat
  /\ tx.statusTimer \in BOOLEAN /\ tx.nextSdu \in Nat /\ tx.backlog \in Nat
  /\ tx.out = {} /\ tx.err \in TxErrors

\* The retransmission queue holds exactly the outstanding PDUs, and a PDU has
\* a running retransmission timer iff it is outstanding and nobody has
\* acknowledged it or given it up: no PDU is forgotten, no timer fires for a
\* PDU that is gone (the three cRuntimeErrors of pduTimerHandle).
TimersCoverUnresolved ==
  /\ DOMAIN tx.rtxQueue = Outstanding(tx)
  /\ tx.err = "none" => tx.pduTimer = Outstanding(tx) \ Resolved(tx)

\* addPdus requires a strict inequality, so the window always keeps a free
\* position and sduQueue_ is empty between events: whatever addPdus does not
\* send at once is not sent at all.
WindowNeverFull == tx.seqNum - tx.firstSeqNum < TxWindowSize /\ tx.backlog = 0

\* Giving up is per SDU: no SDU in the window is given up in part.
DiscardsWholeSdu ==
  \A s \in tx.discarded : \A r \in Outstanding(tx) :
    tx.header[r].sdu = tx.header[s].sdu => r \in tx.discarded

\* A stored MRW command has a running timer, and the newest one asks for the
\* largest window start: forgetting the older ones loses nothing.
MrwOrdered ==
  /\ tx.mrwTimer = DOMAIN tx.mrwRtxQueue
  /\ \A m, k \in DOMAIN tx.mrwRtxQueue :
       m <= k => tx.mrwRtxQueue[m] <= tx.mrwRtxQueue[k]

\* Whatever control PDUs arrive, these checks of the entity never fail.
InternalErrors ==
  {"addPdus: busy position", "moveTxWindow: busy position",
   "pduTimerHandle: out of window", "pduTimerHandle: PDU not found",
   "pduTimerHandle: already received", "mrwTimerHandle: MRW not found"}
NoInternalError == tx.err \notin InternalErrors
=============================================================================
