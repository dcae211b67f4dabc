------------------------------- MODULE RlcAm -------------------------------
(***************************************************************************)
(* One direction of an RLC AM bearer: an AmTxQueue, the AmRxQueue of the   *)
(* peer, and what lies between them.                                       *)
(*                                                                         *)
(* toRx and toTx are the bags of PDUs that were given to pduBuffer_ and    *)
(* have not been received.  They stand for pduBuffer_ (whose head sendPdus *)
(* gives to the MAC when the MAC asks for enough bytes), the H-ARQ         *)
(* processes and the air: a PDU may be lost when its H-ARQ process gives   *)
(* up, and PDUs of different processes overtake each other; nothing        *)
(* duplicates one.                                                         *)
(***************************************************************************)
EXTENDS AmTxQueue, AmRxQueue, Bags

CONSTANTS
  SduSizes,   \* fragments of the SDUs that PDCP sends
  MaxSdus,    \* bound: SDUs sent
  MaxLoad,    \* bound: PDUs in the window after an SDU was accepted
  MaxLoss,    \* bound: PDUs lost
  MaxMrw,     \* bound: MRW commands created
  MaxReports, \* bound: status reports in flight
  MaxInFlight \* bound: PDUs in flight when a timer expires; with 0, timers are
              \* much longer than the time a PDU spends in flight

ASSUME RlcAmAssumption ==
  /\ SduSizes \subseteq Nat \ {0}
  /\ MaxSdus \in Nat /\ MaxLoad \in Nat /\ MaxLoss \in Nat /\ MaxMrw \in Nat
  /\ MaxReports \in Nat /\ MaxInFlight \in Nat
  /\ TxWindowSize <= RxWindowSize

VARIABLES
  rx,      \* the receiving entity
  toRx,    \* bag of DATA and MRW PDUs
  toTx,    \* bag of ACK and MRW_ACK PDUs
  losses   \* PDUs lost so far

vars == <<tx, rx, toRx, toTx, losses>>

Running == tx.err = "none" /\ rx.err = "none"

TimersMayFire == BagCardinality(toRx) + BagCardinality(toTx) <= MaxInFlight

\* The step of the transmitting (receiving) entity that ends in the record t (r).
TxStep(t) ==
  /\ Running /\ t.mrwSeqNum <= MaxMrw
  /\ TxBecomes(t)
  /\ toRx' = toRx (+) SetToBag(t.out)
RxStep(r) ==
  /\ Running
  /\ rx' = [r EXCEPT !.out = {}]
  /\ toTx' = toTx (+) SetToBag(r.out)
-----------------------------------------------------------------------------
Init ==
  /\ TxInit /\ rx = RxStart
  /\ toRx = EmptyBag /\ toTx = EmptyBag /\ losses = 0

SendSdu(n) ==
  /\ tx.nextSdu < MaxSdus
  /\ tx.seqNum + n <= tx.firstSeqNum + MaxLoad
  /\ TxStep(Enque(tx, n))
  /\ UNCHANGED <<rx, toTx, losses>>

PduTimer(sn) ==
  /\ TimersMayFire /\ TxStep(PduTimerHandle(tx, sn))
  /\ UNCHANGED <<rx, toTx, losses>>

MrwTimer(m) ==
  /\ TimersMayFire /\ TxStep(MrwTimerHandle(tx, m))
  /\ UNCHANGED <<rx, toTx, losses>>

BufferStatusTimer ==
  /\ TimersMayFire /\ tx.statusTimer /\ TxStep(BufferStatusTimerHandle(tx))
  /\ UNCHANGED <<rx, toTx, losses>>

\* A control PDU reaches the transmitting entity through its own AmRxQueue.
DeliverToTx(p) ==
  /\ Running /\ p \in BagToSet(toTx)
  /\ TxStep(HandleControlPacket(tx, p))
  /\ toTx' = toTx (-) SetToBag({p})
  /\ UNCHANGED <<rx, losses>>

DeliverToRx(p, allowed) ==
  /\ RxStep(EnquePdu(rx, tx.header, p, allowed))
  /\ BagCardinality(toTx') <= MaxReports
  /\ toRx' = toRx (-) SetToBag({p})
  /\ UNCHANGED <<tx, losses>>

\* With MaxInFlight = 0 the report interval has passed when the timer expires.
RxTimer(allowed) ==
  /\ TimersMayFire /\ rx.timer /\ (MaxInFlight = 0 => allowed)
  /\ RxStep(RxTimerHandle(rx, allowed))
  /\ BagCardinality(toTx') <= MaxReports
  /\ UNCHANGED <<tx, toRx, losses>>

Lose ==
  /\ Running /\ losses < MaxLoss /\ losses' = losses + 1
  /\ \/ \E p \in BagToSet(toRx) : toRx' = toRx (-) SetToBag({p}) /\ UNCHANGED toTx
     \/ \E p \in BagToSet(toTx) : toTx' = toTx (-) SetToBag({p}) /\ UNCHANGED toRx
  /\ UNCHANGED <<tx, rx>>

TxSteps ==
  \/ \E n \in SduSizes : SendSdu(n)
  \/ \E sn \in tx.pduTimer : PduTimer(sn)
  \/ \E m \in tx.mrwTimer : MrwTimer(m)
  \/ BufferStatusTimer
  \/ \E p \in BagToSet(toTx) : DeliverToTx(p)
RxSteps ==
  \/ \E p \in BagToSet(toRx), allowed \in BOOLEAN : DeliverToRx(p, allowed)
  \/ \E allowed \in BOOLEAN : RxTimer(allowed)

Next == TxSteps \/ RxSteps \/ Lose

Spec == Init /\ [][Next]_vars

\* Every event in the simulator's queue is executed: a PDU in flight is
\* received or lost, and a running timer expires.  Fairness of the timers is
\* strong because a PDU in flight only delays them (TimersMayFire).
Fairness ==
  /\ SF_vars(\E sn \in tx.pduTimer : PduTimer(sn))
  /\ SF_vars(\E m \in tx.mrwTimer : MrwTimer(m))
  /\ SF_vars(BufferStatusTimer)
  /\ SF_vars(\E allowed \in BOOLEAN : RxTimer(allowed))
  /\ WF_vars(\E p \in BagToSet(toTx) : DeliverToTx(p))
  /\ WF_vars(\E p \in BagToSet(toRx), allowed \in BOOLEAN : DeliverToRx(p, allowed))

FairSpec == Spec /\ Fairness
-----------------------------------------------------------------------------
InFlight == BagToSet(toRx) \cup BagToSet(toTx)

\* The shape of the state.
TypeOK ==
  /\ TxTypeOK
  /\ DOMAIN rx = DOMAIN RxStart /\ rx.out = {}
  /\ rx.firstSeqNum \in Nat /\ rx.seqNum \in Nat /\ rx.firstSdu \in Nat \cup {NoSdu}
  /\ rx.received \subseteq 0 .. RxWindowSize - 1
  /\ \A S \in {rx.pduBuffer, rx.pending, rx.accepted} : S \subseteq DOMAIN tx.header
  /\ IsABag(toRx) /\ IsABag(toTx) /\ losses \in 0 .. MaxLoss

\* The two windows never drift apart: the receiver is ahead of the sender by
\* at most what is outstanding, and every PDU in flight falls behind the
\* receiver's window or inside it.  A DATA PDU beyond it, an MRW that skips
\* more than a window or an acknowledgement beyond the sender's window ends
\* the simulation (enque, moveRxWindow, recvAck, recvCumulativeAck).
WindowsAligned ==
  /\ tx.firstSeqNum <= rx.firstSeqNum /\ rx.firstSeqNum <= tx.seqNum
  /\ \A p \in InFlight :
       CASE p.type = "DATA"    -> p.sn < rx.firstSeqNum + RxWindowSize
         [] p.type = "MRW"     -> p.lastSn <= rx.firstSeqNum + RxWindowSize
         [] p.type = "MRW_ACK" -> p.firstSn <= rx.firstSeqNum
         [] p.type = "ACK"     -> p.lastSn < tx.firstSeqNum + TxWindowSize

\* The sender takes a PDU as received only if the receiver buffered it or it
\* had been given up (the cumulative acknowledgement covers what an MRW command
\* skipped): a status report, however old, acknowledges nothing else.
AcksAreTrue == tx.received \subseteq rx.accepted \cup tx.discarded

\* ... and in particular only PDUs it has sent (the ASSERT of recvAck).
AckedPdusAreStored == tx.received \subseteq DOMAIN tx.rtxQueue

\* What a received_ mark stands for: position i is marked iff the PDU that
\* belongs there is buffered.
MarksMatchBuffer ==
  {rx.firstSeqNum + i : i \in rx.received} = rx.pduBuffer

\* An SDU all of whose PDUs were buffered has been passed up, whatever the
\* order of their arrival and of the window moves between them.
CompleteSduPassedUp ==
  \A s \in rx.accepted :
    tx.header[s].firstSn .. tx.header[s].lastSn \subseteq rx.accepted
      => rx.err # "none" \/ tx.header[s].sdu \in rx.passedUp

\* No SDU is passed up twice, in part, or with PDUs of another SDU, in spite
\* of retransmissions and of fragments that leave the window early.
PassedUpOnceAndIntact == rx.badSdu = {}

\* An SDU that PDCP handed over is not forgotten before its first transmission.
NoSduLost == tx.lost = {}

\* Every SDU is settled: the window closes and every command is acknowledged.
Settled ==
  /\ tx.firstSeqNum = tx.seqNum
  /\ tx.pduTimer = {} /\ tx.mrwTimer = {} /\ ~tx.statusTimer /\ ~rx.timer
EventuallySettled == <>[](Settled \/ ~Running)

\* Windows and MRW commands only move forward, and the sender does not move
\* past a PDU that it has neither seen acknowledged nor given up.
WindowMovesOverResolved ==
  [][/\ tx.firstSeqNum <= tx'.firstSeqNum /\ rx.firstSeqNum <= rx'.firstSeqNum
     /\ tx.firstSeqNum .. tx'.firstSeqNum - 1 \subseteq Resolved(tx)]_vars
-----------------------------------------------------------------------------
(* What the bearer promises, see AmService.                                *)
PdusOf(sdu) == {s \in DOMAIN tx.header : tx.header[s].sdu = sdu}
SduStatus(sdu) ==
  CASE sdu >= tx.nextSdu   -> "unsent"
    [] sdu \in tx.lost     -> "lost"
    [] sdu \in tx.givenUp  -> "givenUp"
    [] OTHER -> IF \A s \in PdusOf(sdu) : s < tx.firstSeqNum \/ s \in tx.received
                THEN "acked" ELSE "open"
Service == INSTANCE AmService WITH
             Sdu      <- 0 .. MaxSdus - 1,
             status   <- [s \in 0 .. MaxSdus - 1 |-> SduStatus(s)],
             passedUp <- rx.passedUp
ServiceSpec == Service!Spec
=============================================================================
