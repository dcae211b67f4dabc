------------------------------ MODULE UlAccess ------------------------------
(***************************************************************************)
(* How the data of a UE gets uplink resources: random access, the grant it  *)
(* wins, the buffer status report (BSR) sent in that grant, the grants that *)
(* the report brings and the H-ARQ retransmissions that compete for the     *)
(* same blocks (NrMacUe, LteMacUeD2D, LcgScheduler; LteMacEnb,              *)
(* LteSchedulerEnbUl, NrSchedulerGnbUl).  One carrier, one bearer per UE.   *)
(*                                                                         *)
(* Time advances in TTIs.  A frame stays in the air for one TTI and comes   *)
(* after the main loops of the TTI in which it arrives (airFramePriority_), *)
(* so a TTI is the loops of the UEs, the loop of the gNB and the arrival of *)
(* what was sent in the TTI before.  Within each part the nodes touch       *)
(* nothing of one another, hence one action for each part.                  *)
(***************************************************************************)
EXTENDS Integers, Sequences, FiniteSets, SequencesExt, FiniteSetsExt

CONSTANTS
  Ue,             \* node ids: the gNB goes through its maps in their order
  Bands,          \* bands of the carrier, one block each
  BytesPerBlock,  \* what a block carries at the UE's channel quality
  MinRacBytes,    \* minRacBytes
  NumProc,        \* harqProcesses
  MaxHarqRtx,     \* maxHarqRtx
  EvaluationTtis, \* harqFbEvaluationTimer
  RaRespWindow,   \* raResponseWindow
  RetxBsrTimer,   \* retxBsrTimer
  MaxRacTryouts,  \* maxRacAttempts
  Backoffs,       \* racBackoffMin .. racBackoffMax
  SduSizes,       \* lengths of the SDUs that arrive
  MaxSdus,        \* bound: SDUs
  MaxCollisions,  \* bound: TTIs with colliding preambles
  MaxLosses       \* bound: PDUs received with errors

ASSUME UlAccessAssumption ==
  /\ Ue \subseteq Nat /\ IsFiniteSet(Ue)
  /\ BytesPerBlock \in [Ue -> Nat \ {0}]
  /\ {Bands, MinRacBytes, NumProc, EvaluationTtis, MaxHarqRtx} \subseteq Nat \ {0}
  /\ {RaRespWindow, RetxBsrTimer, MaxRacTryouts} \subseteq Nat
  /\ Backoffs \subseteq Nat /\ SduSizes \subseteq Nat \ {0}
  /\ {MaxSdus, MaxCollisions, MaxLosses} \subseteq Nat

MacHeader == 2              \* MAC_HEADER
RlcHeader == 2              \* RLC_HEADER_UM
Acid == 0 .. NumProc - 1

VARIABLES
  ue,         \* the UE's MAC: virtual buffer, random access, BSR and grant
  tx,         \* the units of the UE's LteHarqBufferTx
  rx,         \* the processes of the gNB's LteHarqBufferRx
  racs,       \* pendingRacRequests_: the UEs whose RAC the gNB has
  bsr,        \* bsrbuf_: bytes each UE is known to have
  air,        \* frames that arrive in this TTI
  sent,       \* frames that were sent in this TTI
  part,       \* the part of the TTI that comes next
  sdus, collisions, losses    \* counters for the bounds

vars == <<ue, tx, rx, racs, bsr, air, sent, part, sdus, collisions, losses>>

UeReset == [vq |-> 0, racRequested |-> FALSE, raRespTimer |-> 0,
            backoff |-> 0, racTry |-> 0, bsrTriggered |-> FALSE,
            bsrRtxTimer |-> 0, grant |-> 0]
TxReset == [status |-> "EMPTY", len |-> 0, bsr |-> 0, transmissions |-> 0]
RxReset == [status |-> "EMPTY", len |-> 0, bsr |-> 0, ok |-> FALSE, age |-> 0]

Init ==
  /\ ue = [u \in Ue |-> UeReset]
  /\ tx = [u \in Ue |-> [a \in Acid |-> TxReset]]
  /\ rx = [u \in Ue |-> [a \in Acid |-> RxReset]]
  /\ racs = {} /\ bsr = [u \in Ue |-> 0]
  /\ air = {} /\ sent = {} /\ part = "ue"
  /\ sdus = 0 /\ collisions = 0 /\ losses = 0

\* RLC announces an SDU, at any time between two main loops.
NewData(u, size) ==
  /\ part = "ue" /\ sdus < MaxSdus /\ size \in SduSizes
  /\ ue' = [ue EXCEPT ![u].vq = @ + size]
  /\ sdus' = sdus + 1
  /\ UNCHANGED <<tx, rx, racs, bsr, air, sent, part, collisions, losses>>
-----------------------------------------------------------------------------
(* The main loop of a UE: what it is afterwards and what it sends           *)

\* Mutant: raRespTimer_ is not started with the request.
ForgetWindow(s) == [s EXCEPT !.racRequested = TRUE]
RequestRac(s) == [s EXCEPT !.racRequested = TRUE, !.raRespTimer = RaRespWindow]

SendsRac(s) ==
  /\ s.backoff = 0 /\ s.raRespTimer = 0 /\ s.bsrRtxTimer = 0
  /\ ~s.racRequested /\ s.vq > 0

\* Mutant: the loop after the response window leaves racRequested_ set.
NeverAgain(s) ==
  CASE s.backoff > 0     -> [s EXCEPT !.backoff = @ - 1]
    [] s.backoff = 0 /\ s.raRespTimer > 0
                         -> [s EXCEPT !.raRespTimer = @ - 1]
    [] SendsRac(s)       -> RequestRac(s)
    [] OTHER             -> s

CheckRac(s) ==
  CASE s.backoff > 0     -> [s EXCEPT !.backoff = @ - 1]
    [] s.backoff = 0 /\ s.raRespTimer > 0
                         -> [s EXCEPT !.raRespTimer = @ - 1]
    [] s.backoff = 0 /\ s.raRespTimer = 0 /\ s.bsrRtxTimer > 0
                         -> [s EXCEPT !.bsrRtxTimer = @ - 1]
    [] SendsRac(s)       -> RequestRac(s)
    [] OTHER             -> [s EXCEPT !.racRequested = FALSE]

Ready(h) == {a \in Acid : h[a].status = "READY"}
Empty(h) == {a \in Acid : h[a].status = "EMPTY"}

\* What LcgScheduler takes out of the virtual buffer for a grant.
Scheduled(s) ==
  IF s.grant > MacHeader + RlcHeader
  THEN Min({s.vq, s.grant - MacHeader - RlcHeader})
  ELSE 0

\* macPduMake with nothing scheduled: the BSR would report D2D flows only.
DropBsr(s) ==
  IF s.bsrTriggered THEN [s EXCEPT !.bsrTriggered = FALSE, !.bsrRtxTimer = 0] ELSE s

\* The size that a BSR made after scheduling n bytes reports.
Backlog(s, n) == IF s.vq > n THEN s.vq - n + RlcHeader ELSE 0

AfterPdu(s, n) ==
  LET reports == s.bsrTriggered /\ Backlog(s, n) > 0 IN
  [s EXCEPT !.vq = @ - n,
            !.bsrTriggered = @ /\ ~reports,
            !.bsrRtxTimer = IF reports THEN RetxBsrTimer ELSE 0]

MacPdu(s, n) ==
  [status |-> "WAITING", len |-> MacHeader + RlcHeader + n, transmissions |-> 1,
   bsr |-> IF s.bsrTriggered THEN Backlog(s, n) ELSE 0]

DataFrame(u, a, unit) ==
  [type |-> "data", ue |-> u, acid |-> a, len |-> unit.len, bsr |-> unit.bsr]

\* The unit that the UE transmits in its grant: one that waits for a
\* retransmission, or a new PDU in the first empty process; none if nothing is
\* scheduled or no process is empty (the PDU is then deleted).
Transmits(s, h) ==
  CASE s.grant > 0 /\ Ready(h) # {} ->
         LET a == Min(Ready(h)) IN
         {<<a, [h[a] EXCEPT !.status = "WAITING", !.transmissions = @ + 1]>>}
    [] s.grant > 0 /\ Ready(h) = {} /\ Scheduled(s) > 0 /\ Empty(h) # {} ->
         {<<Min(Empty(h)), MacPdu(s, Scheduled(s))>>}
    [] OTHER -> {}

UseGrant(s, h) ==
  LET t == IF Ready(h) # {} THEN s
           ELSE IF Scheduled(s) > 0 THEN AfterPdu(s, Scheduled(s))
           ELSE DropBsr(s)
  IN  [t EXCEPT !.grant = 0]      \* flushHarqBuffers deletes the grant

UeLoops ==
  /\ part = "ue"
  /\ ue' = [u \in Ue |-> IF ue[u].grant = 0 THEN CheckRac(ue[u])
                         ELSE UseGrant(ue[u], tx[u])]
  /\ tx' = [u \in Ue |-> [a \in Acid |->
             IF \E x \in Transmits(ue[u], tx[u]) : x[1] = a
             THEN (CHOOSE x \in Transmits(ue[u], tx[u]) : x[1] = a)[2]
             ELSE tx[u][a]]]
  /\ sent' = {[type |-> "rac", ue |-> u] :
                u \in {v \in Ue : ue[v].grant = 0 /\ SendsRac(ue[v])}}
             \cup UNION {{DataFrame(u, x[1], x[2]) : x \in Transmits(ue[u], tx[u])} :
                         u \in Ue}
  /\ part' = "gnb"
  /\ UNCHANGED <<rx, racs, bsr, air, sdus, collisions, losses>>
-----------------------------------------------------------------------------
(* The main loop of the gNB                                                 *)

\* Blocks go to one UE after the other, in an order given as a sequence.
Before(order, u) == {order[i] : i \in 1 .. (CHOOSE i \in DOMAIN order : order[i] = u) - 1}
Total(blocks, S) == FoldSet(LAMBDA u, n : n + blocks[u], 0, S)
BlocksFor(u, bytes) == (bytes + BytesPerBlock[u] - 1) \div BytesPerBlock[u]
NodeOrder == SetToSortSeq(Ue, <)

\* Each gets what it wants as far as blocks are free.
Shares(want, free, order) ==
  [u \in Ue |-> Min({want[u], Max({0, free - Total(want, Before(order, u))})})]

\* Each gets all that it wants or nothing.
Fitting(want, free, order) ==
  LET served == CHOOSE S \in SUBSET Ue : \A u \in Ue :
                  u \in S <=> want[u] + Total(want, S \cap Before(order, u)) <= free
  IN  [u \in Ue |-> IF u \in served THEN want[u] ELSE 0]

\* What racschedule, rtxschedule and scheduleGrant want for a UE: blocks up to
\* minRacBytes, the bytes of a corrupted PDU, the bytes of the report.
RacWants(winners) == [u \in Ue |-> IF u \in winners THEN BlocksFor(u, MinRacBytes) ELSE 0]
RtxWants(lost) == [u \in Ue |-> BlocksFor(u, lost[u])]
DataWants(report, rtx) ==
  [u \in Ue |-> IF report[u] > 0 /\ rtx[u] = 0
                THEN BlocksFor(u, report[u] + MacHeader + RlcHeader) ELSE 0]

\* Mutant: only a report that is granted whole is consumed.
ConsumedWhole(report, allocated) ==
  IF allocated >= report + MacHeader + RlcHeader THEN report ELSE 0

\* consumedBytes, an unsigned difference: an allocation shorter than the headers
\* consumes the whole report.
Consumed(report, allocated) ==
  IF allocated = 0 THEN 0
  ELSE IF allocated < MacHeader + RlcHeader THEN report
  ELSE Min({report, allocated - MacHeader - RlcHeader})

\* The PDUs whose evaluation time is over at this loop.
Evaluated(u) ==
  {a \in Acid : rx[u][a].status = "EVALUATING" /\ rx[u][a].age + 1 >= EvaluationTtis - 1}
Corrupted(u) == {a \in Evaluated(u) : ~rx[u][a].ok}

\* bufferizeBsr of the reports in the correct PDUs.
Reports(u) == {rx[u][a].bsr : a \in Evaluated(u) \ Corrupted(u)} \ {0}
Reported == [u \in Ue |-> IF Reports(u) = {} THEN bsr[u] ELSE Max(Reports(u))]

LostBytes == [u \in Ue |-> IF Corrupted(u) = {} THEN 0 ELSE rx[u][Min(Corrupted(u))].len]

RacAnswers(collided) ==
  {[type |-> "racResponse", ue |-> u, success |-> u \notin collided] : u \in racs}
Feedback ==
  UNION {{[type |-> "feedback", ue |-> u, acid |-> a, ack |-> rx[u][a].ok] :
            a \in Evaluated(u)} : u \in Ue}

\* The blocks go to the UEs that won random access, then to retransmissions, then
\* to new data in the order of the policy.  (\E over one value names it.)
GnbLoop(collided, order) ==
  /\ part = "gnb"
  /\ collided \subseteq racs /\ Cardinality(collided) # 1
  /\ collided # {} => collisions < MaxCollisions
  /\ collisions' = collisions + (IF collided = {} THEN 0 ELSE 1)
  /\ \E report \in {Reported} :
     \E racWants \in {RacWants(racs \ collided)}, rtxWants \in {RtxWants(LostBytes)} :
     \E rac \in {Shares(racWants, Bands, NodeOrder)} :
     \E rtx \in {Fitting(rtxWants, Bands - Total(rac, Ue), NodeOrder)} :
     \E dataWants \in {DataWants(report, rtx)} :
     \E data \in {Shares(dataWants, Bands - Total(rac, Ue) - Total(rtx, Ue), order)} :
       LET allocated(u) == Min({data[u] * BytesPerBlock[u],
                                report[u] + MacHeader + RlcHeader})
           blocks(u) == rac[u] + rtx[u] + data[u]
       IN
       /\ bsr' = [u \in Ue |-> report[u] - Consumed(report[u], allocated(u))]
       /\ sent' = sent \cup Feedback \cup RacAnswers(collided)
                  \cup {[type |-> "grant", ue |-> u, bytes |-> blocks(u) * BytesPerBlock[u]] :
                         u \in {v \in Ue : blocks(v) > 0}}
  /\ rx' = [u \in Ue |-> [a \in Acid |->
              IF a \in Evaluated(u) THEN RxReset
              ELSE IF rx[u][a].status = "EMPTY" THEN rx[u][a]
              ELSE [rx[u][a] EXCEPT !.age = @ + 1]]]
  /\ racs' = {} /\ part' = "air"
  /\ UNCHANGED <<ue, tx, air, sdus, losses>>
-----------------------------------------------------------------------------
(* The arrival of the frames                                                *)

DataInAir == {f \in air : f.type = "data"}
Failing == {f.ue : f \in {g \in air : g.type = "racResponse" /\ ~g.success}}
Arriving(type, u) == {f \in air : f.type = type /\ f.ue = u}

MacHandleRac(s, success, backoff) ==
  CASE success -> [s EXCEPT !.bsrTriggered = TRUE, !.racTry = 0, !.backoff = 0]
    [] ~success /\ s.racTry + 1 >= MaxRacTryouts
               -> [s EXCEPT !.racTry = 0, !.backoff = 0]
    [] OTHER   -> [s EXCEPT !.racTry = @ + 1, !.backoff = backoff]

MacHandleGrant(s, bytes) == [s EXCEPT !.grant = bytes, !.racRequested = FALSE]

\* The answer and the grant of one UE touch different fields.
Received(u, backoff) ==
  LET answered == IF Arriving("racResponse", u) = {} THEN ue[u]
        ELSE MacHandleRac(ue[u], (CHOOSE f \in Arriving("racResponse", u) : TRUE).success,
                          IF u \in Failing THEN backoff[u] ELSE 0)
  IN IF Arriving("grant", u) = {} THEN answered
     ELSE MacHandleGrant(answered, (CHOOSE f \in Arriving("grant", u) : TRUE).bytes)

PduFeedback(unit, ack) ==
  IF ack \/ unit.transmissions = MaxHarqRtx + 1 THEN TxReset
  ELSE [unit EXCEPT !.status = "READY"]

Arrive(lost, backoff) ==
  /\ part = "air"
  /\ losses + Cardinality(lost) <= MaxLosses /\ losses' = losses + Cardinality(lost)
  /\ ue' = [u \in Ue |-> Received(u, backoff)]
  /\ tx' = [u \in Ue |-> [a \in Acid |->
             IF \E f \in Arriving("feedback", u) : f.acid = a
             THEN PduFeedback(tx[u][a],
                              (CHOOSE f \in Arriving("feedback", u) : f.acid = a).ack)
             ELSE tx[u][a]]]
  /\ rx' = [u \in Ue |-> [a \in Acid |->
             IF \E f \in Arriving("data", u) : f.acid = a
             THEN LET f == CHOOSE f \in Arriving("data", u) : f.acid = a IN
                  [status |-> "EVALUATING", len |-> f.len, bsr |-> f.bsr,
                   ok |-> f \notin lost, age |-> 0]
             ELSE rx[u][a]]]
  /\ racs' = racs \cup {f.ue : f \in {g \in air : g.type = "rac"}}
  /\ air' = sent /\ sent' = {} /\ part' = "ue"
  /\ UNCHANGED <<bsr, sdus, collisions>>
-----------------------------------------------------------------------------
\* The orders in which a scheduling policy may serve the UEs.
Orders == SetToSeqs(Ue)

Tti ==
  \/ UeLoops
  \/ \E collided \in SUBSET racs, order \in Orders : GnbLoop(collided, order)
  \/ \E lost \in SUBSET DataInAir, backoff \in [Failing -> Backoffs] :
       Arrive(lost, backoff)

Next == Tti \/ \E u \in Ue, size \in SduSizes : NewData(u, size)

\* ttiTick_ is rescheduled at the end of every main loop.
Spec == Init /\ [][Next]_vars /\ WF_vars(Tti)
-----------------------------------------------------------------------------
(* Properties                                                               *)

\* A UE does not contend again while its last attempt is in the air, at the
\* gNB or being answered: raResponseWindow covers the round trip.
Attempts(u) ==
  {f \in air \cup sent : f.type \in {"rac", "racResponse"} /\ f.ue = u}
  \cup {r \in {[type |-> "atGnb", ue |-> u]} : u \in racs}
OneAttempt == \A u \in Ue : Cardinality(Attempts(u)) <= 1

\* However attempts collide, reports are lost or are stale and grants are too
\* small, what a UE has to send gets its grants.
EventuallyServed == \A u \in Ue : ue[u].vq > 0 ~> ue[u].vq = 0

\* A report that says more than a UE has left does not bring grants for ever.
GrantsCease == <>[](\A u \in Ue : bsr[u] = 0)
=============================================================================
