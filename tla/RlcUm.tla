------------------------------- MODULE RlcUm -------------------------------
(***************************************************************************)
(* A bearer in RLC unacknowledged mode: UmTxEntity cuts the SDUs in its     *)
(* queue to the sizes that the MAC asks for, UmRxEntity restores the order  *)
(* of the PDUs within a window and puts the SDUs together.  In between,     *)
(* H-ARQ loses and reorders PDUs.                                           *)
(*                                                                         *)
(* A bearer is the direct one of a D2D pair, which mode switches take out   *)
(* of use and put back, a multicast one, or an uplink one whose UE has a    *)
(* D2D flow as well: the gNB sends the switches of that flow to the first   *)
(* uplink bearer of the UE (LteMacEnbD2D::macHandleD2DModeSwitch).          *)
(* msHarqInterrupt and msClearRlcBuffer have their default, true.           *)
(***************************************************************************)
EXTENDS Integers, Sequences, FiniteSets, SequencesExt, FiniteSetsExt

CONSTANTS
  Bearers,       \* the kinds of bearer considered
  RxWindowSize,  \* rxWindowSize
  QueueSize,     \* queueSize, 0 for no limit
  SduSizes,      \* sizes of the SDUs
  Requests,      \* sizes that the MAC asks for
  MaxSdus,       \* bound: SDUs
  MaxPdus,       \* bound: PDUs
  MaxInFlight,   \* bound: PDUs that H-ARQ works on at a time
  MaxSwitches    \* bound: mode switches

ASSUME RlcUmAssumption ==
  /\ Bearers \subseteq {"direct", "multicast", "uplink"}
  /\ RxWindowSize \in Nat \ {0} /\ QueueSize \in Nat
  /\ SduSizes \subseteq Nat \ {0} /\ Requests \subseteq Nat
  /\ {MaxSdus, MaxPdus, MaxInFlight, MaxSwitches} \subseteq Nat

RlcHeader == 2   \* RLC_HEADER_UM

VARIABLES
  bearer,    \* the kind of the bearer
  size,      \* sizes of the SDUs so far; an SDU is named by its place
  tx,        \* UmTxEntity; sent is history: the SDUs that were sent to their end
  rx,        \* UmRxEntity
  air,       \* PDUs between the two
  inUse,     \* the bearer is that of the current mode
  pdus,      \* history: the PDUs made, in this order
  switches   \* counter for the bound

vars == <<bearer, size, tx, rx, air, inUse, pdus, switches>>

Nothing == [sdu |-> 0, size |-> 0, sno |-> 0]   \* an empty buffered_

RxReset(window) ==
  [ firstSno |-> 0, firstSnoForReordering |-> 0, highestReceivedSno |-> 0,
    reorderingSno |-> 0, windowSize |-> window, init |-> FALSE,
    timer     |-> FALSE,     \* t_reordering_ is running
    store     |-> <<>>,      \* pduBuffer_ where received_, by position
    buffered  |-> Nothing,   \* the beginning of an SDU
    resetFlag |-> FALSE,
    passedUp  |-> <<>>,      \* history: SDUs given to PDCP
    done      |-> {},        \* history: PDUs that reassemble took
    err       |-> FALSE ]    \* an exception was thrown

Init ==
  /\ bearer \in Bearers /\ size = <<>>
  /\ tx = [queue |-> <<>>, fragment |-> 0, sno |-> 0, sent |-> {}]
  /\ rx = RxReset(RxWindowSize)
  /\ air = {} /\ inUse = TRUE
  /\ pdus = <<>> /\ switches = 0

Running == ~rx.err
-----------------------------------------------------------------------------
(* UmTxEntity                                                               *)

Total(s) == FoldSeq(LAMBDA sdu, sum : size[sdu] + sum, 0, s)

\* The SDU is dropped when the queue is full.
HandleSdu(n) ==
  /\ Running /\ (bearer = "direct" => inUse) /\ Len(size) < MaxSdus
  /\ size' = Append(size, n)
  /\ tx' = IF QueueSize = 0 \/ Total(tx.queue) + n < QueueSize
           THEN [tx EXCEPT !.queue = Append(@, Len(size) + 1)] ELSE tx
  /\ UNCHANGED <<bearer, rx, air, inUse, pdus, switches>>

\* What is left of the SDU at place i of the queue; fragment is the rest of the
\* first one when a part of it was sent (fragmentInfo, firstIsFragment_).
Left(t, i) == IF i = 1 /\ t.fragment > 0 THEN t.fragment ELSE size[t.queue[i]]
LeftOf(t, k) ==
  LET sum[i \in 0 .. Len(t.queue)] == IF i = 0 THEN 0 ELSE sum[i - 1] + Left(t, i) IN sum[k]

\* The number of SDUs that fit whole into a payload.
Whole(t, payload) == Max({k \in 0 .. Len(t.queue) : LeftOf(t, k) <= payload})
Rest(t, payload) ==
  IF Whole(t, payload) < Len(t.queue) THEN payload - LeftOf(t, Whole(t, payload)) ELSE 0

Parts(t, payload) ==
  [i \in 1 .. Whole(t, payload) |-> [sdu |-> t.queue[i], size |-> Left(t, i)]]
  \o (IF Rest(t, payload) = 0 THEN <<>>
      ELSE <<[sdu |-> t.queue[Whole(t, payload) + 1], size |-> Rest(t, payload)]>>)

\* id and offset are history: the place in pdus, and where in its SDU the first
\* part begins.
Offset(t) == IF t.fragment > 0 THEN size[t.queue[1]] - t.fragment ELSE 0
Pdu(t, payload) ==
  [sno |-> t.sno, id |-> Len(pdus) + 1, parts |-> Parts(t, payload), offset |-> Offset(t),
   firstIsFragment |-> t.fragment > 0, lastIsFragment |-> Rest(t, payload) > 0]

\* Mutant: the rest of an SDU is taken from its whole size.
ForgetFragment(t, payload) ==
  LET k == Whole(t, payload) IN
  [t EXCEPT !.queue = SubSeq(@, k + 1, Len(@)), !.sno = @ + 1,
            !.sent = @ \cup {t.queue[i] : i \in 1 .. k},
            !.fragment = IF Rest(t, payload) = 0 THEN 0
                         ELSE size[t.queue[k + 1]] - Rest(t, payload)]

AfterPdu(t, payload) ==
  LET k == Whole(t, payload) IN
  [t EXCEPT !.queue = SubSeq(@, k + 1, Len(@)), !.sno = @ + 1,
            !.sent = @ \cup {t.queue[i] : i \in 1 .. k},
            !.fragment = IF Rest(t, payload) = 0 THEN 0
                         ELSE Left(t, k + 1) - Rest(t, payload)]

\* A request without room for data, or without data, is answered by a PDU that
\* the MAC throws away.
RlcPduMake(request) ==
  /\ Running /\ Len(pdus) < MaxPdus /\ Cardinality(air) < MaxInFlight
  /\ request > RlcHeader /\ tx.queue # <<>>
  /\ \E payload \in {request - RlcHeader} :
       /\ air' = air \cup {Pdu(tx, payload)}
       /\ tx' = AfterPdu(tx, payload)
       /\ pdus' = Append(pdus, Pdu(tx, payload))
  /\ UNCHANGED <<bearer, size, rx, inUse, switches>>

ClearQueue(t) == [t EXCEPT !.queue = <<>>, !.fragment = 0]
-----------------------------------------------------------------------------
(* UmRxEntity: reassembly                                                   *)

ToPdcp(r, sdus) == [r EXCEPT !.passedUp = @ \o sdus, !.buffered = Nothing]
ClearBufferedSdu(r) == [r EXCEPT !.buffered = Nothing]

IsMiddle(p) == p.firstIsFragment /\ p.lastIsFragment /\ Len(p.parts) = 1

\* Mutant: the comparison of the log lines, with the number of the last PDU.
SamePdu(r, p) ==
  r.buffered.sdu = p.parts[1].sdu /\ p.sno = r.buffered.sno /\ ~r.resetFlag
Continues(r, p) ==
  r.buffered.sdu = p.parts[1].sdu /\ p.sno = r.buffered.sno + 1 /\ ~r.resetFlag

\* The first part, when it continues an SDU: in the middle or its end.
TakeFirst(r, p) ==
  LET part == p.parts[1]
      total == r.buffered.size + part.size
  IN CASE ~p.firstIsFragment -> r
       [] p.firstIsFragment /\ ~Continues(r, p) -> ClearBufferedSdu(r)
       [] p.firstIsFragment /\ Continues(r, p) /\ IsMiddle(p) ->
            [r EXCEPT !.buffered.size = total, !.buffered.sno = p.sno]
       [] OTHER -> CASE total = size[part.sdu] -> ToPdcp(r, <<part.sdu>>)
                     [] total < size[part.sdu] -> ClearBufferedSdu(r)
                     [] total > size[part.sdu] -> [r EXCEPT !.err = TRUE]

\* The SDUs that begin and end in the PDU.
WholeParts(p) ==
  SubSeq(p.parts, IF p.firstIsFragment THEN 2 ELSE 1,
                  IF p.lastIsFragment THEN Len(p.parts) - 1 ELSE Len(p.parts))
TakeWhole(r, p) ==
  IF \E i \in DOMAIN WholeParts(p) : WholeParts(p)[i].size # size[WholeParts(p)[i].sdu]
  THEN [r EXCEPT !.err = TRUE]
  ELSE ToPdcp(r, [i \in DOMAIN WholeParts(p) |-> WholeParts(p)[i].sdu])

\* The beginning of the last SDU is kept.
TakeLast(r, p) ==
  [r EXCEPT !.buffered = [sdu |-> Last(p.parts).sdu, size |-> Last(p.parts).size, sno |-> p.sno]]

Reassemble(r, p) ==
  LET first == TakeFirst(r, p)
      whole == IF WholeParts(p) = <<>> THEN first ELSE TakeWhole(first, p)
      last  == IF p.lastIsFragment /\ ~IsMiddle(p) THEN TakeLast(whole, p) ELSE whole
  IN  [last EXCEPT !.resetFlag = FALSE, !.done = @ \cup {p.id}]

\* reassemble for the positions from .. to; nothing happens at an empty one.
ReassembleAll(r, from, to) ==
  LET after[i \in from - 1 .. to] ==
        IF i < from THEN r
        ELSE IF i \in DOMAIN r.store THEN Reassemble(after[i - 1], r.store[i]) ELSE after[i - 1]
  IN  [after[to] EXCEPT !.store = [i \in DOMAIN r.store \ (from .. to) |-> r.store[i]]]
-----------------------------------------------------------------------------
(* UmRxEntity: the window                                                   *)

MoveRxWindow(r, n) ==
  [r EXCEPT !.store = [i \in {j - n : j \in {k \in DOMAIN r.store : k >= n}} |-> r.store[i + n]],
            !.firstSno = @ + n]

\* The first PDU of a multicast bearer starts the window, of size 1.
Start(r, sno) ==
  IF bearer = "multicast" /\ ~r.init
  THEN [r EXCEPT !.firstSno = sno, !.firstSnoForReordering = sno, !.reorderingSno = sno,
                 !.highestReceivedSno = sno, !.windowSize = 1, !.init = TRUE]
  ELSE r

\* How far a PDU beyond all others moves the window, when it does not fit: by as
\* much as it is beyond them.
Shift(r, sno) ==
  IF r.firstSno + r.windowSize < sno + 1
  THEN Min({sno + 1 - r.highestReceivedSno, sno - r.firstSno}) ELSE 0

Advance(r, sno) ==
  IF sno < r.highestReceivedSno THEN r
  ELSE [MoveRxWindow(ReassembleAll(r, 0, Shift(r, sno) - 1), Shift(r, sno)) EXCEPT
          !.highestReceivedSno = sno + 1,
          !.firstSnoForReordering = Max({@, r.firstSno + Shift(r, sno)})]

\* pduBuffer_ throws when the position is in use, received_ when there is none.
Store(r, p) ==
  LET i == p.sno - r.firstSno IN
  IF i \in DOMAIN r.store \/ i >= RxWindowSize THEN [r EXCEPT !.err = TRUE]
  ELSE [r EXCEPT !.store = [j \in DOMAIN @ \cup {i} |-> IF j = i THEN p ELSE @[j]]]

\* Where firstSnoForReordering_ stops that moves to sno and over what was received:
\* at highestReceivedSno_ if it gets there.
Stop(r, sno) ==
  Min({n \in r.firstSnoForReordering .. r.firstSno + RxWindowSize :
         \/ n > r.firstSnoForReordering /\ n = r.highestReceivedSno
         \/ n >= sno /\ n - r.firstSno \notin DOMAIN r.store})

\* received_ throws when it is read beyond its end.
Proceed(r, sno) ==
  [ReassembleAll(r, r.firstSnoForReordering - r.firstSno, Stop(r, sno) - r.firstSno - 1)
     EXCEPT !.firstSnoForReordering = Stop(r, sno),
            !.err = @ \/ (/\ Stop(r, sno) = r.firstSno + RxWindowSize
                          /\ Stop(r, sno) # r.highestReceivedSno)]

\* Mutant: a timer that was stopped is not started for the next gap.
StopOrStart(r) ==
  IF r.timer
  THEN [r EXCEPT !.timer = r.reorderingSno > r.firstSnoForReordering]
  ELSE IF r.highestReceivedSno > r.firstSnoForReordering
  THEN [r EXCEPT !.timer = TRUE, !.reorderingSno = r.highestReceivedSno]
  ELSE r

HandleTimer(r) ==
  LET busy == /\ r.timer
              /\ r.reorderingSno > r.firstSnoForReordering
              /\ r.reorderingSno \in r.firstSno .. r.highestReceivedSno
  IN IF ~busy /\ r.highestReceivedSno > r.firstSnoForReordering
     THEN [r EXCEPT !.timer = TRUE, !.reorderingSno = r.highestReceivedSno]
     ELSE [r EXCEPT !.timer = busy]

AlreadyReceived(r, sno) ==
  /\ r.firstSnoForReordering <= sno /\ sno < r.highestReceivedSno
  /\ sno - r.firstSno \in DOMAIN r.store

\* Mutant: only what has left the window is late.
BeforeWindow(r, sno) == sno < r.firstSno
Late(r, sno) == sno < r.firstSnoForReordering

\* (\E over one value names it.)
Enque(p) ==
  /\ Running
  /\ air' = air \ {p}
  /\ \E r \in {Start(rx, p.sno)} :
       IF AlreadyReceived(r, p.sno) \/ Late(r, p.sno) THEN rx' = r
       ELSE \E moved \in {Advance(r, p.sno)} : \E s \in {Store(moved, p)} :
            IF s.err THEN rx' = s
            ELSE \E t \in {Proceed(s, s.firstSnoForReordering)} : rx' = HandleTimer(t)
  /\ UNCHANGED <<bearer, size, tx, inUse, pdus, switches>>

ReorderingTimer ==
  /\ Running /\ rx.timer
  /\ \E r \in {Proceed(rx, Max({rx.firstSnoForReordering, rx.reorderingSno}))} :
       rx' = IF r.highestReceivedSno > r.firstSnoForReordering
             THEN [r EXCEPT !.reorderingSno = r.highestReceivedSno]
             ELSE [r EXCEPT !.timer = FALSE]
  /\ UNCHANGED <<bearer, size, tx, air, inUse, pdus, switches>>
-----------------------------------------------------------------------------
(* The mode switch.  Both ends get the notification in the same TTI, ahead  *)
(* of its data frames, which are dropped with all that H-ARQ has.           *)

ClearBuffer(r) ==
  [ReassembleAll(r, 0, RxWindowSize - 1) EXCEPT !.buffered = Nothing, !.timer = FALSE]

ClearWindow(r) ==
  [r EXCEPT !.firstSno = 0, !.firstSnoForReordering = 0, !.reorderingSno = 0,
            !.highestReceivedSno = 0, !.resetFlag = TRUE]

\* The bearer is that of the old mode.
SwitchAway ==
  /\ Running /\ inUse /\ bearer # "multicast" /\ switches < MaxSwitches
  /\ inUse' = FALSE /\ switches' = switches + 1
  /\ tx' = IF bearer = "direct" THEN ClearQueue(tx) ELSE tx
  /\ rx' = ClearBuffer(rx)
  /\ air' = {}
  /\ UNCHANGED <<bearer, size, pdus>>

\* The bearer is that of the new mode.
SwitchBack ==
  /\ Running /\ ~inUse
  /\ inUse' = TRUE
  /\ tx' = IF bearer = "direct" THEN [tx EXCEPT !.sno = 0] ELSE tx
  /\ rx' = ClearWindow(rx)
  /\ air' = {}
  /\ UNCHANGED <<bearer, size, pdus, switches>>
-----------------------------------------------------------------------------
\* H-ARQ gives up a PDU.
Lose(p) ==
  /\ Running
  /\ air' = air \ {p}
  /\ UNCHANGED <<bearer, size, tx, rx, inUse, pdus, switches>>

Next ==
  \/ \E n \in SduSizes : HandleSdu(n)
  \/ \E request \in Requests : RlcPduMake(request)
  \/ \E p \in air : Enque(p) \/ Lose(p)
  \/ ReorderingTimer
  \/ SwitchAway \/ SwitchBack

\* The event of a running timer is executed.
Spec == Init /\ [][Next]_vars /\ WF_vars(ReorderingTimer)
-----------------------------------------------------------------------------
(* Properties                                                               *)

\* PDCP gets the SDUs in the order in which they were sent, none of them twice.
InOrder == \A i, j \in DOMAIN rx.passedUp : i < j => rx.passedUp[i] < rx.passedUp[j]

\* An SDU with a part missing does not get through, and losses take no other
\* SDU with them: one whose PDUs were all reassembled is passed up.
Pieces(s) == {n \in DOMAIN pdus : \E i \in DOMAIN pdus[n].parts : pdus[n].parts[i].sdu = s}
Complete(s) == s \in tx.sent /\ Pieces(s) \subseteq rx.done
PassedUp(s) == \E i \in DOMAIN rx.passedUp : rx.passedUp[i] = s
PassedUpWhenComplete == \A s \in DOMAIN size : PassedUp(s) <=> Complete(s)

\* No exception of the receiving entity is thrown.
NoError == ~rx.err

\* When no more PDUs come, none is left in the buffer.
BufferEmpties == <>[](DOMAIN rx.store = {})
=============================================================================
