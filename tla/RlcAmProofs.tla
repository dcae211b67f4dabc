---------------------------- MODULE RlcAmProofs ----------------------------
(***************************************************************************)
(* Theorems about AmTxQueue alone, whatever control PDUs arrive, and about *)
(* RlcAm, where it runs with AmRxQueue: for every window size, every set   *)
(* of SDU sizes, any number of SDUs, losses, commands and reports, and     *)
(* timers that race with what is in flight (MaxInFlight).                  *)
(*                                                                         *)
(* Inv is inductive for AmTxQueue.  It adds to the properties of the       *)
(* module what links them: an MRW command never asks for a PDU that is not *)
(* resolved, so the next one never asks for less; only outstanding PDUs    *)
(* are discarded; an SDU is numbered above those of the PDUs built so far. *)
(*                                                                         *)
(* IInv is inductive for RlcAm.  It says of the sender what Inv says and   *)
(* how it relates to the receiver (Sound): the receiver's window start is  *)
(* in the sender's window, and what the sender takes as resolved was       *)
(* accepted or given up.  Of what is in flight it says what makes it       *)
(* harmless however late it arrives (Sends, Answers), and of the receiver  *)
(* that marks, buffer and SDUs passed up follow from what was accepted.    *)
(* Each operator of the two entities has a lemma that it keeps this.       *)
(***************************************************************************)
EXTENDS RlcAm, FiniteSetTheorems, WellFoundedInduction, TLAPS
-----------------------------------------------------------------------------
(* AmTxQueue                                                                *)

TypedPdus(t) ==
  /\ t.firstSeqNum \in Nat /\ t.seqNum \in Nat
  /\ t.header \in [0 .. t.seqNum - 1 -> Header]
  /\ t.rtxQueue \in [DOMAIN t.rtxQueue -> 0 .. MaxRtx]
  /\ t.received \subseteq Nat /\ t.discarded \subseteq Nat /\ t.pduTimer \subseteq Nat
TypedCommands(t) ==
  /\ t.mrwSeqNum \in Nat /\ t.mrwTimer \subseteq Nat
  /\ t.mrwRtxQueue \in [DOMAIN t.mrwRtxQueue -> Nat]
TypedSdus(t) ==
  /\ t.nextSdu \in Nat /\ t.backlog = 0 /\ t.lost \subseteq Nat /\ t.givenUp \subseteq Nat
Typed(t) ==
  /\ DOMAIN t = DOMAIN TxStart /\ TypedPdus(t) /\ TypedCommands(t) /\ TypedSdus(t)
  /\ t.statusTimer \in BOOLEAN /\ t.err \in TxErrors \ InternalErrors

\* The window and the retransmission queue.
Window(t) ==
  /\ t.firstSeqNum <= t.seqNum
  /\ t.seqNum - t.firstSeqNum < TxWindowSize
  /\ DOMAIN t.rtxQueue = Outstanding(t)

\* Discarded PDUs.
Discards(t) ==
  /\ t.discarded \subseteq Outstanding(t)
  /\ \A s \in 0 .. t.seqNum - 1 : t.header[s].sdu < t.nextSdu
  /\ \A s \in t.discarded, r \in Outstanding(t) :
       t.header[r].sdu = t.header[s].sdu => r \in t.discarded

\* Stored MRW commands.
Commands(t) ==
  /\ t.mrwTimer = DOMAIN t.mrwRtxQueue
  /\ \A m \in DOMAIN t.mrwRtxQueue :
       /\ m \in Nat /\ m < t.mrwSeqNum
       /\ t.mrwRtxQueue[m] <= t.seqNum
       /\ t.firstSeqNum .. t.mrwRtxQueue[m] - 1 \subseteq Resolved(t)
  /\ \A m, k \in DOMAIN t.mrwRtxQueue :
       m <= k => t.mrwRtxQueue[m] <= t.mrwRtxQueue[k]

Timers(t) == t.pduTimer = Outstanding(t) \ Resolved(t)

\* Frames: what an operator leaves alone, field by field.
KeepsPdus(u, t) ==
  /\ u.firstSeqNum = t.firstSeqNum /\ u.seqNum = t.seqNum
  /\ u.header = t.header /\ u.rtxQueue = t.rtxQueue
KeepsMarks(u, t) == u.received = t.received /\ u.discarded = t.discarded
KeepsCommands(u, t) ==
  /\ u.mrwSeqNum = t.mrwSeqNum /\ u.mrwRtxQueue = t.mrwRtxQueue /\ u.mrwTimer = t.mrwTimer
KeepsSdus(u, t) ==
  u.nextSdu = t.nextSdu /\ u.backlog = t.backlog /\ u.lost = t.lost /\ u.givenUp = t.givenUp

Core(t) == Typed(t) /\ Window(t) /\ Discards(t) /\ Commands(t)
Inv(t)  == Core(t) /\ (t.err = "none" => Timers(t))
-----------------------------------------------------------------------------
\* A nonempty set of natural numbers has a least element.
LEMMA LeastNat ==
  ASSUME NEW T \in SUBSET Nat, T # {}
  PROVE  \E x \in T : \A y \in T : x <= y
<1>1. IsWellFoundedOn(OpToRel(<, Nat), Nat)
  BY NatLessThanWellFounded
<1>2. PICK x \in T : \A y \in T : ~ (<<y, x>> \in OpToRel(<, Nat))
  BY <1>1, WFMin
<1>3. \A y \in T : ~(y < x)
  BY <1>2 DEF OpToRel
<1> QED BY <1>3

\* checkForMrw finds the first unresolved PDU: the CHOOSE has a value.
LEMMA FirstUnresolvedExists ==
  ASSUME NEW t, t.firstSeqNum \in Nat, t.seqNum \in Nat, t.firstSeqNum <= t.seqNum
  PROVE  /\ FirstUnresolved(t) \in t.firstSeqNum .. t.seqNum
         /\ FirstUnresolved(t) \in Outstanding(t) => FirstUnresolved(t) \notin Resolved(t)
         /\ t.firstSeqNum .. FirstUnresolved(t) - 1 \subseteq Resolved(t)
<1> DEFINE T == {s \in t.firstSeqNum .. t.seqNum : s \in Outstanding(t) => s \notin Resolved(t)}
<1>1. T \in SUBSET Nat /\ t.seqNum \in T
  BY DEF Outstanding
<1>2. PICK x \in T : \A y \in T : x <= y
  <2> HIDE DEF T
  <2> QED BY <1>1, LeastNat
<1>3. t.firstSeqNum .. x - 1 \subseteq Resolved(t)
  BY <1>2 DEF Outstanding
<1> QED BY <1>2, <1>3 DEF FirstUnresolved

\* An exception changes nothing else.
LEMMA FailInv ==
  ASSUME NEW t, Core(t), NEW e \in TxErrors \ InternalErrors, e # "none"
  PROVE  Inv(Fail(t, e))
<1> DEFINE u == Fail(t, e)
<1>1. /\ DOMAIN u = DOMAIN t /\ u.pduTimer = t.pduTimer /\ u.statusTimer = t.statusTimer
      /\ KeepsPdus(u, t) /\ KeepsMarks(u, t) /\ KeepsCommands(u, t) /\ KeepsSdus(u, t)
      /\ u.err \in TxErrors \ InternalErrors /\ u.err # "none"
  BY DEF Fail, Core, Typed, TypedPdus, TypedCommands, TypedSdus, TxStart, KeepsPdus, KeepsMarks, KeepsCommands, KeepsSdus
<1> HIDE DEF u
<1>2. Typed(u)
  BY <1>1 DEF Core, Typed, TypedPdus, TypedCommands, TypedSdus, KeepsPdus, KeepsMarks, KeepsCommands, KeepsSdus
<1>3. Window(u)
  BY <1>1 DEF Core, Window, Outstanding, KeepsPdus
<1>4. Discards(u)
  BY <1>1 DEF Core, Discards, Outstanding, KeepsPdus, KeepsMarks, KeepsSdus
<1>5. Commands(u)
  BY <1>1 DEF Core, Commands, Resolved, KeepsPdus, KeepsMarks, KeepsCommands
<1> QED BY <1>1, <1>2, <1>3, <1>4, <1>5 DEF Inv, Core, u
-----------------------------------------------------------------------------
(* Sending SDUs                                                            *)

\* addPdus: the fragments take the free positions behind the window's last PDU.
LEMMA AddFragmentsInv ==
  ASSUME NEW t, Inv(t), NEW n \in Nat \ {0}, Fits(t, n)
  PROVE  Inv(AddFragments(t, n))
<1> DEFINE new == t.seqNum .. t.seqNum + n - 1
           h   == [sdu |-> t.nextSdu, firstSn |-> t.seqNum, lastSn |-> t.seqNum + n - 1]
           u   == AddFragments(t, n)
<1> USE DEF Inv, Core
<1>1. new \cap DOMAIN t.rtxQueue = {}
  BY DEF Typed, TypedPdus, TypedCommands, TypedSdus, Window, Outstanding
<1>2. CASE new \cap Resolved(t) # {}
  <2>1. u = Fail(t, "addPdus: marked position")
    BY <1>1, <1>2 DEF AddFragments
  <2> QED BY <2>1, FailInv DEF TxErrors, InternalErrors
<1>3. CASE new \cap Resolved(t) = {}
  <2>1. /\ DOMAIN u = DOMAIN t /\ u.firstSeqNum = t.firstSeqNum /\ u.err = t.err
        /\ KeepsMarks(u, t) /\ KeepsCommands(u, t)
        /\ u.backlog = t.backlog /\ u.lost = t.lost /\ u.givenUp = t.givenUp
        /\ u.header = [s \in DOMAIN t.header \cup new |-> IF s \in new THEN h ELSE t.header[s]]
        /\ u.rtxQueue = [s \in DOMAIN t.rtxQueue \cup new |->
                            IF s \in new THEN 0 ELSE t.rtxQueue[s]]
        /\ u.pduTimer = t.pduTimer \cup new
        /\ u.seqNum = t.seqNum + n /\ u.nextSdu = t.nextSdu + 1 /\ u.statusTimer = TRUE
    <3>1. u = [t EXCEPT
                !.header      = [s \in DOMAIN t.header \cup new |-> IF s \in new THEN h ELSE t.header[s]],
                !.rtxQueue    = [s \in DOMAIN t.rtxQueue \cup new |->
                                    IF s \in new THEN 0 ELSE t.rtxQueue[s]],
                !.pduTimer    = @ \cup new,
                !.seqNum      = @ + n,
                !.nextSdu     = @ + 1,
                !.statusTimer = TRUE,
                !.out         = @ \cup {DataPdu(s, 0) : s \in new}]
      BY <1>1, <1>3 DEF AddFragments
    <3>2. DOMAIN t = DOMAIN TxStart
      BY DEF Typed
    <3> HIDE DEF u, new, h, Inv, Core
    <3> QED BY <3>1, <3>2 DEF TxStart, KeepsMarks, KeepsCommands
  <2> HIDE DEF u
  <2>2. new \subseteq Nat /\ h \in Header /\ h.sdu = t.nextSdu
    BY DEF Typed, TypedPdus, TypedCommands, TypedSdus, Header
  <2>3. DOMAIN t.header \cup new = 0 .. u.seqNum - 1
    BY SMTT(30), <2>1 DEF Typed, TypedPdus, TypedCommands, TypedSdus
  <2> HIDE DEF h
  <2>4. Typed(u)
    <3>1. u.header \in [0 .. u.seqNum - 1 -> Header]
      BY <2>1, <2>2, <2>3 DEF Typed, TypedPdus, TypedCommands, TypedSdus
    <3>2. u.rtxQueue \in [DOMAIN u.rtxQueue -> 0 .. MaxRtx]
      BY <2>1, TxAssumption DEF Typed, TypedPdus, TypedCommands, TypedSdus
    <3>3. TypedPdus(u)
      BY SMTT(30), <2>1, <2>2, <3>1, <3>2 DEF Typed, TypedPdus, TypedCommands, TypedSdus, KeepsMarks
    <3>4. TypedCommands(u)
      BY <2>1 DEF Typed, TypedPdus, TypedCommands, TypedSdus, KeepsCommands
    <3>5. TypedSdus(u)
      BY <2>1 DEF Typed, TypedPdus, TypedCommands, TypedSdus
    <3> QED BY <2>1, <3>3, <3>4, <3>5 DEF Typed
  <2>5. Window(u)
    <3>1. u.firstSeqNum <= u.seqNum /\ u.seqNum - u.firstSeqNum < TxWindowSize
      <4>1. /\ t.firstSeqNum \in Nat /\ t.seqNum \in Nat /\ t.firstSeqNum <= t.seqNum
            /\ u.seqNum = t.seqNum + n /\ u.firstSeqNum = t.firstSeqNum
        BY <2>1 DEF Typed, TypedPdus, Window
      <4> QED BY <4>1, TxAssumption DEF Fits
    <3>2. Outstanding(u) = Outstanding(t) \cup new
      BY <2>1 DEF Typed, TypedPdus, Window, Outstanding
    <3>3. DOMAIN u.rtxQueue = DOMAIN t.rtxQueue \cup new
      BY <2>1
    <3> QED BY <3>1, <3>2, <3>3 DEF Window
  <2>6. Discards(u)
    <3>1. /\ \A s \in 0 .. t.seqNum - 1 : u.header[s].sdu = t.header[s].sdu
          /\ \A s \in new : u.header[s].sdu = t.nextSdu
      BY <2>1, <2>2 DEF Typed, TypedPdus
    <3>2. \A s \in 0 .. t.seqNum - 1 : t.header[s].sdu \in Nat /\ t.header[s].sdu < t.nextSdu
      BY DEF Typed, TypedPdus, Discards, Header
    <3>3. /\ 0 .. u.seqNum - 1 = (0 .. t.seqNum - 1) \cup new
          /\ Outstanding(u) = Outstanding(t) \cup new /\ Outstanding(t) \subseteq 0 .. t.seqNum - 1
          /\ u.nextSdu = t.nextSdu + 1 /\ t.nextSdu \in Nat
      BY SMTT(30), <2>1 DEF Typed, TypedPdus, TypedSdus, Window, Outstanding
    <3>4. u.discarded = t.discarded /\ t.discarded \subseteq Outstanding(t)
      BY <2>1 DEF Discards, KeepsMarks
    <3>5. \A s \in 0 .. u.seqNum - 1 : u.header[s].sdu < u.nextSdu
      BY <3>1, <3>2, <3>3
    <3>6. \A s \in u.discarded, r \in new : u.header[r].sdu # u.header[s].sdu
      BY <3>1, <3>2, <3>3, <3>4
    <3>7. \A s \in u.discarded, r \in Outstanding(t) :
             u.header[r].sdu = u.header[s].sdu => r \in u.discarded
      BY <3>1, <3>3, <3>4 DEF Discards
    <3> QED BY <3>3, <3>4, <3>5, <3>6, <3>7 DEF Discards
  <2>7. Commands(u)
    BY <2>1 DEF Typed, TypedPdus, TypedCommands, TypedSdus, Commands, Resolved, KeepsMarks, KeepsCommands
  <2>8. u.err = "none" => Timers(u)
    <3>1. Outstanding(u) = Outstanding(t) \cup new /\ Resolved(u) = Resolved(t)
      BY SMTT(30), <2>1 DEF Typed, TypedPdus, TypedCommands, TypedSdus, Window, Outstanding, Resolved, KeepsMarks
    <3> QED BY <1>3, <2>1, <3>1 DEF Timers
  <2> QED BY <2>4, <2>5, <2>6, <2>7, <2>8 DEF u
<1> QED BY <1>2, <1>3

LEMMA EnqueInv ==
  ASSUME NEW t, Inv(t), NEW n \in Nat \ {0}
  PROVE  Inv(Enque(t, n))
<1> DEFINE u == [t EXCEPT !.nextSdu = @ + 1, !.lost = @ \cup {t.nextSdu}]
<1> USE DEF Inv, Core
<1>1. /\ DOMAIN u = DOMAIN t /\ u.pduTimer = t.pduTimer /\ u.statusTimer = t.statusTimer
      /\ KeepsPdus(u, t) /\ KeepsMarks(u, t) /\ KeepsCommands(u, t)
      /\ u.backlog = t.backlog /\ u.givenUp = t.givenUp /\ u.err = t.err
      /\ u.nextSdu = t.nextSdu + 1 /\ u.lost = t.lost \cup {t.nextSdu}
  BY DEF Typed, TypedPdus, TypedCommands, TypedSdus, TxStart, KeepsPdus, KeepsMarks, KeepsCommands
<1>2. Inv(u)
  <2> HIDE DEF u
  <2>1. Typed(u)
    BY <1>1 DEF Typed, TypedPdus, TypedCommands, TypedSdus, KeepsPdus, KeepsMarks, KeepsCommands
  <2>2. Window(u)
    BY <1>1 DEF Window, Outstanding, KeepsPdus
  <2>3. Discards(u)
    <3>1. \A s \in 0 .. t.seqNum - 1 : t.header[s].sdu \in Nat
      BY DEF Typed, TypedPdus, TypedCommands, TypedSdus, Header
    <3> QED BY SMTT(30), <1>1, <3>1 DEF Typed, TypedPdus, TypedCommands, TypedSdus, Discards, Outstanding, KeepsPdus, KeepsMarks
  <2>4. Commands(u)
    BY <1>1 DEF Commands, Resolved, KeepsPdus, KeepsMarks, KeepsCommands
  <2>5. u.err = "none" => Timers(u)
    BY <1>1 DEF Timers, Outstanding, Resolved, KeepsPdus, KeepsMarks
  <2> QED BY <2>1, <2>2, <2>3, <2>4, <2>5
<1>3. WindowOpen(t)
  BY DEF Window, WindowOpen
<1>4. Enque(t, n) = IF Fits(t, n) THEN AddFragments(t, n) ELSE u
  BY <1>3 DEF Enque, AddPdus
<1> QED BY <1>2, <1>4, AddFragmentsInv
-----------------------------------------------------------------------------
(* Moving the window                                                       *)

\* A command for the first unresolved PDU asks for no less than those before.
LEMMA SendMrwCore ==
  ASSUME NEW t, Core(t)
  PROVE  LET u == SendMrw(t, FirstUnresolved(t))
         IN Core(u) /\ u.err = t.err /\ (Timers(t) => Timers(u))
<1> DEFINE sn == FirstUnresolved(t)
           u  == SendMrw(t, sn)
<1> USE DEF Core
<1>1. /\ sn \in t.firstSeqNum .. t.seqNum
      /\ sn \in Outstanding(t) => sn \notin Resolved(t)
      /\ t.firstSeqNum .. sn - 1 \subseteq Resolved(t)
  BY FirstUnresolvedExists DEF Typed, TypedPdus, TypedCommands, TypedSdus, Window
<1> HIDE DEF sn
<1>2. /\ DOMAIN u = DOMAIN t /\ u.pduTimer = t.pduTimer /\ u.statusTimer = t.statusTimer
      /\ KeepsPdus(u, t) /\ KeepsMarks(u, t) /\ KeepsSdus(u, t) /\ u.err = t.err
      /\ u.mrwRtxQueue = [m \in DOMAIN t.mrwRtxQueue \cup {t.mrwSeqNum} |->
                             IF m = t.mrwSeqNum THEN sn ELSE t.mrwRtxQueue[m]]
      /\ u.mrwTimer = t.mrwTimer \cup {t.mrwSeqNum}
      /\ u.mrwSeqNum = t.mrwSeqNum + 1
  BY DEF SendMrw, Typed, TypedPdus, TypedCommands, TypedSdus, TxStart, KeepsPdus, KeepsMarks, KeepsSdus
<1> HIDE DEF u
<1>3. Typed(u)
  <2>1. u.mrwRtxQueue \in [DOMAIN u.mrwRtxQueue -> Nat]
    BY <1>1, <1>2 DEF Typed, TypedPdus, TypedCommands
  <2>2. u.mrwSeqNum \in Nat /\ u.mrwTimer \subseteq Nat
    <3>1. /\ u.mrwTimer = t.mrwTimer \cup {t.mrwSeqNum} /\ u.mrwSeqNum = t.mrwSeqNum + 1
      BY <1>2
    <3> QED BY <3>1 DEF Typed, TypedCommands
  <2>5. TypedCommands(u)
    BY <2>1, <2>2 DEF TypedCommands
  <2>3. TypedPdus(u)
    BY <1>2 DEF Typed, TypedPdus, TypedCommands, TypedSdus, KeepsPdus, KeepsMarks
  <2>4. TypedSdus(u)
    BY <1>2 DEF Typed, TypedPdus, TypedCommands, TypedSdus, KeepsSdus
  <2> QED BY <1>2, <2>3, <2>4, <2>5 DEF Typed
<1>4. Window(u)
  BY <1>2 DEF Window, Outstanding, KeepsPdus
<1>5. Discards(u)
  BY <1>2 DEF Discards, Outstanding, KeepsPdus, KeepsMarks, KeepsSdus
<1>6. Commands(u)
  <2>1. \A m \in DOMAIN t.mrwRtxQueue : t.mrwRtxQueue[m] <= sn
    BY <1>1 DEF Typed, TypedPdus, TypedCommands, TypedSdus, Window, Commands, Outstanding
  <2>2. /\ Resolved(u) = Resolved(t) /\ u.seqNum = t.seqNum /\ u.firstSeqNum = t.firstSeqNum
    BY <1>2 DEF Resolved, KeepsPdus, KeepsMarks
  <2>3. \A m \in DOMAIN t.mrwRtxQueue : m \in Nat /\ m < t.mrwSeqNum
    BY DEF Commands
  <2> QED BY <1>1, <1>2, <2>1, <2>2, <2>3 DEF Typed, TypedPdus, TypedCommands, TypedSdus, Commands
<1>7. u.err = t.err /\ (Timers(t) => Timers(u))
  BY <1>2 DEF Timers, Outstanding, Resolved, KeepsPdus, KeepsMarks
<1> QED BY <1>3, <1>4, <1>5, <1>6, <1>7 DEF u, sn

LEMMA CheckForMrwCore ==
  ASSUME NEW t, Core(t)
  PROVE  LET u == CheckForMrw(t)
         IN Core(u) /\ u.err = t.err /\ (Timers(t) => Timers(u))
BY SendMrwCore DEF CheckForMrw

\* moveTxWindow keeps the PDUs from the new window start on.
LEMMA MoveTxWindowInv ==
  ASSUME NEW t, Inv(t), NEW sn \in Nat
  PROVE  Inv(MoveTxWindow(t, sn))
<1> DEFINE moved == t.firstSeqNum .. sn - 1
           kept  == sn .. t.seqNum - 1
           u     == MoveTxWindow(t, sn)
<1> USE DEF Inv, Core
<1>1. CASE sn <= t.firstSeqNum
  BY <1>1 DEF MoveTxWindow
<1>2. CASE ~(sn <= t.firstSeqNum) /\ ~(moved \cup kept \subseteq DOMAIN t.rtxQueue)
  <2>1. u = Fail(t, "moveTxWindow: empty position")
    BY <1>2 DEF MoveTxWindow
  <2> QED BY <2>1, FailInv DEF TxErrors, InternalErrors
<1>3. CASE ~(sn <= t.firstSeqNum) /\ moved \cup kept \subseteq DOMAIN t.rtxQueue
  <2>1. sn <= t.seqNum
    <3>1. sn - 1 \in moved
      BY <1>3 DEF Typed, TypedPdus, TypedCommands, TypedSdus
    <3>2. sn - 1 \in t.firstSeqNum .. t.seqNum - 1
      BY <1>3, <3>1 DEF Window, Outstanding
    <3>3. t.firstSeqNum \in Nat /\ t.seqNum \in Nat
      BY DEF Typed, TypedPdus
    <3> QED BY <3>2, <3>3
  <2>2. DOMAIN t.rtxQueue \ (moved \cup kept) = {}
    BY <1>3 DEF Typed, TypedPdus, TypedCommands, TypedSdus, Window, Outstanding
  <2>3. /\ DOMAIN u = DOMAIN t /\ u.seqNum = t.seqNum /\ u.header = t.header
        /\ u.statusTimer = t.statusTimer /\ u.err = t.err
        /\ KeepsCommands(u, t) /\ KeepsSdus(u, t)
        /\ u.firstSeqNum = sn /\ u.rtxQueue = [s \in kept |-> t.rtxQueue[s]]
        /\ u.pduTimer = t.pduTimer \ moved
        /\ u.received = t.received \cap kept /\ u.discarded = t.discarded \cap kept
    BY <1>3, <2>2 DEF MoveTxWindow, Typed, TypedPdus, TypedCommands, TypedSdus, TxStart, KeepsCommands, KeepsSdus
  <2> HIDE DEF u
  <2>4. /\ Outstanding(u) = kept /\ kept \subseteq Outstanding(t)
        /\ Outstanding(t) \ moved = kept /\ Resolved(u) = Resolved(t) \cap kept
    BY <1>3, <2>1, <2>3 DEF Typed, TypedPdus, TypedCommands, TypedSdus, Outstanding, Resolved
  <2>5. Typed(u)
    <3>1. u.rtxQueue \in [DOMAIN u.rtxQueue -> 0 .. MaxRtx]
      BY <1>3, <2>3 DEF Typed, TypedPdus, TypedCommands, TypedSdus
    <3> QED BY <2>3, <3>1 DEF Typed, TypedPdus, TypedCommands, TypedSdus, KeepsCommands, KeepsSdus
  <2>6. Window(u)
    <3>1. DOMAIN u.rtxQueue = kept /\ u.firstSeqNum = sn /\ u.seqNum = t.seqNum
      BY <2>3
    <3>2. /\ t.firstSeqNum \in Nat /\ t.seqNum \in Nat /\ ~(sn <= t.firstSeqNum)
          /\ t.seqNum - t.firstSeqNum < TxWindowSize
      BY <1>3 DEF Typed, TypedPdus, Window
    <3>3. u.firstSeqNum <= u.seqNum /\ u.seqNum - u.firstSeqNum < TxWindowSize
      <4>1. u.firstSeqNum = sn /\ u.seqNum = t.seqNum
        BY <3>1
      <4>2. TxWindowSize \in Nat
        BY TxAssumption
      <4> HIDE DEF Inv, Core, kept, moved
      <4> QED BY <2>1, <3>2, <4>1, <4>2
    <3> QED BY <2>4, <3>1, <3>3 DEF Window
  <2>7. Discards(u)
    BY <2>3, <2>4 DEF Discards, KeepsSdus
  <2>8. Commands(u)
    <3>1. \A m \in DOMAIN t.mrwRtxQueue :
            u.firstSeqNum .. t.mrwRtxQueue[m] - 1 \subseteq Resolved(u)
      BY <1>3, <2>1, <2>3, <2>4 DEF Typed, TypedPdus, TypedCommands, TypedSdus, Commands
    <3> QED BY <2>3, <3>1 DEF Commands, KeepsCommands
  <2>9. u.err = "none" => Timers(u)
    BY <2>3, <2>4 DEF Timers
  <2> QED BY <2>5, <2>6, <2>7, <2>8, <2>9 DEF u
<1> QED BY <1>1, <1>2, <1>3

\* discard: all PDUs of the SDU become discarded and lose their timers.  The
\* timer of sn has just expired.
LEMMA DiscardInv ==
  ASSUME NEW t, Core(t), NEW sn \in Outstanding(t), sn \notin Resolved(t),
         t.pduTimer = (Outstanding(t) \ Resolved(t)) \ {sn}
  PROVE  Inv(Discard(t, sn))
<1> DEFINE same == {s \in Outstanding(t) : t.header[s].sdu = t.header[sn].sdu}
           stop == {s \in same : s <= sn \/ s \notin t.discarded}
           u    == [t EXCEPT !.discarded = @ \cup same, !.pduTimer = @ \ stop,
                             !.givenUp = @ \cup {t.header[sn].sdu}]
<1> USE DEF Inv, Core
<1>1. /\ DOMAIN u = DOMAIN t /\ u.statusTimer = t.statusTimer /\ u.err = t.err
      /\ KeepsPdus(u, t) /\ KeepsCommands(u, t) /\ u.received = t.received
      /\ u.nextSdu = t.nextSdu /\ u.backlog = t.backlog /\ u.lost = t.lost
      /\ u.discarded = t.discarded \cup same /\ u.pduTimer = t.pduTimer \ stop
      /\ u.givenUp = t.givenUp \cup {t.header[sn].sdu}
  BY DEF Typed, TxStart, KeepsPdus, KeepsCommands
<1>2. /\ Outstanding(t) \subseteq 0 .. t.seqNum - 1 /\ t.header[sn].sdu \in Nat
      /\ sn \in same /\ same \subseteq Nat
  BY DEF Typed, TypedPdus, Outstanding, Header
<1>3. Discard(t, sn) = CheckForMrw(u)
  BY DEF Discard
<1> HIDE DEF u
<1>4. Outstanding(u) = Outstanding(t) /\ Resolved(u) = Resolved(t) \cup same
  BY <1>1 DEF Outstanding, Resolved, KeepsPdus
<1>5. Core(u)
  <2>1. TypedPdus(u) /\ TypedCommands(u) /\ TypedSdus(u)
    BY <1>1, <1>2 DEF Typed, TypedPdus, TypedCommands, TypedSdus, KeepsPdus, KeepsCommands
  <2>2. Typed(u)
    BY <1>1, <2>1 DEF Typed
  <2>3. Window(u)
    BY <1>1, <1>4 DEF Window, KeepsPdus
  <2>4. Discards(u)
    BY <1>1, <1>4 DEF Discards, KeepsPdus
  <2>5. Commands(u)
    BY <1>1, <1>4 DEF Commands, KeepsPdus, KeepsCommands
  <2> QED BY <2>2, <2>3, <2>4, <2>5
<1>6. Timers(u)
  <2>1. (Outstanding(t) \ Resolved(t)) \cap same \subseteq stop
    BY DEF Resolved
  <2> HIDE DEF same, stop
  <2>2. stop \subseteq same
    BY DEF stop
  <2> QED BY <1>1, <1>2, <1>4, <2>1, <2>2 DEF Timers
<1> QED BY <1>3, <1>5, <1>6, CheckForMrwCore
-----------------------------------------------------------------------------
(* Control PDUs from the peer                                              *)

\* Marking the PDUs of A received and stopping their timers.
LEMMA ReceivedInv ==
  ASSUME NEW t, NEW A \in SUBSET Nat, Inv(t)
  PROVE  Inv([t EXCEPT !.pduTimer = @ \ (A \ t.received), !.received = @ \cup A])
<1> DEFINE u == [t EXCEPT !.pduTimer = @ \ (A \ t.received), !.received = @ \cup A]
<1> USE DEF Inv, Core
<1>1. /\ DOMAIN u = DOMAIN t /\ u.statusTimer = t.statusTimer /\ u.err = t.err
      /\ KeepsPdus(u, t) /\ KeepsCommands(u, t) /\ KeepsSdus(u, t)
      /\ u.discarded = t.discarded /\ u.received = t.received \cup A
      /\ u.pduTimer = t.pduTimer \ (A \ t.received)
  BY DEF Typed, TxStart, KeepsPdus, KeepsCommands, KeepsSdus
<1> HIDE DEF u
<1>2. Outstanding(u) = Outstanding(t) /\ Resolved(u) = Resolved(t) \cup A
  BY <1>1 DEF Outstanding, Resolved, KeepsPdus
<1>3. TypedPdus(u) /\ TypedCommands(u) /\ TypedSdus(u)
  BY <1>1 DEF Typed, TypedPdus, TypedCommands, TypedSdus, KeepsPdus, KeepsCommands, KeepsSdus
<1>4. Typed(u)
  BY <1>1, <1>3 DEF Typed
<1>5. Window(u)
  BY <1>1, <1>2 DEF Window, KeepsPdus
<1>6. Discards(u)
  BY <1>1, <1>2 DEF Discards, KeepsPdus, KeepsSdus
<1>7. Commands(u)
  BY <1>1, <1>2 DEF Commands, KeepsPdus, KeepsCommands
<1>8. u.err = "none" => Timers(u)
  BY <1>1, <1>2 DEF Timers, Resolved
<1> QED BY <1>4, <1>5, <1>6, <1>7, <1>8 DEF u

LEMMA RecvCumulativeAckInv ==
  ASSUME NEW t, Inv(t), NEW sn \in Int
  PROVE  Inv(RecvCumulativeAck(t, sn))
<1>1. CASE sn < t.firstSeqNum
  BY <1>1 DEF RecvCumulativeAck
<1>2. CASE ~(sn < t.firstSeqNum) /\ sn >= t.firstSeqNum + TxWindowSize
  <2>1. RecvCumulativeAck(t, sn) = Fail(t, "recvCumulativeAck: out of window")
    BY <1>2 DEF RecvCumulativeAck
  <2> QED BY <2>1, FailInv DEF Inv, TxErrors, InternalErrors
<1>3. CASE ~(sn < t.firstSeqNum) /\ ~(sn >= t.firstSeqNum + TxWindowSize)
  <2> DEFINE A == t.firstSeqNum .. sn
             u == [t EXCEPT !.pduTimer = @ \ (A \ t.received), !.received = @ \cup A]
  <2>1. {s \in A : s \notin t.received} = A \ t.received /\ A \in SUBSET Nat
    BY DEF Inv, Core, Typed, TypedPdus
  <2>2. RecvCumulativeAck(t, sn) = CheckForMrw(u)
    BY <1>3, <2>1 DEF RecvCumulativeAck
  <2>3. Inv(u)
    BY <2>1, ReceivedInv
  <2> HIDE DEF u
  <2> QED BY <2>2, <2>3, CheckForMrwCore DEF Inv
<1> QED BY <1>1, <1>2, <1>3

LEMMA RecvAcksInv ==
  ASSUME NEW t, Inv(t), NEW S \in SUBSET Nat
  PROVE  Inv(RecvAcks(t, S))
<1> DEFINE new == {s \in S : s >= t.firstSeqNum}
<1>1. CASE \E s \in new : s >= t.firstSeqNum + TxWindowSize
  <2>1. RecvAcks(t, S) = Fail(t, "recvAck: out of window")
    BY <1>1 DEF RecvAcks
  <2> QED BY <2>1, FailInv DEF Inv, TxErrors, InternalErrors
<1>2. CASE ~ \E s \in new : s >= t.firstSeqNum + TxWindowSize
  <2>1. RecvAcks(t, S) = [t EXCEPT !.pduTimer = @ \ (new \ t.received), !.received = @ \cup new]
    BY <1>2 DEF RecvAcks
  <2>2. new \in SUBSET Nat
    OBVIOUS
  <2> HIDE DEF new
  <2> QED BY ZenonT(60), <2>1, <2>2, ReceivedInv
<1> QED BY <1>1, <1>2

\* Forgetting a command, and its timer with it.
LEMMA ForgetMrwInv ==
  ASSUME NEW t, Inv(t), NEW m,
         NEW u, DOMAIN u = DOMAIN t,
         KeepsPdus(u, t), KeepsMarks(u, t), KeepsSdus(u, t),
         u.pduTimer = t.pduTimer, u.statusTimer = t.statusTimer, u.err = t.err,
         u.mrwSeqNum = t.mrwSeqNum, u.mrwTimer = t.mrwTimer \ {m},
         u.mrwRtxQueue = [k \in DOMAIN t.mrwRtxQueue \ {m} |-> t.mrwRtxQueue[k]]
  PROVE  Inv(u)
<1> USE DEF Inv, Core
<1>1. Outstanding(u) = Outstanding(t) /\ Resolved(u) = Resolved(t)
  BY DEF Outstanding, Resolved, KeepsPdus, KeepsMarks
<1>2. TypedCommands(u)
  BY DEF Typed, TypedCommands
<1>3. TypedPdus(u) /\ TypedSdus(u)
  BY DEF Typed, TypedPdus, TypedSdus, KeepsPdus, KeepsMarks, KeepsSdus
<1>4. Typed(u)
  BY <1>2, <1>3 DEF Typed
<1>5. Window(u)
  BY <1>1 DEF Window, KeepsPdus
<1>6. Discards(u)
  BY <1>1 DEF Discards, KeepsPdus, KeepsMarks, KeepsSdus
<1>7. Commands(u)
  BY <1>1 DEF Commands, KeepsPdus
<1>8. u.err = "none" => Timers(u)
  BY <1>1 DEF Timers
<1> QED BY <1>4, <1>5, <1>6, <1>7, <1>8

LEMMA RecvMrwAckInv ==
  ASSUME NEW t, Inv(t), NEW m
  PROVE  Inv(RecvMrwAck(t, m))
<1> DEFINE u == RecvMrwAck(t, m)
<1>1. /\ DOMAIN u = DOMAIN t /\ KeepsPdus(u, t) /\ KeepsMarks(u, t) /\ KeepsSdus(u, t)
      /\ u.pduTimer = t.pduTimer /\ u.statusTimer = t.statusTimer /\ u.err = t.err
      /\ u.mrwSeqNum = t.mrwSeqNum /\ u.mrwTimer = t.mrwTimer \ {m}
      /\ u.mrwRtxQueue = [k \in DOMAIN t.mrwRtxQueue \ {m} |-> t.mrwRtxQueue[k]]
  BY DEF RecvMrwAck, Inv, Core, Typed, TxStart, KeepsPdus, KeepsMarks, KeepsSdus
<1> HIDE DEF u
<1> QED BY <1>1, ForgetMrwInv DEF u

LEMMA HandleControlPacketInv ==
  ASSUME NEW t, Inv(t), NEW p \in ControlPdu
  PROVE  Inv(HandleControlPacket(t, p))
<1>1. CASE p.type = "MRW_ACK"
  <2>1. p.firstSn \in Nat
    BY <1>1 DEF ControlPdu
  <2>2. Inv(MoveTxWindow(t, p.firstSn))
    BY <2>1, MoveTxWindowInv
  <2> QED BY <1>1, <2>2, RecvMrwAckInv DEF HandleControlPacket
<1>2. CASE p.type # "MRW_ACK"
  <2>1. p.lastSn \in Int /\ p.bitmap \in SUBSET Nat
    BY <1>2 DEF ControlPdu
  <2>2. Inv(RecvCumulativeAck(t, p.lastSn))
    BY <2>1, RecvCumulativeAckInv
  <2> QED BY <1>2, <2>1, <2>2, RecvAcksInv DEF HandleControlPacket
<1> QED BY <1>1, <1>2
-----------------------------------------------------------------------------
(* Timers                                                                  *)

\* A running timer belongs to an unresolved PDU, so the checks of
\* pduTimerHandle pass.
LEMMA PduTimerHandleInv ==
  ASSUME NEW t0, Inv(t0), t0.err = "none", NEW sn \in t0.pduTimer
  PROVE  Inv(PduTimerHandle(t0, sn))
<1> DEFINE t == [t0 EXCEPT !.pduTimer = @ \ {sn}]
<1> USE DEF Inv, Core
<1>1. /\ DOMAIN t = DOMAIN t0 /\ t.statusTimer = t0.statusTimer /\ t.err = t0.err
      /\ KeepsPdus(t, t0) /\ KeepsMarks(t, t0) /\ KeepsCommands(t, t0) /\ KeepsSdus(t, t0)
      /\ t.pduTimer = t0.pduTimer \ {sn}
  BY DEF Typed, TxStart, KeepsPdus, KeepsMarks, KeepsCommands, KeepsSdus
<1>2. PduTimerHandle(t0, sn) =
        IF sn < t.firstSeqNum \/ sn >= t.firstSeqNum + TxWindowSize
        THEN Fail(t, "pduTimerHandle: out of window")
        ELSE IF sn \notin DOMAIN t.rtxQueue THEN Fail(t, "pduTimerHandle: PDU not found")
        ELSE IF sn \in t.received THEN Fail(t, "pduTimerHandle: already received")
        ELSE IF PduFailed(t, sn) THEN Discard(t, sn)
        ELSE [t EXCEPT !.rtxQueue[sn] = @ + 1,
                       !.pduTimer     = @ \cup {sn},
                       !.out          = @ \cup {DataPdu(sn, t.rtxQueue[sn] + 1)}]
  BY DEF PduTimerHandle
<1> HIDE DEF t
<1>3. Outstanding(t) = Outstanding(t0) /\ Resolved(t) = Resolved(t0)
  BY <1>1 DEF Outstanding, Resolved, KeepsPdus, KeepsMarks
<1>4. /\ sn \in Outstanding(t) /\ sn \notin Resolved(t)
      /\ t.pduTimer = (Outstanding(t) \ Resolved(t)) \ {sn}
  BY <1>1, <1>3 DEF Timers
<1>5. Core(t)
  <2>1. TypedPdus(t) /\ TypedCommands(t) /\ TypedSdus(t)
    BY <1>1 DEF Typed, TypedPdus, TypedCommands, TypedSdus,
                KeepsPdus, KeepsMarks, KeepsCommands, KeepsSdus
  <2>2. Typed(t)
    BY <1>1, <2>1 DEF Typed
  <2>3. Window(t)
    BY <1>1, <1>3 DEF Window, KeepsPdus
  <2>4. Discards(t)
    BY <1>1, <1>3 DEF Discards, KeepsPdus, KeepsMarks, KeepsSdus
  <2>5. Commands(t)
    BY <1>1, <1>3 DEF Commands, KeepsPdus, KeepsCommands
  <2> QED BY <2>2, <2>3, <2>4, <2>5
<1>6. /\ ~(sn < t.firstSeqNum \/ sn >= t.firstSeqNum + TxWindowSize)
      /\ sn \in DOMAIN t.rtxQueue /\ sn \notin t.received
  <2>1. sn >= t.firstSeqNum /\ sn < t.seqNum /\ sn \in Int
    BY <1>4, <1>5 DEF Typed, TypedPdus, Outstanding
  <2>2. sn < t.firstSeqNum + TxWindowSize
    BY <1>5, <2>1, TxAssumption DEF Typed, TypedPdus, Window
  <2> QED BY <1>4, <1>5, <2>1, <2>2, TxAssumption DEF Typed, TypedPdus, Window, Resolved
<1>7. CASE PduFailed(t, sn)
  <2>1. PduTimerHandle(t0, sn) = Discard(t, sn)
    BY <1>2, <1>6, <1>7
  <2> QED BY <1>4, <1>5, <2>1, DiscardInv
<1>8. CASE ~PduFailed(t, sn)
  <2> DEFINE u == [t EXCEPT !.rtxQueue[sn] = @ + 1,
                            !.pduTimer     = @ \cup {sn},
                            !.out          = @ \cup {DataPdu(sn, t.rtxQueue[sn] + 1)}]
  <2>1. /\ DOMAIN u = DOMAIN t /\ u.statusTimer = t.statusTimer /\ u.err = t.err
        /\ KeepsMarks(u, t) /\ KeepsCommands(u, t) /\ KeepsSdus(u, t)
        /\ u.firstSeqNum = t.firstSeqNum /\ u.seqNum = t.seqNum /\ u.header = t.header
        /\ u.rtxQueue = [t.rtxQueue EXCEPT ![sn] = @ + 1]
        /\ u.pduTimer = t.pduTimer \cup {sn}
    BY <1>5 DEF Typed, TxStart, KeepsMarks, KeepsCommands, KeepsSdus
  <2>2. PduTimerHandle(t0, sn) = u
    BY <1>2, <1>6, <1>8
  <2> HIDE DEF u
  <2>3. u.rtxQueue \in [DOMAIN u.rtxQueue -> 0 .. MaxRtx] /\ DOMAIN u.rtxQueue = DOMAIN t.rtxQueue
    <3>1. t.rtxQueue[sn] \in 0 .. MaxRtx /\ t.rtxQueue[sn] + 1 <= MaxRtx
      BY <1>5, <1>6, <1>8, TxAssumption DEF Typed, TypedPdus, PduFailed
    <3> QED BY SMTT(30), <1>5, <1>6, <2>1, <3>1, TxAssumption DEF Typed, TypedPdus
  <2>4. Outstanding(u) = Outstanding(t) /\ Resolved(u) = Resolved(t)
    BY <2>1 DEF Outstanding, Resolved, KeepsMarks
  <2>5. TypedPdus(u)
    <3>1. sn \in Nat
      BY DEF Typed, TypedPdus
    <3> QED BY <1>5, <2>1, <2>3, <3>1 DEF Typed, TypedPdus, KeepsMarks
  <2>6. TypedCommands(u) /\ TypedSdus(u)
    BY <1>5, <2>1 DEF Typed, TypedCommands, TypedSdus, KeepsCommands, KeepsSdus
  <2>7. Typed(u)
    BY <1>5, <2>1, <2>5, <2>6 DEF Typed
  <2>8. Window(u)
    BY <1>5, <2>1, <2>3, <2>4 DEF Window
  <2>9. Discards(u) /\ Commands(u)
    BY <1>5, <2>1, <2>4 DEF Discards, Commands, KeepsMarks, KeepsCommands, KeepsSdus
  <2>10. Timers(u)
    BY <1>4, <2>1, <2>4 DEF Timers
  <2> QED BY <2>2, <2>7, <2>8, <2>9, <2>10
<1> QED BY <1>7, <1>8

LEMMA MrwTimerHandleInv ==
  ASSUME NEW t0, Inv(t0), NEW m \in t0.mrwTimer
  PROVE  Inv(MrwTimerHandle(t0, m))
<1> DEFINE t == [t0 EXCEPT !.mrwTimer = @ \ {m}]
           u == MrwTimerHandle(t0, m)
<1> USE DEF Inv, Core
<1>1. /\ DOMAIN t = DOMAIN t0 /\ KeepsPdus(t, t0) /\ KeepsMarks(t, t0) /\ KeepsSdus(t, t0)
      /\ t.pduTimer = t0.pduTimer /\ t.statusTimer = t0.statusTimer /\ t.err = t0.err
      /\ t.mrwSeqNum = t0.mrwSeqNum /\ t.mrwRtxQueue = t0.mrwRtxQueue
      /\ t.mrwTimer = t0.mrwTimer \ {m}
  BY DEF Typed, TxStart, KeepsPdus, KeepsMarks, KeepsSdus
<1>2. m \in DOMAIN t.mrwRtxQueue
  BY <1>1 DEF Commands
<1>3. CASE m < t.mrwSeqNum - 1
  <2>1. u = [t EXCEPT !.mrwRtxQueue = [k \in DOMAIN t.mrwRtxQueue \ {m} |-> t.mrwRtxQueue[k]]]
    BY <1>2, <1>3 DEF MrwTimerHandle
  <2> HIDE DEF t, u
  <2>2. /\ DOMAIN u = DOMAIN t0 /\ KeepsPdus(u, t0) /\ KeepsMarks(u, t0) /\ KeepsSdus(u, t0)
        /\ u.pduTimer = t0.pduTimer /\ u.statusTimer = t0.statusTimer /\ u.err = t0.err
        /\ u.mrwSeqNum = t0.mrwSeqNum /\ u.mrwTimer = t0.mrwTimer \ {m}
        /\ u.mrwRtxQueue = [k \in DOMAIN t0.mrwRtxQueue \ {m} |-> t0.mrwRtxQueue[k]]
    BY <1>1, <2>1 DEF Typed, TxStart, KeepsPdus, KeepsMarks, KeepsSdus
  <2>3. Inv(u)
    <3> HIDE DEF Inv
    <3> QED BY <2>2, ForgetMrwInv
  <2> QED BY <2>3 DEF u
<1>4. CASE ~(m < t.mrwSeqNum - 1)
  <2>1. u = [t EXCEPT !.mrwTimer = @ \cup {m}, !.out = @ \cup {MrwPdu(m, t.mrwRtxQueue[m])}]
    BY <1>2, <1>4 DEF MrwTimerHandle
  <2> HIDE DEF t, u
  <2>2. /\ DOMAIN u = DOMAIN t0 /\ KeepsPdus(u, t0) /\ KeepsMarks(u, t0) /\ KeepsSdus(u, t0)
        /\ u.pduTimer = t0.pduTimer /\ u.statusTimer = t0.statusTimer /\ u.err = t0.err
        /\ u.mrwSeqNum = t0.mrwSeqNum /\ u.mrwRtxQueue = t0.mrwRtxQueue
        /\ u.mrwTimer = t0.mrwTimer
    BY <1>1, <2>1 DEF Typed, TxStart, KeepsPdus, KeepsMarks, KeepsSdus
  <2>3. Outstanding(u) = Outstanding(t0) /\ Resolved(u) = Resolved(t0)
    BY <2>2 DEF Outstanding, Resolved, KeepsPdus, KeepsMarks
  <2>4. Typed(u)
    BY <2>2 DEF Typed, TypedPdus, TypedCommands, TypedSdus, KeepsPdus, KeepsMarks, KeepsSdus
  <2>5. Window(u) /\ Discards(u) /\ Commands(u) /\ (u.err = "none" => Timers(u))
    BY <2>2, <2>3 DEF Window, Discards, Commands, Timers, KeepsPdus, KeepsMarks, KeepsSdus
  <2> QED BY <2>4, <2>5 DEF u
<1> QED BY <1>3, <1>4

\* The MAC takes the PDUs, or the buffer status timer stops.
LEMMA ClearedInv ==
  ASSUME NEW t, Inv(t), NEW u, DOMAIN u = DOMAIN t,
         KeepsPdus(u, t), KeepsMarks(u, t), KeepsCommands(u, t), KeepsSdus(u, t),
         u.pduTimer = t.pduTimer, u.statusTimer \in BOOLEAN, u.err = t.err
  PROVE  Inv(u)
<1> USE DEF Inv, Core
<1>1. Outstanding(u) = Outstanding(t) /\ Resolved(u) = Resolved(t)
  BY DEF Outstanding, Resolved, KeepsPdus, KeepsMarks
<1>2. Typed(u)
  BY DEF Typed, TypedPdus, TypedCommands, TypedSdus, KeepsPdus, KeepsMarks, KeepsCommands, KeepsSdus
<1>3. Window(u) /\ Discards(u) /\ Commands(u) /\ (u.err = "none" => Timers(u))
  BY <1>1 DEF Window, Discards, Commands, Timers, KeepsPdus, KeepsMarks, KeepsCommands, KeepsSdus
<1> QED BY <1>2, <1>3

LEMMA BufferStatusTimerHandleInv ==
  ASSUME NEW t, Inv(t)
  PROVE  Inv(BufferStatusTimerHandle(t))
<1> DEFINE c == CheckForMrw(t)
           u == BufferStatusTimerHandle(t)
<1>1. Inv(c)
  BY CheckForMrwCore DEF Inv
<1>2. u = [c EXCEPT !.statusTimer = FALSE]
  BY DEF BufferStatusTimerHandle
<1> HIDE DEF c, u
<1>3. /\ DOMAIN u = DOMAIN c /\ u.pduTimer = c.pduTimer /\ u.statusTimer = FALSE
      /\ KeepsPdus(u, c) /\ KeepsMarks(u, c) /\ KeepsCommands(u, c) /\ KeepsSdus(u, c)
      /\ u.err = c.err
  BY <1>1, <1>2 DEF Inv, Core, Typed, TxStart, KeepsPdus, KeepsMarks, KeepsCommands, KeepsSdus
<1>4. Inv(u)
  BY <1>1, <1>3, ClearedInv
<1> QED BY <1>4 DEF u
-----------------------------------------------------------------------------
(* The invariant of TxSpec and what it implies                             *)

TxInv == Inv(tx) /\ tx.out = {}

LEMMA TxInitInv == TxInit => TxInv
<1> SUFFICES ASSUME tx = TxStart PROVE TxInv
  BY DEF TxInit
<1>1. /\ tx.firstSeqNum = 0 /\ tx.seqNum = 0 /\ tx.mrwSeqNum = 0 /\ tx.nextSdu = 0
      /\ tx.backlog = 0 /\ tx.statusTimer = FALSE /\ tx.err = "none" /\ tx.out = {}
      /\ \A S \in {tx.received, tx.discarded, tx.pduTimer, tx.mrwTimer, tx.lost, tx.givenUp} :
           S = {}
      /\ tx.header = [s \in {} |-> 0] /\ tx.rtxQueue = [s \in {} |-> 0]
      /\ tx.mrwRtxQueue = [m \in {} |-> 0]
  BY DEF TxStart
<1>2. Outstanding(tx) = {}
  BY <1>1 DEF Outstanding
<1>3. Typed(tx)
  <2>1. tx.header \in [0 .. tx.seqNum - 1 -> Header]
    BY <1>1
  <2>2. TypedPdus(tx) /\ TypedCommands(tx) /\ TypedSdus(tx)
    BY <1>1, <2>1 DEF TypedPdus, TypedCommands, TypedSdus
  <2> QED BY <1>1, <2>2 DEF Typed, TxErrors, InternalErrors
<1>4. Window(tx) /\ Timers(tx)
  BY <1>1, <1>2, TxAssumption DEF Window, Timers
<1>5. Discards(tx) /\ Commands(tx)
  BY <1>1, <1>2 DEF Discards, Commands
<1> QED BY <1>1, <1>3, <1>4, <1>5 DEF TxInv, Inv, Core

LEMMA TxBecomesInv ==
  ASSUME NEW t, Inv(t), TxBecomes(t)
  PROVE  TxInv'
<1> DEFINE u == [t EXCEPT !.out = {}]
<1>1. /\ DOMAIN u = DOMAIN t /\ u.pduTimer = t.pduTimer /\ u.statusTimer = t.statusTimer
      /\ KeepsPdus(u, t) /\ KeepsMarks(u, t) /\ KeepsCommands(u, t) /\ KeepsSdus(u, t)
      /\ u.err = t.err /\ u.out = {} /\ t.statusTimer \in BOOLEAN
  BY DEF Inv, Core, Typed, TxStart, KeepsPdus, KeepsMarks, KeepsCommands, KeepsSdus
<1> HIDE DEF u
<1>2. Inv(u)
  BY <1>1, ClearedInv
<1>3. tx' = u
  BY DEF TxBecomes, u
<1> QED BY <1>1, <1>2, <1>3 DEF TxInv

LEMMA TxNextInv == TxInv /\ [TxNext]_tx => TxInv'
<1> SUFFICES ASSUME TxInv, [TxNext]_tx PROVE TxInv'
  OBVIOUS
<1>1. Inv(tx)
  BY DEF TxInv
<1>2. CASE UNCHANGED tx
  BY <1>2 DEF TxInv
<1>3. ASSUME NEW n \in Nat \ {0}, TxBecomes(Enque(tx, n)) PROVE TxInv'
  BY <1>1, <1>3, EnqueInv, TxBecomesInv
<1>4. ASSUME NEW p \in ControlPdu, TxBecomes(HandleControlPacket(tx, p)) PROVE TxInv'
  BY <1>1, <1>4, HandleControlPacketInv, TxBecomesInv
<1>5. ASSUME NEW sn \in tx.pduTimer, TxBecomes(PduTimerHandle(tx, sn)) PROVE TxInv'
  <2>1. tx.err = "none"
    BY <1>5 DEF TxBecomes
  <2>2. Inv(PduTimerHandle(tx, sn))
    BY <1>1, <2>1, PduTimerHandleInv
  <2> QED BY <1>5, <2>2, TxBecomesInv
<1>6. ASSUME NEW m \in tx.mrwTimer, TxBecomes(MrwTimerHandle(tx, m)) PROVE TxInv'
  BY <1>1, <1>6, MrwTimerHandleInv, TxBecomesInv
<1>7. ASSUME tx.statusTimer, TxBecomes(BufferStatusTimerHandle(tx)) PROVE TxInv'
  BY <1>1, <1>7, BufferStatusTimerHandleInv, TxBecomesInv
<1> QED BY <1>2, <1>3, <1>4, <1>5, <1>6, <1>7 DEF TxNext

LEMMA TxInvProperties ==
  TxInv => TxTypeOK /\ TimersCoverUnresolved /\ WindowNeverFull /\ DiscardsWholeSdu
           /\ MrwOrdered /\ NoInternalError
<1> SUFFICES ASSUME TxInv
             PROVE  TxTypeOK /\ TimersCoverUnresolved /\ WindowNeverFull /\ DiscardsWholeSdu
                    /\ MrwOrdered /\ NoInternalError
  OBVIOUS
<1> USE DEF TxInv, Inv, Core
<1>1. TxTypeOK
  BY DEF TxTypeOK, Typed, TypedPdus, TypedCommands, TypedSdus
<1>2. TimersCoverUnresolved
  BY DEF TimersCoverUnresolved, Window, Timers
<1>3. WindowNeverFull
  BY DEF WindowNeverFull, Window, Typed, TypedSdus
<1>4. DiscardsWholeSdu
  BY DEF DiscardsWholeSdu, Discards
<1>5. MrwOrdered
  BY DEF MrwOrdered, Commands
<1>6. NoInternalError
  BY DEF NoInternalError, Typed
<1> QED BY <1>1, <1>2, <1>3, <1>4, <1>5, <1>6

LEMMA TxSpecInv == TxSpec => []TxInv
BY TxInitInv, TxNextInv, PTL DEF TxSpec

\* The record keeps its shape in every execution, whatever the peer sends.
THEOREM TxTypeCorrect == TxSpec => []TxTypeOK
<1>1. TxInv => TxTypeOK
  BY TxInvProperties
<1> QED BY <1>1, TxSpecInv, PTL

\* The retransmission queue and the PDU timers of AmTxQueue always cover
\* exactly the PDUs that still need them.
THEOREM TxTimersCoverUnresolved == TxSpec => []TimersCoverUnresolved
<1>1. TxInv => TimersCoverUnresolved
  BY TxInvProperties
<1> QED BY <1>1, TxSpecInv, PTL

\* addPdus never fills the transmission window and no SDU waits in sduQueue_.
THEOREM TxWindowNeverFull == TxSpec => []WindowNeverFull
<1>1. TxInv => WindowNeverFull
  BY TxInvProperties
<1> QED BY <1>1, TxSpecInv, PTL

\* discard gives up the PDUs of an SDU together.
THEOREM TxDiscardsWholeSdu == TxSpec => []DiscardsWholeSdu
<1>1. TxInv => DiscardsWholeSdu
  BY TxInvProperties
<1> QED BY <1>1, TxSpecInv, PTL

\* The newest stored MRW command supersedes the others.
THEOREM TxMrwOrdered == TxSpec => []MrwOrdered
<1>1. TxInv => MrwOrdered
  BY TxInvProperties
<1> QED BY <1>1, TxSpecInv, PTL

\* The checks of AmTxQueue on its own data never fail, whatever control PDUs
\* the peer sends.
THEOREM TxNoInternalError == TxSpec => []NoInternalError
<1>1. TxInv => NoInternalError
  BY TxInvProperties
<1> QED BY <1>1, TxSpecInv, PTL
-----------------------------------------------------------------------------
(* RlcAm                                                                    *)

\* What the sender can have outstanding: the bound on the load, or the window
\* of which addPdus always leaves a position free.
Used == IF MaxLoad < TxWindowSize THEN MaxLoad ELSE TxWindowSize - 1

\* Hypotheses of theorems.  Without the first, moveRxWindow leaves marks behind;
\* without the second, an SDU whose beginning left the window can be forgotten.
HalfWindow == 2 * Used <= RxWindowSize
ShortSdus  == SduSizes \subseteq {1, 2}
-----------------------------------------------------------------------------
(* The sender, next to a receiver that has accepted the PDUs A and whose    *)
(* window begins at F                                                       *)

\* The PDUs of an SDU are an interval, with one header.
Headers(t) ==
  \A r, s \in DOMAIN t.header :
    /\ t.header[s].firstSn <= s /\ s <= t.header[s].lastSn /\ t.header[s].lastSn < t.seqNum
    /\ r \in t.header[s].firstSn .. t.header[s].lastSn \/ t.header[r].sdu = t.header[s].sdu
         => t.header[r] = t.header[s]
    /\ ShortSdus => t.header[s].lastSn <= t.header[s].firstSn + 1

\* Every SDU so far has PDUs or was lost, not both.
Numbered(t) ==
  /\ t.nextSdu <= MaxSdus
  /\ t.lost \subseteq 0 .. t.nextSdu - 1
  /\ \A s \in DOMAIN t.header : t.header[s].sdu \notin t.lost
  /\ \A n \in (0 .. t.nextSdu - 1) \ t.lost : \E s \in DOMAIN t.header : t.header[s].sdu = n

\* What the sender may send: PDUs it has built, and commands that skip only
\* what is resolved.
Sends(t, p) ==
  CASE p.type = "DATA" -> p.sn \in DOMAIN t.header
    [] p.type = "MRW"  -> /\ p.lastSn \in Nat /\ p.lastSn <= t.seqNum /\ p.mrw \in Nat
                          /\ t.firstSeqNum .. p.lastSn - 1 \subseteq Resolved(t)
    [] OTHER -> FALSE

\* What the receiver may answer: its window start, and PDUs that it has accepted
\* or that were skipped.
Answers(t, A, F, p) ==
  /\ p \in ControlPdu
  /\ p.type = "MRW_ACK" => p.firstSn <= F
  /\ p.type = "ACK" => /\ p.lastSn < t.seqNum /\ p.bitmap \subseteq A
                       /\ t.firstSeqNum .. p.lastSn \subseteq A \cup t.discarded

\* The window, against that of the receiver.
Apart(t, F) == t.firstSeqNum <= F /\ F <= t.seqNum /\ t.seqNum <= t.firstSeqNum + Used

\* What is acknowledged was accepted or given up; so is what was skipped.
True(t, A, F) ==
  /\ A \subseteq DOMAIN t.header
  /\ t.received \subseteq (A \cup t.discarded) \cap Outstanding(t)
  /\ t.firstSeqNum .. F - 1 \subseteq Resolved(t)
  /\ \A s \in t.discarded : t.header[s].sdu \in t.givenUp
  /\ \A s \in 0 .. t.firstSeqNum - 1 : s \in A \/ t.header[s].sdu \in t.givenUp
  /\ t.givenUp \subseteq {t.header[s].sdu : s \in DOMAIN t.header}

Sound(t, A, F) ==
  Inv(t) /\ t.err = "none" /\ Headers(t) /\ Numbered(t) /\ Apart(t, F) /\ True(t, A, F)
-----------------------------------------------------------------------------
(* The receiver                                                             *)

RxTyped(r) ==
  /\ DOMAIN r = DOMAIN RxStart /\ r.firstSeqNum \in Nat /\ r.seqNum \in Nat
  /\ r.firstSdu \in Nat \cup {NoSdu}

\* What is buffered, marked and waiting is what was accepted.
Buffers(r) ==
  /\ r.pduBuffer = {s \in r.accepted : s >= r.firstSeqNum}
  /\ r.received = {s - r.firstSeqNum : s \in r.pduBuffer}
  /\ r.pending \subseteq r.accepted

\* What was passed up is complete and, if SDUs have at most two PDUs, what is
\* complete was passed up.
Passes(r, h) ==
  /\ r.badSdu = {}
  /\ r.passedUp \subseteq {h[s].sdu : s \in r.accepted}
  /\ \A s \in DOMAIN h : h[s].sdu \in r.passedUp => s \in r.accepted
  /\ ShortSdus /\ r.err = "none" =>
       \A s \in r.accepted : h[s].firstSn .. h[s].lastSn \subseteq r.accepted
                               => h[s].sdu \in r.passedUp

IInv ==
  /\ tx.out = {} /\ rx.out = {}
  /\ IsABag(toRx) /\ IsABag(toTx) /\ losses \in 0 .. MaxLoss
  /\ Sound(tx, rx.accepted, rx.firstSeqNum)
  /\ RxTyped(rx) /\ Buffers(rx) /\ Passes(rx, tx.header)
  /\ \A p \in BagToSet(toRx) : Sends(tx, p)
  /\ \A p \in BagToSet(toTx) : Answers(tx, rx.accepted, rx.firstSeqNum, p)
-----------------------------------------------------------------------------
(* Bags                                                                     *)

LEMMA BagsAdded ==
  ASSUME NEW B, NEW S, IsABag(B)
  PROVE  /\ IsABag(B (+) SetToBag(S))
         /\ BagToSet(B (+) SetToBag(S)) = BagToSet(B) \cup S
BY DEF IsABag, BagToSet, SetToBag, (+)

LEMMA BagsTaken ==
  ASSUME NEW B, NEW S, IsABag(B)
  PROVE  /\ IsABag(B (-) SetToBag(S))
         /\ BagToSet(B (-) SetToBag(S)) \subseteq BagToSet(B)
BY DEF IsABag, BagToSet, SetToBag, (-)
-----------------------------------------------------------------------------
(* What a step of the sender leaves to be done                              *)

\* The window moves forward; what is built, marked and not yet left is kept.
Grows(u, t) ==
  /\ t.firstSeqNum <= u.firstSeqNum /\ t.seqNum <= u.seqNum
  /\ \A s \in DOMAIN t.header : s \in DOMAIN u.header /\ u.header[s] = t.header[s]
  /\ \A s \in t.received : s >= u.firstSeqNum => s \in u.received
  /\ \A s \in t.discarded : s >= u.firstSeqNum => s \in u.discarded

Moved(u, t) == t.firstSeqNum .. u.firstSeqNum - 1 \subseteq Resolved(t)

\* Only commands, timers and copies change.
Same(u, t) ==
  /\ u.firstSeqNum = t.firstSeqNum /\ u.seqNum = t.seqNum /\ u.header = t.header
  /\ KeepsMarks(u, t) /\ KeepsSdus(u, t) /\ u.err = t.err

SendsAll(t) == \A p \in t.out : Sends(t, p)

\* What each operator guarantees.
Safe(u, t, A, F) == Sound(u, A, F) /\ Grows(u, t) /\ Moved(u, t) /\ SendsAll(u)

\* No SDU is added or given up, or one is given up of which a PDU is unresolved.
Plain(u, t) ==
  /\ u.seqNum = t.seqNum /\ u.header = t.header /\ u.nextSdu = t.nextSdu /\ u.lost = t.lost
  /\ u.givenUp = t.givenUp
GivesUp(u, t) ==
  /\ u.firstSeqNum = t.firstSeqNum /\ u.received = t.received
  /\ u.seqNum = t.seqNum /\ u.header = t.header /\ u.nextSdu = t.nextSdu /\ u.lost = t.lost
  /\ \E s \in Outstanding(t) \ Resolved(t) : u.givenUp = t.givenUp \cup {t.header[s].sdu}

LEMMA SoundTypes ==
  ASSUME NEW t, NEW A, NEW F, Sound(t, A, F)
  PROVE  /\ DOMAIN t = DOMAIN TxStart /\ t.err = "none"
         /\ t.firstSeqNum \in Nat /\ t.seqNum \in Nat /\ t.firstSeqNum <= t.seqNum
         /\ t.seqNum < t.firstSeqNum + TxWindowSize
         /\ t.header \in [0 .. t.seqNum - 1 -> Header]
         /\ DOMAIN t.header = 0 .. t.seqNum - 1
         /\ t.received \subseteq Outstanding(t) /\ t.discarded \subseteq Outstanding(t)
         /\ t.nextSdu \in Nat /\ Inv(t) /\ Core(t) /\ Timers(t)
<1>1. /\ DOMAIN t = DOMAIN TxStart /\ t.err = "none" /\ Core(t) /\ Inv(t) /\ Timers(t)
      /\ t.firstSeqNum \in Nat /\ t.seqNum \in Nat /\ t.nextSdu \in Nat
      /\ t.header \in [0 .. t.seqNum - 1 -> Header]
  BY DEF Sound, Inv, Core, Typed, TypedPdus, TypedSdus
<1>2. /\ t.firstSeqNum <= t.seqNum /\ t.seqNum - t.firstSeqNum < TxWindowSize
      /\ t.discarded \subseteq Outstanding(t)
  BY <1>1 DEF Core, Window, Discards
<1>3. t.received \subseteq Outstanding(t)
  BY DEF Sound, True
<1> QED BY <1>1, <1>2, <1>3, TxAssumption

LEMMA SendsKept ==
  ASSUME NEW t, NEW u, Grows(u, t), t.firstSeqNum \in Nat, u.firstSeqNum \in Nat,
         t.seqNum \in Nat, u.seqNum \in Nat, NEW p, Sends(t, p)
  PROVE  Sends(u, p)
<1>1. CASE p.type = "DATA"
  BY <1>1 DEF Sends, Grows
<1>2. CASE p.type = "MRW"
  BY <1>2 DEF Sends, Grows, Resolved
<1> QED BY <1>1, <1>2 DEF Sends

LEMMA AnswersKept ==
  ASSUME NEW t, NEW u, Grows(u, t), t.firstSeqNum \in Nat, u.firstSeqNum \in Nat,
         t.seqNum \in Nat, u.seqNum \in Nat, NEW A, NEW F, NEW p, Answers(t, A, F, p)
  PROVE  Answers(u, A, F, p)
<1>1. CASE p.type = "ACK"
  <2>1. /\ p \in ControlPdu /\ p.lastSn < t.seqNum /\ p.bitmap \subseteq A
        /\ t.firstSeqNum .. p.lastSn \subseteq A \cup t.discarded
    BY <1>1 DEF Answers
  <2>2. p.lastSn \in Int
    BY <1>1, <2>1 DEF ControlPdu
  <2>3. u.firstSeqNum .. p.lastSn \subseteq A \cup u.discarded /\ p.lastSn < u.seqNum
    BY <2>1, <2>2 DEF Grows
  <2> QED BY <1>1, <2>1, <2>3 DEF Answers
<1>2. CASE p.type # "ACK"
  BY <1>2 DEF Answers
<1> QED BY <1>1, <1>2

LEMMA GrowsTransitive ==
  ASSUME NEW t, NEW u, NEW v, Grows(u, t), Grows(v, u),
         t.firstSeqNum \in Nat, u.firstSeqNum \in Nat, v.firstSeqNum \in Nat,
         t.seqNum \in Nat, u.seqNum \in Nat, v.seqNum \in Nat,
         t.received \subseteq Nat, t.discarded \subseteq Nat
  PROVE  Grows(v, t)
BY DEF Grows

LEMMA SameSound ==
  ASSUME NEW t, NEW u, NEW A, NEW F, Sound(t, A, F), Inv(u), Same(u, t)
  PROVE  Sound(u, A, F) /\ Grows(u, t) /\ Moved(u, t)
<1> USE DEF Same, KeepsMarks, KeepsSdus
<1>1. Headers(u) /\ Numbered(u) /\ Apart(u, F) /\ u.err = "none"
  BY DEF Sound, Headers, Numbered, Apart
<1>2. True(u, A, F)
  BY DEF Sound, True, Outstanding, Resolved
<1>3. Grows(u, t) /\ Moved(u, t)
  BY SoundTypes DEF Grows, Moved
<1> QED BY <1>1, <1>2, <1>3 DEF Sound
-----------------------------------------------------------------------------
(* The operators of the sender: what they change, and that it stays sound   *)

\* addPdus with an SDU that does not fit ...
LosesSdu(u, t) ==
  /\ u.firstSeqNum = t.firstSeqNum /\ u.seqNum = t.seqNum /\ u.header = t.header
  /\ KeepsMarks(u, t) /\ u.err = t.err /\ u.out = t.out /\ u.givenUp = t.givenUp
  /\ u.nextSdu = t.nextSdu + 1 /\ u.lost = t.lost \cup {t.nextSdu}

\* ... and with one that does.
NewPdus(t, n) == t.seqNum .. t.seqNum + n - 1
NewHeader(t, n) ==
  [sdu |-> t.nextSdu, firstSn |-> t.seqNum, lastSn |-> t.seqNum + n - 1]
AddsSdu(u, t, n) ==
  /\ u.firstSeqNum = t.firstSeqNum /\ u.seqNum = t.seqNum + n
  /\ DOMAIN u.header = DOMAIN t.header \cup NewPdus(t, n)
  /\ \A s \in NewPdus(t, n) : u.header[s] = NewHeader(t, n)
  /\ \A s \in DOMAIN t.header : u.header[s] = t.header[s]
  /\ KeepsMarks(u, t) /\ u.err = t.err /\ u.givenUp = t.givenUp /\ u.lost = t.lost
  /\ u.out = t.out \cup {DataPdu(s, 0) : s \in NewPdus(t, n)}
  /\ u.nextSdu = t.nextSdu + 1

LEMMA EnqueFacts ==
  ASSUME NEW t, NEW A, NEW F, Sound(t, A, F), NEW n \in Nat \ {0}
  PROVE  \/ LosesSdu(Enque(t, n), t)
         \/ Fits(t, n) /\ AddsSdu(Enque(t, n), t, n)
<1> DEFINE new == NewPdus(t, n)
           h   == NewHeader(t, n)
<1>1. WindowOpen(t)
  BY SoundTypes, TxAssumption DEF WindowOpen
<1>2. CASE ~Fits(t, n)
  <2>1. Enque(t, n) = [t EXCEPT !.nextSdu = @ + 1, !.lost = @ \cup {t.nextSdu}]
    BY <1>1, <1>2 DEF Enque, AddPdus
  <2>2. DOMAIN t = DOMAIN TxStart
    BY SoundTypes
  <2>3. LosesSdu(Enque(t, n), t)
    BY <2>1, <2>2 DEF LosesSdu, KeepsMarks, TxStart
  <2> QED BY <2>3
<1>3. CASE Fits(t, n)
  <2>1. new \cap DOMAIN t.rtxQueue = {} /\ new \cap Resolved(t) = {}
    <3>1. DOMAIN t.rtxQueue = Outstanding(t) /\ Resolved(t) \subseteq Outstanding(t)
      BY SoundTypes DEF Core, Window, Resolved
    <3>2. new \cap Outstanding(t) = {}
      BY SoundTypes DEF Outstanding, NewPdus
    <3> QED BY <3>1, <3>2
  <2>2. Enque(t, n) = AddFragments(t, n)
    BY <1>1, <1>3 DEF Enque, AddPdus
  <2>3. AddFragments(t, n) =
          [t EXCEPT
            !.header      = [s \in DOMAIN t.header \cup new |-> IF s \in new THEN h ELSE t.header[s]],
            !.rtxQueue    = [s \in DOMAIN t.rtxQueue \cup new |->
                               IF s \in new THEN 0 ELSE t.rtxQueue[s]],
            !.pduTimer    = @ \cup new,
            !.seqNum      = @ + n,
            !.nextSdu     = @ + 1,
            !.statusTimer = TRUE,
            !.out         = @ \cup {DataPdu(s, 0) : s \in new}]
    BY <2>1 DEF AddFragments, NewPdus, NewHeader
  <2>4. DOMAIN t = DOMAIN TxStart
    BY SoundTypes
  <2> DEFINE u == AddFragments(t, n)
  <2>5. /\ u.firstSeqNum = t.firstSeqNum /\ u.seqNum = t.seqNum + n
        /\ u.header = [s \in DOMAIN t.header \cup new |-> IF s \in new THEN h ELSE t.header[s]]
        /\ KeepsMarks(u, t) /\ u.err = t.err /\ u.givenUp = t.givenUp /\ u.lost = t.lost
        /\ u.out = t.out \cup {DataPdu(s, 0) : s \in new}
        /\ u.nextSdu = t.nextSdu + 1
    <3> HIDE DEF new, h
    <3> QED BY <2>3, <2>4 DEF TxStart, KeepsMarks
  <2>6. new \cap DOMAIN t.header = {}
    BY SoundTypes DEF NewPdus
  <2>7. AddsSdu(u, t, n)
    <3> HIDE DEF u
    <3> QED BY <2>5, <2>6 DEF AddsSdu
  <2> QED BY <1>3, <2>2, <2>7
<1> QED BY <1>2, <1>3

LEMMA EnqueSound ==
  ASSUME NEW t, NEW A, NEW F, Sound(t, A, F), SendsAll(t), t.nextSdu < MaxSdus, F \in Nat,
         NEW n \in SduSizes, t.seqNum + n <= t.firstSeqNum + MaxLoad
  PROVE  Safe(Enque(t, n), t, A, F)
<1> DEFINE u == Enque(t, n)
<1>1. n \in Nat \ {0} /\ MaxSdus \in Nat /\ MaxLoad \in Nat
  BY RlcAmAssumption
<1>2. Inv(u)
  BY <1>1, SoundTypes, EnqueInv
<1>3. CASE LosesSdu(u, t)
  <2> HIDE DEF u
  <2>1. Headers(u) /\ Apart(u, F)
    BY <1>3 DEF Sound, Headers, Apart, LosesSdu
  <2>2. Numbered(u)
    <3>1. \A s \in DOMAIN t.header : t.header[s].sdu # t.nextSdu
      BY SoundTypes DEF Core, Discards
    <3>2. Numbered(t) /\ t.nextSdu \in Nat
      BY SoundTypes DEF Sound
    <3>3. /\ u.header = t.header /\ u.nextSdu = t.nextSdu + 1
          /\ u.lost = t.lost \cup {t.nextSdu}
      BY <1>3 DEF LosesSdu
    <3> QED BY <1>1, <3>1, <3>2, <3>3 DEF Numbered
  <2>3. True(u, A, F)
    BY <1>3 DEF Sound, True, LosesSdu, KeepsMarks, Outstanding, Resolved
  <2>4. Grows(u, t) /\ Moved(u, t)
    BY <1>3, SoundTypes DEF Grows, Moved, LosesSdu, KeepsMarks
  <2>5. SendsAll(u)
    BY <1>3 DEF SendsAll, Sends, LosesSdu, KeepsMarks, Resolved
  <2>6. u.err = "none"
    BY <1>3 DEF LosesSdu, Sound
  <2> QED BY <1>2, <2>1, <2>2, <2>3, <2>4, <2>5, <2>6 DEF Sound, Safe, u
<1>4. CASE Fits(t, n) /\ AddsSdu(u, t, n)
  <2> DEFINE new == NewPdus(t, n)
             h   == NewHeader(t, n)
  <2> HIDE DEF u
  <2>1. /\ t.firstSeqNum \in Nat /\ t.seqNum \in Nat /\ t.nextSdu \in Nat
        /\ DOMAIN t.header = 0 .. t.seqNum - 1
        /\ u.firstSeqNum = t.firstSeqNum /\ u.seqNum = t.seqNum + n
        /\ DOMAIN u.header = DOMAIN t.header \cup new
        /\ \A s \in new : u.header[s] = h
        /\ \A s \in DOMAIN t.header : u.header[s] = t.header[s] /\ t.header[s] \in Header
    BY <1>4, SoundTypes DEF AddsSdu
  <2>2. \A s \in DOMAIN t.header : t.header[s].sdu < t.nextSdu
    BY SoundTypes DEF Core, Discards
  <2>3. Headers(u)
    <3>1. /\ h.sdu = t.nextSdu /\ h.firstSn = t.seqNum /\ h.lastSn = t.seqNum + n - 1
          /\ new = t.seqNum .. t.seqNum + n - 1
          /\ ShortSdus => n <= 2
      BY <1>1 DEF ShortSdus, NewHeader, NewPdus
    <3>2. Headers(t)
      BY DEF Sound
    <3>3. \A s \in DOMAIN t.header : t.header[s].firstSn \in Nat /\ t.header[s].lastSn \in Nat
                                     /\ t.header[s].sdu \in Nat
      BY <2>1 DEF Header
    <3>4. ASSUME NEW r \in DOMAIN u.header, NEW s \in DOMAIN u.header
          PROVE  /\ u.header[s].firstSn <= s /\ s <= u.header[s].lastSn
                 /\ u.header[s].lastSn < u.seqNum
                 /\ r \in u.header[s].firstSn .. u.header[s].lastSn
                      \/ u.header[r].sdu = u.header[s].sdu => u.header[r] = u.header[s]
                 /\ ShortSdus => u.header[s].lastSn <= u.header[s].firstSn + 1
      <4> HIDE DEF h, new
      <4>1. CASE s \in new /\ r \in new
        BY <1>1, <2>1, <3>1, <4>1
      <4>2. CASE s \in new /\ r \in DOMAIN t.header
        <5>1. u.header[s] = h /\ u.header[r] = t.header[r] /\ s >= t.seqNum
              /\ s <= t.seqNum + n - 1 /\ s \in Nat
          BY <1>1, <2>1, <3>1, <4>2
        <5>2. t.header[r].sdu # h.sdu /\ r < t.seqNum /\ r \in Nat
          BY <2>1, <2>2, <3>1, <3>3, <4>2
        <5>3. r \notin h.firstSn .. h.lastSn
          BY <1>1, <2>1, <3>1, <5>2
        <5>4. /\ h.firstSn <= s /\ s <= h.lastSn /\ h.lastSn < u.seqNum
              /\ ShortSdus => h.lastSn <= h.firstSn + 1
          BY <1>1, <2>1, <3>1, <5>1
        <5> QED BY <5>1, <5>2, <5>3, <5>4
      <4>3. CASE s \in DOMAIN t.header /\ r \in new
        <5>1. t.header[s].lastSn < t.seqNum /\ t.header[s].firstSn <= s /\ s <= t.header[s].lastSn
              /\ (ShortSdus => t.header[s].lastSn <= t.header[s].firstSn + 1)
          BY <3>2, <4>3 DEF Headers
        <5>2. u.header[s] = t.header[s] /\ u.header[r] = h /\ t.header[s].sdu < t.nextSdu
          BY <2>1, <2>2, <4>3
        <5>3. r >= t.seqNum /\ r \in Nat
          BY <1>1, <2>1, <3>1, <4>3
        <5>4. t.header[s].sdu # h.sdu /\ r \notin t.header[s].firstSn .. t.header[s].lastSn
          BY <2>1, <2>2, <3>1, <3>3, <4>3, <5>1, <5>3
        <5>5. t.header[s].lastSn < u.seqNum
          BY <1>1, <2>1, <3>3, <4>3, <5>1
        <5> QED BY <5>1, <5>2, <5>4, <5>5
      <4>4. CASE s \in DOMAIN t.header /\ r \in DOMAIN t.header
        <5>1. /\ t.header[s].firstSn <= s /\ s <= t.header[s].lastSn /\ t.header[s].lastSn < t.seqNum
              /\ r \in t.header[s].firstSn .. t.header[s].lastSn
                   \/ t.header[r].sdu = t.header[s].sdu => t.header[r] = t.header[s]
              /\ ShortSdus => t.header[s].lastSn <= t.header[s].firstSn + 1
          BY <3>2, <4>4 DEF Headers
        <5>2. u.header[s] = t.header[s] /\ u.header[r] = t.header[r]
          BY <2>1, <4>4
        <5> QED BY <1>1, <2>1, <3>3, <4>4, <5>1, <5>2
      <4> QED BY <2>1, <4>1, <4>2, <4>3, <4>4
    <3> QED BY <3>4 DEF Headers
  <2>4. Numbered(u)
    <3>1. Numbered(t) /\ u.lost = t.lost /\ u.nextSdu = t.nextSdu + 1
      BY <1>4 DEF Sound, AddsSdu
    <3>2. h.sdu = t.nextSdu /\ t.seqNum \in new
      BY <1>1, <2>1 DEF NewHeader, NewPdus
    <3> HIDE DEF h, new
    <3>3. u.nextSdu <= MaxSdus /\ u.lost \subseteq 0 .. u.nextSdu - 1
      BY <1>1, <2>1, <3>1 DEF Numbered
    <3>4. \A s \in DOMAIN u.header : u.header[s].sdu \notin u.lost
      <4>1. t.nextSdu \notin t.lost
        BY <2>1, <3>1 DEF Numbered
      <4> QED BY <2>1, <3>1, <3>2, <4>1 DEF Numbered
    <3>5. \A m \in (0 .. u.nextSdu - 1) \ u.lost : \E s \in DOMAIN u.header : u.header[s].sdu = m
      <4> TAKE m \in (0 .. u.nextSdu - 1) \ u.lost
      <4>1. CASE m = t.nextSdu
        BY <2>1, <3>2, <4>1
      <4>2. CASE m # t.nextSdu
        <5>1. m \in (0 .. t.nextSdu - 1) \ t.lost
          BY <2>1, <3>1, <4>2
        <5>2. PICK s \in DOMAIN t.header : t.header[s].sdu = m
          BY <3>1, <5>1 DEF Numbered
        <5> QED BY <2>1, <5>2
      <4> QED BY <4>1, <4>2
    <3> QED BY <3>3, <3>4, <3>5 DEF Numbered
  <2>5. Apart(u, F)
    <3>1. t.firstSeqNum <= F /\ F <= t.seqNum
      BY DEF Sound, Apart
    <3>2. t.seqNum + n < t.firstSeqNum + TxWindowSize /\ n \in Nat /\ TxWindowSize \in Nat
      BY <1>1, <1>4, TxAssumption DEF Fits
    <3>3. t.seqNum + n <= t.firstSeqNum + Used
      <4>1. CASE MaxLoad < TxWindowSize
        BY <4>1 DEF Used
      <4>2. CASE ~(MaxLoad < TxWindowSize)
        <5>1. Used = TxWindowSize - 1
          BY <4>2 DEF Used
        <5> HIDE DEF new, h
        <5> QED BY <2>1, <3>2, <5>1
      <4> QED BY <4>1, <4>2
    <3>4. u.firstSeqNum = t.firstSeqNum /\ u.seqNum = t.seqNum + n /\ t.seqNum \in Nat
      BY <2>1
    <3> QED BY <3>1, <3>2, <3>3, <3>4 DEF Apart
  <2>6. True(u, A, F)
    <3>1. True(t, A, F) /\ KeepsMarks(u, t) /\ u.givenUp = t.givenUp
      BY <1>4 DEF Sound, AddsSdu
    <3>2. Outstanding(t) \subseteq Outstanding(u) /\ Resolved(u) = Resolved(t)
      BY <1>1, <2>1, <3>1 DEF Outstanding, Resolved, KeepsMarks
    <3>3. t.discarded \subseteq DOMAIN t.header /\ 0 .. t.firstSeqNum - 1 \subseteq DOMAIN t.header
      BY SoundTypes, <2>1 DEF Outstanding
    <3> HIDE DEF h, new
    <3>4. \A s \in DOMAIN t.header : s \in DOMAIN u.header /\ u.header[s] = t.header[s]
      BY <2>1
    <3>5. /\ u.firstSeqNum = t.firstSeqNum /\ u.received = t.received /\ u.discarded = t.discarded
          /\ u.givenUp = t.givenUp
      BY <2>1, <3>1 DEF KeepsMarks
    <3>6. A \subseteq DOMAIN u.header /\ u.received \subseteq (A \cup u.discarded) \cap Outstanding(u)
          /\ u.firstSeqNum .. F - 1 \subseteq Resolved(u)
      BY <3>1, <3>2, <3>4, <3>5 DEF True
    <3>7. \A s \in u.discarded : u.header[s].sdu \in u.givenUp
      BY <3>1, <3>3, <3>4, <3>5 DEF True
    <3>8. \A s \in 0 .. u.firstSeqNum - 1 : s \in A \/ u.header[s].sdu \in u.givenUp
      BY <3>1, <3>3, <3>4, <3>5 DEF True
    <3>9. u.givenUp \subseteq {u.header[s].sdu : s \in DOMAIN u.header}
      BY <3>1, <3>4, <3>5 DEF True
    <3> QED BY <3>6, <3>7, <3>8, <3>9 DEF True
  <2>7. Grows(u, t) /\ Moved(u, t)
    BY <1>1, <1>4, <2>1 DEF Grows, Moved, AddsSdu, KeepsMarks
  <2>8. SendsAll(u)
    <3>1. ASSUME NEW p \in t.out PROVE Sends(u, p)
      BY <1>1, <2>1, <2>7, <3>1, SendsKept DEF SendsAll
    <3>2. ASSUME NEW s \in new PROVE Sends(u, DataPdu(s, 0))
      BY <2>1, <3>2 DEF Sends, DataPdu
    <3> QED BY <1>4, <3>1, <3>2 DEF SendsAll, AddsSdu
  <2>9. u.err = "none"
    BY <1>4 DEF AddsSdu, Sound
  <2> QED BY <1>2, <2>3, <2>4, <2>5, <2>6, <2>7, <2>8, <2>9 DEF Sound, Safe, u
<1> QED BY <1>1, <1>3, <1>4, EnqueFacts

\* checkForMrw changes no more than the stored commands, and what it sends
\* skips only what is resolved.
LEMMA CheckForMrwFacts ==
  ASSUME NEW t, DOMAIN t = DOMAIN TxStart, t.firstSeqNum \in Nat, t.seqNum \in Nat,
         t.firstSeqNum <= t.seqNum, t.mrwSeqNum \in Nat
  PROVE  /\ Same(CheckForMrw(t), t)
         /\ t.out \subseteq CheckForMrw(t).out
         /\ \A p \in CheckForMrw(t).out \ t.out : Sends(t, p)
<1> DEFINE sn == FirstUnresolved(t)
           u  == SendMrw(t, sn)
<1>1. /\ sn \in t.firstSeqNum .. t.seqNum
      /\ t.firstSeqNum .. sn - 1 \subseteq Resolved(t)
  BY FirstUnresolvedExists
<1> HIDE DEF sn
<1>2. Same(u, t) /\ u.out = t.out \cup {MrwPdu(t.mrwSeqNum, sn)}
  BY DEF SendMrw, Same, KeepsMarks, KeepsSdus, TxStart
<1>3. Sends(t, MrwPdu(t.mrwSeqNum, sn))
  BY <1>1 DEF Sends, MrwPdu
<1>4. Same(t, t)
  BY DEF Same, KeepsMarks, KeepsSdus
<1>5. CheckForMrw(t) = u \/ CheckForMrw(t) = t
  BY DEF CheckForMrw, sn
<1> HIDE DEF u
<1> QED BY <1>2, <1>3, <1>4, <1>5

LEMMA SameSends ==
  ASSUME NEW t, NEW u, Same(u, t), NEW p, Sends(t, p)
  PROVE  Sends(u, p)
BY DEF Sends, Same, KeepsMarks, Resolved

LEMMA CheckForMrwSound ==
  ASSUME NEW t, NEW A, NEW F, Sound(t, A, F), SendsAll(t)
  PROVE  Safe(CheckForMrw(t), t, A, F) /\ Same(CheckForMrw(t), t)
<1> DEFINE u == CheckForMrw(t)
<1>1. /\ DOMAIN t = DOMAIN TxStart /\ t.firstSeqNum \in Nat /\ t.seqNum \in Nat
      /\ t.firstSeqNum <= t.seqNum /\ Core(t) /\ Timers(t)
  BY SoundTypes
<1>2. t.mrwSeqNum \in Nat
  BY <1>1 DEF Core, Typed, TypedCommands
<1>3. Same(u, t) /\ t.out \subseteq u.out /\ \A p \in u.out \ t.out : Sends(t, p)
  BY <1>1, <1>2, CheckForMrwFacts
<1>4. Inv(u)
  BY <1>1, CheckForMrwCore DEF Inv
<1> HIDE DEF u
<1>5. Sound(u, A, F) /\ Grows(u, t) /\ Moved(u, t)
  BY <1>3, <1>4, SameSound
<1>6. SendsAll(u)
  BY <1>3, SameSends DEF SendsAll
<1> QED BY <1>3, <1>5, <1>6 DEF Safe, u

LEMMA UsedNat == Used \in Int
BY TxAssumption, RlcAmAssumption DEF Used

\* moveTxWindow to a place that the receiver's window start has reached.
LEMMA MoveTxWindowSound ==
  ASSUME NEW t, NEW A, NEW F \in Nat, Sound(t, A, F), SendsAll(t),
         NEW sn \in Nat, sn <= F
  PROVE  Safe(MoveTxWindow(t, sn), t, A, F) /\ Plain(MoveTxWindow(t, sn), t)
<1> DEFINE moved == t.firstSeqNum .. sn - 1
           kept  == sn .. t.seqNum - 1
           u     == MoveTxWindow(t, sn)
<1>1. /\ DOMAIN t = DOMAIN TxStart /\ t.err = "none"
      /\ t.firstSeqNum \in Nat /\ t.seqNum \in Nat /\ t.firstSeqNum <= t.seqNum
      /\ DOMAIN t.header = 0 .. t.seqNum - 1
      /\ t.received \subseteq Outstanding(t) /\ t.discarded \subseteq Outstanding(t)
      /\ Outstanding(t) = DOMAIN t.rtxQueue /\ Inv(t)
  BY SoundTypes DEF Core, Window
<1>2. /\ Headers(t) /\ Numbered(t) /\ True(t, A, F)
      /\ t.firstSeqNum <= F /\ F <= t.seqNum /\ t.seqNum <= t.firstSeqNum + Used
  BY DEF Sound, Apart
<1>3. CASE sn <= t.firstSeqNum
  <2>1. u = t
    BY <1>3 DEF MoveTxWindow
  <2>2. Grows(t, t) /\ Moved(t, t) /\ Plain(t, t)
    BY <1>1 DEF Grows, Moved, Plain
  <2> QED BY <2>1, <2>2 DEF Safe
<1>4. CASE t.firstSeqNum < sn
  <2>1. /\ moved \cup kept \subseteq DOMAIN t.rtxQueue
        /\ DOMAIN t.rtxQueue \ (moved \cup kept) = {}
    <3>1. moved \cup kept = t.firstSeqNum .. t.seqNum - 1
      BY <1>1, <1>2, <1>4
    <3> QED BY <1>1, <3>1 DEF Outstanding
  <2>2. u = [t EXCEPT !.firstSeqNum = sn,
                      !.rtxQueue    = [s \in kept |-> t.rtxQueue[s]],
                      !.pduTimer    = @ \ moved,
                      !.received    = @ \cap kept,
                      !.discarded   = @ \cap kept]
    <3>1. ~(sn <= t.firstSeqNum)
      BY <1>1, <1>4
    <3> QED BY <2>1, <3>1 DEF MoveTxWindow
  <2>3. Inv(u)
    BY <1>1, MoveTxWindowInv
  <2>4. /\ u.firstSeqNum = sn /\ u.seqNum = t.seqNum /\ u.header = t.header
        /\ u.received = t.received \cap kept /\ u.discarded = t.discarded \cap kept
        /\ KeepsSdus(u, t) /\ u.err = t.err /\ u.out = t.out
    <3> HIDE DEF moved, kept
    <3> QED BY <1>1, <2>2 DEF KeepsSdus, TxStart
  <2> HIDE DEF u
  <2>5. Headers(u) /\ Numbered(u) /\ u.err = "none"
    <3>1. Headers(u)
      BY <1>2, <2>4 DEF Headers
    <3>2. Numbered(u)
      BY <1>2, <2>4 DEF Numbered, KeepsSdus
    <3> QED BY <1>1, <2>4, <3>1, <3>2
  <2>6. Apart(u, F)
    BY <1>1, <1>2, <1>4, <2>4, UsedNat DEF Apart
  <2>7. t.firstSeqNum .. F - 1 \subseteq Resolved(t)
    BY <1>2 DEF True
  <2>8. Moved(u, t)
    <3>1. t.firstSeqNum .. sn - 1 \subseteq t.firstSeqNum .. F - 1
      BY <1>1
    <3> QED BY <2>4, <2>7, <3>1 DEF Moved
  <2>9. True(u, A, F)
    <3>1. A \subseteq DOMAIN u.header /\ u.received \subseteq (A \cup u.discarded) \cap Outstanding(u)
      BY <1>2, <2>4 DEF True, Outstanding
    <3>2. u.firstSeqNum .. F - 1 \subseteq Resolved(u)
      <4> SUFFICES ASSUME NEW s \in sn .. F - 1 PROVE s \in Resolved(u)
        BY <2>4
      <4>1. s \in Resolved(t) /\ s \in kept
        BY <1>1, <1>2, <1>4, <2>7
      <4> QED BY <2>4, <4>1 DEF Resolved
    <3>3. \A s \in u.discarded : u.header[s].sdu \in u.givenUp
      BY <1>2, <2>4 DEF True, KeepsSdus
    <3>4. \A s \in 0 .. u.firstSeqNum - 1 : s \in A \/ u.header[s].sdu \in u.givenUp
      <4> SUFFICES ASSUME NEW s \in 0 .. sn - 1 PROVE s \in A \/ t.header[s].sdu \in t.givenUp
        BY <2>4 DEF KeepsSdus
      <4>1. CASE s < t.firstSeqNum
        BY <1>1, <1>2, <4>1 DEF True
      <4>2. CASE s >= t.firstSeqNum
        <5>1. s \in t.firstSeqNum .. F - 1
          BY <1>1, <4>2
        <5>2. s \in Resolved(t)
          BY <2>7, <5>1
        <5> QED BY <1>2, <5>2 DEF True, Resolved
      <4> QED BY <1>1, <4>1, <4>2
    <3>5. u.givenUp \subseteq {u.header[s].sdu : s \in DOMAIN u.header}
      BY <1>2, <2>4 DEF True, KeepsSdus
    <3> QED BY <3>1, <3>2, <3>3, <3>4, <3>5 DEF True
  <2>10. Grows(u, t)
    BY <1>1, <1>4, <2>4 DEF Grows, Outstanding
  <2>11. SendsAll(u)
    BY <1>1, <2>4, <2>10, SendsKept DEF SendsAll
  <2>12. Plain(u, t)
    BY <2>4 DEF Plain, KeepsSdus
  <2> QED BY <2>3, <2>5, <2>6, <2>8, <2>9, <2>10, <2>11, <2>12 DEF Sound, Safe, u
<1> QED BY <1>1, <1>3, <1>4

\* Acknowledgements: the PDUs B, all accepted or given up, are marked.
LEMMA ReceivedSound ==
  ASSUME NEW t, NEW A, NEW F \in Nat, Sound(t, A, F), SendsAll(t),
         NEW B \in SUBSET Nat, B \subseteq Outstanding(t), B \subseteq A \cup t.discarded,
         NEW u, u = [t EXCEPT !.pduTimer = @ \ (B \ t.received), !.received = @ \cup B]
  PROVE  Safe(u, t, A, F) /\ Plain(u, t)
<1>1. /\ DOMAIN t = DOMAIN TxStart /\ t.err = "none" /\ Inv(t)
      /\ t.firstSeqNum \in Nat /\ t.seqNum \in Nat
  BY SoundTypes
<1>2. Headers(t) /\ Numbered(t) /\ True(t, A, F) /\ Apart(t, F)
  BY DEF Sound
<1>3. Inv(u)
  BY <1>1, ReceivedInv
<1>4. /\ u.firstSeqNum = t.firstSeqNum /\ u.seqNum = t.seqNum /\ u.header = t.header
      /\ u.received = t.received \cup B /\ u.discarded = t.discarded
      /\ KeepsSdus(u, t) /\ u.err = t.err /\ u.out = t.out
  BY <1>1 DEF KeepsSdus, TxStart
<1>5. Headers(u) /\ Numbered(u) /\ Apart(u, F) /\ u.err = "none"
  BY <1>1, <1>2, <1>4 DEF Headers, Numbered, Apart, KeepsSdus
<1>6. True(u, A, F)
  BY <1>2, <1>4 DEF True, Outstanding, Resolved, KeepsSdus
<1>7. Grows(u, t) /\ Moved(u, t) /\ Plain(u, t)
  BY <1>1, <1>4 DEF Grows, Moved, Plain, KeepsSdus
<1>8. SendsAll(u)
  BY <1>1, <1>4, <1>7, SendsKept DEF SendsAll
<1> QED BY <1>3, <1>5, <1>6, <1>7, <1>8 DEF Sound, Safe

\* What holds after an operator that leaves the window start alone, and after
\* one that follows it.
LEMMA SafeThen ==
  ASSUME NEW t, NEW u, NEW v, NEW A, NEW F, Sound(t, A, F), Safe(u, t, A, F), Safe(v, u, A, F),
         v.firstSeqNum = u.firstSeqNum
  PROVE  Safe(v, t, A, F)
<1>1. /\ t.firstSeqNum \in Nat /\ t.seqNum \in Nat /\ t.received \subseteq Nat
      /\ t.discarded \subseteq Nat
  BY SoundTypes DEF Outstanding
<1>2. /\ u.firstSeqNum \in Nat /\ u.seqNum \in Nat /\ v.firstSeqNum \in Nat /\ v.seqNum \in Nat
  BY SoundTypes DEF Safe
<1>3. Grows(v, t)
  BY <1>1, <1>2, GrowsTransitive DEF Safe
<1> QED BY <1>3 DEF Safe, Moved

LEMMA RecvCumulativeAckSound ==
  ASSUME NEW t, NEW A, NEW F \in Nat, Sound(t, A, F), SendsAll(t),
         NEW sn \in Int, sn < t.seqNum, t.firstSeqNum .. sn \subseteq A \cup t.discarded
  PROVE  /\ Safe(RecvCumulativeAck(t, sn), t, A, F) /\ Plain(RecvCumulativeAck(t, sn), t)
         /\ RecvCumulativeAck(t, sn).firstSeqNum = t.firstSeqNum
         /\ RecvCumulativeAck(t, sn).discarded = t.discarded
<1>1. /\ t.firstSeqNum \in Nat /\ t.seqNum \in Nat /\ t.seqNum < t.firstSeqNum + TxWindowSize
      /\ TxWindowSize \in Nat
  <2>1. TxWindowSize \in Nat
    BY TxAssumption
  <2> QED BY <2>1, SoundTypes
<1>2. CASE sn < t.firstSeqNum
  <2>1. RecvCumulativeAck(t, sn) = t
    BY <1>2 DEF RecvCumulativeAck
  <2>2. Grows(t, t) /\ Moved(t, t) /\ Plain(t, t)
    BY <1>1 DEF Grows, Moved, Plain
  <2> QED BY <2>1, <2>2 DEF Safe
<1>3. CASE ~(sn < t.firstSeqNum)
  <2> DEFINE B == t.firstSeqNum .. sn
             u == [t EXCEPT !.pduTimer = @ \ (B \ t.received), !.received = @ \cup B]
  <2>1. ~(sn >= t.firstSeqNum + TxWindowSize)
    BY <1>1
  <2>2. {s \in t.firstSeqNum .. sn : s \notin t.received} = B \ t.received
    OBVIOUS
  <2>3. RecvCumulativeAck(t, sn) = CheckForMrw(u)
    BY <1>3, <2>1, <2>2 DEF RecvCumulativeAck
  <2>4. B \in SUBSET Nat /\ B \subseteq Outstanding(t)
    <3>1. \A s \in B : s \in Int /\ t.firstSeqNum <= s /\ s <= sn
      OBVIOUS
    <3> HIDE DEF B
    <3> QED BY <1>1, <3>1 DEF Outstanding
  <2>5. B \subseteq A \cup t.discarded
    OBVIOUS
  <2> HIDE DEF B
  <2>6. Safe(u, t, A, F) /\ Plain(u, t)
    BY <2>4, <2>5, ReceivedSound
  <2>7. u.firstSeqNum = t.firstSeqNum /\ u.discarded = t.discarded
    BY SoundTypes DEF TxStart
  <2> HIDE DEF u
  <2>8. Safe(CheckForMrw(u), u, A, F) /\ Same(CheckForMrw(u), u)
    BY <2>6, CheckForMrwSound DEF Safe
  <2>9. Safe(CheckForMrw(u), t, A, F)
    BY <2>6, <2>8, SafeThen DEF Same
  <2>10. Plain(CheckForMrw(u), t)
    BY <2>6, <2>8 DEF Plain, Same, KeepsSdus, KeepsMarks
  <2> QED BY <2>3, <2>7, <2>8, <2>9, <2>10 DEF Same, KeepsMarks
<1> QED BY <1>2, <1>3

LEMMA RecvAcksSound ==
  ASSUME NEW t, NEW A, NEW F \in Nat, Sound(t, A, F), SendsAll(t), NEW S \in SUBSET A
  PROVE  /\ Safe(RecvAcks(t, S), t, A, F) /\ Plain(RecvAcks(t, S), t)
         /\ RecvAcks(t, S).firstSeqNum = t.firstSeqNum
<1> DEFINE new == {s \in S : s >= t.firstSeqNum}
           u   == [t EXCEPT !.pduTimer = @ \ (new \ t.received), !.received = @ \cup new]
<1>1. /\ t.firstSeqNum \in Nat /\ t.seqNum \in Nat /\ t.seqNum < t.firstSeqNum + TxWindowSize
      /\ TxWindowSize \in Nat /\ A \subseteq 0 .. t.seqNum - 1
  <2>1. TxWindowSize \in Nat
    BY TxAssumption
  <2>2. A \subseteq DOMAIN t.header
    BY DEF Sound, True
  <2> QED BY <2>1, <2>2, SoundTypes
<1>2. new \in SUBSET Nat /\ new \subseteq Outstanding(t) /\ new \subseteq A \cup t.discarded
  <2>1. \A s \in new : s \in A /\ s \in 0 .. t.seqNum - 1 /\ s >= t.firstSeqNum
    BY <1>1
  <2> HIDE DEF new
  <2> QED BY <1>1, <2>1 DEF Outstanding
<1>3. ~\E s \in new : s >= t.firstSeqNum + TxWindowSize
  BY <1>1
<1>4. RecvAcks(t, S) = u
  BY <1>3 DEF RecvAcks
<1> HIDE DEF new
<1>5. Safe(u, t, A, F) /\ Plain(u, t)
  BY <1>2, ReceivedSound
<1>6. u.firstSeqNum = t.firstSeqNum
  BY SoundTypes DEF TxStart
<1> QED BY <1>4, <1>5, <1>6

LEMMA HandleControlPacketSound ==
  ASSUME NEW t, NEW A, NEW F \in Nat, Sound(t, A, F), SendsAll(t),
         NEW p, Answers(t, A, F, p)
  PROVE  Safe(HandleControlPacket(t, p), t, A, F) /\ Plain(HandleControlPacket(t, p), t)
<1>1. p \in ControlPdu
  BY DEF Answers
<1>2. CASE p.type = "MRW_ACK"
  <2> DEFINE u == MoveTxWindow(t, p.firstSn)
             v == RecvMrwAck(u, p.mrw)
  <2>1. p.firstSn \in Nat /\ p.firstSn <= F
    BY <1>1, <1>2 DEF ControlPdu, Answers
  <2>2. Safe(u, t, A, F) /\ Plain(u, t)
    BY <2>1, MoveTxWindowSound
  <2> HIDE DEF u
  <2>3. Sound(u, A, F) /\ SendsAll(u) /\ DOMAIN u = DOMAIN TxStart
    BY <2>2, SoundTypes DEF Safe
  <2>4. Inv(v)
    BY <2>3, SoundTypes, RecvMrwAckInv
  <2>5. Same(v, u) /\ v.out = u.out
    BY <2>3 DEF RecvMrwAck, Same, KeepsMarks, KeepsSdus, TxStart
  <2> HIDE DEF v
  <2>6. Safe(v, u, A, F)
    BY <2>3, <2>4, <2>5, SameSound, SameSends DEF Safe, SendsAll
  <2>7. Safe(v, t, A, F)
    BY <2>2, <2>5, <2>6, SafeThen DEF Same
  <2>8. Plain(v, t)
    BY <2>2, <2>5 DEF Plain, Same, KeepsSdus, KeepsMarks
  <2> QED BY <1>2, <2>7, <2>8 DEF HandleControlPacket, u, v
<1>3. CASE p.type = "ACK"
  <2> DEFINE u == RecvCumulativeAck(t, p.lastSn)
             v == RecvAcks(u, p.bitmap)
  <2>1. /\ p.lastSn \in Int /\ p.lastSn < t.seqNum /\ p.bitmap \in SUBSET A
        /\ t.firstSeqNum .. p.lastSn \subseteq A \cup t.discarded
    BY <1>1, <1>3 DEF ControlPdu, Answers
  <2>2. Safe(u, t, A, F) /\ Plain(u, t) /\ u.firstSeqNum = t.firstSeqNum
        /\ u.discarded = t.discarded
    BY <2>1, RecvCumulativeAckSound
  <2> HIDE DEF u
  <2>3. Sound(u, A, F) /\ SendsAll(u)
    BY <2>2 DEF Safe
  <2>4. Safe(v, u, A, F) /\ Plain(v, u) /\ v.firstSeqNum = u.firstSeqNum
    BY <2>1, <2>3, RecvAcksSound
  <2> HIDE DEF v
  <2>5. Safe(v, t, A, F)
    BY <2>2, <2>4, SafeThen
  <2> QED BY <1>3, <2>2, <2>4, <2>5 DEF HandleControlPacket, Plain, u, v
<1> QED BY <1>1, <1>2, <1>3 DEF ControlPdu

\* pduTimerHandle sends the PDU again or gives up its SDU.
LEMMA PduTimerFacts ==
  ASSUME NEW t, NEW A, NEW F, Sound(t, A, F), NEW sn \in t.pduTimer
  PROVE  LET u == PduTimerHandle(t, sn) IN
         \/ Same(u, t) /\ \E n : u.out = t.out \cup {DataPdu(sn, n)}
         \/ \E w : /\ DOMAIN w = DOMAIN TxStart /\ w.firstSeqNum = t.firstSeqNum
                   /\ w.seqNum = t.seqNum /\ w.header = t.header /\ w.received = t.received
                   /\ w.discarded = t.discarded \cup
                        {s \in Outstanding(t) : t.header[s].sdu = t.header[sn].sdu}
                   /\ w.givenUp = t.givenUp \cup {t.header[sn].sdu}
                   /\ w.nextSdu = t.nextSdu /\ w.lost = t.lost /\ w.backlog = t.backlog
                   /\ w.err = t.err /\ w.out = t.out /\ w.mrwSeqNum = t.mrwSeqNum
                   /\ u = CheckForMrw(w)
<1> DEFINE t1 == [t EXCEPT !.pduTimer = @ \ {sn}]
           u  == PduTimerHandle(t, sn)
<1>1. /\ DOMAIN t = DOMAIN TxStart /\ t.firstSeqNum \in Nat /\ t.seqNum \in Nat
      /\ t.seqNum < t.firstSeqNum + TxWindowSize
      /\ Outstanding(t) = DOMAIN t.rtxQueue /\ t.pduTimer = Outstanding(t) \ Resolved(t)
  BY SoundTypes DEF Core, Window, Timers
<1>2. sn \in Outstanding(t) /\ sn \notin t.received /\ TxWindowSize \in Nat
  BY <1>1, TxAssumption DEF Resolved
<1>3. ~(sn < t.firstSeqNum \/ sn >= t.firstSeqNum + TxWindowSize)
  BY <1>1, <1>2 DEF Outstanding
<1>4. /\ DOMAIN t1 = DOMAIN TxStart /\ t1.firstSeqNum = t.firstSeqNum /\ t1.seqNum = t.seqNum
      /\ t1.header = t.header /\ t1.received = t.received /\ t1.discarded = t.discarded
      /\ t1.givenUp = t.givenUp /\ t1.nextSdu = t.nextSdu /\ t1.lost = t.lost
      /\ t1.backlog = t.backlog /\ t1.err = t.err /\ t1.out = t.out
      /\ t1.mrwSeqNum = t.mrwSeqNum /\ t1.rtxQueue = t.rtxQueue
  BY <1>1 DEF TxStart
<1>5. u = IF PduFailed(t1, sn) THEN Discard(t1, sn)
          ELSE [t1 EXCEPT !.rtxQueue[sn] = @ + 1,
                          !.pduTimer     = @ \cup {sn},
                          !.out          = @ \cup {DataPdu(sn, t1.rtxQueue[sn] + 1)}]
  <2>1. u = LET v == t1 IN
            IF sn < v.firstSeqNum \/ sn >= v.firstSeqNum + TxWindowSize
            THEN Fail(v, "pduTimerHandle: out of window")
            ELSE IF sn \notin DOMAIN v.rtxQueue THEN Fail(v, "pduTimerHandle: PDU not found")
            ELSE IF sn \in v.received THEN Fail(v, "pduTimerHandle: already received")
            ELSE IF PduFailed(v, sn) THEN Discard(v, sn)
            ELSE [v EXCEPT !.rtxQueue[sn] = @ + 1,
                           !.pduTimer     = @ \cup {sn},
                           !.out          = @ \cup {DataPdu(sn, v.rtxQueue[sn] + 1)}]
    BY DEF PduTimerHandle
  <2> HIDE DEF t1, u
  <2> QED BY <1>1, <1>2, <1>3, <1>4, <2>1
<1> HIDE DEF t1
<1>6. CASE ~PduFailed(t1, sn)
  <2>1. u = [t1 EXCEPT !.rtxQueue[sn] = @ + 1,
                       !.pduTimer     = @ \cup {sn},
                       !.out          = @ \cup {DataPdu(sn, t1.rtxQueue[sn] + 1)}]
    BY <1>5, <1>6
  <2> HIDE DEF u
  <2>2. Same(u, t) /\ u.out = t.out \cup {DataPdu(sn, t1.rtxQueue[sn] + 1)}
    BY <1>4, <2>1 DEF Same, KeepsMarks, KeepsSdus, TxStart
  <2> QED BY <2>2 DEF u
<1>7. CASE PduFailed(t1, sn)
  <2> DEFINE same == {s \in Outstanding(t1) : t1.header[s].sdu = t1.header[sn].sdu}
             stop == {s \in same : s <= sn \/ s \notin t1.discarded}
             w == [t1 EXCEPT !.discarded = @ \cup same,
                             !.pduTimer  = @ \ stop,
                             !.givenUp   = @ \cup {t1.header[sn].sdu}]
  <2>1. u = CheckForMrw(w)
    BY <1>5, <1>7 DEF Discard
  <2>2. same = {s \in Outstanding(t) : t.header[s].sdu = t.header[sn].sdu}
    BY <1>4 DEF Outstanding
  <2> HIDE DEF same, stop
  <2>3. /\ DOMAIN w = DOMAIN TxStart /\ w.firstSeqNum = t.firstSeqNum
        /\ w.seqNum = t.seqNum /\ w.header = t.header /\ w.received = t.received
        /\ w.discarded = t.discarded \cup same
        /\ w.givenUp = t.givenUp \cup {t.header[sn].sdu}
        /\ w.nextSdu = t.nextSdu /\ w.lost = t.lost /\ w.backlog = t.backlog
        /\ w.err = t.err /\ w.out = t.out /\ w.mrwSeqNum = t.mrwSeqNum
    BY <1>4 DEF TxStart
  <2> HIDE DEF w, u
  <2> QED BY <2>1, <2>2, <2>3 DEF u
<1> QED BY <1>6, <1>7

LEMMA PduTimerSound ==
  ASSUME NEW t, NEW A, NEW F \in Nat, Sound(t, A, F), SendsAll(t), NEW sn \in t.pduTimer
  PROVE  /\ Safe(PduTimerHandle(t, sn), t, A, F)
         /\ Plain(PduTimerHandle(t, sn), t) \/ GivesUp(PduTimerHandle(t, sn), t)
<1> DEFINE u == PduTimerHandle(t, sn)
<1>1. Inv(t) /\ t.err = "none"
  BY SoundTypes
<1>2. Inv(u)
  BY <1>1, PduTimerHandleInv
<1>3. /\ t.firstSeqNum \in Nat /\ t.seqNum \in Nat /\ t.firstSeqNum <= t.seqNum
      /\ DOMAIN t.header = 0 .. t.seqNum - 1 /\ t.pduTimer = Outstanding(t) \ Resolved(t)
  BY SoundTypes DEF Timers
<1>4. sn \in DOMAIN t.header /\ sn \in Outstanding(t) \ Resolved(t)
  BY <1>3 DEF Outstanding
<1>5. Headers(t) /\ Numbered(t) /\ Apart(t, F) /\ True(t, A, F)
  BY DEF Sound
<1>6. ASSUME Same(u, t), NEW n, u.out = t.out \cup {DataPdu(sn, n)}
      PROVE  Safe(u, t, A, F) /\ Plain(u, t)
  <2>1. Sound(u, A, F) /\ Grows(u, t) /\ Moved(u, t)
    BY <1>2, <1>6, SameSound
  <2>2. Sends(t, DataPdu(sn, n))
    BY <1>4 DEF Sends, DataPdu
  <2>3. SendsAll(u)
    BY <1>6, <2>2, SameSends DEF SendsAll
  <2> QED BY <1>6, <2>1, <2>3 DEF Safe, Plain, Same, KeepsSdus
<1>7. ASSUME NEW w, DOMAIN w = DOMAIN TxStart, w.firstSeqNum = t.firstSeqNum,
             w.seqNum = t.seqNum, w.header = t.header, w.received = t.received,
             w.discarded = t.discarded \cup
               {s \in Outstanding(t) : t.header[s].sdu = t.header[sn].sdu},
             w.givenUp = t.givenUp \cup {t.header[sn].sdu},
             w.nextSdu = t.nextSdu, w.lost = t.lost, w.err = t.err, w.out = t.out,
             w.mrwSeqNum = t.mrwSeqNum, u = CheckForMrw(w)
      PROVE  Safe(u, t, A, F) /\ GivesUp(u, t)
  <2> HIDE DEF u
  <2>1. Same(u, w) /\ w.out \subseteq u.out /\ \A p \in u.out \ w.out : Sends(w, p)
    <3>1. t.mrwSeqNum \in Nat
      BY <1>1 DEF Inv, Core, Typed, TypedCommands
    <3> QED BY <1>3, <1>7, <3>1, CheckForMrwFacts
  <2>2. /\ u.firstSeqNum = t.firstSeqNum /\ u.seqNum = t.seqNum /\ u.header = t.header
        /\ u.received = t.received /\ u.discarded = w.discarded /\ u.givenUp = w.givenUp
        /\ u.nextSdu = t.nextSdu /\ u.lost = t.lost /\ u.err = "none"
    BY <1>1, <1>7, <2>1 DEF Same, KeepsMarks, KeepsSdus
  <2>3. Headers(u) /\ Numbered(u) /\ Apart(u, F)
    <3>1. Headers(u)
      BY <1>5, <2>2 DEF Headers
    <3>2. Numbered(u) /\ Apart(u, F)
      BY <1>5, <2>2 DEF Numbered, Apart
    <3> QED BY <3>1, <3>2
  <2>4. True(u, A, F)
    <3>1. /\ A \subseteq DOMAIN u.header /\ u.firstSeqNum .. F - 1 \subseteq Resolved(u)
          /\ u.received \subseteq (A \cup u.discarded) \cap Outstanding(u)
      BY <1>5, <1>7, <2>2 DEF True, Resolved, Outstanding
    <3>2. \A s \in u.discarded : u.header[s].sdu \in u.givenUp
      BY <1>5, <1>7, <2>2 DEF True
    <3>3. \A s \in 0 .. u.firstSeqNum - 1 : s \in A \/ u.header[s].sdu \in u.givenUp
      BY <1>5, <1>7, <2>2 DEF True
    <3>4. u.givenUp \subseteq {u.header[s].sdu : s \in DOMAIN u.header}
      BY <1>4, <1>5, <1>7, <2>2 DEF True
    <3> QED BY <3>1, <3>2, <3>3, <3>4 DEF True
  <2>5. Grows(u, t) /\ Moved(u, t)
    BY <1>3, <1>7, <2>2 DEF Grows, Moved
  <2>6. Sound(u, A, F)
    BY <1>2, <2>2, <2>3, <2>4 DEF Sound, u
  <2>7. SendsAll(u)
    <3>1. ASSUME NEW p \in t.out PROVE Sends(u, p)
      BY <1>3, <2>2, <2>5, <3>1, SendsKept DEF SendsAll
    <3>2. ASSUME NEW p \in u.out \ t.out PROVE Sends(u, p)
      BY <1>7, <2>1, <3>2, SameSends
    <3> QED BY <3>1, <3>2 DEF SendsAll
  <2>8. GivesUp(u, t)
    BY <1>4, <1>7, <2>2 DEF GivesUp
  <2> QED BY <2>5, <2>6, <2>7, <2>8 DEF Safe
<1> HIDE DEF u
<1>8. \/ Same(u, t) /\ \E n : u.out = t.out \cup {DataPdu(sn, n)}
      \/ \E w : /\ DOMAIN w = DOMAIN TxStart /\ w.firstSeqNum = t.firstSeqNum
                /\ w.seqNum = t.seqNum /\ w.header = t.header /\ w.received = t.received
                /\ w.discarded = t.discarded \cup
                     {s \in Outstanding(t) : t.header[s].sdu = t.header[sn].sdu}
                /\ w.givenUp = t.givenUp \cup {t.header[sn].sdu}
                /\ w.nextSdu = t.nextSdu /\ w.lost = t.lost /\ w.backlog = t.backlog
                /\ w.err = t.err /\ w.out = t.out /\ w.mrwSeqNum = t.mrwSeqNum
                /\ u = CheckForMrw(w)
  BY PduTimerFacts DEF u
<1> QED BY <1>6, <1>7, <1>8 DEF u

LEMMA MrwTimerSound ==
  ASSUME NEW t, NEW A, NEW F, Sound(t, A, F), SendsAll(t), NEW m \in t.mrwTimer
  PROVE  /\ Safe(MrwTimerHandle(t, m), t, A, F) /\ Plain(MrwTimerHandle(t, m), t)
<1> DEFINE t1 == [t EXCEPT !.mrwTimer = @ \ {m}]
           u  == MrwTimerHandle(t, m)
<1>1. DOMAIN t = DOMAIN TxStart /\ Inv(t) /\ Commands(t) /\ TypedCommands(t)
  BY SoundTypes DEF Core, Typed
<1>2. m \in DOMAIN t.mrwRtxQueue
  BY <1>1 DEF Commands
<1>3. Sends(t, MrwPdu(m, t.mrwRtxQueue[m]))
  BY <1>1, <1>2 DEF Commands, TypedCommands, Sends, MrwPdu
<1>4. Inv(u)
  BY <1>1, MrwTimerHandleInv
<1>5. Same(u, t) /\ u.out \subseteq t.out \cup {MrwPdu(m, t.mrwRtxQueue[m])}
  <2>1. Same(t1, t) /\ t1.out = t.out /\ DOMAIN t1 = DOMAIN TxStart
        /\ t1.mrwRtxQueue = t.mrwRtxQueue
    BY <1>1 DEF Same, KeepsMarks, KeepsSdus, TxStart
  <2>2. \/ u = [t1 EXCEPT !.mrwRtxQueue = [k \in DOMAIN t1.mrwRtxQueue \ {m} |-> t1.mrwRtxQueue[k]]]
        \/ u = [t1 EXCEPT !.mrwTimer = @ \cup {m},
                          !.out      = @ \cup {MrwPdu(m, t1.mrwRtxQueue[m])}]
    BY <1>2, <2>1 DEF MrwTimerHandle
  <2> HIDE DEF t1, u
  <2> QED BY <2>1, <2>2 DEF Same, KeepsMarks, KeepsSdus, TxStart
<1> HIDE DEF u
<1>6. Sound(u, A, F) /\ Grows(u, t) /\ Moved(u, t)
  BY <1>4, <1>5, SameSound
<1>7. SendsAll(u)
  BY <1>3, <1>5, SameSends DEF SendsAll
<1> QED BY <1>5, <1>6, <1>7 DEF Safe, Plain, Same, KeepsSdus, u

LEMMA BufferStatusTimerSound ==
  ASSUME NEW t, NEW A, NEW F, Sound(t, A, F), SendsAll(t)
  PROVE  /\ Safe(BufferStatusTimerHandle(t), t, A, F) /\ Plain(BufferStatusTimerHandle(t), t)
<1> DEFINE c == CheckForMrw(t)
           u == BufferStatusTimerHandle(t)
<1>1. Safe(c, t, A, F) /\ Same(c, t)
  BY CheckForMrwSound
<1>2. Inv(u)
  BY SoundTypes, BufferStatusTimerHandleInv
<1>3. u = [c EXCEPT !.statusTimer = FALSE]
  BY DEF BufferStatusTimerHandle
<1> HIDE DEF c, u
<1>4. DOMAIN c = DOMAIN TxStart
  BY <1>1, SoundTypes DEF Safe
<1>5. Same(u, c) /\ u.out = c.out
  BY <1>3, <1>4 DEF Same, KeepsMarks, KeepsSdus, TxStart
<1>6. Same(u, t)
  BY <1>1, <1>5 DEF Same, KeepsMarks, KeepsSdus
<1>7. Sound(u, A, F) /\ Grows(u, t) /\ Moved(u, t)
  BY <1>2, <1>6, SameSound
<1>8. SendsAll(u)
  BY <1>1, <1>5, SameSends DEF Safe, SendsAll
<1> QED BY <1>6, <1>7, <1>8 DEF Safe, Plain, Same, KeepsSdus, u
-----------------------------------------------------------------------------
(* The receiver: reports                                                    *)

Report(r) ==
  [type   |-> "ACK",
   lastSn |-> r.firstSeqNum + Cumulative(r) - 1,
   bitmap |-> {r.firstSeqNum + i : i \in {j \in r.received : j > Cumulative(r)}}]

\* Only timers, flags and what is sent change.
RxSame(u, r) ==
  /\ DOMAIN u = DOMAIN r /\ u.firstSeqNum = r.firstSeqNum /\ u.pduBuffer = r.pduBuffer
  /\ u.received = r.received /\ u.pending = r.pending /\ u.accepted = r.accepted
  /\ u.passedUp = r.passedUp /\ u.badSdu = r.badSdu /\ u.err = r.err
  /\ u.firstSdu = r.firstSdu

LEMMA CumulativeExists ==
  ASSUME NEW r
  PROVE  /\ Cumulative(r) \in 0 .. RxWindowSize
         /\ 0 .. Cumulative(r) - 1 \subseteq r.received
<1> DEFINE T == {c \in 0 .. RxWindowSize : c < RxWindowSize => c \notin r.received}
<1>1. T \in SUBSET Nat /\ RxWindowSize \in T
  BY RxAssumption
<1>2. PICK c \in T : \A d \in T : c <= d
  <2> HIDE DEF T
  <2> QED BY <1>1, LeastNat
<1>3. 0 .. c - 1 \subseteq r.received
  BY <1>2, RxAssumption
<1>4. \E d \in 0 .. RxWindowSize :
        0 .. d - 1 \subseteq r.received /\ (d < RxWindowSize => d \notin r.received)
  BY <1>2, <1>3
<1> QED BY <1>4 DEF Cumulative

LEMMA SendStatusReportFacts ==
  ASSUME NEW r, DOMAIN r = DOMAIN RxStart, NEW allowed
  PROVE  /\ RxSame(SendStatusReport(r, allowed), r)
         /\ SendStatusReport(r, allowed).seqNum = r.seqNum
         /\ SendStatusReport(r, allowed).out \subseteq r.out \cup {Report(r)}
<1>1. CASE allowed
  <2>1. SendStatusReport(r, allowed) = [r EXCEPT !.out = @ \cup {Report(r)}]
    BY <1>1 DEF SendStatusReport, Report
  <2> QED BY <2>1 DEF RxSame, RxStart
<1>2. CASE ~allowed
  BY <1>2 DEF SendStatusReport, RxSame
<1> QED BY <1>1, <1>2

\* A report acknowledges what was accepted, and what was skipped.
LEMMA ReportAnswers ==
  ASSUME NEW t, NEW r, RxTyped(r), Buffers(r), Sound(t, r.accepted, r.firstSeqNum)
  PROVE  Answers(t, r.accepted, r.firstSeqNum, Report(r))
<1> DEFINE c == Cumulative(r)
           F == r.firstSeqNum
           A == r.accepted
           p == Report(r)
<1>1. /\ t.firstSeqNum \in Nat /\ t.seqNum \in Nat /\ F \in Nat /\ F <= t.seqNum
      /\ A \subseteq 0 .. t.seqNum - 1
      /\ t.firstSeqNum .. F - 1 \subseteq Resolved(t)
      /\ Resolved(t) \subseteq A \cup t.discarded
  BY SoundTypes DEF RxTyped, Sound, Apart, True, Resolved
<1>2. c \in Nat /\ 0 .. c - 1 \subseteq r.received
  BY CumulativeExists
<1>3. \A i \in r.received : F + i \in A
  BY <1>1 DEF Buffers
<1>4. p.type = "ACK" /\ p.lastSn = F + c - 1
      /\ p.bitmap = {F + i : i \in {j \in r.received : j > c}}
      /\ p = [type |-> "ACK", lastSn |-> p.lastSn, bitmap |-> p.bitmap]
  BY DEF Report
<1> HIDE DEF c, F, A, p
<1>5. p.lastSn \in Int
  BY <1>1, <1>2, <1>4
<1>6. p.lastSn < t.seqNum
  <2>1. CASE c = 0
    BY <1>1, <1>4, <2>1
  <2>2. CASE c > 0
    <3>1. c - 1 \in 0 .. c - 1
      BY <1>2, <2>2
    <3>2. F + (c - 1) \in A
      BY <1>2, <1>3, <3>1
    <3> QED BY <1>1, <1>2, <1>4, <3>2
  <2> QED BY <1>2, <2>1, <2>2
<1>7. p.bitmap \subseteq A
  BY <1>3, <1>4
<1>8. t.firstSeqNum .. p.lastSn \subseteq A \cup t.discarded
  <2> SUFFICES ASSUME NEW s \in t.firstSeqNum .. p.lastSn PROVE s \in A \cup t.discarded
    OBVIOUS
  <2>1. CASE s < F
    <3>1. s \in t.firstSeqNum .. F - 1
      BY <1>1, <1>5, <2>1
    <3> QED BY <1>1, <3>1
  <2>2. CASE s >= F
    <3>1. s - F \in 0 .. c - 1
      BY <1>1, <1>2, <1>4, <1>5, <2>2
    <3>2. F + (s - F) \in A
      BY <1>2, <1>3, <3>1
    <3> QED BY <1>1, <1>5, <3>2
  <2> QED BY <1>1, <1>5, <2>1, <2>2
<1>9. p \in ControlPdu
  BY <1>1, <1>4, <1>5, <1>7 DEF ControlPdu
<1> QED BY <1>4, <1>6, <1>7, <1>8, <1>9 DEF Answers, p, F, A
-----------------------------------------------------------------------------
(* The receiver: reassembly                                                 *)

\* What buffering a PDU of an SDU can bring about: nothing, an exception, or the
\* SDU, whole.
Reassembles(u, r, h, sn) ==
  /\ DOMAIN u = DOMAIN r /\ u.firstSeqNum = r.firstSeqNum /\ u.seqNum = r.seqNum
  /\ u.pduBuffer = r.pduBuffer /\ u.received = r.received /\ u.accepted = r.accepted
  /\ u.pending \subseteq r.pending /\ u.firstSdu \in Nat \cup {NoSdu} /\ u.badSdu = {}
  /\ \/ /\ u.passedUp = r.passedUp
        /\ u.err = "none" /\ ShortSdus => ~(h[sn].firstSn .. h[sn].lastSn \subseteq r.accepted)
     \/ /\ u.passedUp = r.passedUp \cup {h[sn].sdu}
        /\ h[sn].firstSn .. h[sn].lastSn \subseteq r.accepted
  /\ u.out \subseteq r.out \cup {Report(r)}

\* passUp, called for the first fragment in the window.
LEMMA PassUpReassembles ==
  ASSUME NEW t, NEW r, NEW h, h = t.header, Headers(t), t.seqNum \in Nat,
         h \in [0 .. t.seqNum - 1 -> Header],
         RxTyped(r), r.pending \subseteq r.accepted, r.pduBuffer \subseteq r.accepted,
         r.accepted \subseteq DOMAIN h, r.badSdu = {},
         NEW sn \in DOMAIN h, h[sn].sdu \notin r.passedUp, NEW allowed,
         NEW start, start \in h[sn].firstSn .. sn,
         start .. h[sn].lastSn \subseteq r.pduBuffer,
         start # h[sn].firstSn => start = r.firstSeqNum
  PROVE  Reassembles(PassUp(r, h, start, allowed), r, h, sn)
<1> DEFINE first == h[sn].firstSn
           last  == h[sn].lastSn
           moved == start = r.firstSeqNum /\ ~IsFirst(h, start)
           S     == (IF moved THEN r.pending ELSE {}) \cup (start .. last)
           u     == PassUp(r, h, start, allowed)
<1>1. /\ h[sn] \in Header /\ first \in Nat /\ last \in Nat /\ sn \in Nat
      /\ first <= sn /\ sn <= last /\ last < t.seqNum
  BY DEF Headers, Header
<1>2. \A s \in first .. last : s \in DOMAIN h /\ h[s] = h[sn]
  <2>1. \A s \in first .. last : s \in DOMAIN h
    BY <1>1
  <2> QED BY <2>1 DEF Headers
<1>3. start \in first .. last /\ h[start] = h[sn]
  BY <1>1, <1>2
<1>4. moved <=> start # first
  BY <1>3 DEF IsFirst
<1>5. DOMAIN r = DOMAIN RxStart
  BY DEF RxTyped
<1>6. ASSUME NEW e, e # "none" PROVE Reassembles(RxFail(r, e), r, h, sn)
  <2> DEFINE v == RxFail(r, e)
  <2>1. v.err # "none" /\ DOMAIN v = DOMAIN r /\ v.firstSeqNum = r.firstSeqNum
        /\ v.seqNum = r.seqNum /\ v.pduBuffer = r.pduBuffer /\ v.received = r.received
        /\ v.accepted = r.accepted /\ v.pending = r.pending /\ v.firstSdu = r.firstSdu
        /\ v.badSdu = r.badSdu /\ v.passedUp = r.passedUp /\ v.out = r.out
    BY <1>5, <1>6 DEF RxFail, RxStart
  <2> HIDE DEF v
  <2>2. Reassembles(v, r, h, sn)
    BY <2>1 DEF Reassembles, RxTyped
  <2> QED BY <2>2 DEF v
<1>7. u = IF moved /\ \E p \in r.pending : h[p].sdu # h[sn].sdu
          THEN RxFail(r, "passUp: pending PDUs of another SDU")
          ELSE IF Cardinality(S) < last - first + 1
          THEN RxFail(r, "passUp: missing fragments")
          ELSE SendStatusReport(
                 Deliver([r EXCEPT !.pending = IF moved THEN {} ELSE @], h, h[sn].sdu, S), allowed)
  BY <1>3 DEF PassUp
<1>8. ASSUME moved => \A p \in r.pending : h[p].sdu = h[sn].sdu, ~(Cardinality(S) < last - first + 1)
      PROVE  S = first .. last
  <2>1. CASE ~moved
    BY <1>4, <2>1
  <2>2. CASE moved
    <3>1. \A p \in r.pending : p \in first .. last
      <4> TAKE p \in r.pending
      <4>1. p \in DOMAIN h /\ h[p] = h[sn]
        BY <1>8, <2>2 DEF Headers
      <4>2. h[p].firstSn <= p /\ p <= h[p].lastSn /\ p \in Nat
        BY <4>1 DEF Headers
      <4> QED BY <1>1, <4>1, <4>2
    <3>2. S \subseteq first .. last
      BY <1>1, <1>3, <3>1
    <3>3. IsFiniteSet(first .. last) /\ Cardinality(first .. last) = last - first + 1
      <4>1. first <= last
        BY <1>1
      <4>2. first \in Int /\ last \in Int
        BY <1>1
      <4> HIDE DEF first, last
      <4>3. IsFiniteSet(first .. last)
            /\ Cardinality(first .. last) = IF first > last THEN 0 ELSE last - first + 1
        BY <4>2, FS_Interval
      <4>4. ~(first > last)
        BY <4>1, <4>2
      <4> QED BY <4>3, <4>4
    <3> HIDE DEF S, first, last
    <3>4. IsFiniteSet(S) /\ Cardinality(S) <= Cardinality(first .. last)
          /\ (Cardinality(S) = Cardinality(first .. last) => S = first .. last)
      BY <3>2, <3>3, FS_Subset
    <3>5. Cardinality(S) \in Nat
      BY <3>4, FS_CardinalityType
    <3> QED BY <1>1, <1>8, <3>3, <3>4, <3>5
  <2> QED BY <2>1, <2>2
<1>9. ASSUME S = first .. last,
             moved => \A p \in r.pending : h[p].sdu = h[sn].sdu
      PROVE  Reassembles(SendStatusReport(
               Deliver([r EXCEPT !.pending = IF moved THEN {} ELSE @], h, h[sn].sdu, S), allowed),
               r, h, sn)
  <2> DEFINE d == [r EXCEPT !.pending = IF moved THEN {} ELSE @]
             v == Deliver(d, h, h[sn].sdu, S)
             w == SendStatusReport(v, allowed)
  <2>1. first .. last \subseteq r.accepted
    BY <1>3, <1>9
  <2>2. ~(h[sn].sdu \in r.passedUp \/ \E s \in S : S # h[s].firstSn .. h[s].lastSn)
    BY <1>2, <1>9
  <2> HIDE DEF S, moved
  <2>3. v = [d EXCEPT !.passedUp = @ \cup {h[sn].sdu},
                      !.badSdu = IF h[sn].sdu \in d.passedUp \/ \E s \in S : S # h[s].firstSn .. h[s].lastSn
                                 THEN @ \cup {h[sn].sdu} ELSE @]
    BY DEF Deliver
  <2>4. DOMAIN d = DOMAIN RxStart /\ d.passedUp = r.passedUp /\ d.badSdu = {}
        /\ d.firstSeqNum = r.firstSeqNum /\ d.seqNum = r.seqNum /\ d.pduBuffer = r.pduBuffer
        /\ d.received = r.received /\ d.accepted = r.accepted /\ d.firstSdu = r.firstSdu
        /\ d.pending \subseteq r.pending /\ d.err = r.err /\ d.out = r.out
    BY <1>5 DEF RxStart
  <2> HIDE DEF d
  <2>5. v = [d EXCEPT !.passedUp = @ \cup {h[sn].sdu}, !.badSdu = d.badSdu]
    BY <2>2, <2>3, <2>4
  <2>6. DOMAIN v = DOMAIN RxStart /\ v.passedUp = r.passedUp \cup {h[sn].sdu} /\ v.badSdu = {}
        /\ v.firstSeqNum = r.firstSeqNum /\ v.seqNum = r.seqNum /\ v.pduBuffer = r.pduBuffer
        /\ v.received = r.received /\ v.accepted = r.accepted /\ v.firstSdu = r.firstSdu
        /\ v.pending \subseteq r.pending /\ v.err = r.err /\ v.out = r.out
    BY <2>4, <2>5 DEF RxStart
  <2> HIDE DEF v
  <2>7. Report(v) = Report(r)
    BY <2>6 DEF Report, Cumulative
  <2>8. RxSame(w, v) /\ w.seqNum = v.seqNum /\ w.out \subseteq v.out \cup {Report(v)}
    BY <2>6, SendStatusReportFacts
  <2> HIDE DEF w
  <2>9. Reassembles(w, r, h, sn)
    BY <1>5, <2>1, <2>6, <2>7, <2>8 DEF Reassembles, RxSame, RxTyped
  <2> QED BY <2>9 DEF w, v, d
<1> HIDE DEF u, S, moved
<1>10. CASE moved /\ \E p \in r.pending : h[p].sdu # h[sn].sdu
  BY <1>6, <1>7, <1>10 DEF u
<1>11. CASE ~(moved /\ \E p \in r.pending : h[p].sdu # h[sn].sdu) /\ Cardinality(S) < last - first + 1
  BY <1>6, <1>7, <1>11 DEF u
<1>12. CASE ~(moved /\ \E p \in r.pending : h[p].sdu # h[sn].sdu) /\ ~(Cardinality(S) < last - first + 1)
  BY <1>7, <1>8, <1>9, <1>12 DEF u
<1> QED BY <1>10, <1>11, <1>12

\* A position that a search does not visit is not marked: the PDU is missing.
LEMMA VisitedAll ==
  ASSUME NEW r, NEW sn, NEW S, Visited(r, sn, S) # S
  PROVE  \E q \in S : ~Marked(r, q)
BY DEF Visited

\* checkCompleteSdu, after the PDU sn was buffered for the first time.
LEMMA CheckCompleteSduReassembles ==
  ASSUME NEW t, NEW r0, NEW h, h = t.header, Headers(t), t.seqNum \in Nat,
         h \in [0 .. t.seqNum - 1 -> Header],
         RxTyped(r0), Buffers(r0), r0.accepted \subseteq DOMAIN h, r0.badSdu = {},
         NEW sn \in r0.pduBuffer, h[sn].sdu \notin r0.passedUp, NEW allowed
  PROVE  Reassembles(CheckCompleteSdu(r0, h, sn, allowed), r0, h, sn)
<1> DEFINE r      == [r0 EXCEPT !.firstSdu = IF @ = NoSdu THEN h[sn].sdu ELSE @]
           F      == r.firstSeqNum
           first  == h[sn].firstSn
           last   == h[sn].lastSn
           before == (IF first > F THEN first ELSE F) .. sn - 1
           after  == sn + 1 .. last
           begin  == sn = F
           start  == IF before = {} THEN sn ELSE first
           u      == CheckCompleteSdu(r0, h, sn, allowed)
<1>1. /\ sn \in DOMAIN h /\ h[sn] \in Header /\ first \in Nat /\ last \in Nat /\ sn \in Nat
      /\ h[sn].sdu \in Nat /\ first <= sn /\ sn <= last /\ last < t.seqNum
      /\ ShortSdus => last <= first + 1
  <2>1. sn \in DOMAIN h
    BY DEF Buffers
  <2> QED BY <2>1 DEF Headers, Header
<1>2. \A s \in first .. last : s \in DOMAIN h /\ h[s] = h[sn]
  <2>1. \A s \in first .. last : s \in DOMAIN h
    BY <1>1
  <2> QED BY <1>1, <2>1 DEF Headers
<1>3. /\ DOMAIN r = DOMAIN RxStart /\ r.firstSeqNum = r0.firstSeqNum /\ r.seqNum = r0.seqNum
      /\ r.pduBuffer = r0.pduBuffer /\ r.received = r0.received /\ r.accepted = r0.accepted
      /\ r.pending = r0.pending /\ r.passedUp = r0.passedUp /\ r.badSdu = {}
      /\ r.out = r0.out /\ r.err = r0.err /\ r.firstSdu \in Nat \cup {NoSdu}
  <2>1. h[sn].sdu \in Nat /\ r0.firstSdu \in Nat \cup {NoSdu} /\ DOMAIN r0 = DOMAIN RxStart
    BY <1>1 DEF RxTyped
  <2> HIDE DEF first, last, F
  <2> QED BY <2>1 DEF RxStart
<1>4. u = IF begin /\ ~IsFirst(h, sn) /\ r.firstSdu # h[sn].sdu
          THEN RxFail(r, "checkCompleteSdu: first SDU error")
          ELSE IF ~(Visited(r, sn, before) \subseteq r.pduBuffer)
          THEN RxFail(r, "checkCompleteSdu: marked position is empty")
          ELSE IF Visited(r, sn, before) # before \/ (~begin /\ first < F)
          THEN r
          ELSE IF ~(Visited(r, sn, after) \subseteq r.pduBuffer)
          THEN RxFail(r, "checkCompleteSdu: marked position is empty")
          ELSE IF Visited(r, sn, after) # after THEN r
          ELSE PassUp(r, h, start, allowed)
  BY DEF CheckCompleteSdu
<1>5. /\ F \in Nat /\ sn >= F /\ r.pduBuffer = {s \in r.accepted : s >= F}
      /\ r.received = {s - F : s \in r.pduBuffer} /\ r.pending \subseteq r.accepted
      /\ r.accepted \subseteq DOMAIN h /\ sn \in r.accepted
  BY <1>3 DEF Buffers, RxTyped
<1> HIDE DEF r
<1>6. Report(r) = Report(r0)
  BY <1>3 DEF Report, Cumulative
<1>7. ASSUME NEW v, DOMAIN v = DOMAIN r, v.firstSeqNum = r.firstSeqNum,
             v.seqNum = r.seqNum, v.pduBuffer = r.pduBuffer, v.received = r.received,
             v.accepted = r.accepted, v.pending = r.pending, v.firstSdu = r.firstSdu,
             v.badSdu = r.badSdu, v.passedUp = r.passedUp, v.out = r.out,
             v.err = "none" /\ ShortSdus => ~(first .. last \subseteq r.accepted)
      PROVE  Reassembles(v, r0, h, sn)
  <2>1. DOMAIN r0 = DOMAIN RxStart
    BY DEF RxTyped
  <2> QED BY <1>3, <1>7, <2>1 DEF Reassembles
<1>8. ASSUME NEW e, e # "none" PROVE Reassembles(RxFail(r, e), r0, h, sn)
  <2> DEFINE v == RxFail(r, e)
  <2>1. v.err # "none" /\ DOMAIN v = DOMAIN r /\ v.firstSeqNum = r.firstSeqNum
        /\ v.seqNum = r.seqNum /\ v.pduBuffer = r.pduBuffer /\ v.received = r.received
        /\ v.accepted = r.accepted /\ v.pending = r.pending /\ v.firstSdu = r.firstSdu
        /\ v.badSdu = r.badSdu /\ v.passedUp = r.passedUp /\ v.out = r.out
    BY <1>3, <1>8 DEF RxFail, RxStart
  <2> HIDE DEF v
  <2>2. Reassembles(v, r0, h, sn)
    BY <1>7, <2>1
  <2> QED BY <2>2 DEF v
<1>9. ASSUME ShortSdus => ~(first .. last \subseteq r.accepted) PROVE Reassembles(r, r0, h, sn)
  BY <1>7, <1>9
<1>10. ASSUME NEW q \in first .. last, q >= F, ~Marked(r, q) PROVE q \notin r.accepted
  <2>1. q - F \notin r.received
    BY <1>10 DEF Marked
  <2> QED BY <1>5, <1>10, <2>1
<1>11. before \subseteq first .. last /\ after \subseteq first .. last
       /\ (\A q \in before : q >= F) /\ (\A q \in after : q >= F)
  BY <1>1, <1>5
<1>12. ASSUME Visited(r, sn, before) # before \/ (~begin /\ first < F)
       PROVE  Reassembles(r, r0, h, sn)
  <2>1. CASE Visited(r, sn, before) # before
    <3>1. PICK q \in before : ~Marked(r, q)
      <4> HIDE DEF before
      <4> QED BY <2>1, VisitedAll
    <3>2. q \in first .. last /\ q \notin r.accepted
      <4> HIDE DEF before
      <4> QED BY <1>10, <1>11, <3>1
    <3> QED BY <1>9, <3>2
  <2>2. CASE ~begin /\ first < F
    <3>1. ~ShortSdus
      BY <1>1, <1>5, <2>2
    <3> QED BY <1>9, <3>1
  <2> QED BY <1>12, <2>1, <2>2
<1>13. ASSUME Visited(r, sn, after) # after PROVE Reassembles(r, r0, h, sn)
  <2>1. PICK q \in after : ~Marked(r, q)
    <3> HIDE DEF after
    <3> QED BY <1>13, VisitedAll
  <2>2. q \in first .. last /\ q \notin r.accepted
    <3> HIDE DEF after
    <3> QED BY <1>10, <1>11, <2>1
  <2> QED BY <1>9, <2>2
<1>14. ASSUME before \subseteq r.pduBuffer, after \subseteq r.pduBuffer, begin \/ ~(first < F)
       PROVE  Reassembles(PassUp(r, h, start, allowed), r0, h, sn)
  <2>1. start \in first .. sn
    BY <1>1
  <2>2. start # first => start = F
    BY <1>1, <1>5, <1>14
  <2>3. start .. last \subseteq r.pduBuffer
    <3> SUFFICES ASSUME NEW s \in start .. last PROVE s \in r.pduBuffer
      OBVIOUS
    <3>1. CASE s = sn
      BY <1>3, <3>1
    <3>2. CASE s > sn
      <4>1. s \in after
        BY <1>1, <2>1, <3>2
      <4> QED BY <1>14, <4>1
    <3>3. CASE s < sn
      <4>1. before # {} /\ start = first
        BY <1>1, <2>1, <3>3
      <4>2. ~begin
        BY <1>1, <4>1
      <4>3. s \in before
        BY <1>1, <1>5, <1>14, <3>3, <4>1, <4>2
      <4> QED BY <1>14, <4>3
    <3> QED BY <1>1, <2>1, <3>1, <3>2, <3>3
  <2>4. RxTyped(r)
    BY <1>3 DEF RxTyped
  <2>5. r.pduBuffer \subseteq r.accepted /\ h[sn].sdu \notin r.passedUp
    BY <1>3, <1>5
  <2> HIDE DEF start, before, after, F, first, last
  <2>6. Reassembles(PassUp(r, h, start, allowed), r, h, sn)
    BY <1>1, <1>3, <1>5, <2>1, <2>2, <2>3, <2>4, <2>5, PassUpReassembles DEF first, last, F
  <2> DEFINE w == PassUp(r, h, start, allowed)
  <2> HIDE DEF w
  <2>7. Reassembles(w, r, h, sn)
    BY <2>6 DEF w
  <2>8. DOMAIN r0 = DOMAIN RxStart
    BY DEF RxTyped
  <2>9. Reassembles(w, r0, h, sn)
    BY <1>3, <1>6, <2>7, <2>8 DEF Reassembles
  <2> QED BY <2>9 DEF w
<1> HIDE DEF u, before, after, start, F, begin
<1>15. CASE begin /\ ~IsFirst(h, sn) /\ r.firstSdu # h[sn].sdu
  BY <1>4, <1>8, <1>15 DEF u
<1>16. CASE ~(begin /\ ~IsFirst(h, sn) /\ r.firstSdu # h[sn].sdu)
  <2>1. CASE ~(Visited(r, sn, before) \subseteq r.pduBuffer)
    BY <1>4, <1>8, <1>16, <2>1 DEF u
  <2>2. CASE Visited(r, sn, before) \subseteq r.pduBuffer
             /\ (Visited(r, sn, before) # before \/ (~begin /\ first < F))
    BY <1>4, <1>12, <1>16, <2>2 DEF u
  <2>3. CASE Visited(r, sn, before) \subseteq r.pduBuffer
             /\ ~(Visited(r, sn, before) # before \/ (~begin /\ first < F))
    <3>1. CASE ~(Visited(r, sn, after) \subseteq r.pduBuffer)
      BY <1>4, <1>8, <1>16, <2>3, <3>1 DEF u
    <3>2. CASE Visited(r, sn, after) \subseteq r.pduBuffer /\ Visited(r, sn, after) # after
      BY <1>4, <1>13, <1>16, <2>3, <3>2 DEF u
    <3>3. CASE Visited(r, sn, after) \subseteq r.pduBuffer /\ Visited(r, sn, after) = after
      <4>1. before \subseteq r.pduBuffer /\ after \subseteq r.pduBuffer
            /\ (begin \/ ~(first < F)) /\ Visited(r, sn, before) = before
        BY <2>3, <3>3
      <4>2. u = PassUp(r, h, start, allowed)
        BY <1>4, <1>16, <3>3, <4>1
      <4>3. Reassembles(PassUp(r, h, start, allowed), r0, h, sn)
        BY <1>14, <4>1
      <4> QED BY <4>2, <4>3 DEF u
    <3> QED BY <3>1, <3>2, <3>3
  <2> QED BY <2>1, <2>2, <2>3
<1> QED BY <1>15, <1>16 DEF u
-----------------------------------------------------------------------------
(* The receiver: PDUs from the peer                                         *)

\* What a PDU finds: the receiver, its buffers, and the sender it belongs to.
RxSound(t, r) ==
  /\ Sound(t, r.accepted, r.firstSeqNum) /\ RxTyped(r) /\ Buffers(r) /\ Passes(r, t.header)

\* At most one SDU is passed up.
PassesOne(u, r, h) ==
  \/ u.passedUp = r.passedUp
  \/ \E s \in DOMAIN h : u.passedUp = r.passedUp \cup {h[s].sdu}

\* ... and what it leaves: the window and what was accepted grow, and what is
\* sent is true.
RxSafe(u, r, t) ==
  /\ RxSound(t, u) /\ PassesOne(u, r, t.header)
  /\ r.firstSeqNum <= u.firstSeqNum /\ r.accepted \subseteq u.accepted
  /\ \A p \in u.out \ r.out : Answers(t, u.accepted, u.firstSeqNum, p)

LEMMA AnswersMore ==
  ASSUME NEW t, NEW A, NEW B, A \subseteq B, NEW F \in Nat, NEW G \in Nat, F <= G,
         NEW p, Answers(t, A, F, p)
  PROVE  Answers(t, B, G, p)
<1>1. p.type = "MRW_ACK" => p.firstSn \in Nat
  BY DEF Answers, ControlPdu
<1> QED BY <1>1 DEF Answers

LEMMA RxSameSound ==
  ASSUME NEW t, NEW r, RxSound(t, r), NEW u, RxSame(u, r), u.seqNum \in Nat
  PROVE  RxSound(t, u)
<1>1. u.accepted = r.accepted /\ u.firstSeqNum = r.firstSeqNum
  BY DEF RxSame
<1>2. RxTyped(u) /\ Buffers(u)
  BY DEF RxSound, RxSame, RxTyped, Buffers
<1>3. Passes(u, t.header)
  BY DEF RxSound, RxSame, Passes
<1> QED BY <1>1, <1>2, <1>3 DEF RxSound

LEMMA RxTypes ==
  ASSUME NEW t, NEW r, RxSound(t, r), HalfWindow
  PROVE  /\ r.firstSeqNum \in Nat /\ t.firstSeqNum \in Nat /\ t.seqNum \in Nat
         /\ DOMAIN r = DOMAIN RxStart
         /\ Used \in Int /\ 2 * Used <= RxWindowSize /\ RxWindowSize \in Nat
         /\ t.firstSeqNum <= r.firstSeqNum /\ r.firstSeqNum <= t.seqNum
         /\ t.seqNum <= r.firstSeqNum + Used
         /\ r.accepted \subseteq DOMAIN t.header /\ DOMAIN t.header = 0 .. t.seqNum - 1
         /\ t.header \in [0 .. t.seqNum - 1 -> Header] /\ Headers(t)
<1>1. /\ t.firstSeqNum \in Nat /\ t.seqNum \in Nat /\ r.firstSeqNum \in Nat
      /\ DOMAIN t.header = 0 .. t.seqNum - 1 /\ t.header \in [0 .. t.seqNum - 1 -> Header]
      /\ DOMAIN r = DOMAIN RxStart
  BY SoundTypes DEF RxSound, RxTyped
<1>2. /\ r.accepted \subseteq DOMAIN t.header /\ Headers(t)
      /\ t.firstSeqNum <= r.firstSeqNum /\ r.firstSeqNum <= t.seqNum
      /\ t.seqNum <= t.firstSeqNum + Used
  BY DEF RxSound, Sound, Apart, True
<1>3. Used \in Int /\ 2 * Used <= RxWindowSize /\ RxWindowSize \in Nat
  BY UsedNat, RxAssumption DEF HalfWindow
<1> QED BY <1>1, <1>2, <1>3

\* A DATA PDU that was built.
LEMMA EnqueDataSafe ==
  ASSUME NEW t, NEW r, RxSound(t, r), HalfWindow, r.err = "none",
         NEW sn \in DOMAIN t.header, NEW allowed
  PROVE  RxSafe(EnqueData(r, t.header, sn, allowed), r, t)
<1> DEFINE h   == t.header
           F   == r.firstSeqNum
           idx == sn - F
           gap == sn # r.seqNum
           r1  == [r EXCEPT !.timer = TRUE, !.ackInfo = TRUE]
           r2  == SendStatusReport([r1 EXCEPT !.seqNum = sn + 1], gap /\ allowed)
           r3  == [r2 EXCEPT !.pduBuffer = @ \cup {sn},
                             !.received  = @ \cup {idx},
                             !.accepted  = @ \cup {sn}]
           u   == EnqueData(r, h, sn, allowed)
<1>1. /\ F \in Nat /\ t.seqNum \in Nat /\ sn \in Nat /\ sn < t.seqNum
      /\ Used \in Int /\ 2 * Used <= RxWindowSize /\ RxWindowSize \in Nat
      /\ F <= t.seqNum /\ t.seqNum <= F + Used /\ DOMAIN r = DOMAIN RxStart
      /\ r.accepted \subseteq DOMAIN h /\ DOMAIN h = 0 .. t.seqNum - 1
      /\ h \in [0 .. t.seqNum - 1 -> Header] /\ Headers(t)
  BY RxTypes
<1>2. ~(idx >= RxWindowSize)
  BY <1>1
<1>3. u = IF idx < 0 THEN r1
          ELSE IF idx \notin r.received THEN CheckCompleteSdu(r3, h, sn, allowed /\ ~gap)
          ELSE IF sn \notin r.pduBuffer THEN RxFail(r2, "enque: marked position is empty")
          ELSE r2
  BY <1>2 DEF EnqueData
<1>4. RxSame(r1, r) /\ r1.seqNum = r.seqNum /\ r1.out = r.out
  BY <1>1 DEF RxSame, RxStart
<1>5. /\ RxSame(r2, r) /\ r2.seqNum = sn + 1 /\ r2.out \subseteq r.out \cup {Report(r)}
  <2> DEFINE v == [r1 EXCEPT !.seqNum = sn + 1]
  <2>1. RxSame(v, r) /\ v.seqNum = sn + 1 /\ v.out = r.out /\ DOMAIN v = DOMAIN RxStart
    BY <1>1 DEF RxSame, RxStart
  <2> HIDE DEF v
  <2>2. Report(v) = Report(r)
    BY <2>1 DEF Report, Cumulative, RxSame
  <2>3. RxSame(SendStatusReport(v, gap /\ allowed), v)
        /\ SendStatusReport(v, gap /\ allowed).seqNum = v.seqNum
        /\ SendStatusReport(v, gap /\ allowed).out \subseteq v.out \cup {Report(v)}
    BY <2>1, SendStatusReportFacts
  <2> QED BY <2>1, <2>2, <2>3 DEF RxSame, v
<1> HIDE DEF u, r1, r2
<1>6. Answers(t, r.accepted, F, Report(r))
  BY ReportAnswers DEF RxSound
<1>7. RxSafe(r1, r, t)
  <2>1. r1.seqNum \in Nat
    BY <1>4 DEF RxSound, RxTyped
  <2>2. RxSound(t, r1)
    BY <1>4, <2>1, RxSameSound
  <2> QED BY <1>1, <1>4, <2>2 DEF RxSafe, RxSame, PassesOne
<1>8. RxSafe(r2, r, t)
  <2>1. RxSound(t, r2)
    BY <1>1, <1>5, RxSameSound
  <2> QED BY <1>1, <1>5, <1>6, <2>1 DEF RxSafe, RxSame, PassesOne
<1>9. ASSUME idx >= 0, idx \notin r.received
      PROVE  RxSafe(CheckCompleteSdu(r3, h, sn, allowed /\ ~gap), r, t)
  <2> DEFINE A == r.accepted \cup {sn}
             v == CheckCompleteSdu(r3, h, sn, allowed /\ ~gap)
  <2>1. /\ DOMAIN r3 = DOMAIN RxStart /\ r3.firstSeqNum = F /\ r3.seqNum = sn + 1
        /\ r3.pduBuffer = r.pduBuffer \cup {sn} /\ r3.received = r.received \cup {idx}
        /\ r3.accepted = A /\ r3.pending = r.pending /\ r3.passedUp = r.passedUp
        /\ r3.badSdu = r.badSdu /\ r3.out = r2.out /\ r3.err = "none"
        /\ r3.firstSdu = r.firstSdu
    BY <1>1, <1>5 DEF RxSame, RxStart
  <2> HIDE DEF r3
  <2>2. sn \notin r.accepted
    BY <1>1, <1>9 DEF RxSound, Buffers
  <2>3. RxTyped(r3)
    BY <1>1, <2>1 DEF RxSound, RxTyped
  <2>4. Buffers(r3)
    <3>1. r3.pduBuffer = {s \in A : s >= F}
      BY <1>1, <1>9, <2>1 DEF RxSound, Buffers
    <3>2. r3.received = {s - F : s \in r3.pduBuffer}
      BY <2>1 DEF RxSound, Buffers
    <3> QED BY <2>1, <3>1, <3>2 DEF RxSound, Buffers
  <2>5. Passes(r, h)
    BY DEF RxSound
  <2>6. A \subseteq DOMAIN h /\ r3.badSdu = {} /\ sn \in r3.pduBuffer /\ h[sn].sdu \notin r3.passedUp
    BY <1>1, <2>1, <2>2, <2>5 DEF Passes
  <2>7. Reassembles(v, r3, h, sn)
    BY <1>1, <2>1, <2>3, <2>4, <2>6, CheckCompleteSduReassembles
  <2> HIDE DEF v
  <2>8. v.accepted = A /\ v.firstSeqNum = F /\ v.badSdu = {}
    BY <2>1, <2>7 DEF Reassembles
  <2>9. Sound(t, A, F)
    <3>1. Sound(t, r.accepted, F)
      BY DEF RxSound
    <3>2. True(t, r.accepted, F)
      BY <3>1 DEF Sound
    <3>3. True(t, A, F)
      BY <2>6, <3>2 DEF True
    <3> QED BY <3>1, <3>3 DEF Sound
  <2>10. RxTyped(v) /\ Buffers(v)
    BY <2>1, <2>3, <2>4, <2>7 DEF Reassembles, RxTyped, Buffers
  <2>11. Passes(v, h)
    <3>1. \A s \in DOMAIN h : h[s].sdu = h[sn].sdu => s \in h[sn].firstSn .. h[sn].lastSn
      <4> TAKE s \in DOMAIN h
      <4> HAVE h[s].sdu = h[sn].sdu
      <4>1. h[s] = h[sn]
        BY <1>1, <2>6 DEF Headers
      <4>2. h[s].firstSn <= s /\ s <= h[s].lastSn
        BY <1>1 DEF Headers
      <4>3. h[s] \in Header /\ s \in Nat
        BY <1>1
      <4>4. h[s].firstSn \in Nat /\ h[s].lastSn \in Nat
        BY <4>3 DEF Header
      <4> QED BY <4>1, <4>2, <4>3, <4>4
    <3>2. \A s \in DOMAIN h : sn \in h[s].firstSn .. h[s].lastSn => h[sn] = h[s]
      BY <1>1 DEF Headers
    <3>3. v.passedUp = r.passedUp
          \/ /\ v.passedUp = r.passedUp \cup {h[sn].sdu}
             /\ h[sn].firstSn .. h[sn].lastSn \subseteq A
      BY <2>1, <2>7 DEF Reassembles
    <3> HIDE DEF h
    <3>4. v.passedUp \subseteq {h[s].sdu : s \in v.accepted}
      BY <2>5, <2>8, <3>3 DEF Passes
    <3>5. \A s \in DOMAIN h : h[s].sdu \in v.passedUp => s \in v.accepted
      BY <2>5, <2>8, <3>1, <3>3 DEF Passes
    <3>6. ASSUME ShortSdus, v.err = "none",
                 NEW s \in A, h[s].firstSn .. h[s].lastSn \subseteq A
          PROVE  h[s].sdu \in v.passedUp
      <4>1. CASE h[s].sdu = h[sn].sdu
        <5>1. h[s] = h[sn]
          BY <1>1, <2>6, <4>1 DEF Headers, h
        <5> QED BY <2>1, <2>7, <3>6, <4>1, <5>1 DEF Reassembles
      <4>2. CASE h[s].sdu # h[sn].sdu
        <5>1. sn \notin h[s].firstSn .. h[s].lastSn
          BY <2>6, <3>2, <4>2
        <5>2. s \in r.accepted /\ h[s].firstSn .. h[s].lastSn \subseteq r.accepted
          BY <3>6, <4>2, <5>1
        <5>3. h[s].sdu \in r.passedUp
          BY <2>5, <3>6, <5>2 DEF Passes
        <5> QED BY <3>3, <5>3
      <4> QED BY <4>1, <4>2
    <3> QED BY <2>8, <3>4, <3>5, <3>6 DEF Passes
  <2>12. \A p \in v.out \ r.out : Answers(t, A, F, p)
    <3>1. Answers(t, A, F, Report(r))
      BY <1>1, <1>6, AnswersMore
    <3>2. Answers(t, A, F, Report(r3))
      BY <2>1, <2>3, <2>4, <2>9, ReportAnswers
    <3> QED BY <1>5, <2>1, <2>7, <3>1, <3>2 DEF Reassembles
  <2>13. RxSound(t, v)
    BY <2>8, <2>9, <2>10, <2>11 DEF RxSound
  <2>14. RxSafe(v, r, t)
    <3>1. r.firstSeqNum <= v.firstSeqNum /\ r.accepted \subseteq v.accepted
      BY <1>1, <2>8
    <3>2. \A p \in v.out \ r.out : Answers(t, v.accepted, v.firstSeqNum, p)
      BY <2>8, <2>12
    <3>3. PassesOne(v, r, t.header)
      BY <2>1, <2>7 DEF Reassembles, PassesOne
    <3> QED BY <2>13, <3>1, <3>2, <3>3 DEF RxSafe
  <2> QED BY <2>14 DEF v
<1>10. ASSUME idx \in r.received PROVE sn \in r.pduBuffer
  BY <1>1, <1>10 DEF RxSound, Buffers
<1> HIDE DEF r3
<1>11. CASE idx < 0
  BY <1>3, <1>7, <1>11 DEF u
<1>12. CASE ~(idx < 0) /\ idx \notin r.received
  <2>1. idx >= 0
    BY <1>1, <1>12
  <2> QED BY <1>3, <1>9, <1>12, <2>1 DEF u
<1>13. CASE ~(idx < 0) /\ idx \in r.received
  BY <1>3, <1>8, <1>10, <1>13 DEF u
<1> QED BY <1>11, <1>12, <1>13

\* An MRW command that skips only what is resolved.
LEMMA EnqueMrwSafe ==
  ASSUME NEW t, NEW r, RxSound(t, r), HalfWindow, r.err = "none",
         NEW p, p.type = "MRW", Sends(t, p)
  PROVE  RxSafe(EnqueMrw(r, t.header, p), r, t)
<1> DEFINE h == t.header
           F == r.firstSeqNum
           sn == p.lastSn
           v == MoveRxWindow(r, h, sn)
           ack == [type |-> "MRW_ACK", mrw |-> p.mrw, firstSn |-> v.firstSeqNum]
           u == EnqueMrw(r, h, p)
<1>1. /\ F \in Nat /\ t.seqNum \in Nat /\ t.firstSeqNum \in Nat /\ t.firstSeqNum <= F
      /\ Used \in Int /\ 2 * Used <= RxWindowSize /\ RxWindowSize \in Nat
      /\ F <= t.seqNum /\ t.seqNum <= F + Used /\ DOMAIN r = DOMAIN RxStart
      /\ r.accepted \subseteq DOMAIN h /\ DOMAIN h = 0 .. t.seqNum - 1
      /\ h \in [0 .. t.seqNum - 1 -> Header]
  BY RxTypes
<1>2. /\ sn \in Nat /\ sn <= t.seqNum /\ p.mrw \in Nat
      /\ t.firstSeqNum .. sn - 1 \subseteq Resolved(t)
  BY DEF Sends
<1>3. /\ RxSound(t, v) /\ F <= v.firstSeqNum /\ v.accepted = r.accepted /\ v.out = r.out
      /\ DOMAIN v = DOMAIN RxStart /\ v.err = "none" /\ v.passedUp = r.passedUp
  <2>1. CASE sn <= F
    <3>1. v = r
      <4>1. sn - F <= 0
        BY <1>1, <1>2, <2>1
      <4> HIDE DEF h
      <4> QED BY <4>1 DEF MoveRxWindow
    <3> QED BY <1>1, <3>1
  <2>2. CASE ~(sn <= F)
    <3> DEFINE pos    == sn - F
               leave  == {s \in r.pduBuffer : s < sn}
               closed == {s \in leave : IsLast(h, s)}
               open   == {s \in leave : \A c \in closed : c < s}
               marks  == ShiftedMarks(r, pos)
    <3>1. v = [r EXCEPT !.firstSeqNum = sn,
                        !.pduBuffer   = @ \ leave,
                        !.received    = marks,
                        !.pending     = IF closed = {} THEN @ \cup open ELSE open,
                        !.firstSdu    = IF sn - 1 \in open THEN h[sn - 1].sdu ELSE NoSdu]
      <4>1. ~(pos <= 0) /\ ~(pos > RxWindowSize)
        BY <1>1, <1>2, <2>2
      <4> QED BY <4>1 DEF MoveRxWindow
    <3>2. open \subseteq leave /\ leave \subseteq r.pduBuffer /\ r.pduBuffer \subseteq r.accepted
          /\ r.pending \subseteq r.accepted
          /\ r.pduBuffer = {s \in r.accepted : s >= F}
          /\ r.received = {s - F : s \in r.pduBuffer}
      BY DEF RxSound, Buffers
    <3>3. marks = {s - sn : s \in r.pduBuffer \ leave}
      <4>1. \A j \in r.received : j \in Nat /\ j < Used /\ F + j \in r.pduBuffer
        <5> SUFFICES ASSUME NEW s \in r.pduBuffer
                     PROVE  s - F \in Nat /\ s - F < Used /\ F + (s - F) \in r.pduBuffer
          BY <3>2
        <5>1. s \in Nat /\ s >= F /\ s < t.seqNum
          BY <1>1, <3>2
        <5>2. F + (s - F) = s
          BY <1>1, <5>1
        <5> QED BY <1>1, <5>1, <5>2
      <4>2. pos \in Nat /\ pos <= Used
        BY <1>1, <1>2, <2>2
      <4>3. {j \in r.received : j < pos /\ j >= RxWindowSize - pos} = {}
        <5> HIDE DEF pos
        <5> QED BY <1>1, <4>1, <4>2
      <4>4. marks = {i - pos : i \in {j \in r.received : j >= pos}}
        BY <4>3 DEF ShiftedMarks
      <4>5. ASSUME NEW j \in r.received, j >= pos
            PROVE  F + j \in r.pduBuffer \ leave /\ j - pos = (F + j) - sn
        <5>1. j \in Nat /\ F + j \in r.pduBuffer
          BY <4>1
        <5> QED BY <1>1, <1>2, <4>5, <5>1
      <4>6. ASSUME NEW s \in r.pduBuffer \ leave
            PROVE  s - F \in r.received /\ s - F >= pos /\ (s - F) - pos = s - sn
        <5>1. s \in Nat /\ s >= sn
          BY <1>1, <1>2, <3>2, <4>6
        <5> QED BY <1>1, <1>2, <3>2, <5>1
      <4> HIDE DEF marks, pos, leave
      <4> QED BY <4>4, <4>5, <4>6
    <3>4. /\ DOMAIN v = DOMAIN RxStart /\ v.firstSeqNum = sn /\ v.pduBuffer = r.pduBuffer \ leave
          /\ v.received = marks /\ v.pending \subseteq r.pending \cup open
          /\ v.firstSdu = (IF sn - 1 \in open THEN h[sn - 1].sdu ELSE NoSdu)
          /\ v.accepted = r.accepted /\ v.passedUp = r.passedUp /\ v.badSdu = r.badSdu
          /\ v.err = r.err /\ v.out = r.out /\ v.seqNum = r.seqNum
      <4> HIDE DEF marks, leave, open, closed, h
      <4> QED BY <1>1, <3>1 DEF RxStart
    <3>5. v.firstSdu \in Nat \cup {NoSdu}
      <4>1. ASSUME sn - 1 \in open PROVE h[sn - 1].sdu \in Nat
        <5>1. sn - 1 \in DOMAIN h
          BY <1>1, <3>2, <4>1
        <5>2. h[sn - 1] \in Header
          BY <1>1, <5>1
        <5> QED BY <5>2 DEF Header
      <4> HIDE DEF open
      <4> QED BY <3>4, <4>1
    <3>6. v.pduBuffer = {s \in r.accepted : s >= sn}
      <4>1. \A s \in r.accepted : s \in Nat
        BY <1>1
      <4> QED BY <1>1, <1>2, <2>2, <3>2, <3>4, <4>1
    <3>7. v.pending \subseteq r.accepted
      BY <3>2, <3>4
    <3> HIDE DEF v, marks, leave, open, closed
    <3>8. RxTyped(v) /\ Buffers(v)
      BY <1>2, <3>3, <3>4, <3>5, <3>6, <3>7 DEF RxSound, RxTyped, Buffers
    <3>9. Passes(v, h)
      BY <3>4 DEF RxSound, Passes
    <3>10. Sound(t, r.accepted, sn)
      <4>1. Sound(t, r.accepted, F) /\ True(t, r.accepted, F) /\ Apart(t, F)
        BY DEF RxSound, Sound
      <4>2. True(t, r.accepted, sn)
        BY <1>2, <4>1 DEF True
      <4>3. Apart(t, sn)
        BY <1>1, <1>2, <2>2, <4>1 DEF Apart
      <4> QED BY <4>1, <4>2, <4>3 DEF Sound
    <3> QED BY <1>1, <1>2, <2>2, <3>4, <3>8, <3>9, <3>10 DEF RxSound
  <2> QED BY <2>1, <2>2
<1>4. u = IF ~v.ackInfo THEN RxFail(v, "enque: null ackFlowControlInfo_")
          ELSE [v EXCEPT !.out = @ \cup {ack}]
  BY DEF EnqueMrw
<1> HIDE DEF v
<1>5. CASE ~v.ackInfo
  <2>1. u = [v EXCEPT !.err = "enque: null ackFlowControlInfo_"]
    BY <1>3, <1>4, <1>5 DEF RxFail
  <2> HIDE DEF u
  <2>2. /\ DOMAIN u = DOMAIN v /\ u.firstSeqNum = v.firstSeqNum /\ u.pduBuffer = v.pduBuffer
        /\ u.received = v.received /\ u.pending = v.pending /\ u.accepted = v.accepted
        /\ u.passedUp = v.passedUp /\ u.badSdu = v.badSdu /\ u.firstSdu = v.firstSdu
        /\ u.seqNum = v.seqNum /\ u.out = v.out /\ u.err # "none"
    BY <1>3, <2>1 DEF RxStart
  <2>3. RxSound(t, u)
    <3>1. RxTyped(u) /\ Buffers(u)
      BY <1>3, <2>2 DEF RxSound, RxTyped, Buffers
    <3>2. Passes(u, t.header)
      BY <1>3, <2>2 DEF RxSound, Passes
    <3> QED BY <1>3, <2>2, <3>1, <3>2 DEF RxSound
  <2>4. RxSafe(u, r, t)
    BY <1>3, <2>2, <2>3 DEF RxSafe, PassesOne
  <2> QED BY <2>4 DEF u
<1>6. CASE v.ackInfo
  <2>1. u = [v EXCEPT !.out = @ \cup {ack}]
    BY <1>4, <1>6
  <2> HIDE DEF u, ack
  <2>2. RxSame(u, v) /\ u.seqNum = v.seqNum /\ u.out = v.out \cup {ack}
    BY <1>3, <2>1 DEF RxSame, RxStart
  <2>3. RxSound(t, u)
    BY <1>3, <2>2, RxSameSound DEF RxSound, RxTyped
  <2>4. Answers(t, u.accepted, u.firstSeqNum, ack)
    <3>1. v.firstSeqNum \in Nat
      BY <1>3 DEF RxSound, RxTyped
    <3>2. ack \in ControlPdu /\ ack.type = "MRW_ACK" /\ ack.firstSn = v.firstSeqNum
      BY <1>2, <3>1 DEF ControlPdu, ack
    <3> QED BY <2>2, <3>1, <3>2 DEF Answers, RxSame
  <2>5. RxSafe(u, r, t)
    BY <1>3, <2>2, <2>3, <2>4 DEF RxSafe, RxSame, PassesOne
  <2> QED BY <2>5 DEF u
<1> QED BY <1>5, <1>6

LEMMA RxTimerSafe ==
  ASSUME NEW t, NEW r, RxSound(t, r), NEW allowed
  PROVE  RxSafe(RxTimerHandle(r, allowed), r, t)
<1> DEFINE v == SendStatusReport(r, allowed)
           u == [v EXCEPT !.timer = r.pduBuffer # {}]
<1>1. DOMAIN r = DOMAIN RxStart /\ r.seqNum \in Nat /\ r.firstSeqNum \in Nat
  BY DEF RxSound, RxTyped
<1>2. RxSame(v, r) /\ v.seqNum = r.seqNum /\ v.out \subseteq r.out \cup {Report(r)}
  BY <1>1, SendStatusReportFacts
<1>3. Answers(t, r.accepted, r.firstSeqNum, Report(r))
  BY ReportAnswers DEF RxSound
<1> HIDE DEF v
<1>4. RxSame(u, r) /\ u.seqNum = r.seqNum /\ u.out = v.out
  BY <1>1, <1>2 DEF RxSame, RxStart
<1> HIDE DEF u
<1>5. RxSound(t, u)
  BY <1>1, <1>4, RxSameSound
<1>6. RxSafe(u, r, t)
  BY <1>1, <1>2, <1>3, <1>4, <1>5 DEF RxSafe, RxSame, PassesOne
<1> QED BY <1>6 DEF RxTimerHandle, u, v
-----------------------------------------------------------------------------
(* Steps of the sender and the receiver                                     *)

\* The MAC takes the PDUs of the record u: the record that TxBecomes leaves.
Cleared(c, u) ==
  /\ DOMAIN c = DOMAIN u /\ c.pduTimer = u.pduTimer /\ c.statusTimer = u.statusTimer
  /\ KeepsPdus(c, u) /\ KeepsMarks(c, u) /\ KeepsCommands(c, u) /\ KeepsSdus(c, u)
  /\ c.err = u.err /\ c.out = {}

LEMMA ClearedSound ==
  ASSUME NEW t, NEW u, NEW A, NEW F, Sound(t, A, F), Safe(u, t, A, F),
         NEW c, c = [u EXCEPT !.out = {}]
  PROVE  /\ Sound(c, A, F) /\ Grows(c, t) /\ Moved(c, t) /\ Cleared(c, u)
         /\ \A p \in u.out : Sends(c, p)
<1>1. Sound(u, A, F) /\ Grows(u, t) /\ Moved(u, t) /\ SendsAll(u)
  BY DEF Safe
<1>2. Inv(u) /\ DOMAIN u = DOMAIN TxStart
  BY <1>1, SoundTypes
<1>3. Cleared(c, u)
  BY <1>2 DEF Cleared, TxStart, KeepsPdus, KeepsMarks, KeepsCommands, KeepsSdus
<1>4. u.statusTimer \in BOOLEAN
  BY <1>2 DEF Inv, Core, Typed
<1>5. Inv(c)
  BY <1>2, <1>3, <1>4, ClearedInv DEF Cleared
<1>6. Same(c, u)
  BY <1>3 DEF Same, Cleared, KeepsPdus
<1>7. Sound(c, A, F)
  BY <1>1, <1>5, <1>6, SameSound
<1>8. Grows(c, t) /\ Moved(c, t)
  BY <1>1, <1>6 DEF Grows, Moved, Same, KeepsMarks
<1>9. \A p \in u.out : Sends(c, p)
  BY <1>1, <1>6, SameSends DEF SendsAll
<1> QED BY <1>3, <1>7, <1>8, <1>9

\* What was passed up does not change when SDUs are added.
LEMMA PassesKept ==
  ASSUME NEW t, NEW c, NEW r, NEW F, Sound(t, r.accepted, F), Sound(c, r.accepted, F),
         Grows(c, t), Passes(r, t.header)
  PROVE  Passes(r, c.header)
<1> DEFINE h == t.header
           g == c.header
<1>1. /\ t.seqNum \in Nat /\ DOMAIN h = 0 .. t.seqNum - 1 /\ h \in [0 .. t.seqNum - 1 -> Header]
      /\ c.seqNum \in Nat /\ DOMAIN g = 0 .. c.seqNum - 1
  BY SoundTypes
<1>2. /\ r.accepted \subseteq DOMAIN h /\ Headers(t) /\ Headers(c)
      /\ \A s \in DOMAIN h : s \in DOMAIN g /\ g[s] = h[s]
  BY DEF Sound, True, Grows
<1>3. r.passedUp \subseteq {g[s].sdu : s \in r.accepted}
  BY <1>2 DEF Passes
<1>4. ASSUME NEW s \in DOMAIN g, g[s].sdu \in r.passedUp PROVE s \in r.accepted
  <2>1. PICK q \in r.accepted : g[s].sdu = h[q].sdu
    BY <1>4 DEF Passes
  <2>2. q \in DOMAIN g /\ g[q] = h[q]
    BY <1>2
  <2>3. g[s] = h[q]
    BY <1>2, <2>1, <2>2 DEF Headers
  <2>4. s <= g[s].lastSn
    BY <1>2 DEF Headers
  <2>5. h[q].lastSn < t.seqNum /\ h[q] \in Header
    BY <1>1, <1>2 DEF Headers
  <2>6. h[q].lastSn \in Nat
    BY <2>5 DEF Header
  <2>7. s \in DOMAIN h
    BY <1>1, <2>3, <2>4, <2>5, <2>6
  <2> QED BY <1>2, <1>4, <2>7 DEF Passes
<1>5. ASSUME ShortSdus, r.err = "none", NEW s \in r.accepted,
             g[s].firstSn .. g[s].lastSn \subseteq r.accepted
      PROVE  g[s].sdu \in r.passedUp
  BY <1>2, <1>5 DEF Passes
<1>6. r.badSdu = {}
  BY DEF Passes
<1> QED BY <1>3, <1>4, <1>5, <1>6 DEF Passes

LEMMA TxStepSound ==
  ASSUME IInv, NEW u, TxStep(u), Safe(u, tx, rx.accepted, rx.firstSeqNum),
         UNCHANGED <<rx, losses>>, IsABag(toTx'), BagToSet(toTx') \subseteq BagToSet(toTx)
  PROVE  IInv' /\ Grows(tx', tx) /\ Moved(tx', tx) /\ Cleared(tx', u)
<1> DEFINE c == [u EXCEPT !.out = {}]
           A == rx.accepted
           F == rx.firstSeqNum
<1>1. tx' = c /\ rx' = rx /\ losses' = losses /\ toRx' = toRx (+) SetToBag(u.out)
  BY DEF TxStep, TxBecomes
<1>2. Sound(tx, A, F) /\ Passes(rx, tx.header) /\ IsABag(toRx)
  BY DEF IInv
<1>3. /\ Sound(c, A, F) /\ Grows(c, tx) /\ Moved(c, tx) /\ Cleared(c, u)
      /\ \A p \in u.out : Sends(c, p)
  BY <1>2, ClearedSound
<1> HIDE DEF c
<1>4. Passes(rx, c.header)
  BY <1>2, <1>3, PassesKept
<1>5. /\ tx.firstSeqNum \in Nat /\ tx.seqNum \in Nat
      /\ c.firstSeqNum \in Nat /\ c.seqNum \in Nat
  BY <1>2, <1>3, SoundTypes
<1>6. IsABag(toRx') /\ BagToSet(toRx') = BagToSet(toRx) \cup u.out
  BY <1>1, <1>2, BagsAdded
<1>7. \A p \in BagToSet(toRx') : Sends(tx', p)
  <2>1. \A p \in BagToSet(toRx) : Sends(c, p)
    BY <1>3, <1>5, SendsKept DEF IInv
  <2> QED BY <1>1, <1>3, <1>6, <2>1
<1>8. \A p \in BagToSet(toTx') : Answers(tx', rx'.accepted, rx'.firstSeqNum, p)
  <2>1. \A p \in BagToSet(toTx) : Answers(c, A, F, p)
    BY <1>3, <1>5, AnswersKept DEF IInv
  <2> QED BY <1>1, <2>1
<1>9. Sound(tx', rx'.accepted, rx'.firstSeqNum) /\ Passes(rx', tx'.header)
  BY <1>1, <1>3, <1>4
<1>10. tx'.out = {} /\ rx'.out = {} /\ losses' \in 0 .. MaxLoss /\ RxTyped(rx') /\ Buffers(rx')
  BY <1>1, <1>3 DEF Cleared, IInv
<1> QED BY <1>1, <1>3, <1>6, <1>7, <1>8, <1>9, <1>10 DEF IInv

LEMMA RxStepSound ==
  ASSUME IInv, NEW u, RxStep(u), RxSafe(u, rx, tx), UNCHANGED <<tx, losses>>,
         IsABag(toRx'), BagToSet(toRx') \subseteq BagToSet(toRx)
  PROVE  IInv' /\ rx.firstSeqNum <= rx'.firstSeqNum /\ PassesOne(rx', rx, tx.header)
<1> DEFINE c == [u EXCEPT !.out = {}]
           A == c.accepted
           F == c.firstSeqNum
<1>1. rx' = c /\ tx' = tx /\ losses' = losses /\ toTx' = toTx (+) SetToBag(u.out)
  BY DEF RxStep
<1>2. RxSound(tx, u) /\ RxTyped(u) /\ u.firstSeqNum \in Nat /\ u.seqNum \in Nat
  BY DEF RxSafe, RxSound, RxTyped
<1>3. RxSame(c, u) /\ c.seqNum = u.seqNum /\ c.out = {}
  BY <1>2 DEF RxTyped, RxSame, RxStart
<1> HIDE DEF c
<1>4. RxSound(tx, c)
  BY <1>2, <1>3, RxSameSound
<1>5. /\ rx.firstSeqNum \in Nat /\ F \in Nat /\ rx.firstSeqNum <= F /\ rx.accepted \subseteq A
      /\ \A p \in u.out : Answers(tx, A, F, p)
  BY <1>2, <1>3 DEF RxSafe, RxSame, IInv, RxTyped
<1>6. IsABag(toTx') /\ BagToSet(toTx') = BagToSet(toTx) \cup u.out
  BY <1>1, BagsAdded DEF IInv
<1>7. \A p \in BagToSet(toTx') : Answers(tx', rx'.accepted, rx'.firstSeqNum, p)
  <2>1. \A p \in BagToSet(toTx) : Answers(tx, A, F, p)
    BY <1>5, AnswersMore DEF IInv
  <2> QED BY <1>1, <1>5, <1>6, <2>1
<1>8. \A p \in BagToSet(toRx') : Sends(tx', p)
  BY <1>1 DEF IInv
<1>9. /\ Sound(tx', rx'.accepted, rx'.firstSeqNum) /\ RxTyped(rx') /\ Buffers(rx')
      /\ Passes(rx', tx'.header)
  BY <1>1, <1>4 DEF RxSound
<1>10. tx'.out = {} /\ rx'.out = {} /\ losses' \in 0 .. MaxLoss
  BY <1>1, <1>3 DEF IInv
<1>11. IInv'
  BY <1>6, <1>7, <1>8, <1>9, <1>10 DEF IInv
<1>12. PassesOne(rx', rx, tx.header)
  BY <1>1, <1>3 DEF RxSafe, RxSame, PassesOne
<1> QED BY <1>1, <1>5, <1>11, <1>12

\* An SDU gets a number: it is lost, or it has PDUs that nobody has seen yet.
Loses(u, t) ==
  u.seqNum = t.seqNum /\ u.header = t.header /\ u.lost = t.lost \cup {t.nextSdu}
Adds(u, t) ==
  /\ u.lost = t.lost /\ t.seqNum < u.seqNum
  /\ \A s \in DOMAIN u.header :
       IF s < t.seqNum THEN u.header[s] = t.header[s] ELSE u.header[s].sdu = t.nextSdu
Numbers(u, t) ==
  /\ t.nextSdu < MaxSdus /\ u.nextSdu = t.nextSdu + 1
  /\ u.firstSeqNum = t.firstSeqNum /\ KeepsMarks(u, t) /\ u.givenUp = t.givenUp
  /\ Loses(u, t) \/ Adds(u, t)

LEMMA EnqueNumbers ==
  ASSUME NEW t, NEW A, NEW F, Sound(t, A, F), NEW n \in Nat \ {0}, t.nextSdu < MaxSdus,
         NEW c, Cleared(c, Enque(t, n))
  PROVE  Numbers(c, t)
<1> DEFINE u == Enque(t, n)
<1>1. LosesSdu(u, t) \/ AddsSdu(u, t, n)
  BY EnqueFacts
<1> HIDE DEF u
<1>2. /\ c.firstSeqNum = u.firstSeqNum /\ c.seqNum = u.seqNum /\ c.header = u.header
      /\ c.nextSdu = u.nextSdu /\ c.lost = u.lost /\ c.givenUp = u.givenUp
      /\ c.received = u.received /\ c.discarded = u.discarded
  BY DEF Cleared, KeepsPdus, KeepsMarks, KeepsSdus, u
<1>3. t.seqNum \in Nat /\ DOMAIN t.header = 0 .. t.seqNum - 1
  BY SoundTypes
<1>4. CASE LosesSdu(u, t)
  BY <1>2, <1>4 DEF LosesSdu, Numbers, Loses, KeepsMarks
<1>5. CASE AddsSdu(u, t, n)
  <2>1. Adds(c, t)
    <3>1. /\ c.lost = t.lost /\ c.seqNum = t.seqNum + n
          /\ DOMAIN c.header = DOMAIN t.header \cup NewPdus(t, n)
          /\ \A s \in NewPdus(t, n) : c.header[s] = NewHeader(t, n)
          /\ \A s \in DOMAIN t.header : c.header[s] = t.header[s]
      BY <1>2, <1>5 DEF AddsSdu
    <3>2. ASSUME NEW s \in DOMAIN c.header, s < t.seqNum PROVE c.header[s] = t.header[s]
      BY <1>3, <3>1, <3>2 DEF NewPdus
    <3>3. ASSUME NEW s \in DOMAIN c.header, ~(s < t.seqNum)
          PROVE  c.header[s].sdu = t.nextSdu
      BY <1>3, <3>1, <3>3 DEF NewPdus, NewHeader
    <3> QED BY <1>3, <3>1, <3>2, <3>3 DEF Adds
  <2> QED BY <1>2, <1>5, <2>1 DEF AddsSdu, Numbers, KeepsMarks
<1> QED BY <1>1, <1>4, <1>5

LEMMA ClearedPlain ==
  ASSUME NEW t, NEW u, NEW c, Cleared(c, u), Plain(u, t)
  PROVE  Plain(c, t)
BY DEF Cleared, Plain, KeepsPdus, KeepsSdus

LEMMA ClearedGivesUp ==
  ASSUME NEW t, NEW u, NEW c, Cleared(c, u), GivesUp(u, t)
  PROVE  GivesUp(c, t)
BY DEF Cleared, GivesUp, KeepsPdus, KeepsSdus, KeepsMarks

\* What a step can be, as the other theorems need it.
SenderMoves ==
  /\ Running /\ UNCHANGED rx /\ Grows(tx', tx) /\ Moved(tx', tx)
  /\ Plain(tx', tx) \/ GivesUp(tx', tx) \/ Numbers(tx', tx)
ReceiverMoves ==
  /\ Running /\ UNCHANGED tx /\ rx.firstSeqNum <= rx'.firstSeqNum
  /\ PassesOne(rx', rx, tx.header)

LEMMA TxStepsSound ==
  ASSUME IInv, TxSteps
  PROVE  IInv' /\ SenderMoves
<1> DEFINE A == rx.accepted
           F == rx.firstSeqNum
<1>1. Sound(tx, A, F) /\ F \in Nat /\ SendsAll(tx) /\ IsABag(toTx)
  BY DEF IInv, RxTyped, SendsAll
<1> HIDE DEF A, F
<1>2. ASSUME NEW n \in SduSizes, SendSdu(n) PROVE IInv' /\ SenderMoves
  <2>1. /\ TxStep(Enque(tx, n)) /\ tx.nextSdu < MaxSdus
        /\ tx.seqNum + n <= tx.firstSeqNum + MaxLoad /\ UNCHANGED <<rx, toTx, losses>>
    BY <1>2 DEF SendSdu
  <2>2. Safe(Enque(tx, n), tx, A, F)
    BY <1>1, <2>1, EnqueSound
  <2>3. IInv' /\ Grows(tx', tx) /\ Moved(tx', tx) /\ Cleared(tx', Enque(tx, n))
    BY <1>1, <2>1, <2>2, TxStepSound DEF A, F
  <2>4. n \in Nat \ {0}
    BY RlcAmAssumption
  <2>5. Numbers(tx', tx)
    BY <1>1, <2>1, <2>3, <2>4, EnqueNumbers
  <2> QED BY <2>1, <2>3, <2>5 DEF SenderMoves, TxStep
<1>3. ASSUME NEW sn \in tx.pduTimer, PduTimer(sn) PROVE IInv' /\ SenderMoves
  <2> DEFINE u == PduTimerHandle(tx, sn)
  <2>1. TxStep(u) /\ UNCHANGED <<rx, toTx, losses>>
    BY <1>3 DEF PduTimer
  <2>2. Safe(u, tx, A, F) /\ (Plain(u, tx) \/ GivesUp(u, tx))
    BY <1>1, PduTimerSound
  <2> HIDE DEF u
  <2>3. IInv' /\ Grows(tx', tx) /\ Moved(tx', tx) /\ Cleared(tx', u)
    BY <1>1, <2>1, <2>2, TxStepSound DEF A, F
  <2>4. Plain(tx', tx) \/ GivesUp(tx', tx)
    BY <2>2, <2>3, ClearedPlain, ClearedGivesUp
  <2> QED BY <2>1, <2>3, <2>4 DEF SenderMoves, TxStep
<1>4. ASSUME NEW m \in tx.mrwTimer, MrwTimer(m) PROVE IInv' /\ SenderMoves
  <2> DEFINE u == MrwTimerHandle(tx, m)
  <2>1. TxStep(u) /\ UNCHANGED <<rx, toTx, losses>>
    BY <1>4 DEF MrwTimer
  <2>2. Safe(u, tx, A, F) /\ Plain(u, tx)
    BY <1>1, MrwTimerSound
  <2> HIDE DEF u
  <2>3. IInv' /\ Grows(tx', tx) /\ Moved(tx', tx) /\ Cleared(tx', u)
    BY <1>1, <2>1, <2>2, TxStepSound DEF A, F
  <2>4. Plain(tx', tx)
    BY <2>2, <2>3, ClearedPlain
  <2> QED BY <2>1, <2>3, <2>4 DEF SenderMoves, TxStep
<1>5. ASSUME BufferStatusTimer PROVE IInv' /\ SenderMoves
  <2> DEFINE u == BufferStatusTimerHandle(tx)
  <2>1. TxStep(u) /\ UNCHANGED <<rx, toTx, losses>>
    BY <1>5 DEF BufferStatusTimer
  <2>2. Safe(u, tx, A, F) /\ Plain(u, tx)
    BY <1>1, BufferStatusTimerSound
  <2> HIDE DEF u
  <2>3. IInv' /\ Grows(tx', tx) /\ Moved(tx', tx) /\ Cleared(tx', u)
    BY <1>1, <2>1, <2>2, TxStepSound DEF A, F
  <2>4. Plain(tx', tx)
    BY <2>2, <2>3, ClearedPlain
  <2> QED BY <2>1, <2>3, <2>4 DEF SenderMoves, TxStep
<1>6. ASSUME NEW p \in BagToSet(toTx), DeliverToTx(p) PROVE IInv' /\ SenderMoves
  <2> DEFINE u == HandleControlPacket(tx, p)
  <2>1. TxStep(u) /\ UNCHANGED <<rx, losses>> /\ toTx' = toTx (-) SetToBag({p})
    BY <1>6 DEF DeliverToTx
  <2>2. Answers(tx, A, F, p)
    BY DEF IInv, A, F
  <2>3. Safe(u, tx, A, F) /\ Plain(u, tx)
    BY <1>1, <2>2, HandleControlPacketSound
  <2>4. IsABag(toTx') /\ BagToSet(toTx') \subseteq BagToSet(toTx)
    BY <1>1, <2>1, BagsTaken
  <2> HIDE DEF u
  <2>5. IInv' /\ Grows(tx', tx) /\ Moved(tx', tx) /\ Cleared(tx', u)
    BY <2>1, <2>3, <2>4, TxStepSound DEF A, F
  <2>6. Plain(tx', tx)
    BY <2>3, <2>5, ClearedPlain
  <2> QED BY <2>1, <2>5, <2>6 DEF SenderMoves, TxStep
<1> QED BY <1>2, <1>3, <1>4, <1>5, <1>6 DEF TxSteps, SendSdu, PduTimer, MrwTimer, DeliverToTx

LEMMA RxStepsSound ==
  ASSUME HalfWindow, IInv, RxSteps
  PROVE  IInv' /\ ReceiverMoves
<1>1. RxSound(tx, rx) /\ IsABag(toRx) /\ \A p \in BagToSet(toRx) : Sends(tx, p)
  BY DEF IInv, RxSound
<1>2. ASSUME NEW p \in BagToSet(toRx), NEW allowed \in BOOLEAN, DeliverToRx(p, allowed)
      PROVE  IInv' /\ ReceiverMoves
  <2> DEFINE u == EnquePdu(rx, tx.header, p, allowed)
  <2>1. /\ RxStep(u) /\ Running /\ UNCHANGED <<tx, losses>>
        /\ toRx' = toRx (-) SetToBag({p})
    BY <1>2 DEF DeliverToRx, RxStep
  <2>2. rx.err = "none"
    BY <2>1 DEF Running
  <2>3. RxSafe(u, rx, tx)
    <3>1. CASE p.type = "DATA"
      <4>1. p.sn \in DOMAIN tx.header
        BY <1>1, <3>1 DEF Sends
      <4> QED BY <1>1, <2>2, <3>1, <4>1, EnqueDataSafe DEF EnquePdu
    <3>2. CASE p.type # "DATA"
      <4>1. p.type = "MRW" /\ Sends(tx, p)
        BY <1>1, <3>2 DEF Sends
      <4> QED BY <1>1, <2>2, <3>2, <4>1, EnqueMrwSafe DEF EnquePdu
    <3> QED BY <3>1, <3>2
  <2>4. IsABag(toRx') /\ BagToSet(toRx') \subseteq BagToSet(toRx)
    BY <1>1, <2>1, BagsTaken
  <2> HIDE DEF u
  <2> QED BY <2>1, <2>3, <2>4, RxStepSound DEF ReceiverMoves, RxStep
<1>3. ASSUME NEW allowed \in BOOLEAN, RxTimer(allowed) PROVE IInv' /\ ReceiverMoves
  <2>1. RxStep(RxTimerHandle(rx, allowed)) /\ UNCHANGED <<tx, toRx, losses>>
    BY <1>3 DEF RxTimer
  <2>2. RxSafe(RxTimerHandle(rx, allowed), rx, tx)
    BY <1>1, RxTimerSafe
  <2> QED BY <1>1, <2>1, <2>2, RxStepSound DEF ReceiverMoves, RxStep
<1> QED BY <1>2, <1>3 DEF RxSteps

LEMMA LoseSound ==
  ASSUME IInv, Lose
  PROVE  IInv' /\ UNCHANGED <<tx, rx>>
<1>1. losses \in Nat /\ losses < MaxLoss /\ losses' = losses + 1 /\ UNCHANGED <<tx, rx>>
  BY RlcAmAssumption DEF IInv, Lose
<1>2. /\ IsABag(toRx') /\ BagToSet(toRx') \subseteq BagToSet(toRx)
      /\ IsABag(toTx') /\ BagToSet(toTx') \subseteq BagToSet(toTx)
  <2>1. IsABag(toRx) /\ IsABag(toTx)
    BY DEF IInv
  <2>2. CASE UNCHANGED toTx /\ \E p \in BagToSet(toRx) : toRx' = toRx (-) SetToBag({p})
    BY <2>1, <2>2, BagsTaken
  <2>3. CASE UNCHANGED toRx /\ \E p \in BagToSet(toTx) : toTx' = toTx (-) SetToBag({p})
    BY <2>1, <2>3, BagsTaken
  <2> QED BY <2>2, <2>3 DEF Lose
<1>3. losses' \in 0 .. MaxLoss
  BY <1>1, RlcAmAssumption
<1> QED BY <1>1, <1>2, <1>3 DEF IInv
-----------------------------------------------------------------------------
(* The theorems                                                             *)

LEMMA InitSound == Init => IInv
<1> SUFFICES ASSUME Init PROVE IInv
  OBVIOUS
<1>1. tx = TxStart /\ rx = RxStart /\ toRx = EmptyBag /\ toTx = EmptyBag /\ losses = 0
  BY DEF Init, TxInit
<1>2. /\ tx.firstSeqNum = 0 /\ tx.seqNum = 0 /\ tx.header = [s \in {} |-> 0]
      /\ tx.received = {} /\ tx.discarded = {} /\ tx.nextSdu = 0 /\ tx.lost = {}
      /\ tx.givenUp = {} /\ tx.out = {} /\ tx.err = "none"
  BY <1>1 DEF TxStart
<1>3. /\ DOMAIN rx = DOMAIN RxStart /\ rx.firstSeqNum = 0 /\ rx.seqNum = 0 /\ rx.pduBuffer = {}
      /\ rx.received = {} /\ rx.pending = {} /\ rx.firstSdu = 0 /\ rx.accepted = {}
      /\ rx.passedUp = {} /\ rx.badSdu = {} /\ rx.out = {} /\ rx.err = "none"
  BY <1>1 DEF RxStart
<1>4. /\ IsABag(toRx) /\ IsABag(toTx) /\ BagToSet(toRx) = {} /\ BagToSet(toTx) = {}
  BY <1>1 DEF IsABag, EmptyBag, BagToSet, SetToBag
<1>5. losses \in 0 .. MaxLoss
  BY <1>1, RlcAmAssumption
<1>6. RxTyped(rx) /\ Buffers(rx) /\ Passes(rx, tx.header)
  BY <1>2, <1>3 DEF RxTyped, Buffers, Passes
<1>7. Sound(tx, {}, 0)
  <2>1. Inv(tx)
    BY <1>1, TxInitInv DEF TxInit, TxInv
  <2>2. Headers(tx)
    BY <1>2 DEF Headers
  <2>3. Numbered(tx)
    BY <1>2, RlcAmAssumption DEF Numbered
  <2>4. Apart(tx, 0)
    BY <1>2, TxAssumption, RlcAmAssumption DEF Apart, Used
  <2>5. True(tx, {}, 0)
    BY <1>2 DEF True
  <2> QED BY <1>2, <2>1, <2>2, <2>3, <2>4, <2>5 DEF Sound
<1> QED BY <1>2, <1>3, <1>4, <1>5, <1>6, <1>7 DEF IInv

\* A step, or stuttering.
Steps == SenderMoves \/ ReceiverMoves \/ UNCHANGED <<tx, rx>>

LEMMA NextSound == HalfWindow /\ IInv /\ [Next]_vars => IInv' /\ Steps
<1> SUFFICES ASSUME HalfWindow, IInv, [Next]_vars PROVE IInv' /\ Steps
  OBVIOUS
<1>1. CASE TxSteps
  BY <1>1, TxStepsSound DEF Steps
<1>2. CASE RxSteps
  BY <1>2, RxStepsSound DEF Steps
<1>3. CASE Lose
  BY <1>3, LoseSound DEF Steps
<1>4. CASE UNCHANGED vars
  BY <1>4 DEF vars, IInv, Steps
<1> QED BY <1>1, <1>2, <1>3, <1>4 DEF Next

LEMMA Invariance ==
  ASSUME HalfWindow
  PROVE  Spec => []IInv
<1>1. IInv /\ [Next]_vars => IInv'
  BY NextSound
<1> QED BY <1>1, InitSound, PTL DEF Spec

\* Both entities and the bags between them keep their shape.
THEOREM TypeCorrect ==
  ASSUME HalfWindow
  PROVE  Spec => []TypeOK
<1>1. IInv => TypeOK
  <2> SUFFICES ASSUME IInv PROVE TypeOK
    OBVIOUS
  <2>1. RxSound(tx, rx)
    BY DEF IInv, RxSound
  <2>2. TxTypeOK
    BY TxInvProperties DEF IInv, Sound, TxInv
  <2>3. rx.received \subseteq 0 .. RxWindowSize - 1
    <3>1. /\ rx.firstSeqNum \in Nat /\ tx.seqNum \in Nat /\ Used \in Int
          /\ RxWindowSize \in Nat \ {0} /\ 2 * Used <= RxWindowSize
          /\ tx.seqNum <= rx.firstSeqNum + Used
          /\ rx.accepted \subseteq 0 .. tx.seqNum - 1
      BY <2>1, RxTypes, RxAssumption
    <3>2. \A s \in rx.accepted : s >= rx.firstSeqNum => s - rx.firstSeqNum \in 0 .. RxWindowSize - 1
      BY <3>1
    <3> QED BY <3>2 DEF IInv, Buffers
  <2>4. \A S \in {rx.pduBuffer, rx.pending, rx.accepted} : S \subseteq DOMAIN tx.header
    BY DEF IInv, Buffers, Sound, True
  <2> QED BY <2>2, <2>3, <2>4 DEF IInv, RxTyped, TypeOK
<1> QED BY <1>1, Invariance, PTL

\* No DATA, MRW or control PDU ever falls outside the window that enque,
\* moveRxWindow, recvAck and recvCumulativeAck check it against, however late
\* it arrives.
THEOREM AlignedWindows ==
  ASSUME HalfWindow
  PROVE  Spec => []WindowsAligned
<1>1. IInv => WindowsAligned
  <2> SUFFICES ASSUME IInv PROVE WindowsAligned
    OBVIOUS
  <2>1. /\ rx.firstSeqNum \in Nat /\ tx.firstSeqNum \in Nat /\ tx.seqNum \in Nat
        /\ Used \in Int /\ 2 * Used <= RxWindowSize /\ RxWindowSize \in Nat \ {0}
        /\ tx.firstSeqNum <= rx.firstSeqNum /\ rx.firstSeqNum <= tx.seqNum
        /\ tx.seqNum <= rx.firstSeqNum + Used
        /\ DOMAIN tx.header = 0 .. tx.seqNum - 1
    BY RxTypes, RxAssumption DEF IInv, RxSound
  <2>2. TxWindowSize \in Nat /\ tx.seqNum < tx.firstSeqNum + TxWindowSize
    <3>1. TxWindowSize \in Nat
      BY TxAssumption
    <3>2. Sound(tx, rx.accepted, rx.firstSeqNum)
      BY DEF IInv
    <3> QED BY <3>1, <3>2, SoundTypes
  <2>3. ASSUME NEW p \in BagToSet(toRx), p.type = "DATA"
        PROVE  p.sn < rx.firstSeqNum + RxWindowSize
    <3>1. p.sn \in 0 .. tx.seqNum - 1
      BY <2>1, <2>3 DEF IInv, Sends
    <3> QED BY <2>1, <3>1
  <2>4. ASSUME NEW p \in BagToSet(toRx), p.type = "MRW"
        PROVE  p.lastSn <= rx.firstSeqNum + RxWindowSize
    <3>1. p.lastSn \in Nat /\ p.lastSn <= tx.seqNum
      BY <2>4 DEF IInv, Sends
    <3> QED BY <2>1, <3>1
  <2>5. ASSUME NEW p \in BagToSet(toTx), p.type = "ACK"
        PROVE  p.lastSn < tx.firstSeqNum + TxWindowSize
    <3>1. p.lastSn < tx.seqNum /\ p \in ControlPdu
      BY <2>5 DEF IInv, Answers
    <3>2. p.lastSn \in Int
      BY <2>5, <3>1 DEF ControlPdu
    <3> QED BY <2>1, <2>2, <3>1, <3>2
  <2>6. ASSUME NEW p \in BagToSet(toTx), p.type = "MRW_ACK"
        PROVE  p.firstSn <= rx.firstSeqNum
    BY <2>6 DEF IInv, Answers
  <2>7. /\ \A p \in BagToSet(toRx) : p.type = "DATA" \/ p.type = "MRW"
        /\ \A p \in BagToSet(toTx) : p.type = "ACK" \/ p.type = "MRW_ACK"
    BY DEF IInv, Sends, Answers, ControlPdu
  <2>8. ASSUME NEW p \in InFlight
        PROVE  CASE p.type = "DATA"    -> p.sn < rx.firstSeqNum + RxWindowSize
                 [] p.type = "MRW"     -> p.lastSn <= rx.firstSeqNum + RxWindowSize
                 [] p.type = "MRW_ACK" -> p.firstSn <= rx.firstSeqNum
                 [] p.type = "ACK"     -> p.lastSn < tx.firstSeqNum + TxWindowSize
    <3>1. CASE p \in BagToSet(toRx)
      BY <2>3, <2>4, <2>7, <3>1
    <3>2. CASE p \in BagToSet(toTx)
      BY <2>5, <2>6, <2>7, <3>2
    <3> QED BY <3>1, <3>2 DEF InFlight
  <2> QED BY <2>1, <2>8 DEF WindowsAligned
<1> QED BY <1>1, Invariance, PTL

\* A status report, however old or partial, and the acknowledgement of an MRW
\* command mark only PDUs that the receiver buffered or the sender gave up.
THEOREM TrueAcks ==
  ASSUME HalfWindow
  PROVE  Spec => []AcksAreTrue
<1>1. IInv => AcksAreTrue
  BY DEF IInv, Sound, True, AcksAreTrue
<1> QED BY <1>1, Invariance, PTL

\* What am_rtx_ack refutes when the windows are too large for each other holds
\* when they are not: moveRxWindow leaves the marks where the PDUs are.
THEOREM MarksFollowBuffer ==
  ASSUME HalfWindow
  PROVE  Spec => []MarksMatchBuffer
<1>1. IInv => MarksMatchBuffer
  <2> SUFFICES ASSUME IInv PROVE MarksMatchBuffer
    OBVIOUS
  <2>1. /\ rx.firstSeqNum \in Nat /\ rx.received = {s - rx.firstSeqNum : s \in rx.pduBuffer}
        /\ rx.pduBuffer \subseteq Nat
    <3>1. Sound(tx, rx.accepted, rx.firstSeqNum) /\ RxTyped(rx) /\ Buffers(rx)
      BY DEF IInv
    <3>2. DOMAIN tx.header = 0 .. tx.seqNum - 1 /\ tx.seqNum \in Nat
      BY <3>1, SoundTypes
    <3> QED BY <3>1, <3>2 DEF RxTyped, Buffers, Sound, True
  <2>2. \A s \in rx.pduBuffer : rx.firstSeqNum + (s - rx.firstSeqNum) = s
    BY <2>1
  <2> QED BY <2>1, <2>2 DEF MarksMatchBuffer
<1> QED BY <1>1, Invariance, PTL

\* passUp gives PDCP no SDU twice, in part or mixed with another, whatever is
\* retransmitted and whatever leaves the window early.
THEOREM OnceAndIntact ==
  ASSUME HalfWindow
  PROVE  Spec => []PassedUpOnceAndIntact
<1>1. IInv => PassedUpOnceAndIntact
  BY DEF IInv, Passes, PassedUpOnceAndIntact
<1> QED BY <1>1, Invariance, PTL

\* checkCompleteSdu overlooks no complete SDU, if none has more than two PDUs.
THEOREM CompleteIsPassedUp ==
  ASSUME HalfWindow, ShortSdus
  PROVE  Spec => []CompleteSduPassedUp
<1>1. IInv => CompleteSduPassedUp
  BY DEF IInv, Passes, CompleteSduPassedUp
<1> QED BY <1>1, Invariance, PTL

\* moveTxWindow passes only PDUs that were acknowledged or given up, and
\* neither window moves back.
THEOREM ForwardOverResolved ==
  ASSUME HalfWindow
  PROVE  Spec => WindowMovesOverResolved
<1> DEFINE Forward == /\ tx.firstSeqNum <= tx'.firstSeqNum /\ rx.firstSeqNum <= rx'.firstSeqNum
                      /\ tx.firstSeqNum .. tx'.firstSeqNum - 1 \subseteq Resolved(tx)
<1>1. IInv /\ [Next]_vars => [Forward]_vars
  <2> SUFFICES ASSUME IInv, [Next]_vars PROVE Forward
    OBVIOUS
  <2>1. Steps
    BY NextSound
  <2>2. tx.firstSeqNum \in Nat /\ rx.firstSeqNum \in Nat
    BY SoundTypes DEF IInv, RxTyped
  <2>3. CASE SenderMoves
    BY <2>2, <2>3 DEF SenderMoves, Grows, Moved
  <2>4. CASE ReceiverMoves \/ UNCHANGED <<tx, rx>>
    BY <2>2, <2>4 DEF ReceiverMoves
  <2> QED BY <2>1, <2>3, <2>4 DEF Steps
<1> QED BY <1>1, Invariance, PTL DEF Spec, WindowMovesOverResolved

\* The simulation never ends in AmTxQueue: none of the exceptions of moveTxWindow,
\* recvAck, recvCumulativeAck and the timers can be thrown; and what is marked as
\* received is in pduRtxQueue_, so that the ASSERT of recvAck, which comes after
\* the mark is set and before anything is removed, holds.
THEOREM SenderNeverThrows ==
  ASSUME HalfWindow
  PROVE  Spec => [](tx.err = "none" /\ AckedPdusAreStored)
<1>1. IInv => tx.err = "none" /\ AckedPdusAreStored
  <2> SUFFICES ASSUME IInv PROVE tx.err = "none" /\ AckedPdusAreStored
    OBVIOUS
  <2>1. Sound(tx, rx.accepted, rx.firstSeqNum)
    BY DEF IInv
  <2>2. tx.err = "none" /\ tx.received \subseteq Outstanding(tx) /\ Core(tx)
    BY <2>1, SoundTypes
  <2> QED BY <2>2 DEF Core, Window, AckedPdusAreStored
<1> QED BY <1>1, Invariance, PTL

\* Next to this peer the sender is the AmTxQueue that TxSpec describes, so that
\* what is proved of TxSpec holds of it.
THEOREM SenderImplements ==
  ASSUME HalfWindow
  PROVE  Spec => TxSpec
<1>1. Init => TxInit
  BY DEF Init
<1>2. IInv /\ [Next]_vars => [TxNext]_tx
  <2> SUFFICES ASSUME IInv, [Next]_vars PROVE [TxNext]_tx
    OBVIOUS
  <2>1. ASSUME NEW n \in SduSizes, SendSdu(n) PROVE TxNext
    <3>1. n \in Nat \ {0} /\ TxBecomes(Enque(tx, n))
      BY <2>1, RlcAmAssumption DEF SendSdu, TxStep
    <3> QED BY <3>1 DEF TxNext
  <2>2. ASSUME NEW sn \in tx.pduTimer, PduTimer(sn) PROVE TxNext
    BY <2>2 DEF PduTimer, TxStep, TxNext
  <2>3. ASSUME NEW m \in tx.mrwTimer, MrwTimer(m) PROVE TxNext
    BY <2>3 DEF MrwTimer, TxStep, TxNext
  <2>4. ASSUME BufferStatusTimer PROVE TxNext
    BY <2>4 DEF BufferStatusTimer, TxStep, TxNext
  <2>5. ASSUME NEW p \in BagToSet(toTx), DeliverToTx(p) PROVE TxNext
    <3>1. p \in ControlPdu /\ TxBecomes(HandleControlPacket(tx, p))
      BY <2>5 DEF DeliverToTx, TxStep, IInv, Answers
    <3> QED BY <3>1 DEF TxNext
  <2>6. CASE TxSteps
    BY <2>1, <2>2, <2>3, <2>4, <2>5, <2>6 DEF TxSteps
  <2>7. CASE RxSteps \/ Lose \/ UNCHANGED vars
    BY <2>7 DEF RxSteps, DeliverToRx, RxTimer, Lose, vars
  <2> QED BY <2>6, <2>7 DEF Next
<1> QED BY <1>1, <1>2, Invariance, PTL DEF Spec, TxSpec
-----------------------------------------------------------------------------
(* RlcAm implements AmService                                               *)

Sdus == 0 .. MaxSdus - 1

\* SduStatus as a function of the sender's record.
AllAcked(t, n) ==
  \A s \in DOMAIN t.header : t.header[s].sdu = n => s < t.firstSeqNum \/ s \in t.received
StatusIn(t, n) ==
  IF n >= t.nextSdu THEN "unsent"
  ELSE IF n \in t.lost THEN "lost"
  ELSE IF n \in t.givenUp THEN "givenUp"
  ELSE IF AllAcked(t, n) THEN "acked" ELSE "open"
StatusOf(t) == [n \in Sdus |-> StatusIn(t, n)]

\* The SDUs that have PDUs, were lost, or were given up.
LEMMA SdusApart ==
  ASSUME NEW t, NEW A, NEW F, Sound(t, A, F)
  PROVE  /\ t.nextSdu \in Nat /\ t.nextSdu <= MaxSdus /\ MaxSdus \in Nat
         /\ \A s \in DOMAIN t.header : /\ t.header[s].sdu \in Sdus
                                       /\ t.header[s].sdu < t.nextSdu
                                       /\ t.header[s].sdu \notin t.lost
         /\ \A n \in t.lost : n \in Nat /\ n < t.nextSdu
         /\ \A n \in t.givenUp : n \in Nat /\ n < t.nextSdu /\ n \notin t.lost
<1>1. /\ t.nextSdu \in Nat /\ DOMAIN t.header = 0 .. t.seqNum - 1
      /\ t.header \in [0 .. t.seqNum - 1 -> Header] /\ Discards(t)
  BY SoundTypes DEF Core
<1>2. MaxSdus \in Nat /\ Numbered(t) /\ True(t, A, F)
  BY RlcAmAssumption DEF Sound
<1>3. ASSUME NEW s \in DOMAIN t.header
      PROVE  /\ t.header[s].sdu \in Nat /\ t.header[s].sdu < t.nextSdu
             /\ t.header[s].sdu \notin t.lost
  <2>1. t.header[s] \in Header
    BY <1>1
  <2>2. t.header[s].sdu < t.nextSdu
    BY <1>1 DEF Discards
  <2> QED BY <1>2, <2>1, <2>2 DEF Header, Numbered
<1>4. t.nextSdu <= MaxSdus /\ \A n \in t.lost : n \in Nat /\ n < t.nextSdu
  BY <1>1, <1>2 DEF Numbered
<1>5. t.givenUp \subseteq {t.header[s].sdu : s \in DOMAIN t.header}
  BY <1>2 DEF True
<1> QED BY <1>1, <1>2, <1>3, <1>4, <1>5 DEF Sdus

LEMMA StatusIs ==
  ASSUME NEW t, NEW A, NEW F, Sound(t, A, F), NEW n \in Sdus
  PROVE  StatusIn(t, n) =
           CASE n >= t.nextSdu  -> "unsent"
             [] n \in t.lost    -> "lost"
             [] n \in t.givenUp -> "givenUp"
             [] OTHER -> IF \A s \in {q \in DOMAIN t.header : t.header[q].sdu = n} :
                              s < t.firstSeqNum \/ s \in t.received
                         THEN "acked" ELSE "open"
<1>1. n \in Nat /\ t.nextSdu \in Nat
  BY SdusApart DEF Sdus
<1>2. n \in t.lost => ~(n >= t.nextSdu) /\ n \notin t.givenUp
  BY <1>1, SdusApart
<1>3. n \in t.givenUp => ~(n >= t.nextSdu) /\ n \notin t.lost
  BY <1>1, SdusApart
<1>4. AllAcked(t, n) <=> \A s \in {q \in DOMAIN t.header : t.header[q].sdu = n} :
                             s < t.firstSeqNum \/ s \in t.received
  BY DEF AllAcked
<1> QED BY <1>2, <1>3, <1>4 DEF StatusIn

\* An SDU all of whose PDUs were accepted was passed up.
LEMMA AcceptedIsPassedUp ==
  ASSUME NEW t, NEW r, NEW F, Sound(t, r.accepted, F), Passes(r, t.header),
         ShortSdus, r.err = "none", NEW s \in DOMAIN t.header,
         \A q \in DOMAIN t.header : t.header[q].sdu = t.header[s].sdu => q \in r.accepted
  PROVE  t.header[s].sdu \in r.passedUp
<1> DEFINE h == t.header
<1>1. /\ t.seqNum \in Nat /\ DOMAIN h = 0 .. t.seqNum - 1 /\ h[s] \in Header /\ Headers(t)
  BY SoundTypes DEF Sound
<1>2. /\ h[s].firstSn \in Nat /\ h[s].lastSn \in Nat /\ h[s].lastSn < t.seqNum
  BY <1>1 DEF Header, Headers
<1>3. ASSUME NEW q \in h[s].firstSn .. h[s].lastSn PROVE q \in r.accepted
  <2>1. q \in DOMAIN h
    BY <1>1, <1>2
  <2>2. h[q] = h[s]
    BY <1>1, <2>1 DEF Headers
  <2> QED BY <2>1, <2>2
<1> QED BY <1>3 DEF Passes

\* ... in particular if the sender has seen all of them acknowledged.
LEMMA AckedIsPassedUp ==
  ASSUME NEW t, NEW r, NEW F, Sound(t, r.accepted, F), Passes(r, t.header),
         ShortSdus, r.err = "none", NEW n \in Sdus, StatusIn(t, n) = "acked"
  PROVE  n \in r.passedUp
<1>1. n < t.nextSdu /\ n \notin t.lost /\ n \notin t.givenUp /\ AllAcked(t, n)
  <2>1. t.nextSdu \in Nat /\ n \in Nat
    BY SdusApart DEF Sdus
  <2> QED BY <2>1 DEF StatusIn
<1>2. PICK s \in DOMAIN t.header : t.header[s].sdu = n
  <2>1. n \in (0 .. t.nextSdu - 1) \ t.lost
    BY <1>1, SdusApart DEF Sdus
  <2> QED BY <2>1 DEF Sound, Numbered
<1>3. ASSUME NEW q \in DOMAIN t.header, t.header[q].sdu = n PROVE q \in r.accepted
  <2>1. q \in Nat /\ True(t, r.accepted, F) /\ t.firstSeqNum \in Nat
    BY SoundTypes DEF Sound
  <2>2. CASE q < t.firstSeqNum
    BY <1>1, <1>3, <2>1, <2>2 DEF True
  <2>3. CASE q \in t.received
    BY <1>1, <1>3, <2>1, <2>3 DEF True
  <2> QED BY <1>1, <1>3, <2>2, <2>3 DEF AllAcked
<1> QED BY <1>2, <1>3, AcceptedIsPassedUp

\* The window moves and acknowledgements arrive: SDUs become acknowledged.
LEMMA PlainAcknowledges ==
  ASSUME NEW t, NEW u, NEW r, NEW F, Sound(t, r.accepted, F), Sound(u, r.accepted, F),
         Grows(u, t), Plain(u, t), Passes(r, t.header), ShortSdus, r.err = "none",
         NEW S, S = {n \in Sdus : StatusIn(t, n) = "open" /\ StatusIn(u, n) = "acked"}
  PROVE  /\ \A n \in S : StatusIn(t, n) = "open" /\ n \in r.passedUp
         /\ \A n \in Sdus : StatusIn(u, n) = IF n \in S THEN "acked" ELSE StatusIn(t, n)
<1>1. u.header = t.header /\ u.nextSdu = t.nextSdu /\ u.lost = t.lost /\ u.givenUp = t.givenUp
  BY DEF Plain
<1>2. \A n \in S : StatusIn(t, n) = "open" /\ n \in r.passedUp
  BY <1>1, AckedIsPassedUp
<1>3. ASSUME NEW n \in Sdus, n \notin S PROVE StatusIn(u, n) = StatusIn(t, n)
  <2>1. ASSUME AllAcked(t, n) PROVE AllAcked(u, n)
    <3>1. /\ t.firstSeqNum \in Nat /\ u.firstSeqNum \in Nat /\ DOMAIN t.header \subseteq Nat
      BY SoundTypes
    <3> QED BY <1>1, <2>1, <3>1 DEF AllAcked, Grows
  <2> QED BY <1>1, <1>3, <2>1 DEF StatusIn
<1> QED BY <1>2, <1>3

LEMMA GivesUpOne ==
  ASSUME NEW t, NEW u, NEW A, NEW F, Sound(t, A, F), GivesUp(u, t)
  PROVE  \/ \A n \in Sdus : StatusIn(u, n) = StatusIn(t, n)
         \/ \E g \in Sdus : /\ StatusIn(t, g) = "open"
                            /\ \A n \in Sdus : StatusIn(u, n) = IF n = g THEN "givenUp"
                                                               ELSE StatusIn(t, n)
<1>1. PICK s \in Outstanding(t) \ Resolved(t) : u.givenUp = t.givenUp \cup {t.header[s].sdu}
  BY DEF GivesUp
<1> DEFINE g == t.header[s].sdu
<1>2. /\ u.firstSeqNum = t.firstSeqNum /\ u.received = t.received
      /\ u.header = t.header /\ u.nextSdu = t.nextSdu /\ u.lost = t.lost
  BY DEF GivesUp
<1>3. \A n \in Sdus : AllAcked(u, n) <=> AllAcked(t, n)
  BY <1>2 DEF AllAcked
<1>4. t.firstSeqNum \in Nat /\ s \in DOMAIN t.header /\ s >= t.firstSeqNum /\ s \notin t.received
      /\ s \in Nat
  BY SoundTypes DEF Outstanding, Resolved
<1>5. g \in Sdus /\ ~(g >= t.nextSdu) /\ g \notin t.lost /\ ~AllAcked(t, g)
  <2>1. g \in Sdus /\ g < t.nextSdu /\ t.nextSdu \in Nat /\ g \notin t.lost
    BY <1>4, SdusApart
  <2>2. ~AllAcked(t, g)
    BY <1>4 DEF AllAcked
  <2> QED BY <2>1, <2>2 DEF Sdus
<1>6. u.givenUp = t.givenUp \cup {g}
  BY <1>1
<1> HIDE DEF g
<1>7. CASE g \in t.givenUp
  <2>1. u.givenUp = t.givenUp
    BY <1>6, <1>7
  <2> QED BY <1>2, <1>3, <2>1 DEF StatusIn
<1>8. CASE g \notin t.givenUp
  <2>1. StatusIn(t, g) = "open"
    BY <1>5, <1>8 DEF StatusIn
  <2>2. StatusIn(u, g) = "givenUp"
    BY <1>2, <1>5, <1>6 DEF StatusIn
  <2>3. \A n \in Sdus : n # g => StatusIn(u, n) = StatusIn(t, n)
    BY <1>2, <1>3, <1>6 DEF StatusIn
  <2> QED BY <1>5, <2>1, <2>2, <2>3
<1> QED BY <1>7, <1>8

LEMMA NumbersOne ==
  ASSUME NEW t, NEW u, NEW A, NEW F, Sound(t, A, F), Sound(u, A, F), Numbers(u, t)
  PROVE  \E o \in {"open", "lost"} :
           /\ t.nextSdu \in Sdus /\ StatusIn(t, t.nextSdu) = "unsent"
           /\ \A n \in Sdus : StatusIn(u, n) = IF n = t.nextSdu THEN o ELSE StatusIn(t, n)
<1> DEFINE g == t.nextSdu
<1>1. /\ g \in Nat /\ g < MaxSdus /\ MaxSdus \in Nat /\ u.nextSdu = g + 1
      /\ u.firstSeqNum = t.firstSeqNum /\ u.received = t.received /\ u.givenUp = t.givenUp
      /\ Loses(u, t) \/ Adds(u, t)
  BY SdusApart DEF Numbers, KeepsMarks
<1>2. /\ t.firstSeqNum \in Nat /\ t.seqNum \in Nat /\ u.seqNum \in Nat
      /\ t.firstSeqNum <= t.seqNum
      /\ DOMAIN t.header = 0 .. t.seqNum - 1 /\ DOMAIN u.header = 0 .. u.seqNum - 1
      /\ t.received \subseteq 0 .. t.seqNum - 1
  BY SoundTypes DEF Outstanding
<1>3. g \notin t.lost /\ g \notin t.givenUp
  BY <1>1, SdusApart
<1>4. g \in Sdus /\ StatusIn(t, g) = "unsent"
  BY <1>1 DEF Sdus, StatusIn
<1>5. \A n \in Sdus : n # g => (n >= u.nextSdu <=> n >= t.nextSdu)
  BY <1>1 DEF Sdus
<1>6. CASE Loses(u, t)
  <2>1. u.header = t.header /\ u.lost = t.lost \cup {g}
    BY <1>6 DEF Loses
  <2>2. \A n \in Sdus : AllAcked(u, n) <=> AllAcked(t, n)
    BY <1>1, <2>1 DEF AllAcked
  <2>3. StatusIn(u, g) = "lost"
    BY <1>1, <2>1 DEF StatusIn
  <2>4. \A n \in Sdus : n # g => StatusIn(u, n) = StatusIn(t, n)
    <3> HIDE DEF g
    <3> QED BY <1>1, <1>5, <2>1, <2>2 DEF StatusIn
  <2> QED BY <1>4, <2>3, <2>4
<1>7. CASE Adds(u, t)
  <2>1. /\ u.lost = t.lost /\ t.seqNum < u.seqNum
        /\ \A s \in DOMAIN u.header :
             IF s < t.seqNum THEN u.header[s] = t.header[s] ELSE u.header[s].sdu = g
    BY <1>7 DEF Adds
  <2>2. ASSUME NEW n \in Sdus, n # g PROVE AllAcked(u, n) <=> AllAcked(t, n)
    <3>1. ASSUME NEW s \in DOMAIN u.header, u.header[s].sdu = n
          PROVE  s \in DOMAIN t.header /\ t.header[s].sdu = n
      BY <1>2, <2>1, <2>2, <3>1
    <3>2. ASSUME NEW s \in DOMAIN t.header, t.header[s].sdu = n
          PROVE  s \in DOMAIN u.header /\ u.header[s].sdu = n
      BY <1>2, <2>1, <3>2
    <3> QED BY <1>1, <3>1, <3>2 DEF AllAcked
  <2>3. StatusIn(u, g) = "open"
    <3>1. /\ t.seqNum \in DOMAIN u.header /\ u.header[t.seqNum].sdu = g
          /\ ~(t.seqNum < t.firstSeqNum) /\ t.seqNum \notin t.received
      BY <1>2, <2>1
    <3>2. ~AllAcked(u, g)
      BY <1>1, <3>1 DEF AllAcked
    <3> QED BY <1>1, <1>3, <2>1, <3>2 DEF StatusIn
  <2>4. \A n \in Sdus : n # g => StatusIn(u, n) = StatusIn(t, n)
    <3> HIDE DEF g
    <3> QED BY <1>1, <1>5, <2>1, <2>2 DEF StatusIn
  <2> QED BY <1>4, <2>3, <2>4
<1> QED BY <1>1, <1>6, <1>7

\* What is passed up for the first time has PDUs and is not acknowledged.
LEMMA PassedUpIsOpen ==
  ASSUME NEW t, NEW r, NEW F, Sound(t, r.accepted, F), Passes(r, t.header),
         ShortSdus, r.err = "none", NEW s \in DOMAIN t.header, t.header[s].sdu \notin r.passedUp
  PROVE  t.header[s].sdu \in Sdus /\ StatusIn(t, t.header[s].sdu) \in {"open", "givenUp"}
<1> DEFINE n == t.header[s].sdu
<1>1. n \in Sdus /\ n < t.nextSdu /\ t.nextSdu \in Nat /\ n \notin t.lost
  BY SdusApart
<1>2. StatusIn(t, n) # "acked"
  BY <1>1, AckedIsPassedUp
<1>3. ~(n >= t.nextSdu)
  BY <1>1 DEF Sdus
<1> HIDE DEF n
<1>4. StatusIn(t, n) \in {"open", "givenUp"}
  BY <1>1, <1>2, <1>3 DEF StatusIn
<1> QED BY <1>1, <1>4 DEF n

LEMMA StatusIsNow == IInv => [n \in Sdus |-> SduStatus(n)] = StatusOf(tx)
<1> SUFFICES ASSUME IInv, NEW n \in Sdus PROVE SduStatus(n) = StatusIn(tx, n)
  BY Zenon DEF StatusOf
<1>1. Sound(tx, rx.accepted, rx.firstSeqNum)
  BY DEF IInv
<1> QED BY <1>1, StatusIs DEF SduStatus, PdusOf

\* A step of RlcAm is a step of the service or changes nothing of it.
LEMMA StepRefines ==
  ASSUME HalfWindow, ShortSdus
  PROVE  IInv /\ IInv' /\ [Next]_vars => [Service!Next]_(Service!svars)
<1> SUFFICES ASSUME IInv, IInv', [Next]_vars PROVE [Service!Next]_(Service!svars)
  OBVIOUS
<1> DEFINE Status  == [n \in Sdus |-> SduStatus(n)]
           F       == rx.firstSeqNum
<1>1. Steps
  BY NextSound
<1>2. /\ Sound(tx, rx.accepted, F) /\ Passes(rx, tx.header)
      /\ Sound(tx', rx'.accepted, rx'.firstSeqNum)
  BY DEF IInv
<1>3. Status = StatusOf(tx)
  BY StatusIsNow
<1>4. Status' = StatusOf(tx')
  <2>1. ASSUME NEW n \in Sdus PROVE SduStatus(n)' = StatusIn(tx', n)
    BY <1>2, StatusIs DEF SduStatus, PdusOf
  <2>2. Status' = [n \in Sdus |-> SduStatus(n)']
    BY DEF Sdus
  <2> QED BY <2>1, <2>2, Zenon DEF StatusOf
<1>5. \A n \in Sdus : Status[n] = StatusIn(tx, n) /\ Status'[n] = StatusIn(tx', n)
  BY <1>3, <1>4, Zenon DEF StatusOf
<1>6. UNCHANGED Service!svars <=> Status' = Status /\ rx'.passedUp = rx.passedUp
  BY DEF Service!svars, Sdus
<1>7. CASE UNCHANGED <<tx, rx>>
  <2>1. Status' = Status
    BY <1>3, <1>4, <1>7
  <2> QED BY <1>6, <1>7, <2>1
<1>8. CASE ReceiverMoves
  <2>1. Status' = Status /\ rx.err = "none"
    BY <1>3, <1>4, <1>8 DEF ReceiverMoves, Running
  <2>2. CASE rx'.passedUp = rx.passedUp
    BY <1>6, <2>1, <2>2
  <2>3. ASSUME NEW s \in DOMAIN tx.header, rx'.passedUp = rx.passedUp \cup {tx.header[s].sdu},
               tx.header[s].sdu \notin rx.passedUp
        PROVE  Service!Next
    <3> DEFINE n == tx.header[s].sdu
    <3>1. n \in Sdus /\ StatusIn(tx, n) \in {"open", "givenUp"}
      BY <1>2, <2>1, <2>3, PassedUpIsOpen
    <3> HIDE DEF n
    <3>2. Service!PassUp(n)
      <4>1. Status[n] \in {"open", "givenUp"}
        BY <1>5, <3>1
      <4> QED BY <2>1, <2>3, <4>1 DEF Service!PassUp, n, Sdus
    <3> QED BY <3>1, <3>2 DEF Service!Next, Sdus
  <2> QED BY <1>8, <2>2, <2>3 DEF ReceiverMoves, PassesOne
<1>9. CASE SenderMoves
  <2>1. /\ rx' = rx /\ rx.err = "none" /\ Grows(tx', tx)
        /\ Plain(tx', tx) \/ GivesUp(tx', tx) \/ Numbers(tx', tx)
    BY <1>9 DEF SenderMoves, Running
  <2>2. Sound(tx', rx.accepted, F)
    BY <1>2, <2>1
  <2>3. CASE Plain(tx', tx)
    <3> DEFINE S == {n \in Sdus : StatusIn(tx, n) = "open" /\ StatusIn(tx', n) = "acked"}
    <3>1. S \subseteq Sdus /\ S = {n \in Sdus : StatusIn(tx, n) = "open" /\ StatusIn(tx', n) = "acked"}
      OBVIOUS
    <3> HIDE DEF S
    <3>2. /\ \A n \in S : StatusIn(tx, n) = "open" /\ n \in rx.passedUp
          /\ \A n \in Sdus : StatusIn(tx', n) = IF n \in S THEN "acked" ELSE StatusIn(tx, n)
      BY <1>2, <2>1, <2>2, <2>3, <3>1, PlainAcknowledges
    <3>3. Status' = [n \in Sdus |-> IF n \in S THEN "acked" ELSE Status[n]]
      BY <1>4, <1>5, <3>2, Zenon DEF StatusOf
    <3>4. CASE S = {}
      <4>1. Status' = Status
        BY <1>3, <1>4, <3>2, <3>4, Zenon DEF StatusOf
      <4> QED BY <1>6, <2>1, <4>1
    <3>5. CASE S # {}
      <4>1. \A n \in S : Status[n] = "open" /\ n \in rx.passedUp
        BY <1>5, <3>2, <3>1
      <4>2. Service!Acknowledge(S)
        BY <2>1, <3>3, <4>1 DEF Service!Acknowledge, Sdus
      <4> QED BY <3>1, <3>5, <4>2 DEF Service!Next, Sdus
    <3> QED BY <3>4, <3>5
  <2>4. CASE GivesUp(tx', tx)
    <3>1. CASE \A n \in Sdus : StatusIn(tx', n) = StatusIn(tx, n)
      <4>1. Status' = Status
        BY <1>3, <1>4, <3>1, Zenon DEF StatusOf
      <4> QED BY <1>6, <2>1, <4>1
    <3>2. ASSUME NEW g \in Sdus, StatusIn(tx, g) = "open",
                 \A n \in Sdus : StatusIn(tx', n) = IF n = g THEN "givenUp" ELSE StatusIn(tx, n)
          PROVE  Service!Next
      <4>1. Status' = [Status EXCEPT ![g] = "givenUp"]
        BY <1>4, <1>5, <3>2 DEF StatusOf
      <4>2. Status[g] = "open"
        BY <1>5, <3>2
      <4>3. Service!GiveUp(g)
        BY <2>1, <4>1, <4>2 DEF Service!GiveUp, Sdus
      <4> QED BY <4>3 DEF Service!Next, Sdus
    <3> QED BY <1>2, <2>4, <3>1, <3>2, GivesUpOne
  <2>5. CASE Numbers(tx', tx)
    <3> DEFINE g == tx.nextSdu
    <3>1. PICK o \in {"open", "lost"} :
            /\ g \in Sdus /\ StatusIn(tx, g) = "unsent"
            /\ \A n \in Sdus : StatusIn(tx', n) = IF n = g THEN o ELSE StatusIn(tx, n)
      BY <1>2, <2>2, <2>5, NumbersOne
    <3> HIDE DEF g
    <3>2. Status' = [Status EXCEPT ![g] = o]
      BY <1>4, <1>5, <3>1 DEF StatusOf
    <3>3. Status[g] = "unsent"
      BY <1>5, <3>1
    <3>4. Service!Send(g, o)
      BY <2>1, <3>1, <3>2, <3>3 DEF Service!Send, Sdus
    <3> QED BY <3>1, <3>4 DEF Service!Next, Sdus
  <2> QED BY <2>1, <2>3, <2>4, <2>5
<1> QED BY <1>1, <1>7, <1>8, <1>9 DEF Steps

\* The bearer keeps its promise: an SDU is passed up at most once, and is taken
\* as acknowledged only after it was, if no SDU has more than two PDUs.
THEOREM Implements ==
  ASSUME HalfWindow, ShortSdus
  PROVE  Spec => ServiceSpec
<1>1. Init => Service!Init
  <2> SUFFICES ASSUME Init PROVE Service!Init
    OBVIOUS
  <2>1. tx.nextSdu = 0 /\ rx.passedUp = {}
    BY DEF Init, TxInit, TxStart, RxStart
  <2>2. IInv
    BY InitSound
  <2>3. [n \in Sdus |-> SduStatus(n)] = StatusOf(tx)
    BY <2>2, StatusIsNow
  <2>4. \A n \in Sdus : StatusIn(tx, n) = "unsent"
    BY <2>1 DEF Sdus, StatusIn
  <2>5. [n \in Sdus |-> SduStatus(n)] = [n \in Sdus |-> "unsent"]
    BY <2>3, <2>4, Zenon DEF StatusOf
  <2> QED BY <2>1, <2>5 DEF Service!Init, Sdus
<1>2. IInv /\ IInv' /\ [Next]_vars => [Service!Next]_(Service!svars)
  BY StepRefines
<1> QED BY <1>1, <1>2, Invariance, PTL DEF Spec, ServiceSpec, Service!Spec
=============================================================================
