------------------------------ MODULE NrPdcpRx ------------------------------
(***************************************************************************)
(* The receiving NR PDCP entity of a split bearer                          *)
(* (stack/pdcp/NrRxPdcpEntity.cc), with dualConnectivityEnabled_ and       *)
(* without outOfOrderDelivery_: otherwise the handler passes every SDU up. *)
(*                                                                         *)
(* The SDUs travel over RLC legs: each arrives once or never, and those of *)
(* a leg in order, as RlcUm shows of RLC UM.  RLC AM passes up what is     *)
(* complete, in any order: that is a leg for each SDU.  The SDU with       *)
(* number s belongs at position s - rxDeliv of the window; buffer and      *)
(* received are what the code has at each position.                        *)
(*                                                                         *)
(* Two steps do not shift the window as they should.  crossed and jumped   *)
(* record when they were taken, and the properties say what they break.    *)
(***************************************************************************)
EXTENDS Integers, FiniteSets

CONSTANTS
  WindowSize,   \* rxWindowSize
  Legs,         \* the legs
  MaxSdus       \* bound: SDUs sent

ASSUME NrPdcpRxAssumption == WindowSize \in Nat \ {0} /\ MaxSdus \in Nat

Sdu == 0 .. MaxSdus - 1
Pos == 0 .. WindowSize - 1
NoSdu == -1                 \* nullptr

VARIABLES
  rxNext, rxDeliv, rxReord, \* rxWindowDesc_
  buffer,      \* sduBuffer_, by position
  received,    \* received_: the positions that are marked
  timer,       \* t_reordering_ is running
  passedUp,    \* history: SDUs given to the upper layer,
  disordered,  \*   those of them that came after one with a higher number,
  arrived,     \* history: SDUs that have arrived,
  late,        \*   those of them deleted because the window has moved on,
  duplicates,  \*   those of them deleted because they were received before
  beyond,      \*   those of them deleted because they lay beyond the window
  skipped,     \* history: SDUs that t_reordering_ gave up waiting for
  crossed,     \* history: an SDU closed the first gap while there was another
  jumped,      \* history: t_reordering_ moved the window by more than its half
  last,        \* the SDU that came last over each leg
  err

window  == <<rxNext, rxDeliv, rxReord>>
vars == <<rxNext, rxDeliv, rxReord, buffer, received, timer, passedUp, disordered,
          arrived, late, duplicates, beyond, skipped, crossed, jumped, last, err>>

Init ==
  /\ rxNext = 0 /\ rxDeliv = 0 /\ rxReord = 0
  /\ buffer = [i \in Pos |-> NoSdu] /\ received = {} /\ timer = FALSE
  /\ passedUp = {} /\ disordered = {} /\ arrived = {} /\ late = {} /\ duplicates = {}
  /\ beyond = {} /\ skipped = {} /\ crossed = FALSE /\ jumped = FALSE
  /\ last = [l \in Legs |-> NoSdu] /\ err = "none"

\* An exception ends the simulation.
Running == err = "none"
-----------------------------------------------------------------------------
(* The window                                                              *)

\* The marked positions from "from" on without a hole.
Run(from) == {i \in received : i >= from /\ from .. i \subseteq received}

\* The SDUs at the positions P, in this order, go to the upper layer, after
\* the SDUs in "first".
Taken(P) == {i \in P : buffer[i] # NoSdu}
PassUp(first, P) ==
  /\ passedUp' = passedUp \cup first \cup {buffer[i] : i \in Taken(P)}
  /\ disordered' = disordered
       \cup {s \in first : \E q \in passedUp : q > s}
       \cup {buffer[i] : i \in {j \in Taken(P) :
               \/ \E q \in passedUp \cup first : q > buffer[j]
               \/ \E k \in Taken(P) : k < j /\ buffer[k] > buffer[j]}}

\* The shift loop: for i from k to end - 1, what is at position i goes to
\* i - k.  What is not copied over stays.
Moved(k, end) == 0 .. end - 1 - k
ShiftedMarks(M, k, end) ==
  {j \in Moved(k, end) : j + k \in M} \cup {j \in M \ Moved(k, end) : j < k \/ j >= end}
ShiftedBuffer(b, k, end) ==
  [j \in Pos |-> IF j \in Moved(k, end) /\ b[j + k] # NoSdu THEN b[j + k]
                 ELSE IF j < k \/ j >= end THEN b[j] ELSE NoSdu]
\* addAt throws if a position that is not cleared before is taken.
Collides(b, k, end) ==
  \E j \in Moved(k, end) : j < k /\ b[j] # NoSdu /\ b[j + k] # NoSdu

\* The window after the SDUs at the positions P have been removed.
Emptied(P) == [i \in Pos |-> IF i \in P THEN NoSdu ELSE buffer[i]]
-----------------------------------------------------------------------------
(* An SDU from RLC                                                         *)

\* The end of handlePdcpSdu, for the window that the step leaves.
HandleReordering ==
  LET running == timer /\ rxDeliv' < rxReord
  IN IF ~running /\ rxDeliv' < rxNext'
     THEN timer' = TRUE /\ rxReord' = rxNext'
     ELSE timer' = running /\ rxReord' = rxReord

\* sn is the next SDU: it is passed up with what follows it.  The shift ends at
\* rxNext - rxDeliv, with rxDeliv already moved; the difference is unsigned.
DeliverInSequence(sn) ==
  LET P   == Run(1)
      k   == 1 + Cardinality(P)
      end == rxNext' - rxDeliv'
  IN /\ rxDeliv' = rxDeliv + k
     /\ crossed' = (crossed \/ end > 0)
     /\ PassUp({sn}, P)
     /\ received' = ShiftedMarks(received \ P, k, end)
     /\ buffer' = ShiftedBuffer(Emptied(P), k, end)
     /\ err' = IF \E i \in P : buffer[i] = NoSdu THEN "check_and_cast: null"
               ELSE IF end < 0 THEN "received_.at: out of range"
               ELSE IF Collides(Emptied(P), k, end) THEN "addAt: position is taken"
               ELSE err

BufferSdu(sn) ==
  /\ buffer' = [buffer EXCEPT ![sn - rxDeliv] = sn]
  /\ received' = received \cup {sn - rxDeliv}
  /\ err' = IF buffer[sn - rxDeliv] # NoSdu THEN "addAt: position is taken" ELSE err
  /\ UNCHANGED <<rxDeliv, passedUp, disordered, crossed>>

Discarded(sn) ==
  sn < rxDeliv \/ sn - rxDeliv >= WindowSize \/ sn - rxDeliv \in received

\* Mutant: a gap is not noticed.
NextUnchanged(sn) == rxNext
NextAfter(sn) == IF sn >= rxNext THEN sn + 1 ELSE rxNext

IsNext(sn) == sn = rxDeliv

HandlePdcpSdu(sn, leg) ==
  /\ Running /\ sn \notin arrived /\ sn > last[leg]
  /\ arrived' = arrived \cup {sn} /\ last' = [last EXCEPT ![leg] = sn]
  /\ UNCHANGED <<skipped, jumped>>
  /\ IF Discarded(sn)
     THEN /\ late' = late \cup {s \in {sn} : s < rxDeliv}
          /\ beyond' = beyond \cup {s \in {sn} : s - rxDeliv >= WindowSize}
          /\ duplicates' = duplicates \cup
               {s \in {sn} : s >= rxDeliv /\ s - rxDeliv \in received}
          /\ UNCHANGED <<window, buffer, received, timer, passedUp, disordered, crossed, err>>
     ELSE /\ rxNext' = NextAfter(sn)
          /\ IF IsNext(sn) THEN DeliverInSequence(sn) ELSE BufferSdu(sn)
          /\ HandleReordering
          /\ UNCHANGED <<late, duplicates, beyond>>
-----------------------------------------------------------------------------
(* t_reordering_ expires                                                   *)

BehindReord(gap) ==
  LET run == Cardinality(Run(gap))
  IN IF rxReord < rxNext /\ rxNext - rxReord < run THEN rxNext - rxReord ELSE run

\* Mutant: the timer does not run again.
NoRestart == timer' = FALSE /\ UNCHANGED rxReord
Restart ==
  IF rxNext > rxDeliv' THEN timer' = TRUE /\ rxReord' = rxNext
                       ELSE timer' = FALSE /\ UNCHANGED rxReord

\* Mutant: the shift ends where that of DeliverInSequence does.
UsedEnd == rxNext - rxDeliv'
ShiftEnd == WindowSize

\* What is buffered before rxReord is passed up, then what follows without a
\* hole, until rxNext is reached.  Marks are cleared by the shift only.
ReorderingTimer ==
  /\ Running /\ timer
  /\ LET gap    == rxReord - rxDeliv
         offset == gap + BehindReord(gap)
         P      == {i \in received : i < offset}
     IN /\ rxDeliv' = rxDeliv + offset
        /\ jumped' = (jumped \/ 2 * offset > WindowSize)
        /\ PassUp({}, P)
        /\ skipped' = skipped \cup {s \in rxDeliv .. rxReord - 1 : s - rxDeliv \notin received}
        /\ received' = ShiftedMarks(received, offset, ShiftEnd)
        /\ buffer' = ShiftedBuffer(Emptied(P), offset, ShiftEnd)
        /\ err' = IF \E i \in P : buffer[i] = NoSdu THEN "check_and_cast: null"
                  ELSE IF offset = WindowSize /\ (offset = gap \/ rxDeliv' # rxNext)
                  THEN "received_.at: out of range"
                  ELSE IF Collides(Emptied(P), offset, ShiftEnd)
                  THEN "addAt: position is taken" ELSE err
  /\ Restart
  /\ UNCHANGED <<rxNext, arrived, late, duplicates, beyond, crossed, last>>
-----------------------------------------------------------------------------
Next == ReorderingTimer \/ \E sn \in Sdu, leg \in Legs : HandlePdcpSdu(sn, leg)

Spec == Init /\ [][Next]_vars

\* The simulator executes the event of a running timer.
FairSpec == Spec /\ WF_vars(ReorderingTimer)
-----------------------------------------------------------------------------
Deleted == late \cup duplicates \cup beyond
Held    == {buffer[i] : i \in Pos} \ {NoSdu}

\* The shape of the state.
TypeOK ==
  /\ rxNext \in 0 .. MaxSdus /\ rxDeliv \in Nat /\ rxReord \in Nat
  /\ buffer \in [Pos -> Sdu \cup {NoSdu}] /\ received \subseteq Pos
  /\ last \in [Legs -> Sdu \cup {NoSdu}]
  /\ {timer, crossed, jumped} \subseteq BOOLEAN
  /\ err \in {"none", "addAt: position is taken", "check_and_cast: null",
              "received_.at: out of range"}
  /\ \A S \in {passedUp, disordered, arrived, late, duplicates, beyond, skipped} : S \subseteq Sdu

\* "it manages the reordering of out-of-sequence PDCP PDUs" (NrRxPdcpEntity.ned):
\* the upper layer never gets an SDU after one with a higher number.
InOrder == disordered = {}

\* ... and does not as long as every SDU that closed the first gap of the window
\* closed the only one: line 107 is all that breaks the order.
InOrderUnlessCrossed == crossed \/ disordered = {}

\* Position i of the window holds the SDU rxDeliv + i and is marked then only.
Aligned ==
  \A i \in Pos : IF i \in received THEN buffer[i] = rxDeliv + i ELSE buffer[i] = NoSdu

\* An SDU is deleted as too late only if the timer gave up waiting for it, and
\* as already received never, as long as both kinds of shift were exact.
DeletedForAReason ==
  /\ crossed \/ late \subseteq skipped
  /\ crossed \/ jumped \/ duplicates = {}

\* No position is taken twice, whatever arrives.  A mark without an SDU is met
\* only after a jump, an index outside the window only after a jump or a
\* crossing.
NoError ==
  /\ err # "addAt: position is taken"
  /\ err = "check_and_cast: null" => jumped
  /\ err = "received_.at: out of range" => jumped \/ crossed

\* Whatever arrives is passed up, deleted or held, only one of these, and while
\* the window is behind, the timer runs.  As long as no gap was crossed, it will
\* pass up what is held.
NothingStuck ==
  /\ arrived = passedUp \cup Deleted \cup Held
  /\ passedUp \cap Deleted = {} /\ Held \cap (passedUp \cup Deleted) = {}
  /\ timer <=> rxDeliv < rxNext
  /\ Running /\ ~crossed => \A s \in Held : timer /\ s - rxDeliv \in received /\ s < rxNext

\* ... so that every SDU is passed up in the end.
EventuallyPassedUp ==
  \A s \in Sdu : s \in arrived ~> s \in passedUp \cup Deleted \/ crossed \/ ~Running
=============================================================================
