--------------------------- MODULE NrPdcpRxProofs ---------------------------
(***************************************************************************)
(* The receiving NR PDCP entity, for every window size, number of legs and *)
(* of SDUs and every order of arrival.  The invariant has three parts.     *)
(* General holds always: no SDU is in two places, what is buffered is      *)
(* marked, the timer runs while the window is behind.  Orderly holds until *)
(* an SDU closes the first gap of several (crossed) or the simulation      *)
(* ends: each SDU is at its position and below the window nothing is       *)
(* missing that was not skipped.  Clean is what the upper layer sees.      *)
(***************************************************************************)
EXTENDS NrPdcpRx, FiniteSetTheorems, WellFoundedInduction, TLAPS

\* The SDUs in a buffer b, and that each is there once.
HeldIn(b) == {b[i] : i \in Pos} \ {NoSdu}
Once(b)   == \A i, j \in Pos : b[i] = b[j] /\ b[i] # NoSdu => i = j

Window ==
  /\ rxNext - rxDeliv <= WindowSize
  /\ \A i \in Pos : buffer[i] # NoSdu => i \in received
  /\ jumped \/ \A i \in received : buffer[i] # NoSdu
  /\ Once(buffer)

TimerInv ==
  /\ timer <=> rxDeliv < rxNext
  /\ timer => rxDeliv < rxReord /\ rxReord <= rxNext

Accounts ==
  /\ arrived = passedUp \cup Deleted \cup Held
  /\ passedUp \cap Deleted = {} /\ Held \cap (passedUp \cup Deleted) = {}

General == TypeOK /\ Window /\ TimerInv /\ Accounts /\ NoError

InPlace ==
  /\ rxDeliv <= rxNext
  /\ \A i \in Pos : buffer[i] # NoSdu => buffer[i] = rxDeliv + i /\ rxDeliv + i < rxNext
  /\ rxDeliv < rxNext => buffer[rxNext - 1 - rxDeliv] # NoSdu
  /\ timer => buffer[rxReord - 1 - rxDeliv] # NoSdu

Below ==
  /\ \A s \in passedUp : s < rxDeliv
  /\ \A s \in 0 .. rxDeliv - 1 : s \in arrived \cup skipped

Orderly == InPlace /\ Below

Clean == InOrderUnlessCrossed /\ DeletedForAReason

IInv == General /\ Clean /\ (Running /\ ~crossed => Orderly)
-----------------------------------------------------------------------------
(* The operators of the window                                             *)

LEMMA Types ==
  ASSUME NrPdcpRxAssumption, TypeOK
  PROVE  /\ WindowSize \in Nat \ {0} /\ MaxSdus \in Nat
         /\ Pos = 0 .. WindowSize - 1 /\ Sdu = 0 .. MaxSdus - 1 /\ NoSdu = -1
         /\ rxNext \in Nat /\ rxDeliv \in Nat /\ rxReord \in Nat /\ rxNext <= MaxSdus
         /\ buffer \in [Pos -> Sdu \cup {NoSdu}] /\ received \subseteq Pos
         /\ passedUp \subseteq Sdu /\ disordered \subseteq Sdu /\ arrived \subseteq Sdu
         /\ late \subseteq Sdu /\ duplicates \subseteq Sdu /\ beyond \subseteq Sdu
         /\ skipped \subseteq Sdu
         /\ timer \in BOOLEAN /\ crossed \in BOOLEAN /\ jumped \in BOOLEAN
<1>1. WindowSize \in Nat \ {0} /\ MaxSdus \in Nat
  BY DEF NrPdcpRxAssumption
<1>2. Pos = 0 .. WindowSize - 1 /\ Sdu = 0 .. MaxSdus - 1 /\ NoSdu = -1
  BY DEF Pos, Sdu, NoSdu
<1>3. /\ rxNext \in Nat /\ rxDeliv \in Nat /\ rxReord \in Nat /\ rxNext <= MaxSdus
      /\ buffer \in [Pos -> Sdu \cup {NoSdu}] /\ received \subseteq Pos
  <2>1. /\ rxNext \in 0 .. MaxSdus /\ rxDeliv \in Nat /\ rxReord \in Nat
        /\ buffer \in [Pos -> Sdu \cup {NoSdu}] /\ received \subseteq Pos
    BY Zenon DEF TypeOK
  <2> QED
    BY <1>1, <2>1
<1>4. \A S \in {passedUp, disordered, arrived, late, duplicates, beyond, skipped} : S \subseteq Sdu
  BY DEF TypeOK
<1>5. \A x \in {timer, crossed, jumped} : x \in BOOLEAN
  BY DEF TypeOK
<1> QED
  BY <1>1, <1>2, <1>3, <1>4, <1>5

\* The run of marks from a position on ends before the first one that is free.
LEMMA RunEnds ==
  ASSUME NEW n \in Nat, received \subseteq 0 .. n - 1, NEW a \in 0 .. n
  PROVE  \E m \in a .. n : /\ Run(a) = a .. m - 1
                           /\ Cardinality(Run(a)) = m - a
                           /\ m \notin received
<1> DEFINE F == {i \in a .. n : i \notin received}
<1>1. F \in SUBSET Nat /\ F # {}
  <2>1. n \in F
    OBVIOUS
  <2> QED
    BY <2>1
<1>2. PICK m \in F : \A i \in F : m <= i
  <2>1. IsWellFoundedOn(OpToRel(<, Nat), Nat)
    BY NatLessThanWellFounded
  <2>2. PICK m \in F : \A i \in F : ~(<<i, m>> \in OpToRel(<, Nat))
    BY <1>1, <2>1, WFMin, Zenon
  <2>3. \A i \in F : ~(i < m)
    BY <1>1, <2>2 DEF OpToRel
  <2> QED
    BY <1>1, <2>3
<1>3. m \in a .. n /\ m \notin received /\ \A i \in a .. m - 1 : i \in received
  BY <1>2
<1>4. Run(a) = a .. m - 1
  <2>1. ASSUME NEW i \in Run(a) PROVE i \in a .. m - 1
    BY <1>3 DEF Run
  <2>2. ASSUME NEW i \in a .. m - 1 PROVE i \in Run(a)
    BY <1>3 DEF Run
  <2> QED
    BY <2>1, <2>2
<1>5. Cardinality(a .. m - 1) = m - a
  <2>1. a \in Int /\ m \in Int /\ m - 1 \in Int /\ m >= a
    BY <1>3
  <2>2. Cardinality(a .. m - 1) = IF a > m - 1 THEN 0 ELSE (m - 1) - a + 1
    BY <2>1, FS_Interval
  <2> HIDE DEF F
  <2> QED
    BY <2>1, <2>2
<1> QED
  BY <1>3, <1>4, <1>5

\* A shift of a buffer whose first k positions are empty.
Shiftable(b, k, end) ==
  /\ b \in [Pos -> Sdu \cup {NoSdu}] /\ k \in Nat \ {0} /\ end \in Int /\ end <= WindowSize
  /\ \A j \in Pos : j < k => b[j] = NoSdu

\* What is before the end moves by k positions, what is behind it stays.
LEMMA ShiftMoves ==
  ASSUME NrPdcpRxAssumption, NEW b, NEW k, NEW end, Shiftable(b, k, end)
  PROVE  /\ ShiftedBuffer(b, k, end) \in [Pos -> Sdu \cup {NoSdu}]
         /\ \A j \in Pos : j < end - k => j + k \in Pos /\ j + k < end
         /\ \A j \in Pos : ShiftedBuffer(b, k, end)[j]
                             = IF j < end - k THEN b[j + k]
                               ELSE IF j >= end THEN b[j] ELSE NoSdu
         /\ ~Collides(b, k, end)
<1> DEFINE val(j) == IF j \in Moved(k, end) /\ b[j + k] # NoSdu THEN b[j + k]
                     ELSE IF j < k \/ j >= end THEN b[j] ELSE NoSdu
<1>1. /\ b \in [Pos -> Sdu \cup {NoSdu}] /\ k \in Nat \ {0} /\ end \in Int
      /\ end <= WindowSize /\ WindowSize \in Nat /\ Pos = 0 .. WindowSize - 1
      /\ \A j \in Pos : j < k => b[j] = NoSdu
  BY DEF Shiftable, NrPdcpRxAssumption, Pos
<1>2. \A j \in Pos : /\ j \in Moved(k, end) <=> j < end - k
                     /\ j < end - k => j + k \in Pos /\ j + k < end /\ j < end
  BY <1>1 DEF Moved
<1>3. ASSUME NEW j \in Pos
      PROVE  /\ val(j) = IF j < end - k THEN b[j + k] ELSE IF j >= end THEN b[j] ELSE NoSdu
             /\ val(j) \in Sdu \cup {NoSdu}
  <2>1. j < k => b[j] = NoSdu
    BY <1>1
  <2>2. CASE j < end - k
    <3>1. j \in Moved(k, end) /\ j + k \in Pos /\ ~(j >= end)
      BY <1>1, <1>2, <2>2
    <3>2. val(j) = b[j + k]
      BY <2>1, <3>1
    <3> QED
      BY <1>1, <2>2, <3>1, <3>2
  <2>3. CASE ~(j < end - k)
    <3>1. j \notin Moved(k, end)
      BY <1>2, <2>3
    <3>2. val(j) = IF j >= end THEN b[j] ELSE NoSdu
      BY <2>1, <3>1
    <3> QED
      BY <1>1, <2>3, <3>2
  <2> QED
    BY <2>2, <2>3
<1>4. ShiftedBuffer(b, k, end) = [j \in Pos |-> val(j)]
  BY DEF ShiftedBuffer
<1> HIDE DEF val
<1>5. ~Collides(b, k, end)
  BY <1>1, <1>2 DEF Collides, Moved
<1> QED
  BY <1>2, <1>3, <1>4, <1>5

\* ... so that no SDU is lost or copied.
LEMMA ShiftKeeps ==
  ASSUME NrPdcpRxAssumption, NEW b, NEW k, NEW end, Shiftable(b, k, end), Once(b)
  PROVE  /\ HeldIn(ShiftedBuffer(b, k, end)) = HeldIn(b)
         /\ Once(ShiftedBuffer(b, k, end))
<1> DEFINE new == ShiftedBuffer(b, k, end)
           from(j) == IF j < end - k THEN j + k ELSE j
<1>1. /\ k \in Nat \ {0} /\ end \in Int /\ end <= WindowSize
      /\ WindowSize \in Nat /\ Pos = 0 .. WindowSize - 1
      /\ \A j \in Pos : j < k => b[j] = NoSdu
  BY DEF Shiftable, NrPdcpRxAssumption, Pos
<1>2. /\ \A j \in Pos : j < end - k => j + k \in Pos /\ j + k < end
      /\ \A j \in Pos : new[j] = IF j < end - k THEN b[j + k]
                                 ELSE IF j >= end THEN b[j] ELSE NoSdu
  BY ShiftMoves
<1> HIDE DEF new
<1>3. ASSUME NEW j \in Pos, new[j] # NoSdu
      PROVE  /\ from(j) \in Pos /\ b[from(j)] = new[j]
             /\ j < end - k \/ j >= end
  BY <1>2, <1>3
<1>4. ASSUME NEW i \in Pos, b[i] # NoSdu PROVE \E j \in Pos : new[j] = b[i]
  <2>1. i >= k
    BY <1>1, <1>4
  <2>2. CASE i < end
    <3>1. i - k \in Pos /\ i - k < end - k /\ (i - k) + k = i
      BY <1>1, <2>1, <2>2
    <3>2. new[i - k] = b[i]
      BY <1>2, <3>1
    <3> QED
      BY <3>1, <3>2
  <2>3. CASE ~(i < end)
    <3>1. ~(i < end - k) /\ i >= end
      BY <1>1, <2>3
    <3>2. new[i] = b[i]
      BY <1>2, <3>1
    <3> QED
      BY <3>2
  <2> QED
    BY <2>2, <2>3
<1>5. HeldIn(new) = HeldIn(b)
  <2>1. ASSUME NEW s \in HeldIn(new) PROVE s \in HeldIn(b)
    <3>1. PICK j \in Pos : new[j] = s /\ s # NoSdu
      BY <2>1 DEF HeldIn
    <3>2. from(j) \in Pos /\ b[from(j)] = s
      BY <1>3, <3>1
    <3> QED
      BY <3>1, <3>2 DEF HeldIn
  <2>2. ASSUME NEW s \in HeldIn(b) PROVE s \in HeldIn(new)
    <3>1. PICK i \in Pos : b[i] = s /\ s # NoSdu
      BY <2>2 DEF HeldIn
    <3>2. PICK j \in Pos : new[j] = s
      BY <1>4, <3>1
    <3> QED
      BY <3>1, <3>2 DEF HeldIn
  <2> QED
    BY <2>1, <2>2
<1>6. ASSUME NEW i \in Pos, NEW j \in Pos, new[i] = new[j], new[i] # NoSdu PROVE i = j
  <2>1. /\ from(i) \in Pos /\ from(j) \in Pos /\ b[from(i)] = b[from(j)] /\ b[from(i)] # NoSdu
        /\ i < end - k \/ i >= end
        /\ j < end - k \/ j >= end
    BY <1>3, <1>6
  <2>2. from(i) = from(j)
    BY <2>1 DEF Once
  <2>3. i \in Int /\ j \in Int
    BY <1>1
  <2> QED
    BY <1>1, <2>1, <2>2, <2>3
<1>7. Once(new)
  BY <1>6 DEF Once
<1> QED
  BY <1>5, <1>7 DEF new

\* The marks that a shift leaves.
LEMMA MarksMove ==
  ASSUME NrPdcpRxAssumption, NEW b, NEW k, NEW end, Shiftable(b, k, end), NEW M \in SUBSET Pos
  PROVE  /\ ShiftedMarks(M, k, end) \subseteq Pos
         /\ \A j \in Pos : j \in ShiftedMarks(M, k, end) <=>
              IF j < end - k THEN j + k \in M ELSE j \in M /\ (j < k \/ j >= end)
<1>1. /\ k \in Nat \ {0} /\ end \in Int /\ end <= WindowSize /\ WindowSize \in Nat
      /\ Pos = 0 .. WindowSize - 1
  BY DEF Shiftable, NrPdcpRxAssumption, Pos
<1>2. /\ Moved(k, end) \subseteq Pos
      /\ \A j \in Pos : j \in Moved(k, end) <=> j < end - k
  BY <1>1 DEF Moved
<1> QED
  BY <1>2 DEF ShiftedMarks

\* What is marked and what is buffered stay the same, unless more than half of
\* what is shifted is marked but was passed up.
LEMMA MarksFollow ==
  ASSUME NrPdcpRxAssumption, NEW b, NEW k, NEW end, Shiftable(b, k, end), NEW M \in SUBSET Pos
  PROVE  LET new == ShiftedBuffer(b, k, end)
         IN /\ (\A j \in Pos : b[j] # NoSdu => j \in M) =>
                 \A j \in Pos : new[j] # NoSdu => j \in ShiftedMarks(M, k, end)
            /\ (\A j \in M : b[j] # NoSdu \/ (j < k /\ 2 * k <= end)) =>
                 \A j \in ShiftedMarks(M, k, end) : new[j] # NoSdu
<1> DEFINE new == ShiftedBuffer(b, k, end)
           R == ShiftedMarks(M, k, end)
<1>1. /\ k \in Nat \ {0} /\ end \in Int /\ end <= WindowSize /\ WindowSize \in Nat
      /\ Pos = 0 .. WindowSize - 1 /\ \A j \in Pos : j < k => b[j] = NoSdu
  BY DEF Shiftable, NrPdcpRxAssumption, Pos
<1>2. /\ \A j \in Pos : j < end - k => j + k \in Pos /\ j + k < end
      /\ \A j \in Pos : new[j] = IF j < end - k THEN b[j + k]
                                 ELSE IF j >= end THEN b[j] ELSE NoSdu
  BY ShiftMoves
<1>3. /\ R \subseteq Pos
      /\ \A j \in Pos : j \in R <=>
           IF j < end - k THEN j + k \in M ELSE j \in M /\ (j < k \/ j >= end)
  BY MarksMove
<1> HIDE DEF new, R
<1>4. ASSUME \A j \in Pos : b[j] # NoSdu => j \in M, NEW j \in Pos, new[j] # NoSdu
      PROVE  j \in R
  BY <1>2, <1>3, <1>4
<1>5. ASSUME \A j \in M : b[j] # NoSdu \/ (j < k /\ 2 * k <= end), NEW j \in R
      PROVE  new[j] # NoSdu
  <2>1. j \in Pos /\ j \in Nat
    BY <1>1, <1>3
  <2>2. CASE j < end - k
    <3>1. j + k \in M /\ ~(j + k < k) /\ new[j] = b[j + k]
      BY <1>1, <1>2, <1>3, <2>1, <2>2
    <3> QED
      BY <1>5, <3>1
  <2>3. CASE ~(j < end - k)
    <3>1. j \in M /\ (j < k \/ j >= end)
      BY <1>3, <1>5, <2>1, <2>3
    <3>2. ~(j < k /\ 2 * k <= end)
      BY <1>1, <2>1, <2>3
    <3>3. b[j] # NoSdu
      BY <1>5, <3>1, <3>2
    <3>4. ~(j < k)
      BY <1>1, <2>1, <3>3
    <3>5. new[j] = b[j]
      BY <1>2, <2>1, <2>3, <3>1, <3>4
    <3> QED
      BY <3>3, <3>5
  <2> QED
    BY <2>2, <2>3
<1> QED
  BY <1>4, <1>5 DEF new, R
-----------------------------------------------------------------------------
(* What is moved and passed up                                             *)

\* The SDUs at the positions P.
Removed(P) == {buffer[i] : i \in Taken(P)}

LEMMA EmptiedHolds ==
  ASSUME NrPdcpRxAssumption, TypeOK, Window, NEW P \in SUBSET received
  PROVE  /\ Emptied(P) \in [Pos -> Sdu \cup {NoSdu}]
         /\ \A i \in Pos : Emptied(P)[i] = IF i \in P THEN NoSdu ELSE buffer[i]
         /\ Once(Emptied(P)) /\ HeldIn(Emptied(P)) = Held \ Removed(P)
         /\ Removed(P) \subseteq Held
<1>1. buffer \in [Pos -> Sdu \cup {NoSdu}] /\ P \subseteq Pos /\ Once(buffer)
  BY Types DEF Window
<1>2. \A i \in Pos : Emptied(P)[i] = IF i \in P THEN NoSdu ELSE buffer[i]
  BY DEF Emptied
<1>3. Emptied(P) \in [Pos -> Sdu \cup {NoSdu}]
  BY <1>1 DEF Emptied
<1>4. Once(Emptied(P))
  BY <1>1, <1>2 DEF Once
<1>5. Removed(P) \subseteq Held
  BY <1>1 DEF Removed, Taken, Held
<1>6. HeldIn(Emptied(P)) = Held \ Removed(P)
  <2>1. ASSUME NEW s \in HeldIn(Emptied(P)) PROVE s \in Held \ Removed(P)
    <3>1. PICK i \in Pos : Emptied(P)[i] = s /\ s # NoSdu
      BY <2>1 DEF HeldIn
    <3>2. i \notin P /\ buffer[i] = s
      BY <1>2, <3>1
    <3>3. s \in Held
      BY <3>1, <3>2 DEF Held
    <3>4. ASSUME NEW j \in Taken(P), buffer[j] = s PROVE FALSE
      <4>1. j \in P /\ j \in Pos
        BY <1>1 DEF Taken
      <4> QED
        BY <1>1, <3>1, <3>2, <3>4, <4>1 DEF Once
    <3> QED
      BY <3>3, <3>4 DEF Removed
  <2>2. ASSUME NEW s \in Held, s \notin Removed(P) PROVE s \in HeldIn(Emptied(P))
    <3>1. PICK i \in Pos : buffer[i] = s /\ s # NoSdu
      BY DEF Held
    <3>2. i \notin P
      BY <2>2, <3>1 DEF Removed, Taken
    <3>3. Emptied(P)[i] = s
      BY <1>2, <3>1, <3>2
    <3> QED
      BY <3>1, <3>3 DEF HeldIn
  <2> QED
    BY <2>1, <2>2
<1> QED
  BY <1>2, <1>3, <1>4, <1>5, <1>6

\* The SDUs at the marked positions before k are removed and the window moves by
\* k; the loop shifts the marks M.
Moves(P, M, k, end) ==
  /\ k \in Nat \ {0} /\ end \in Int /\ end <= WindowSize
  /\ P = {i \in received : i < k} /\ M \in {received, received \ P}
  /\ received' = ShiftedMarks(M, k, end)
  /\ buffer' = ShiftedBuffer(Emptied(P), k, end)

LEMMA WindowMoves ==
  ASSUME NrPdcpRxAssumption, TypeOK, Window, NEW P, NEW M, NEW k, NEW end,
         Moves(P, M, k, end)
  PROVE  /\ buffer' \in [Pos -> Sdu \cup {NoSdu}] /\ received' \subseteq Pos
         /\ \A i \in Pos : buffer'[i] # NoSdu => i \in received'
         /\ ~jumped /\ (M = received \ P \/ 2 * k <= end)
              => \A i \in received' : buffer'[i] # NoSdu
         /\ \A i, j \in Pos : buffer'[i] = buffer'[j] /\ buffer'[i] # NoSdu => i = j
         /\ Held' = Held \ Removed(P) /\ Removed(P) \subseteq Held
         /\ \A j \in Pos : j < end - k => j + k \in Pos
         /\ \A j \in Pos : buffer'[j] = IF j < end - k THEN buffer[j + k]
                                        ELSE IF j >= end /\ j >= k THEN buffer[j] ELSE NoSdu
         /\ \A j \in Pos : j \in received' <=>
              IF j < end - k THEN j + k \in M ELSE j \in M /\ (j < k \/ j >= end)
         /\ ~Collides(Emptied(P), k, end)
<1> DEFINE b == Emptied(P)
<1>1. /\ k \in Nat \ {0} /\ end \in Int /\ end <= WindowSize
      /\ P = {i \in received : i < k} /\ M \in {received, received \ P}
      /\ received' = ShiftedMarks(M, k, end) /\ buffer' = ShiftedBuffer(b, k, end)
  BY DEF Moves
<1>2. /\ WindowSize \in Nat \ {0} /\ Pos = 0 .. WindowSize - 1 /\ received \subseteq Pos
      /\ \A i \in Pos : buffer[i] # NoSdu => i \in received
      /\ jumped \/ \A i \in received : buffer[i] # NoSdu
  BY Types DEF Window
<1>3. /\ b \in [Pos -> Sdu \cup {NoSdu}]
      /\ \A i \in Pos : b[i] = IF i \in P THEN NoSdu ELSE buffer[i]
      /\ Once(b) /\ HeldIn(b) = Held \ Removed(P) /\ Removed(P) \subseteq Held
  BY <1>1, EmptiedHolds
<1> HIDE DEF b
<1>4. \A j \in Pos : b[j] = IF j < k THEN NoSdu ELSE buffer[j]
  BY <1>1, <1>2, <1>3
<1>5. Shiftable(b, k, end) /\ M \in SUBSET Pos
  BY <1>1, <1>2, <1>3, <1>4 DEF Shiftable
<1>6. /\ buffer' \in [Pos -> Sdu \cup {NoSdu}]
      /\ \A j \in Pos : j < end - k => j + k \in Pos /\ j + k < end
      /\ \A j \in Pos : buffer'[j] = IF j < end - k THEN b[j + k]
                                     ELSE IF j >= end THEN b[j] ELSE NoSdu
      /\ ~Collides(b, k, end)
  BY <1>1, <1>5, ShiftMoves
<1>7. /\ received' \subseteq Pos
      /\ \A j \in Pos : j \in received' <=>
           IF j < end - k THEN j + k \in M ELSE j \in M /\ (j < k \/ j >= end)
  BY <1>1, <1>5, MarksMove
<1>8. HeldIn(buffer') = HeldIn(b) /\ Once(buffer')
  BY <1>1, <1>3, <1>5, ShiftKeeps
<1>9. Held' = Held \ Removed(P)
  BY <1>3, <1>8 DEF Held, HeldIn
<1>10. /\ (\A j \in Pos : b[j] # NoSdu => j \in M) =>
            \A j \in Pos : buffer'[j] # NoSdu => j \in received'
       /\ (\A j \in M : b[j] # NoSdu \/ (j < k /\ 2 * k <= end)) =>
            \A j \in received' : buffer'[j] # NoSdu
  BY <1>1, <1>5, MarksFollow
<1>11. \A j \in Pos : b[j] # NoSdu => j \in M
  BY <1>1, <1>2, <1>3
<1>12. ASSUME ~jumped, M = received \ P \/ 2 * k <= end, NEW j \in M
       PROVE  b[j] # NoSdu \/ (j < k /\ 2 * k <= end)
  <2>1. j \in received /\ j \in Pos /\ buffer[j] # NoSdu
    BY <1>1, <1>2, <1>12
  <2>2. CASE j \in P
    <3>1. 2 * k <= end /\ j < k
      BY <1>1, <1>12, <2>2
    <3> QED
      BY <3>1
  <2>3. CASE j \notin P
    <3>1. b[j] = buffer[j]
      BY <1>3, <2>1, <2>3
    <3> QED
      BY <2>1, <3>1
  <2> QED
    BY <2>2, <2>3
<1>13. ASSUME NEW j \in Pos
       PROVE  buffer'[j] = IF j < end - k THEN buffer[j + k]
                           ELSE IF j >= end /\ j >= k THEN buffer[j] ELSE NoSdu
  <2>1. j \in Nat /\ ~(j + k < k)
    BY <1>1, <1>2
  <2> QED
    BY <1>1, <1>4, <1>6, <2>1
<1>14. \A i, j \in Pos : buffer'[i] = buffer'[j] /\ buffer'[i] # NoSdu => i = j
  BY <1>8 DEF Once
<1> QED
  BY <1>3, <1>6, <1>7, <1>9, <1>10, <1>11, <1>12, <1>13, <1>14 DEF b

\* What is passed up is no longer held, and what arrives is.
Taking(first, P) ==
  /\ P \subseteq received /\ first \subseteq Sdu /\ first \cap arrived = {}
  /\ PassUp(first, P) /\ Held' = Held \ Removed(P)
  /\ arrived' = arrived \cup first /\ UNCHANGED <<late, duplicates, beyond>>

LEMMA PassedUp ==
  ASSUME NrPdcpRxAssumption, TypeOK, Window, Accounts, NEW first, NEW P, Taking(first, P)
  PROVE  /\ passedUp' = passedUp \cup first \cup Removed(P)
         /\ passedUp' \subseteq Sdu /\ disordered' \subseteq Sdu /\ arrived' \subseteq Sdu
         /\ Accounts'
<1>1. /\ P \subseteq received /\ first \subseteq Sdu /\ first \cap arrived = {}
      /\ PassUp(first, P) /\ Held' = Held \ Removed(P)
      /\ arrived' = arrived \cup first /\ Deleted' = Deleted
  BY DEF Taking, Deleted
<1>2. passedUp' = passedUp \cup first \cup Removed(P)
  BY <1>1 DEF PassUp, Removed
<1>3. Removed(P) \subseteq Held /\ Held \subseteq Sdu
  <2>1. Removed(P) \subseteq Held
    BY <1>1, EmptiedHolds
  <2> QED
    BY <2>1, Types DEF Held
<1>4. passedUp \subseteq Sdu /\ disordered \subseteq Sdu /\ arrived \subseteq Sdu
  BY Types
<1>5. passedUp' \subseteq Sdu /\ arrived' \subseteq Sdu
  BY <1>1, <1>2, <1>3, <1>4
<1>6. disordered' \subseteq Sdu
  <2>1. disordered' \subseteq disordered \cup first \cup Removed(P)
    BY <1>1 DEF PassUp, Removed
  <2> QED
    BY <1>1, <1>3, <1>4, <2>1
<1>7. Accounts'
  <2>1. /\ arrived = passedUp \cup Deleted \cup Held
        /\ passedUp \cap Deleted = {} /\ Held \cap (passedUp \cup Deleted) = {}
    BY DEF Accounts
  <2>2. /\ arrived' = passedUp' \cup Deleted' \cup Held'
        /\ passedUp' \cap Deleted' = {} /\ Held' \cap (passedUp' \cup Deleted') = {}
    BY <1>1, <1>2, <1>3, <2>1
  <2> QED
    BY <2>2 DEF Accounts
<1> QED
  BY <1>2, <1>5, <1>6, <1>7

\* While each SDU is at its position, what is passed up is in order.
LEMMA PassUpInOrder ==
  ASSUME NrPdcpRxAssumption, TypeOK, Window, Orderly,
         NEW first \in SUBSET {rxDeliv}, NEW P \in SUBSET received, PassUp(first, P)
  PROVE  disordered' = disordered
<1> DEFINE T == Taken(P)
<1>1. /\ rxDeliv \in Nat /\ passedUp \subseteq Nat /\ \A q \in passedUp : q < rxDeliv
  BY Types DEF Orderly, Below
<1>2. \A i \in T : i \in Nat /\ buffer[i] = rxDeliv + i /\ i \in received
  <2>1. \A i \in T : i \in Pos /\ buffer[i] # NoSdu /\ i \in received
    BY Types DEF Taken
  <2>2. Pos \subseteq Nat
    BY DEF Pos, NrPdcpRxAssumption
  <2> QED
    BY <2>1, <2>2 DEF Orderly, InPlace
<1> HIDE DEF T
<1>3. \A s \in first : ~\E q \in passedUp : q > s
  BY <1>1
<1>4. ASSUME NEW j \in T, NEW q \in passedUp \cup first PROVE ~(q > buffer[j])
  <2>1. q \in Nat /\ q <= rxDeliv
    BY <1>1
  <2> QED
    BY <1>1, <1>2, <2>1
<1>5. \A j \in T : ~\E k \in T : k < j /\ buffer[k] > buffer[j]
  BY <1>1, <1>2
<1>6. disordered' = disordered
           \cup {s \in first : \E q \in passedUp : q > s}
           \cup {buffer[i] : i \in {j \in T :
                   \/ \E q \in passedUp \cup first : q > buffer[j]
                   \/ \E k \in T : k < j /\ buffer[k] > buffer[j]}}
  BY DEF PassUp, T
<1>7. {j \in T : \/ \E q \in passedUp \cup first : q > buffer[j]
                 \/ \E k \in T : k < j /\ buffer[k] > buffer[j]} = {}
  BY <1>4, <1>5
<1>8. {s \in first : \E q \in passedUp : q > s} = {}
  BY <1>3
<1>9. disordered' = disordered \cup {} \cup {buffer[i] : i \in {}}
  BY <1>6, <1>7, <1>8, Zenon
<1> QED
  BY <1>9
-----------------------------------------------------------------------------
(* The steps                                                               *)

\* t_reordering_ after an SDU.
LEMMA Reordered ==
  ASSUME NrPdcpRxAssumption, TypeOK, TimerInv, HandleReordering,
         rxDeliv' \in Nat, rxNext' \in Nat, rxDeliv <= rxDeliv', rxNext <= rxNext'
  PROVE  /\ timer' \in BOOLEAN /\ rxReord' \in Nat /\ TimerInv'
         /\ timer' => rxReord' = rxNext' \/ (timer /\ rxReord' = rxReord)
<1>1. rxDeliv \in Nat /\ rxNext \in Nat /\ rxReord \in Nat /\ timer \in BOOLEAN
  BY Types
<1>2. CASE timer /\ rxDeliv' < rxReord
  <2>1. timer' = TRUE /\ rxReord' = rxReord
    BY <1>2 DEF HandleReordering
  <2> QED
    BY <1>1, <1>2, <2>1 DEF TimerInv
<1>3. CASE ~(timer /\ rxDeliv' < rxReord) /\ rxDeliv' < rxNext'
  <2>1. timer' = TRUE /\ rxReord' = rxNext'
    BY <1>3 DEF HandleReordering
  <2>2. TimerInv'
    BY <1>3, <2>1 DEF TimerInv
  <2> QED
    BY <2>1, <2>2
<1>4. CASE ~(timer /\ rxDeliv' < rxReord) /\ ~(rxDeliv' < rxNext')
  <2>1. timer' = FALSE /\ rxReord' = rxReord
    BY <1>4 DEF HandleReordering
  <2> QED
    BY <1>1, <1>4, <2>1 DEF TimerInv
<1> QED
  BY <1>2, <1>3, <1>4

\* What any arrival does: the SDU is new.
LEMMA Arrives ==
  ASSUME NrPdcpRxAssumption, IInv, NEW sn \in Sdu, NEW leg \in Legs, HandlePdcpSdu(sn, leg)
  PROVE  /\ Running /\ sn \notin arrived /\ sn \notin passedUp \cup Deleted \cup Held
         /\ sn \in Nat /\ sn < MaxSdus
         /\ arrived' = arrived \cup {sn} /\ arrived' \subseteq Sdu
         /\ skipped' = skipped /\ jumped' = jumped
         /\ last' \in [Legs -> Sdu \cup {NoSdu}]
<1>1. /\ Running /\ sn \notin arrived /\ arrived' = arrived \cup {sn}
      /\ last' = [last EXCEPT ![leg] = sn] /\ skipped' = skipped /\ jumped' = jumped
  BY DEF HandlePdcpSdu
<1>2. sn \notin passedUp \cup Deleted \cup Held
  BY <1>1 DEF IInv, General, Accounts
<1>3. last \in [Legs -> Sdu \cup {NoSdu}]
  BY DEF IInv, General, TypeOK
<1>4. last' \in [Legs -> Sdu \cup {NoSdu}]
  BY <1>1, <1>3
<1>5. TypeOK
  BY DEF IInv, General
<1>6. arrived' \subseteq Sdu
  BY <1>1, <1>5, Types
<1>7. sn \in Nat /\ sn < MaxSdus
  BY <1>5, Types
<1> QED
  BY <1>1, <1>2, <1>4, <1>6, <1>7

\* An SDU is deleted: it is late, beyond the window or its position is marked.
LEMMA DiscardedSdu ==
  ASSUME NrPdcpRxAssumption, IInv, NEW sn \in Sdu, NEW leg \in Legs, HandlePdcpSdu(sn, leg),
         Discarded(sn)
  PROVE  IInv'
<1>1. TypeOK /\ Window /\ TimerInv /\ Accounts /\ NoError /\ Clean
      /\ (Running /\ ~crossed => Orderly)
  BY DEF IInv, General
<1>2. /\ Running /\ sn \notin arrived /\ sn \notin passedUp \cup Deleted \cup Held
      /\ sn \in Nat
      /\ arrived' = arrived \cup {sn} /\ arrived' \subseteq Sdu
      /\ skipped' = skipped /\ jumped' = jumped /\ last' \in [Legs -> Sdu \cup {NoSdu}]
  BY Arrives
<1>3. /\ late' = late \cup {s \in {sn} : s < rxDeliv}
      /\ beyond' = beyond \cup {s \in {sn} : s - rxDeliv >= WindowSize}
      /\ duplicates' = duplicates \cup {s \in {sn} : s >= rxDeliv /\ s - rxDeliv \in received}
      /\ UNCHANGED <<window, buffer, received, timer, passedUp, disordered, crossed, err>>
  BY DEF HandlePdcpSdu
<1>4. /\ rxNext' = rxNext /\ rxDeliv' = rxDeliv /\ rxReord' = rxReord /\ buffer' = buffer
      /\ received' = received /\ timer' = timer /\ passedUp' = passedUp
      /\ disordered' = disordered /\ crossed' = crossed /\ err' = err
  BY <1>3 DEF window
<1>5. late' \subseteq Sdu /\ beyond' \subseteq Sdu /\ duplicates' \subseteq Sdu
  <2>1. late \subseteq Sdu /\ beyond \subseteq Sdu /\ duplicates \subseteq Sdu
    BY <1>1, Types
  <2> QED
    BY <1>3, <2>1
<1>6. TypeOK'
  BY <1>1, <1>2, <1>4, <1>5 DEF TypeOK
<1>7. Window' /\ TimerInv' /\ NoError'
  BY <1>1, <1>2, <1>4 DEF Window, Once, TimerInv, NoError
<1>8. Deleted' = Deleted \cup {sn} /\ Held' = Held
  <2>1. rxDeliv \in Nat
    BY <1>1, Types
  <2>2. sn < rxDeliv \/ sn - rxDeliv >= WindowSize \/ (sn >= rxDeliv /\ sn - rxDeliv \in received)
    BY <1>2, <2>1 DEF Discarded
  <2>3. Deleted' = Deleted \cup {sn}
    BY <1>3, <2>2 DEF Deleted
  <2> QED
    BY <1>4, <2>3 DEF Held
<1>9. Accounts'
  BY <1>1, <1>2, <1>4, <1>8 DEF Accounts
<1>10. Running' /\ ~crossed' => Orderly'
  BY <1>1, <1>2, <1>4 DEF Running, Orderly, InPlace, Below
<1>11. crossed \/ late' \subseteq skipped
  <2>1. CASE sn < rxDeliv /\ ~crossed
    <3>1. sn \in 0 .. rxDeliv - 1
      BY <1>1, <1>2, <2>1, Types
    <3>2. sn \in skipped
      BY <1>1, <1>2, <2>1, <3>1 DEF Orderly, Below
    <3> QED
      BY <1>1, <1>3, <3>2 DEF Clean, DeletedForAReason
  <2>2. CASE ~(sn < rxDeliv)
    <3>1. late' = late
      BY <1>3, <2>2
    <3> QED
      BY <1>1, <3>1 DEF Clean, DeletedForAReason
  <2> QED
    BY <2>1, <2>2
<1>12. crossed \/ jumped \/ duplicates' = {}
  <2>1. SUFFICES ASSUME ~crossed, ~jumped PROVE duplicates' = {}
    OBVIOUS
  <2>2. ASSUME sn >= rxDeliv, sn - rxDeliv \in received PROVE FALSE
    <3> DEFINE x == sn - rxDeliv
    <3>1. x \in Pos /\ rxDeliv + x = sn
      BY <1>1, <1>2, <2>2, Types
    <3>2. buffer[x] # NoSdu
      BY <1>1, <2>1, <2>2 DEF Window
    <3>3. buffer[x] = rxDeliv + x
      BY <1>1, <1>2, <2>1, <3>1, <3>2 DEF Orderly, InPlace
    <3> HIDE DEF x
    <3>4. sn \in Held
      BY <3>1, <3>2, <3>3 DEF Held
    <3> QED
      BY <1>2, <3>4
  <2>3. duplicates = {}
    BY <1>1, <2>1 DEF Clean, DeletedForAReason
  <2> QED
    BY <1>3, <2>2, <2>3
<1>13. Clean'
  <2>1. InOrderUnlessCrossed'
    BY <1>1, <1>4 DEF Clean, InOrderUnlessCrossed
  <2>2. DeletedForAReason'
    BY <1>2, <1>4, <1>11, <1>12 DEF DeletedForAReason
  <2> QED
    BY <2>1, <2>2 DEF Clean
<1> QED
  BY <1>6, <1>7, <1>9, <1>10, <1>13 DEF IInv, General

\* An SDU that is not the next one is buffered.
LEMMA BufferedSdu ==
  ASSUME NrPdcpRxAssumption, IInv, NEW sn \in Sdu, NEW leg \in Legs, HandlePdcpSdu(sn, leg),
         ~Discarded(sn), sn # rxDeliv
  PROVE  IInv'
<1> DEFINE x == sn - rxDeliv
           next == IF sn >= rxNext THEN sn + 1 ELSE rxNext
<1>1. TypeOK /\ Window /\ TimerInv /\ Accounts /\ NoError /\ Clean
      /\ (Running /\ ~crossed => Orderly)
  BY DEF IInv, General
<1>2. /\ Running /\ sn \notin arrived /\ sn \notin passedUp \cup Deleted \cup Held
      /\ sn \in Nat /\ sn < MaxSdus
      /\ arrived' = arrived \cup {sn} /\ arrived' \subseteq Sdu
      /\ skipped' = skipped /\ jumped' = jumped /\ last' \in [Legs -> Sdu \cup {NoSdu}]
  BY Arrives
<1>3. /\ WindowSize \in Nat \ {0} /\ Pos = 0 .. WindowSize - 1 /\ MaxSdus \in Nat /\ NoSdu = -1
      /\ rxNext \in Nat /\ rxDeliv \in Nat /\ rxReord \in Nat /\ rxNext <= MaxSdus
      /\ buffer \in [Pos -> Sdu \cup {NoSdu}] /\ received \subseteq Pos
      /\ rxNext - rxDeliv <= WindowSize
  BY <1>1, Types DEF Window
<1>4. x \in Pos /\ x \notin received /\ rxDeliv + x = sn /\ sn > rxDeliv
  BY <1>2, <1>3 DEF Discarded
<1>5. buffer[x] = NoSdu
  BY <1>1, <1>4 DEF Window
<1>6. /\ rxNext' = next /\ HandleReordering /\ BufferSdu(sn)
      /\ UNCHANGED <<late, duplicates, beyond>>
  BY Zenon DEF HandlePdcpSdu, IsNext, NextAfter
<1>7. /\ rxNext' = next /\ HandleReordering
      /\ buffer' = [buffer EXCEPT ![x] = sn] /\ received' = received \cup {x} /\ err' = err
      /\ rxDeliv' = rxDeliv /\ passedUp' = passedUp /\ disordered' = disordered
      /\ crossed' = crossed /\ late' = late /\ duplicates' = duplicates /\ beyond' = beyond
  BY <1>5, <1>6 DEF BufferSdu
<1>8. /\ next \in Nat /\ rxNext <= next /\ sn < next /\ next <= MaxSdus
      /\ next - rxDeliv <= WindowSize /\ rxDeliv < next
      /\ next = sn + 1 \/ (next = rxNext /\ rxDeliv < rxNext)
  BY <1>2, <1>3, <1>4
<1> HIDE DEF next, x
<1>9. /\ timer' \in BOOLEAN /\ rxReord' \in Nat /\ TimerInv'
      /\ timer' => rxReord' = next \/ (timer /\ rxReord' = rxReord)
  BY <1>1, <1>3, <1>7, <1>8, Reordered
<1>10. \A i \in Pos : buffer'[i] = IF i = x THEN sn ELSE buffer[i]
  BY <1>3, <1>4, <1>7
<1>11. buffer' \in [Pos -> Sdu \cup {NoSdu}] /\ received' \subseteq Pos
  BY <1>3, <1>4, <1>7
<1>12. TypeOK'
  <2>1. rxNext' \in 0 .. MaxSdus /\ rxDeliv' \in Nat /\ rxReord' \in Nat
    BY <1>3, <1>7, <1>8, <1>9
  <2>2. /\ {timer', crossed', jumped'} \subseteq BOOLEAN /\ err' = err
        /\ \A S \in {passedUp', disordered', arrived', late', duplicates', beyond', skipped'} :
             S \subseteq Sdu
    BY <1>1, <1>2, <1>7, <1>9 DEF TypeOK
  <2>3. err' \in {"none", "addAt: position is taken", "check_and_cast: null",
                  "received_.at: out of range"}
    BY <1>1, <2>2 DEF TypeOK
  <2> QED
    BY <1>2, <1>11, <2>1, <2>2, <2>3 DEF TypeOK
<1>13. sn # NoSdu /\ \A i \in Pos : buffer[i] # NoSdu => buffer[i] # sn
  BY <1>2, <1>3 DEF Held
<1>14. Window'
  <2>1. rxNext' - rxDeliv' <= WindowSize
    BY <1>7, <1>8
  <2>2. \A i \in Pos : buffer'[i] # NoSdu => i \in received'
    BY <1>1, <1>7, <1>10 DEF Window
  <2>3. jumped' \/ \A i \in received' : buffer'[i] # NoSdu
    BY <1>1, <1>2, <1>3, <1>4, <1>7, <1>10, <1>13 DEF Window
  <2>4. \A i, j \in Pos : buffer'[i] = buffer'[j] /\ buffer'[i] # NoSdu => i = j
    BY <1>1, <1>10, <1>13 DEF Window, Once
  <2> QED
    BY <2>1, <2>2, <2>3, <2>4 DEF Window, Once
<1>15. Held' = Held \cup {sn} /\ Deleted' = Deleted
  <2>1. ASSUME NEW s \in Held' PROVE s \in Held \cup {sn}
    <3>1. PICK i \in Pos : buffer'[i] = s /\ s # NoSdu
      BY <2>1 DEF Held
    <3> QED
      BY <1>10, <3>1 DEF Held
  <2>2. ASSUME NEW s \in Held PROVE s \in Held'
    <3>1. PICK i \in Pos : buffer[i] = s /\ s # NoSdu
      BY DEF Held
    <3>2. buffer'[i] = s
      BY <1>5, <1>10, <3>1
    <3> QED
      BY <3>1, <3>2 DEF Held
  <2>3. sn \in Held'
    BY <1>4, <1>10, <1>13 DEF Held
  <2> QED
    BY <1>7, <2>1, <2>2, <2>3 DEF Deleted
<1>16. Accounts'
  BY <1>1, <1>2, <1>7, <1>15 DEF Accounts
<1>17. NoError'
  BY <1>1, <1>2, <1>7 DEF NoError
<1>18. Clean'
  BY <1>1, <1>2, <1>7 DEF Clean, InOrderUnlessCrossed, DeletedForAReason
<1>19. ASSUME Running', ~crossed' PROVE Orderly'
  <2>1. InPlace /\ Below
    BY <1>1, <1>2, <1>7, <1>19 DEF Orderly
  <2>2. /\ rxDeliv' <= rxNext'
        /\ \A i \in Pos : buffer'[i] # NoSdu => buffer'[i] = rxDeliv' + i /\ rxDeliv' + i < rxNext'
    <3>1. ASSUME NEW i \in Pos, buffer'[i] # NoSdu
          PROVE  buffer'[i] = rxDeliv + i /\ rxDeliv + i < next
      <4>1. CASE i = x
        BY <1>4, <1>8, <1>10, <4>1
      <4>2. CASE i # x
        <5>1. buffer'[i] = buffer[i] /\ buffer[i] = rxDeliv + i /\ rxDeliv + i < rxNext
          BY <1>10, <2>1, <3>1, <4>2 DEF InPlace
        <5> QED
          BY <1>3, <1>8, <5>1
      <4> QED
        BY <4>1, <4>2
    <3> QED
      BY <1>3, <1>7, <1>8, <3>1
  <2>3. buffer'[next - 1 - rxDeliv] # NoSdu
    <3>1. CASE next = sn + 1
      <4>1. next - 1 - rxDeliv = x
        BY <1>3, <1>4, <3>1 DEF x
      <4> QED
        BY <1>4, <1>10, <1>13, <4>1
    <3>2. CASE next = rxNext /\ rxDeliv < rxNext
      <4>1. buffer[next - 1 - rxDeliv] # NoSdu /\ next - 1 - rxDeliv \in Pos
        BY <1>3, <2>1, <3>2 DEF InPlace
      <4> QED
        BY <1>10, <1>13, <4>1
    <3> QED
      BY <1>8, <3>1, <3>2
  <2>4. timer' => buffer'[rxReord' - 1 - rxDeliv] # NoSdu
    <3>1. ASSUME timer, rxReord' = rxReord PROVE buffer'[rxReord' - 1 - rxDeliv] # NoSdu
      <4>1. buffer[rxReord - 1 - rxDeliv] # NoSdu /\ rxReord - 1 - rxDeliv \in Pos
        BY <1>1, <1>3, <2>1, <3>1 DEF InPlace, TimerInv
      <4> QED
        BY <1>10, <1>13, <3>1, <4>1
    <3> QED
      BY <1>9, <2>3, <3>1
  <2>5. InPlace'
    BY <1>7, <2>2, <2>3, <2>4 DEF InPlace
  <2>6. Below'
    BY <1>2, <1>7, <2>1 DEF Below
  <2> QED
    BY <2>5, <2>6 DEF Orderly
<1> QED
  BY <1>9, <1>12, <1>14, <1>16, <1>17, <1>18, <1>19 DEF IInv, General

\* The next SDU: what its step does to the window, m being the first position
\* without a mark.
NextArrives(m, end) ==
  LET P == 1 .. m - 1
  IN /\ m \in 1 .. WindowSize /\ m \notin received /\ 0 \notin received
     /\ P \subseteq received /\ end = rxNext' - (rxDeliv + m)
     /\ rxNext' = IF rxDeliv >= rxNext THEN rxDeliv + 1 ELSE rxNext
     /\ rxDeliv' = rxDeliv + m /\ crossed' = (crossed \/ end > 0)
     /\ Moves(P, received \ P, m, end) /\ Taking({rxDeliv}, P)
     /\ err' = IF \E i \in P : buffer[i] = NoSdu THEN "check_and_cast: null"
               ELSE IF end < 0 THEN "received_.at: out of range" ELSE err
     /\ HandleReordering

LEMMA NextSdu ==
  ASSUME NrPdcpRxAssumption, IInv, rxDeliv \in Sdu, NEW leg \in Legs,
         HandlePdcpSdu(rxDeliv, leg), ~Discarded(rxDeliv)
  PROVE  \E m \in Nat, end \in Int : NextArrives(m, end)
<1>1. TypeOK /\ Window /\ Accounts
  BY DEF IInv, General
<1>2. /\ WindowSize \in Nat \ {0} /\ Pos = 0 .. WindowSize - 1
      /\ rxNext \in Nat /\ rxDeliv \in Nat /\ received \subseteq Pos
      /\ rxNext - rxDeliv <= WindowSize
  BY <1>1, Types DEF Window
<1>3. 0 \notin received
  <2>1. rxDeliv - rxDeliv = 0
    BY <1>2
  <2> QED
    BY <2>1 DEF Discarded
<1>4. PICK m \in 1 .. WindowSize : /\ Run(1) = 1 .. m - 1 /\ Cardinality(Run(1)) = m - 1
                                   /\ m \notin received
  <2>1. received \subseteq 0 .. WindowSize - 1 /\ 1 \in 0 .. WindowSize /\ WindowSize \in Nat
    BY <1>2
  <2> QED
    BY <2>1, RunEnds
<1>5. m \in Nat \ {0} /\ m <= WindowSize /\ 1 + Cardinality(Run(1)) = m
  BY <1>2, <1>4
<1> DEFINE P == 1 .. m - 1
           next == IF rxDeliv >= rxNext THEN rxDeliv + 1 ELSE rxNext
           end == next - (rxDeliv + m)
<1>6. P \subseteq received /\ P = {i \in received : i < m}
  <2>1. P \subseteq received
    BY <1>4 DEF Run
  <2>2. ASSUME NEW i \in received, i < m PROVE i \in P
    <3>1. i \in Nat /\ i # 0
      BY <1>2, <1>3, <2>2
    <3> QED
      BY <1>5, <2>2, <3>1
  <2>3. \A i \in P : i < m
    BY <1>5
  <2> QED
    BY <2>1, <2>2, <2>3
<1>7. next \in Nat /\ end \in Int /\ end <= WindowSize
  BY <1>2, <1>5
<1>8. NextAfter(rxDeliv) = next
  BY <1>2 DEF NextAfter
<1>9. /\ rxNext' = next /\ DeliverInSequence(rxDeliv) /\ HandleReordering
      /\ UNCHANGED <<late, duplicates, beyond>>
  BY <1>8, Zenon DEF HandlePdcpSdu, IsNext
<1> HIDE DEF P, next
<1>10. rxDeliv' = rxDeliv + m
  BY <1>5, <1>9 DEF DeliverInSequence
<1>11. rxNext' - rxDeliv' = end /\ Run(1) = P
  BY <1>4, <1>9, <1>10 DEF P
<1>12. /\ crossed' = (crossed \/ end > 0) /\ PassUp({rxDeliv}, P)
       /\ received' = ShiftedMarks(received \ P, m, end)
       /\ buffer' = ShiftedBuffer(Emptied(P), m, end)
       /\ err' = IF \E i \in P : buffer[i] = NoSdu THEN "check_and_cast: null"
                 ELSE IF end < 0 THEN "received_.at: out of range"
                 ELSE IF Collides(Emptied(P), m, end) THEN "addAt: position is taken"
                 ELSE err
  BY <1>5, <1>9, <1>11, Zenon DEF DeliverInSequence
<1> HIDE DEF end
<1>13. Moves(P, received \ P, m, end)
  BY <1>5, <1>6, <1>7, <1>12 DEF Moves
<1>14. ~Collides(Emptied(P), m, end) /\ Held' = Held \ Removed(P)
  BY <1>1, <1>13, WindowMoves
<1>15. Taking({rxDeliv}, P)
  <2>1. rxDeliv \notin arrived /\ arrived' = arrived \cup {rxDeliv}
    BY DEF HandlePdcpSdu
  <2>2. {rxDeliv} \subseteq Sdu /\ {rxDeliv} \cap arrived = {}
    BY <2>1
  <2> QED
    BY <1>6, <1>9, <1>12, <1>14, <2>1, <2>2 DEF Taking
<1>16. NextArrives(m, end)
  BY <1>3, <1>4, <1>6, <1>9, <1>10, <1>12, <1>13, <1>14, <1>15
  DEF NextArrives, P, next, end
<1> QED
  BY <1>5, <1>7, <1>16

\* If no mark without an SDU was met and nothing but the first gap was open, the
\* window is empty.
LEMMA WindowEmptied ==
  ASSUME NrPdcpRxAssumption, TypeOK, Window, InPlace, NEW m \in Nat, NEW end \in Int,
         NextArrives(m, end), \A i \in 1 .. m - 1 : buffer[i] # NoSdu
  PROVE  /\ end >= 0
         /\ end = 0 => /\ rxDeliv' = rxNext'
                       /\ \A i \in Pos : buffer'[i] = NoSdu
<1> DEFINE P == 1 .. m - 1
<1>1. /\ m \in 1 .. WindowSize /\ 0 \notin received
      /\ P \subseteq received /\ end = rxNext' - (rxDeliv + m)
      /\ rxNext' = IF rxDeliv >= rxNext THEN rxDeliv + 1 ELSE rxNext
      /\ rxDeliv' = rxDeliv + m /\ Moves(P, received \ P, m, end)
  BY DEF NextArrives
<1>2. /\ WindowSize \in Nat \ {0} /\ Pos = 0 .. WindowSize - 1
      /\ rxNext \in Nat /\ rxDeliv \in Nat
      /\ \A i \in Pos : buffer[i] # NoSdu => i \in received
      /\ \A i \in Pos : buffer[i] # NoSdu => rxDeliv + i < rxNext
  BY Types DEF Window, InPlace
<1>3. rxDeliv + m <= rxNext'
  <2>1. CASE m = 1
    BY <1>1, <1>2, <2>1
  <2>2. CASE m # 1
    <3>1. m - 1 \in P /\ m - 1 \in Pos
      BY <1>1, <1>2, <2>2
    <3>2. rxDeliv + (m - 1) < rxNext
      BY <1>2, <3>1
    <3> QED
      BY <1>1, <1>2, <3>2
  <2> QED
    BY <2>1, <2>2
<1>4. ASSUME end = 0, NEW i \in Pos PROVE buffer'[i] = NoSdu
  <2>1. i \in Nat /\ ~(i < end - m)
    BY <1>1, <1>2, <1>4
  <2>2. buffer'[i] = IF i < end - m THEN buffer[i + m]
                     ELSE IF i >= end /\ i >= m THEN buffer[i] ELSE NoSdu
    BY <1>1, WindowMoves
  <2>3. CASE i >= m
    <3>1. ~(rxDeliv + i < rxNext)
      BY <1>1, <1>2, <1>4, <2>1, <2>3
    <3>2. buffer[i] = NoSdu
      BY <1>2, <3>1
    <3> QED
      BY <2>1, <2>2, <3>2
  <2>4. CASE ~(i >= m)
    BY <2>1, <2>2, <2>4
  <2> QED
    BY <2>3, <2>4
<1>5. end >= 0 /\ (end = 0 => rxDeliv' = rxNext')
  BY <1>1, <1>2, <1>3
<1> QED
  BY <1>4, <1>5

LEMMA DeliveredSdu ==
  ASSUME NrPdcpRxAssumption, IInv, rxDeliv \in Sdu, NEW leg \in Legs,
         HandlePdcpSdu(rxDeliv, leg), ~Discarded(rxDeliv)
  PROVE  IInv'
<1>1. TypeOK /\ Window /\ TimerInv /\ Accounts /\ NoError /\ Clean
      /\ (Running /\ ~crossed => Orderly)
  BY DEF IInv, General
<1>2. /\ Running /\ arrived' = arrived \cup {rxDeliv}
      /\ skipped' = skipped /\ jumped' = jumped /\ last' \in [Legs -> Sdu \cup {NoSdu}]
  BY Arrives
<1>3. PICK m \in Nat, end \in Int : NextArrives(m, end)
  BY NextSdu
<1> DEFINE P == 1 .. m - 1
<1>4. /\ m \in 1 .. WindowSize /\ m \notin received /\ 0 \notin received
      /\ P \subseteq received /\ end = rxNext' - (rxDeliv + m)
      /\ rxNext' = IF rxDeliv >= rxNext THEN rxDeliv + 1 ELSE rxNext
      /\ rxDeliv' = rxDeliv + m /\ crossed' = (crossed \/ end > 0)
      /\ Moves(P, received \ P, m, end) /\ Taking({rxDeliv}, P)
      /\ err' = IF \E i \in P : buffer[i] = NoSdu THEN "check_and_cast: null"
                ELSE IF end < 0 THEN "received_.at: out of range" ELSE err
      /\ HandleReordering
  BY <1>3 DEF NextArrives
<1> HIDE DEF P
<1>5. /\ WindowSize \in Nat \ {0} /\ Pos = 0 .. WindowSize - 1 /\ MaxSdus \in Nat
      /\ rxNext \in Nat /\ rxDeliv \in Nat /\ rxReord \in Nat /\ rxNext <= MaxSdus
      /\ Sdu = 0 .. MaxSdus - 1 /\ rxNext - rxDeliv <= WindowSize
      /\ crossed \in BOOLEAN /\ jumped \in BOOLEAN /\ timer \in BOOLEAN /\ skipped \subseteq Sdu
      /\ late \subseteq Sdu /\ duplicates \subseteq Sdu /\ beyond \subseteq Sdu
  BY <1>1, Types DEF Window
<1>6. /\ buffer' \in [Pos -> Sdu \cup {NoSdu}] /\ received' \subseteq Pos
      /\ \A i \in Pos : buffer'[i] # NoSdu => i \in received'
      /\ ~jumped => \A i \in received' : buffer'[i] # NoSdu
      /\ \A i, j \in Pos : buffer'[i] = buffer'[j] /\ buffer'[i] # NoSdu => i = j
      /\ Removed(P) \subseteq Held
  <2> DEFINE M == received \ P
  <2>1. Moves(P, M, m, end)
    BY <1>4
  <2> HIDE DEF M
  <2>2. /\ buffer' \in [Pos -> Sdu \cup {NoSdu}] /\ received' \subseteq Pos
        /\ \A i \in Pos : buffer'[i] # NoSdu => i \in received'
        /\ ~jumped /\ (M = received \ P \/ 2 * m <= end)
             => \A i \in received' : buffer'[i] # NoSdu
        /\ \A i, j \in Pos : buffer'[i] = buffer'[j] /\ buffer'[i] # NoSdu => i = j
        /\ Removed(P) \subseteq Held
    BY <1>1, <2>1, WindowMoves
  <2>3. M = received \ P
    BY DEF M
  <2> QED
    BY <2>2, <2>3
<1>7. /\ passedUp' = passedUp \cup {rxDeliv} \cup Removed(P)
      /\ passedUp' \subseteq Sdu /\ disordered' \subseteq Sdu /\ arrived' \subseteq Sdu
      /\ Accounts'
  BY <1>1, <1>4, PassedUp
<1>8. /\ rxNext' \in Nat /\ rxNext <= rxNext' /\ rxNext' <= MaxSdus
      /\ rxDeliv' \in Nat /\ rxDeliv < rxDeliv' /\ rxNext' - rxDeliv' <= WindowSize
      /\ rxDeliv' = rxDeliv + m /\ m \in Nat \ {0} /\ m <= WindowSize
      /\ rxDeliv <= rxDeliv'
  <2>1. /\ m \in Nat \ {0} /\ m <= WindowSize /\ rxDeliv' = rxDeliv + m
        /\ rxNext' = IF rxDeliv >= rxNext THEN rxDeliv + 1 ELSE rxNext
    <3>1. m \in 1 .. WindowSize /\ WindowSize \in Nat
      BY <1>4, <1>5, Zenon
    <3>2. m \in Nat \ {0} /\ m <= WindowSize
      BY <3>1
    <3> QED
      BY <1>4, <3>2, Zenon
  <2>2. rxDeliv < MaxSdus
    <3>1. rxDeliv \in 0 .. MaxSdus - 1
      BY DEF Sdu
    <3> QED
      BY <1>5, <3>1
  <2> QED
    BY <1>5, <2>1, <2>2
<1>9. /\ timer' \in BOOLEAN /\ rxReord' \in Nat /\ TimerInv'
  BY <1>1, <1>4, <1>8, Reordered
<1>10. late' = late /\ duplicates' = duplicates /\ beyond' = beyond
  BY <1>4 DEF Taking
<1>11. err' \in {"none", "check_and_cast: null", "received_.at: out of range"}
  BY <1>2, <1>4 DEF Running
<1>12. TypeOK'
  <2>1. rxNext' \in 0 .. MaxSdus /\ rxDeliv' \in Nat /\ rxReord' \in Nat
    BY <1>5, <1>8, <1>9
  <2>2. crossed' \in BOOLEAN /\ jumped' \in BOOLEAN /\ timer' \in BOOLEAN
    BY <1>2, <1>4, <1>5, <1>9
  <2>3. {timer', crossed', jumped'} \subseteq BOOLEAN
    BY <2>2
  <2>4. \A S \in {passedUp', disordered', arrived', late', duplicates', beyond', skipped'} :
             S \subseteq Sdu
    BY <1>2, <1>5, <1>7, <1>10
  <2>5. err' \in {"none", "addAt: position is taken", "check_and_cast: null",
                  "received_.at: out of range"}
    BY <1>11
  <2> QED
    BY <1>2, <1>6, <2>1, <2>3, <2>4, <2>5 DEF TypeOK
<1>13. Window'
  <2>1. jumped' \/ \A i \in received' : buffer'[i] # NoSdu
    BY <1>2, <1>6
  <2> QED
    BY <1>6, <1>8, <2>1 DEF Window, Once
<1>14. (\E i \in P : buffer[i] = NoSdu) => jumped
  BY <1>1, <1>4 DEF Window
<1>15. ASSUME ~crossed, \A i \in P : buffer[i] # NoSdu
       PROVE  /\ end >= 0
              /\ end = 0 => /\ rxDeliv' = rxNext'
                            /\ \A i \in Pos : buffer'[i] = NoSdu
  <2>1. InPlace
    BY <1>1, <1>2, <1>15 DEF Orderly
  <2> QED
    BY <1>1, <1>3, <1>15, <2>1, WindowEmptied DEF P
<1>16. NoError'
  <2>1. CASE \E i \in P : buffer[i] = NoSdu
    <3>1. err' = "check_and_cast: null" /\ jumped'
      BY <1>2, <1>4, <1>14, <2>1
    <3> QED
      BY <3>1 DEF NoError
  <2>2. CASE ~(\E i \in P : buffer[i] = NoSdu) /\ end < 0
    <3>1. err' = "received_.at: out of range"
      BY <1>4, <2>2
    <3>2. crossed
      BY <1>15, <2>2
    <3>3. crossed'
      BY <1>4, <3>2
    <3> QED
      BY <3>1, <3>3 DEF NoError
  <2>3. CASE ~(\E i \in P : buffer[i] = NoSdu) /\ ~(end < 0)
    <3>1. err' = "none"
      BY <1>2, <1>4, <2>3 DEF Running
    <3> QED
      BY <3>1 DEF NoError
  <2> QED
    BY <2>1, <2>2, <2>3
<1>17. Clean'
  <2>1. crossed' \/ disordered' = {}
    <3>1. SUFFICES ASSUME ~crossed' PROVE disordered' = {}
      OBVIOUS
    <3>2. ~crossed
      BY <1>4, <3>1
    <3>3. Orderly /\ disordered = {}
      BY <1>1, <1>2, <3>2 DEF Clean, InOrderUnlessCrossed
    <3>4. PassUp({rxDeliv}, P)
      BY <1>4 DEF Taking, P
    <3> QED
      BY <1>1, <1>4, <3>3, <3>4, PassUpInOrder
  <2>2. /\ crossed' \/ late' \subseteq skipped'
        /\ crossed' \/ jumped' \/ duplicates' = {}
    BY <1>1, <1>2, <1>4, <1>10 DEF Clean, DeletedForAReason
  <2> QED
    BY <2>1, <2>2 DEF Clean, InOrderUnlessCrossed, DeletedForAReason
<1>18. ASSUME Running', ~crossed' PROVE Orderly'
  <2>1. ~crossed /\ ~(end > 0) /\ err' = "none"
    BY <1>4, <1>18 DEF Running
  <2>2. \A i \in P : buffer[i] # NoSdu
    BY <1>4, <2>1
  <2>3. rxDeliv' = rxNext' /\ \A i \in Pos : buffer'[i] = NoSdu
    BY <1>15, <2>1, <2>2
  <2>4. Orderly
    BY <1>1, <1>2, <2>1
  <2>5. InPlace'
    BY <1>8, <1>9, <2>3 DEF InPlace, TimerInv
  <2>6. \A i \in P : i \in Nat /\ i < m /\ i \in Pos /\ buffer[i] = rxDeliv + i
    <3>1. \A i \in P : i \in Nat /\ i < m /\ i \in Pos
      BY <1>5, <1>8 DEF P
    <3> QED
      BY <2>2, <2>4, <3>1 DEF Orderly, InPlace
  <2>7. ASSUME NEW s \in passedUp' PROVE s < rxDeliv'
    <3>1. CASE s \in passedUp
      <4>1. s < rxDeliv /\ s \in Nat
        BY <1>1, <1>5, <2>4, <3>1, Types DEF Orderly, Below
      <4> QED
        BY <1>5, <1>8, <4>1
    <3>2. CASE s = rxDeliv
      BY <1>8, <3>2
    <3>3. CASE s \in Removed(P)
      <4>1. PICK i \in P : s = rxDeliv + i
        BY <2>6, <3>3 DEF Removed, Taken
      <4>2. i \in Nat /\ i < m
        BY <2>6
      <4> QED
        BY <1>5, <1>8, <4>1, <4>2
    <3> QED
      BY <1>7, <3>1, <3>2, <3>3
  <2>8. ASSUME NEW s \in 0 .. rxDeliv' - 1 PROVE s \in arrived' \cup skipped'
    <3>1. s \in Nat /\ s < rxDeliv + m
      BY <1>5, <1>8, <2>8
    <3>2. CASE s < rxDeliv
      BY <1>2, <1>5, <2>4, <3>1, <3>2 DEF Orderly, Below
    <3>3. CASE s = rxDeliv
      BY <1>2, <3>3
    <3>4. CASE s > rxDeliv
      <4>1. s - rxDeliv \in P /\ s = rxDeliv + (s - rxDeliv)
        BY <1>5, <1>8, <3>1, <3>4 DEF P
      <4>2. s \in Held
        BY <2>2, <2>6, <4>1 DEF Held
      <4> QED
        BY <1>1, <1>2, <4>2 DEF Accounts
    <3> QED
      BY <1>5, <3>1, <3>2, <3>3, <3>4
  <2>9. Below'
    BY <2>7, <2>8 DEF Below
  <2> QED
    BY <2>5, <2>9 DEF Orderly
<1> QED
  BY <1>7, <1>9, <1>12, <1>13, <1>16, <1>17, <1>18 DEF IInv, General

\* The timer expires: the window moves by n positions, of which those from gap
\* on are marked.
Expires(gap, n) ==
  LET P == {i \in received : i < n}
  IN /\ gap = rxReord - rxDeliv /\ gap \in Nat \ {0}
     /\ n \in Nat \ {0} /\ gap <= n /\ n <= WindowSize
     /\ \A i \in gap .. n - 1 : i \in received
     /\ rxReord = rxNext \/ rxDeliv + n <= rxNext
     /\ rxDeliv' = rxDeliv + n /\ jumped' = (jumped \/ 2 * n > WindowSize)
     /\ skipped' = skipped \cup {s \in rxDeliv .. rxReord - 1 : s - rxDeliv \notin received}
     /\ Moves(P, received, n, WindowSize) /\ Taking({}, P)
     /\ err' = IF \E i \in P : buffer[i] = NoSdu THEN "check_and_cast: null"
               ELSE IF n = WindowSize /\ (n = gap \/ rxDeliv' # rxNext)
               THEN "received_.at: out of range" ELSE err
     /\ Restart /\ UNCHANGED <<rxNext, crossed, last>>

LEMMA TimerExpires ==
  ASSUME NrPdcpRxAssumption, IInv, ReorderingTimer
  PROVE  \E gap \in Nat, n \in Nat : Expires(gap, n)
<1>1. TypeOK /\ Window /\ TimerInv /\ timer
  BY DEF IInv, General, ReorderingTimer
<1>2. /\ WindowSize \in Nat \ {0} /\ Pos = 0 .. WindowSize - 1
      /\ rxNext \in Nat /\ rxDeliv \in Nat /\ rxReord \in Nat /\ received \subseteq Pos
      /\ rxNext - rxDeliv <= WindowSize /\ rxDeliv < rxReord /\ rxReord <= rxNext
  BY <1>1, Types DEF Window, TimerInv
<1> DEFINE gap == rxReord - rxDeliv
<1>3. gap \in Nat \ {0} /\ gap <= WindowSize /\ gap = rxReord - rxDeliv
  BY <1>2
<1> HIDE DEF gap
<1>4. PICK m \in gap .. WindowSize : /\ Run(gap) = gap .. m - 1 /\ Cardinality(Run(gap)) = m - gap
                                     /\ m \notin received
  <2>1. received \subseteq 0 .. WindowSize - 1 /\ gap \in 0 .. WindowSize /\ WindowSize \in Nat
    BY <1>2, <1>3
  <2> QED
    BY <2>1, RunEnds
<1> DEFINE n == gap + BehindReord(gap)
<1>5. /\ n \in Nat \ {0} /\ gap <= n /\ n <= m /\ n <= WindowSize
      /\ rxReord = rxNext \/ rxDeliv + n <= rxNext
  <2>1. m \in Nat /\ gap <= m /\ m <= WindowSize
    BY <1>2, <1>3, <1>4
  <2>2. BehindReord(gap) = IF rxReord < rxNext /\ rxNext - rxReord < m - gap
                           THEN rxNext - rxReord ELSE m - gap
    BY <1>4 DEF BehindReord
  <2>3. CASE rxReord < rxNext /\ rxNext - rxReord < m - gap
    BY <1>2, <1>3, <2>1, <2>2, <2>3
  <2>4. CASE ~(rxReord < rxNext /\ rxNext - rxReord < m - gap)
    BY <1>2, <1>3, <2>1, <2>2, <2>4
  <2> QED
    BY <2>3, <2>4
<1> DEFINE P == {i \in received : i < n}
<1>6. /\ rxDeliv' = rxDeliv + n
      /\ jumped' = (jumped \/ 2 * n > WindowSize)
      /\ PassUp({}, P)
      /\ skipped' = skipped \cup {s \in rxDeliv .. rxReord - 1 : s - rxDeliv \notin received}
      /\ received' = ShiftedMarks(received, n, ShiftEnd)
      /\ buffer' = ShiftedBuffer(Emptied(P), n, ShiftEnd)
      /\ err' = IF \E i \in P : buffer[i] = NoSdu THEN "check_and_cast: null"
                ELSE IF n = WindowSize /\ (n = gap \/ rxDeliv' # rxNext)
                THEN "received_.at: out of range"
                ELSE IF Collides(Emptied(P), n, ShiftEnd)
                THEN "addAt: position is taken" ELSE err
      /\ Restart
      /\ UNCHANGED <<rxNext, arrived, late, duplicates, beyond, crossed, last>>
  BY Zenon DEF ReorderingTimer, gap
<1>7. \A i \in gap .. n - 1 : i \in received
  <2>1. ASSUME NEW i \in gap .. n - 1 PROVE i \in gap .. m - 1
    BY <1>3, <1>4, <1>5
  <2> QED
    BY <1>4, <2>1 DEF Run
<1> HIDE DEF n
<1>8. Moves(P, received, n, WindowSize)
  <2>1. P = {i \in received : i < n}
    OBVIOUS
  <2> HIDE DEF P
  <2>2. /\ received' = ShiftedMarks(received, n, WindowSize)
        /\ buffer' = ShiftedBuffer(Emptied(P), n, WindowSize)
    BY <1>6, Zenon DEF ShiftEnd
  <2>3. n \in Nat \ {0} /\ WindowSize \in Int /\ WindowSize <= WindowSize
    BY <1>2, <1>5
  <2>4. received \in {received, received \ P}
    OBVIOUS
  <2> QED
    BY <2>1, <2>2, <2>3, <2>4, Zenon DEF Moves
<1>9. ~Collides(Emptied(P), n, WindowSize) /\ Held' = Held \ Removed(P)
  BY <1>1, <1>8, WindowMoves
<1>10. Taking({}, P)
  BY <1>6, <1>9 DEF Taking
<1>11. Expires(gap, n)
  BY <1>3, <1>5, <1>6, <1>7, <1>8, <1>9, <1>10, Zenon DEF Expires, ShiftEnd
<1> QED
  BY <1>3, <1>5, <1>11

LEMMA TimerStep ==
  ASSUME NrPdcpRxAssumption, IInv, ReorderingTimer
  PROVE  IInv'
<1>1. /\ TypeOK /\ Window /\ TimerInv /\ Accounts /\ NoError /\ Clean
      /\ (Running /\ ~crossed => Orderly) /\ Running
  BY DEF IInv, General, ReorderingTimer
<1>2. PICK gap \in Nat, n \in Nat : Expires(gap, n)
  BY TimerExpires
<1> DEFINE P == {i \in received : i < n}
           given == {s \in rxDeliv .. rxReord - 1 : s - rxDeliv \notin received}
<1>3. /\ gap = rxReord - rxDeliv /\ gap \in Nat \ {0}
      /\ n \in Nat \ {0} /\ gap <= n /\ n <= WindowSize
      /\ \A i \in gap .. n - 1 : i \in received
      /\ rxReord = rxNext \/ rxDeliv + n <= rxNext
      /\ rxDeliv' = rxDeliv + n /\ jumped' = (jumped \/ 2 * n > WindowSize)
      /\ skipped' = skipped \cup given
      /\ Moves(P, received, n, WindowSize) /\ Taking({}, P)
      /\ err' = IF \E i \in P : buffer[i] = NoSdu THEN "check_and_cast: null"
                ELSE IF n = WindowSize /\ (n = gap \/ rxDeliv' # rxNext)
                THEN "received_.at: out of range" ELSE err
      /\ Restart /\ rxNext' = rxNext /\ crossed' = crossed /\ last' = last
  BY <1>2 DEF Expires
<1>4. /\ WindowSize \in Nat \ {0} /\ Pos = 0 .. WindowSize - 1 /\ MaxSdus \in Nat /\ NoSdu = -1
      /\ rxNext \in Nat /\ rxDeliv \in Nat /\ rxReord \in Nat /\ rxNext <= MaxSdus
      /\ Sdu = 0 .. MaxSdus - 1 /\ rxNext - rxDeliv <= WindowSize
      /\ crossed \in BOOLEAN /\ jumped \in BOOLEAN /\ timer \in BOOLEAN /\ skipped \subseteq Sdu
      /\ late \subseteq Sdu /\ duplicates \subseteq Sdu /\ beyond \subseteq Sdu
      /\ received \subseteq Pos /\ rxReord <= rxNext
  BY <1>1, Types DEF Window, TimerInv, ReorderingTimer
<1>5. \A i \in P : i \in received /\ i \in Nat /\ i < n
  BY <1>4
<1> HIDE DEF P, given
<1>6. /\ buffer' \in [Pos -> Sdu \cup {NoSdu}] /\ received' \subseteq Pos
      /\ \A i \in Pos : buffer'[i] # NoSdu => i \in received'
      /\ ~jumped /\ (received = received \ P \/ 2 * n <= WindowSize)
           => \A i \in received' : buffer'[i] # NoSdu
      /\ \A i, j \in Pos : buffer'[i] = buffer'[j] /\ buffer'[i] # NoSdu => i = j
      /\ Removed(P) \subseteq Held
      /\ \A j \in Pos : j < WindowSize - n => j + n \in Pos
      /\ \A j \in Pos : buffer'[j] = IF j < WindowSize - n THEN buffer[j + n]
                                     ELSE IF j >= WindowSize /\ j >= n THEN buffer[j] ELSE NoSdu
  <2> DEFINE M == received
             end == WindowSize
  <2>1. Moves(P, M, n, end)
    BY <1>3, Zenon
  <2>2. M = received /\ end = WindowSize
    OBVIOUS
  <2> HIDE DEF M, end
  <2>3. /\ buffer' \in [Pos -> Sdu \cup {NoSdu}] /\ received' \subseteq Pos
        /\ \A i \in Pos : buffer'[i] # NoSdu => i \in received'
        /\ ~jumped /\ (M = received \ P \/ 2 * n <= end)
             => \A i \in received' : buffer'[i] # NoSdu
        /\ \A i, j \in Pos : buffer'[i] = buffer'[j] /\ buffer'[i] # NoSdu => i = j
        /\ Removed(P) \subseteq Held
        /\ \A j \in Pos : j < end - n => j + n \in Pos
        /\ \A j \in Pos : buffer'[j] = IF j < end - n THEN buffer[j + n]
                                       ELSE IF j >= end /\ j >= n THEN buffer[j] ELSE NoSdu
    BY <1>1, <2>1, WindowMoves
  <2> QED
    BY <2>2, <2>3
<1>7. /\ passedUp' = passedUp \cup {} \cup Removed(P)
      /\ passedUp' \subseteq Sdu /\ disordered' \subseteq Sdu /\ arrived' \subseteq Sdu
      /\ Accounts'
  BY <1>1, <1>3, PassedUp
<1>8. arrived' = arrived /\ late' = late /\ duplicates' = duplicates /\ beyond' = beyond
  BY <1>3 DEF Taking
<1>9. /\ rxDeliv' \in Nat /\ rxDeliv < rxDeliv' /\ rxNext' - rxDeliv' <= WindowSize
      /\ rxReord <= rxDeliv'
  <2>1. rxDeliv' = rxDeliv + n /\ rxNext' = rxNext /\ n \in Nat \ {0} /\ gap <= n
        /\ gap = rxReord - rxDeliv
    BY <1>3, Zenon
  <2> QED
    BY <1>4, <2>1
<1>10. /\ timer' \in BOOLEAN /\ rxReord' \in Nat /\ TimerInv'
       /\ timer' => rxReord' = rxNext
  <2>1. CASE rxDeliv' < rxNext
    <3>1. timer' = TRUE /\ rxReord' = rxNext /\ rxNext' = rxNext
      BY <1>3, <1>4, <1>9, <2>1 DEF Restart
    <3>2. TimerInv'
      BY <1>4, <2>1, <3>1 DEF TimerInv
    <3> QED
      BY <1>4, <3>1, <3>2
  <2>2. CASE ~(rxDeliv' < rxNext)
    <3>1. timer' = FALSE /\ rxReord' = rxReord /\ rxNext' = rxNext
      BY <1>3, <1>4, <1>9, <2>2 DEF Restart
    <3>2. TimerInv'
      BY <1>4, <2>2, <3>1 DEF TimerInv
    <3> QED
      BY <1>4, <3>1, <3>2
  <2> QED
    BY <2>1, <2>2
<1>11. err' \in {"none", "check_and_cast: null", "received_.at: out of range"}
  BY <1>1, <1>3 DEF Running
<1>12. given \subseteq Sdu
  BY <1>4 DEF given
<1>13. TypeOK'
  <2>1. rxNext' \in 0 .. MaxSdus /\ rxDeliv' \in Nat /\ rxReord' \in Nat
    <3>1. rxNext' = rxNext
      BY <1>3, Zenon
    <3> QED
      BY <1>4, <1>9, <1>10, <3>1
  <2>2. crossed' \in BOOLEAN /\ jumped' \in BOOLEAN /\ timer' \in BOOLEAN
    BY <1>3, <1>4, <1>10
  <2>3. {timer', crossed', jumped'} \subseteq BOOLEAN
    BY <2>2
  <2>4. \A S \in {passedUp', disordered', arrived', late', duplicates', beyond', skipped'} :
             S \subseteq Sdu
    BY <1>3, <1>4, <1>7, <1>8, <1>12
  <2>5. err' \in {"none", "addAt: position is taken", "check_and_cast: null",
                  "received_.at: out of range"}
    BY <1>11
  <2>6. last' \in [Legs -> Sdu \cup {NoSdu}]
    BY <1>1, <1>3 DEF TypeOK
  <2> QED
    BY <1>6, <2>1, <2>3, <2>4, <2>5, <2>6 DEF TypeOK
<1>14. Window'
  <2>1. jumped' \/ \A i \in received' : buffer'[i] # NoSdu
    <3>1. CASE jumped \/ 2 * n > WindowSize
      BY <1>3, <3>1
    <3>2. CASE ~jumped /\ ~(2 * n > WindowSize)
      <4>1. 2 * n <= WindowSize
        BY <1>4, <3>2
      <4> QED
        BY <1>6, <3>2, <4>1
    <3> QED
      BY <3>1, <3>2
  <2> QED
    BY <1>6, <1>9, <2>1 DEF Window, Once
<1>15. NoError'
  <2>1. CASE \E i \in P : buffer[i] = NoSdu
    <3>1. err' = "check_and_cast: null"
      BY <1>3, <2>1
    <3>2. jumped'
      BY <1>1, <1>3, <1>5, <2>1 DEF Window
    <3> QED
      BY <3>1, <3>2 DEF NoError
  <2>2. CASE ~(\E i \in P : buffer[i] = NoSdu) /\ n = WindowSize
    <3>1. 2 * n > WindowSize
      BY <1>4, <2>2
    <3>2. jumped' /\ err' \in {"received_.at: out of range", "none"}
      BY <1>1, <1>3, <2>2, <3>1 DEF Running
    <3> QED
      BY <3>2 DEF NoError
  <2>3. CASE ~(\E i \in P : buffer[i] = NoSdu) /\ n # WindowSize
    <3>1. err' = "none"
      BY <1>1, <1>3, <2>3 DEF Running
    <3> QED
      BY <3>1 DEF NoError
  <2> QED
    BY <2>1, <2>2, <2>3
<1>16. Clean'
  <2>1. crossed' \/ disordered' = {}
    <3>1. SUFFICES ASSUME ~crossed' PROVE disordered' = {}
      OBVIOUS
    <3>2. ~crossed
      BY <1>3, <3>1
    <3>3. Orderly /\ disordered = {}
      BY <1>1, <3>2 DEF Clean, InOrderUnlessCrossed
    <3>4. PassUp({}, P) /\ P \subseteq received
      BY <1>3, <1>5 DEF Taking
    <3> QED
      BY <1>1, <3>3, <3>4, PassUpInOrder
  <2>2. /\ crossed' \/ late' \subseteq skipped'
        /\ crossed' \/ jumped' \/ duplicates' = {}
    BY <1>1, <1>3, <1>8 DEF Clean, DeletedForAReason
  <2> QED
    BY <2>1, <2>2 DEF Clean, InOrderUnlessCrossed, DeletedForAReason
<1>17. ASSUME Running', ~crossed' PROVE Orderly'
  <2>1. Orderly /\ err' = "none"
    BY <1>1, <1>3, <1>17 DEF Running
  <2>2. /\ rxDeliv <= rxNext
        /\ \A i \in Pos : buffer[i] # NoSdu => buffer[i] = rxDeliv + i /\ rxDeliv + i < rxNext
        /\ rxDeliv < rxNext => buffer[rxNext - 1 - rxDeliv] # NoSdu
    BY <2>1 DEF Orderly, InPlace
  <2>3. \A i \in P : buffer[i] # NoSdu
    BY <1>3, <2>1
  <2>4. \A i \in P : i \in Pos /\ i \in Nat /\ i < n /\ buffer[i] = rxDeliv + i
    BY <1>4, <1>5, <2>2, <2>3
  <2>5. /\ n \in Nat \ {0} /\ gap \in Nat \ {0} /\ gap <= n /\ n <= WindowSize
        /\ gap = rxReord - rxDeliv /\ rxDeliv' = rxDeliv + n /\ rxNext' = rxNext
    BY <1>3, Zenon
  <2>6. rxDeliv' <= rxNext
    <3>1. CASE rxDeliv + n <= rxNext
      BY <2>5, <3>1
    <3>2. CASE rxReord = rxNext /\ gap < n
      <4>1. gap \in received
        <5>1. gap \in gap .. n - 1
          BY <2>5, <3>2
        <5> QED
          BY <1>3, <5>1, Zenon
      <4>2. gap \in P
        BY <3>2, <4>1 DEF P
      <4>3. rxDeliv + gap < rxNext
        BY <2>2, <2>3, <2>4, <4>2
      <4> QED
        BY <1>4, <2>5, <3>2, <4>3
    <3>3. CASE rxReord = rxNext /\ gap = n
      BY <1>4, <2>5, <3>3
    <3>4. rxReord = rxNext \/ rxDeliv + n <= rxNext
      BY <1>3, Zenon
    <3> QED
      BY <2>5, <3>1, <3>2, <3>3, <3>4
  <2>7. ASSUME NEW j \in Pos, buffer'[j] # NoSdu
        PROVE  buffer'[j] = rxDeliv' + j /\ rxDeliv' + j < rxNext'
    <3>1. j \in Nat /\ ~(j >= WindowSize)
      BY <1>4
    <3>2. j < WindowSize - n /\ buffer'[j] = buffer[j + n] /\ j + n \in Pos
      BY <1>6, <2>7, <3>1
    <3>3. buffer[j + n] = rxDeliv + (j + n) /\ rxDeliv + (j + n) < rxNext
      BY <2>2, <2>7, <3>2
    <3> QED
      BY <1>4, <2>5, <3>1, <3>2, <3>3
  <2>8. rxDeliv' < rxNext => buffer'[rxNext - 1 - rxDeliv'] # NoSdu
    <3>1. SUFFICES ASSUME rxDeliv' < rxNext PROVE buffer'[rxNext - 1 - rxDeliv'] # NoSdu
      OBVIOUS
    <3> DEFINE j == rxNext - 1 - rxDeliv'
    <3>2. /\ j \in Pos /\ j < WindowSize - n /\ j + n = rxNext - 1 - rxDeliv
          /\ rxDeliv < rxNext
      BY <1>4, <1>9, <2>5, <3>1
    <3> HIDE DEF j
    <3>3. buffer'[j] = buffer[j + n]
      BY <1>6, <3>2
    <3>4. buffer[j + n] # NoSdu
      BY <2>2, <3>2
    <3> QED
      BY <3>3, <3>4 DEF j
  <2>9. InPlace'
    <3>1. timer' => buffer'[rxReord' - 1 - rxDeliv'] # NoSdu
      BY <1>10, <2>5, <2>8 DEF TimerInv
    <3>2. rxDeliv' <= rxNext' /\ (rxDeliv' < rxNext' => buffer'[rxNext' - 1 - rxDeliv'] # NoSdu)
      BY <2>5, <2>6, <2>8
    <3> QED
      BY <2>7, <3>1, <3>2 DEF InPlace
  <2>10. ASSUME NEW s \in passedUp' PROVE s < rxDeliv'
    <3>1. CASE s \in passedUp
      <4>1. s < rxDeliv /\ s \in Nat
        BY <1>1, <1>4, <2>1, <3>1, Types DEF Orderly, Below
      <4> QED
        BY <1>4, <1>9, <4>1
    <3>2. CASE s \in Removed(P)
      <4>1. PICK i \in P : s = rxDeliv + i
        BY <2>4, <3>2 DEF Removed, Taken
      <4>2. i \in Nat /\ i < n
        BY <2>4
      <4> QED
        BY <1>4, <2>5, <4>1, <4>2
    <3> QED
      BY <1>7, <3>1, <3>2
  <2>11. ASSUME NEW s \in 0 .. rxDeliv' - 1 PROVE s \in arrived' \cup skipped'
    <3>1. s \in Nat /\ s < rxDeliv + n
      BY <1>4, <1>9, <2>5, <2>11
    <3>2. CASE s < rxDeliv
      <4>1. s \in arrived \cup skipped
        BY <1>4, <2>1, <3>1, <3>2 DEF Orderly, Below
      <4> QED
        BY <1>3, <1>8, <4>1
    <3>3. CASE s >= rxDeliv /\ s - rxDeliv \in received
      <4>1. s - rxDeliv \in P /\ s = rxDeliv + (s - rxDeliv)
        BY <1>4, <2>5, <3>1, <3>3 DEF P
      <4>2. s \in Held
        BY <2>3, <2>4, <4>1 DEF Held
      <4> QED
        BY <1>1, <1>8, <4>2 DEF Accounts
    <3>4. CASE s >= rxDeliv /\ s - rxDeliv \notin received
      <4>1. s - rxDeliv \notin gap .. n - 1
        BY <1>3, <3>4
      <4>2. s < rxReord
        BY <1>4, <2>5, <3>1, <3>4, <4>1
      <4>3. s \in given
        BY <1>4, <3>1, <3>4, <4>2 DEF given
      <4> QED
        BY <1>3, <4>3
    <3> QED
      BY <1>4, <3>1, <3>2, <3>3, <3>4
  <2>12. Below'
    BY <2>10, <2>11 DEF Below
  <2> QED
    BY <2>9, <2>12 DEF Orderly
<1> QED
  BY <1>7, <1>10, <1>13, <1>14, <1>15, <1>16, <1>17 DEF IInv, General

LEMMA InitInv == ASSUME NrPdcpRxAssumption, Init PROVE IInv
<1>1. /\ rxNext = 0 /\ rxDeliv = 0 /\ rxReord = 0
      /\ buffer = [i \in Pos |-> NoSdu] /\ received = {} /\ timer = FALSE
      /\ passedUp = {} /\ disordered = {} /\ arrived = {} /\ late = {} /\ duplicates = {}
      /\ beyond = {} /\ skipped = {} /\ crossed = FALSE /\ jumped = FALSE
      /\ last = [l \in Legs |-> NoSdu] /\ err = "none"
  BY DEF Init
<1>2. WindowSize \in Nat \ {0} /\ MaxSdus \in Nat
  BY DEF NrPdcpRxAssumption
<1>3. TypeOK
  <2>1. rxNext \in 0 .. MaxSdus /\ rxDeliv \in Nat /\ rxReord \in Nat
    BY <1>1, <1>2
  <2>2. /\ buffer \in [Pos -> Sdu \cup {NoSdu}] /\ last \in [Legs -> Sdu \cup {NoSdu}]
        /\ received \subseteq Pos
    BY <1>1
  <2>3. {timer, crossed, jumped} \subseteq BOOLEAN
    BY <1>1
  <2>4. \A S \in {passedUp, disordered, arrived, late, duplicates, beyond, skipped} : S \subseteq Sdu
    BY <1>1
  <2> QED
    BY <1>1, <2>1, <2>2, <2>3, <2>4 DEF TypeOK
<1>4. Window
  BY <1>1, <1>2 DEF Window, Once
<1>5. TimerInv /\ NoError /\ Clean
  BY <1>1 DEF TimerInv, NoError, Clean, InOrderUnlessCrossed, DeletedForAReason
<1>6. Held = {} /\ Deleted = {}
  BY <1>1 DEF Held, Deleted
<1>7. Accounts
  BY <1>1, <1>6 DEF Accounts
<1>8. Orderly
  BY <1>1 DEF Orderly, InPlace, Below
<1> QED
  BY <1>3, <1>4, <1>5, <1>7, <1>8 DEF IInv, General

\* Every step keeps the invariant.
LEMMA Step ==
  ASSUME NrPdcpRxAssumption, IInv, [Next]_vars PROVE IInv'
<1>1. CASE ReorderingTimer
  BY <1>1, TimerStep
<1>2. ASSUME NEW sn \in Sdu, NEW leg \in Legs, HandlePdcpSdu(sn, leg) PROVE IInv'
  <2>1. CASE Discarded(sn)
    BY <1>2, <2>1, DiscardedSdu
  <2>2. CASE ~Discarded(sn) /\ sn # rxDeliv
    BY <1>2, <2>2, BufferedSdu
  <2>3. CASE ~Discarded(sn) /\ sn = rxDeliv
    BY <1>2, <2>3, DeliveredSdu
  <2> QED
    BY <2>1, <2>2, <2>3
<1>3. CASE UNCHANGED vars
  <2>1. /\ rxNext' = rxNext /\ rxDeliv' = rxDeliv /\ rxReord' = rxReord
        /\ buffer' = buffer /\ received' = received /\ timer' = timer
        /\ passedUp' = passedUp /\ disordered' = disordered /\ arrived' = arrived
        /\ late' = late /\ duplicates' = duplicates /\ beyond' = beyond
        /\ skipped' = skipped /\ crossed' = crossed /\ jumped' = jumped
        /\ last' = last /\ err' = err
    BY <1>3 DEF vars
  <2>2. Held' = Held /\ Deleted' = Deleted
    BY <2>1 DEF Held, Deleted
  <2>3. TypeOK' <=> TypeOK
    BY <2>1, Zenon DEF TypeOK
  <2>4. (Window' <=> Window) /\ (TimerInv' <=> TimerInv) /\ (Accounts' <=> Accounts)
    BY <2>1, <2>2, Zenon DEF Window, Once, TimerInv, Accounts
  <2>5. /\ NoError' <=> NoError
        /\ Clean' <=> Clean
        /\ Running' <=> Running
    BY <2>1 DEF NoError, Clean, InOrderUnlessCrossed, DeletedForAReason, Running
  <2>6. (InPlace' <=> InPlace) /\ (Below' <=> Below)
    BY <2>1, Zenon DEF InPlace, Below
  <2> QED
    BY <2>1, <2>3, <2>4, <2>5, <2>6 DEF IInv, General, Orderly
<1> QED
  BY <1>1, <1>2, <1>3 DEF Next

LEMMA Invariance == Spec => []IInv
<1>1. Init => IInv
  BY InitInv, NrPdcpRxAssumption
<1>2. IInv /\ [Next]_vars => IInv'
  BY Step, NrPdcpRxAssumption
<1> QED
  BY <1>1, <1>2, PTL DEF Spec
-----------------------------------------------------------------------------
(* What the invariant says                                                 *)

LEMMA NotEnded ==
  ASSUME IInv, ~crossed, ~jumped PROVE Running /\ Orderly
<1>1. err \in {"none", "addAt: position is taken", "check_and_cast: null",
               "received_.at: out of range"}
  BY DEF IInv, General, TypeOK
<1>2. NoError
  BY DEF IInv, General
<1>3. err = "none"
  BY <1>1, <1>2 DEF NoError
<1> QED
  BY <1>3 DEF IInv, Running

LEMMA InvAligned ==
  ASSUME NrPdcpRxAssumption, IInv, ~crossed, ~jumped PROVE Aligned
<1>1. \A i \in Pos : buffer[i] # NoSdu => buffer[i] = rxDeliv + i
  BY NotEnded DEF Orderly, InPlace
<1>2. /\ \A i \in Pos : buffer[i] # NoSdu => i \in received
      /\ \A i \in received : buffer[i] # NoSdu
  BY DEF IInv, General, Window
<1> QED
  BY <1>1, <1>2 DEF Aligned

\* An SDU that closes the first of several gaps leaves the last SDU of the window
\* where it is.
LEMMA CrossingMisplaces ==
  ASSUME NrPdcpRxAssumption, IInv, ~crossed, ~jumped, NEW sn \in Sdu, NEW leg \in Legs,
         HandlePdcpSdu(sn, leg), crossed'
  PROVE  ~Aligned'
<1>1. sn = rxDeliv /\ ~Discarded(rxDeliv)
  BY DEF HandlePdcpSdu, BufferSdu, IsNext
<1>2. TypeOK /\ Window /\ InPlace
  BY NotEnded DEF IInv, General, Orderly
<1>3. PICK m \in Nat, end \in Int : NextArrives(m, end)
  BY <1>1, <1>2, NextSdu DEF IInv, General
<1> DEFINE P == 1 .. m - 1
           M == received \ P
<1>4. /\ m \in 1 .. WindowSize /\ end = rxNext' - (rxDeliv + m)
      /\ rxNext' = IF rxDeliv >= rxNext THEN rxDeliv + 1 ELSE rxNext
      /\ rxDeliv' = rxDeliv + m /\ crossed' = (crossed \/ end > 0)
      /\ Moves(P, M, m, end)
  BY <1>3 DEF NextArrives
<1> HIDE DEF P, M
<1>5. /\ WindowSize \in Nat \ {0} /\ Pos = 0 .. WindowSize - 1
      /\ rxNext \in Nat /\ rxDeliv \in Nat /\ rxNext - rxDeliv <= WindowSize
  BY <1>2, Types DEF Window
<1>6. m \in Nat \ {0} /\ end > 0
  <2>1. end > 0
    BY <1>4, Zenon
  <2>2. m \in 1 .. WindowSize
    BY <1>4, Zenon
  <2> QED
    BY <1>5, <2>1, <2>2
<1> DEFINE j == rxNext - 1 - rxDeliv
<1>7. /\ j \in Pos /\ rxDeliv < rxNext /\ j >= m /\ j >= end /\ j = rxNext - 1 - rxDeliv
      /\ ~(j < end - m)
  BY <1>4, <1>5, <1>6
<1> HIDE DEF j
<1>8. \A i \in Pos : buffer'[i] = IF i < end - m THEN buffer[i + m]
                                  ELSE IF i >= end /\ i >= m THEN buffer[i] ELSE NoSdu
  BY <1>2, <1>4, WindowMoves
<1>9. buffer'[j] = buffer[j]
  BY <1>7, <1>8
<1>10. buffer[j] # NoSdu /\ buffer[j] = rxDeliv + j
  BY <1>2, <1>7 DEF InPlace
<1>11. rxDeliv + j # rxDeliv' + j
  BY <1>4, <1>5, <1>6, <1>7
<1> QED
  BY <1>7, <1>9, <1>10, <1>11 DEF Aligned

\* A jump beyond half of the window leaves the mark of the last SDU it passes.
LEMMA JumpMisplaces ==
  ASSUME NrPdcpRxAssumption, IInv, ~crossed, ~jumped, ReorderingTimer, jumped'
  PROVE  ~Aligned'
<1>1. TypeOK /\ Window /\ InPlace /\ timer
  BY NotEnded DEF IInv, General, Orderly, ReorderingTimer
<1>2. PICK gap \in Nat, n \in Nat : Expires(gap, n)
  BY TimerExpires
<1> DEFINE P == {i \in received : i < n}
           M == received
           end == WindowSize
<1>3. /\ gap = rxReord - rxDeliv /\ gap \in Nat \ {0}
      /\ n \in Nat \ {0} /\ gap <= n /\ n <= WindowSize
      /\ \A i \in gap .. n - 1 : i \in received
      /\ rxDeliv' = rxDeliv + n /\ jumped' = (jumped \/ 2 * n > WindowSize)
      /\ Moves(P, M, n, end)
  BY <1>2 DEF Expires
<1>4. M = received /\ end = WindowSize
  OBVIOUS
<1> HIDE DEF P, M, end
<1>5. /\ WindowSize \in Nat \ {0} /\ Pos = 0 .. WindowSize - 1 /\ NoSdu = -1
      /\ rxReord \in Nat /\ rxDeliv \in Nat
  BY <1>1, Types
<1>6. 2 * n > WindowSize
  BY <1>3
<1> DEFINE j == n - 1
<1>7. j \in Pos /\ j = n - 1 /\ ~(j < WindowSize - n) /\ ~(j >= WindowSize) /\ j < n /\ j \in Nat
  <2>1. n \in Nat \ {0} /\ n <= WindowSize
    BY <1>3, Zenon
  <2> QED
    BY <1>5, <1>6, <2>1
<1> HIDE DEF j
<1>8. j \in received
  <2>1. gap \in Nat \ {0} /\ n \in Nat \ {0} /\ gap <= n /\ gap = rxReord - rxDeliv
    BY <1>3, Zenon
  <2>2. CASE gap = n
    <3>1. rxReord - 1 - rxDeliv = j
      BY <1>5, <1>7, <2>1, <2>2
    <3>2. buffer[j] # NoSdu
      BY <1>1, <3>1 DEF InPlace
    <3> QED
      BY <1>1, <1>7, <3>2 DEF Window
  <2>3. CASE gap # n
    <3>1. j \in gap .. n - 1
      BY <1>7, <2>1, <2>3
    <3> QED
      BY <1>3, <3>1, Zenon
  <2> QED
    BY <2>2, <2>3
<1>9. /\ \A i \in Pos : buffer'[i] = IF i < end - n THEN buffer[i + n]
                                     ELSE IF i >= end /\ i >= n THEN buffer[i] ELSE NoSdu
      /\ \A i \in Pos : i \in received' <=>
           IF i < end - n THEN i + n \in M ELSE i \in M /\ (i < n \/ i >= end)
  BY <1>1, <1>3, WindowMoves
<1>10. j \in received' /\ buffer'[j] = NoSdu
  BY <1>4, <1>7, <1>8, <1>9
<1>11. rxDeliv' + j # NoSdu
  BY <1>3, <1>5, <1>7
<1> QED
  BY <1>7, <1>10, <1>11 DEF Aligned
-----------------------------------------------------------------------------
\* TypeOK holds in every state, whatever order the SDUs arrive in.
THEOREM TypeCorrect == Spec => []TypeOK
<1>1. IInv => TypeOK
  BY DEF IInv, General
<1> QED
  BY <1>1, Invariance, PTL

\* With any number of gaps and any legs, the upper layer never gets an SDU after
\* one with a higher number, unless an SDU has closed the first of several gaps:
\* the end of the loop of NrRxPdcpEntity.cc:107 is all that breaks the order.
THEOREM OrderRestored == Spec => []InOrderUnlessCrossed
<1>1. IInv => InOrderUnlessCrossed
  BY DEF IInv, Clean
<1> QED
  BY <1>1, Invariance, PTL

\* As long as neither inexact shift was taken, the SDU at position i is the one
\* that the code takes it for, and the mark there is its own.
THEOREM WindowIsAligned == Spec => [](crossed \/ jumped \/ Aligned)
<1>1. IInv => crossed \/ jumped \/ Aligned
  BY InvAligned, NrPdcpRxAssumption
<1> QED
  BY <1>1, Invariance, PTL

\* ... and each of the two, when it is the first, misplaces an SDU or a mark: an
\* SDU that closes the first of several gaps (line 107), an expiry of
\* t_reordering_ that moves the window by more than its half (line 179).
THEOREM InexactShiftMisplaces ==
  Spec => [][~crossed /\ ~jumped /\ (crossed' \/ jumped') => ~Aligned']_vars
<1> DEFINE A == ~crossed /\ ~jumped /\ (crossed' \/ jumped') => ~Aligned'
<1>1. IInv /\ [Next]_vars => [A]_vars
  <2>1. SUFFICES ASSUME IInv, [Next]_vars, ~crossed, ~jumped, crossed' \/ jumped',
                        ~(UNCHANGED vars)
                 PROVE  ~Aligned'
    OBVIOUS
  <2>2. CASE ReorderingTimer
    <3>1. jumped'
      BY <2>1, <2>2 DEF ReorderingTimer
    <3> QED
      BY <2>1, <2>2, <3>1, JumpMisplaces, NrPdcpRxAssumption
  <2>3. ASSUME NEW sn \in Sdu, NEW leg \in Legs, HandlePdcpSdu(sn, leg) PROVE ~Aligned'
    <3>1. crossed'
      BY <2>1, <2>3 DEF HandlePdcpSdu
    <3> QED
      BY <2>1, <2>3, <3>1, CrossingMisplaces, NrPdcpRxAssumption
  <2> QED
    BY <2>1, <2>2, <2>3 DEF Next
<1> QED
  BY <1>1, Invariance, PTL DEF Spec

\* As long as no gap was crossed, handlePdcpSdu deletes an SDU as too late only if
\* t_reordering_ gave up waiting for it; if the window was not moved by more than
\* its half either, it deletes none as already received.
THEOREM DeletionsJustified == Spec => []DeletedForAReason
<1>1. IInv => DeletedForAReason
  BY DEF IInv, Clean
<1> QED
  BY <1>1, Invariance, PTL

\* Every SDU that arrived is passed up, deleted or held, in one place only, and
\* t_reordering_ runs exactly while the window is behind (lines 129-146, 186-191).
\* Before a crossing, every held SDU is marked and below rxNext: the timer
\* reaches it.
THEOREM NothingIsStuck == Spec => []NothingStuck
<1>1. ASSUME IInv, NrPdcpRxAssumption PROVE NothingStuck
  <2>1. TypeOK /\ Window /\ TimerInv /\ Accounts
    BY <1>1 DEF IInv, General
  <2>2. ASSUME Running, ~crossed, NEW s \in Held
        PROVE  timer /\ s - rxDeliv \in received /\ s < rxNext
    <3>1. PICK i \in Pos : buffer[i] = s /\ s # NoSdu
      BY DEF Held
    <3>2. s = rxDeliv + i /\ s < rxNext
      BY <1>1, <2>2, <3>1 DEF IInv, Orderly, InPlace
    <3>3. i \in received
      BY <2>1, <3>1 DEF Window
    <3>4. rxDeliv \in Nat /\ rxNext \in Nat /\ i \in Nat
      BY <1>1, <2>1, Types DEF Pos
    <3>5. s - rxDeliv = i /\ rxDeliv < rxNext
      BY <3>2, <3>4
    <3> QED
      BY <2>1, <3>2, <3>3, <3>5 DEF TimerInv
  <2> QED
    BY <2>1, <2>2 DEF NothingStuck, Accounts, TimerInv
<1>2. IInv => NothingStuck
  BY <1>1, NrPdcpRxAssumption
<1> QED
  BY <1>2, Invariance, PTL

\* addAt never meets a taken position, whatever arrives; check_and_cast meets no
\* null SDU before a jump beyond half of the window, and no index leaves the
\* window before a jump or a crossing (lines 107-112, 160-181).
THEOREM NoException == Spec => []NoError
<1>1. IInv => NoError
  BY DEF IInv, General
<1> QED
  BY <1>1, Invariance, PTL
=============================================================================
