---------------------------- MODULE RlcUmProofs ----------------------------
(***************************************************************************)
(* What UmRxEntity passes up, for all sizes and windows: the SDUs in order, *)
(* exactly those that arrived whole, without an exception.                  *)
(*                                                                         *)
(* The SDUs of a bearer lie one behind the other, and so do its PDUs; the   *)
(* parts of an SDU are in consecutive PDUs (Log).  The receiving entity     *)
(* takes PDUs in that order, though not all of them, and what it has kept   *)
(* of an SDU is all that the PDUs so far have of it, if they all came.      *)
(***************************************************************************)
EXTENDS RlcUm, NaturalsInduction, WellFoundedInduction, TLAPS

\* Hypothesis: the notifications of a mode switch go to the bearer they are
\* about.  The entity of another forgets its numbers, and its sender does not.
RightBearer == "uplink" \notin Bearers
-----------------------------------------------------------------------------
(* The PDUs made                                                            *)

FirstSdu(p) == p.parts[1].sdu
LastSdu(p)  == p.parts[Len(p.parts)].sdu

\* Where in its SDU the part i ends.
End(p, i) == (IF i = 1 THEN p.offset ELSE 0) + p.parts[i].size
Ending(p) == End(p, Len(p.parts))

Part == [sdu : Nat, size : Nat \ {0}]
PduType ==
  [ sno : Nat, id : Nat, parts : Seq(Part), offset : Nat,
    firstIsFragment : BOOLEAN, lastIsFragment : BOOLEAN ]

\* The parts of a PDU: all but the first and the last are whole SDUs.
Shape(p, z) ==
  /\ p.parts # <<>> /\ \A i \in DOMAIN p.parts : p.parts[i].sdu \in DOMAIN z
  /\ ~p.firstIsFragment => p.offset = 0
  /\ \A i, j \in DOMAIN p.parts : i < j => p.parts[i].sdu < p.parts[j].sdu
  /\ \A i \in DOMAIN p.parts :
       IF i = Len(p.parts) /\ p.lastIsFragment THEN End(p, i) < z[p.parts[i].sdu]
       ELSE End(p, i) = z[p.parts[i].sdu]

\* n continues the SDU that m ends with.
Chained(p, q) ==
  /\ q.firstIsFragment /\ p.lastIsFragment /\ q.sno = p.sno + (q.id - p.id)
  /\ q.id = p.id + 1 => q.offset = Ending(p)

Log(L, z) ==
  /\ z \in Seq(Nat \ {0}) /\ L \in Seq(PduType)
  /\ \A n \in DOMAIN L : L[n].id = n /\ Shape(L[n], z)
  /\ \A m, n \in DOMAIN L : m < n => LastSdu(L[m]) <= FirstSdu(L[n])
  /\ \A m, n \in DOMAIN L : m < n /\ LastSdu(L[m]) = FirstSdu(L[n]) => Chained(L[m], L[n])
  /\ \A n \in DOMAIN L : L[n].firstIsFragment => n > 1 /\ LastSdu(L[n - 1]) = FirstSdu(L[n])

Has(p, s) == \E i \in DOMAIN p.parts : p.parts[i].sdu = s
Ended(L, z, s) ==
  \E n \in DOMAIN L : \E i \in DOMAIN L[n].parts :
    L[n].parts[i].sdu = s /\ End(L[n], i) = z[s]
-----------------------------------------------------------------------------
(* The sender                                                               *)

TxOk(t, L, z) ==
  /\ DOMAIN t = {"queue", "fragment", "sno", "sent"}
  /\ t.queue \in Seq(DOMAIN z) /\ t.fragment \in Nat /\ t.sno \in 0 .. Len(L)
  /\ \A i, j \in DOMAIN t.queue : i < j => t.queue[i] < t.queue[j]
  /\ \A n \in DOMAIN L, j \in DOMAIN t.queue :
       /\ LastSdu(L[n]) <= t.queue[j]
       /\ LastSdu(L[n]) = t.queue[j] =>
            j = 1 /\ t.fragment > 0 /\ L[n].lastIsFragment /\ t.sno = L[n].sno + (Len(L) + 1 - n)
  /\ t.fragment > 0 => /\ t.queue # <<>> /\ L # <<>>
                       /\ LastSdu(L[Len(L)]) = t.queue[1]
                       /\ Ending(L[Len(L)]) + t.fragment = z[t.queue[1]]
  /\ t.sent \subseteq DOMAIN z /\ \A s \in DOMAIN z : s \in t.sent <=> Ended(L, z, s)

\* A PDU of the current mode has the number sno and the place sno + Epoch.
Epoch(t, L) == Len(L) + 1 - t.sno
-----------------------------------------------------------------------------
(* The receiver                                                             *)

\* b was the last PDU taken, and of the SDU it begins or continues all PDUs
\* up to b were.
Kept(D, L, b) ==
  /\ b \in D /\ \A d \in D : d <= b
  /\ L[b].lastIsFragment
  /\ \A m \in 1 .. b : Has(L[m], LastSdu(L[b])) => m \in D

Tail_(p) == [sdu |-> LastSdu(p), size |-> Ending(p), sno |-> p.sno]

\* What was passed up, and what is kept, for the PDUs taken.
Content(r, L, z) ==
  /\ r.done \subseteq DOMAIN L /\ r.passedUp \in Seq(Nat) /\ r.err = FALSE
  /\ \A i, j \in DOMAIN r.passedUp : i < j => r.passedUp[i] < r.passedUp[j]
  /\ \A i \in DOMAIN r.passedUp : r.passedUp[i] \in DOMAIN z
  /\ \A s \in DOMAIN z :
       (\E i \in DOMAIN r.passedUp : r.passedUp[i] = s)
         <=> Ended(L, z, s) /\ \A n \in DOMAIN L : Has(L[n], s) => n \in r.done
  /\ r.buffered = Nothing \/ \E b \in DOMAIN L : Kept(r.done, L, b) /\ r.buffered = Tail_(L[b])

\* What is kept of an SDU of the current mode is not forgotten.
Joined(r, L, c) ==
  \A b \in DOMAIN L : Kept(r.done, L, b) /\ b >= c => r.buffered = Tail_(L[b]) /\ ~r.resetFlag

Window(r) ==
  /\ {r.firstSno, r.firstSnoForReordering, r.highestReceivedSno, r.reorderingSno} \subseteq Nat
  /\ r.firstSno <= r.firstSnoForReordering
  /\ r.firstSnoForReordering <= r.highestReceivedSno
  /\ r.reorderingSno <= r.highestReceivedSno
  /\ r.highestReceivedSno <= r.firstSno + RxWindowSize
  /\ r.windowSize \in 1 .. RxWindowSize
  /\ \A i \in DOMAIN r.store : /\ i \in Nat
                               /\ r.firstSnoForReordering <= r.firstSno + i
                               /\ r.firstSno + i < r.highestReceivedSno

\* What is stored is at its place, and comes after all that was taken.
Stored(r, L, c) ==
  /\ \A i \in DOMAIN r.store :
       LET n == r.firstSno + i + c IN
       n \in DOMAIN L /\ r.store[i] = L[n] /\ L[n].sno = r.firstSno + i /\ \A d \in r.done : d < n
  /\ \A d \in r.done : d < r.firstSnoForReordering + c

Known(p, L, c) == p.id \in DOMAIN L /\ p = L[p.id] /\ p.id = p.sno + c

IInv ==
  /\ bearer \in Bearers
  /\ Log(pdus, size) /\ TxOk(tx, pdus, size)
  /\ DOMAIN rx = DOMAIN RxReset(0) /\ Window(rx) /\ Content(rx, pdus, size)
  /\ bearer = "multicast" /\ ~rx.init => DOMAIN rx.store = {} /\ rx.done = {}
  /\ inUse => /\ Stored(rx, pdus, Epoch(tx, pdus)) /\ Joined(rx, pdus, Epoch(tx, pdus))
              /\ \A p \in air : Known(p, pdus, Epoch(tx, pdus))
  /\ ~inUse => /\ bearer = "direct" /\ air = {} /\ DOMAIN rx.store = {} /\ ~rx.timer
               /\ tx.queue = <<>> /\ tx.fragment = 0

-----------------------------------------------------------------------------
(* Numbers, and sums over a queue                                           *)

LEMMA LeastNumber ==
  ASSUME NEW S \in SUBSET Nat, S # {}
  PROVE  \E n \in S : \A k \in S : n <= k
<1>1. PICK n \in S : \A k \in S : ~(<<k, n>> \in OpToRel(<, Nat))
  BY NatLessThanWellFounded, WFMin
<1>2. \A k \in S : ~(k < n)
  BY <1>1 DEF OpToRel
<1> QED BY <1>2

LEMMA MinOf ==
  ASSUME NEW S \in SUBSET Nat, S # {}
  PROVE  Min(S) \in S /\ \A k \in S : Min(S) <= k
BY LeastNumber DEF Min

LEMMA MaxOf ==
  ASSUME NEW n \in Nat, NEW S \in SUBSET (0 .. n), S # {}
  PROVE  Max(S) \in S /\ \A k \in S : k <= Max(S)
<1> DEFINE U == {m \in Nat : \A k \in S : k <= m}
<1>1. n \in U /\ U \in SUBSET Nat
  OBVIOUS
<1>2. PICK m \in U : \A k \in U : m <= k
  BY <1>1, LeastNumber
<1>3. m \in S
  <2> SUFFICES ASSUME m \notin S PROVE FALSE
    OBVIOUS
  <2>1. m \in Nat /\ \A k \in S : k \in Nat /\ k < m
    BY <1>2
  <2> PICK x \in S : TRUE
    OBVIOUS
  <2>2. m - 1 \in Nat /\ \A k \in S : k <= m - 1
    BY <2>1
  <2>3. m - 1 \in U
    BY <2>2
  <2>4. m <= m - 1
    BY <1>2, <2>3
  <2> QED BY <2>1, <2>4
<1>4. \E x \in S : \A y \in S : x >= y
  BY <1>2, <1>3
<1>5. Max(S) \in S /\ \A y \in S : Max(S) >= y
  BY <1>4 DEF Max
<1> QED BY <1>5

\* LeftOf adds up the SDUs one by one.
LEMMA LeftOfSteps ==
  ASSUME NEW t, NEW n \in Nat, Len(t.queue) = n
  PROVE  /\ LeftOf(t, 0) = 0
         /\ \A k \in 1 .. n : LeftOf(t, k) = LeftOf(t, k - 1) + Left(t, k)
<1> DEFINE Is(f, m) == f = [i \in 0 .. m |-> IF i = 0 THEN 0 ELSE f[i - 1] + Left(t, i)]
<1>1. \E f : Is(f, 0)
  <2> DEFINE f == [i \in 0 .. 0 |-> 0]
  <2>1. Is(f, 0)
    OBVIOUS
  <2> QED BY <2>1
<1>2. ASSUME NEW m \in Nat, m # 0, \E g : Is(g, m - 1) PROVE \E f : Is(f, m)
  <2>1. PICK g : Is(g, m - 1)
    BY <1>2
  <2> DEFINE f == [i \in 0 .. m |-> IF i = m THEN g[m - 1] + Left(t, m) ELSE g[i]]
  <2>2. \A i \in 0 .. m : f[i] = IF i = 0 THEN 0 ELSE f[i - 1] + Left(t, i)
    BY <1>2, <2>1
  <2>3. Is(f, m)
    BY <2>2
  <2> QED BY <2>3
<1>3. \E f : Is(f, n)
  <2> HIDE DEF Is
  <2> DEFINE B == {m \in Nat : ~ \E f : Is(f, m)}
  <2>1. B = {}
    <3> SUFFICES ASSUME B # {} PROVE FALSE
      OBVIOUS
    <3>1. PICK m \in B : \A k \in B : m <= k
      BY LeastNumber
    <3>2. m \in Nat /\ ~ \E f : Is(f, m)
      BY <3>1
    <3>3. m # 0
      BY <3>2, <1>1
    <3>4. m - 1 \in Nat /\ m - 1 \notin B
      BY <3>1, <3>2, <3>3
    <3> QED BY <3>2, <3>3, <3>4, <1>2
  <2> QED BY <2>1
<1> DEFINE sum == CHOOSE f : Is(f, n)
<1>4. Is(sum, n)
  BY <1>3
<1>5. \A k : LeftOf(t, k) = sum[k]
  BY DEF LeftOf
<1>6. \A i \in 0 .. n : sum[i] = IF i = 0 THEN 0 ELSE sum[i - 1] + Left(t, i)
  BY <1>4
<1> QED BY <1>5, <1>6

-----------------------------------------------------------------------------
(* The PDU that rlcPduMake cuts from the queue                              *)

LEMMA EndingPositive ==
  ASSUME NEW p \in PduType, p.parts # <<>>
  PROVE  /\ Len(p.parts) \in Nat \ {0} /\ Len(p.parts) \in DOMAIN p.parts /\ 1 \in DOMAIN p.parts
         /\ Ending(p) \in Nat \ {0}
<1>1. p.parts \in Seq(Part) /\ p.offset \in Nat
  BY DEF PduType
<1>2. Len(p.parts) \in Nat \ {0} /\ DOMAIN p.parts = 1 .. Len(p.parts)
  BY <1>1
<1>3. p.parts[Len(p.parts)] \in Part
  BY <1>1, <1>2
<1> QED BY <1>1, <1>2, <1>3 DEF Ending, End, Part

LEMMA LeftTypes ==
  ASSUME Log(pdus, size), TxOk(tx, pdus, size)
  PROVE  /\ Len(tx.queue) \in Nat /\ DOMAIN tx.queue = 1 .. Len(tx.queue)
         /\ \A i \in 1 .. Len(tx.queue) :
              /\ tx.queue[i] \in DOMAIN size /\ tx.queue[i] \in Nat /\ size[tx.queue[i]] \in Nat \ {0}
              /\ Left(tx, i) \in Nat \ {0}
              /\ (IF i = 1 THEN Offset(tx) ELSE 0) + Left(tx, i) = size[tx.queue[i]]
         /\ Offset(tx) \in Nat /\ (tx.fragment = 0 => Offset(tx) = 0)
<1>1. /\ size \in Seq(Nat \ {0}) /\ pdus \in Seq(PduType)
      /\ \A n \in DOMAIN pdus : pdus[n].parts # <<>>
  BY DEF Log, Shape
<1>2. DOMAIN size = 1 .. Len(size) /\ Len(size) \in Nat
  BY <1>1
<1>3. tx.queue \in Seq(DOMAIN size) /\ tx.fragment \in Nat
  BY DEF TxOk
<1>4. Len(tx.queue) \in Nat /\ DOMAIN tx.queue = 1 .. Len(tx.queue)
  BY <1>3
<1>5. \A i \in 1 .. Len(tx.queue) : /\ tx.queue[i] \in DOMAIN size /\ tx.queue[i] \in Nat
                                    /\ size[tx.queue[i]] \in Nat \ {0}
  BY <1>1, <1>2, <1>3, <1>4
<1>6. tx.fragment > 0 => 1 \in 1 .. Len(tx.queue) /\ size[tx.queue[1]] - tx.fragment \in Nat
  <2> SUFFICES ASSUME tx.fragment > 0
               PROVE  1 \in 1 .. Len(tx.queue) /\ size[tx.queue[1]] - tx.fragment \in Nat
    OBVIOUS
  <2>1. /\ tx.queue # <<>> /\ pdus # <<>>
        /\ Ending(pdus[Len(pdus)]) + tx.fragment = size[tx.queue[1]]
    BY DEF TxOk
  <2>2. Len(pdus) \in DOMAIN pdus /\ pdus[Len(pdus)] \in PduType
    BY <1>1, <2>1
  <2>3. Ending(pdus[Len(pdus)]) \in Nat \ {0}
    BY <1>1, <2>2, EndingPositive
  <2>4. 1 \in 1 .. Len(tx.queue)
    BY <1>3, <1>4, <2>1
  <2> QED BY <1>3, <1>5, <2>1, <2>3, <2>4
<1> QED BY <1>3, <1>4, <1>5, <1>6 DEF Left, Offset

LEMMA Cut ==
  ASSUME Log(pdus, size), TxOk(tx, pdus, size), tx.queue # <<>>, NEW payload \in Nat \ {0}
  PROVE  /\ Whole(tx, payload) \in 0 .. Len(tx.queue)
         /\ Rest(tx, payload) \in Nat
         /\ Rest(tx, payload) > 0 => /\ Whole(tx, payload) < Len(tx.queue)
                                     /\ Rest(tx, payload) < Left(tx, Whole(tx, payload) + 1)
         /\ Whole(tx, payload) = 0 => Rest(tx, payload) > 0
<1> DEFINE n == Len(tx.queue)
           S == {k \in 0 .. n : LeftOf(tx, k) <= payload}
           k == Whole(tx, payload)
<1>1. n \in Nat \ {0} /\ \A i \in 1 .. n : Left(tx, i) \in Nat \ {0}
  <2>1. n # 0
    BY DEF TxOk
  <2> QED BY <2>1, LeftTypes
<1>2. LeftOf(tx, 0) = 0 /\ \A i \in 1 .. n : LeftOf(tx, i) = LeftOf(tx, i - 1) + Left(tx, i)
  BY <1>1, LeftOfSteps
<1>3. \A i \in 0 .. n : LeftOf(tx, i) \in Nat
  <2> DEFINE B == {i \in Nat : i <= n /\ LeftOf(tx, i) \notin Nat}
  <2>1. B = {}
    <3> SUFFICES ASSUME B # {} PROVE FALSE
      OBVIOUS
    <3>1. PICK i \in B : \A j \in B : i <= j
      BY LeastNumber
    <3>2. i # 0
      BY <3>1, <1>2
    <3>3. i - 1 \in Nat /\ i - 1 \notin B /\ i \in 1 .. n
      BY <3>1, <3>2, <1>1
    <3>4. LeftOf(tx, i - 1) \in Nat
      BY <3>3, <1>1
    <3> QED BY <3>1, <3>3, <3>4, <1>1, <1>2
  <2> QED BY <2>1
<1>4. k = Max(S)
  BY DEF Whole
<1>5. S \in SUBSET (0 .. n) /\ 0 \in S
  BY <1>1, <1>2
<1>6. k \in S /\ \A j \in S : j <= k
  BY <1>1, <1>4, <1>5, MaxOf
<1>7. k < n => /\ k + 1 \in 1 .. n /\ LeftOf(tx, k + 1) > payload
               /\ LeftOf(tx, k + 1) = LeftOf(tx, k) + Left(tx, k + 1)
  <2> SUFFICES ASSUME k < n PROVE /\ k + 1 \in 1 .. n /\ LeftOf(tx, k + 1) > payload
                                  /\ LeftOf(tx, k + 1) = LeftOf(tx, k) + Left(tx, k + 1)
    OBVIOUS
  <2>1. k \in 0 .. n /\ k + 1 \in 1 .. n /\ (k + 1) - 1 = k
    BY <1>1, <1>6
  <2>2. k + 1 \notin S
    BY <1>6, <2>1
  <2> QED BY <1>2, <1>3, <2>1, <2>2
<1>8. k \in 0 .. n /\ LeftOf(tx, k) <= payload /\ LeftOf(tx, k) \in Nat
  BY <1>6, <1>3
<1>9. k < n => Left(tx, k + 1) \in Nat
  BY <1>1, <1>7
<1> HIDE DEF k, S, n
<1>10. Rest(tx, payload) = IF k < n THEN payload - LeftOf(tx, k) ELSE 0
  BY DEF Rest, k, n
<1>11. k = 0 => LeftOf(tx, k) = 0
  BY <1>2
<1> QED BY <1>1, <1>7, <1>8, <1>9, <1>10, <1>11 DEF k, n

LEMMA Concatenation ==
  ASSUME NEW S, NEW a \in Seq(S), NEW b \in Seq(S)
  PROVE  /\ a \o b \in Seq(S) /\ Len(a \o b) = Len(a) + Len(b)
         /\ \A i \in 1 .. Len(a) : (a \o b)[i] = a[i]
         /\ \A i \in 1 .. Len(b) : (a \o b)[Len(a) + i] = b[i]
OBVIOUS

\* Its parts, in the order of the queue; the last may be the beginning of an SDU.
LEMMA PartsCut ==
  ASSUME Log(pdus, size), TxOk(tx, pdus, size), tx.queue # <<>>, NEW payload \in Nat \ {0},
         NEW k, k = Whole(tx, payload), NEW rest, rest = Rest(tx, payload)
  PROVE  /\ Parts(tx, payload) \in Seq(Part)
         /\ Len(Parts(tx, payload)) = (IF rest > 0 THEN k + 1 ELSE k)
         /\ Len(Parts(tx, payload)) \in 1 .. Len(tx.queue)
         /\ \A i \in 1 .. k : Parts(tx, payload)[i] = [sdu |-> tx.queue[i], size |-> Left(tx, i)]
         /\ rest > 0 => Parts(tx, payload)[k + 1] = [sdu |-> tx.queue[k + 1], size |-> rest]
<1> DEFINE n == Len(tx.queue)
           a == [i \in 1 .. k |-> [sdu |-> tx.queue[i], size |-> Left(tx, i)]]
           b == IF rest = 0 THEN <<>> ELSE <<[sdu |-> tx.queue[k + 1], size |-> rest]>>
<1>1. /\ n \in Nat /\ k \in 0 .. n /\ rest \in Nat
      /\ rest > 0 => k < n
      /\ k = 0 => rest > 0
  BY Cut, LeftTypes
<1>2. \A i \in 1 .. n : tx.queue[i] \in Nat /\ Left(tx, i) \in Nat \ {0}
  BY LeftTypes
<1>3. Parts(tx, payload) = a \o b
  BY DEF Parts
<1>4. a \in Seq(Part) /\ Len(a) = k
  <2>1. \A i \in 1 .. k : [sdu |-> tx.queue[i], size |-> Left(tx, i)] \in Part
    BY <1>1, <1>2 DEF Part
  <2> QED BY <1>1, <2>1
<1>5. b \in Seq(Part) /\ Len(b) = IF rest > 0 THEN 1 ELSE 0
  <2>1. CASE rest = 0
    BY <2>1
  <2>2. CASE rest > 0
    <3>1. k + 1 \in 1 .. n
      BY <1>1, <2>2
    <3>2. [sdu |-> tx.queue[k + 1], size |-> rest] \in Part
      BY <1>1, <1>2, <2>2, <3>1 DEF Part
    <3> QED BY <2>2, <3>2
  <2> QED BY <1>1, <2>1, <2>2
<1>6. rest > 0 => b[1] = [sdu |-> tx.queue[k + 1], size |-> rest]
  BY <1>1
<1>7. \A i \in 1 .. k : a[i] = [sdu |-> tx.queue[i], size |-> Left(tx, i)]
  OBVIOUS
<1> HIDE DEF a, b, n
<1>8. /\ a \o b \in Seq(Part) /\ Len(a \o b) = k + Len(b)
      /\ \A i \in 1 .. k : (a \o b)[i] = a[i]
      /\ \A i \in 1 .. Len(b) : (a \o b)[k + i] = b[i]
  <2>1. /\ a \o b \in Seq(Part) /\ Len(a \o b) = Len(a) + Len(b)
        /\ \A i \in 1 .. Len(a) : (a \o b)[i] = a[i]
        /\ \A i \in 1 .. Len(b) : (a \o b)[Len(a) + i] = b[i]
    <3>1. a \in Seq(Part) /\ b \in Seq(Part)
      BY <1>4, <1>5
    <3> QED BY <3>1, Concatenation
  <2> QED BY <1>4, <2>1
<1>9. rest > 0 => (a \o b)[k + 1] = b[1]
  BY <1>1, <1>5, <1>8
<1>10. Len(a \o b) = (IF rest > 0 THEN k + 1 ELSE k) /\ Len(a \o b) \in 1 .. n
  BY <1>1, <1>5, <1>8
<1> QED BY <1>3, <1>6, <1>7, <1>8, <1>9, <1>10 DEF n

LEMMA PduMade ==
  ASSUME Log(pdus, size), TxOk(tx, pdus, size), tx.queue # <<>>, NEW payload \in Nat \ {0},
         NEW p, p = Pdu(tx, payload)
  PROVE  /\ p \in PduType /\ Shape(p, size) /\ p.id = Len(pdus) + 1 /\ p.sno = tx.sno
         /\ p.offset = Offset(tx) /\ (p.firstIsFragment <=> tx.fragment > 0)
         /\ (p.lastIsFragment <=> Rest(tx, payload) > 0)
         /\ Len(p.parts) = IF p.lastIsFragment THEN Whole(tx, payload) + 1 ELSE Whole(tx, payload)
         /\ Len(p.parts) \in 1 .. Len(tx.queue) /\ DOMAIN p.parts = 1 .. Len(p.parts)
         /\ \A i \in DOMAIN p.parts : p.parts[i].sdu = tx.queue[i]
         /\ p.lastIsFragment =>
              /\ AfterPdu(tx, payload).fragment \in Nat \ {0}
              /\ Ending(p) + AfterPdu(tx, payload).fragment = size[LastSdu(p)]
<1> DEFINE k == Whole(tx, payload)
           rest == Rest(tx, payload)
           n == Len(tx.queue)
<1>1. /\ p.sno = tx.sno /\ p.id = Len(pdus) + 1 /\ p.parts = Parts(tx, payload)
      /\ p.offset = Offset(tx) /\ (p.firstIsFragment <=> tx.fragment > 0)
      /\ (p.lastIsFragment <=> rest > 0)
      /\ p = [sno |-> p.sno, id |-> p.id, parts |-> p.parts, offset |-> p.offset,
              firstIsFragment |-> p.firstIsFragment, lastIsFragment |-> p.lastIsFragment]
  BY DEF Pdu
<1>2. /\ n \in Nat /\ k \in 0 .. n /\ rest \in Nat
      /\ rest > 0 => k < n /\ rest < Left(tx, k + 1)
      /\ k = 0 => rest > 0
  BY Cut, LeftTypes
<1>3. /\ p.parts \in Seq(Part) /\ Len(p.parts) = (IF rest > 0 THEN k + 1 ELSE k)
      /\ Len(p.parts) \in 1 .. n
      /\ \A i \in 1 .. k : p.parts[i] = [sdu |-> tx.queue[i], size |-> Left(tx, i)]
      /\ rest > 0 => p.parts[k + 1] = [sdu |-> tx.queue[k + 1], size |-> rest]
  BY <1>1, PartsCut
<1>4. DOMAIN p.parts = 1 .. Len(p.parts)
  BY <1>3
<1> HIDE DEF k, rest, n
<1>5. \A i \in DOMAIN p.parts : i \in 1 .. k \/ (rest > 0 /\ i = k + 1)
  BY <1>2, <1>3, <1>4
<1>a. \A i \in 1 .. k : p.parts[i].sdu = tx.queue[i] /\ p.parts[i].size = Left(tx, i)
  <2> SUFFICES ASSUME NEW i \in 1 .. k
               PROVE  p.parts[i].sdu = tx.queue[i] /\ p.parts[i].size = Left(tx, i)
    OBVIOUS
  <2>1. p.parts[i] = [sdu |-> tx.queue[i], size |-> Left(tx, i)]
    BY <1>3
  <2> QED BY <2>1
<1>b. rest > 0 => p.parts[k + 1].sdu = tx.queue[k + 1] /\ p.parts[k + 1].size = rest
  BY <1>3
<1>6. \A i \in DOMAIN p.parts : p.parts[i].sdu = tx.queue[i]
  BY <1>a, <1>b, <1>5
<1>7. p \in PduType
  <2>1. tx.sno \in Nat /\ tx.fragment \in Nat /\ Len(pdus) \in Nat /\ Offset(tx) \in Nat
    <3>1. pdus \in Seq(PduType)
      BY DEF Log
    <3>2. Len(pdus) \in Nat /\ tx.sno \in 0 .. Len(pdus) /\ tx.fragment \in Nat
      BY <3>1 DEF TxOk
    <3> QED BY <3>2, LeftTypes
  <2>2. /\ p.sno \in Nat /\ p.id \in Nat /\ p.parts \in Seq(Part) /\ p.offset \in Nat
    BY <1>1, <1>2, <1>3, <2>1
  <2>3. p.firstIsFragment \in BOOLEAN /\ p.lastIsFragment \in BOOLEAN
    BY DEF Pdu
  <2> QED BY <1>1, <2>2, <2>3 DEF PduType
<1>8. /\ \A i \in 1 .. n : /\ tx.queue[i] \in DOMAIN size /\ tx.queue[i] \in Nat
                           /\ size[tx.queue[i]] \in Nat \ {0} /\ Left(tx, i) \in Nat \ {0}
                           /\ (IF i = 1 THEN Offset(tx) ELSE 0) + Left(tx, i) = size[tx.queue[i]]
      /\ Offset(tx) \in Nat /\ (tx.fragment = 0 => Offset(tx) = 0)
  BY LeftTypes DEF n
<1>9. \A i \in 1 .. k : End(p, i) = size[p.parts[i].sdu]
  <2> SUFFICES ASSUME NEW i \in 1 .. k PROVE End(p, i) = size[p.parts[i].sdu]
    OBVIOUS
  <2>1. i \in 1 .. n
    BY <1>2
  <2>2. End(p, i) = (IF i = 1 THEN Offset(tx) ELSE 0) + Left(tx, i)
    BY <1>1, <1>a DEF End
  <2> QED BY <1>a, <1>8, <2>1, <2>2
<1>10. rest > 0 => /\ End(p, k + 1) < size[p.parts[k + 1].sdu] /\ k + 1 = Len(p.parts)
                   /\ End(p, k + 1) + (Left(tx, k + 1) - rest) = size[p.parts[k + 1].sdu]
                   /\ Left(tx, k + 1) - rest \in Nat \ {0}
  <2> SUFFICES ASSUME rest > 0
               PROVE  /\ End(p, k + 1) < size[p.parts[k + 1].sdu] /\ k + 1 = Len(p.parts)
                      /\ End(p, k + 1) + (Left(tx, k + 1) - rest) = size[p.parts[k + 1].sdu]
                      /\ Left(tx, k + 1) - rest \in Nat \ {0}
    OBVIOUS
  <2>1. k + 1 \in 1 .. n /\ rest < Left(tx, k + 1) /\ rest \in Nat
    BY <1>2
  <2>2. p.parts[k + 1].sdu = tx.queue[k + 1] /\ p.parts[k + 1].size = rest
    BY <1>3
  <2> QED BY <1>1, <1>3, <1>8, <2>1, <2>2 DEF End
<1>11. Shape(p, size)
  <2>1. p.parts # <<>>
    BY <1>3
  <2>2. \A i \in DOMAIN p.parts : i \in 1 .. n
    BY <1>2, <1>3, <1>4
  <2>3. \A i, j \in DOMAIN p.parts : i < j => p.parts[i].sdu < p.parts[j].sdu
    <3>1. \A i, j \in DOMAIN tx.queue : i < j => tx.queue[i] < tx.queue[j]
      BY DEF TxOk
    <3>2. DOMAIN tx.queue = 1 .. n
      BY LeftTypes DEF n
    <3> QED BY <1>6, <2>2, <3>1, <3>2
  <2>4. \A i \in DOMAIN p.parts : IF i = Len(p.parts) /\ p.lastIsFragment
                                  THEN End(p, i) < size[p.parts[i].sdu]
                                  ELSE End(p, i) = size[p.parts[i].sdu]
    BY <1>1, <1>2, <1>3, <1>5, <1>9, <1>10
  <2>5. ~p.firstIsFragment => p.offset = 0
    <3>1. tx.fragment \in Nat
      BY DEF TxOk
    <3>2. ~p.firstIsFragment => ~(tx.fragment > 0)
      BY <1>1, Zenon
    <3> QED BY <1>1, <1>8, <3>1, <3>2
  <2> QED BY <1>6, <1>8, <2>1, <2>2, <2>3, <2>4, <2>5 DEF Shape
<1>12. p.lastIsFragment =>
         /\ AfterPdu(tx, payload).fragment \in Nat \ {0}
         /\ Ending(p) + AfterPdu(tx, payload).fragment = size[LastSdu(p)]
  <2>1. rest > 0 => AfterPdu(tx, payload).fragment = Left(tx, k + 1) - rest
    BY DEF AfterPdu, TxOk, k, rest
  <2> QED BY <1>1, <1>10, <2>1 DEF Ending, LastSdu
<1> QED BY <1>1, <1>2, <1>3, <1>4, <1>6, <1>7, <1>11, <1>12 DEF k, rest, n

LEMMA Appended ==
  ASSUME NEW S, NEW L \in Seq(S), NEW p \in S
  PROVE  /\ Append(L, p) \in Seq(S) /\ Len(Append(L, p)) = Len(L) + 1 /\ Len(L) \in Nat
         /\ DOMAIN L = 1 .. Len(L) /\ DOMAIN Append(L, p) = 1 .. Len(L) + 1
         /\ \A n \in 1 .. Len(L) : Append(L, p)[n] = L[n]
         /\ Append(L, p)[Len(L) + 1] = p
OBVIOUS

\* The record of the PDUs made goes on as it was.
LEMMA LogGrows ==
  ASSUME Log(pdus, size), TxOk(tx, pdus, size), tx.queue # <<>>, NEW payload \in Nat \ {0},
         NEW p, p = Pdu(tx, payload)
  PROVE  Log(Append(pdus, p), size)
<1> DEFINE L == Append(pdus, p)
           n == Len(pdus) + 1
<1>1. /\ p \in PduType /\ Shape(p, size) /\ p.id = n /\ p.sno = tx.sno
      /\ p.offset = Offset(tx) /\ (p.firstIsFragment <=> tx.fragment > 0)
      /\ Len(p.parts) \in 1 .. Len(tx.queue) /\ DOMAIN p.parts = 1 .. Len(p.parts)
      /\ \A i \in DOMAIN p.parts : p.parts[i].sdu = tx.queue[i]
  BY PduMade
<1>2. pdus \in Seq(PduType) /\ size \in Seq(Nat \ {0})
  BY DEF Log
<1>3. /\ L \in Seq(PduType) /\ Len(pdus) \in Nat /\ DOMAIN pdus = 1 .. Len(pdus)
      /\ DOMAIN L = 1 .. n /\ L[n] = p /\ \A m \in 1 .. Len(pdus) : L[m] = pdus[m]
  BY <1>1, <1>2, Appended
<1>4. Len(tx.queue) \in Nat \ {0} /\ 1 \in DOMAIN tx.queue /\ 1 \in DOMAIN p.parts
  BY <1>1, LeftTypes
<1>5. FirstSdu(p) = tx.queue[1]
  BY <1>1, <1>4 DEF FirstSdu
<1> HIDE DEF L
<1>6. \A m \in 1 .. Len(pdus) : pdus[m].id = m /\ Shape(pdus[m], size)
  BY <1>3 DEF Log
<1>7. \A m \in 1 .. Len(pdus) :
        /\ LastSdu(pdus[m]) <= FirstSdu(p)
        /\ LastSdu(pdus[m]) = FirstSdu(p) => Chained(pdus[m], p)
  <2> SUFFICES ASSUME NEW m \in 1 .. Len(pdus)
               PROVE  /\ LastSdu(pdus[m]) <= FirstSdu(p)
                      /\ LastSdu(pdus[m]) = FirstSdu(p) => Chained(pdus[m], p)
    OBVIOUS
  <2>1. /\ LastSdu(pdus[m]) <= tx.queue[1]
        /\ LastSdu(pdus[m]) = tx.queue[1] =>
             tx.fragment > 0 /\ pdus[m].lastIsFragment /\ tx.sno = pdus[m].sno + (Len(pdus) + 1 - m)
    BY <1>3, <1>4 DEF TxOk
  <2>2. ASSUME LastSdu(pdus[m]) = tx.queue[1] PROVE Chained(pdus[m], p)
    <3>1. /\ tx.fragment > 0 /\ pdus[m].lastIsFragment
          /\ tx.sno = pdus[m].sno + (Len(pdus) + 1 - m)
      BY <2>1, <2>2
    <3>2. p.firstIsFragment
      BY <1>1, <3>1
    <3>3. p.sno = pdus[m].sno + (p.id - pdus[m].id)
      BY <1>1, <1>6, <3>1
    <3>4. ASSUME p.id = pdus[m].id + 1 PROVE p.offset = Ending(pdus[m])
      <4>0. pdus[m].id = m /\ p.id = Len(pdus) + 1 /\ m \in Nat /\ Len(pdus) \in Nat
        BY <1>1, <1>3, <1>6
      <4>1. m = Len(pdus)
        BY <3>4, <4>0
      <4>2. Ending(pdus[m]) + tx.fragment = size[tx.queue[1]]
        BY <3>1, <4>1 DEF TxOk
      <4>3. p.offset = size[tx.queue[1]] - tx.fragment
        BY <1>1, <3>1 DEF Offset
      <4>4. Ending(pdus[m]) \in Nat
        BY <1>2, <1>3, <1>6, EndingPositive DEF Shape
      <4>5. tx.fragment \in Nat /\ size[tx.queue[1]] \in Nat
        BY <1>4, LeftTypes DEF TxOk
      <4> QED BY <4>2, <4>3, <4>4, <4>5
    <3> QED BY <3>1, <3>2, <3>3, <3>4 DEF Chained
  <2> QED BY <1>5, <2>1, <2>2
<1>8. p.firstIsFragment => n > 1 /\ LastSdu(pdus[n - 1]) = FirstSdu(p)
  <2> SUFFICES ASSUME p.firstIsFragment PROVE n > 1 /\ LastSdu(pdus[n - 1]) = FirstSdu(p)
    OBVIOUS
  <2>1. tx.fragment > 0
    BY <1>1
  <2>2. pdus # <<>> /\ LastSdu(pdus[Len(pdus)]) = tx.queue[1]
    BY <2>1 DEF TxOk
  <2>3. Len(pdus) # 0
    BY <1>2, <2>2
  <2> QED BY <1>3, <1>5, <2>2, <2>3
<1>9. \A m \in DOMAIN L : L[m].id = m /\ Shape(L[m], size)
  BY <1>1, <1>3, <1>6
<1>10. \A m, q \in DOMAIN L : m < q =>
         /\ LastSdu(L[m]) <= FirstSdu(L[q])
         /\ LastSdu(L[m]) = FirstSdu(L[q]) => Chained(L[m], L[q])
  <2> SUFFICES ASSUME NEW m \in DOMAIN L, NEW q \in DOMAIN L, m < q
               PROVE  /\ LastSdu(L[m]) <= FirstSdu(L[q])
                      /\ LastSdu(L[m]) = FirstSdu(L[q]) => Chained(L[m], L[q])
    OBVIOUS
  <2>1. m \in 1 .. Len(pdus)
    BY <1>3
  <2>2. CASE q = n
    BY <1>3, <1>7, <2>1, <2>2
  <2>3. CASE q \in 1 .. Len(pdus)
    BY <1>3, <2>1, <2>3 DEF Log
  <2> QED BY <1>3, <2>2, <2>3
<1>11. \A q \in DOMAIN L : L[q].firstIsFragment => q > 1 /\ LastSdu(L[q - 1]) = FirstSdu(L[q])
  <2> SUFFICES ASSUME NEW q \in DOMAIN L, L[q].firstIsFragment
               PROVE  q > 1 /\ LastSdu(L[q - 1]) = FirstSdu(L[q])
    OBVIOUS
  <2>1. CASE q = n
    BY <1>3, <1>8, <2>1
  <2>2. CASE q \in 1 .. Len(pdus)
    <3>1. q > 1 /\ LastSdu(pdus[q - 1]) = FirstSdu(pdus[q])
      BY <1>3, <2>2 DEF Log
    <3>2. q - 1 \in 1 .. Len(pdus)
      BY <1>3, <2>2, <3>1
    <3> QED BY <1>3, <2>2, <3>1, <3>2
  <2> QED BY <1>3, <2>1, <2>2
<1> QED BY <1>2, <1>3, <1>9, <1>10, <1>11 DEF Log, L

\* ... and so does the sender, of whose SDUs the whole ones in it are sent.
LEMMA SenderGoesOn ==
  ASSUME Log(pdus, size), TxOk(tx, pdus, size), tx.queue # <<>>, NEW payload \in Nat \ {0},
         NEW p, p = Pdu(tx, payload)
  PROVE  TxOk(AfterPdu(tx, payload), Append(pdus, p), size)
<1> DEFINE L == Append(pdus, p)
           n == Len(pdus) + 1
           t == AfterPdu(tx, payload)
           k == Whole(tx, payload)
           rest == Rest(tx, payload)
           l == Len(tx.queue)
<1>1. /\ p \in PduType /\ Shape(p, size) /\ p.id = n /\ p.sno = tx.sno
      /\ (p.lastIsFragment <=> rest > 0)
      /\ Len(p.parts) = IF p.lastIsFragment THEN k + 1 ELSE k
      /\ Len(p.parts) \in 1 .. l /\ DOMAIN p.parts = 1 .. Len(p.parts)
      /\ \A i \in DOMAIN p.parts : p.parts[i].sdu = tx.queue[i]
      /\ p.lastIsFragment => t.fragment \in Nat \ {0} /\ Ending(p) + t.fragment = size[LastSdu(p)]
  BY PduMade
<1>2. pdus \in Seq(PduType) /\ size \in Seq(Nat \ {0})
  BY DEF Log
<1>3. /\ L \in Seq(PduType) /\ Len(pdus) \in Nat /\ DOMAIN pdus = 1 .. Len(pdus)
      /\ DOMAIN L = 1 .. n /\ L[n] = p /\ Len(L) = n /\ \A m \in 1 .. Len(pdus) : L[m] = pdus[m]
  BY <1>1, <1>2, Appended
<1>4. k \in 0 .. l /\ rest \in Nat /\ (rest > 0 => k < l) /\ l \in Nat
  BY Cut, LeftTypes
<1>5. /\ DOMAIN t = {"queue", "fragment", "sno", "sent"}
      /\ t.queue = SubSeq(tx.queue, k + 1, l) /\ t.sno = tx.sno + 1
      /\ t.sent = tx.sent \cup {tx.queue[i] : i \in 1 .. k}
      /\ rest = 0 => t.fragment = 0
  BY DEF AfterPdu, TxOk
<1>6. /\ tx.queue \in Seq(DOMAIN size) /\ tx.sno \in 0 .. Len(pdus) /\ tx.fragment \in Nat
      /\ \A i, j \in DOMAIN tx.queue : i < j => tx.queue[i] < tx.queue[j]
      /\ \A i \in DOMAIN tx.queue : tx.queue[i] \in Nat
  BY LeftTypes DEF TxOk
<1> HIDE DEF L, t, k, rest, l
<1>7. DOMAIN tx.queue = 1 .. l
  BY <1>6 DEF l
<1>8. /\ t.queue \in Seq(DOMAIN size) /\ Len(t.queue) = l - k
      /\ \A j \in 1 .. l - k : t.queue[j] = tx.queue[k + j]
  BY <1>4, <1>5, <1>6, <1>7 DEF l
<1>9. DOMAIN t.queue = 1 .. l - k
  BY <1>4, <1>8
<1>10. t.fragment \in Nat /\ (t.fragment > 0 <=> p.lastIsFragment)
  BY <1>1, <1>4, <1>5
<1>11. \A i, j \in DOMAIN t.queue : i < j => t.queue[i] < t.queue[j]
  <2> SUFFICES ASSUME NEW i \in 1 .. l - k, NEW j \in 1 .. l - k, i < j
               PROVE  t.queue[i] < t.queue[j]
    BY <1>9
  <2>1. k + i \in 1 .. l /\ k + j \in 1 .. l /\ k + i < k + j
    BY <1>4
  <2> QED BY <1>6, <1>7, <1>8, <2>1
<1>12. LastSdu(p) = tx.queue[Len(p.parts)]
  BY <1>1 DEF LastSdu
<1>13. ASSUME NEW m \in DOMAIN L, NEW j \in DOMAIN t.queue
       PROVE  /\ LastSdu(L[m]) <= t.queue[j]
              /\ LastSdu(L[m]) = t.queue[j] =>
                   j = 1 /\ t.fragment > 0 /\ L[m].lastIsFragment /\ t.sno = L[m].sno + (n + 1 - m)
  <2>1. j \in 1 .. l - k /\ k + j \in DOMAIN tx.queue /\ t.queue[j] = tx.queue[k + j]
    BY <1>4, <1>7, <1>8, <1>9, <1>13
  <2>2. CASE m \in 1 .. Len(pdus)
    <3>1. /\ LastSdu(pdus[m]) <= tx.queue[k + j]
          /\ LastSdu(pdus[m]) = tx.queue[k + j] =>
               k + j = 1 /\ pdus[m].lastIsFragment /\ tx.sno = pdus[m].sno + (Len(pdus) + 1 - m)
      BY <1>3, <2>1, <2>2 DEF TxOk
    <3>2. k + j = 1 => j = 1 /\ k = 0 /\ p.lastIsFragment
      BY <1>1, <1>4, <2>1
    <3>3. pdus[m].sno \in Nat
      <4>1. pdus[m] \in PduType
        BY <1>2, <1>3, <2>2
      <4> QED BY <4>1 DEF PduType
    <3>4. k + j = 1 /\ tx.sno = pdus[m].sno + (Len(pdus) + 1 - m) => t.sno = pdus[m].sno + (n + 1 - m)
      <4>1. t.sno = tx.sno + 1 /\ tx.sno \in Nat /\ m \in Nat /\ Len(pdus) \in Nat
        BY <1>3, <1>5, <1>6, <2>2
      <4> QED BY <3>3, <4>1
    <3> QED BY <1>3, <1>10, <2>1, <2>2, <3>1, <3>2, <3>4
  <2>3. CASE m = n
    <3>1. Len(p.parts) <= k + j /\ Len(p.parts) \in DOMAIN tx.queue
      BY <1>1, <1>4, <1>7, <2>1
    <3>2. tx.queue[Len(p.parts)] <= tx.queue[k + j]
      BY <1>6, <2>1, <3>1, <1>7
    <3>3. tx.queue[Len(p.parts)] = tx.queue[k + j] => Len(p.parts) = k + j
      BY <1>6, <1>7, <2>1, <3>1
    <3>4. Len(p.parts) = k + j => j = 1 /\ p.lastIsFragment
      BY <1>1, <1>4, <2>1
    <3>5. t.sno = p.sno + (n + 1 - n)
      BY <1>1, <1>3, <1>5, <1>6
    <3> QED BY <1>3, <1>10, <1>12, <2>1, <2>3, <3>2, <3>3, <3>4, <3>5
  <2> QED BY <1>3, <1>13, <2>2, <2>3
<1>14. t.fragment > 0 => /\ t.queue # <<>> /\ L # <<>>
                         /\ LastSdu(L[n]) = t.queue[1]
                         /\ Ending(L[n]) + t.fragment = size[t.queue[1]]
  <2> SUFFICES ASSUME t.fragment > 0
               PROVE  /\ t.queue # <<>> /\ L # <<>>
                      /\ LastSdu(L[n]) = t.queue[1]
                      /\ Ending(L[n]) + t.fragment = size[t.queue[1]]
    OBVIOUS
  <2>1. p.lastIsFragment /\ k < l /\ Len(p.parts) = k + 1
    BY <1>1, <1>4, <1>10
  <2>2. 1 \in 1 .. l - k /\ t.queue[1] = tx.queue[k + 1]
    BY <1>4, <1>8, <2>1
  <2>3. t.queue # <<>> /\ L # <<>>
    BY <1>3, <1>8, <1>9, <2>2
  <2> QED BY <1>1, <1>3, <1>12, <2>1, <2>2, <2>3
<1>15. ASSUME NEW s \in DOMAIN size PROVE s \in t.sent <=> Ended(L, size, s)
  <2>1. \A i \in 1 .. k : i \in DOMAIN p.parts /\ i \in 1 .. l /\ p.parts[i].sdu = tx.queue[i]
                          /\ ~(i = Len(p.parts) /\ p.lastIsFragment)
    BY <1>1, <1>4
  <2>2. \A i \in 1 .. k : End(p, i) = size[p.parts[i].sdu]
    BY <1>1, <2>1 DEF Shape
  <2>3. \A i \in DOMAIN p.parts : End(p, i) = size[p.parts[i].sdu] => i \in 1 .. k
    <3> SUFFICES ASSUME NEW i \in DOMAIN p.parts, i \notin 1 .. k
                 PROVE  End(p, i) # size[p.parts[i].sdu]
      OBVIOUS
    <3>1. i = Len(p.parts) /\ p.lastIsFragment
      BY <1>1, <1>4
    <3>2. End(p, i) < size[p.parts[i].sdu]
      BY <1>1, <3>1 DEF Shape
    <3>3. size[p.parts[i].sdu] \in Nat
      <4>1. p.parts[i].sdu \in DOMAIN size
        BY <1>1 DEF Shape
      <4> QED BY <1>2, <4>1
    <3>4. End(p, i) \in Nat
      BY <1>1, <3>1, EndingPositive DEF Ending, Shape
    <3> QED BY <3>2, <3>3, <3>4
  <2>4. Ended(L, size, s) <=> Ended(pdus, size, s) \/ \E i \in DOMAIN p.parts :
                                p.parts[i].sdu = s /\ End(p, i) = size[s]
    <3>1. DOMAIN L = DOMAIN pdus \cup {n}
      BY <1>3
    <3> QED BY <1>3, <3>1 DEF Ended
  <2>5. s \in tx.sent <=> Ended(pdus, size, s)
    BY <1>15 DEF TxOk
  <2>6. (\E i \in DOMAIN p.parts : p.parts[i].sdu = s /\ End(p, i) = size[s])
          <=> \E i \in 1 .. k : tx.queue[i] = s
    BY <2>1, <2>2, <2>3
  <2> QED BY <1>5, <2>4, <2>5, <2>6
<1>16. t.sno \in 0 .. n
  <2>1. t.sno = tx.sno + 1 /\ tx.sno \in 0 .. Len(pdus) /\ Len(pdus) \in Nat
    BY <1>3, <1>5, <1>6
  <2> QED BY <2>1
<1>17. \A m \in DOMAIN L, j \in DOMAIN t.queue :
         /\ LastSdu(L[m]) <= t.queue[j]
         /\ LastSdu(L[m]) = t.queue[j] =>
              j = 1 /\ t.fragment > 0 /\ L[m].lastIsFragment /\ t.sno = L[m].sno + (Len(L) + 1 - m)
  BY <1>3, <1>13
<1> HIDE DEF n
<1>18. t.sent \subseteq DOMAIN size
  <2>1. \A i \in 1 .. k : tx.queue[i] \in DOMAIN size
    BY <1>4, <1>6, <1>7
  <2> QED BY <1>5, <2>1 DEF TxOk
<1>19. TxOk(t, L, size)
  BY <1>3, <1>5, <1>8, <1>10, <1>11, <1>14, <1>15, <1>16, <1>17, <1>18 DEF TxOk
<1> QED BY <1>19 DEF L, t

-----------------------------------------------------------------------------
(* The order of the PDUs                                                    *)

LEMMA PartTypes ==
  ASSUME NEW p \in PduType, NEW z \in Seq(Nat \ {0}), Shape(p, z)
  PROVE  /\ Len(p.parts) \in Nat \ {0} /\ DOMAIN p.parts = 1 .. Len(p.parts)
         /\ p.sno \in Nat /\ p.offset \in Nat
         /\ FirstSdu(p) \in Nat \ {0} /\ LastSdu(p) \in Nat \ {0} /\ LastSdu(p) \in DOMAIN z
         /\ Ending(p) \in Nat \ {0}
         /\ \A i \in DOMAIN p.parts :
              /\ p.parts[i].sdu \in DOMAIN z /\ p.parts[i].sdu \in Nat \ {0}
              /\ p.parts[i].size \in Nat \ {0} /\ End(p, i) \in Nat /\ z[p.parts[i].sdu] \in Nat
<1>1. p.parts \in Seq(Part) /\ p.offset \in Nat /\ p.sno \in Nat /\ p.parts # <<>>
  BY DEF PduType, Shape
<1>2. Len(p.parts) \in Nat \ {0} /\ DOMAIN p.parts = 1 .. Len(p.parts)
  BY <1>1
<1>3. Len(z) \in Nat /\ DOMAIN z = 1 .. Len(z)
  OBVIOUS
<1>4. \A i \in DOMAIN p.parts : p.parts[i] \in Part
  BY <1>1, <1>2
<1>5. \A i \in DOMAIN p.parts : p.parts[i].size \in Nat \ {0} /\ End(p, i) \in Nat
  BY <1>1, <1>4 DEF Part, End
<1>6. \A i \in DOMAIN p.parts : p.parts[i].sdu \in DOMAIN z
  BY DEF Shape
<1>7. \A i \in DOMAIN p.parts : p.parts[i].sdu \in Nat \ {0} /\ z[p.parts[i].sdu] \in Nat
  BY <1>3, <1>6
<1>8. Ending(p) \in Nat \ {0}
  BY <1>1, EndingPositive
<1>9. 1 \in DOMAIN p.parts /\ Len(p.parts) \in DOMAIN p.parts
  BY <1>2
<1> QED BY <1>1, <1>2, <1>5, <1>6, <1>7, <1>8, <1>9 DEF FirstSdu, LastSdu

LEMMA LogTypes ==
  ASSUME NEW L, NEW z, Log(L, z)
  PROVE  /\ z \in Seq(Nat \ {0}) /\ Len(L) \in Nat /\ DOMAIN L = 1 .. Len(L)
         /\ \A n \in DOMAIN L : L[n] \in PduType /\ Shape(L[n], z) /\ L[n].id = n /\ n \in Nat \ {0}
<1>1. L \in Seq(PduType) /\ z \in Seq(Nat \ {0})
  BY DEF Log
<1>2. Len(L) \in Nat /\ DOMAIN L = 1 .. Len(L) /\ \A n \in DOMAIN L : L[n] \in PduType
  BY <1>1
<1> QED BY <1>1, <1>2 DEF Log

\* An SDU in two PDUs ends the one and begins the other.
LEMMA PartsInOrder ==
  ASSUME NEW L, NEW z, Log(L, z), NEW m \in DOMAIN L, NEW n \in DOMAIN L, m < n,
         NEW i \in DOMAIN L[m].parts, NEW j \in DOMAIN L[n].parts
  PROVE  /\ L[m].parts[i].sdu <= L[n].parts[j].sdu
         /\ L[m].parts[i].sdu = L[n].parts[j].sdu =>
              /\ i = Len(L[m].parts) /\ j = 1 /\ Chained(L[m], L[n])
              /\ End(L[m], i) # z[L[m].parts[i].sdu]
<1> DEFINE p == L[m]
           q == L[n]
<1>1. /\ p \in PduType /\ Shape(p, z) /\ q \in PduType /\ Shape(q, z) /\ z \in Seq(Nat \ {0})
  BY LogTypes
<1>2. LastSdu(p) <= FirstSdu(q) /\ (LastSdu(p) = FirstSdu(q) => Chained(p, q))
  BY DEF Log
<1> HIDE DEF p, q
<1>3. /\ Len(p.parts) \in Nat \ {0} /\ DOMAIN p.parts = 1 .. Len(p.parts)
      /\ \A k \in DOMAIN p.parts : /\ p.parts[k].sdu \in Nat /\ End(p, k) \in Nat
                                   /\ z[p.parts[k].sdu] \in Nat
  BY <1>1, PartTypes
<1>4. /\ Len(q.parts) \in Nat \ {0} /\ DOMAIN q.parts = 1 .. Len(q.parts)
      /\ \A k \in DOMAIN q.parts : q.parts[k].sdu \in Nat
  BY <1>1, PartTypes
<1>5. i \in DOMAIN p.parts /\ j \in DOMAIN q.parts
  BY DEF p, q
<1>6. p.parts[i].sdu <= LastSdu(p) /\ (p.parts[i].sdu = LastSdu(p) => i = Len(p.parts))
  <2>1. i < Len(p.parts) => p.parts[i].sdu < p.parts[Len(p.parts)].sdu
    BY <1>1, <1>3, <1>5 DEF Shape
  <2> QED BY <1>3, <1>5, <2>1 DEF LastSdu
<1>7. FirstSdu(q) <= q.parts[j].sdu /\ (q.parts[j].sdu = FirstSdu(q) => j = 1)
  <2>1. 1 < j => q.parts[1].sdu < q.parts[j].sdu
    BY <1>1, <1>4, <1>5 DEF Shape
  <2> QED BY <1>4, <1>5, <2>1 DEF FirstSdu
<1>8. LastSdu(p) \in Nat /\ FirstSdu(q) \in Nat
  BY <1>1, PartTypes
<1>9. p.parts[i].sdu <= q.parts[j].sdu
  BY <1>2, <1>3, <1>4, <1>5, <1>6, <1>7, <1>8
<1>10. ASSUME p.parts[i].sdu = q.parts[j].sdu
       PROVE  i = Len(p.parts) /\ j = 1 /\ Chained(p, q) /\ End(p, i) # z[p.parts[i].sdu]
  <2>1. p.parts[i].sdu = LastSdu(p) /\ q.parts[j].sdu = FirstSdu(q) /\ LastSdu(p) = FirstSdu(q)
    BY <1>2, <1>3, <1>4, <1>5, <1>6, <1>7, <1>8, <1>10
  <2>2. i = Len(p.parts) /\ j = 1 /\ Chained(p, q)
    BY <1>2, <1>6, <1>7, <2>1
  <2>3. End(p, i) < z[p.parts[i].sdu]
    BY <1>1, <1>5, <2>2 DEF Chained, Shape
  <2> QED BY <1>3, <1>5, <2>2, <2>3
<1> QED BY <1>9, <1>10 DEF p, q
-----------------------------------------------------------------------------
(* reassemble                                                               *)

RxFields == DOMAIN RxReset(0)

\* The fields that reassemble leaves alone.
SameWindow(q, r) ==
  /\ DOMAIN q = RxFields
  /\ q.firstSno = r.firstSno /\ q.firstSnoForReordering = r.firstSnoForReordering
  /\ q.highestReceivedSno = r.highestReceivedSno /\ q.reorderingSno = r.reorderingSno
  /\ q.windowSize = r.windowSize /\ q.init = r.init /\ q.timer = r.timer /\ q.store = r.store

Joins(r, p) == p.firstIsFragment /\ Continues(r, p)

\* Where the SDUs begin that are whole in the PDU, and where they end.
FirstWhole(p) == IF p.firstIsFragment THEN 2 ELSE 1
LastWhole(p)  == IF p.lastIsFragment THEN Len(p.parts) - 1 ELSE Len(p.parts)

Up(r, p) == (IF Joins(r, p) /\ ~IsMiddle(p) THEN <<FirstSdu(p)>> ELSE <<>>)
            \o [i \in DOMAIN WholeParts(p) |-> WholeParts(p)[i].sdu]

LEMMA WholePartsAre ==
  ASSUME NEW p \in PduType, size \in Seq(Nat \ {0}), Shape(p, size)
  PROVE  /\ WholeParts(p) \in Seq(Part)
         /\ FirstWhole(p) \in {1, 2} /\ LastWhole(p) \in 0 .. Len(p.parts)
         /\ Len(WholeParts(p)) = LastWhole(p) - FirstWhole(p) + 1 \/ WholeParts(p) = <<>>
         /\ WholeParts(p) = <<>> <=> LastWhole(p) < FirstWhole(p)
         /\ \A i \in DOMAIN WholeParts(p) :
              /\ FirstWhole(p) - 1 + i \in FirstWhole(p) .. LastWhole(p)
              /\ FirstWhole(p) - 1 + i \in DOMAIN p.parts
              /\ WholeParts(p)[i] = p.parts[FirstWhole(p) - 1 + i]
              /\ WholeParts(p)[i].size = size[WholeParts(p)[i].sdu]
<1> DEFINE a == FirstWhole(p)
           b == LastWhole(p)
           W == WholeParts(p)
<1>1. /\ Len(p.parts) \in Nat \ {0} /\ DOMAIN p.parts = 1 .. Len(p.parts) /\ p.parts \in Seq(Part)
  BY PartTypes DEF PduType
<1>2. W = SubSeq(p.parts, a, b) /\ a \in {1, 2} /\ b \in 0 .. Len(p.parts)
  BY <1>1 DEF WholeParts, FirstWhole, LastWhole
<1> HIDE DEF a, b, W
<1>3. W \in Seq(Part) /\ Len(W) = (IF a <= b THEN b - a + 1 ELSE 0)
      /\ \A i \in 1 .. Len(W) : W[i] = p.parts[a - 1 + i]
  BY <1>1, <1>2
<1>4. DOMAIN W = 1 .. Len(W) /\ (W = <<>> <=> b < a)
  BY <1>2, <1>3
<1>5. ASSUME NEW i \in DOMAIN W
      PROVE  /\ a - 1 + i \in a .. b /\ a - 1 + i \in DOMAIN p.parts
             /\ W[i] = p.parts[a - 1 + i] /\ W[i].size = size[W[i].sdu]
  <2>1. a - 1 + i \in a .. b /\ a - 1 + i \in DOMAIN p.parts /\ W[i] = p.parts[a - 1 + i]
    BY <1>1, <1>2, <1>3, <1>4, <1>5
  <2> DEFINE j == a - 1 + i
  <2>2. ~(j = Len(p.parts) /\ p.lastIsFragment)
    BY <1>1, <1>2, <2>1 DEF b, LastWhole
  <2>3. End(p, j) = size[p.parts[j].sdu]
    BY <2>1, <2>2 DEF Shape
  <2>4. j = 1 => p.offset = 0
    <3>1. j = 1 => a = 1
      BY <1>2, <1>3, <1>4, <1>5
    <3>2. a = 1 => ~p.firstIsFragment
      BY DEF a, FirstWhole
    <3> QED BY <3>1, <3>2 DEF Shape
  <2>5. p.parts[j].size \in Nat
    BY <2>1, PartTypes
  <2> QED BY <2>1, <2>3, <2>4, <2>5 DEF End
<1> QED BY <1>2, <1>3, <1>4, <1>5 DEF a, b, W

\* What is kept is a part of an SDU, or nothing.
Holding(r, p) ==
  /\ r.buffered = [sdu |-> r.buffered.sdu, size |-> r.buffered.size, sno |-> r.buffered.sno]
  /\ Joins(r, p) => r.buffered.size = p.offset

\* The first part: kept, joined to what is kept, or dropped with it.
LEMMA FirstTaken ==
  ASSUME NEW p \in PduType, size \in Seq(Nat \ {0}), Shape(p, size),
         NEW r, DOMAIN r = RxFields, r.err = FALSE, r.passedUp \in Seq(Nat), Holding(r, p),
         NEW q, q = TakeFirst(r, p)
  PROVE  /\ SameWindow(q, r) /\ q.err = FALSE /\ q.done = r.done /\ q.resetFlag = r.resetFlag
         /\ q.passedUp = IF Joins(r, p) /\ ~IsMiddle(p) THEN r.passedUp \o <<FirstSdu(p)>>
                         ELSE r.passedUp
         /\ p.firstIsFragment => q.buffered = IF Joins(r, p) /\ IsMiddle(p)
                                              THEN [sdu |-> FirstSdu(p), size |-> End(p, 1), sno |-> p.sno]
                                              ELSE Nothing
<1> DEFINE part == p.parts[1]
           total == r.buffered.size + part.size
<1>1. /\ Len(p.parts) \in Nat \ {0} /\ DOMAIN p.parts = 1 .. Len(p.parts) /\ p.offset \in Nat
      /\ \A i \in DOMAIN p.parts : p.parts[i].size \in Nat \ {0} /\ size[p.parts[i].sdu] \in Nat
  BY PartTypes
<1>2. 1 \in DOMAIN p.parts /\ part.size \in Nat /\ size[part.sdu] \in Nat
  BY <1>1
<1>3. End(p, 1) = p.offset + part.size
  BY DEF End
<1> HIDE DEF part
<1>4. CASE ~p.firstIsFragment
  <2>1. q = r
    BY <1>4 DEF TakeFirst
  <2> QED BY <1>4, <2>1 DEF Joins, SameWindow
<1>5. CASE p.firstIsFragment /\ ~Continues(r, p)
  <2>1. q = [r EXCEPT !.buffered = Nothing]
    BY <1>5 DEF TakeFirst, ClearBufferedSdu
  <2> QED BY <1>5, <2>1 DEF Joins, SameWindow, RxFields, RxReset
<1>6. CASE p.firstIsFragment /\ Continues(r, p) /\ IsMiddle(p)
  <2>1. q = [r EXCEPT !.buffered.size = total, !.buffered.sno = p.sno]
    BY <1>6 DEF TakeFirst, part
  <2>2. Joins(r, p) /\ total = End(p, 1)
    BY <1>2, <1>3, <1>6 DEF Joins, Holding
  <2>3. r.buffered.sdu = FirstSdu(p)
    BY <1>6 DEF Continues, FirstSdu
  <2>4. q.buffered = [[r.buffered EXCEPT !.size = total] EXCEPT !.sno = p.sno]
    BY <2>1 DEF RxFields, RxReset
  <2>5. q.buffered = [sdu |-> FirstSdu(p), size |-> End(p, 1), sno |-> p.sno]
    BY <2>2, <2>3, <2>4 DEF Holding
  <2> QED BY <1>6, <2>1, <2>2, <2>5 DEF SameWindow, RxFields, RxReset
<1>7. CASE p.firstIsFragment /\ Continues(r, p) /\ ~IsMiddle(p)
  <2>1. Joins(r, p) /\ total = End(p, 1)
    BY <1>2, <1>3, <1>7 DEF Joins, Holding
  <2>2. ~(1 = Len(p.parts) /\ p.lastIsFragment)
    BY <1>7 DEF IsMiddle
  <2>3. total = size[part.sdu]
    BY <1>2, <2>1, <2>2 DEF Shape, part
  <2>4. q = ToPdcp(r, <<part.sdu>>)
    BY <1>7, <1>2, <2>3 DEF TakeFirst, part
  <2>5. q = [r EXCEPT !.passedUp = r.passedUp \o <<FirstSdu(p)>>, !.buffered = Nothing]
    BY <2>4 DEF ToPdcp, FirstSdu, part
  <2> QED BY <1>7, <2>1, <2>5 DEF SameWindow, RxFields, RxReset
<1> QED BY <1>4, <1>5, <1>6, <1>7

LEMMA Associative ==
  ASSUME NEW a \in Seq(Nat), NEW b \in Seq(Nat), NEW c \in Seq(Nat)
  PROVE  (a \o b) \o c = a \o (b \o c)
OBVIOUS

Taken(q, r, p) ==
  /\ SameWindow(q, r) /\ q.err = FALSE /\ q.done = r.done \cup {p.id} /\ q.resetFlag = FALSE
  /\ q.passedUp = r.passedUp \o Up(r, p)
  /\ q.buffered = IF p.lastIsFragment /\ (Joins(r, p) \/ ~IsMiddle(p)) THEN Tail_(p) ELSE Nothing

\* All of reassemble.
LEMMA ReassembleIs ==
  ASSUME NEW p \in PduType, size \in Seq(Nat \ {0}), Shape(p, size),
         NEW r, DOMAIN r = RxFields, r.err = FALSE, r.passedUp \in Seq(Nat), Holding(r, p),
         NEW q, q = Reassemble(r, p)
  PROVE  Taken(q, r, p)
<1> DEFINE first == TakeFirst(r, p)
           W     == WholeParts(p)
           whole == IF W = <<>> THEN first ELSE TakeWhole(first, p)
           last  == IF p.lastIsFragment /\ ~IsMiddle(p) THEN TakeLast(whole, p) ELSE whole
           up1   == IF Joins(r, p) /\ ~IsMiddle(p) THEN <<FirstSdu(p)>> ELSE <<>>
           up2   == [i \in DOMAIN W |-> W[i].sdu]
<1>1. /\ SameWindow(first, r) /\ first.err = FALSE /\ first.done = r.done
      /\ first.passedUp = IF Joins(r, p) /\ ~IsMiddle(p) THEN r.passedUp \o <<FirstSdu(p)>>
                          ELSE r.passedUp
      /\ p.firstIsFragment => first.buffered = IF Joins(r, p) /\ IsMiddle(p)
                                THEN [sdu |-> FirstSdu(p), size |-> End(p, 1), sno |-> p.sno]
                                ELSE Nothing
  BY FirstTaken
<1>2. /\ W \in Seq(Part) /\ (W = <<>> <=> LastWhole(p) < FirstWhole(p))
      /\ \A i \in DOMAIN W : W[i].size = size[W[i].sdu]
  BY WholePartsAre
<1>3. Len(p.parts) \in Nat \ {0} /\ FirstSdu(p) \in Nat
  BY PartTypes
<1>4. q = [last EXCEPT !.resetFlag = FALSE, !.done = last.done \cup {p.id}]
  BY DEF Reassemble
<1> HIDE DEF first, W
<1>5. up1 \in Seq(Nat) /\ up2 \in Seq(Nat)
  <2>1. \A i \in DOMAIN W : W[i] \in Part
    BY <1>2
  <2>2. \A i \in DOMAIN W : W[i].sdu \in Nat
    BY <2>1 DEF Part
  <2>3. DOMAIN W = 1 .. Len(W) /\ Len(W) \in Nat
    BY <1>2
  <2>4. up2 \in Seq(Nat)
    BY <2>2, <2>3
  <2>5. up1 \in Seq(Nat)
    BY <1>3
  <2> QED BY <2>4, <2>5
<1>6. first.passedUp = r.passedUp \o up1
  <2>1. r.passedUp \o <<>> = r.passedUp
    OBVIOUS
  <2> QED BY <1>1, <2>1 DEF up1
<1> HIDE DEF up2
<1>7. W # <<>> => whole = [first EXCEPT !.passedUp = first.passedUp \o up2, !.buffered = Nothing]
  BY <1>2 DEF TakeWhole, ToPdcp, W, up2
<1>8. W = <<>> => whole = first /\ up2 = <<>>
  BY DEF up2
<1>9. /\ SameWindow(whole, r) /\ whole.err = FALSE /\ whole.done = r.done
      /\ whole.passedUp = first.passedUp \o up2
      /\ whole.buffered = IF W = <<>> THEN first.buffered ELSE Nothing
  <2>1. CASE W = <<>>
    <3>1. first.passedUp \in Seq(Nat)
      BY <1>5, <1>6
    <3>2. first.passedUp \o <<>> = first.passedUp
      BY <3>1
    <3> QED BY <1>1, <1>8, <2>1, <3>2
  <2>2. CASE W # <<>>
    BY <1>1, <1>7, <2>2 DEF SameWindow, RxFields, RxReset
  <2> QED BY <2>1, <2>2
<1> HIDE DEF whole
<1>10. /\ SameWindow(last, r) /\ last.err = FALSE /\ last.done = r.done
       /\ last.passedUp = whole.passedUp
       /\ p.lastIsFragment /\ ~IsMiddle(p) =>
            last.buffered = [sdu |-> LastSdu(p), size |-> p.parts[Len(p.parts)].size, sno |-> p.sno]
       /\ ~(p.lastIsFragment /\ ~IsMiddle(p)) => last.buffered = whole.buffered
  <2>1. CASE p.lastIsFragment /\ ~IsMiddle(p)
    <3>1. last = [whole EXCEPT !.buffered = [sdu |-> LastSdu(p), size |-> p.parts[Len(p.parts)].size,
                                             sno |-> p.sno]]
      BY <2>1 DEF TakeLast, Last, LastSdu
    <3> QED BY <1>9, <2>1, <3>1 DEF SameWindow, RxFields, RxReset
  <2>2. CASE ~(p.lastIsFragment /\ ~IsMiddle(p))
    BY <1>9, <2>2
  <2> QED BY <2>1, <2>2
<1> HIDE DEF last
<1>11. last.passedUp = r.passedUp \o Up(r, p)
  <2>1. (r.passedUp \o up1) \o up2 = r.passedUp \o (up1 \o up2)
    <3> HIDE DEF up1
    <3>1. up1 \in Seq(Nat) /\ up2 \in Seq(Nat) /\ r.passedUp \in Seq(Nat)
      BY <1>5
    <3> QED BY <3>1, Associative
  <2> QED BY <1>6, <1>9, <1>10, <2>1 DEF Up, up1, up2, W
<1>12. last.buffered = IF p.lastIsFragment /\ (Joins(r, p) \/ ~IsMiddle(p)) THEN Tail_(p) ELSE Nothing
  <2>1. CASE p.lastIsFragment /\ ~IsMiddle(p)
    <3>1. Ending(p) = p.parts[Len(p.parts)].size
      <4>1. Len(p.parts) = 1 => p.offset = 0
        BY <2>1 DEF IsMiddle, Shape
      <4>2. p.parts[Len(p.parts)].size \in Nat
        BY PartTypes
      <4> QED BY <4>1, <4>2 DEF Ending, End
    <3> QED BY <1>10, <2>1, <3>1 DEF Tail_
  <2>2. CASE IsMiddle(p)
    <3>1. p.firstIsFragment /\ p.lastIsFragment /\ Len(p.parts) = 1
      BY <2>2 DEF IsMiddle
    <3>2. W = <<>>
      BY <1>2, <3>1 DEF FirstWhole, LastWhole
    <3>3. Tail_(p) = [sdu |-> FirstSdu(p), size |-> End(p, 1), sno |-> p.sno]
      BY <3>1 DEF Tail_, LastSdu, FirstSdu, Ending
    <3> QED BY <1>1, <1>9, <1>10, <2>2, <3>1, <3>2, <3>3
  <2>3. CASE ~p.lastIsFragment
    <3>1. W = <<>> => p.firstIsFragment
      BY <1>2, <1>3, <2>3 DEF FirstWhole, LastWhole
    <3>2. ~IsMiddle(p)
      BY <2>3 DEF IsMiddle
    <3> QED BY <1>1, <1>9, <1>10, <2>3, <3>1, <3>2
  <2> QED BY <2>1, <2>2, <2>3
<1>13. /\ SameWindow(q, last) /\ q.err = last.err /\ q.passedUp = last.passedUp
       /\ q.buffered = last.buffered /\ q.resetFlag = FALSE /\ q.done = last.done \cup {p.id}
  BY <1>4, <1>10 DEF SameWindow, RxFields, RxReset
<1> QED BY <1>10, <1>11, <1>12, <1>13 DEF SameWindow, Taken

\* The part i ends its SDU, and the beginning of the SDU is not missing.
Completes(r, p, i) ==
  End(p, i) = size[p.parts[i].sdu] /\ (i = 1 /\ p.firstIsFragment => Joins(r, p))

PassesUp(up, r, p) ==
  /\ up \in Seq(Nat)
  /\ \A x, y \in DOMAIN up : x < y => up[x] < up[y]
  /\ \A x \in DOMAIN up : \E i \in DOMAIN p.parts : p.parts[i].sdu = up[x] /\ Completes(r, p, i)
  /\ \A i \in DOMAIN p.parts : Completes(r, p, i) => \E x \in DOMAIN up : up[x] = p.parts[i].sdu

\* What it passes up: in order, the SDUs that end in the PDU, but for a first one
\* whose beginning is not kept.
LEMMA UpIs ==
  ASSUME NEW p \in PduType, size \in Seq(Nat \ {0}), Shape(p, size), NEW r,
         NEW up, up = Up(r, p)
  PROVE  PassesUp(up, r, p)
<1> DEFINE a == FirstWhole(p)
           b == LastWhole(p)
           W == WholeParts(p)
           w == Len(W)
           lone == Joins(r, p) /\ ~IsMiddle(p)
           up1 == IF lone THEN <<FirstSdu(p)>> ELSE <<>>
           up2 == [i \in DOMAIN W |-> W[i].sdu]
           l == IF lone THEN 1 ELSE 0
<1>1. /\ W \in Seq(Part) /\ a \in {1, 2} /\ b \in 0 .. Len(p.parts)
      /\ w = b - a + 1 \/ W = <<>>
      /\ W = <<>> <=> b < a
      /\ \A i \in DOMAIN W : /\ a - 1 + i \in a .. b
                             /\ a - 1 + i \in DOMAIN p.parts
                             /\ W[i] = p.parts[a - 1 + i]
  BY WholePartsAre
<1>2. /\ Len(p.parts) \in Nat \ {0} /\ DOMAIN p.parts = 1 .. Len(p.parts) /\ FirstSdu(p) \in Nat
      /\ \A i \in DOMAIN p.parts : /\ p.parts[i].sdu \in Nat /\ End(p, i) \in Nat
                                   /\ size[p.parts[i].sdu] \in Nat
  BY PartTypes
<1>3. w \in Nat /\ DOMAIN W = 1 .. w /\ (b >= a => w = b - a + 1)
  BY <1>1
<1>4. /\ a = IF p.firstIsFragment THEN 2 ELSE 1
      /\ b = IF p.lastIsFragment THEN Len(p.parts) - 1 ELSE Len(p.parts)
  BY DEF FirstWhole, LastWhole
<1>5. \A i, j \in DOMAIN p.parts : i < j => p.parts[i].sdu < p.parts[j].sdu
  BY DEF Shape
<1>6. \A i \in DOMAIN p.parts : End(p, i) = size[p.parts[i].sdu] <=> ~(i = Len(p.parts) /\ p.lastIsFragment)
  BY <1>2 DEF Shape
<1>7. lone => p.firstIsFragment /\ Joins(r, p) /\ ~(1 = Len(p.parts) /\ p.lastIsFragment)
  BY DEF Joins, IsMiddle
<1>8. p.firstIsFragment /\ Joins(r, p) /\ ~(1 = Len(p.parts) /\ p.lastIsFragment) => lone
  BY DEF IsMiddle
<1> HIDE DEF a, b, W, lone
<1>9. up2 \in Seq(Nat) /\ Len(up2) = w
  <2>1. \A i \in 1 .. w : W[i].sdu \in Nat
    BY <1>1, <1>2, <1>3
  <2> QED BY <1>3, <2>1
<1>10. up1 \in Seq(Nat) /\ Len(up1) = l /\ (lone => up1[1] = FirstSdu(p))
  BY <1>2
<1>11. \A i \in 1 .. w : up2[i] = p.parts[a - 1 + i].sdu
  BY <1>1, <1>3
<1> HIDE DEF up1, up2
<1>12. up = up1 \o up2
  BY DEF Up, up1, up2, W, lone
<1>13. /\ up \in Seq(Nat) /\ Len(up) = l + w
       /\ \A i \in 1 .. l : up[i] = up1[i]
       /\ \A i \in 1 .. w : up[l + i] = up2[i]
  <2>1. /\ up1 \o up2 \in Seq(Nat) /\ Len(up1 \o up2) = Len(up1) + Len(up2)
        /\ \A i \in 1 .. Len(up1) : (up1 \o up2)[i] = up1[i]
        /\ \A i \in 1 .. Len(up2) : (up1 \o up2)[Len(up1) + i] = up2[i]
    <3>1. up1 \in Seq(Nat) /\ up2 \in Seq(Nat)
      BY <1>9, <1>10
    <3> QED BY <3>1, Concatenation
  <2> QED BY <1>9, <1>10, <1>12, <2>1
<1>14. l \in {0, 1} /\ (l = 1 <=> lone) /\ DOMAIN up = 1 .. l + w
  BY <1>3, <1>13
<1> HIDE DEF l, w
<1> DEFINE At(x) == IF x <= l THEN 1 ELSE a - 1 + (x - l)
<1>15. ASSUME NEW x \in DOMAIN up
       PROVE  /\ At(x) \in DOMAIN p.parts /\ up[x] = p.parts[At(x)].sdu
              /\ End(p, At(x)) = size[p.parts[At(x)].sdu]
              /\ (At(x) = 1 /\ p.firstIsFragment => Joins(r, p))
  <2>1. CASE x <= l
    <3>1. x = 1 /\ lone
      BY <1>14, <2>1
    <3>2. up[x] = FirstSdu(p)
      BY <1>10, <1>13, <1>14, <2>1, <3>1
    <3>3. At(x) = 1 /\ 1 \in DOMAIN p.parts
      BY <1>2, <2>1
    <3> QED BY <1>6, <1>7, <3>1, <3>2, <3>3 DEF FirstSdu
  <2>2. CASE x > l
    <3>1. PICK i \in 1 .. w : x = l + i /\ At(x) = a - 1 + i
      <4>1. x \in Nat /\ l \in Nat /\ w \in Nat /\ l < x /\ x <= l + w
        BY <1>3, <1>14, <2>2
      <4>2. x - l \in 1 .. w /\ x = l + (x - l) /\ ~(x <= l)
        BY <4>1
      <4>3. At(x) = a - 1 + (x - l)
        BY <4>2
      <4> HIDE DEF At
      <4> QED BY <4>2, <4>3
    <3>2. /\ up[x] = p.parts[At(x)].sdu /\ At(x) \in DOMAIN p.parts /\ At(x) \in a .. b
      <4> HIDE DEF At
      <4>1. up[x] = up2[i] /\ up2[i] = p.parts[a - 1 + i].sdu /\ i \in DOMAIN W
        BY <1>3, <1>11, <1>13, <3>1
      <4>2. a - 1 + i \in DOMAIN p.parts /\ a - 1 + i \in a .. b
        BY <1>1, <4>1
      <4> QED BY <3>1, <4>1, <4>2
    <3>3. ~(At(x) = Len(p.parts) /\ p.lastIsFragment)
      BY <1>1, <1>2, <1>4, <3>2
    <3>4. ~(At(x) = 1 /\ p.firstIsFragment)
      BY <1>1, <1>4, <3>2
    <3> QED BY <1>6, <3>2, <3>3, <3>4
  <2> QED BY <1>14, <2>1, <2>2
<1>16. \A x, y \in DOMAIN up : x < y => At(x) < At(y)
  BY <1>1, <1>3, <1>4, <1>7, <1>14
<1>17. \A x, y \in DOMAIN up : x < y => up[x] < up[y]
  BY <1>5, <1>15, <1>16
<1>18. ASSUME NEW i \in DOMAIN p.parts, End(p, i) = size[p.parts[i].sdu],
              i = 1 /\ p.firstIsFragment => Joins(r, p)
       PROVE  \E x \in DOMAIN up : up[x] = p.parts[i].sdu
  <2>1. ~(i = Len(p.parts) /\ p.lastIsFragment)
    BY <1>6, <1>18
  <2>2. CASE i = 1 /\ p.firstIsFragment
    <3>1. lone
      BY <1>8, <1>18, <2>1, <2>2
    <3>2. 1 \in DOMAIN up /\ up[1] = FirstSdu(p)
      BY <1>3, <1>10, <1>13, <1>14, <3>1
    <3> QED BY <2>2, <3>2 DEF FirstSdu
  <2>3. CASE ~(i = 1 /\ p.firstIsFragment)
    <3>1. i \in a .. b
      BY <1>1, <1>2, <1>4, <2>1, <2>3
    <3>2. i - a + 1 \in 1 .. w /\ a - 1 + (i - a + 1) = i
      BY <1>1, <1>2, <1>3, <3>1
    <3>3. l + (i - a + 1) \in DOMAIN up
      BY <1>3, <1>14, <3>2
    <3>4. up[l + (i - a + 1)] = p.parts[i].sdu
      BY <1>11, <1>13, <3>2
    <3> QED BY <3>3, <3>4
  <2> QED BY <2>2, <2>3
<1> HIDE DEF At
<1>19. \A x \in DOMAIN up : \E i \in DOMAIN p.parts : p.parts[i].sdu = up[x] /\ Completes(r, p, i)
  BY <1>15 DEF Completes
<1>20. \A i \in DOMAIN p.parts : Completes(r, p, i) => \E x \in DOMAIN up : up[x] = p.parts[i].sdu
  BY <1>18 DEF Completes
<1> QED BY <1>13, <1>17, <1>19, <1>20 DEF PassesUp

\* Before n, the PDUs with a part of the SDU that n begins with were taken.
AllBefore(D, n) == \A m \in DOMAIN pdus : m < n /\ Has(pdus[m], FirstSdu(pdus[n])) => m \in D

LEMMA JoinsWhenAll ==
  ASSUME Log(pdus, size), NEW r, Content(r, pdus, size), NEW c \in Int, Joined(r, pdus, c),
         NEW n \in DOMAIN pdus, \A d \in r.done : d < n, pdus[n].sno + c = n
  PROVE  /\ Holding(r, pdus[n])
         /\ pdus[n].firstIsFragment => (Joins(r, pdus[n]) <=> AllBefore(r.done, n))
<1> DEFINE p == pdus[n]
<1>1. /\ Len(pdus) \in Nat /\ DOMAIN pdus = 1 .. Len(pdus) /\ size \in Seq(Nat \ {0})
      /\ \A m \in DOMAIN pdus : /\ pdus[m] \in PduType /\ Shape(pdus[m], size)
                                /\ pdus[m].id = m /\ m \in Nat \ {0}
  BY LogTypes
<1>2. /\ FirstSdu(p) \in Nat \ {0} /\ p.sno \in Nat /\ n \in Nat
  BY <1>1, PartTypes
<1>3. \A m \in DOMAIN pdus : pdus[m].sno \in Nat /\ LastSdu(pdus[m]) \in Nat \ {0} /\ Has(pdus[m], LastSdu(pdus[m]))
  <2> TAKE m \in DOMAIN pdus
  <2>1. pdus[m] \in PduType /\ Shape(pdus[m], size)
    BY <1>1
  <2>2. /\ Len(pdus[m].parts) \in Nat \ {0} /\ DOMAIN pdus[m].parts = 1 .. Len(pdus[m].parts)
        /\ pdus[m].sno \in Nat /\ LastSdu(pdus[m]) \in Nat \ {0}
    BY <1>1, <2>1, PartTypes
  <2>3. Len(pdus[m].parts) \in DOMAIN pdus[m].parts
    BY <2>2
  <2> QED BY <2>2, <2>3 DEF Has, LastSdu
<1>4. \A m \in DOMAIN pdus : m < n /\ LastSdu(pdus[m]) = FirstSdu(p) => Chained(pdus[m], p)
  BY DEF Log
<1>5. p.firstIsFragment => n > 1 /\ LastSdu(pdus[n - 1]) = FirstSdu(p)
  BY DEF Log
<1>6. r.buffered = Nothing \/ \E b \in DOMAIN pdus : Kept(r.done, pdus, b) /\ r.buffered = Tail_(pdus[b])
  BY DEF Content
<1>7. ASSUME Continues(r, p)
      PROVE  AllBefore(r.done, n) /\ r.buffered.size = p.offset
  <2>1. r.buffered.sdu = FirstSdu(p) /\ p.sno = r.buffered.sno + 1
    BY <1>7 DEF Continues, FirstSdu
  <2>2. r.buffered # Nothing
    BY <1>2, <2>1 DEF Nothing
  <2>3. PICK b \in DOMAIN pdus : Kept(r.done, pdus, b) /\ r.buffered = Tail_(pdus[b])
    BY <1>6, <2>2
  <2>4. LastSdu(pdus[b]) = FirstSdu(p) /\ p.sno = pdus[b].sno + 1 /\ r.buffered.size = Ending(pdus[b])
    BY <2>1, <2>3 DEF Tail_
  <2>5. b \in r.done /\ b < n
    BY <2>3 DEF Kept
  <2>6. Chained(pdus[b], p) /\ p.id = n /\ pdus[b].id = b
    BY <1>1, <1>4, <2>4, <2>5
  <2>7. p.sno = pdus[b].sno + (n - b)
    BY <2>6 DEF Chained
  <2>8. n = b + 1
    <3>1. n \in Nat /\ b \in Nat /\ pdus[b].sno \in Nat
      BY <1>1, <1>2, <1>3
    <3>2. pdus[b].sno + 1 = pdus[b].sno + (n - b)
      BY <2>4, <2>7
    <3> HIDE DEF p
    <3> QED BY <3>1, <3>2
  <2>9. p.offset = Ending(pdus[b])
    BY <2>6, <2>8 DEF Chained
  <2>10. \A m \in DOMAIN pdus : m < n => m \in 1 .. b
    BY <1>1, <2>8
  <2> QED BY <2>3, <2>4, <2>9, <2>10 DEF Kept, AllBefore, p
<1>8. ASSUME p.firstIsFragment, AllBefore(r.done, n)
      PROVE  Continues(r, p)
  <2> DEFINE b == n - 1
  <2>1. b \in DOMAIN pdus /\ b < n /\ n = b + 1 /\ LastSdu(pdus[b]) = FirstSdu(p)
    BY <1>1, <1>2, <1>5, <1>8
  <2> HIDE DEF b
  <2>2. b \in r.done
    BY <1>3, <1>8, <2>1 DEF AllBefore
  <2>3. Chained(pdus[b], p) /\ p.id = n /\ pdus[b].id = b
    BY <1>1, <1>4, <2>1
  <2>4. p.sno = pdus[b].sno + 1
    <3>1. p.sno = pdus[b].sno + (n - b) /\ n - b = 1
      BY <1>1, <2>1, <2>3 DEF Chained
    <3> QED BY <3>1
  <2>5. pdus[b].lastIsFragment
    BY <2>3 DEF Chained
  <2>6. \A m \in 1 .. b : Has(pdus[m], LastSdu(pdus[b])) => m \in r.done
    <3>1. \A m \in 1 .. b : m \in DOMAIN pdus /\ m < n
      BY <1>1, <2>1
    <3> QED BY <1>8, <2>1, <3>1 DEF AllBefore
  <2>7. \A d \in r.done : d <= b
    <3>1. \A d \in r.done : d \in Nat /\ d < n
      BY <1>1 DEF Content
    <3> QED BY <1>1, <2>1, <3>1
  <2>8. Kept(r.done, pdus, b)
    BY <2>2, <2>5, <2>6, <2>7 DEF Kept
  <2>9. b >= c
    <3>1. pdus[b].sno \in Nat /\ b \in Nat /\ p.sno + c = n
      BY <1>1, <1>3, <2>1
    <3> QED BY <1>2, <2>1, <2>4, <3>1
  <2>10. r.buffered = Tail_(pdus[b]) /\ ~r.resetFlag
    BY <2>1, <2>8, <2>9 DEF Joined
  <2> QED BY <2>1, <2>4, <2>10 DEF Continues, Tail_, FirstSdu
<1>9. r.buffered = [sdu |-> r.buffered.sdu, size |-> r.buffered.size, sno |-> r.buffered.sno]
  BY <1>6 DEF Nothing, Tail_
<1> QED BY <1>7, <1>8, <1>9 DEF Holding, Joins

\* The SDUs that a PDU shares with earlier and with later ones.
LEMMA Shared ==
  ASSUME Log(pdus, size), NEW m \in DOMAIN pdus, NEW n \in DOMAIN pdus, NEW s,
         Has(pdus[m], s), Has(pdus[n], s), m < n
  PROVE  /\ s = LastSdu(pdus[m]) /\ s = FirstSdu(pdus[n]) /\ pdus[n].firstIsFragment
         /\ \A i \in DOMAIN pdus[m].parts : pdus[m].parts[i].sdu = s => End(pdus[m], i) # size[s]
         /\ \A j \in DOMAIN pdus[n].parts : pdus[n].parts[j].sdu = s => j = 1
<1>1. \A i \in DOMAIN pdus[m].parts, j \in DOMAIN pdus[n].parts :
        pdus[m].parts[i].sdu = pdus[n].parts[j].sdu =>
          /\ i = Len(pdus[m].parts) /\ j = 1 /\ Chained(pdus[m], pdus[n])
          /\ End(pdus[m], i) # size[pdus[m].parts[i].sdu]
  BY PartsInOrder
<1>2. PICK i \in DOMAIN pdus[m].parts : pdus[m].parts[i].sdu = s
  BY DEF Has
<1>3. PICK j \in DOMAIN pdus[n].parts : pdus[n].parts[j].sdu = s
  BY DEF Has
<1> QED BY <1>1, <1>2, <1>3 DEF LastSdu, FirstSdu, Chained

\* The PDU n is next for r; q is r with it taken.
NextIs(n, r, c) ==
  /\ n \in DOMAIN pdus /\ pdus[n].sno + c = n /\ \A d \in r.done : d < n
  /\ DOMAIN r = RxFields /\ Content(r, pdus, size) /\ Joined(r, pdus, c)

TakenWith(q, r, n, c) ==
  /\ SameWindow(q, r) /\ q.done = r.done \cup {n}
  /\ Content(q, pdus, size) /\ Joined(q, pdus, c)

LEMMA Reassembled ==
  ASSUME Log(pdus, size), NEW r, NEW c \in Int, NEW n, NextIs(n, r, c),
         NEW q, q = Reassemble(r, pdus[n])
  PROVE  TakenWith(q, r, n, c)
<1> USE DEF NextIs
<1> PICK p : p = pdus[n]
  OBVIOUS
<1> DEFINE up == Up(r, p)
<1>1. /\ Len(pdus) \in Nat /\ DOMAIN pdus = 1 .. Len(pdus) /\ size \in Seq(Nat \ {0})
      /\ p \in PduType /\ Shape(p, size) /\ p.id = n
      /\ \A m \in DOMAIN pdus : m \in Nat \ {0}
  BY LogTypes
<1>2. Holding(r, p) /\ (p.firstIsFragment => (Joins(r, p) <=> AllBefore(r.done, n)))
  BY JoinsWhenAll
<1>3. /\ r.done \subseteq DOMAIN pdus /\ r.passedUp \in Seq(Nat) /\ r.err = FALSE
      /\ \A i, j \in DOMAIN r.passedUp : i < j => r.passedUp[i] < r.passedUp[j]
      /\ \A i \in DOMAIN r.passedUp : r.passedUp[i] \in DOMAIN size
      /\ \A s \in DOMAIN size :
           (\E i \in DOMAIN r.passedUp : r.passedUp[i] = s)
             <=> Ended(pdus, size, s) /\ \A m \in DOMAIN pdus : Has(pdus[m], s) => m \in r.done
  BY DEF Content
<1>4. /\ SameWindow(q, r) /\ q.err = FALSE /\ q.done = r.done \cup {n} /\ q.resetFlag = FALSE
      /\ q.passedUp = r.passedUp \o up
      /\ q.buffered = IF p.lastIsFragment /\ (Joins(r, p) \/ ~IsMiddle(p))
                      THEN Tail_(p) ELSE Nothing
  <2>1. q = Reassemble(r, p)
    OBVIOUS
  <2>2. Taken(q, r, p)
    BY <1>1, <1>2, <1>3, <2>1, ReassembleIs
  <2> QED BY <1>1, <2>2 DEF Taken
<1>5. /\ up \in Seq(Nat)
      /\ \A x, y \in DOMAIN up : x < y => up[x] < up[y]
      /\ \A x \in DOMAIN up : \E i \in DOMAIN p.parts : p.parts[i].sdu = up[x] /\ Completes(r, p, i)
      /\ \A i \in DOMAIN p.parts : Completes(r, p, i) => \E x \in DOMAIN up : up[x] = p.parts[i].sdu
  <2>1. PassesUp(up, r, p)
    BY <1>1, UpIs
  <2> QED BY <2>1 DEF PassesUp
<1>6. /\ Len(p.parts) \in Nat \ {0} /\ DOMAIN p.parts = 1 .. Len(p.parts)
      /\ \A i \in DOMAIN p.parts : p.parts[i].sdu \in DOMAIN size /\ p.parts[i].sdu \in Nat \ {0}
  BY <1>1, PartTypes
<1> HIDE DEF up
\* An SDU of this PDU was not passed up before, nor was a later one.
<1>7. ASSUME NEW i \in DOMAIN r.passedUp, NEW x \in DOMAIN up
      PROVE  r.passedUp[i] < up[x]
  <2>1. r.passedUp[i] \in DOMAIN size
    BY <1>3
  <2>2. /\ Ended(pdus, size, r.passedUp[i])
        /\ \A m \in DOMAIN pdus : Has(pdus[m], r.passedUp[i]) => m \in r.done
    BY <1>3, <2>1
  <2>3. PICK m \in DOMAIN pdus : \E k \in DOMAIN pdus[m].parts : pdus[m].parts[k].sdu = r.passedUp[i]
    BY <2>2 DEF Ended
  <2>4. m \in r.done /\ m < n
    BY <2>2, <2>3 DEF Has
  <2>5. PICK k \in DOMAIN pdus[m].parts : pdus[m].parts[k].sdu = r.passedUp[i]
    BY <2>3
  <2>6. PICK j \in DOMAIN p.parts : p.parts[j].sdu = up[x]
    BY <1>5
  <2>7. r.passedUp[i] <= up[x]
    BY <2>4, <2>5, <2>6, PartsInOrder
  <2>8. r.passedUp[i] # up[x]
    <3>1. Has(p, up[x])
      BY <2>6 DEF Has
    <3>2. n \notin r.done
      BY <1>1
    <3> QED BY <2>2, <3>1, <3>2
  <2>9. r.passedUp[i] \in Nat /\ up[x] \in Nat
    BY <1>3, <1>5
  <2> QED BY <2>7, <2>8, <2>9
<1>8. ASSUME NEW x \in DOMAIN up
      PROVE  /\ up[x] \in DOMAIN size /\ Ended(pdus, size, up[x])
             /\ \A m \in DOMAIN pdus : Has(pdus[m], up[x]) => m \in q.done
  <2>1. PICK i \in DOMAIN p.parts : /\ p.parts[i].sdu = up[x] /\ End(p, i) = size[up[x]]
                                    /\ (i = 1 /\ p.firstIsFragment => Joins(r, p))
    BY <1>5 DEF Completes
  <2>2. up[x] \in DOMAIN size
    BY <1>6, <2>1
  <2>3. Ended(pdus, size, up[x])
    BY <2>1 DEF Ended
  <2>4. Has(p, up[x])
    BY <2>1 DEF Has
  <2>5. ASSUME NEW m \in DOMAIN pdus, Has(pdus[m], up[x]) PROVE m \in q.done
    <3>1. CASE m = n
      BY <1>4, <3>1
    <3>2. CASE m < n
      <4>1. up[x] = FirstSdu(p) /\ p.firstIsFragment /\ i = 1
        BY <2>1, <2>4, <2>5, <3>2, Shared
      <4>2. AllBefore(r.done, n)
        BY <1>2, <2>1, <4>1
      <4> QED BY <1>4, <2>5, <3>2, <4>1, <4>2 DEF AllBefore
    <3>3. CASE n < m
      <4>1. End(p, i) # size[up[x]]
        BY <2>1, <2>4, <2>5, <3>3, Shared
      <4> QED BY <2>1, <4>1
    <3> QED BY <1>1, <3>1, <3>2, <3>3
  <2> QED BY <2>2, <2>3, <2>5
<1>9. ASSUME NEW s \in DOMAIN size, Ended(pdus, size, s), \A m \in DOMAIN pdus : Has(pdus[m], s) => m \in q.done,
             Has(p, s)
      PROVE  \E x \in DOMAIN up : up[x] = s
  <2>1. PICK m \in DOMAIN pdus : \E i \in DOMAIN pdus[m].parts :
                                   pdus[m].parts[i].sdu = s /\ End(pdus[m], i) = size[s]
    BY <1>9 DEF Ended
  <2>2. PICK i \in DOMAIN pdus[m].parts : pdus[m].parts[i].sdu = s /\ End(pdus[m], i) = size[s]
    BY <2>1
  <2>3. Has(pdus[m], s)
    BY <2>2 DEF Has
  <2>4. ~(m < n)
    BY <1>9, <2>2, <2>3, Shared
  <2>5. m \in q.done
    BY <1>9, <2>3
  <2>6. m = n
    <3>1. m = n \/ m < n
      BY <1>4, <2>5
    <3> QED BY <2>4, <3>1
  <2>7. i \in DOMAIN p.parts /\ p.parts[i].sdu = s /\ End(p, i) = size[p.parts[i].sdu]
    BY <2>2, <2>6
  <2>8. i = 1 /\ p.firstIsFragment => Joins(r, p)
    <3> SUFFICES ASSUME i = 1, p.firstIsFragment PROVE AllBefore(r.done, n)
      BY <1>2
    <3>1. s = FirstSdu(p)
      BY <2>7 DEF FirstSdu
    <3>2. \A k \in DOMAIN pdus : k < n /\ Has(pdus[k], s) => k \in r.done
      BY <1>1, <1>4, <1>9
    <3> QED BY <3>1, <3>2 DEF AllBefore
  <2>9. Completes(r, p, i)
    BY <2>7, <2>8 DEF Completes
  <2> QED BY <1>5, <2>7, <2>9
<1>10. /\ q.passedUp \in Seq(Nat) /\ Len(q.passedUp) = Len(r.passedUp) + Len(up)
       /\ \A i \in 1 .. Len(r.passedUp) : q.passedUp[i] = r.passedUp[i]
       /\ \A x \in 1 .. Len(up) : q.passedUp[Len(r.passedUp) + x] = up[x]
  <2>1. r.passedUp \in Seq(Nat) /\ up \in Seq(Nat)
    BY <1>3, <1>5
  <2> QED BY <1>4, <2>1, Concatenation
<1> DEFINE k == Len(r.passedUp)
           l == Len(up)
<1>11. /\ k \in Nat /\ l \in Nat /\ DOMAIN r.passedUp = 1 .. k /\ DOMAIN up = 1 .. l
       /\ DOMAIN q.passedUp = 1 .. k + l
  BY <1>3, <1>5, <1>10
<1>12. \A i \in 1 .. k : q.passedUp[i] = r.passedUp[i]
  BY <1>10
<1>13. \A x \in 1 .. l : q.passedUp[k + x] = up[x]
  BY <1>10
<1> HIDE DEF k, l
<1>14. ASSUME NEW i \in 1 .. k + l, ~(i \in 1 .. k)
       PROVE  i - k \in 1 .. l /\ q.passedUp[i] = up[i - k]
  <2>1. i - k \in 1 .. l /\ k + (i - k) = i
    BY <1>11, <1>14
  <2>2. q.passedUp[k + (i - k)] = up[i - k]
    BY <1>13, <2>1
  <2> QED BY <2>1, <2>2
<1>15. \A i, j \in DOMAIN q.passedUp : i < j => q.passedUp[i] < q.passedUp[j]
  <2> SUFFICES ASSUME NEW i \in 1 .. k + l, NEW j \in 1 .. k + l, i < j
               PROVE  q.passedUp[i] < q.passedUp[j]
    BY <1>11
  <2>1. CASE j \in 1 .. k
    <3>1. i \in 1 .. k
      BY <1>11, <2>1
    <3> QED BY <1>3, <1>11, <1>12, <2>1, <3>1
  <2>2. CASE i \in 1 .. k /\ ~(j \in 1 .. k)
    <3>1. j - k \in 1 .. l /\ q.passedUp[j] = up[j - k] /\ q.passedUp[i] = r.passedUp[i]
      BY <1>12, <1>14, <2>2
    <3>2. r.passedUp[i] < up[j - k]
      BY <1>7, <1>11, <2>2, <3>1
    <3> QED BY <3>1, <3>2
  <2>3. CASE ~(i \in 1 .. k) /\ ~(j \in 1 .. k)
    <3>1. /\ i - k \in 1 .. l /\ q.passedUp[i] = up[i - k]
          /\ j - k \in 1 .. l /\ q.passedUp[j] = up[j - k]
      BY <1>14, <2>3
    <3>2. i - k < j - k
      BY <1>11
    <3>3. up[i - k] < up[j - k]
      BY <1>5, <1>11, <3>1, <3>2
    <3> QED BY <3>1, <3>3
  <2> QED BY <2>1, <2>2, <2>3
<1>16. \A i \in DOMAIN q.passedUp :
         \/ \E y \in DOMAIN r.passedUp : q.passedUp[i] = r.passedUp[y]
         \/ \E y \in DOMAIN up : q.passedUp[i] = up[y]
  <2> TAKE i \in DOMAIN q.passedUp
  <2>1. CASE i \in 1 .. k
    BY <1>11, <1>12, <2>1
  <2>2. CASE ~(i \in 1 .. k)
    <3>1. i \in 1 .. k + l
      BY <1>11
    <3>2. i - k \in 1 .. l /\ q.passedUp[i] = up[i - k]
      BY <1>14, <2>2, <3>1
    <3> QED BY <1>11, <3>2
  <2> QED BY <2>1, <2>2
<1>17. \A i \in DOMAIN q.passedUp : q.passedUp[i] \in DOMAIN size
  BY <1>3, <1>8, <1>16
<1>18. \A s : (\E i \in DOMAIN q.passedUp : q.passedUp[i] = s)
                <=> \/ \E i \in DOMAIN r.passedUp : r.passedUp[i] = s
                    \/ \E i \in DOMAIN up : up[i] = s
  <2>1. \A y \in DOMAIN r.passedUp : y \in DOMAIN q.passedUp /\ q.passedUp[y] = r.passedUp[y]
    BY <1>11, <1>12
  <2>2. \A y \in DOMAIN up : k + y \in DOMAIN q.passedUp /\ q.passedUp[k + y] = up[y]
    BY <1>11, <1>13
  <2> QED BY <1>16, <2>1, <2>2
<1>19. ASSUME NEW s \in DOMAIN size
       PROVE  (\E i \in DOMAIN q.passedUp : q.passedUp[i] = s)
                <=> Ended(pdus, size, s) /\ \A m \in DOMAIN pdus : Has(pdus[m], s) => m \in q.done
  <2>1. ASSUME \E i \in DOMAIN r.passedUp : r.passedUp[i] = s
        PROVE  Ended(pdus, size, s) /\ \A m \in DOMAIN pdus : Has(pdus[m], s) => m \in q.done
    BY <1>3, <1>4, <2>1
  <2>2. ASSUME \E i \in DOMAIN up : up[i] = s
        PROVE  Ended(pdus, size, s) /\ \A m \in DOMAIN pdus : Has(pdus[m], s) => m \in q.done
    BY <1>8, <2>2
  <2>3. ASSUME Ended(pdus, size, s), \A m \in DOMAIN pdus : Has(pdus[m], s) => m \in q.done
        PROVE  \/ \E i \in DOMAIN r.passedUp : r.passedUp[i] = s
               \/ \E i \in DOMAIN up : up[i] = s
    <3>1. CASE Has(p, s)
      BY <1>9, <2>3, <3>1
    <3>2. CASE ~Has(p, s)
      <4>1. \A m \in DOMAIN pdus : Has(pdus[m], s) => m \in r.done
        BY <1>4, <2>3, <3>2
      <4> QED BY <1>3, <2>3, <4>1
    <3> QED BY <3>1, <3>2
  <2> QED BY <1>18, <2>1, <2>2, <2>3
\* What is kept.
<1>20. Has(p, LastSdu(p)) /\ n \in q.done /\ \A d \in q.done : d <= n
  <2>1. Len(p.parts) \in DOMAIN p.parts
    BY <1>6
  <2>2. \A d \in r.done : d \in Nat /\ d < n
    BY <1>1, <1>3
  <2> QED BY <1>1, <1>4, <2>1, <2>2 DEF Has, LastSdu
<1>21. \A m \in DOMAIN pdus : m < n /\ Has(pdus[m], LastSdu(p)) =>
          p.firstIsFragment /\ Len(p.parts) = 1 /\ LastSdu(p) = FirstSdu(p)
  <2> SUFFICES ASSUME NEW m \in DOMAIN pdus, m < n, Has(pdus[m], LastSdu(p))
               PROVE  p.firstIsFragment /\ Len(p.parts) = 1 /\ LastSdu(p) = FirstSdu(p)
    OBVIOUS
  <2>1. /\ p.firstIsFragment /\ LastSdu(p) = FirstSdu(p)
        /\ \A j \in DOMAIN p.parts : p.parts[j].sdu = LastSdu(p) => j = 1
    <3> DEFINE s == LastSdu(p)
    <3>1. Has(pdus[m], s) /\ Has(pdus[n], s)
      BY <1>20
    <3> HIDE DEF s
    <3>2. s = FirstSdu(pdus[n]) /\ pdus[n].firstIsFragment
          /\ \A j \in DOMAIN pdus[n].parts : pdus[n].parts[j].sdu = s => j = 1
      BY <3>1, Shared
    <3> QED BY <3>2 DEF s
  <2>2. Len(p.parts) \in DOMAIN p.parts /\ p.parts[Len(p.parts)].sdu = LastSdu(p)
    BY <1>6 DEF LastSdu
  <2>3. Len(p.parts) = 1
    BY <2>1, <2>2
  <2> QED BY <2>1, <2>3
<1>22. ASSUME p.lastIsFragment, Joins(r, p) \/ ~IsMiddle(p)
       PROVE  Kept(q.done, pdus, n)
  <2> SUFFICES ASSUME NEW m \in 1 .. n, Has(pdus[m], LastSdu(p)) PROVE m \in q.done
    BY <1>20, <1>22 DEF Kept
  <2>1. m \in DOMAIN pdus
    BY <1>1
  <2>2. CASE m < n
    <3>1. p.firstIsFragment /\ Len(p.parts) = 1 /\ LastSdu(p) = FirstSdu(p)
      BY <1>21, <2>1, <2>2
    <3>2. Joins(r, p)
      BY <1>22, <3>1 DEF IsMiddle
    <3> QED BY <1>2, <1>4, <2>1, <2>2, <3>1, <3>2 DEF AllBefore
  <2> QED BY <1>1, <1>4, <2>2
<1>23. ASSUME NEW b \in DOMAIN pdus, Kept(q.done, pdus, b)
       PROVE  b = n /\ p.lastIsFragment /\ (Joins(r, p) \/ ~IsMiddle(p))
  <2>1. b \in q.done /\ n <= b
    BY <1>20, <1>23 DEF Kept
  <2>2. b = n
    BY <1>1, <1>20, <2>1
  <2>3. p.lastIsFragment /\ \A m \in 1 .. n : Has(pdus[m], LastSdu(p)) => m \in q.done
    BY <1>23, <2>2 DEF Kept
  <2>4. ASSUME IsMiddle(p) PROVE Joins(r, p)
    <3>1. p.firstIsFragment /\ LastSdu(p) = FirstSdu(p)
      BY <2>4 DEF IsMiddle, LastSdu, FirstSdu
    <3>2. \A m \in DOMAIN pdus : m < n => m \in 1 .. n
      BY <1>1
    <3>3. \A m \in q.done : m < n => m \in r.done
      BY <1>1, <1>4
    <3>4. AllBefore(r.done, n)
      BY <2>3, <3>1, <3>2, <3>3 DEF AllBefore
    <3> QED BY <1>2, <3>1, <3>4
  <2> QED BY <2>2, <2>3, <2>4
<1>24. q.buffered = Nothing \/ \E b \in DOMAIN pdus : Kept(q.done, pdus, b) /\ q.buffered = Tail_(pdus[b])
  BY <1>4, <1>22
<1>25. Joined(q, pdus, c)
  BY <1>4, <1>23 DEF Joined
<1>26. q.done \subseteq DOMAIN pdus
  BY <1>3, <1>4
<1>27. Content(q, pdus, size)
  BY <1>4, <1>10, <1>15, <1>17, <1>19, <1>24, <1>26 DEF Content
<1> QED BY <1>4, <1>25, <1>27 DEF TakenWith

-----------------------------------------------------------------------------
(* reassemble for a range of positions                                      *)

\* One position after the other.
Steps(after, r, from, to) ==
  /\ after[from - 1] = r
  /\ \A i \in from .. to :
       after[i] = IF i \in DOMAIN r.store THEN Reassemble(after[i - 1], r.store[i]) ELSE after[i - 1]
  /\ ReassembleAll(r, from, to) =
       [after[to] EXCEPT !.store = [i \in DOMAIN r.store \ (from .. to) |-> r.store[i]]]

LEMMA ReassembleAllSteps ==
  ASSUME NEW r, NEW from \in Int, NEW to \in Int, from - 1 <= to
  PROVE  \E after : Steps(after, r, from, to)
<1> DEFINE Step(before, i) == IF i \in DOMAIN r.store THEN Reassemble(before, r.store[i]) ELSE before
           Is(f, m) == f = [i \in from - 1 .. m |-> IF i < from THEN r
                                                     ELSE IF i \in DOMAIN r.store
                                                     THEN Reassemble(f[i - 1], r.store[i]) ELSE f[i - 1]]
<1>1. \E f : Is(f, from - 1)
  <2> DEFINE f == [i \in from - 1 .. from - 1 |-> r]
  <2>1. Is(f, from - 1)
    OBVIOUS
  <2> QED BY <2>1
<1>2. ASSUME NEW m \in Int, from <= m, \E g : Is(g, m - 1) PROVE \E f : Is(f, m)
  <2>1. PICK g : Is(g, m - 1)
    BY <1>2
  <2> DEFINE f == [i \in from - 1 .. m |-> IF i = m THEN Step(g[m - 1], m) ELSE g[i]]
  <2>2. ASSUME NEW i \in from - 1 .. m
        PROVE  f[i] = IF i < from THEN r ELSE IF i \in DOMAIN r.store
                                              THEN Reassemble(f[i - 1], r.store[i]) ELSE f[i - 1]
    <3>1. CASE i = m
      <4>1. f[i] = Step(g[m - 1], m) /\ ~(i < from)
        BY <1>2, <3>1
      <4>2. f[i - 1] = g[m - 1]
        BY <1>2, <3>1
      <4> QED BY <3>1, <4>1, <4>2
    <3>2. CASE i # m
      <4>1. i \in from - 1 .. m - 1 /\ f[i] = g[i]
        BY <1>2, <3>2
      <4>2. ~(i < from) => i - 1 \in from - 1 .. m /\ i - 1 # m
        BY <1>2, <3>2
      <4>3. ~(i < from) => f[i - 1] = g[i - 1]
        BY <4>2
      <4>4. g[i] = IF i < from THEN r ELSE IF i \in DOMAIN r.store
                                           THEN Reassemble(g[i - 1], r.store[i]) ELSE g[i - 1]
        BY <2>1, <4>1
      <4> HIDE DEF f
      <4> QED BY <4>1, <4>3, <4>4
    <3> QED BY <3>1, <3>2
  <2>3. Is(f, m)
    BY <2>2
  <2> QED BY <2>3
<1>3. \E f : Is(f, to)
  <2> HIDE DEF Is
  <2> DEFINE B == {m \in Nat : from - 1 + m <= to /\ ~ \E f : Is(f, from - 1 + m)}
  <2>1. B = {}
    <3> SUFFICES ASSUME B # {} PROVE FALSE
      OBVIOUS
    <3>1. PICK m \in B : \A k \in B : m <= k
      BY LeastNumber
    <3>2. m \in Nat /\ ~ \E f : Is(f, from - 1 + m)
      BY <3>1
    <3>3. m # 0
      BY <3>2, <1>1
    <3>4. m - 1 \in Nat /\ m - 1 \notin B /\ from - 1 + (m - 1) <= to
      BY <3>1, <3>2, <3>3
    <3>5. \E g : Is(g, from - 1 + (m - 1))
      BY <3>4
    <3> PICK k : k = from - 1 + m
      OBVIOUS
    <3>6. k \in Int /\ from <= k /\ from - 1 + (m - 1) = k - 1
      BY <3>2, <3>3
    <3>7. \E g : Is(g, k - 1)
      BY <3>5, <3>6
    <3>8. ~ \E f : Is(f, k)
      BY <3>2
    <3> QED BY <3>6, <3>7, <3>8, <1>2
  <2> PICK m : m = to - (from - 1)
    OBVIOUS
  <2>2. m \in Nat /\ from - 1 + m = to
    OBVIOUS
  <2>3. m \notin B
    BY <2>1
  <2>4. \E f : Is(f, from - 1 + m)
    BY <2>2, <2>3
  <2> QED BY <2>2, <2>4
<1> DEFINE after == CHOOSE f : Is(f, to)
<1>4. Is(after, to)
  BY <1>3
<1>5. ReassembleAll(r, from, to) =
        [after[to] EXCEPT !.store = [i \in DOMAIN r.store \ (from .. to) |-> r.store[i]]]
  BY Zenon DEF ReassembleAll
<1>6. after[from - 1] = r
  <2>1. from - 1 \in from - 1 .. to /\ from - 1 < from
    OBVIOUS
  <2> HIDE DEF after
  <2> QED BY <1>4, <2>1
<1>7. ASSUME NEW i \in from .. to
      PROVE  after[i] = IF i \in DOMAIN r.store THEN Reassemble(after[i - 1], r.store[i]) ELSE after[i - 1]
  <2>1. i \in from - 1 .. to /\ ~(i < from)
    OBVIOUS
  <2> HIDE DEF after
  <2> QED BY <1>4, <2>1
<1> HIDE DEF after
<1>8. Steps(after, r, from, to)
  BY <1>5, <1>6, <1>7 DEF Steps
<1> QED BY <1>8

\* The fields that reassemble for a range of positions leaves alone.
SameNumbers(q, r) ==
  /\ DOMAIN q = RxFields
  /\ q.firstSno = r.firstSno /\ q.firstSnoForReordering = r.firstSnoForReordering
  /\ q.highestReceivedSno = r.highestReceivedSno /\ q.reorderingSno = r.reorderingSno
  /\ q.windowSize = r.windowSize /\ q.init = r.init /\ q.timer = r.timer

LEMMA SameContent ==
  ASSUME NEW L, NEW z, NEW c, NEW r, Content(r, L, z), NEW q, q.done = r.done, q.passedUp = r.passedUp,
         q.err = r.err, q.buffered = r.buffered
  PROVE  /\ Content(q, L, z)
         /\ Joined(r, L, c) /\ q.resetFlag = r.resetFlag => Joined(q, L, c)
BY DEF Content, Joined

\* Before and after a range of positions is reassembled.
Ready(r, c) ==
  /\ DOMAIN r = RxFields /\ Content(r, pdus, size) /\ Joined(r, pdus, c) /\ Stored(r, pdus, c)
  /\ DOMAIN r.store \subseteq Nat /\ r.firstSno \in Nat

WithoutRange(q, r, from, to, c) ==
  /\ SameNumbers(q, r) /\ Content(q, pdus, size) /\ Joined(q, pdus, c)
  /\ q.store = [i \in DOMAIN r.store \ (from .. to) |-> r.store[i]]
  /\ q.done = r.done \cup {r.firstSno + c + i : i \in DOMAIN r.store \cap (from .. to)}

LEMMA AllReassembled ==
  ASSUME Log(pdus, size), NEW r, NEW c \in Int, Ready(r, c),
         NEW from \in Int, NEW to \in Int, from - 1 <= to,
         NEW q, q = ReassembleAll(r, from, to)
  PROVE  WithoutRange(q, r, from, to, c)
<1> USE DEF Ready
<1> DEFINE Taken_(i) == {r.firstSno + c + j : j \in DOMAIN r.store \cap (from .. i)}
           Good(s, i) == /\ SameWindow(s, r) /\ Content(s, pdus, size) /\ Joined(s, pdus, c)
                         /\ s.done = r.done \cup Taken_(i)
<1>0. PICK after : Steps(after, r, from, to)
  BY ReassembleAllSteps
<1>1. /\ after[from - 1] = r
      /\ \A i \in from .. to :
           after[i] = IF i \in DOMAIN r.store THEN Reassemble(after[i - 1], r.store[i]) ELSE after[i - 1]
      /\ ReassembleAll(r, from, to) =
           [after[to] EXCEPT !.store = [i \in DOMAIN r.store \ (from .. to) |-> r.store[i]]]
  BY <1>0 DEF Steps
<1>2. Good(after[from - 1], from - 1)
  <2>1. Taken_(from - 1) = {}
    OBVIOUS
  <2> HIDE DEF Taken_
  <2> QED BY <1>1, <2>1 DEF SameWindow
<1>3. ASSUME NEW i \in from .. to, Good(after[i - 1], i - 1) PROVE Good(after[i], i)
  <2> PICK s : s = after[i - 1]
    OBVIOUS
  <2>1. /\ SameWindow(s, r) /\ Content(s, pdus, size) /\ Joined(s, pdus, c)
        /\ s.done = r.done \cup Taken_(i - 1)
    BY <1>3
  <2>2. CASE i \notin DOMAIN r.store
    <3>1. after[i] = s
      BY <1>1, <2>2
    <3>2. DOMAIN r.store \cap (from .. i) = DOMAIN r.store \cap (from .. i - 1)
      BY <2>2
    <3> QED BY <2>1, <3>1, <3>2
  <2>3. CASE i \in DOMAIN r.store
    <3> PICK n : n = r.firstSno + i + c
      OBVIOUS
    <3>1. /\ n \in DOMAIN pdus /\ r.store[i] = pdus[n] /\ pdus[n].sno = r.firstSno + i
          /\ \A d \in r.done : d < n
      BY <2>3 DEF Stored
    <3>2. after[i] = Reassemble(s, pdus[n])
      BY <1>1, <2>3, <3>1
    <3>3. \A d \in Taken_(i - 1) : d < n
      <4>1. i \in Int /\ r.firstSno \in Int
        OBVIOUS
      <4> QED BY <4>1
    <3>4. \A d \in s.done : d < n
      BY <2>1, <3>1, <3>3
    <3>5. pdus[n].sno + c = n
      BY <2>3, <3>1
    <3>6. DOMAIN s = RxFields
      BY <2>1 DEF SameWindow
    <3> HIDE DEF Taken_
    <3> PICK t : t = after[i]
      OBVIOUS
    <3>7. /\ SameWindow(t, s) /\ t.done = s.done \cup {n}
          /\ Content(t, pdus, size) /\ Joined(t, pdus, c)
      <4>1. t = Reassemble(s, pdus[n]) /\ n \in DOMAIN pdus
        BY <3>1, <3>2
      <4>2. Content(s, pdus, size) /\ Joined(s, pdus, c)
        BY <2>1
      <4>3. NextIs(n, s, c)
        BY <3>4, <3>5, <3>6, <4>1, <4>2 DEF NextIs
      <4> QED BY <4>1, <4>3, Reassembled DEF TakenWith
    <3>8. Taken_(i) = Taken_(i - 1) \cup {n}
      <4>1. DOMAIN r.store \cap (from .. i) = (DOMAIN r.store \cap (from .. i - 1)) \cup {i}
        BY <2>3
      <4>2. n = r.firstSno + c + i
        OBVIOUS
      <4> QED BY <4>1, <4>2 DEF Taken_
    <3> QED BY <2>1, <3>7, <3>8 DEF SameWindow
  <2> QED BY <2>2, <2>3
<1> HIDE DEF Good
<1>4. Good(after[to], to)
  <2> DEFINE B == {m \in Nat : from - 1 + m <= to /\ ~Good(after[from - 1 + m], from - 1 + m)}
  <2>1. B = {}
    <3> SUFFICES ASSUME B # {} PROVE FALSE
      OBVIOUS
    <3>1. PICK m \in B : \A k \in B : m <= k
      BY LeastNumber
    <3>2. m \in Nat /\ from - 1 + m <= to /\ ~Good(after[from - 1 + m], from - 1 + m)
      BY <3>1
    <3>3. m # 0
      BY <3>2, <1>2
    <3>4. m - 1 \in Nat /\ m - 1 \notin B /\ from - 1 + (m - 1) <= to
      BY <3>1, <3>2, <3>3
    <3>5. Good(after[from - 1 + (m - 1)], from - 1 + (m - 1))
      BY <3>4
    <3>6. from - 1 + m \in from .. to /\ from - 1 + (m - 1) = (from - 1 + m) - 1
      BY <3>2, <3>3
    <3> QED BY <3>2, <3>5, <3>6, <1>3
  <2>2. to - (from - 1) \in Nat /\ to - (from - 1) \notin B /\ from - 1 + (to - (from - 1)) = to
    BY <2>1
  <2> QED BY <2>2
<1> PICK s : s = after[to]
  OBVIOUS
<1>5. /\ SameWindow(s, r) /\ Content(s, pdus, size) /\ Joined(s, pdus, c)
      /\ s.done = r.done \cup Taken_(to)
  BY <1>4 DEF Good
<1>6. q = [s EXCEPT !.store = [i \in DOMAIN r.store \ (from .. to) |-> r.store[i]]]
  BY <1>1
<1>7. /\ SameNumbers(q, s) /\ q.done = s.done /\ q.passedUp = s.passedUp /\ q.err = s.err
      /\ q.buffered = s.buffered /\ q.resetFlag = s.resetFlag
      /\ q.store = [i \in DOMAIN r.store \ (from .. to) |-> r.store[i]]
  <2> PICK st : st = [i \in DOMAIN r.store \ (from .. to) |-> r.store[i]]
    OBVIOUS
  <2>1. q = [s EXCEPT !.store = st] /\ DOMAIN s = RxFields
    BY <1>5, <1>6 DEF SameWindow
  <2>2. q.store = st
    BY <2>1 DEF RxFields, RxReset
  <2> QED BY <2>1, <2>2 DEF SameNumbers, RxFields, RxReset
<1>8. Content(q, pdus, size) /\ Joined(q, pdus, c)
  BY <1>5, <1>7, SameContent
<1>9. SameNumbers(q, r)
  BY <1>5, <1>7 DEF SameWindow, SameNumbers
<1> QED BY <1>5, <1>7, <1>8, <1>9 DEF WithoutRange

-----------------------------------------------------------------------------
(* The window                                                               *)

RxOk(r, c) ==
  /\ DOMAIN r = RxFields /\ Window(r) /\ Content(r, pdus, size)
  /\ Stored(r, pdus, c) /\ Joined(r, pdus, c)

LEMMA WindowTypes ==
  ASSUME NEW r, Window(r)
  PROVE  /\ r.firstSno \in Nat /\ r.firstSnoForReordering \in Nat /\ r.highestReceivedSno \in Nat
         /\ r.reorderingSno \in Nat /\ RxWindowSize \in Nat \ {0}
         /\ r.windowSize \in 1 .. RxWindowSize
         /\ r.firstSno <= r.firstSnoForReordering
         /\ r.firstSnoForReordering <= r.highestReceivedSno
         /\ r.reorderingSno <= r.highestReceivedSno
         /\ r.highestReceivedSno <= r.firstSno + RxWindowSize
         /\ \A i \in DOMAIN r.store : /\ i \in Nat
                                      /\ r.firstSnoForReordering <= r.firstSno + i
                                      /\ r.firstSno + i < r.highestReceivedSno
BY RlcUmAssumption DEF Window

\* q is r without the positions up to one: what was taken lies before what is still
\* stored.
Beyond(q, r, to, c) ==
  /\ SameNumbers(q, r) /\ Content(q, pdus, size) /\ Joined(q, pdus, c)
  /\ DOMAIN q.store = {i \in DOMAIN r.store : to < i}
  /\ \A i \in DOMAIN q.store : q.store[i] = r.store[i]
  /\ \A d \in q.done : d \in Nat /\ (d < r.firstSnoForReordering + c \/ d <= r.firstSno + c + to)
  /\ \A i \in DOMAIN q.store : \A d \in q.done : d < r.firstSno + c + i
  /\ DOMAIN r.store = {} => q.done = r.done

LEMMA RangeTaken ==
  ASSUME Log(pdus, size), NEW r, NEW c \in Int, RxOk(r, c),
         NEW from \in Int, NEW to \in Int, from - 1 <= to, r.firstSno + from <= r.firstSnoForReordering,
         NEW q, q = ReassembleAll(r, from, to)
  PROVE  Beyond(q, r, to, c)
<1>1. /\ r.firstSno \in Nat /\ r.firstSnoForReordering \in Nat
      /\ \A i \in DOMAIN r.store : i \in Nat /\ r.firstSnoForReordering <= r.firstSno + i
  BY WindowTypes DEF RxOk
<1>2. /\ SameNumbers(q, r) /\ Content(q, pdus, size) /\ Joined(q, pdus, c)
      /\ q.store = [i \in DOMAIN r.store \ (from .. to) |-> r.store[i]]
      /\ q.done = r.done \cup {r.firstSno + c + i : i \in DOMAIN r.store \cap (from .. to)}
  <2>1. DOMAIN r.store \subseteq Nat
    BY <1>1
  <2>2. Ready(r, c)
    BY <1>1, <2>1 DEF RxOk, Ready
  <2>3. WithoutRange(q, r, from, to, c)
    BY <2>2, AllReassembled
  <2> QED BY <2>3 DEF WithoutRange
<1>3. \A i \in DOMAIN r.store : i \in Nat /\ from <= i
  BY <1>1
<1>4. DOMAIN r.store \ (from .. to) = {i \in DOMAIN r.store : to < i}
  BY <1>3
<1>5. /\ DOMAIN q.store = {i \in DOMAIN r.store : to < i}
      /\ \A i \in DOMAIN q.store : q.store[i] = r.store[i]
  BY <1>2, <1>4
<1>6. \A d \in q.done \ r.done : \E i \in DOMAIN r.store \cap (from .. to) : d = r.firstSno + c + i
  BY <1>2
<1>7. \A d \in r.done : d < r.firstSnoForReordering + c /\ d \in Nat
  <2>1. r.done \subseteq Nat
    BY LogTypes DEF RxOk, Content
  <2> QED BY <2>1 DEF RxOk, Stored
<1>8. \A d \in q.done \ r.done : d \in Int /\ d <= r.firstSno + c + to
  BY <1>1, <1>3, <1>6
<1>9. ASSUME NEW i \in DOMAIN q.store, NEW d \in q.done PROVE d < r.firstSno + c + i
  <2>1. i \in DOMAIN r.store /\ to < i /\ i \in Nat
    BY <1>3, <1>5
  <2>2. CASE d \in r.done
    BY <1>1, <1>7, <2>1, <2>2
  <2>3. CASE d \notin r.done
    BY <1>1, <1>8, <2>1, <2>3
  <2> QED BY <2>2, <2>3
<1>10. \A d \in q.done : d \in Nat
  BY <1>2, LogTypes DEF Content
<1> QED BY <1>2, <1>5, <1>7, <1>8, <1>9, <1>10 DEF Beyond

LEMMA OfTwo ==
  ASSUME NEW a \in Nat, NEW b \in Nat
  PROVE  /\ Max({a, b}) \in {a, b} /\ a <= Max({a, b}) /\ b <= Max({a, b})
         /\ Min({a, b}) \in {a, b} /\ Min({a, b}) <= a /\ Min({a, b}) <= b
<1>1. a + b \in Nat /\ {a, b} \in SUBSET (0 .. a + b) /\ {a, b} \in SUBSET Nat
  OBVIOUS
<1>2. Max({a, b}) \in {a, b} /\ \A k \in {a, b} : k <= Max({a, b})
  BY <1>1, MaxOf
<1>3. Min({a, b}) \in {a, b} /\ \A k \in {a, b} : Min({a, b}) <= k
  BY <1>1, MinOf
<1> QED BY <1>2, <1>3

\* There is room for the PDU sno.
Fits(r, sno) ==
  /\ r.firstSnoForReordering <= sno /\ sno < r.highestReceivedSno
  /\ sno - r.firstSno \notin DOMAIN r.store

LEMMA Shifted ==
  ASSUME NEW r, Window(r), NEW sno \in Nat, r.highestReceivedSno <= sno
  PROVE  /\ Shift(r, sno) \in Nat /\ r.firstSno + Shift(r, sno) <= sno
         /\ sno < r.firstSno + Shift(r, sno) + RxWindowSize
<1> DEFINE a == sno + 1 - r.highestReceivedSno
           b == sno - r.firstSno
<1>1. /\ r.firstSno \in Nat /\ r.highestReceivedSno \in Nat /\ RxWindowSize \in Nat \ {0}
      /\ r.windowSize \in 1 .. RxWindowSize /\ r.firstSno <= r.highestReceivedSno
      /\ r.highestReceivedSno <= r.firstSno + RxWindowSize
  BY WindowTypes
<1>2. a \in Nat /\ b \in Nat
  BY <1>1
<1>3. Shift(r, sno) = IF r.firstSno + r.windowSize < sno + 1 THEN Min({a, b}) ELSE 0
  BY DEF Shift
<1>4. a = sno + 1 - r.highestReceivedSno /\ b = sno - r.firstSno
  OBVIOUS
<1> HIDE DEF a, b
<1>5. Min({a, b}) \in {a, b} /\ Min({a, b}) <= a /\ Min({a, b}) <= b
  BY <1>2, OfTwo
<1>6. CASE r.firstSno + r.windowSize < sno + 1
  <2>1. Shift(r, sno) \in {a, b} /\ Shift(r, sno) <= b
    BY <1>3, <1>5, <1>6
  <2> QED BY <1>1, <1>2, <1>4, <2>1
<1>7. CASE ~(r.firstSno + r.windowSize < sno + 1)
  BY <1>1, <1>3, <1>7
<1> QED BY <1>6, <1>7

\* The window moves to a PDU that does not fit, or is ahead of it already.
LEMMA Advanced ==
  ASSUME Log(pdus, size), NEW r, NEW c \in Int, RxOk(r, c), NEW sno \in Nat,
         r.firstSnoForReordering <= sno,
         sno < r.highestReceivedSno => sno - r.firstSno \notin DOMAIN r.store,
         NEW q, q = Advance(r, sno)
  PROVE  RxOk(q, c) /\ Fits(q, sno) /\ q.init = r.init
<1>1. CASE sno < r.highestReceivedSno
  <2>1. q = r
    BY <1>1 DEF Advance
  <2> QED BY <1>1, <2>1 DEF Fits
<1>2. CASE ~(sno < r.highestReceivedSno)
  <2> PICK sh : sh = Shift(r, sno)
    OBVIOUS
  <2> PICK m : m = ReassembleAll(r, 0, sh - 1)
    OBVIOUS
  <2>1. /\ r.firstSno \in Nat /\ r.highestReceivedSno \in Nat /\ RxWindowSize \in Nat \ {0}
        /\ r.firstSnoForReordering \in Nat /\ r.reorderingSno \in Nat
        /\ r.windowSize \in 1 .. RxWindowSize
        /\ r.firstSno <= r.firstSnoForReordering
        /\ r.firstSnoForReordering <= r.highestReceivedSno /\ r.reorderingSno <= r.highestReceivedSno
        /\ \A i \in DOMAIN r.store : /\ i \in Nat
                                     /\ r.firstSnoForReordering <= r.firstSno + i
                                     /\ r.firstSno + i < r.highestReceivedSno
    BY WindowTypes DEF RxOk
  <2>2. Window(r) /\ r.highestReceivedSno <= sno
    BY <1>2, <2>1 DEF RxOk
  <2>3. /\ sh \in Nat /\ r.firstSno + sh <= sno /\ sno < r.firstSno + sh + RxWindowSize
    BY <2>2, Shifted
  <2>4. 0 - 1 <= sh - 1 /\ sh - 1 \in Int /\ r.firstSno + 0 <= r.firstSnoForReordering
    BY <2>1, <2>3
  <2>5. Beyond(m, r, sh - 1, c)
    BY <2>4, RangeTaken
  <2>6. /\ SameNumbers(m, r) /\ Content(m, pdus, size) /\ Joined(m, pdus, c)
        /\ DOMAIN m.store = {i \in DOMAIN r.store : sh - 1 < i}
        /\ \A i \in DOMAIN m.store : m.store[i] = r.store[i]
        /\ \A d \in m.done : d \in Nat /\ (d < r.firstSnoForReordering + c \/ d <= r.firstSno + c + (sh - 1))
        /\ \A i \in DOMAIN m.store : \A d \in m.done : d < r.firstSno + c + i
    BY <2>5 DEF Beyond
  <2> PICK fsr : fsr = Max({r.firstSnoForReordering, r.firstSno + sh})
    OBVIOUS
  <2>7. fsr \in {r.firstSnoForReordering, r.firstSno + sh} /\ r.firstSnoForReordering <= fsr /\ r.firstSno + sh <= fsr
    <3>1. r.firstSnoForReordering \in Nat /\ r.firstSno + sh \in Nat
      BY <2>1, <2>3
    <3> QED BY <3>1, OfTwo
  <2> PICK st : st = [i \in {j - sh : j \in {k \in DOMAIN m.store : k >= sh}} |-> m.store[i + sh]]
    OBVIOUS
  <2>8. q = [[[m EXCEPT !.store = st, !.firstSno = m.firstSno + sh] EXCEPT !.highestReceivedSno = sno + 1]
              EXCEPT !.firstSnoForReordering = fsr]
    <3>1. m.firstSnoForReordering = r.firstSnoForReordering /\ DOMAIN m = RxFields
      BY <2>6 DEF SameNumbers
    <3>2. q = [[m EXCEPT !.store = st, !.firstSno = m.firstSno + sh] EXCEPT !.highestReceivedSno = sno + 1,
                !.firstSnoForReordering = Max({m.firstSnoForReordering, r.firstSno + sh})]
      BY <1>2, <3>1 DEF Advance, MoveRxWindow, RxFields, RxReset
    <3> QED BY <3>1, <3>2
  <2>9. /\ DOMAIN q = RxFields /\ q.firstSno = r.firstSno + sh /\ q.firstSnoForReordering = fsr
        /\ q.highestReceivedSno = sno + 1 /\ q.reorderingSno = r.reorderingSno
        /\ q.windowSize = r.windowSize /\ q.init = r.init /\ q.store = st
        /\ q.done = m.done /\ q.passedUp = m.passedUp /\ q.err = m.err
        /\ q.buffered = m.buffered /\ q.resetFlag = m.resetFlag
    BY <2>6, <2>8 DEF SameNumbers, RxFields, RxReset
  <2>10. /\ \A i \in DOMAIN q.store : i \in Nat /\ i + sh \in DOMAIN r.store /\ q.store[i] = r.store[i + sh]
                                     /\ i + sh \in DOMAIN m.store
    <3>1. \A i \in DOMAIN m.store : i \in Nat /\ i \in DOMAIN r.store /\ m.store[i] = r.store[i] /\ i >= sh
      BY <2>1, <2>3, <2>6
    <3>2. \A i \in DOMAIN st : i \in Nat /\ i + sh \in DOMAIN m.store /\ st[i] = m.store[i + sh]
      BY <2>3, <3>1
    <3>3. ASSUME NEW i \in DOMAIN st
          PROVE  i + sh \in DOMAIN r.store /\ st[i] = r.store[i + sh]
      <4> PICK j : j = i + sh
        OBVIOUS
      <4>1. j \in DOMAIN m.store /\ st[i] = m.store[j]
        BY <3>2
      <4>2. j \in DOMAIN r.store /\ st[i] = r.store[j]
        BY <3>1, <4>1
      <4> QED BY <4>2
    <3>4. q.store = st
      BY <2>9
    <3> QED BY <3>2, <3>3, <3>4
  <2>11. Window(q)
    <3>1. /\ q.firstSno \in Nat /\ q.firstSnoForReordering \in Nat /\ q.highestReceivedSno \in Nat
          /\ q.firstSno <= q.firstSnoForReordering /\ q.firstSnoForReordering <= q.highestReceivedSno
          /\ q.reorderingSno <= q.highestReceivedSno /\ q.highestReceivedSno <= q.firstSno + RxWindowSize
      BY <2>1, <2>2, <2>3, <2>7, <2>9
    <3>2. \A i \in DOMAIN q.store : /\ q.firstSnoForReordering <= q.firstSno + i
                                    /\ q.firstSno + i < q.highestReceivedSno
      <4> TAKE i \in DOMAIN q.store
      <4>1. i \in Nat /\ r.firstSnoForReordering <= r.firstSno + (i + sh) /\ r.firstSno + (i + sh) < r.highestReceivedSno
        BY <2>1, <2>10
      <4> QED BY <2>1, <2>2, <2>3, <2>7, <2>9, <4>1
    <3> QED BY <2>1, <2>9, <2>10, <3>1, <3>2 DEF Window
  <2>12. Stored(q, pdus, c)
    <3>1. ASSUME NEW i \in DOMAIN q.store
          PROVE  /\ q.firstSno + i + c \in DOMAIN pdus /\ q.store[i] = pdus[q.firstSno + i + c]
                 /\ pdus[q.firstSno + i + c].sno = q.firstSno + i
                 /\ \A d \in q.done : d < q.firstSno + i + c
      <4> PICK j : j = i + sh
        OBVIOUS
      <4>1. i \in Nat /\ j \in DOMAIN r.store /\ q.store[i] = r.store[j] /\ j \in DOMAIN m.store
        BY <2>10
      <4>2. /\ r.firstSno + j + c \in DOMAIN pdus /\ r.store[j] = pdus[r.firstSno + j + c]
            /\ pdus[r.firstSno + j + c].sno = r.firstSno + j
        BY <4>1 DEF RxOk, Stored
      <4>3. r.firstSno + j = q.firstSno + i /\ r.firstSno + c + j = q.firstSno + i + c
            /\ r.firstSno + j + c = q.firstSno + i + c
        BY <2>1, <2>3, <2>9, <4>1
      <4>4. \A d \in q.done : d < r.firstSno + c + j
        BY <2>6, <2>9, <4>1
      <4> QED BY <4>1, <4>2, <4>3, <4>4
    <3>2. \A d \in q.done : d < q.firstSnoForReordering + c
      BY <2>1, <2>3, <2>6, <2>7, <2>9
    <3> QED BY <3>1, <3>2 DEF Stored
  <2>13. Content(q, pdus, size) /\ Joined(q, pdus, c)
    BY <2>6, <2>9, SameContent
  <2>14. Fits(q, sno)
    <3>1. sno - q.firstSno \notin DOMAIN q.store
      <4> SUFFICES ASSUME sno - q.firstSno \in DOMAIN q.store PROVE FALSE
        OBVIOUS
      <4> PICK i : i = sno - q.firstSno
        OBVIOUS
      <4>1. i + sh \in DOMAIN r.store /\ i \in Nat
        BY <2>10
      <4>2. r.firstSno + (i + sh) < r.highestReceivedSno
        BY <2>1, <4>1
      <4> QED BY <2>1, <2>2, <2>3, <2>9, <4>1, <4>2
    <3> QED BY <2>1, <2>2, <2>3, <2>7, <2>9, <3>1 DEF Fits
  <2> QED BY <2>9, <2>11, <2>12, <2>13, <2>14 DEF RxOk
<1> QED BY <1>1, <1>2

\* A PDU of the current mode takes its place.
LEMMA Placed ==
  ASSUME Log(pdus, size), NEW r, NEW c \in Int, RxOk(r, c), NEW p, Known(p, pdus, c), Fits(r, p.sno),
         NEW q, q = Store(r, p)
  PROVE  RxOk(q, c) /\ q.init = r.init
<1> PICK i : i = p.sno - r.firstSno
  OBVIOUS
<1>1. /\ r.firstSno \in Nat /\ r.highestReceivedSno \in Nat /\ RxWindowSize \in Nat \ {0}
      /\ r.firstSnoForReordering \in Nat /\ r.firstSno <= r.firstSnoForReordering
      /\ r.highestReceivedSno <= r.firstSno + RxWindowSize
      /\ \A j \in DOMAIN r.store : /\ j \in Nat
                                   /\ r.firstSnoForReordering <= r.firstSno + j
                                   /\ r.firstSno + j < r.highestReceivedSno
  BY WindowTypes DEF RxOk
<1>2. p.id \in DOMAIN pdus /\ p = pdus[p.id] /\ p.id = p.sno + c
  BY DEF Known
<1>3. p.sno \in Nat
  <2>1. pdus[p.id] \in PduType
    BY <1>2, LogTypes
  <2> QED BY <1>2, <2>1 DEF PduType
<1>4. /\ r.firstSnoForReordering <= p.sno /\ p.sno < r.highestReceivedSno /\ i \notin DOMAIN r.store
  BY DEF Fits
<1>5. i \in Nat /\ i < RxWindowSize /\ r.firstSno + i = p.sno
  BY <1>1, <1>3, <1>4
<1>6. ~(i \in DOMAIN r.store \/ i >= RxWindowSize)
  BY <1>1, <1>4, <1>5
<1> PICK st : st = [j \in DOMAIN r.store \cup {i} |-> IF j = i THEN p ELSE r.store[j]]
  OBVIOUS
<1>7. q = [r EXCEPT !.store = st]
  <2>1. DOMAIN r = RxFields
    BY DEF RxOk
  <2> QED BY <1>6, <2>1 DEF Store, RxFields, RxReset
<1>8. /\ SameNumbers(q, r) /\ q.store = st
      /\ q.done = r.done /\ q.passedUp = r.passedUp /\ q.err = r.err
      /\ q.buffered = r.buffered /\ q.resetFlag = r.resetFlag
  BY <1>7 DEF RxOk, SameNumbers, RxFields, RxReset
<1>9. Content(q, pdus, size) /\ Joined(q, pdus, c)
  BY <1>8, SameContent DEF RxOk
<1>10. Window(q)
  <2>1. \A j \in DOMAIN q.store : /\ j \in Nat
                                  /\ r.firstSnoForReordering <= r.firstSno + j
                                  /\ r.firstSno + j < r.highestReceivedSno
    BY <1>1, <1>4, <1>5, <1>8
  <2> QED BY <1>8, <2>1 DEF RxOk, Window, SameNumbers
<1>11. Stored(q, pdus, c)
  <2>1. \A d \in r.done : d \in Nat /\ d < r.firstSnoForReordering + c
    BY LogTypes DEF RxOk, Content, Stored
  <2>2. ASSUME NEW j \in DOMAIN q.store
        PROVE  /\ r.firstSno + j + c \in DOMAIN pdus /\ q.store[j] = pdus[r.firstSno + j + c]
               /\ pdus[r.firstSno + j + c].sno = r.firstSno + j
               /\ \A d \in r.done : d < r.firstSno + j + c
    <3>1. CASE j = i
      <4>1. r.firstSno + j + c = p.id
        BY <1>1, <1>2, <1>3, <1>5, <3>1
      <4>2. q.store[j] = p
        BY <1>8, <3>1
      <4>3. \A d \in r.done : d < p.id
        BY <1>1, <1>2, <1>3, <1>4, <2>1
      <4> QED BY <1>2, <1>5, <3>1, <4>1, <4>2, <4>3
    <3>2. CASE j # i
      <4>1. j \in DOMAIN r.store /\ q.store[j] = r.store[j]
        BY <1>8, <3>2
      <4> QED BY <4>1 DEF RxOk, Stored
    <3> QED BY <3>1, <3>2
  <2> QED BY <1>8, <2>1, <2>2 DEF Stored, SameNumbers
<1> QED BY <1>8, <1>9, <1>10, <1>11 DEF RxOk, SameNumbers

LEMMA Stops ==
  ASSUME NEW r, Window(r), NEW sno \in Nat, sno <= r.highestReceivedSno
  PROVE  /\ Stop(r, sno) \in Nat /\ r.firstSnoForReordering <= Stop(r, sno)
         /\ Stop(r, sno) <= r.highestReceivedSno
<1> DEFINE S == {n \in r.firstSnoForReordering .. r.firstSno + RxWindowSize :
                   \/ n > r.firstSnoForReordering /\ n = r.highestReceivedSno
                   \/ n >= sno /\ n - r.firstSno \notin DOMAIN r.store}
<1>1. /\ r.firstSno \in Nat /\ r.highestReceivedSno \in Nat /\ RxWindowSize \in Nat
      /\ r.firstSnoForReordering \in Nat /\ r.firstSnoForReordering <= r.highestReceivedSno
      /\ r.highestReceivedSno <= r.firstSno + RxWindowSize
      /\ \A j \in DOMAIN r.store : j \in Nat /\ r.firstSno + j < r.highestReceivedSno
  BY WindowTypes
<1>2. r.highestReceivedSno - r.firstSno \notin DOMAIN r.store
  <2> SUFFICES ASSUME r.highestReceivedSno - r.firstSno \in DOMAIN r.store PROVE FALSE
    OBVIOUS
  <2>1. r.firstSno + (r.highestReceivedSno - r.firstSno) < r.highestReceivedSno
    BY <1>1
  <2> QED BY <1>1, <2>1
<1>3. r.highestReceivedSno \in S
  BY <1>1, <1>2
<1>4. S \in SUBSET Nat /\ \A n \in S : r.firstSnoForReordering <= n
  BY <1>1
<1>5. Stop(r, sno) = Min(S)
  BY DEF Stop
<1> HIDE DEF S
<1>6. Min(S) \in S /\ \A k \in S : Min(S) <= k
  BY <1>3, <1>4, MinOf
<1> QED BY <1>3, <1>4, <1>5, <1>6

\* The PDUs up to the next gap after sno are reassembled.
LEMMA Proceeded ==
  ASSUME Log(pdus, size), NEW r, NEW c \in Int, RxOk(r, c), NEW sno \in Nat, sno <= r.highestReceivedSno,
         NEW q, q = Proceed(r, sno)
  PROVE  /\ RxOk(q, c) /\ q.init = r.init
         /\ DOMAIN r.store = {} => DOMAIN q.store = {} /\ q.done = r.done
<1> PICK n : n = Stop(r, sno)
  OBVIOUS
<1> PICK from : from = r.firstSnoForReordering - r.firstSno
  OBVIOUS
<1> PICK m : m = ReassembleAll(r, from, n - r.firstSno - 1)
  OBVIOUS
<1>1. /\ r.firstSno \in Nat /\ r.highestReceivedSno \in Nat /\ RxWindowSize \in Nat \ {0}
      /\ r.firstSnoForReordering \in Nat /\ r.reorderingSno \in Nat
      /\ r.windowSize \in 1 .. RxWindowSize
      /\ r.firstSno <= r.firstSnoForReordering
      /\ r.reorderingSno <= r.highestReceivedSno /\ r.highestReceivedSno <= r.firstSno + RxWindowSize
      /\ \A i \in DOMAIN r.store : i \in Nat /\ r.firstSno + i < r.highestReceivedSno
  BY WindowTypes DEF RxOk
<1>2. n \in Nat /\ r.firstSnoForReordering <= n /\ n <= r.highestReceivedSno
  BY Stops DEF RxOk
<1> PICK to : to = n - r.firstSno - 1
  OBVIOUS
<1>3. from \in Int /\ to \in Int /\ from - 1 <= to /\ r.firstSno + from <= r.firstSnoForReordering
  BY <1>1, <1>2
<1>4. Beyond(m, r, to, c)
  BY <1>3, RangeTaken
<1>5. /\ SameNumbers(m, r) /\ Content(m, pdus, size) /\ Joined(m, pdus, c)
      /\ DOMAIN m.store = {i \in DOMAIN r.store : to < i}
      /\ \A i \in DOMAIN m.store : m.store[i] = r.store[i]
      /\ \A d \in m.done : d \in Nat /\ (d < r.firstSnoForReordering + c \/ d <= r.firstSno + c + to)
      /\ \A i \in DOMAIN m.store : \A d \in m.done : d < r.firstSno + c + i
      /\ DOMAIN r.store = {} => m.done = r.done
  BY <1>4 DEF Beyond
<1>6. ~(n = r.firstSno + RxWindowSize /\ n # r.highestReceivedSno) /\ m.err = FALSE
  BY <1>1, <1>2, <1>5 DEF Content
<1>7. /\ SameNumbers(q, [m EXCEPT !.firstSnoForReordering = n]) /\ q.store = m.store
      /\ q.done = m.done /\ q.passedUp = m.passedUp /\ q.err = m.err
      /\ q.buffered = m.buffered /\ q.resetFlag = m.resetFlag
      /\ q.firstSnoForReordering = n
  <2>1. q = [m EXCEPT !.firstSnoForReordering = n,
                      !.err = m.err \/ (n = r.firstSno + RxWindowSize /\ n # r.highestReceivedSno)]
    BY <1>5 DEF Proceed, SameNumbers, RxFields, RxReset
  <2>2. q = [m EXCEPT !.firstSnoForReordering = n, !.err = FALSE]
    BY <1>6, <2>1
  <2>3. DOMAIN m = RxFields
    BY <1>5 DEF SameNumbers
  <2> QED BY <1>6, <2>2, <2>3 DEF SameNumbers, RxFields, RxReset
<1>8. /\ DOMAIN q = RxFields /\ q.firstSno = r.firstSno /\ q.highestReceivedSno = r.highestReceivedSno
      /\ q.reorderingSno = r.reorderingSno /\ q.windowSize = r.windowSize /\ q.init = r.init
  BY <1>5, <1>7 DEF SameNumbers, RxFields, RxReset
<1>9. Content(q, pdus, size) /\ Joined(q, pdus, c)
  BY <1>5, <1>7, SameContent
<1>10. \A i \in DOMAIN q.store : /\ i \in DOMAIN r.store /\ i \in Nat /\ n <= r.firstSno + i
                                 /\ q.store[i] = r.store[i]
  BY <1>1, <1>2, <1>5, <1>7
<1>11. Window(q)
  BY <1>1, <1>2, <1>7, <1>8, <1>10 DEF Window
<1>12. Stored(q, pdus, c)
  <2>1. \A d \in q.done : d < n + c
    BY <1>1, <1>2, <1>5, <1>7
  <2>2. ASSUME NEW i \in DOMAIN q.store
        PROVE  /\ r.firstSno + i + c \in DOMAIN pdus /\ q.store[i] = pdus[r.firstSno + i + c]
               /\ pdus[r.firstSno + i + c].sno = r.firstSno + i
               /\ \A d \in q.done : d < r.firstSno + i + c
    <3>1. \A d \in q.done : d < r.firstSno + i + c
      <4>1. r.firstSno + c + i = r.firstSno + i + c
        BY <1>1, <1>10
      <4> QED BY <1>5, <1>7, <4>1
    <3> QED BY <1>10, <3>1 DEF RxOk, Stored
  <2> QED BY <1>7, <1>8, <2>1, <2>2 DEF Stored
<1>13. DOMAIN r.store = {} => DOMAIN q.store = {} /\ q.done = r.done
  BY <1>5, <1>7, <1>10
<1> QED BY <1>8, <1>9, <1>11, <1>12, <1>13 DEF RxOk

-----------------------------------------------------------------------------
(* The steps                                                                *)

\* The state in parts: the sender, the receiver, and what is between them.
Ends(q, t, L, z, b, u) ==
  /\ b \in Bearers /\ Log(L, z) /\ TxOk(t, L, z)
  /\ DOMAIN q = RxFields /\ Window(q) /\ Content(q, L, z)
  /\ b = "multicast" /\ ~q.init => DOMAIN q.store = {} /\ q.done = {}
  /\ ~u => /\ b = "direct" /\ DOMAIN q.store = {} /\ ~q.timer
           /\ t.queue = <<>> /\ t.fragment = 0

Between(q, t, L, a, u) ==
  /\ u => /\ Stored(q, L, Epoch(t, L)) /\ Joined(q, L, Epoch(t, L))
          /\ \A p \in a : Known(p, L, Epoch(t, L))
  /\ ~u => a = {}

LEMMA InParts == IInv <=> Ends(rx, tx, pdus, size, bearer, inUse) /\ Between(rx, tx, pdus, air, inUse)
<1>1. DOMAIN RxReset(0) = RxFields
  BY DEF RxFields
<1> QED BY <1>1 DEF IInv, Ends, Between

LEMMA EpochType ==
  ASSUME NEW t, NEW L, NEW z, Log(L, z), TxOk(t, L, z)
  PROVE  Epoch(t, L) \in Int
<1>1. Len(L) \in Nat
  BY LogTypes
<1>2. t.sno \in 0 .. Len(L)
  BY DEF TxOk
<1> QED BY <1>1, <1>2 DEF Epoch

\* What a step of the receiver alone has to show.
LEMMA ReceiverStep ==
  ASSUME IInv, inUse, NEW q, RxOk(q, Epoch(tx, pdus)), q = rx', air' \subseteq air,
         UNCHANGED <<bearer, size, tx, inUse, pdus>>,
         bearer = "multicast" /\ ~q.init => DOMAIN q.store = {} /\ q.done = {}
  PROVE  IInv'
<1>1. Ends(q, tx, pdus, size, bearer, inUse)
  BY InParts DEF Ends, RxOk
<1>2. Between(q, tx, pdus, air', inUse)
  BY InParts DEF Between, RxOk
<1>3. Ends(rx, tx, pdus, size, bearer, inUse)' /\ Between(rx, tx, pdus, air, inUse)'
  BY <1>1, <1>2
<1>4. DOMAIN RxReset(0) = RxFields
  BY DEF RxFields
<1> QED BY <1>3, <1>4 DEF IInv, Ends, Between

LEMMA Started ==
  ASSUME Log(pdus, size), NEW r, NEW c \in Int, RxOk(r, c),
         bearer = "multicast" /\ ~r.init => DOMAIN r.store = {} /\ r.done = {},
         NEW p, Known(p, pdus, c), NEW q, q = Start(r, p.sno)
  PROVE  RxOk(q, c) /\ (bearer = "multicast" => q.init)
<1>1. CASE ~(bearer = "multicast" /\ ~r.init)
  BY <1>1 DEF Start
<1>2. CASE bearer = "multicast" /\ ~r.init
  <2>1. DOMAIN r = RxFields /\ r.done = {} /\ DOMAIN r.store = {}
    BY <1>2 DEF RxOk
  <2>2. q = [r EXCEPT !.firstSno = p.sno, !.firstSnoForReordering = p.sno, !.reorderingSno = p.sno,
                      !.highestReceivedSno = p.sno, !.windowSize = 1, !.init = TRUE]
    BY <1>2 DEF Start
  <2>3. /\ DOMAIN q = RxFields /\ q.firstSno = p.sno /\ q.firstSnoForReordering = p.sno
        /\ q.reorderingSno = p.sno /\ q.highestReceivedSno = p.sno
        /\ q.windowSize = 1 /\ q.init = TRUE /\ q.store = r.store
        /\ q.done = r.done /\ q.passedUp = r.passedUp /\ q.err = r.err
        /\ q.buffered = r.buffered /\ q.resetFlag = r.resetFlag
    BY <2>1, <2>2 DEF RxFields, RxReset
  <2>4. p.sno \in Nat
    <3>1. pdus[p.id] \in PduType /\ p = pdus[p.id]
      BY LogTypes DEF Known
    <3> QED BY <3>1 DEF PduType
  <2>5. RxWindowSize \in Nat \ {0}
    BY RlcUmAssumption
  <2>6. Window(q)
    BY <2>1, <2>3, <2>4, <2>5 DEF Window
  <2>7. Stored(q, pdus, c)
    BY <2>1, <2>3 DEF Stored
  <2>8. Content(q, pdus, size) /\ Joined(q, pdus, c)
    BY <2>3, SameContent DEF RxOk
  <2> QED BY <2>3, <2>6, <2>7, <2>8 DEF RxOk
<1> QED BY <1>1, <1>2

\* t_reordering_ and what it waits for were set.
SameButTimer(q, r) ==
  /\ DOMAIN q = RxFields
  /\ q.firstSno = r.firstSno /\ q.firstSnoForReordering = r.firstSnoForReordering
  /\ q.reorderingSno \in {r.reorderingSno, r.highestReceivedSno}
  /\ q.highestReceivedSno = r.highestReceivedSno
  /\ q.windowSize = r.windowSize /\ q.init = r.init /\ q.store = r.store
  /\ q.done = r.done /\ q.passedUp = r.passedUp /\ q.err = r.err
  /\ q.buffered = r.buffered /\ q.resetFlag = r.resetFlag

LEMMA TimerSet ==
  ASSUME NEW r, NEW c, RxOk(r, c), NEW b, NEW q,
         \/ q = [r EXCEPT !.timer = b]
         \/ q = [r EXCEPT !.reorderingSno = r.highestReceivedSno]
         \/ q = [r EXCEPT !.timer = b, !.reorderingSno = r.highestReceivedSno]
  PROVE  SameButTimer(q, r)
<1>1. DOMAIN r = RxFields
  BY DEF RxOk
<1> QED BY <1>1 DEF SameButTimer, RxFields, RxReset

LEMMA TimerHandled ==
  ASSUME NEW r, NEW c, RxOk(r, c), NEW q, SameButTimer(q, r)
  PROVE  RxOk(q, c)
<1>1. Window(q)
  BY DEF RxOk, Window, SameButTimer
<1>2. Content(q, pdus, size) /\ Joined(q, pdus, c)
  BY SameContent DEF RxOk, SameButTimer
<1>3. Stored(q, pdus, c)
  BY DEF RxOk, Stored, SameButTimer
<1> QED BY <1>1, <1>2, <1>3 DEF RxOk, SameButTimer

LEMMA HandleTimerIs ==
  ASSUME NEW r, NEW c, RxOk(r, c), NEW q, q = HandleTimer(r)
  PROVE  RxOk(q, c) /\ q.init = r.init
<1>1. \E b : \/ q = [r EXCEPT !.timer = b]
             \/ q = [r EXCEPT !.timer = b, !.reorderingSno = r.highestReceivedSno]
  BY DEF HandleTimer
<1>2. SameButTimer(q, r)
  BY <1>1, TimerSet
<1> QED BY <1>2, TimerHandled DEF SameButTimer

LEMMA ReceiverOk ==
  ASSUME IInv, inUse
  PROVE  /\ Log(pdus, size) /\ Epoch(tx, pdus) \in Int /\ RxOk(rx, Epoch(tx, pdus))
         /\ \A p \in air : Known(p, pdus, Epoch(tx, pdus))
         /\ bearer = "multicast" /\ ~rx.init => DOMAIN rx.store = {} /\ rx.done = {}
<1>1. Ends(rx, tx, pdus, size, bearer, inUse) /\ Between(rx, tx, pdus, air, inUse)
  BY InParts
<1>2. Log(pdus, size) /\ TxOk(tx, pdus, size)
  BY <1>1 DEF Ends
<1>3. Epoch(tx, pdus) \in Int
  BY <1>2, EpochType
<1> QED BY <1>1, <1>2, <1>3 DEF Ends, Between, RxOk

LEMMA EnqueStep ==
  ASSUME IInv, NEW p \in air, Enque(p)
  PROVE  IInv'
<1> PICK c : c = Epoch(tx, pdus)
  OBVIOUS
<1>1. inUse
  BY DEF IInv
<1>2. /\ Log(pdus, size) /\ c \in Int /\ RxOk(rx, c) /\ Known(p, pdus, c)
      /\ bearer = "multicast" /\ ~rx.init => DOMAIN rx.store = {} /\ rx.done = {}
  BY <1>1, ReceiverOk
<1>3. p.sno \in Nat
  <2>1. pdus[p.id] \in PduType /\ p = pdus[p.id]
    BY <1>2, LogTypes DEF Known
  <2> QED BY <2>1 DEF PduType
<1> PICK r : r = Start(rx, p.sno)
  OBVIOUS
<1>4. RxOk(r, c) /\ (bearer = "multicast" => r.init)
  BY <1>2, Started
<1>5. IF AlreadyReceived(r, p.sno) \/ Late(r, p.sno) THEN rx' = r
      ELSE \E moved \in {Advance(r, p.sno)} : \E s \in {Store(moved, p)} :
             IF s.err THEN rx' = s
             ELSE \E t \in {Proceed(s, s.firstSnoForReordering)} : rx' = HandleTimer(t)
  BY DEF Enque
<1>6. \E q : q = rx' /\ RxOk(q, c) /\ (bearer = "multicast" => q.init)
  <2>1. CASE AlreadyReceived(r, p.sno) \/ Late(r, p.sno)
    BY <1>4, <1>5, <2>1
  <2>2. CASE ~(AlreadyReceived(r, p.sno) \/ Late(r, p.sno))
    <3>1. PICK moved, s : /\ moved = Advance(r, p.sno) /\ s = Store(moved, p)
                          /\ IF s.err THEN rx' = s
                             ELSE \E t \in {Proceed(s, s.firstSnoForReordering)} : rx' = HandleTimer(t)
      BY <1>5, <2>2
    <3>2. /\ r.firstSnoForReordering <= p.sno
          /\ p.sno < r.highestReceivedSno => p.sno - r.firstSno \notin DOMAIN r.store
      <4>1. r.firstSnoForReordering \in Nat
        BY <1>4, WindowTypes DEF RxOk
      <4> QED BY <1>3, <2>2, <4>1 DEF AlreadyReceived, Late
    <3>3. RxOk(moved, c) /\ Fits(moved, p.sno) /\ moved.init = r.init
      BY <1>2, <1>3, <1>4, <3>1, <3>2, Advanced
    <3>4. RxOk(s, c) /\ s.init = r.init
      BY <1>2, <3>1, <3>3, Placed
    <3>5. s.err = FALSE
      BY <3>4 DEF RxOk, Content
    <3>6. PICK t : t = Proceed(s, s.firstSnoForReordering) /\ rx' = HandleTimer(t)
      BY <3>1, <3>5
    <3>7. s.firstSnoForReordering \in Nat /\ s.firstSnoForReordering <= s.highestReceivedSno
      BY <3>4, WindowTypes DEF RxOk
    <3>8. RxOk(t, c) /\ t.init = r.init
      BY <1>2, <3>4, <3>6, <3>7, Proceeded
    <3> PICK q : q = HandleTimer(t)
      OBVIOUS
    <3>9. RxOk(q, c) /\ q.init = r.init
      BY <3>8, HandleTimerIs
    <3> QED BY <1>4, <3>6, <3>9
  <2> QED BY <2>1, <2>2
<1>7. air' \subseteq air /\ UNCHANGED <<bearer, size, tx, inUse, pdus>>
  BY DEF Enque
<1> QED BY <1>1, <1>6, <1>7, ReceiverStep

LEMMA ReorderingTimerStep ==
  ASSUME IInv, ReorderingTimer
  PROVE  IInv'
<1> PICK c : c = Epoch(tx, pdus)
  OBVIOUS
<1>1. inUse
  BY DEF IInv, ReorderingTimer
<1>2. /\ Log(pdus, size) /\ c \in Int /\ RxOk(rx, c)
      /\ bearer = "multicast" /\ ~rx.init => DOMAIN rx.store = {} /\ rx.done = {}
  BY <1>1, ReceiverOk
<1> PICK sno : sno = Max({rx.firstSnoForReordering, rx.reorderingSno})
  OBVIOUS
<1>3. sno \in Nat /\ sno <= rx.highestReceivedSno
  <2>1. /\ rx.firstSnoForReordering \in Nat /\ rx.reorderingSno \in Nat
        /\ rx.firstSnoForReordering <= rx.highestReceivedSno
        /\ rx.reorderingSno <= rx.highestReceivedSno
    BY <1>2, WindowTypes DEF RxOk
  <2>2. sno \in {rx.firstSnoForReordering, rx.reorderingSno}
    BY <2>1, OfTwo
  <2> QED BY <2>1, <2>2
<1>4. PICK r : /\ r = Proceed(rx, sno)
               /\ rx' = IF r.highestReceivedSno > r.firstSnoForReordering
                        THEN [r EXCEPT !.reorderingSno = r.highestReceivedSno]
                        ELSE [r EXCEPT !.timer = FALSE]
  BY DEF ReorderingTimer
<1> PICK x : x = rx
  OBVIOUS
<1>5. /\ RxOk(r, c) /\ r.init = x.init
      /\ DOMAIN x.store = {} => DOMAIN r.store = {} /\ r.done = x.done
  BY <1>2, <1>3, <1>4, Proceeded
<1> PICK q : q = IF r.highestReceivedSno > r.firstSnoForReordering
                 THEN [r EXCEPT !.reorderingSno = r.highestReceivedSno]
                 ELSE [r EXCEPT !.timer = FALSE]
  OBVIOUS
<1>6. SameButTimer(q, r)
  BY <1>5, TimerSet
<1>7. RxOk(q, c)
  BY <1>5, <1>6, TimerHandled
<1>8. bearer = "multicast" /\ ~q.init => DOMAIN q.store = {} /\ q.done = {}
  BY <1>2, <1>5, <1>6 DEF SameButTimer
<1>9. q = rx' /\ air' \subseteq air /\ UNCHANGED <<bearer, size, tx, inUse, pdus>>
  BY <1>4 DEF ReorderingTimer
<1> QED BY <1>1, <1>7, <1>8, <1>9, ReceiverStep

LEMMA LoseStep ==
  ASSUME IInv, NEW p \in air, Lose(p)
  PROVE  IInv'
<1>1. inUse
  BY DEF IInv
<1>2. /\ RxOk(rx, Epoch(tx, pdus))
      /\ bearer = "multicast" /\ ~rx.init => DOMAIN rx.store = {} /\ rx.done = {}
  BY <1>1, ReceiverOk
<1>3. rx = rx' /\ air' \subseteq air /\ UNCHANGED <<bearer, size, tx, inUse, pdus>>
  BY DEF Lose
<1> QED BY <1>1, <1>2, <1>3, ReceiverStep

LEMMA SwitchAwayStep ==
  ASSUME RightBearer, IInv, SwitchAway
  PROVE  IInv'
<1> PICK c : c = Epoch(tx, pdus)
  OBVIOUS
<1>1. bearer = "direct"
  <2>1. bearer \in Bearers /\ bearer # "multicast"
    BY DEF SwitchAway, IInv
  <2> QED BY <2>1, RlcUmAssumption DEF RightBearer
<1>2. inUse /\ inUse' = FALSE /\ air' = {} /\ tx' = ClearQueue(tx) /\ UNCHANGED <<bearer, size, pdus>>
  BY <1>1 DEF SwitchAway
<1>3. Log(pdus, size) /\ c \in Int /\ RxOk(rx, c)
  BY <1>2, ReceiverOk
<1> PICK r : r = rx
  OBVIOUS
<1> PICK m : m = ReassembleAll(r, 0, RxWindowSize - 1)
  OBVIOUS
<1> PICK q : q = [m EXCEPT !.buffered = Nothing, !.timer = FALSE]
  OBVIOUS
<1>4. q = rx'
  BY DEF SwitchAway, ClearBuffer
<1>5. /\ r.firstSno \in Nat /\ r.firstSnoForReordering \in Nat /\ r.firstSno <= r.firstSnoForReordering
      /\ RxWindowSize \in Nat \ {0} /\ r.highestReceivedSno \in Nat
      /\ r.highestReceivedSno <= r.firstSno + RxWindowSize
      /\ \A i \in DOMAIN r.store : i \in Nat /\ r.firstSno + i < r.highestReceivedSno
  BY <1>3, WindowTypes DEF RxOk
<1> PICK to : to = RxWindowSize - 1
  OBVIOUS
<1>6. to \in Int /\ 0 - 1 <= to /\ r.firstSno + 0 <= r.firstSnoForReordering
  BY <1>5
<1>7. Beyond(m, r, to, c)
  BY <1>3, <1>6, RangeTaken
<1>8. DOMAIN m.store = {}
  <2>1. DOMAIN m.store = {i \in DOMAIN r.store : to < i}
    BY <1>7 DEF Beyond
  <2> QED BY <1>5, <2>1
<1>9. SameNumbers(m, r) /\ Content(m, pdus, size)
  BY <1>7 DEF Beyond
<1>10. /\ DOMAIN q = RxFields /\ q.firstSno = r.firstSno /\ q.firstSnoForReordering = r.firstSnoForReordering
       /\ q.reorderingSno = r.reorderingSno /\ q.highestReceivedSno = r.highestReceivedSno
       /\ q.windowSize = r.windowSize /\ q.store = m.store /\ q.timer = FALSE
       /\ q.done = m.done /\ q.passedUp = m.passedUp /\ q.err = m.err /\ q.buffered = Nothing
  BY <1>9 DEF SameNumbers, RxFields, RxReset
<1>11. Content(q, pdus, size)
  BY <1>9, <1>10 DEF Content
<1>12. Window(q)
  BY <1>3, <1>8, <1>10 DEF RxOk, Window
<1>13. /\ TxOk(tx, pdus, size) /\ bearer \in Bearers
  BY DEF IInv
<1> PICK t : t = ClearQueue(tx)
  OBVIOUS
<1>14. /\ DOMAIN t = {"queue", "fragment", "sno", "sent"}
       /\ t.queue = <<>> /\ t.fragment = 0 /\ t.sno = tx.sno /\ t.sent = tx.sent
  BY <1>13 DEF ClearQueue, TxOk
<1>15. TxOk(t, pdus, size)
  BY <1>13, <1>14 DEF TxOk
<1>16. Ends(q, t, pdus, size, bearer, FALSE) /\ Between(q, t, pdus, {}, FALSE)
  BY <1>1, <1>3, <1>8, <1>10, <1>11, <1>12, <1>13, <1>14, <1>15 DEF Ends, Between
<1>17. Ends(rx, tx, pdus, size, bearer, inUse)' /\ Between(rx, tx, pdus, air, inUse)'
  BY <1>2, <1>4, <1>16
<1>18. DOMAIN RxReset(0) = RxFields
  BY DEF RxFields
<1> QED BY <1>17, <1>18 DEF IInv, Ends, Between

LEMMA SwitchBackStep ==
  ASSUME IInv, SwitchBack
  PROVE  IInv'
<1>1. Ends(rx, tx, pdus, size, bearer, inUse) /\ ~inUse
  BY InParts DEF SwitchBack
<1>2. /\ bearer = "direct" /\ DOMAIN rx.store = {} /\ tx.queue = <<>> /\ tx.fragment = 0
      /\ bearer \in Bearers /\ Log(pdus, size) /\ TxOk(tx, pdus, size)
      /\ DOMAIN rx = RxFields /\ Window(rx) /\ Content(rx, pdus, size)
  BY <1>1 DEF Ends
<1>3. inUse' = TRUE /\ air' = {} /\ UNCHANGED <<bearer, size, pdus>>
  BY DEF SwitchBack
<1> PICK t : t = [tx EXCEPT !.sno = 0]
  OBVIOUS
<1> PICK q : q = ClearWindow(rx)
  OBVIOUS
<1>4. t = tx' /\ q = rx'
  BY <1>2 DEF SwitchBack
<1>5. /\ DOMAIN t = {"queue", "fragment", "sno", "sent"}
      /\ t.queue = <<>> /\ t.fragment = 0 /\ t.sno = 0 /\ t.sent = tx.sent
  BY <1>2 DEF TxOk
<1>6. /\ DOMAIN q = RxFields /\ q.firstSno = 0 /\ q.firstSnoForReordering = 0
      /\ q.reorderingSno = 0 /\ q.highestReceivedSno = 0
      /\ q.windowSize = rx.windowSize /\ q.store = rx.store
      /\ q.done = rx.done /\ q.passedUp = rx.passedUp /\ q.err = rx.err /\ q.buffered = rx.buffered
  BY <1>2 DEF ClearWindow, RxFields, RxReset
<1>7. Len(pdus) \in Nat /\ DOMAIN pdus = 1 .. Len(pdus)
  BY <1>2, LogTypes
<1>8. TxOk(t, pdus, size)
  <2>1. t.queue \in Seq(DOMAIN size) /\ DOMAIN t.queue = {}
    <3>1. t.queue = <<>>
      BY <1>5
    <3>2. <<>> \in Seq(DOMAIN size)
      OBVIOUS
    <3>3. DOMAIN <<>> = {}
      OBVIOUS
    <3> QED BY <3>1, <3>2, <3>3
  <2>2. t.sno \in 0 .. Len(pdus)
    BY <1>5, <1>7
  <2>3. t.sent \subseteq DOMAIN size /\ \A s \in DOMAIN size : s \in t.sent <=> Ended(pdus, size, s)
    BY <1>2, <1>5 DEF TxOk
  <2>4. t.fragment \in Nat /\ ~(t.fragment > 0)
    BY <1>5
  <2> QED BY <1>5, <2>1, <2>2, <2>3, <2>4 DEF TxOk
<1>9. Epoch(t, pdus) = Len(pdus) + 1
  BY <1>5, <1>7 DEF Epoch
<1>10. Content(q, pdus, size)
  BY <1>2, <1>6, SameContent
<1>11. Window(q)
  BY <1>2, <1>6, RlcUmAssumption DEF Window
<1>12. Stored(q, pdus, Len(pdus) + 1)
  <2>1. \A d \in q.done : d \in 1 .. Len(pdus)
    BY <1>7, <1>10 DEF Content
  <2> QED BY <1>2, <1>6, <1>7, <2>1 DEF Stored
<1>13. Joined(q, pdus, Len(pdus) + 1)
  BY <1>7 DEF Joined
<1>14. Ends(q, t, pdus, size, bearer, TRUE) /\ Between(q, t, pdus, {}, TRUE)
  BY <1>2, <1>6, <1>8, <1>9, <1>10, <1>11, <1>12, <1>13 DEF Ends, Between
<1>15. Ends(rx, tx, pdus, size, bearer, inUse)' /\ Between(rx, tx, pdus, air, inUse)'
  BY <1>3, <1>4, <1>14
<1>16. DOMAIN RxReset(0) = RxFields
  BY DEF RxFields
<1> QED BY <1>15, <1>16 DEF IInv, Ends, Between

LEMMA Initially == ASSUME Init PROVE IInv
<1>1. /\ bearer \in Bearers /\ size = <<>> /\ air = {} /\ inUse = TRUE /\ pdus = <<>>
      /\ tx = [queue |-> <<>>, fragment |-> 0, sno |-> 0, sent |-> {}] /\ rx = RxReset(RxWindowSize)
  BY DEF Init
<1>2. Log(pdus, size)
  BY <1>1 DEF Log
<1>3. TxOk(tx, pdus, size)
  BY <1>1 DEF TxOk
<1>4. DOMAIN rx = DOMAIN RxReset(0)
  BY <1>1 DEF RxReset
<1>5. /\ rx.firstSno = 0 /\ rx.firstSnoForReordering = 0 /\ rx.highestReceivedSno = 0
      /\ rx.reorderingSno = 0 /\ rx.windowSize = RxWindowSize /\ rx.store = <<>>
      /\ rx.buffered = Nothing /\ rx.passedUp = <<>> /\ rx.done = {} /\ rx.err = FALSE
  BY <1>1 DEF RxReset
<1>6. DOMAIN rx.store = {}
  BY <1>5
<1>7. Window(rx)
  BY <1>5, <1>6, RlcUmAssumption DEF Window
<1>8. Content(rx, pdus, size)
  BY <1>1, <1>5 DEF Content
<1>9. Stored(rx, pdus, Epoch(tx, pdus)) /\ Joined(rx, pdus, Epoch(tx, pdus))
  BY <1>1, <1>5, <1>6 DEF Stored, Joined
<1> QED BY <1>1, <1>2, <1>3, <1>4, <1>5, <1>6, <1>7, <1>8, <1>9 DEF IInv

\* y are the sizes z and one more.
OneMore(L, y, z) ==
  /\ Log(L, y) /\ Len(z) \in Nat /\ DOMAIN z = 1 .. Len(z) /\ DOMAIN y = 1 .. Len(z) + 1
  /\ \A s \in DOMAIN z : y[s] = z[s] /\ (Ended(L, y, s) <=> Ended(L, z, s))
  /\ ~Ended(L, y, Len(z) + 1)

\* A new SDU leaves the record of the PDUs as it was.
LEMMA SizesGrow ==
  ASSUME NEW L, NEW z, Log(L, z), NEW n \in Nat \ {0}, NEW y, y = Append(z, n)
  PROVE  OneMore(L, y, z)
<1>1. /\ z \in Seq(Nat \ {0}) /\ Len(L) \in Nat /\ DOMAIN L = 1 .. Len(L)
      /\ \A m \in DOMAIN L : L[m] \in PduType /\ Shape(L[m], z) /\ L[m].id = m /\ m \in Nat \ {0}
  BY LogTypes
<1>2. /\ y \in Seq(Nat \ {0}) /\ Len(z) \in Nat /\ DOMAIN z = 1 .. Len(z) /\ DOMAIN y = 1 .. Len(z) + 1
      /\ \A s \in 1 .. Len(z) : y[s] = z[s]
  BY <1>1, Appended
<1>3. ASSUME NEW m \in DOMAIN L PROVE Shape(L[m], y)
  <2> PICK p : p = L[m]
    OBVIOUS
  <2>1. Shape(p, z)
    BY <1>1
  <2>2. \A i \in DOMAIN p.parts : p.parts[i].sdu \in DOMAIN z
    BY <2>1 DEF Shape
  <2>3. \A i \in DOMAIN p.parts : p.parts[i].sdu \in DOMAIN y /\ y[p.parts[i].sdu] = z[p.parts[i].sdu]
    BY <1>2, <2>2
  <2> QED BY <2>1, <2>3 DEF Shape
<1>4. Log(L, y)
  BY <1>1, <1>2, <1>3 DEF Log
<1>5. ASSUME NEW s \in DOMAIN z PROVE Ended(L, y, s) <=> Ended(L, z, s)
  BY <1>2, <1>5 DEF Ended
<1>6. ~Ended(L, y, Len(z) + 1)
  <2>1. \A m \in DOMAIN L : \A i \in DOMAIN L[m].parts : L[m].parts[i].sdu \in DOMAIN z
    BY <1>1 DEF Shape
  <2>2. Len(z) + 1 \notin DOMAIN z
    BY <1>2
  <2> QED BY <2>1, <2>2 DEF Ended
<1> QED BY <1>2, <1>4, <1>5, <1>6 DEF OneMore

LEMMA HandleSduStep ==
  ASSUME IInv, NEW n \in SduSizes, HandleSdu(n)
  PROVE  IInv'
<1> PICK L : L = pdus
  OBVIOUS
<1> PICK z : z = size
  OBVIOUS
<1> PICK y : y = Append(size, n)
  OBVIOUS
<1> PICK t : t = tx'
  OBVIOUS
<1> PICK u : u = tx
  OBVIOUS
<1> PICK l : l = Len(z)
  OBVIOUS
<1>1. Ends(rx, u, L, z, bearer, inUse) /\ Between(rx, u, L, air, inUse)
  BY InParts
<1>2. /\ bearer \in Bearers /\ Log(L, z) /\ TxOk(u, L, z)
      /\ DOMAIN rx = RxFields /\ Window(rx) /\ Content(rx, L, z)
      /\ bearer = "multicast" /\ ~rx.init => DOMAIN rx.store = {} /\ rx.done = {}
      /\ ~inUse => bearer = "direct"
  BY <1>1 DEF Ends
<1>3. inUse /\ y = size' /\ UNCHANGED <<bearer, rx, air, inUse, pdus>>
  BY <1>2 DEF HandleSdu
<1>4. n \in Nat \ {0}
  BY RlcUmAssumption
<1>5. /\ Log(L, y) /\ l \in Nat /\ DOMAIN z = 1 .. l /\ DOMAIN y = 1 .. l + 1
      /\ \A s \in DOMAIN z : y[s] = z[s] /\ (Ended(L, y, s) <=> Ended(L, z, s))
      /\ ~Ended(L, y, l + 1)
  <2>1. y = Append(z, n) /\ l = Len(z)
    OBVIOUS
  <2>2. OneMore(L, y, z)
    BY <1>2, <1>4, <2>1, SizesGrow
  <2> QED BY <2>1, <2>2 DEF OneMore
<1>6. t = u \/ t = [u EXCEPT !.queue = Append(@, l + 1)]
  BY DEF HandleSdu
<1>7. /\ DOMAIN u = {"queue", "fragment", "sno", "sent"} /\ u.queue \in Seq(DOMAIN z)
      /\ u.fragment \in Nat /\ u.sno \in 0 .. Len(L)
      /\ \A i, j \in DOMAIN u.queue : i < j => u.queue[i] < u.queue[j]
      /\ \A m \in DOMAIN L, j \in DOMAIN u.queue :
           /\ LastSdu(L[m]) <= u.queue[j]
           /\ LastSdu(L[m]) = u.queue[j] =>
                j = 1 /\ u.fragment > 0 /\ L[m].lastIsFragment /\ u.sno = L[m].sno + (Len(L) + 1 - m)
      /\ u.fragment > 0 => /\ u.queue # <<>> /\ L # <<>>
                           /\ LastSdu(L[Len(L)]) = u.queue[1]
                           /\ Ending(L[Len(L)]) + u.fragment = z[u.queue[1]]
      /\ u.sent \subseteq DOMAIN z /\ \A s \in DOMAIN z : s \in u.sent <=> Ended(L, z, s)
  BY <1>2 DEF TxOk
<1>8. Len(u.queue) \in Nat /\ DOMAIN u.queue = 1 .. Len(u.queue)
  BY <1>7
<1>9. \A j \in DOMAIN u.queue : u.queue[j] \in DOMAIN z /\ u.queue[j] \in DOMAIN y /\ u.queue[j] < l + 1
  BY <1>5, <1>7, <1>8
<1>10. \A m \in DOMAIN L : LastSdu(L[m]) \in 1 .. l
  <2> TAKE m \in DOMAIN L
  <2>1. L[m] \in PduType /\ Shape(L[m], z) /\ z \in Seq(Nat \ {0})
    BY <1>2, LogTypes
  <2> QED BY <1>5, <2>1, PartTypes
<1>11. u.sent \subseteq DOMAIN y /\ \A s \in DOMAIN y : s \in u.sent <=> Ended(L, y, s)
  <2>1. u.sent \subseteq DOMAIN y /\ l + 1 \notin u.sent
    BY <1>5, <1>7
  <2>2. \A s \in DOMAIN y : s \in DOMAIN z \/ s = l + 1
    BY <1>5
  <2> QED BY <1>5, <1>7, <2>1, <2>2
<1>12. u.fragment > 0 => u.queue # <<>> /\ y[u.queue[1]] = z[u.queue[1]]
  <2> SUFFICES ASSUME u.fragment > 0 PROVE u.queue # <<>> /\ y[u.queue[1]] = z[u.queue[1]]
    OBVIOUS
  <2>1. u.queue # <<>>
    BY <1>7
  <2>2. 1 \in DOMAIN u.queue
    BY <1>7, <1>8, <2>1
  <2> QED BY <1>5, <1>9, <2>1, <2>2
<1>13. u.queue \in Seq(DOMAIN y)
  <2>1. DOMAIN z \subseteq DOMAIN y
    BY <1>5
  <2> QED BY <1>7, <2>1
<1>14. TxOk(t, L, y)
  <2>1. CASE t = u
    BY <1>7, <1>11, <1>12, <1>13, <2>1 DEF TxOk
  <2>2. CASE t = [u EXCEPT !.queue = Append(@, l + 1)]
    <3> PICK k : k = Len(u.queue)
      OBVIOUS
    <3>1. /\ DOMAIN t = {"queue", "fragment", "sno", "sent"} /\ t.fragment = u.fragment
          /\ t.sno = u.sno /\ t.sent = u.sent /\ t.queue = Append(u.queue, l + 1)
      BY <1>7, <2>2
    <3>2. l + 1 \in DOMAIN y
      BY <1>5
    <3>3. /\ t.queue \in Seq(DOMAIN y) /\ k \in Nat /\ DOMAIN u.queue = 1 .. k
          /\ DOMAIN t.queue = 1 .. k + 1
          /\ \A j \in 1 .. k : t.queue[j] = u.queue[j]
          /\ t.queue[k + 1] = l + 1 /\ t.queue # <<>>
      <4>1. /\ Append(u.queue, l + 1) \in Seq(DOMAIN y)
            /\ Len(u.queue) \in Nat /\ DOMAIN u.queue = 1 .. Len(u.queue)
            /\ DOMAIN Append(u.queue, l + 1) = 1 .. Len(u.queue) + 1
            /\ \A j \in 1 .. Len(u.queue) : Append(u.queue, l + 1)[j] = u.queue[j]
            /\ Append(u.queue, l + 1)[Len(u.queue) + 1] = l + 1
        BY <1>13, <3>2, Appended
      <4>2. k + 1 \in DOMAIN t.queue
        BY <3>1, <4>1
      <4> QED BY <3>1, <4>1, <4>2
    <3>4. \A i, j \in DOMAIN t.queue : i < j => t.queue[i] < t.queue[j]
      <4> SUFFICES ASSUME NEW i \in 1 .. k + 1, NEW j \in 1 .. k + 1, i < j
                   PROVE  t.queue[i] < t.queue[j]
        BY <3>3
      <4>1. i \in 1 .. k
        BY <3>3
      <4>2. CASE j \in 1 .. k
        BY <1>7, <3>3, <4>1, <4>2
      <4>3. CASE j = k + 1
        BY <1>9, <3>3, <4>1, <4>3
      <4> QED BY <3>3, <4>2, <4>3
    <3>5. \A m \in DOMAIN L, j \in DOMAIN t.queue :
           /\ LastSdu(L[m]) <= t.queue[j]
           /\ LastSdu(L[m]) = t.queue[j] =>
                j = 1 /\ t.fragment > 0 /\ L[m].lastIsFragment /\ t.sno = L[m].sno + (Len(L) + 1 - m)
      <4> SUFFICES ASSUME NEW m \in DOMAIN L, NEW j \in 1 .. k + 1
                   PROVE /\ LastSdu(L[m]) <= t.queue[j]
                         /\ LastSdu(L[m]) = t.queue[j] =>
                              j = 1 /\ t.fragment > 0 /\ L[m].lastIsFragment
                                /\ t.sno = L[m].sno + (Len(L) + 1 - m)
        BY <3>3
      <4>1. CASE j \in 1 .. k
        <5>1. j \in DOMAIN u.queue /\ t.queue[j] = u.queue[j]
          BY <3>3, <4>1
        <5> QED BY <1>7, <3>1, <5>1
      <4>2. CASE j = k + 1
        BY <1>5, <1>10, <3>3, <4>2
      <4> QED BY <3>3, <4>1, <4>2
    <3>6. t.fragment > 0 => t.queue[1] = u.queue[1]
      <4> SUFFICES ASSUME t.fragment > 0 PROVE t.queue[1] = u.queue[1]
        OBVIOUS
      <4>1. u.queue # <<>>
        BY <1>12, <3>1
      <4>2. 1 \in 1 .. k
        BY <1>7, <1>8, <3>3, <4>1
      <4> QED BY <3>3, <4>2
    <3>7. t.fragment > 0 => /\ t.queue # <<>> /\ L # <<>>
                            /\ LastSdu(L[Len(L)]) = t.queue[1]
                            /\ Ending(L[Len(L)]) + t.fragment = y[t.queue[1]]
      BY <1>7, <1>12, <3>1, <3>3, <3>6
    <3> QED BY <1>7, <1>11, <3>1, <3>3, <3>4, <3>5, <3>7 DEF TxOk
  <2> QED BY <1>6, <2>1, <2>2
<1>15. Content(rx, L, y)
  <2> PICK r : r = rx
    OBVIOUS
  <2>1. /\ r.done \subseteq DOMAIN L /\ r.passedUp \in Seq(Nat) /\ r.err = FALSE
        /\ \A i, j \in DOMAIN r.passedUp : i < j => r.passedUp[i] < r.passedUp[j]
        /\ \A i \in DOMAIN r.passedUp : r.passedUp[i] \in DOMAIN z
        /\ \A s \in DOMAIN z :
             (\E i \in DOMAIN r.passedUp : r.passedUp[i] = s)
               <=> Ended(L, z, s) /\ \A m \in DOMAIN L : Has(L[m], s) => m \in r.done
        /\ r.buffered = Nothing \/ \E b \in DOMAIN L : Kept(r.done, L, b) /\ r.buffered = Tail_(L[b])
    BY <1>2 DEF Content
  <2>2. DOMAIN z \subseteq DOMAIN y /\ \A s \in DOMAIN y : s \in DOMAIN z \/ s = l + 1
    BY <1>5
  <2>3. l + 1 \notin DOMAIN z
    BY <1>5
  <2>4. ASSUME NEW s \in DOMAIN y
        PROVE  (\E i \in DOMAIN r.passedUp : r.passedUp[i] = s)
                 <=> Ended(L, y, s) /\ \A m \in DOMAIN L : Has(L[m], s) => m \in r.done
    <3>1. CASE s \in DOMAIN z
      BY <1>5, <2>1, <3>1
    <3>2. CASE s = l + 1
      BY <1>5, <2>1, <2>3, <3>2
    <3> QED BY <2>2, <3>1, <3>2
  <2>5. Content(r, L, y)
    BY <2>1, <2>2, <2>4 DEF Content
  <2> QED BY <2>5
<1>16. t.sno = u.sno
  BY <1>6, <1>7
<1>17. Epoch(t, L) = Epoch(u, L)
  BY <1>16 DEF Epoch
<1>18. Ends(rx, t, L, y, bearer, inUse) /\ Between(rx, t, L, air, inUse)
  BY <1>1, <1>2, <1>3, <1>5, <1>14, <1>15, <1>17 DEF Ends, Between
<1>19. Ends(rx, tx, pdus, size, bearer, inUse)' /\ Between(rx, tx, pdus, air, inUse)'
  BY <1>3, <1>18
<1>20. DOMAIN RxReset(0) = RxFields
  BY DEF RxFields
<1> QED BY <1>19, <1>20 DEF IInv, Ends, Between

\* A new PDU changes nothing of what the receiver has to show.
LEMMA ContentGrows ==
  ASSUME NEW K, NEW L, NEW z, Log(K, z), Log(L, z), Len(L) = Len(K) + 1,
         \A m \in DOMAIN K : L[m] = K[m],
         NEW r, Content(r, K, z), NEW c
  PROVE  /\ Content(r, L, z) /\ (Joined(r, K, c) => Joined(r, L, c))
         /\ (Stored(r, K, c) => Stored(r, L, c))
<1> PICK n : n = Len(L)
  OBVIOUS
<1>1. /\ Len(K) \in Nat /\ DOMAIN K = 1 .. Len(K) /\ DOMAIN L = 1 .. n /\ n = Len(K) + 1
  BY LogTypes
<1>2. DOMAIN L = DOMAIN K \cup {n} /\ n \notin DOMAIN K /\ \A m \in DOMAIN K : m \in DOMAIN L /\ m < n
  BY <1>1
<1>3. /\ r.done \subseteq DOMAIN K /\ r.passedUp \in Seq(Nat) /\ r.err = FALSE
      /\ \A i, j \in DOMAIN r.passedUp : i < j => r.passedUp[i] < r.passedUp[j]
      /\ \A i \in DOMAIN r.passedUp : r.passedUp[i] \in DOMAIN z
      /\ \A s \in DOMAIN z :
           (\E i \in DOMAIN r.passedUp : r.passedUp[i] = s)
             <=> Ended(K, z, s) /\ \A m \in DOMAIN K : Has(K[m], s) => m \in r.done
      /\ r.buffered = Nothing \/ \E b \in DOMAIN K : Kept(r.done, K, b) /\ r.buffered = Tail_(K[b])
  BY DEF Content
<1>4. n \notin r.done
  BY <1>2, <1>3
<1>5. ASSUME NEW s \in DOMAIN z
      PROVE  (Ended(K, z, s) /\ \A m \in DOMAIN K : Has(K[m], s) => m \in r.done)
               <=> Ended(L, z, s) /\ \A m \in DOMAIN L : Has(L[m], s) => m \in r.done
  <2>1. ASSUME Ended(K, z, s), Has(L[n], s) PROVE FALSE
    <3>1. PICK m \in DOMAIN K : \E i \in DOMAIN K[m].parts : K[m].parts[i].sdu = s /\ End(K[m], i) = z[s]
      BY <2>1 DEF Ended
    <3>2. PICK i \in DOMAIN L[m].parts : L[m].parts[i].sdu = s /\ End(L[m], i) = z[s]
      BY <3>1
    <3>3. PICK j \in DOMAIN L[n].parts : L[n].parts[j].sdu = s
      BY <2>1 DEF Has
    <3>4. m \in DOMAIN L /\ n \in DOMAIN L /\ m < n
      BY <1>2
    <3>5. L[m].parts[i].sdu = L[n].parts[j].sdu => End(L[m], i) # z[L[m].parts[i].sdu]
      BY <3>4, PartsInOrder
    <3> QED BY <3>2, <3>3, <3>5
  <2>2. Ended(K, z, s) => Ended(L, z, s)
    BY <1>2 DEF Ended
  <2>3. Ended(L, z, s) /\ ~Has(L[n], s) => Ended(K, z, s)
    <3> SUFFICES ASSUME Ended(L, z, s), ~Has(L[n], s) PROVE Ended(K, z, s)
      OBVIOUS
    <3>1. PICK m \in DOMAIN L : \E i \in DOMAIN L[m].parts : L[m].parts[i].sdu = s /\ End(L[m], i) = z[s]
      BY DEF Ended
    <3>2. m # n
      BY <3>1 DEF Has
    <3>3. m \in DOMAIN K /\ L[m] = K[m]
      BY <1>2, <3>2
    <3> QED BY <3>1, <3>3 DEF Ended
  <2>4. ASSUME Ended(K, z, s), \A m \in DOMAIN K : Has(K[m], s) => m \in r.done
        PROVE  Ended(L, z, s) /\ \A m \in DOMAIN L : Has(L[m], s) => m \in r.done
    <3>1. ASSUME NEW m \in DOMAIN L, Has(L[m], s) PROVE m \in r.done
      <4>1. m # n
        BY <2>1, <2>4, <3>1
      <4>2. m \in DOMAIN K /\ L[m] = K[m]
        BY <1>2, <4>1
      <4> QED BY <2>4, <3>1, <4>2
    <3> QED BY <2>2, <2>4, <3>1
  <2>5. ASSUME Ended(L, z, s), \A m \in DOMAIN L : Has(L[m], s) => m \in r.done
        PROVE  Ended(K, z, s) /\ \A m \in DOMAIN K : Has(K[m], s) => m \in r.done
    <3>1. ~Has(L[n], s)
      BY <1>2, <1>4, <2>5
    <3>2. \A m \in DOMAIN K : Has(K[m], s) => m \in r.done
      BY <1>2, <2>5
    <3> QED BY <2>3, <2>5, <3>1, <3>2
  <2> QED BY <2>4, <2>5
<1>6. ASSUME NEW b \in DOMAIN K PROVE Kept(r.done, L, b) <=> Kept(r.done, K, b)
  <2>1. \A m \in 1 .. b : m \in DOMAIN K /\ L[m] = K[m]
    BY <1>1, <1>6
  <2>2. L[b] = K[b]
    BY <1>6
  <2> QED BY <2>1, <2>2 DEF Kept
<1>7. ASSUME NEW b \in DOMAIN L, Kept(r.done, L, b) PROVE b \in DOMAIN K
  BY <1>3, <1>7 DEF Kept
<1>8. r.buffered = Nothing \/ \E b \in DOMAIN L : Kept(r.done, L, b) /\ r.buffered = Tail_(L[b])
  <2> SUFFICES ASSUME NEW b \in DOMAIN K, Kept(r.done, K, b), r.buffered = Tail_(K[b])
               PROVE  \E d \in DOMAIN L : Kept(r.done, L, d) /\ r.buffered = Tail_(L[d])
    BY <1>3
  <2>1. b \in DOMAIN L /\ Kept(r.done, L, b) /\ L[b] = K[b]
    BY <1>2, <1>6
  <2> QED BY <2>1
<1>9. r.done \subseteq DOMAIN L
  BY <1>2, <1>3
<1>10. \A s \in DOMAIN z :
         (\E i \in DOMAIN r.passedUp : r.passedUp[i] = s)
           <=> Ended(L, z, s) /\ \A m \in DOMAIN L : Has(L[m], s) => m \in r.done
  <2> TAKE s \in DOMAIN z
  <2>1. (\E i \in DOMAIN r.passedUp : r.passedUp[i] = s)
          <=> Ended(K, z, s) /\ \A m \in DOMAIN K : Has(K[m], s) => m \in r.done
    BY <1>3
  <2> QED BY <1>5, <2>1
<1>11. Content(r, L, z)
  BY <1>3, <1>8, <1>9, <1>10 DEF Content
<1>12. Joined(r, K, c) => Joined(r, L, c)
  BY <1>6, <1>7 DEF Joined
<1>13. Stored(r, K, c) => Stored(r, L, c)
  BY <1>2 DEF Stored
<1> QED BY <1>11, <1>12, <1>13

LEMMA RlcPduMakeStep ==
  ASSUME IInv, NEW request \in Requests, RlcPduMake(request)
  PROVE  IInv'
<1> PICK payload : payload = request - RlcHeader
  OBVIOUS
<1> PICK p : p = Pdu(tx, payload)
  OBVIOUS
<1> PICK t : t = AfterPdu(tx, payload)
  OBVIOUS
<1> PICK K : K = pdus
  OBVIOUS
<1> PICK L : L = Append(pdus, p)
  OBVIOUS
<1> PICK c : c = Epoch(tx, pdus)
  OBVIOUS
<1>1. Ends(rx, tx, K, size, bearer, inUse) /\ Between(rx, tx, K, air, inUse)
  BY InParts
<1>2. /\ bearer \in Bearers /\ Log(K, size) /\ TxOk(tx, K, size)
      /\ DOMAIN rx = RxFields /\ Window(rx) /\ Content(rx, K, size)
      /\ bearer = "multicast" /\ ~rx.init => DOMAIN rx.store = {} /\ rx.done = {}
      /\ ~inUse => tx.queue = <<>>
  BY <1>1 DEF Ends
<1>3. /\ request > RlcHeader /\ tx.queue # <<>> /\ air' = air \cup {p} /\ t = tx' /\ L = pdus'
      /\ UNCHANGED <<bearer, size, rx, inUse>>
  BY DEF RlcPduMake
<1>4. inUse
  BY <1>2, <1>3
<1>5. payload \in Nat \ {0}
  BY <1>3, RlcUmAssumption DEF RlcHeader
<1>6. Log(pdus, size) /\ TxOk(tx, pdus, size)
  BY <1>2
<1>7. Log(L, size)
  BY <1>3, <1>5, <1>6, LogGrows
<1>8. TxOk(t, L, size)
  BY <1>3, <1>5, <1>6, SenderGoesOn
<1>9. p \in PduType /\ p.id = Len(pdus) + 1 /\ p.sno = tx.sno
  BY <1>3, <1>5, <1>6, PduMade
<1>10. /\ Len(L) = Len(K) + 1 /\ Len(K) \in Nat /\ DOMAIN K = 1 .. Len(K) /\ DOMAIN L = 1 .. Len(K) + 1
       /\ \A m \in DOMAIN K : L[m] = K[m]
       /\ L[Len(K) + 1] = p
  <2>1. K \in Seq(PduType)
    BY <1>2 DEF Log
  <2>2. L = Append(K, p)
    OBVIOUS
  <2> QED BY <1>9, <2>1, <2>2, Appended
<1>11. t.sno = tx.sno + 1 /\ tx.sno \in Nat
  BY <1>6, <1>10 DEF AfterPdu, TxOk
<1>12. Epoch(t, L) = c /\ c = Len(K) + 1 - tx.sno /\ c \in Int
  <2>1. Epoch(t, L) = Len(L) + 1 - t.sno /\ c = Len(K) + 1 - tx.sno
    BY DEF Epoch
  <2>2. Len(L) = Len(K) + 1 /\ Len(K) \in Nat /\ t.sno = tx.sno + 1 /\ tx.sno \in Nat
    BY <1>10, <1>11
  <2> QED BY <2>1, <2>2
<1>13. Stored(rx, K, c) /\ Joined(rx, K, c) /\ \A q \in air : Known(q, K, c)
  BY <1>1, <1>4 DEF Between
<1> PICK r : r = rx
  OBVIOUS
<1> PICK z : z = size
  OBVIOUS
<1>14. Content(r, L, z) /\ Joined(r, L, c) /\ Stored(r, L, c)
  <2>1. Log(K, z) /\ Log(L, z) /\ Content(r, K, z) /\ Joined(r, K, c) /\ Stored(r, K, c)
    BY <1>2, <1>7, <1>13
  <2> QED BY <1>10, <2>1, ContentGrows
<1>15. \A q \in air' : Known(q, L, c)
  <2>1. Known(p, L, c)
    BY <1>9, <1>10, <1>11, <1>12 DEF Known
  <2>2. \A q \in air : Known(q, L, c)
    BY <1>10, <1>13 DEF Known
  <2> QED BY <1>3, <2>1, <2>2
<1>16. Ends(rx, t, L, size, bearer, inUse) /\ Between(rx, t, L, air', inUse)
  BY <1>2, <1>4, <1>7, <1>8, <1>12, <1>14, <1>15 DEF Ends, Between
<1>17. Ends(rx, tx, pdus, size, bearer, inUse)' /\ Between(rx, tx, pdus, air, inUse)'
  BY <1>3, <1>16
<1>18. DOMAIN RxReset(0) = RxFields
  BY DEF RxFields
<1> QED BY <1>17, <1>18 DEF IInv, Ends, Between
-----------------------------------------------------------------------------
(* Theorems                                                                 *)

LEMMA StutterStep ==
  ASSUME IInv, UNCHANGED vars
  PROVE  IInv'
BY DEF IInv, vars, Epoch

\* The invariant, for one bearer of either kind whose switches are its own.
THEOREM Invariance == RightBearer => (Spec => []IInv)
<1> SUFFICES ASSUME RightBearer PROVE Spec => []IInv
  OBVIOUS
<1>1. IInv /\ [Next]_vars => IInv'
  <2> SUFFICES ASSUME IInv, [Next]_vars PROVE IInv'
    OBVIOUS
  <2>1. ASSUME NEW n \in SduSizes, HandleSdu(n) PROVE IInv'
    BY <2>1, HandleSduStep
  <2>2. ASSUME NEW request \in Requests, RlcPduMake(request) PROVE IInv'
    BY <2>2, RlcPduMakeStep
  <2>3. ASSUME NEW p \in air, Enque(p) PROVE IInv'
    BY <2>3, EnqueStep
  <2>4. ASSUME NEW p \in air, Lose(p) PROVE IInv'
    BY <2>4, LoseStep
  <2>5. CASE ReorderingTimer
    BY <2>5, ReorderingTimerStep
  <2>6. CASE SwitchAway
    BY <2>6, SwitchAwayStep
  <2>7. CASE SwitchBack
    BY <2>7, SwitchBackStep
  <2>8. CASE UNCHANGED vars
    BY <2>8, StutterStep
  <2> QED BY <2>1, <2>2, <2>3, <2>4, <2>5, <2>6, <2>7, <2>8 DEF Next
<1> QED BY <1>1, Initially, PTL DEF Spec

\* PDCP gets the SDUs in the order in which they were sent, none of them twice,
\* whatever H-ARQ reorders or loses and whenever the mode is switched.
THEOREM SdusAreInOrder == RightBearer => (Spec => []InOrder)
<1>1. IInv => InOrder
  BY DEF IInv, Content, InOrder
<1> QED BY <1>1, Invariance, PTL

\* No exception of the window or of the reassembly is thrown.
THEOREM NoErrorIsThrown == RightBearer => (Spec => []NoError)
<1>1. IInv => NoError
  BY DEF IInv, Content, NoError
<1> QED BY <1>1, Invariance, PTL

\* An SDU is passed up exactly when it was sent to its end and every PDU with a
\* part of it was taken.
THEOREM PassedUpExactlyWhenComplete == RightBearer => (Spec => []PassedUpWhenComplete)
<1>1. IInv => PassedUpWhenComplete
  <2> SUFFICES ASSUME IInv, NEW s \in DOMAIN size PROVE PassedUp(s) <=> Complete(s)
    BY DEF PassedUpWhenComplete
  <2>1. (\E i \in DOMAIN rx.passedUp : rx.passedUp[i] = s)
          <=> Ended(pdus, size, s) /\ \A m \in DOMAIN pdus : Has(pdus[m], s) => m \in rx.done
    BY DEF IInv, Content
  <2>2. s \in tx.sent <=> Ended(pdus, size, s)
    BY DEF IInv, TxOk
  <2>3. Pieces(s) \subseteq rx.done <=> \A m \in DOMAIN pdus : Has(pdus[m], s) => m \in rx.done
    BY DEF Pieces, Has
  <2> QED BY <2>1, <2>2, <2>3 DEF PassedUp, Complete
<1> QED BY <1>1, Invariance, PTL
=============================================================================
