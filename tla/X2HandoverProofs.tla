-------------------------- MODULE X2HandoverProofs --------------------------
(***************************************************************************)
(* Proofs about X2Handover, for every set of cells and any number of        *)
(* packets and handovers.                                                   *)
(***************************************************************************)
EXTENDS X2Handover, SequenceTheorems, TLAPS

(***************************************************************************)
(* Sequences of packets and the sets of their elements.                     *)
(***************************************************************************)

\* Every packet of S comes before every one of T, but for those in L.
Before(S, T, L) == \A x \in S, y \in T : x \in L \/ y \in L \/ x < y

\* What Append does to the elements and to the order.
LEMMA AppendFacts ==
  ASSUME NEW E, NEW s \in Seq(E), NEW x \in E
  PROVE  /\ Append(s, x) \in Seq(E)
         /\ ToSet(Append(s, x)) = ToSet(s) \cup {x}
BY AppendProperties DEF ToSet

LEMMA AppendOrder ==
  ASSUME NEW s \in Seq(Nat), NEW x \in Nat, NEW L,
         Increasing(s, L), Before(ToSet(s), {x}, L)
  PROVE  Increasing(Append(s, x), L)
<1> SUFFICES ASSUME NEW i \in DOMAIN Append(s, x), NEW j \in DOMAIN Append(s, x), i < j
             PROVE  Append(s, x)[i] \in L \/ Append(s, x)[j] \in L
                      \/ Append(s, x)[i] < Append(s, x)[j]
  BY DEF Increasing
<1>1. i \in 1 .. Len(s) /\ Append(s, x)[i] = s[i] /\ s[i] \in ToSet(s)
  BY DEF ToSet
<1>2. CASE j \in 1 .. Len(s)
  BY <1>1, <1>2 DEF Increasing
<1>3. CASE j = Len(s) + 1
  <2>1. Append(s, x)[j] = x
    BY <1>3
  <2> QED BY <1>1, <2>1 DEF Before
<1> QED BY <1>2, <1>3

\* The head of a sequence and the rest.
LEMMA HeadFacts ==
  ASSUME NEW E, NEW s \in Seq(E), s # << >>
  PROVE  /\ Head(s) \in E /\ Tail(s) \in Seq(E)
         /\ ToSet(s) = ToSet(Tail(s)) \cup {Head(s)}
<1>1. Head(s) \in E /\ Tail(s) \in Seq(E) /\ Head(s) = s[1]
      /\ Len(s) \in Nat /\ Len(s) >= 1 /\ Len(Tail(s)) = Len(s) - 1
      /\ \A i \in 1 .. Len(Tail(s)) : Tail(s)[i] = s[i + 1]
  BY HeadTailProperties, EmptySeq
<1>2. ASSUME NEW y \in ToSet(s) PROVE y \in ToSet(Tail(s)) \cup {Head(s)}
  <2>1. PICK i \in 1 .. Len(s) : y = s[i]
    BY DEF ToSet
  <2>2. CASE i = 1
    BY <1>1, <2>1, <2>2
  <2>3. CASE i # 1
    <3>1. i - 1 \in 1 .. Len(Tail(s)) /\ Tail(s)[i - 1] = s[(i - 1) + 1]
      BY <1>1, <2>1, <2>3
    <3>2. y = Tail(s)[i - 1]
      BY <3>1, <2>1
    <3>3. DOMAIN Tail(s) = 1 .. Len(Tail(s))
      BY <1>1
    <3>4. y \in ToSet(Tail(s))
      BY <3>1, <3>2, <3>3, Zenon DEF ToSet
    <3> QED BY <3>4
  <2> QED BY <2>2, <2>3
<1>3. ASSUME NEW y \in ToSet(Tail(s)) \cup {Head(s)} PROVE y \in ToSet(s)
  <2>1. CASE y = Head(s)
    BY <1>1, <2>1 DEF ToSet
  <2>2. CASE y \in ToSet(Tail(s))
    <3>1. PICK i \in 1 .. Len(Tail(s)) : y = Tail(s)[i]
      BY <2>2, <1>1 DEF ToSet
    <3>2. i + 1 \in 1 .. Len(s) /\ y = s[i + 1]
      BY <3>1, <1>1
    <3> QED BY <3>2 DEF ToSet
  <2> QED BY <2>1, <2>2, <1>3
<1> QED BY <1>1, <1>2, <1>3

LEMMA HeadOrder ==
  ASSUME NEW s \in Seq(Nat), s # << >>, NEW L, Increasing(s, L)
  PROVE  Increasing(Tail(s), L) /\ Before({Head(s)}, ToSet(Tail(s)), L)
<1>1. Tail(s) \in Seq(Nat) /\ Head(s) = s[1]
      /\ Len(s) \in Nat /\ Len(s) >= 1 /\ Len(Tail(s)) = Len(s) - 1
      /\ \A i \in 1 .. Len(Tail(s)) : Tail(s)[i] = s[i + 1]
  BY HeadTailProperties, EmptySeq
<1>2. Increasing(Tail(s), L)
  <2> SUFFICES ASSUME NEW i \in 1 .. Len(Tail(s)), NEW j \in 1 .. Len(Tail(s)), i < j
               PROVE  Tail(s)[i] \in L \/ Tail(s)[j] \in L \/ Tail(s)[i] < Tail(s)[j]
    BY <1>1 DEF Increasing
  <2>1. i + 1 \in DOMAIN s /\ j + 1 \in DOMAIN s /\ i + 1 < j + 1
    BY <1>1
  <2> QED BY <1>1, <2>1 DEF Increasing
<1>3. Before({Head(s)}, ToSet(Tail(s)), L)
  <2> SUFFICES ASSUME NEW y \in ToSet(Tail(s)) PROVE s[1] \in L \/ y \in L \/ s[1] < y
    BY <1>1 DEF Before
  <2>1. PICK i \in 1 .. Len(Tail(s)) : y = Tail(s)[i]
    BY <1>1 DEF ToSet
  <2>2. 1 \in DOMAIN s /\ i + 1 \in DOMAIN s /\ 1 < i + 1 /\ y = s[i + 1]
    BY <1>1, <2>1
  <2> QED BY <2>2 DEF Increasing
<1> QED BY <1>2, <1>3

\* Two sequences, one behind the other.
LEMMA ConcatFacts ==
  ASSUME NEW s \in Seq(Nat), NEW t \in Seq(Nat)
  PROVE  s \o t \in Seq(Nat) /\ ToSet(s \o t) = ToSet(s) \cup ToSet(t)
<1>1. s \o t \in Seq(Nat) /\ Len(s \o t) = Len(s) + Len(t)
      /\ Len(s) \in Nat /\ Len(t) \in Nat
      /\ \A i \in 1 .. Len(s) + Len(t) :
           (s \o t)[i] = IF i <= Len(s) THEN s[i] ELSE t[i - Len(s)]
  BY ConcatProperties
<1>2. ASSUME NEW y \in ToSet(s \o t) PROVE y \in ToSet(s) \cup ToSet(t)
  <2>1. PICK i \in 1 .. Len(s) + Len(t) : y = (s \o t)[i]
    BY <1>1 DEF ToSet
  <2>2. CASE i <= Len(s)
    BY <1>1, <2>1, <2>2 DEF ToSet
  <2>3. CASE ~ i <= Len(s)
    <3>1. i - Len(s) \in 1 .. Len(t) /\ y = t[i - Len(s)]
      BY <1>1, <2>1, <2>3
    <3> QED BY <3>1 DEF ToSet
  <2> QED BY <2>2, <2>3
<1>3. ASSUME NEW y \in ToSet(s) PROVE y \in ToSet(s \o t)
  <2>1. PICK i \in 1 .. Len(s) : y = s[i]
    BY <1>3 DEF ToSet
  <2>2. i \in 1 .. Len(s \o t) /\ y = (s \o t)[i]
    BY <1>1, <2>1
  <2> QED BY <1>1, <2>2 DEF ToSet
<1>4. ASSUME NEW y \in ToSet(t) PROVE y \in ToSet(s \o t)
  <2>1. PICK i \in 1 .. Len(t) : y = t[i]
    BY <1>4 DEF ToSet
  <2>2. i + Len(s) \in 1 .. Len(s) + Len(t) /\ ~ i + Len(s) <= Len(s)
        /\ (i + Len(s)) - Len(s) = i
    BY <1>1, <2>1
  <2>3. y = (s \o t)[i + Len(s)]
    BY <1>1, <2>1, <2>2
  <2>4. DOMAIN (s \o t) = 1 .. Len(s) + Len(t)
    BY <1>1
  <2> QED BY <2>2, <2>3, <2>4, Zenon DEF ToSet
<1> QED BY <1>1, <1>2, <1>3, <1>4

LEMMA ConcatOrder ==
  ASSUME NEW s \in Seq(Nat), NEW t \in Seq(Nat), NEW L,
         Increasing(s, L), Increasing(t, L), Before(ToSet(s), ToSet(t), L)
  PROVE  Increasing(s \o t, L)
<1>1. s \o t \in Seq(Nat) /\ Len(s \o t) = Len(s) + Len(t)
      /\ Len(s) \in Nat /\ Len(t) \in Nat
      /\ \A i \in 1 .. Len(s) + Len(t) :
           (s \o t)[i] = IF i <= Len(s) THEN s[i] ELSE t[i - Len(s)]
  BY ConcatProperties
<1> SUFFICES ASSUME NEW i \in 1 .. Len(s) + Len(t), NEW j \in 1 .. Len(s) + Len(t), i < j
             PROVE  (s \o t)[i] \in L \/ (s \o t)[j] \in L \/ (s \o t)[i] < (s \o t)[j]
  BY <1>1 DEF Increasing
<1>2. CASE j <= Len(s)
  <2>1. i \in DOMAIN s /\ j \in DOMAIN s /\ (s \o t)[i] = s[i] /\ (s \o t)[j] = s[j]
    BY <1>1, <1>2
  <2> QED BY <2>1 DEF Increasing
<1>3. CASE i <= Len(s) /\ ~ j <= Len(s)
  <2>1. i \in 1 .. Len(s) /\ j - Len(s) \in 1 .. Len(t)
        /\ (s \o t)[i] = s[i] /\ (s \o t)[j] = t[j - Len(s)]
    BY <1>1, <1>3
  <2>2. s[i] \in ToSet(s) /\ t[j - Len(s)] \in ToSet(t)
    BY <2>1 DEF ToSet
  <2> QED BY <2>1, <2>2 DEF Before
<1>4. CASE ~ i <= Len(s)
  <2>1. i - Len(s) \in DOMAIN t /\ j - Len(s) \in DOMAIN t /\ i - Len(s) < j - Len(s)
        /\ (s \o t)[i] = t[i - Len(s)] /\ (s \o t)[j] = t[j - Len(s)]
    BY <1>1, <1>4
  <2> QED BY <2>1 DEF Increasing
<1> QED BY <1>2, <1>3, <1>4

\* The order is kept when more packets are late.
LEMMA MoreLate ==
  ASSUME NEW s, NEW L, NEW M, L \subseteq M, Increasing(s, L)
  PROVE  Increasing(s, M)
BY DEF Increasing

(***************************************************************************)
(* The state keeps its shape.                                               *)
(***************************************************************************)

LEMMA PairFacts ==
  ASSUME NEW s \in Cells, NEW c \in Cells
  PROVE  <<s, c>> \in Pairs <=> s # c
BY DEF Pairs

LEMMA ElementType ==
  ASSUME NEW E, NEW s \in Seq(E)
  PROVE  ToSet(s) \in SUBSET E
BY ElementOfSeq DEF ToSet

LEMMA AppendAt ==
  ASSUME NEW I, NEW E, NEW f \in [I -> Seq(E)], NEW i, NEW x \in E
  PROVE  [f EXCEPT ![i] = Append(@, x)] \in [I -> Seq(E)]
<1>1. CASE i \in I
  <2>1. f[i] \in Seq(E)
    BY <1>1
  <2>2. Append(f[i], x) \in Seq(E)
    BY <2>1, AppendFacts
  <2> QED BY <2>2
<1>2. CASE i \notin I
  BY <1>2
<1> QED BY <1>1, <1>2

LEMMA TailAt ==
  ASSUME NEW I, NEW E, NEW f \in [I -> Seq(E)], NEW i \in I, f[i] # << >>
  PROVE  [f EXCEPT ![i] = Tail(@)] \in [I -> Seq(E)]
<1>1. f[i] \in Seq(E)
  OBVIOUS
<1>2. Tail(f[i]) \in Seq(E)
  BY <1>1, HeadFacts
<1> QED BY <1>2

LEMMA ConcatType ==
  ASSUME NEW s \in Seq(Nat), NEW t \in Seq(Nat)
  PROVE  s \o t \in Seq(Nat)
BY ConcatFacts

DlHistory == [sent : Nat, down : Seq(Nat), removed : SUBSET Nat, late : SUBSET Nat,
              astray : SUBSET Nat]
UlHistory == [sent : Nat, down : Seq(Nat), removed : SUBSET Nat]

ControlType ==
  /\ serving \in Cells \cup {None} /\ candidate \in Cells \cup {None}
  /\ trigger \in BOOLEAN /\ handovers \in Nat
  /\ forwarding \in [Cells -> Cells \cup {None}] /\ holding \in SUBSET Cells
  /\ ueServing \in Cells \cup {None} /\ ueHold \in BOOLEAN
  /\ x2Control \in [Pairs -> Seq({"start", "complete"})]

PacketType ==
  /\ fromX2 \in [Cells -> Seq(Nat)] /\ fromIp \in [Cells -> Seq(Nat)]
  /\ ueHeld \in Seq(Nat) /\ tunnel \in [Cells -> Seq(Nat)]
  /\ x2Data \in [Pairs -> Seq(Nat)]
  /\ dl \in DlHistory /\ ul \in UlHistory

LEMMA Types == TypeOK <=> ControlType /\ PacketType
BY DEF TypeOK, ControlType, PacketType, DlHistory, UlHistory

LEMMA InitType == X2HandoverAssumption /\ Init => TypeOK
<1> SUFFICES ASSUME X2HandoverAssumption, Init PROVE ControlType /\ PacketType
  BY Types
<1>1. << >> \in Seq(Nat) /\ << >> \in Seq({"start", "complete"})
  OBVIOUS
<1>2. ControlType
  BY <1>1 DEF Init, ControlType
<1>3. dl \in DlHistory
  BY <1>1 DEF Init, DlHistory
<1>4. ul \in UlHistory
  BY <1>1 DEF Init, UlHistory
<1>5. tunnel \in [Cells -> Seq(Nat)] /\ fromX2 \in [Cells -> Seq(Nat)] /\ fromIp \in [Cells -> Seq(Nat)]
  BY <1>1 DEF Init, NoPackets
<1>6. x2Data \in [Pairs -> Seq(Nat)] /\ ueHeld \in Seq(Nat)
  BY <1>1 DEF Init
<1> QED BY <1>2, <1>3, <1>4, <1>5, <1>6 DEF PacketType

LEMMA CoreSendType ==
  ASSUME ControlType, PacketType, CoreSend
  PROVE  ControlType' /\ PacketType'
<1>1. UNCHANGED ControlType
  BY DEF CoreSend, controllerVars, enbVars, ueVars, ControlType
<1>2. fromX2' = fromX2 /\ fromIp' = fromIp /\ ueHeld' = ueHeld /\ x2Data' = x2Data /\ ul' = ul
  BY DEF CoreSend, enbVars, ueVars
<1>3. dl.sent \in Nat /\ dl.removed \in SUBSET Nat /\ tunnel \in [Cells -> Seq(Nat)]
  BY DEF PacketType, DlHistory
<1>4. dl' \in DlHistory
  <2>1. dl' = [dl EXCEPT !.sent = @ + 1,
                         !.removed = IF serving = None THEN @ \cup {dl.sent} ELSE @]
    BY DEF CoreSend
  <2>2. dl.removed \cup {dl.sent} \in SUBSET Nat /\ dl.sent + 1 \in Nat
    BY <1>3
  <2>3. CASE serving = None
    BY <2>1, <2>2, <2>3 DEF PacketType, DlHistory
  <2>4. CASE serving # None
    BY <2>1, <2>2, <2>4 DEF PacketType, DlHistory
  <2> QED BY <2>3, <2>4
<1>5. tunnel' \in [Cells -> Seq(Nat)]
  BY <1>3, AppendAt DEF CoreSend
<1> QED BY <1>1, <1>2, <1>4, <1>5 DEF PacketType

LEMMA FromIpUeType ==
  ASSUME ControlType, PacketType, FromIpUe
  PROVE  ControlType' /\ PacketType'
<1>1. UNCHANGED ControlType
  BY DEF FromIpUe, controllerVars, enbVars, channels, ControlType
<1>2. fromX2' = fromX2 /\ fromIp' = fromIp /\ tunnel' = tunnel /\ x2Data' = x2Data /\ dl' = dl
  BY DEF FromIpUe, enbVars, channels
<1>3. ul.sent \in Nat /\ ul.down \in Seq(Nat) /\ ul.removed \in SUBSET Nat /\ ueHeld \in Seq(Nat)
  BY DEF PacketType, UlHistory
<1>4. Append(ueHeld, ul.sent) \in Seq(Nat) /\ Append(ul.down, ul.sent) \in Seq(Nat)
  BY <1>3, AppendFacts
<1>5. ueHeld' \in Seq(Nat)
  BY <1>3, <1>4 DEF FromIpUe
<1>6. ul' \in UlHistory
  <2>1. \/ ul' = [ul EXCEPT !.sent = @ + 1]
        \/ ul' = [ul EXCEPT !.sent = @ + 1, !.removed = @ \cup {ul.sent}]
        \/ ul' = [ul EXCEPT !.sent = @ + 1, !.down = Append(@, ul.sent)]
    BY DEF FromIpUe
  <2>2. ul.removed \cup {ul.sent} \in SUBSET Nat /\ ul.sent + 1 \in Nat
    BY <1>3
  <2>3. CASE ul' = [ul EXCEPT !.sent = @ + 1]
    BY <2>2, <2>3 DEF PacketType, UlHistory
  <2>4. CASE ul' = [ul EXCEPT !.sent = @ + 1, !.removed = @ \cup {ul.sent}]
    BY <2>2, <2>4 DEF PacketType, UlHistory
  <2>5. CASE ul' = [ul EXCEPT !.sent = @ + 1, !.down = Append(@, ul.sent)]
    BY <1>4, <2>2, <2>5 DEF PacketType, UlHistory
  <2> QED BY <2>1, <2>3, <2>4, <2>5
<1> QED BY <1>1, <1>2, <1>5, <1>6 DEF PacketType

LEMMA TriggerType ==
  ASSUME ControlType, PacketType, NEW c \in Cells \cup {None}, TriggerHandover(c)
  PROVE  ControlType' /\ PacketType'
<1>1. UNCHANGED PacketType
  BY DEF TriggerHandover, PacketType
<1>2. forwarding' \in [Cells -> Cells \cup {None}]
  BY DEF TriggerHandover, ControlType
<1>3. x2Control' \in [Pairs -> Seq({"start", "complete"})]
  <2>1. [x2Control EXCEPT ![<<serving, c>>] = Append(@, "start")]
          \in [Pairs -> Seq({"start", "complete"})]
    BY AppendAt DEF ControlType
  <2>2. x2Control' = x2Control
        \/ x2Control' = [x2Control EXCEPT ![<<serving, c>>] = Append(@, "start")]
    BY DEF TriggerHandover
  <2> QED BY <2>1, <2>2 DEF ControlType
<1> QED BY <1>1, <1>2, <1>3 DEF TriggerHandover, ControlType

LEMMA TunneledType ==
  ASSUME ControlType, PacketType, NEW s \in Cells, NEW c \in Cells, <<s, c>> \in Pairs,
         ReceiveTunneledPacket(s, c)
  PROVE  ControlType' /\ PacketType'
<1>1. UNCHANGED ControlType
  BY DEF ReceiveTunneledPacket, controllerVars, ueVars, ControlType
<1>2. x2Data[<<s, c>>] \in Seq(Nat) /\ x2Data[<<s, c>>] # << >>
  BY DEF ReceiveTunneledPacket, PacketType
<1>3. Head(x2Data[<<s, c>>]) \in Nat
  BY <1>2, HeadFacts
<1>4. x2Data' \in [Pairs -> Seq(Nat)]
  BY <1>2, TailAt DEF ReceiveTunneledPacket, PacketType
<1>5. fromX2' \in [Cells -> Seq(Nat)]
  BY <1>3, AppendAt DEF ReceiveTunneledPacket, PacketType
<1>6. fromIp' = fromIp /\ tunnel' = tunnel /\ ueHeld' = ueHeld /\ dl' = dl /\ ul' = ul
  BY DEF ReceiveTunneledPacket, ueVars
<1> QED BY <1>1, <1>4, <1>5, <1>6 DEF PacketType

LEMMA CommandType ==
  ASSUME ControlType, PacketType, NEW s \in Cells, NEW c \in Cells, <<s, c>> \in Pairs,
         ReceiveHandoverCommand(s, c)
  PROVE  ControlType' /\ PacketType'
<1>1. UNCHANGED PacketType
  BY DEF ReceiveHandoverCommand, ueVars, PacketType
<1>2. x2Control' \in [Pairs -> Seq({"start", "complete"})]
  BY TailAt DEF ReceiveHandoverCommand, ControlType
<1> QED BY <1>1, <1>2 DEF ReceiveHandoverCommand, controllerVars, ueVars, ControlType

LEMMA FromIpBsType ==
  ASSUME ControlType, PacketType, NEW c \in Cells, FromIpBs(c)
  PROVE  ControlType' /\ PacketType'
<1> DEFINE h == Head(tunnel[c])
<1>1. UNCHANGED ControlType
  BY DEF FromIpBs, controllerVars, ueVars, ControlType
<1>2. fromX2' = fromX2 /\ ueHeld' = ueHeld /\ ul' = ul
  BY DEF FromIpBs, ueVars
<1>3. tunnel[c] \in Seq(Nat) /\ tunnel[c] # << >> /\ tunnel' = [tunnel EXCEPT ![c] = Tail(@)]
  BY DEF FromIpBs, PacketType
<1>4. h \in Nat
  BY <1>3, HeadFacts
<1>5. tunnel' \in [Cells -> Seq(Nat)]
  BY <1>3, TailAt DEF PacketType
<1>6. \/ \E t : /\ x2Data' = [x2Data EXCEPT ![<<c, t>>] = Append(@, h)]
                /\ fromIp' = fromIp /\ dl' = dl
      \/ /\ fromIp' = [fromIp EXCEPT ![c] = Append(@, h)]
         /\ x2Data' = x2Data /\ dl' = dl
      \/ /\ dl' = ToStackBs(c, serving, <<h>>)
         /\ fromIp' = fromIp /\ x2Data' = x2Data
  BY DEF FromIpBs
<1> HIDE DEF h
<1>7. ASSUME NEW t, x2Data' = [x2Data EXCEPT ![<<c, t>>] = Append(@, h)],
             fromIp' = fromIp, dl' = dl
      PROVE  PacketType'
  <2>1. x2Data' \in [Pairs -> Seq(Nat)]
    BY <1>4, <1>7, AppendAt DEF PacketType
  <2> QED BY <1>2, <1>5, <1>7, <2>1 DEF PacketType
<1>8. CASE /\ fromIp' = [fromIp EXCEPT ![c] = Append(@, h)]
           /\ x2Data' = x2Data /\ dl' = dl
  <2>1. fromIp' \in [Cells -> Seq(Nat)]
    BY <1>4, <1>8, AppendAt DEF PacketType
  <2>2. x2Data' = x2Data /\ dl' = dl
    BY <1>8
  <2>3. /\ fromX2' \in [Cells -> Seq(Nat)] /\ ueHeld' \in Seq(Nat) /\ ul' \in UlHistory
        /\ x2Data' \in [Pairs -> Seq(Nat)] /\ dl' \in DlHistory
    BY <1>2, <2>2, Zenon DEF PacketType
  <2> QED BY <1>1, <1>5, <2>1, <2>3, Zenon DEF PacketType
<1>9. CASE /\ dl' = ToStackBs(c, serving, <<h>>)
           /\ fromIp' = fromIp /\ x2Data' = x2Data
  <2>1. dl.down \in Seq(Nat) /\ <<h>> \in Seq(Nat)
    BY <1>4 DEF PacketType, DlHistory
  <2>2. dl.down \o <<h>> \in Seq(Nat) /\ ToSet(<<h>>) \in SUBSET Nat
    BY <2>1, ConcatType, ElementType
  <2>3. dl' \in DlHistory
    BY <1>9, <2>2 DEF ToStackBs, PacketType, DlHistory
  <2>4. x2Data' = x2Data /\ fromIp' = fromIp
    BY <1>9
  <2>5. /\ fromX2' \in [Cells -> Seq(Nat)] /\ ueHeld' \in Seq(Nat) /\ ul' \in UlHistory
        /\ x2Data' \in [Pairs -> Seq(Nat)] /\ fromIp' \in [Cells -> Seq(Nat)]
    BY <1>2, <2>4, Zenon DEF PacketType
  <2> QED BY <1>1, <1>5, <2>3, <2>5, Zenon DEF PacketType
<1> QED BY <1>1, <1>6, <1>7, <1>8, <1>9

LEMMA UnderWayType == ASSUME PacketType PROVE UnderWay \in SUBSET Nat
<1>1. \A d \in Cells : ToSet(tunnel[d]) \in SUBSET Nat
  BY ElementType DEF PacketType
<1>2. \A p \in Pairs : ToSet(x2Data[p]) \in SUBSET Nat
  BY ElementType DEF PacketType
<1> QED BY <1>1, <1>2 DEF UnderWay

LEMMA DoHandoverType ==
  ASSUME ControlType, PacketType, DoHandover
  PROVE  ControlType' /\ PacketType'
<1>1. /\ candidate' = candidate /\ handovers' = handovers /\ forwarding' = forwarding
      /\ ueServing' = ueServing /\ tunnel' = tunnel /\ x2Data' = x2Data
      /\ trigger' = FALSE /\ serving' = candidate
  BY DEF DoHandover
<1>2. ueHold' \in BOOLEAN /\ ueHeld' \in Seq(Nat) /\ ul' \in UlHistory
  <2>1. ul.down \in Seq(Nat) /\ ueHeld \in Seq(Nat)
    BY DEF PacketType, UlHistory
  <2>2. ul.down \o ueHeld \in Seq(Nat)
    BY <2>1, ConcatType
  <2>3. SignalHandoverCompleteUe
    BY DEF DoHandover
  <2>4. [ul EXCEPT !.down = @ \o ueHeld] \in UlHistory
    BY <2>2 DEF PacketType, UlHistory
  <2>5. \/ ul' = [ul EXCEPT !.down = @ \o ueHeld] /\ ueHeld' = << >> /\ ueHold' = FALSE
        \/ ul' = ul /\ ueHeld' = ueHeld /\ ueHold' = ueHold
    BY <2>3 DEF SignalHandoverCompleteUe
  <2>6. << >> \in Seq(Nat)
    OBVIOUS
  <2>7. ul \in UlHistory /\ ueHold \in BOOLEAN
    BY DEF ControlType, PacketType
  <2> QED BY <2>1, <2>4, <2>5, <2>6, <2>7
<1>3. UnderWay \in SUBSET Nat
  BY UnderWayType
<1>4. CASE serving # None /\ candidate # None
  <2>1. SignalHandoverCompleteTarget(candidate, serving)
    BY <1>4, Zenon DEF DoHandover
  <2>2. /\ candidate \in Cells /\ fromX2[candidate] \in Seq(Nat) /\ fromIp[candidate] \in Seq(Nat)
        /\ dl.down \in Seq(Nat)
    BY <1>4 DEF ControlType, PacketType, DlHistory
  <2> DEFINE q == fromX2[candidate] \o fromIp[candidate]
  <2>3. q \in Seq(Nat)
    BY <2>2, ConcatType
  <2>4. dl' = [ToStackBs(candidate, candidate, q) EXCEPT !.late = @ \cup UnderWay]
    BY <2>1 DEF SignalHandoverCompleteTarget
  <2> HIDE DEF q
  <2>5. dl.down \o q \in Seq(Nat)
    BY <2>2, <2>3, ConcatType
  <2>6. ToStackBs(candidate, candidate, q) \in DlHistory
    BY <2>5 DEF ToStackBs, PacketType, DlHistory
  <2>7. dl' \in DlHistory
    BY <2>4, <2>6, <1>3 DEF DlHistory
  <2>8. fromX2' \in [Cells -> Seq(Nat)] /\ fromIp' \in [Cells -> Seq(Nat)]
    <3>1. << >> \in Seq(Nat)
      OBVIOUS
    <3>2. fromX2' = [fromX2 EXCEPT ![candidate] = << >>]
          /\ fromIp' = [fromIp EXCEPT ![candidate] = << >>]
      BY <2>1 DEF SignalHandoverCompleteTarget
    <3> QED BY <3>1, <3>2 DEF PacketType
  <2>9. x2Control' \in [Pairs -> Seq({"start", "complete"})]
    BY <2>1, AppendAt DEF SignalHandoverCompleteTarget, ControlType
  <2>10. holding' \in SUBSET Cells
    BY <2>1 DEF SignalHandoverCompleteTarget, ControlType
  <2> QED BY <1>1, <1>2, <2>7, <2>8, <2>9, <2>10 DEF ControlType, PacketType
<1>5. CASE ~ (serving # None /\ candidate # None)
  <2>1. /\ dl' = [dl EXCEPT !.late = @ \cup UnderWay]
        /\ x2Control' = x2Control /\ holding' = holding /\ fromX2' = fromX2 /\ fromIp' = fromIp
    BY <1>5, Zenon DEF DoHandover
  <2>2. dl' \in DlHistory
    BY <2>1, <1>3 DEF PacketType, DlHistory
  <2> QED BY <1>1, <1>2, <2>1, <2>2 DEF ControlType, PacketType
<1> QED BY <1>4, <1>5

LEMMA StepType ==
  ASSUME ControlType, PacketType, [Next]_vars
  PROVE  ControlType' /\ PacketType'
<1>1. CASE UNCHANGED vars
  BY <1>1 DEF vars, controllerVars, enbVars, ueVars, channels, ControlType, PacketType
<1>2. ASSUME NEW p \in Pairs,
             ReceiveTunneledPacket(p[1], p[2]) \/ ReceiveHandoverCommand(p[1], p[2])
      PROVE  ControlType' /\ PacketType'
  <2>1. p[1] \in Cells /\ p[2] \in Cells /\ <<p[1], p[2]>> \in Pairs
    BY DEF Pairs
  <2> QED BY <1>2, <2>1, TunneledType, CommandType
<1> QED BY <1>1, <1>2, CoreSendType, FromIpUeType, DoHandoverType, TriggerType, FromIpBsType
        DEF Next

\* The state keeps its shape, whatever the order of commands and packets.
THEOREM TypeCorrect == Spec => []TypeOK
<1>1. Init => ControlType /\ PacketType
  BY X2HandoverAssumption, InitType, Types
<1>2. ControlType /\ PacketType /\ [Next]_vars => (ControlType /\ PacketType)'
  BY StepType
<1> QED BY <1>1, <1>2, Types, PTL DEF Spec

(***************************************************************************)
(* The handover state: commands under way, and what they and the two ends   *)
(* of a handover have made of the cells.                                    *)
(***************************************************************************)

InProgress(s, c) == trigger /\ serving = s /\ candidate = c

\* A start command belongs to the handover in progress, and the command that
\* ends the forwarding comes from the cell that serves the UE since.
CommandsInv ==
  \A s, c \in Cells : s # c =>
    /\ "start" \in ToSet(x2Control[<<s, c>>]) => InProgress(s, c)
    /\ "complete" \in ToSet(x2Control[<<s, c>>]) => serving = s

HoldingInv == \A c \in holding : trigger /\ candidate = c /\ serving # None

ForwardingInv ==
  /\ \A c \in Cells : forwarding[c] # None =>
       /\ forwarding[c] # c
       /\ \/ InProgress(c, forwarding[c])
          \/ "complete" \in ToSet(x2Control[<<forwarding[c], c>>])
  /\ trigger /\ serving # None /\ candidate # None => forwarding[serving] = candidate

UeInv ==
  /\ ueServing = candidate /\ (trigger <=> serving # candidate)
  /\ ueHold => trigger /\ candidate # None

ControlInv == CommandsInv /\ HoldingInv /\ ForwardingInv /\ UeInv

LEMMA InitControl == ASSUME X2HandoverAssumption, Init PROVE ControlInv
<1>1. CommandsInv
  BY DEF Init, CommandsInv, Pairs, ToSet
<1>2. HoldingInv /\ ForwardingInv /\ UeInv
  BY DEF Init, HoldingInv, ForwardingInv, UeInv
<1> QED BY <1>1, <1>2 DEF ControlInv

\* Most steps leave the handover state alone.
LEMMA SameControl ==
  ASSUME ControlInv, UNCHANGED <<serving, candidate, trigger, forwarding, holding,
                                 x2Control, ueServing, ueHold>>
  PROVE  ControlInv'
BY DEF ControlInv, CommandsInv, HoldingInv, ForwardingInv, UeInv, InProgress

LEMMA TriggerControl ==
  ASSUME X2HandoverAssumption, ControlType, ControlInv,
         NEW c \in Cells \cup {None}, TriggerHandover(c)
  PROVE  ControlInv'
<1>1. /\ ~trigger /\ c # serving /\ candidate' = c /\ trigger' = TRUE
      /\ ueServing' = c /\ ueHold' = (ueHold \/ c # None)
      /\ serving' = serving /\ holding' = holding
  BY DEF TriggerHandover
<1>2. holding = {} /\ ~ueHold
  BY <1>1 DEF ControlInv, HoldingInv, UeInv
<1>3. HoldingInv' /\ UeInv'
  BY <1>1, <1>2 DEF HoldingInv, UeInv
<1>4. ASSUME NEW s \in Cells, NEW d \in Cells, s # d
      PROVE  /\ "start" \notin ToSet(x2Control[<<s, d>>])
             /\ "complete" \in ToSet(x2Control[<<s, d>>]) => serving = s
             /\ x2Control[<<s, d>>] \in Seq({"start", "complete"}) /\ <<s, d>> \in Pairs
  BY <1>1, <1>4 DEF ControlInv, CommandsInv, InProgress, ControlType, Pairs
<1>5. CASE serving # None /\ c # None
  <2>1. /\ forwarding' = [forwarding EXCEPT ![serving] = c]
        /\ x2Control' = [x2Control EXCEPT ![<<serving, c>>] = Append(@, "start")]
        /\ serving \in Cells /\ c \in Cells
    BY <1>5 DEF TriggerHandover, ControlType
  <2>2. ToSet(x2Control'[<<serving, c>>]) = ToSet(x2Control[<<serving, c>>]) \cup {"start"}
    <3>1. x2Control[<<serving, c>>] \in Seq({"start", "complete"}) /\ <<serving, c>> \in Pairs
      BY <1>1, <1>4, <2>1
    <3>2. x2Control'[<<serving, c>>] = Append(x2Control[<<serving, c>>], "start")
      BY <2>1, <3>1 DEF ControlType
    <3> QED BY <3>1, <3>2, AppendFacts
  <2>3. ASSUME NEW s \in Cells, NEW d \in Cells, <<s, d>> # <<serving, c>>
        PROVE  x2Control'[<<s, d>>] = x2Control[<<s, d>>]
    BY <2>1, <2>3 DEF ControlType
  <2>4. CommandsInv'
    <3> SUFFICES ASSUME NEW s \in Cells, NEW d \in Cells, s # d
                 PROVE  /\ "start" \in ToSet(x2Control'[<<s, d>>]) => InProgress(s, d)'
                        /\ "complete" \in ToSet(x2Control'[<<s, d>>]) => serving' = s
      BY DEF CommandsInv
    <3>1. CASE s = serving /\ d = c
      BY <1>1, <3>1 DEF InProgress
    <3>2. CASE ~ (s = serving /\ d = c)
      BY <1>1, <1>4, <2>3, <3>2
    <3> QED BY <3>1, <3>2
  <2>5. ForwardingInv'
    <3>1. forwarding'[serving] = c /\ \A d \in Cells : d # serving => forwarding'[d] = forwarding[d]
      BY <2>1 DEF ControlType
    <3>2. ASSUME NEW d \in Cells, forwarding'[d] # None
          PROVE  /\ forwarding'[d] # d
                 /\ \/ InProgress(d, forwarding[d])'
                    \/ "complete" \in ToSet(x2Control'[<<forwarding'[d], d>>])
      <4>1. CASE d = serving
        BY <1>1, <3>1, <4>1 DEF InProgress
      <4>2. CASE d # serving
        <5>1. forwarding'[d] = forwarding[d] /\ forwarding[d] \in Cells
          BY <3>1, <3>2, <4>2 DEF ControlType
        <5>2. forwarding[d] # d /\ "complete" \in ToSet(x2Control[<<forwarding[d], d>>])
          BY <1>1, <3>2, <5>1 DEF ControlInv, ForwardingInv, InProgress
        <5>3. "complete" \in ToSet(x2Control'[<<forwarding[d], d>>])
          BY <2>2, <2>3, <5>1, <5>2
        <5> QED BY <5>1, <5>2, <5>3
      <4> QED BY <4>1, <4>2
    <3> QED BY <1>1, <3>1, <3>2 DEF ForwardingInv
  <2> QED BY <1>3, <2>4, <2>5 DEF ControlInv
<1>6. CASE ~ (serving # None /\ c # None)
  <2>1. forwarding' = forwarding /\ x2Control' = x2Control
    BY <1>6, Zenon DEF TriggerHandover
  <2>2. CommandsInv'
    BY <1>1, <1>4, <2>1 DEF CommandsInv, InProgress
  <2>3. ForwardingInv'
    BY <1>1, <1>6, <2>1 DEF ControlInv, ForwardingInv, InProgress
  <2> QED BY <1>3, <2>2, <2>3 DEF ControlInv
<1> QED BY <1>5, <1>6

LEMMA CommandControl ==
  ASSUME X2HandoverAssumption, ControlType, ControlInv, NEW s \in Cells, NEW c \in Cells,
         s # c, ReceiveHandoverCommand(s, c)
  PROVE  ControlInv'
<1> DEFINE q == x2Control[<<s, c>>]
<1>1. /\ serving' = serving /\ candidate' = candidate /\ trigger' = trigger
      /\ ueServing' = ueServing /\ ueHold' = ueHold
  BY DEF ReceiveHandoverCommand, controllerVars, ueVars
<1>2. <<s, c>> \in Pairs /\ q # << >> /\ q \in Seq({"start", "complete"})
      /\ x2Control' = [x2Control EXCEPT ![<<s, c>>] = Tail(@)]
  BY DEF ReceiveHandoverCommand, ControlType, Pairs
<1>3. ToSet(q) = ToSet(Tail(q)) \cup {Head(q)}
  BY <1>2, HeadFacts
<1>4. ToSet(x2Control'[<<s, c>>]) = ToSet(Tail(q))
  BY <1>2 DEF ControlType
<1>5. ASSUME NEW t \in Cells, NEW d \in Cells, <<t, d>> # <<s, c>>
      PROVE  x2Control'[<<t, d>>] = x2Control[<<t, d>>]
  BY <1>2, <1>5 DEF ControlType
<1>6. ASSUME NEW t \in Cells, NEW d \in Cells
      PROVE  ToSet(x2Control'[<<t, d>>]) \subseteq ToSet(x2Control[<<t, d>>])
  BY <1>3, <1>4, <1>5
<1>7. UeInv'
  BY <1>1 DEF ControlInv, UeInv
<1>8. CommandsInv'
  BY <1>1, <1>6 DEF ControlInv, CommandsInv, InProgress
<1>9. CASE Head(q) = "start"
  <2>1. holding' = holding \cup {c} /\ forwarding' = forwarding
    BY <1>9 DEF ReceiveHandoverCommand
  <2>2. InProgress(s, c)
    BY <1>3, <1>9 DEF ControlInv, CommandsInv
  <2>3. HoldingInv'
    BY <1>1, <2>1, <2>2 DEF ControlInv, HoldingInv, InProgress, X2HandoverAssumption
  <2>4. ASSUME NEW t \in Cells, NEW d \in Cells, "complete" \in ToSet(x2Control[<<t, d>>])
        PROVE  "complete" \in ToSet(x2Control'[<<t, d>>])
    BY <1>3, <1>4, <1>5, <1>9, <2>4
  <2>5. \A d \in Cells : forwarding[d] \in Cells \cup {None}
    BY DEF ControlType
  <2>6. ForwardingInv'
    BY <1>1, <2>1, <2>4, <2>5 DEF ControlInv, ForwardingInv, InProgress
  <2> QED BY <1>7, <1>8, <2>3, <2>6 DEF ControlInv
<1>10. CASE Head(q) = "complete"
  <2>1. holding' = holding /\ forwarding' = [forwarding EXCEPT ![c] = None]
    BY <1>10 DEF ReceiveHandoverCommand
  <2>2. serving = s
    BY <1>3, <1>10 DEF ControlInv, CommandsInv
  <2>3. HoldingInv'
    BY <1>1, <2>1 DEF ControlInv, HoldingInv
  <2>4. forwarding'[c] = None /\ \A d \in Cells : d # c => forwarding'[d] = forwarding[d]
    BY <2>1 DEF ControlType
  <2>5. \A d \in Cells : forwarding[d] \in Cells \cup {None}
    BY DEF ControlType
  <2>6. ForwardingInv'
    BY <1>1, <1>5, <2>2, <2>4, <2>5 DEF ControlInv, ForwardingInv, InProgress
  <2> QED BY <1>7, <1>8, <2>3, <2>6 DEF ControlInv
<1> QED BY <1>9, <1>10 DEF ReceiveHandoverCommand

LEMMA DoHandoverControl ==
  ASSUME X2HandoverAssumption, ControlType, ControlInv, DoHandover
  PROVE  ControlInv'
<1>1. /\ trigger /\ trigger' = FALSE /\ serving' = candidate /\ candidate' = candidate
      /\ forwarding' = forwarding /\ ueServing' = ueServing
  BY DEF DoHandover
<1>2. \A s, c \in Cells : s # c => x2Control[<<s, c>>] = << >> /\ ToSet(x2Control[<<s, c>>]) = {}
  BY DEF DoHandover, X2IsFaster, Pairs, ToSet
<1>3. serving # candidate /\ ueServing = candidate
  BY <1>1 DEF ControlInv, UeInv
<1>4. UeInv'
  <2>1. SignalHandoverCompleteUe
    BY DEF DoHandover
  <2>2. ueHold' = FALSE
    <3>1. CASE ueServing # None
      BY <2>1, <3>1 DEF SignalHandoverCompleteUe
    <3>2. CASE ueServing = None
      BY <1>3, <2>1, <3>2 DEF SignalHandoverCompleteUe, ControlInv, UeInv
    <3> QED BY <3>1, <3>2
  <2> QED BY <1>1, <1>3, <2>2 DEF UeInv
<1>5. \A d \in Cells : forwarding[d] # None =>
        d = serving /\ forwarding[d] = candidate /\ candidate # None /\ serving # None
  <2> SUFFICES ASSUME NEW d \in Cells, forwarding[d] # None
               PROVE  d = serving /\ forwarding[d] = candidate /\ candidate # None /\ serving # None
    OBVIOUS
  <2>1. forwarding[d] \in Cells /\ forwarding[d] # d
    BY DEF ControlType, ControlInv, ForwardingInv
  <2>2. "complete" \notin ToSet(x2Control[<<forwarding[d], d>>])
    BY <1>2, <2>1
  <2>3. InProgress(d, forwarding[d])
    BY <2>2 DEF ControlInv, ForwardingInv
  <2> QED BY <2>3, X2HandoverAssumption DEF InProgress, X2HandoverAssumption
<1>6. CASE serving # None /\ candidate # None
  <2>1. SignalHandoverCompleteTarget(candidate, serving)
    BY <1>6, Zenon DEF DoHandover
  <2>2. /\ x2Control' = [x2Control EXCEPT ![<<candidate, serving>>] = Append(@, "complete")]
        /\ holding' = holding \ {candidate} /\ serving \in Cells /\ candidate \in Cells
    BY <1>6, <2>1 DEF SignalHandoverCompleteTarget, ControlType
  <2>3. <<candidate, serving>> \in Pairs /\ << >> \in Seq({"start", "complete"})
    BY <1>3, <2>2 DEF Pairs
  <2>4. ToSet(x2Control'[<<candidate, serving>>]) = {"complete"}
    <3>1. x2Control'[<<candidate, serving>>] = Append(<< >>, "complete")
      BY <1>2, <1>3, <2>2, <2>3 DEF ControlType
    <3>2. ToSet(<<"complete">>) = {"complete"}
      BY DEF ToSet
    <3> QED BY <3>1, <3>2
  <2>5. \A s, c \in Cells : s # c /\ <<s, c>> # <<candidate, serving>> =>
          ToSet(x2Control'[<<s, c>>]) = {}
    <3> SUFFICES ASSUME NEW s \in Cells, NEW c \in Cells, s # c, <<s, c>> # <<candidate, serving>>
                 PROVE  ToSet(x2Control'[<<s, c>>]) = {}
      OBVIOUS
    <3>1. x2Control'[<<s, c>>] = x2Control[<<s, c>>]
      BY <2>2 DEF ControlType, Pairs
    <3> QED BY <1>2, <3>1
  <2>6. CommandsInv'
    <3> SUFFICES ASSUME NEW s \in Cells, NEW c \in Cells, s # c
                 PROVE  /\ "start" \notin ToSet(x2Control'[<<s, c>>])
                        /\ "complete" \in ToSet(x2Control'[<<s, c>>]) => serving' = s
      BY DEF CommandsInv
    <3>1. CASE s = candidate /\ c = serving
      BY <1>1, <2>4, <3>1
    <3>2. CASE ~ (s = candidate /\ c = serving)
      BY <2>5, <3>2
    <3> QED BY <3>1, <3>2
  <2>7. HoldingInv'
    BY <2>2 DEF ControlInv, HoldingInv
  <2>8. ForwardingInv'
    BY <1>1, <1>3, <1>5, <2>4 DEF ForwardingInv
  <2> QED BY <1>4, <2>6, <2>7, <2>8 DEF ControlInv
<1>7. CASE ~ (serving # None /\ candidate # None)
  <2>1. x2Control' = x2Control /\ holding' = holding
    BY <1>7, Zenon DEF DoHandover
  <2>2. CommandsInv'
    BY <1>2, <2>1 DEF CommandsInv
  <2>3. HoldingInv'
    BY <1>7, <2>1 DEF ControlInv, HoldingInv, ControlType, X2HandoverAssumption
  <2>4. ForwardingInv'
    BY <1>1, <1>5, <1>7 DEF ForwardingInv
  <2> QED BY <1>4, <2>2, <2>3, <2>4 DEF ControlInv
<1> QED BY <1>6, <1>7

LEMMA StepControl ==
  ASSUME X2HandoverAssumption, ControlType, ControlInv, [Next]_vars
  PROVE  ControlInv'
<1>1. CASE UNCHANGED vars
  BY <1>1, SameControl DEF vars, controllerVars, enbVars, ueVars, channels
<1>2. CASE CoreSend
  BY <1>2, SameControl DEF CoreSend, controllerVars, enbVars, ueVars
<1>3. CASE FromIpUe
  BY <1>3, SameControl DEF FromIpUe, controllerVars, enbVars, channels
<1>4. ASSUME NEW c \in Cells, FromIpBs(c)
      PROVE  ControlInv'
  BY <1>4, SameControl DEF FromIpBs, controllerVars, ueVars
<1>5. ASSUME NEW p \in Pairs,
             ReceiveTunneledPacket(p[1], p[2]) \/ ReceiveHandoverCommand(p[1], p[2])
      PROVE  ControlInv'
  <2>1. p[1] \in Cells /\ p[2] \in Cells /\ p[1] # p[2]
    BY DEF Pairs
  <2>2. CASE ReceiveTunneledPacket(p[1], p[2])
    BY <2>2, SameControl DEF ReceiveTunneledPacket, controllerVars, ueVars
  <2> QED BY <1>5, <2>1, <2>2, CommandControl
<1> QED BY <1>1, <1>2, <1>3, <1>4, <1>5, TriggerControl, DoHandoverControl DEF Next

\* No handover leaves a cell or the UE in its state, however handovers follow
\* upon one another and whatever commands are still under way.
THEOREM HandoversEnd == Spec => []HandoverStateEnds
<1>1. Init => ControlType /\ PacketType /\ ControlInv
  BY X2HandoverAssumption, InitType, Types, InitControl
<1>2. ControlType /\ PacketType /\ ControlInv /\ [Next]_vars
        => (ControlType /\ PacketType /\ ControlInv)'
  BY X2HandoverAssumption, StepType, StepControl
<1>3. ControlInv => HandoverStateEnds
  BY DEF ControlInv, HoldingInv, ForwardingInv, UeInv, InProgress, HandoverStateEnds
<1> QED BY <1>1, <1>2, <1>3, PTL DEF Spec

(***************************************************************************)
(* Uplink: the packets of the UE's IP layer.                                *)
(***************************************************************************)

\* The packets handed down come before those held, and all before the next one.
UlInv ==
  /\ Increasing(ul.down, {}) /\ Increasing(ueHeld, {})
  /\ Before(ToSet(ul.down), ToSet(ueHeld), {})
  /\ Before(ToSet(ul.down) \cup ToSet(ueHeld), {ul.sent}, {})
  /\ 0 .. ul.sent - 1 = ToSet(ul.down) \cup ul.removed \cup ToSet(ueHeld)
  /\ ueHeld # << >> => ueHold

LEMMA EmptyFacts == ToSet(<< >>) = {} /\ \A L : Increasing(<< >>, L)
BY DEF ToSet, Increasing

\* Counting one packet more.
LEMMA NextNumber ==
  ASSUME NEW n \in Nat PROVE 0 .. (n + 1) - 1 = (0 .. n - 1) \cup {n}
OBVIOUS

LEMMA InitUl == ASSUME Init PROVE UlInv
<1>1. ul.down = << >> /\ ul.sent = 0 /\ ul.removed = {} /\ ueHeld = << >>
  BY DEF Init
<1>2. 0 .. ul.sent - 1 = {}
  BY <1>1
<1> QED BY <1>1, <1>2, EmptyFacts DEF UlInv, Before

LEMMA FromIpUeUl ==
  ASSUME ControlType, PacketType, UlInv, FromIpUe
  PROVE  UlInv'
<1> DEFINE n == ul.sent
           d == ul.down
           r == ul.removed
<1>1. n \in Nat /\ d \in Seq(Nat) /\ r \in SUBSET Nat /\ ueHeld \in Seq(Nat)
      /\ ToSet(d) \in SUBSET Nat /\ ToSet(ueHeld) \in SUBSET Nat
  BY ElementType DEF PacketType, UlHistory
<1>2. ueHold' = ueHold
  BY DEF FromIpUe
<1>3. /\ Increasing(d, {}) /\ Increasing(ueHeld, {}) /\ Before(ToSet(d), ToSet(ueHeld), {})
      /\ Before(ToSet(d), {n}, {}) /\ Before(ToSet(ueHeld), {n}, {})
      /\ 0 .. n - 1 = ToSet(d) \cup r \cup ToSet(ueHeld)
      /\ (ueHeld # << >> => ueHold)
  BY DEF UlInv, Before
<1>4. ul'.sent = n + 1 /\ 0 .. (n + 1) - 1 = (0 .. n - 1) \cup {n}
  BY <1>1, NextNumber DEF FromIpUe, PacketType, UlHistory
<1>5. Before(ToSet(d), {n + 1}, {}) /\ Before(ToSet(ueHeld), {n + 1}, {}) /\ Before({n}, {n + 1}, {})
  BY <1>1, <1>3 DEF Before
<1>6. CASE ueHold
  <2>1. ueHeld' = Append(ueHeld, n) /\ ul'.down = d /\ ul'.removed = r
    BY <1>6 DEF FromIpUe, PacketType, UlHistory
  <2>2. ToSet(ueHeld') = ToSet(ueHeld) \cup {n} /\ Increasing(ueHeld', {})
    BY <1>1, <1>3, <2>1, AppendFacts, AppendOrder
  <2>3. Before(ToSet(d), ToSet(ueHeld'), {}) /\ Before(ToSet(d) \cup ToSet(ueHeld'), {n + 1}, {})
    BY <1>3, <1>5, <2>2 DEF Before
  <2> QED BY <1>2, <1>3, <1>4, <1>6, <2>1, <2>2, <2>3 DEF UlInv
<1>7. CASE ~ueHold /\ ueServing = None
  <2>1. ueHeld' = ueHeld /\ ul'.down = d /\ ul'.removed = r \cup {n}
    BY <1>7 DEF FromIpUe, PacketType, UlHistory
  <2>2. Before(ToSet(d) \cup ToSet(ueHeld), {n + 1}, {})
    BY <1>5 DEF Before
  <2> QED BY <1>2, <1>3, <1>4, <2>1, <2>2 DEF UlInv
<1>8. CASE ~ueHold /\ ueServing # None
  <2>1. ueHeld' = ueHeld /\ ul'.down = Append(d, n) /\ ul'.removed = r
    BY <1>8 DEF FromIpUe, PacketType, UlHistory
  <2>2. ToSet(Append(d, n)) = ToSet(d) \cup {n} /\ Increasing(Append(d, n), {})
    BY <1>1, <1>3, AppendFacts, AppendOrder
  <2>3. ueHeld = << >> /\ ToSet(ueHeld) = {}
    BY <1>3, <1>8, EmptyFacts
  <2>4. Before(ToSet(ul'.down), ToSet(ueHeld), {})
        /\ Before(ToSet(ul'.down) \cup ToSet(ueHeld), {n + 1}, {})
    BY <1>5, <2>1, <2>2, <2>3 DEF Before
  <2> QED BY <1>2, <1>3, <1>4, <2>1, <2>2, <2>4 DEF UlInv
<1> QED BY <1>6, <1>7, <1>8

LEMMA DoHandoverUl ==
  ASSUME ControlType, PacketType, UlInv, DoHandover
  PROVE  UlInv'
<1>1. SignalHandoverCompleteUe
  BY DEF DoHandover
<1>2. ul.down \in Seq(Nat) /\ ueHeld \in Seq(Nat)
  BY DEF PacketType, UlHistory
<1>3. CASE ueServing # None
  <2>1. /\ ul'.down = ul.down \o ueHeld /\ ul'.sent = ul.sent /\ ul'.removed = ul.removed
        /\ ueHeld' = << >>
    BY <1>1, <1>3 DEF SignalHandoverCompleteUe, PacketType, UlHistory
  <2>2. ToSet(ul'.down) = ToSet(ul.down) \cup ToSet(ueHeld) /\ Increasing(ul'.down, {})
    BY <1>2, <2>1, ConcatFacts, ConcatOrder DEF UlInv
  <2>3. ToSet(ueHeld') = {} /\ Increasing(ueHeld', {})
    BY <2>1, EmptyFacts
  <2> QED BY <2>1, <2>2, <2>3 DEF UlInv, Before
<1>4. CASE ueServing = None
  <2>1. ul' = ul /\ ueHeld' = ueHeld /\ ueHold' = ueHold
    BY <1>1, <1>4 DEF SignalHandoverCompleteUe
  <2> QED BY <2>1 DEF UlInv
<1> QED BY <1>3, <1>4

LEMMA StepUl ==
  ASSUME ControlType, PacketType, UlInv, [Next]_vars
  PROVE  UlInv'
<1>1. ASSUME ul' = ul, ueHeld' = ueHeld, ueHold' = ueHold PROVE UlInv'
  BY <1>1 DEF UlInv
<1>2. CASE UNCHANGED vars
  BY <1>1, <1>2 DEF vars, ueVars
<1>3. CASE CoreSend
  BY <1>1, <1>3 DEF CoreSend, ueVars
<1>4. ASSUME NEW c \in Cells \cup {None}, TriggerHandover(c)
      PROVE  UlInv'
  BY <1>4 DEF TriggerHandover, UlInv
<1>5. ASSUME NEW c \in Cells, FromIpBs(c)
      PROVE  UlInv'
  BY <1>1, <1>5 DEF FromIpBs, ueVars
<1>6. ASSUME NEW p \in Pairs,
             ReceiveTunneledPacket(p[1], p[2]) \/ ReceiveHandoverCommand(p[1], p[2])
      PROVE  UlInv'
  BY <1>1, <1>6 DEF ReceiveTunneledPacket, ReceiveHandoverCommand, ueVars
<1> QED BY <1>2, <1>3, <1>4, <1>5, <1>6, FromIpUeUl, DoHandoverUl DEF Next

(***************************************************************************)
(* Downlink: where a packet that is not late can be, and in which order.    *)
(***************************************************************************)

Down == ToSet(dl.down)
Tunnelled(c) == ToSet(tunnel[c])
Forwarded(s, c) == ToSet(x2Data[<<s, c>>])
HeldX2(c) == ToSet(fromX2[c])
HeldIp(c) == ToSet(fromIp[c])

\* The others are late: those in the tunnel of a cell that does not serve the
\* UE, those forwarded or queued but for the handover in progress, those held
\* from a tunnel, and those handed to the stack of the wrong cell.
PlacesInv ==
  /\ \A c \in Cells :
       /\ c # serving => Tunnelled(c) \subseteq dl.late
       /\ ~(trigger /\ candidate = c /\ serving # None) => HeldX2(c) \subseteq dl.late
       /\ HeldIp(c) \subseteq dl.late
  /\ \A s, c \in Cells : s # c /\ ~InProgress(s, c) => Forwarded(s, c) \subseteq dl.late
  /\ dl.astray \subseteq dl.late

\* The packets handed down come first; of those to be handed down, the packets
\* that the target queued come before those in the X2 tunnel, and these before
\* those in the tunnel of the source.
OrderInv ==
  /\ Increasing(dl.down, dl.late)
  /\ \A c \in Cells :
       /\ Increasing(tunnel[c], dl.late) /\ Increasing(fromX2[c], dl.late)
       /\ Before(Down, Tunnelled(c), dl.late) /\ Before(Down, HeldX2(c), dl.late)
  /\ \A s, c \in Cells : s # c =>
       /\ Increasing(x2Data[<<s, c>>], dl.late)
       /\ Before(Down, Forwarded(s, c), dl.late)
       /\ Before(HeldX2(c), Forwarded(s, c), dl.late)
       /\ Before(HeldX2(c), Tunnelled(s), dl.late)
       /\ Before(Forwarded(s, c), Tunnelled(s), dl.late)

\* Every packet sent is in one of the places.
AccountInv ==
  0 .. dl.sent - 1 = Down \cup dl.removed \cup UnderWay \cup Held

DownlinkInv == PlacesInv /\ OrderInv /\ AccountInv

LEMMA InitDl == ASSUME Init PROVE DownlinkInv
<1>1. /\ dl.down = << >> /\ dl.sent = 0 /\ dl.removed = {} /\ dl.astray = {}
      /\ \A c \in Cells : tunnel[c] = << >> /\ fromX2[c] = << >> /\ fromIp[c] = << >>
      /\ \A p \in Pairs : x2Data[p] = << >>
  BY DEF Init, NoPackets
<1>2. /\ Down = {} /\ Increasing(dl.down, dl.late)
      /\ \A c \in Cells : /\ Tunnelled(c) = {} /\ HeldX2(c) = {} /\ HeldIp(c) = {}
                          /\ Increasing(tunnel[c], dl.late) /\ Increasing(fromX2[c], dl.late)
  BY <1>1, EmptyFacts DEF Down, Tunnelled, HeldX2, HeldIp
<1>3. \A s, c \in Cells : s # c =>
        Forwarded(s, c) = {} /\ Increasing(x2Data[<<s, c>>], dl.late)
  BY <1>1, EmptyFacts, PairFacts DEF Forwarded
<1>4. PlacesInv
  BY <1>1, <1>2, <1>3 DEF PlacesInv
<1>5. OrderInv
  BY <1>2, <1>3 DEF OrderInv, Before
<1>6. UnderWay = {} /\ Held = {}
  BY <1>1, EmptyFacts DEF UnderWay, Held
<1>7. 0 .. dl.sent - 1 = {}
  BY <1>1
<1> QED BY <1>1, <1>2, <1>4, <1>5, <1>6, <1>7 DEF DownlinkInv, AccountInv

\* The packets of a family of sequences.
Packets(f) == UNION {ToSet(f[i]) : i \in DOMAIN f}

LEMMA Everywhere ==
  ASSUME PacketType
  PROVE  UnderWay = Packets(tunnel) \cup Packets(x2Data) /\ Held = Packets(fromX2) \cup Packets(fromIp)
<1>1. DOMAIN tunnel = Cells /\ DOMAIN fromX2 = Cells /\ DOMAIN fromIp = Cells /\ DOMAIN x2Data = Pairs
  BY DEF PacketType
<1> QED BY <1>1, Zenon DEF UnderWay, Held, Packets

LEMMA EverywhereNext ==
  ASSUME PacketType'
  PROVE  UnderWay' = Packets(tunnel') \cup Packets(x2Data') /\ Held' = Packets(fromX2') \cup Packets(fromIp')
<1>1. /\ DOMAIN tunnel' = Cells /\ DOMAIN fromX2' = Cells /\ DOMAIN fromIp' = Cells
      /\ DOMAIN x2Data' = Pairs
  BY DEF PacketType
<1> QED BY <1>1, Zenon DEF UnderWay, Held, Packets

\* All that was sent comes before the next packet.
LEMMA SentBefore ==
  ASSUME PacketType, AccountInv
  PROVE  /\ dl.sent \in Nat /\ Before(Down, {dl.sent}, dl.late)
         /\ \A c \in Cells : /\ Before(Tunnelled(c), {dl.sent}, dl.late)
                             /\ Before(HeldX2(c), {dl.sent}, dl.late)
         /\ \A s, c \in Cells : s # c => Before(Forwarded(s, c), {dl.sent}, dl.late)
<1>1. dl.sent \in Nat
  BY DEF PacketType, DlHistory
<1>2. \A x \in Down \cup UnderWay \cup Held : x < dl.sent
  BY <1>1 DEF AccountInv
<1>3. \A c \in Cells : Tunnelled(c) \subseteq UnderWay /\ HeldX2(c) \subseteq Held
  BY Zenon DEF Tunnelled, HeldX2, UnderWay, Held
<1>4. \A s, c \in Cells : s # c => Forwarded(s, c) \subseteq UnderWay
  BY PairFacts DEF Forwarded, UnderWay
<1> QED BY <1>1, <1>2, <1>3, <1>4 DEF Before

\* Steps that change nothing of the downlink.
LEMMA SameDl ==
  ASSUME DownlinkInv, UNCHANGED <<serving, candidate, trigger, fromX2, fromIp, tunnel, x2Data, dl>>
  PROVE  DownlinkInv'
BY DEF DownlinkInv, PlacesInv, OrderInv, AccountInv, InProgress, Down, Tunnelled, Forwarded,
       HeldX2, HeldIp, UnderWay, Held

LEMMA CoreSendDl ==
  ASSUME X2HandoverAssumption, ControlType, PacketType, DownlinkInv, CoreSend
  PROVE  DownlinkInv'
<1> DEFINE n == dl.sent
           L == dl.late
<1>1. /\ serving' = serving /\ candidate' = candidate /\ trigger' = trigger
      /\ fromX2' = fromX2 /\ fromIp' = fromIp /\ x2Data' = x2Data
  BY DEF CoreSend, controllerVars, enbVars
<1>2. /\ n \in Nat /\ Before(Down, {n}, L)
      /\ \A c \in Cells : Before(Tunnelled(c), {n}, L) /\ Before(HeldX2(c), {n}, L)
      /\ \A s, c \in Cells : s # c => Before(Forwarded(s, c), {n}, L)
  BY SentBefore DEF DownlinkInv
<1>3. 0 .. (n + 1) - 1 = (0 .. n - 1) \cup {n}
  BY <1>2, NextNumber
<1>4. dl'.down = dl.down /\ dl'.late = L /\ dl'.astray = dl.astray /\ dl'.sent = n + 1
      /\ dl'.removed = (IF serving = None THEN dl.removed \cup {n} ELSE dl.removed)
  BY DEF CoreSend, PacketType, DlHistory
<1>5. /\ Down' = Down
      /\ \A c \in Cells : HeldX2(c)' = HeldX2(c) /\ HeldIp(c)' = HeldIp(c)
      /\ \A s, c \in Cells : Forwarded(s, c)' = Forwarded(s, c) /\ (InProgress(s, c)' <=> InProgress(s, c))
  BY <1>1, <1>4 DEF Down, HeldX2, HeldIp, Forwarded, InProgress
<1>6. UnderWay = Packets(tunnel) \cup Packets(x2Data) /\ Held = Packets(fromX2) \cup Packets(fromIp)
  BY Everywhere
<1>7. UnderWay' = Packets(tunnel') \cup Packets(x2Data) /\ Held' = Held
  <2>1. PacketType'
    BY CoreSendType
  <2> QED BY <1>1, <1>6, <2>1, EverywhereNext
<1>8. CASE serving = None
  <2>1. tunnel' = tunnel
    BY <1>8 DEF CoreSend
  <2>2. UnderWay' = UnderWay
    BY <1>6, <1>7, <2>1
  <2>3. AccountInv'
    BY <1>3, <1>4, <1>5, <1>7, <1>8, <2>2 DEF DownlinkInv, AccountInv
  <2>4. \A c \in Cells : Tunnelled(c)' = Tunnelled(c)
    BY <2>1 DEF Tunnelled
  <2>5. PlacesInv'
    BY <1>1, <1>4, <1>5, <2>4 DEF DownlinkInv, PlacesInv
  <2>6. OrderInv'
    BY <1>1, <1>4, <1>5, <2>1, <2>4 DEF DownlinkInv, OrderInv
  <2> QED BY <2>3, <2>5, <2>6 DEF DownlinkInv
<1>9. CASE serving # None
  <2>1. serving \in Cells /\ tunnel' = [tunnel EXCEPT ![serving] = Append(@, n)]
    BY <1>9 DEF CoreSend, ControlType
  <2>2. tunnel[serving] \in Seq(Nat) /\ tunnel'[serving] = Append(tunnel[serving], n)
        /\ \A c \in Cells : c # serving => tunnel'[c] = tunnel[c]
    BY <2>1 DEF PacketType
  <2>3. Tunnelled(serving)' = Tunnelled(serving) \cup {n}
    BY <1>1, <1>2, <2>2, AppendFacts DEF Tunnelled
  <2>4. \A c \in Cells : c # serving => Tunnelled(c)' = Tunnelled(c)
    BY <2>2 DEF Tunnelled
  <2>5. Increasing(tunnel'[serving], L)
    BY <1>2, <2>1, <2>2, AppendOrder DEF DownlinkInv, OrderInv, Tunnelled
  <2>6. AccountInv'
    <3>1. DOMAIN tunnel = Cells /\ DOMAIN tunnel' = Cells
      BY CoreSendType DEF PacketType
    <3>2. ToSet(tunnel'[serving]) = ToSet(tunnel[serving]) \cup {n}
      BY <1>2, <2>2, AppendFacts
    <3>3. Packets(tunnel') = Packets(tunnel) \cup {n}
      BY <2>1, <2>2, <3>1, <3>2 DEF Packets
    <3> QED BY <1>3, <1>4, <1>5, <1>6, <1>7, <1>9, <3>3 DEF DownlinkInv, AccountInv
  <2>7. PlacesInv'
    BY <1>1, <1>4, <1>5, <2>4 DEF DownlinkInv, PlacesInv
  <2>8. OrderInv'
    <3>1. Increasing(dl.down, L)' /\ \A c \in Cells : Increasing(tunnel'[c], L) /\ Increasing(fromX2'[c], L)
      BY <1>1, <1>4, <2>2, <2>5 DEF DownlinkInv, OrderInv
    <3>2. \A c \in Cells : Before(Down, Tunnelled(c)', L) /\ Before(Down, HeldX2(c), L)
      <4>1. \A c \in Cells : Before(Down, Tunnelled(c), L) /\ Before(Down, HeldX2(c), L)
        BY DEF DownlinkInv, OrderInv
      <4>2. ASSUME NEW c \in Cells PROVE Tunnelled(c)' \subseteq Tunnelled(c) \cup {n}
        <5>1. CASE c = serving
          BY <1>1, <2>3, <5>1
        <5>2. CASE c # serving
          BY <2>4, <5>2
        <5> QED BY <5>1, <5>2
      <4> QED BY <1>2, <4>1, <4>2 DEF Before
    <3>3. \A s, c \in Cells : s # c =>
            /\ Increasing(x2Data'[<<s, c>>], L)
            /\ Before(Down, Forwarded(s, c), L) /\ Before(HeldX2(c), Forwarded(s, c), L)
            /\ Before(HeldX2(c), Tunnelled(s)', L) /\ Before(Forwarded(s, c), Tunnelled(s)', L)
      BY <1>1, <1>2, <2>3, <2>4 DEF DownlinkInv, OrderInv, Before
    <3> QED BY <1>4, <1>5, <3>1, <3>2, <3>3 DEF OrderInv
  <2> QED BY <2>6, <2>7, <2>8 DEF DownlinkInv
<1> QED BY <1>8, <1>9

LEMMA TriggerDl ==
  ASSUME DownlinkInv, NEW c \in Cells \cup {None}, TriggerHandover(c)
  PROVE  DownlinkInv'
<1>1. /\ ~trigger /\ serving' = serving /\ fromX2' = fromX2 /\ fromIp' = fromIp
      /\ tunnel' = tunnel /\ x2Data' = x2Data /\ dl' = dl
  BY DEF TriggerHandover
<1>2. OrderInv' /\ AccountInv'
  BY <1>1 DEF DownlinkInv, OrderInv, AccountInv, Down, Tunnelled, Forwarded, HeldX2, UnderWay, Held
<1>3. PlacesInv'
  BY <1>1 DEF DownlinkInv, PlacesInv, InProgress, Tunnelled, Forwarded, HeldX2, HeldIp
<1> QED BY <1>2, <1>3 DEF DownlinkInv

LEMMA TunneledDl ==
  ASSUME X2HandoverAssumption, ControlType, PacketType, DownlinkInv,
         NEW s \in Cells, NEW c \in Cells, s # c, ReceiveTunneledPacket(s, c)
  PROVE  DownlinkInv'
<1> DEFINE q == x2Data[<<s, c>>]
           h == Head(q)
           L == dl.late
<1>1. /\ serving' = serving /\ candidate' = candidate /\ trigger' = trigger
      /\ fromIp' = fromIp /\ tunnel' = tunnel /\ dl' = dl
  BY DEF ReceiveTunneledPacket, controllerVars
<1>2. <<s, c>> \in Pairs /\ q \in Seq(Nat) /\ q # << >> /\ fromX2[c] \in Seq(Nat)
  BY PairFacts DEF ReceiveTunneledPacket, PacketType
<1>3. h \in Nat /\ ToSet(q) = ToSet(Tail(q)) \cup {h}
  BY <1>2, HeadFacts
<1>4. /\ x2Data'[<<s, c>>] = Tail(q)
      /\ \A p \in Pairs : p # <<s, c>> => x2Data'[p] = x2Data[p]
  BY <1>2 DEF ReceiveTunneledPacket, PacketType
<1>5. fromX2'[c] = Append(fromX2[c], h) /\ \A d \in Cells : d # c => fromX2'[d] = fromX2[d]
  BY DEF ReceiveTunneledPacket, PacketType
<1>6. ToSet(fromX2'[c]) = ToSet(fromX2[c]) \cup {h}
  BY <1>2, <1>3, <1>5, AppendFacts
<1>7. PacketType'
  BY <1>2, TunneledType
<1> HIDE DEF q, h
<1>8. AccountInv'
  <2>1. UnderWay = Packets(tunnel) \cup Packets(x2Data) /\ Held = Packets(fromX2) \cup Packets(fromIp)
    BY Everywhere
  <2>2. UnderWay' = Packets(tunnel) \cup Packets(x2Data')
        /\ Held' = Packets(fromX2') \cup Packets(fromIp)
    BY <1>1, <1>7, EverywhereNext
  <2>3. /\ DOMAIN x2Data = Pairs /\ DOMAIN x2Data' = Pairs
        /\ DOMAIN fromX2 = Cells /\ DOMAIN fromX2' = Cells
    BY <1>7 DEF PacketType
  <2>4. Packets(x2Data) = Packets(x2Data') \cup {h}
    BY <1>2, <1>3, <1>4, <2>3 DEF Packets, q
  <2>5. Packets(fromX2') = Packets(fromX2) \cup {h}
    BY <1>5, <1>6, <2>3 DEF Packets
  <2> QED BY <1>1, <2>1, <2>2, <2>4, <2>5 DEF DownlinkInv, AccountInv, Down
\* The sets of packets after the step.
<1>9. /\ Down' = Down
      /\ \A d \in Cells : Tunnelled(d)' = Tunnelled(d) /\ HeldIp(d)' = HeldIp(d)
      /\ \A t, d \in Cells : InProgress(t, d)' <=> InProgress(t, d)
  BY <1>1 DEF Down, Tunnelled, HeldIp, InProgress
<1>10. /\ HeldX2(c)' = HeldX2(c) \cup {h}
       /\ \A d \in Cells : d # c => HeldX2(d)' = HeldX2(d)
  BY <1>5, <1>6 DEF HeldX2
<1>11. /\ Forwarded(s, c) = Forwarded(s, c)' \cup {h}
       /\ \A t, d \in Cells : t # d /\ ~(t = s /\ d = c) => Forwarded(t, d)' = Forwarded(t, d)
  <2>1. Forwarded(s, c) = Forwarded(s, c)' \cup {h}
    BY <1>3, <1>4 DEF Forwarded, q
  <2>2. ASSUME NEW t \in Cells, NEW d \in Cells, t # d, ~(t = s /\ d = c)
        PROVE  Forwarded(t, d)' = Forwarded(t, d)
    BY <1>4, <2>2, PairFacts DEF Forwarded
  <2> QED BY <2>1, <2>2
<1>12. PlacesInv'
  BY <1>1, <1>9, <1>10, <1>11 DEF DownlinkInv, PlacesInv, InProgress, X2HandoverAssumption
<1>13. OrderInv'
  <2>1. \A d \in Cells : Increasing(tunnel'[d], L) /\ Increasing(fromX2'[d], L)
    <3>1. Before(HeldX2(c), {h}, L)
      BY <1>11 DEF DownlinkInv, OrderInv, Before
    <3>2. Increasing(Append(fromX2[c], h), L)
      BY <1>2, <1>3, <3>1, AppendOrder DEF DownlinkInv, OrderInv, HeldX2
    <3> QED BY <1>1, <1>5, <3>2 DEF DownlinkInv, OrderInv
  <2>2. Increasing(Tail(q), L) /\ Before({h}, ToSet(Tail(q)), L)
    BY <1>2, HeadOrder DEF DownlinkInv, OrderInv, q, h
  <2>3. \A d \in Cells : Before(Down, Tunnelled(d), L) /\ Before(Down, HeldX2(d)', L)
    <3>1. Before(Down, {h}, L)
      BY <1>11 DEF DownlinkInv, OrderInv, Before
    <3> QED BY <1>10, <3>1 DEF DownlinkInv, OrderInv, Before
  <2>4. ASSUME NEW t \in Cells, NEW d \in Cells, t # d
        PROVE  /\ Increasing(x2Data'[<<t, d>>], L) /\ Before(Down, Forwarded(t, d)', L)
               /\ Before(HeldX2(d)', Forwarded(t, d)', L) /\ Before(HeldX2(d)', Tunnelled(t), L)
               /\ Before(Forwarded(t, d)', Tunnelled(t), L)
    <3>1. /\ Increasing(x2Data[<<t, d>>], L) /\ Before(Down, Forwarded(t, d), L)
          /\ Before(HeldX2(d), Forwarded(t, d), L) /\ Before(HeldX2(d), Tunnelled(t), L)
          /\ Before(Forwarded(t, d), Tunnelled(t), L)
      BY <2>4 DEF DownlinkInv, OrderInv
    <3>2. CASE t = s /\ d = c
      <4>1. Forwarded(s, c)' = ToSet(Tail(q))
        BY <1>4 DEF Forwarded
      <4> QED BY <1>4, <1>10, <1>11, <2>2, <3>1, <3>2, <4>1 DEF Before
    <3>3. CASE t # s /\ d = c
      <4>1. h \in L \/ (Forwarded(t, c) \subseteq L /\ Tunnelled(t) \subseteq L)
        BY <1>11, <2>4, <3>3 DEF DownlinkInv, PlacesInv, InProgress
      <4> QED BY <1>4, <1>10, <1>11, <2>4, <3>1, <3>3, <4>1, PairFacts DEF Before
    <3>4. CASE d # c
      BY <1>4, <1>10, <1>11, <2>4, <3>1, <3>4, PairFacts DEF Before
    <3> QED BY <3>2, <3>3, <3>4
  <2>5. dl'.late = L /\ Increasing(dl'.down, L)
    BY <1>1 DEF DownlinkInv, OrderInv
  <2> QED BY <1>9, <2>1, <2>3, <2>4, <2>5 DEF OrderInv
<1> QED BY <1>8, <1>12, <1>13 DEF DownlinkInv

\* What a cell does with the packet that comes out of its tunnel. A packet that
\* is not late comes out at the serving cell: it is forwarded to the target of
\* the handover in progress, or handed down if there is none.
LEMMA FromIpBsCases ==
  ASSUME X2HandoverAssumption, ControlType, PacketType, ControlInv, PlacesInv,
         NEW c \in Cells, NEW h \in Nat, FromIpBs(c), h = Head(tunnel[c]), h \in Tunnelled(c)
  PROVE  \/ \E t \in Cells : /\ t # c /\ (h \in dl.late \/ InProgress(c, t))
                             /\ x2Data' = [x2Data EXCEPT ![<<c, t>>] = Append(@, h)]
                             /\ fromIp' = fromIp /\ dl' = dl
         \/ /\ h \in dl.late
            /\ fromIp' = [fromIp EXCEPT ![c] = Append(@, h)] /\ x2Data' = x2Data /\ dl' = dl
         \/ /\ c # serving => h \in dl.late
            /\ h \in dl.late \/ ~(trigger /\ serving # None /\ candidate # None)
            /\ dl' = ToStackBs(c, serving, <<h>>) /\ fromIp' = fromIp /\ x2Data' = x2Data
<1>1. c # serving => h \in dl.late
  BY DEF PlacesInv
<1>2. CASE /\ forwarding[c] # None
           /\ x2Data' = [x2Data EXCEPT ![<<c, forwarding[c]>>] = Append(@, h)]
           /\ fromIp' = fromIp /\ dl' = dl
  <2>1. forwarding[c] \in Cells /\ forwarding[c] # c
    BY <1>2 DEF ControlType, ControlInv, ForwardingInv
  <2>2. InProgress(c, forwarding[c]) \/ serving = forwarding[c]
    BY <1>2, <2>1 DEF ControlInv, ForwardingInv, CommandsInv
  <2>3. h \in dl.late \/ InProgress(c, forwarding[c])
    BY <1>1, <2>1, <2>2
  <2> QED BY <1>2, <2>1, <2>3
<1>3. CASE /\ c \in holding /\ fromIp' = [fromIp EXCEPT ![c] = Append(@, h)]
           /\ x2Data' = x2Data /\ dl' = dl
  <2>1. c # serving
    BY <1>3 DEF ControlInv, HoldingInv, UeInv
  <2> QED BY <1>1, <1>3, <2>1
<1>4. CASE /\ serving \notin {None, c}
           /\ x2Data' = [x2Data EXCEPT ![<<c, serving>>] = Append(@, h)]
           /\ fromIp' = fromIp /\ dl' = dl
  <2>1. serving \in Cells /\ serving # c
    BY <1>4 DEF ControlType
  <2> QED BY <1>1, <1>4, <2>1
<1>5. CASE /\ forwarding[c] = None
           /\ dl' = ToStackBs(c, serving, <<h>>) /\ fromIp' = fromIp /\ x2Data' = x2Data
  <2>1. c = serving => ~(trigger /\ serving # None /\ candidate # None)
    BY <1>5 DEF ControlInv, ForwardingInv
  <2> QED BY <1>1, <1>5, <2>1
<1>6. \/ /\ forwarding[c] # None
         /\ x2Data' = [x2Data EXCEPT ![<<c, forwarding[c]>>] = Append(@, h)]
         /\ fromIp' = fromIp /\ dl' = dl
      \/ /\ c \in holding /\ fromIp' = [fromIp EXCEPT ![c] = Append(@, h)]
         /\ x2Data' = x2Data /\ dl' = dl
      \/ /\ serving \notin {None, c}
         /\ x2Data' = [x2Data EXCEPT ![<<c, serving>>] = Append(@, h)]
         /\ fromIp' = fromIp /\ dl' = dl
      \/ /\ forwarding[c] = None
         /\ dl' = ToStackBs(c, serving, <<h>>) /\ fromIp' = fromIp /\ x2Data' = x2Data
  BY DEF FromIpBs
<1> QED BY <1>2, <1>3, <1>4, <1>5, <1>6

LEMMA FromIpBsDl ==
  ASSUME X2HandoverAssumption, ControlType, PacketType, ControlInv, DownlinkInv,
         NEW c \in Cells, FromIpBs(c)
  PROVE  DownlinkInv'
<1> DEFINE q == tunnel[c]
           h == Head(q)
           L == dl.late
<1>1. /\ serving' = serving /\ candidate' = candidate /\ trigger' = trigger
      /\ fromX2' = fromX2
  BY DEF FromIpBs, controllerVars
<1>2. q \in Seq(Nat) /\ q # << >> /\ tunnel'[c] = Tail(q)
      /\ \A d \in Cells : d # c => tunnel'[d] = tunnel[d]
  BY DEF FromIpBs, PacketType
<1>3. h \in Nat /\ ToSet(q) = ToSet(Tail(q)) \cup {h}
  BY <1>2, HeadFacts
<1>4. Increasing(Tail(q), L) /\ Before({h}, ToSet(Tail(q)), L)
  BY <1>2, HeadOrder DEF DownlinkInv, OrderInv
<1>5. PacketType'
  BY FromIpBsType
<1>6. UnderWay = Packets(tunnel) \cup Packets(x2Data) /\ Held = Packets(fromX2) \cup Packets(fromIp)
  BY Everywhere
<1>7. UnderWay' = Packets(tunnel') \cup Packets(x2Data')
      /\ Held' = Packets(fromX2) \cup Packets(fromIp')
  BY <1>1, <1>5, EverywhereNext
<1>8. /\ DOMAIN tunnel = Cells /\ DOMAIN tunnel' = Cells
      /\ DOMAIN fromIp = Cells /\ DOMAIN fromIp' = Cells
      /\ DOMAIN x2Data = Pairs /\ DOMAIN x2Data' = Pairs
  BY <1>5 DEF PacketType
<1> HIDE DEF h, q
<1>9. Packets(tunnel) = Packets(tunnel') \cup {h}
  BY <1>2, <1>3, <1>8 DEF Packets, q
<1>10. /\ Tunnelled(c) = Tunnelled(c)' \cup {h} /\ Tunnelled(c)' = ToSet(Tail(q))
       /\ \A d \in Cells : d # c => Tunnelled(d)' = Tunnelled(d)
  BY <1>2, <1>3 DEF Tunnelled, q
<1>11. \A d \in Cells : HeldX2(d)' = HeldX2(d)
  BY <1>1 DEF HeldX2
<1>12. \A t, d \in Cells : InProgress(t, d)' <=> InProgress(t, d)
  BY <1>1 DEF InProgress
<1>13. \A d \in Cells : Increasing(tunnel'[d], L) /\ Increasing(fromX2'[d], L)
  BY <1>1, <1>2, <1>4 DEF DownlinkInv, OrderInv
<1>14. \A d \in Cells : Tunnelled(d)' \subseteq Tunnelled(d)
  BY <1>10
<1>15. ASSUME NEW t \in Cells, t # c, h \in L \/ InProgress(c, t),
              x2Data' = [x2Data EXCEPT ![<<c, t>>] = Append(@, h)], fromIp' = fromIp, dl' = dl
       PROVE  DownlinkInv'
  <2>1. <<c, t>> \in Pairs /\ x2Data[<<c, t>>] \in Seq(Nat)
        /\ x2Data'[<<c, t>>] = Append(x2Data[<<c, t>>], h)
        /\ \A p \in Pairs : p # <<c, t>> => x2Data'[p] = x2Data[p]
    BY <1>15, PairFacts DEF PacketType
  <2>2. ToSet(x2Data'[<<c, t>>]) = ToSet(x2Data[<<c, t>>]) \cup {h}
    BY <1>3, <2>1, AppendFacts
  <2>3. Packets(x2Data') = Packets(x2Data) \cup {h}
    BY <1>8, <2>1, <2>2 DEF Packets
  <2>4. AccountInv'
    BY <1>6, <1>7, <1>9, <1>15, <2>3 DEF DownlinkInv, AccountInv, Down
  <2>5. Forwarded(c, t)' = Forwarded(c, t) \cup {h}
    BY <2>2 DEF Forwarded
  <2>6. ASSUME NEW s \in Cells, NEW d \in Cells, s # d, ~(s = c /\ d = t)
        PROVE  Forwarded(s, d)' = Forwarded(s, d) /\ x2Data'[<<s, d>>] = x2Data[<<s, d>>]
    BY <2>1, <2>6, PairFacts DEF Forwarded
  <2>7. Down' = Down /\ \A d \in Cells : HeldIp(d)' = HeldIp(d)
    BY <1>15 DEF Down, HeldIp
  <2>8. PlacesInv'
    <3>1. ASSUME NEW s \in Cells, NEW d \in Cells, s # d, ~InProgress(s, d)
          PROVE  Forwarded(s, d)' \subseteq L
      <4>1. Forwarded(s, d) \subseteq L
        BY <3>1 DEF DownlinkInv, PlacesInv
      <4>2. CASE s = c /\ d = t
        BY <1>15, <2>5, <3>1, <4>1, <4>2
      <4>3. CASE ~(s = c /\ d = t)
        BY <2>6, <3>1, <4>1, <4>3
      <4> QED BY <4>2, <4>3
    <3>2. \A d \in Cells :
            /\ d # serving => Tunnelled(d)' \subseteq L
            /\ ~(trigger /\ candidate = d /\ serving # None) => HeldX2(d) \subseteq L
            /\ HeldIp(d) \subseteq L
      BY <1>14 DEF DownlinkInv, PlacesInv
    <3>3. dl'.late = L /\ dl'.astray \subseteq L
      BY <1>15 DEF DownlinkInv, PlacesInv
    <3> QED BY <1>1, <1>11, <1>12, <2>7, <3>1, <3>2, <3>3 DEF PlacesInv
  <2>9. OrderInv'
    <3>1. \A d \in Cells : Before(Down, Tunnelled(d)', L) /\ Before(Down, HeldX2(d), L)
      BY <1>14 DEF DownlinkInv, OrderInv, Before
    <3>2. ASSUME NEW s \in Cells, NEW d \in Cells, s # d
          PROVE  /\ Increasing(x2Data'[<<s, d>>], L) /\ Before(Down, Forwarded(s, d)', L)
                 /\ Before(HeldX2(d), Forwarded(s, d)', L) /\ Before(HeldX2(d), Tunnelled(s)', L)
                 /\ Before(Forwarded(s, d)', Tunnelled(s)', L)
      <4>1. /\ Increasing(x2Data[<<s, d>>], L) /\ Before(Down, Forwarded(s, d), L)
            /\ Before(HeldX2(d), Forwarded(s, d), L) /\ Before(HeldX2(d), Tunnelled(s), L)
            /\ Before(Forwarded(s, d), Tunnelled(s), L)
        BY <3>2 DEF DownlinkInv, OrderInv
      <4>2. CASE s = c /\ d = t
        <5>1. Before(Down, {h}, L) /\ Before(HeldX2(t), {h}, L) /\ Before(Forwarded(c, t), {h}, L)
          BY <1>10, <4>1, <4>2 DEF DownlinkInv, OrderInv, Before
        <5>2. Increasing(Append(x2Data[<<c, t>>], h), L)
          BY <1>3, <2>1, <4>1, <4>2, <5>1, AppendOrder DEF Forwarded
        <5>3. Before(Forwarded(c, t)', Tunnelled(c)', L)
          BY <1>4, <1>10, <2>5, <4>1, <4>2 DEF Before
        <5>4. /\ Before(Down, Forwarded(c, t)', L) /\ Before(HeldX2(t), Forwarded(c, t)', L)
              /\ Before(HeldX2(t), Tunnelled(c)', L)
          BY <1>14, <2>5, <4>1, <4>2, <5>1 DEF Before
        <5> QED BY <2>1, <4>2, <5>2, <5>3, <5>4
      <4>3. CASE ~(s = c /\ d = t)
        BY <1>14, <2>6, <3>2, <4>1, <4>3 DEF Before
      <4> QED BY <4>2, <4>3
    <3>3. dl'.late = L /\ Increasing(dl'.down, L)
      BY <1>15 DEF DownlinkInv, OrderInv
    <3> QED BY <1>11, <1>13, <2>7, <3>1, <3>2, <3>3 DEF OrderInv
  <2> QED BY <2>4, <2>8, <2>9 DEF DownlinkInv
<1>16. ASSUME h \in L, fromIp' = [fromIp EXCEPT ![c] = Append(@, h)], x2Data' = x2Data, dl' = dl
       PROVE  DownlinkInv'
  <2>1. fromIp[c] \in Seq(Nat) /\ fromIp'[c] = Append(fromIp[c], h)
        /\ \A d \in Cells : d # c => fromIp'[d] = fromIp[d]
    BY <1>16 DEF PacketType
  <2>2. ToSet(fromIp'[c]) = ToSet(fromIp[c]) \cup {h}
    BY <1>3, <2>1, AppendFacts
  <2>3. Packets(fromIp') = Packets(fromIp) \cup {h}
    BY <1>8, <2>1, <2>2 DEF Packets
  <2>4. AccountInv'
    BY <1>6, <1>7, <1>9, <1>16, <2>3 DEF DownlinkInv, AccountInv, Down
  <2>5. HeldIp(c)' = HeldIp(c) \cup {h} /\ \A d \in Cells : d # c => HeldIp(d)' = HeldIp(d)
    BY <2>1, <2>2 DEF HeldIp
  <2>6. Down' = Down /\ \A s, d \in Cells : Forwarded(s, d)' = Forwarded(s, d)
    BY <1>16 DEF Down, Forwarded
  <2>7. PlacesInv'
    BY <1>1, <1>10, <1>11, <1>12, <1>16, <2>5, <2>6 DEF DownlinkInv, PlacesInv
  <2>8. OrderInv'
    BY <1>11, <1>13, <1>14, <1>16, <2>6 DEF DownlinkInv, OrderInv, Before
  <2> QED BY <2>4, <2>7, <2>8 DEF DownlinkInv
<1>17. ASSUME c # serving => h \in L,
              h \in L \/ ~(trigger /\ serving # None /\ candidate # None),
              dl' = ToStackBs(c, serving, <<h>>), fromIp' = fromIp, x2Data' = x2Data
       PROVE  DownlinkInv'
  <2>1. dl.down \in Seq(Nat)
    BY DEF PacketType, DlHistory
  <2>2. /\ dl'.down = dl.down \o <<h>> /\ dl'.late = L /\ dl'.sent = dl.sent
        /\ dl'.removed = dl.removed
        /\ dl'.astray = (IF c = serving THEN dl.astray ELSE dl.astray \cup ToSet(<<h>>))
    BY <1>17 DEF ToStackBs, PacketType, DlHistory
  <2>3. <<h>> \in Seq(Nat) /\ ToSet(<<h>>) = {h} /\ Increasing(<<h>>, L)
    BY <1>3 DEF ToSet, Increasing
  <2>4. Down' = Down \cup {h}
    BY <2>1, <2>2, <2>3, ConcatFacts DEF Down
  <2>5. Before(Down, {h}, L)
    BY <1>10 DEF DownlinkInv, OrderInv, Before
  <2>6. Increasing(dl'.down, L)
    <3>1. Increasing(dl.down, L) /\ Before(ToSet(dl.down), ToSet(<<h>>), L)
      BY <2>3, <2>5 DEF DownlinkInv, OrderInv, Down
    <3> QED BY <2>1, <2>2, <2>3, <3>1, ConcatOrder
  <2>7. /\ \A d \in Cells : HeldIp(d)' = HeldIp(d)
        /\ \A s, d \in Cells : Forwarded(s, d)' = Forwarded(s, d)
    BY <1>17 DEF HeldIp, Forwarded
  <2>8. AccountInv'
    BY <1>6, <1>7, <1>9, <1>17, <2>2, <2>4 DEF DownlinkInv, AccountInv
  <2>9. PlacesInv'
    BY <1>1, <1>10, <1>11, <1>12, <1>17, <2>2, <2>3, <2>7 DEF DownlinkInv, PlacesInv
\* A packet that is not late leaves nothing behind it that should come first.
  <2>10. \A d \in Cells : h \in L \/ (HeldX2(d) \subseteq L /\ (d # c => Tunnelled(d) \subseteq L))
    BY <1>17, X2HandoverAssumption DEF DownlinkInv, PlacesInv, X2HandoverAssumption
  <2>11. \A s, d \in Cells : s # d => h \in L \/ Forwarded(s, d) \subseteq L
    BY <1>17, X2HandoverAssumption DEF DownlinkInv, PlacesInv, InProgress, X2HandoverAssumption
  <2>12. \A d \in Cells : Before({h}, Tunnelled(d)', L) /\ Before({h}, HeldX2(d), L)
    BY <1>4, <1>10, <2>10 DEF Before
  <2>13. \A s, d \in Cells : s # d => Before({h}, Forwarded(s, d), L)
    BY <2>11 DEF Before
  <2>14. OrderInv'
    <3>1. \A d \in Cells : Before(Down', Tunnelled(d)', L) /\ Before(Down', HeldX2(d), L)
      BY <1>14, <2>4, <2>12 DEF DownlinkInv, OrderInv, Before
    <3>2. \A s, d \in Cells : s # d =>
            /\ Increasing(x2Data'[<<s, d>>], L) /\ Before(Down', Forwarded(s, d), L)
            /\ Before(HeldX2(d), Forwarded(s, d), L) /\ Before(HeldX2(d), Tunnelled(s)', L)
            /\ Before(Forwarded(s, d), Tunnelled(s)', L)
      BY <1>14, <1>17, <2>4, <2>13 DEF DownlinkInv, OrderInv, Before
    <3> QED BY <1>11, <1>13, <2>2, <2>6, <2>7, <3>1, <3>2 DEF OrderInv
  <2> QED BY <2>8, <2>9, <2>14 DEF DownlinkInv
<1>18. h \in Tunnelled(c)
  BY <1>10
<1>19. h = Head(tunnel[c])
  BY DEF h, q
<1> QED BY <1>3, <1>15, <1>16, <1>17, <1>18, <1>19, FromIpBsCases DEF DownlinkInv

LEMMA DoHandoverDl ==
  ASSUME X2HandoverAssumption, ControlType, PacketType, ControlInv, DownlinkInv, DoHandover
  PROVE  DownlinkInv'
<1> DEFINE L == dl.late
           M == dl'.late
<1>1. /\ trigger /\ trigger' = FALSE /\ serving' = candidate /\ serving # candidate
      /\ tunnel' = tunnel /\ x2Data' = x2Data
  BY DEF DoHandover, ControlInv, UeInv
<1>2. UnderWay' = UnderWay
  BY <1>1 DEF UnderWay
<1>3. /\ \A c \in Cells : Tunnelled(c)' = Tunnelled(c) /\ Tunnelled(c) \subseteq UnderWay
      /\ \A s, c \in Cells : s # c =>
           Forwarded(s, c)' = Forwarded(s, c) /\ Forwarded(s, c) \subseteq UnderWay
  <2>1. \A s, c \in Cells : s # c => Forwarded(s, c) \subseteq UnderWay
    BY PairFacts DEF Forwarded, UnderWay
  <2> QED BY <1>1, <2>1 DEF Tunnelled, Forwarded, UnderWay
\* Whatever is under way is late from now on, and so orders nothing.
<1>4. ASSUME M = L \cup UnderWay
      PROVE  /\ \A c \in Cells : Tunnelled(c) \subseteq M /\ Increasing(tunnel[c], M)
             /\ \A s, c \in Cells : s # c =>
                  Forwarded(s, c) \subseteq M /\ Increasing(x2Data[<<s, c>>], M)
             /\ \A c \in Cells : Increasing(fromX2[c], M)
  <2>1. \A q : Increasing(q, L) => Increasing(q, M)
    BY <1>4, MoreLate
  <2> QED BY <1>3, <1>4, <2>1 DEF DownlinkInv, OrderInv
<1>5. CASE serving # None /\ candidate # None
  <2> DEFINE c == candidate
             q == fromX2[c] \o fromIp[c]
  <2>1. SignalHandoverCompleteTarget(c, serving)
    BY <1>5, Zenon DEF DoHandover
  <2>2. c \in Cells /\ fromX2[c] \in Seq(Nat) /\ fromIp[c] \in Seq(Nat) /\ dl.down \in Seq(Nat)
    BY <1>5 DEF ControlType, PacketType, DlHistory
  <2>3. q \in Seq(Nat) /\ ToSet(q) = HeldX2(c) \cup HeldIp(c)
    BY <2>2, ConcatFacts DEF HeldX2, HeldIp
  <2>4. dl' = [ToStackBs(c, c, q) EXCEPT !.late = @ \cup UnderWay]
    BY <2>1 DEF SignalHandoverCompleteTarget
  <2>5. fromX2' = [fromX2 EXCEPT ![c] = << >>] /\ fromIp' = [fromIp EXCEPT ![c] = << >>]
    BY <2>1 DEF SignalHandoverCompleteTarget
  <2>6. /\ fromX2'[c] = << >> /\ \A d \in Cells : d # c => fromX2'[d] = fromX2[d]
        /\ fromIp'[c] = << >> /\ \A d \in Cells : d # c => fromIp'[d] = fromIp[d]
    BY <2>2, <2>5 DEF PacketType
  <2>7. /\ HeldX2(c)' = {} /\ \A d \in Cells : d # c => HeldX2(d)' = HeldX2(d)
        /\ HeldIp(c)' = {} /\ \A d \in Cells : d # c => HeldIp(d)' = HeldIp(d)
    <3>1. ToSet(fromX2'[c]) = {} /\ ToSet(fromIp'[c]) = {}
      BY <2>6, EmptyFacts
    <3>2. c' = c
      BY DEF DoHandover
    <3> QED BY <2>6, <3>1, <3>2 DEF HeldX2, HeldIp
  <2> HIDE DEF q
  <2>8. /\ dl'.down = dl.down \o q /\ M = L \cup UnderWay /\ dl'.sent = dl.sent
        /\ dl'.removed = dl.removed /\ dl'.astray = dl.astray
    BY <2>4 DEF ToStackBs, PacketType, DlHistory
  <2>9. Down' = Down \cup HeldX2(c) \cup HeldIp(c)
    BY <2>2, <2>3, <2>8, ConcatFacts DEF Down
  <2>10. AccountInv'
    <3>1. Held = Packets(fromX2) \cup Packets(fromIp)
      BY Everywhere
    <3>2. Held' = Packets(fromX2') \cup Packets(fromIp') /\ PacketType'
      BY DoHandoverType, EverywhereNext
    <3>3. /\ DOMAIN fromX2 = Cells /\ DOMAIN fromX2' = Cells
          /\ DOMAIN fromIp = Cells /\ DOMAIN fromIp' = Cells
      BY <3>2 DEF PacketType
    <3>4. ToSet(fromX2'[c]) = {} /\ ToSet(fromIp'[c]) = {}
      BY <2>6, EmptyFacts
    <3>5. Packets(fromX2) = Packets(fromX2') \cup HeldX2(c)
      BY <2>2, <2>6, <3>3, <3>4 DEF Packets, HeldX2
    <3>6. Packets(fromIp) = Packets(fromIp') \cup HeldIp(c)
      BY <2>2, <2>6, <3>3, <3>4 DEF Packets, HeldIp
    <3> QED BY <1>2, <2>8, <2>9, <3>1, <3>2, <3>5, <3>6 DEF DownlinkInv, AccountInv
  <2>11. \A d \in Cells : HeldX2(d)' \subseteq M /\ HeldIp(d)' \subseteq M
    <3>1. HeldX2(candidate)' = {} /\ HeldIp(candidate)' = {} /\ candidate' = candidate
      BY <2>7 DEF DoHandover
    <3>2. \A d \in Cells : HeldIp(d) \subseteq M /\ (d # candidate => HeldX2(d) \subseteq M)
      BY <2>8 DEF DownlinkInv, PlacesInv
    <3>3. ASSUME NEW d \in Cells PROVE HeldX2(d)' \subseteq M /\ HeldIp(d)' \subseteq M
      <4>1. CASE d = candidate
        BY <3>1, <4>1
      <4>2. CASE d # candidate
        BY <2>7, <3>2, <4>2
      <4> QED BY <4>1, <4>2
    <3> QED BY <3>3
  <2>12. PlacesInv'
    BY <1>1, <1>3, <1>4, <2>8, <2>11 DEF DownlinkInv, PlacesInv
  <2>13. Increasing(dl'.down, M)
    <3>1. Increasing(fromX2[c], M) /\ Increasing(fromIp[c], M)
          /\ Before(HeldX2(c), HeldIp(c), M)
      <4>1. HeldIp(c) \subseteq M
        BY <2>2, <2>8 DEF DownlinkInv, PlacesInv
      <4>2. \A i \in DOMAIN fromIp[c] : fromIp[c][i] \in M
        BY <4>1 DEF HeldIp, ToSet
      <4>3. Increasing(fromIp[c], M)
        BY <4>2 DEF Increasing
      <4> QED BY <1>4, <2>2, <2>8, <4>1, <4>3 DEF Before
    <3>2. Increasing(q, M)
      BY <2>2, <3>1, ConcatOrder DEF q, HeldX2, HeldIp
    <3>3. Increasing(dl.down, M)
      BY <2>8, MoreLate DEF DownlinkInv, OrderInv
    <3>4. Before(ToSet(dl.down), ToSet(q), M)
      BY <2>2, <2>3, <2>8 DEF DownlinkInv, PlacesInv, OrderInv, Before, Down
    <3> QED BY <2>2, <2>3, <2>8, <3>2, <3>3, <3>4, ConcatOrder
  <2>14. \A d \in Cells : Increasing(fromX2'[d], M)
    BY <1>4, <2>6, <2>8, EmptyFacts
  <2>15. OrderInv'
    BY <1>1, <1>3, <1>4, <2>8, <2>11, <2>13, <2>14 DEF OrderInv, Before
  <2> QED BY <2>10, <2>12, <2>15 DEF DownlinkInv
<1>6. CASE ~(serving # None /\ candidate # None)
  <2>1. dl' = [dl EXCEPT !.late = @ \cup UnderWay] /\ fromX2' = fromX2 /\ fromIp' = fromIp
    BY <1>6, Zenon DEF DoHandover
  <2>2. /\ dl'.down = dl.down /\ M = L \cup UnderWay /\ dl'.sent = dl.sent
        /\ dl'.removed = dl.removed /\ dl'.astray = dl.astray
    BY <2>1 DEF PacketType, DlHistory
  <2>3. /\ Down' = Down /\ Held' = Held
        /\ \A d \in Cells : HeldX2(d)' = HeldX2(d) /\ HeldIp(d)' = HeldIp(d)
    BY <2>1, <2>2 DEF Down, Held, HeldX2, HeldIp
  <2>4. \A d \in Cells : HeldX2(d) \subseteq M /\ HeldIp(d) \subseteq M
    BY <1>6, <2>2, X2HandoverAssumption DEF DownlinkInv, PlacesInv, X2HandoverAssumption
  <2>5. AccountInv'
    BY <1>2, <2>2, <2>3 DEF DownlinkInv, AccountInv
  <2>6. PlacesInv'
    BY <1>1, <1>3, <1>4, <2>2, <2>3, <2>4 DEF DownlinkInv, PlacesInv
  <2>7. Increasing(dl'.down, M)
    BY <2>2, MoreLate DEF DownlinkInv, OrderInv
  <2>8. OrderInv'
    <3>1. \A d \in Cells :
            /\ Increasing(tunnel'[d], M) /\ Increasing(fromX2'[d], M)
            /\ Tunnelled(d)' \subseteq M /\ HeldX2(d)' \subseteq M
      BY <1>1, <1>3, <1>4, <2>1, <2>2, <2>3, <2>4
    <3>2. \A s, d \in Cells : s # d =>
            Increasing(x2Data'[<<s, d>>], M) /\ Forwarded(s, d)' \subseteq M
      BY <1>1, <1>3, <1>4, <2>2
    <3> QED BY <2>7, <3>1, <3>2 DEF OrderInv, Before
  <2> QED BY <2>5, <2>6, <2>8 DEF DownlinkInv
<1> QED BY <1>5, <1>6

LEMMA StepDl ==
  ASSUME X2HandoverAssumption, ControlType, PacketType, ControlInv, DownlinkInv, [Next]_vars
  PROVE  DownlinkInv'
<1>1. CASE UNCHANGED vars
  BY <1>1, SameDl DEF vars, controllerVars, enbVars, channels
<1>2. CASE FromIpUe
  BY <1>2, SameDl DEF FromIpUe, controllerVars, enbVars, channels
<1>3. ASSUME NEW p \in Pairs,
             ReceiveTunneledPacket(p[1], p[2]) \/ ReceiveHandoverCommand(p[1], p[2])
      PROVE  DownlinkInv'
  <2>1. p[1] \in Cells /\ p[2] \in Cells /\ p[1] # p[2]
    BY DEF Pairs
  <2>2. CASE ReceiveHandoverCommand(p[1], p[2])
    BY <2>2, SameDl DEF ReceiveHandoverCommand, controllerVars
  <2> QED BY <1>3, <2>1, <2>2, TunneledDl
<1> QED BY <1>1, <1>2, <1>3, CoreSendDl, TriggerDl, FromIpBsDl, DoHandoverDl DEF Next

(***************************************************************************)
(* The theorems about packets.                                              *)
(***************************************************************************)

PacketInv == UlInv /\ DownlinkInv

LEMMA Invariants == Spec => [](ControlType /\ PacketType /\ ControlInv /\ PacketInv)
<1>1. Init => ControlType /\ PacketType /\ ControlInv /\ PacketInv
  BY X2HandoverAssumption, InitType, Types, InitControl, InitUl, InitDl DEF PacketInv
<1>2. ControlType /\ PacketType /\ ControlInv /\ PacketInv /\ [Next]_vars
        => (ControlType /\ PacketType /\ ControlInv /\ PacketInv)'
  BY X2HandoverAssumption, StepType, StepControl, StepUl, StepDl DEF PacketInv
<1> QED BY <1>1, <1>2, PTL DEF Spec

\* Packets that are not late are handed down once, in the order of sending, at
\* the cell that serves the UE, for any number of cells, packets and handovers.
THEOREM PacketsInOrder == Spec => []InOrder
<1>1. PacketInv => InOrder
  BY DEF PacketInv, UlInv, DownlinkInv, PlacesInv, OrderInv, InOrder
<1> QED BY <1>1, Invariants, PTL

\* No packet is lost, and no handover leaves behind one that was not late.
THEOREM NoPacketLost == Spec => []NothingLeftBehind
<1>1. ASSUME DownlinkInv, ~trigger PROVE Held \subseteq dl.late
  BY <1>1 DEF DownlinkInv, PlacesInv, Held, HeldX2, HeldIp
<1>2. ControlInv /\ UlInv => (~trigger => ueHeld = << >>)
  BY DEF ControlInv, UeInv, UlInv
<1>3. ControlInv /\ PacketInv => NothingLeftBehind
  BY <1>1, <1>2 DEF PacketInv, UlInv, DownlinkInv, AccountInv, Down, NothingLeftBehind
<1> QED BY <1>3, Invariants, PTL
=============================================================================
