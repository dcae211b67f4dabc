---------------------- MODULE HandoverControllerProofs ----------------------
(***************************************************************************)
(* Proofs about HandoverController: in dual connectivity the NR stack is    *)
(* never left attached to a secondary node whose master the LTE stack has   *)
(* left, whatever the two stacks decide in one turn of beacons, and a       *)
(* handover leaves nothing behind.  The argument is about time: the stacks  *)
(* evaluate what one turn of beacons made them decide at the same instant,  *)
(* and what one starts takes longer than what the other still has to see.   *)
(***************************************************************************)
EXTENDS HandoverController, SequenceTheorems, WellFoundedInduction, TLAPS

NodeIds(s) == CellsOf(s) \cup {None}

\* A cell that serves the NR stack on behalf of a master of the LTE stack.
Secondary(c) == c # None /\ Master[c] # c

NodeTypes ==
  /\ serving \in [Stacks -> Cells \cup {None}]
  /\ candidate \in [Stacks -> Cells \cup {None}]
  /\ ueServing \in [Stacks -> Cells \cup {None}]
  /\ \A s \in Stacks : /\ serving[s] \in NodeIds(s)
                       /\ candidate[s] \in NodeIds(s)
                       /\ ueServing[s] \in NodeIds(s)

RssiTypes ==
  /\ servingRssi \in [Stacks -> Int]
  /\ candidateRssi \in [Stacks -> Int]
  /\ hysteresis \in [Stacks -> Int]

TimerTypes ==
  /\ starter \in [Stacks -> Nat \cup {Off}]
  /\ triggers \in [Stacks -> Seq(Nat)]
  /\ pointer \in [Stacks -> BOOLEAN]

EntryTypes ==
  /\ handoverTriggered \in
       [Stacks -> {<< >>} \cup ((Cells \cup {None}) \X (Cells \cup {None}))]
  /\ \A s \in Stacks : handoverTriggered[s] # << >> => handoverTriggered[s][2] \in NodeIds(s)
  /\ performing \in SUBSET Stacks
  /\ ueHold \in BOOLEAN
  /\ forwarding \in SUBSET (Stacks \X Cells \X Cells)
  /\ holding \in SUBSET (Stacks \X Cells)

TurnTypes ==
  /\ beacons \in SUBSET (Stacks \X Cells)
  /\ \A s \in Stacks, c \in Cells : <<s, c>> \in beacons => c \in CellsOf(s)
  /\ turns \in Nat /\ failed \in BOOLEAN /\ forcedMidway \in BOOLEAN

TypeOK == NodeTypes /\ RssiTypes /\ TimerTypes /\ EntryTypes /\ TurnTypes
-----------------------------------------------------------------------------
\* While beacons arrive nothing is being handed over, and every stack that
\* decided has the same time left.
BeaconsFirst ==
  beacons # {} => \A s \in Stacks : triggers[s] = << >> /\ starter[s] \in {Off, Delta}

\* A stack evaluates a decision or carries one out, never both, and carries
\* out one at a time; except that the NR stack may be forced to leave its cell
\* while it moves to another, and then goes to none.
OneHandover ==
  \A s \in Stacks :
    /\ starter[s] # Off /\ triggers[s] # << >>
         => s = "nr" /\ candidate[s] = None /\ forcedMidway
    /\ Len(triggers[s]) <= 1 \/ (s = "nr" /\ forcedMidway)

\* The LTE stack has announced what it is about to do until it has done it.
LteAnnounced == Scheduled("lte") => handoverTriggered["lte"] # << >>

\* What is evaluated is a move, never to the cell that serves.
RealMove ==
  \A s \in Stacks : starter[s] # Off => serving[s] = None \/ candidate[s] # serving[s]

\* The NR stack considers a secondary node only under the LTE stack's master,
\* and decides before the LTE stack can leave that master.
DecidesInTime ==
  starter["nr"] # Off /\ Secondary(candidate["nr"])
    => /\ serving["lte"] = Master[candidate["nr"]]
       /\ starter["lte"] \in {Off, starter["nr"]}
       /\ \A i \in DOMAIN triggers["lte"] : triggers["lte"][i] > starter["nr"]

\* While it moves to a secondary node the LTE stack stays where it is.
MasterStays ==
  triggers["nr"] # << >> /\ Secondary(candidate["nr"])
    => serving["lte"] = Master[candidate["nr"]] /\ ~Scheduled("lte")

\* An NR secondary node serves under its master only, and none serves while
\* the LTE stack moves.
UnderMaster ==
  Secondary(serving["nr"])
    => serving["lte"] = Master[serving["nr"]] /\ triggers["lte"] = << >>

Moving(s) == triggers[s] # << >>
BetweenCells(s) == Moving(s) /\ serving[s] # None /\ candidate[s] # None

\* The packet holders and the Binder know of the handovers in progress, and
\* of no others.
HoldersKnow ==
  ~forcedMidway =>
    /\ \A f \in forwarding : BetweenCells(f[1]) /\ f[2] = serving[f[1]]
    /\ \A h \in holding : BetweenCells(h[1]) /\ h[2] = candidate[h[1]]
    /\ \A s \in performing : Moving(s)
    /\ \A s \in Stacks : ueServing[s] = IF Moving(s) THEN candidate[s] ELSE serving[s]
    /\ ueHold => \E s \in Stacks : Moving(s) /\ candidate[s] # None

DualInv == BeaconsFirst /\ OneHandover /\ LteAnnounced /\ RealMove /\ DecidesInTime
           /\ MasterStays /\ UnderMaster

IInv == TypeOK /\ DualInv /\ HoldersKnow /\ ~failed
-----------------------------------------------------------------------------
(***************************************************************************)
(* Facts about cells, numbers and sequences.                                *)
(***************************************************************************)

\* A set of times that is not empty has a least one.
LEMMA LeastTime ==
  ASSUME NEW S \in SUBSET Nat, S # {}
  PROVE  \E m \in S : \A r \in S : m <= r
<1>1. PICK x \in S : \A y \in S : ~(<<y, x>> \in OpToRel(<, Nat))
  BY NatLessThanWellFounded, WFMin
<1>2. \A y \in S : ~(y < x)
  BY <1>1 DEF OpToRel
<1> QED BY <1>2

\* Removing one element of a sequence.
LEMMA RemoveOne ==
  ASSUME NEW q \in Seq(Nat), NEW i \in DOMAIN q
  PROVE  LET r == SubSeq(q, 1, i - 1) \o SubSeq(q, i + 1, Len(q))
         IN  r \in Seq(Nat) /\ Len(r) = Len(q) - 1 /\ q # << >>
<1>1. Len(q) \in Nat /\ i \in 1 .. Len(q) /\ q # << >>
  OBVIOUS
<1>2. SubSeq(q, 1, i - 1) \in Seq(Nat) /\ Len(SubSeq(q, 1, i - 1)) = i - 1
  BY <1>1, SubSeqProperties
<1>3. /\ SubSeq(q, i + 1, Len(q)) \in Seq(Nat)
      /\ Len(SubSeq(q, i + 1, Len(q))) = Len(q) - i
  BY <1>1, SubSeqProperties
<1> DEFINE a == SubSeq(q, 1, i - 1)
           b == SubSeq(q, i + 1, Len(q))
<1>4. a \in Seq(Nat) /\ b \in Seq(Nat) /\ Len(a) = i - 1 /\ Len(b) = Len(q) - i
  BY <1>2, <1>3
<1> HIDE DEF a, b
<1>5. a \o b \in Seq(Nat) /\ Len(a \o b) = Len(q) - 1
  BY <1>1, <1>4, ConcatProperties
<1> QED BY <1>1, <1>5 DEF a, b

\* The lengths of sequences of times.
LEMMA LenFacts ==
  ASSUME NEW q \in Seq(Nat)
  PROVE  /\ Len(q) \in Nat /\ (q = << >> <=> Len(q) = 0)
         /\ \A x \in Nat : /\ Append(q, x) # << >> /\ Append(q, x) \in Seq(Nat)
                          /\ Len(Append(q, x)) = Len(q) + 1
BY AppendProperties, EmptySeq

LEMMA LenOne ==
  ASSUME NEW q \in Seq(Nat), q # << >>, Len(q) <= 1
  PROVE  Len(q) = 1
<1> DEFINE n == Len(q)
<1>1. n \in Nat /\ n <= 1 /\ n # 0
  OBVIOUS
<1> HIDE DEF n
<1>2. n = 1
  BY <1>1
<1> QED BY <1>2 DEF n

\* The LTE stack has no secondary nodes, and is no master's slave.
LEMMA CellFacts ==
  ASSUME HandoverAssumption
  PROVE  /\ "lte" \in Stacks /\ "nr" \in Stacks
         /\ Other("lte") = "nr" /\ Other("nr") = "lte"
         /\ \A c \in NodeIds("lte") : ~Secondary(c) /\ MasterNodeOrSelf(c) = c
         /\ \A c \in Cells : Master[c] \in Cells
         /\ \A c \in NodeIds("nr") : c # None => c \notin NodeIds("lte")
         /\ \A c \in Cells \cup {None} : Secondary(c) <=> MasterNodeOrSelf(c) # c
         /\ \A c \in Cells : c # None
BY DEF HandoverAssumption, Stacks, Other, NodeIds, CellsOf, Cells, Secondary, MasterNodeOrSelf
-----------------------------------------------------------------------------
(***************************************************************************)
(* The steps, split once for all the proofs.                                *)
(***************************************************************************)

\* Time passes by d: no timer passes zero and none is added or removed.
LEMMA TickFacts ==
  ASSUME HandoverAssumption, TypeOK, Tick
  PROVE  \E d \in Nat :
           /\ starter' = [s \in Stacks |-> IF starter[s] = Off THEN Off ELSE starter[s] - d]
           /\ triggers' = [s \in Stacks |-> [i \in DOMAIN triggers[s] |-> triggers[s][i] - d]]
           /\ \A s \in Stacks : starter[s] # Off => starter[s] >= d
           /\ \A s \in Stacks : \A i \in DOMAIN triggers[s] : triggers[s][i] >= d
<1>0. ASSUME NEW r
      PROVE  r \in Remaining <=>
               r # Off /\ \E s \in Stacks : \/ r = starter[s]
                                         \/ \E i \in DOMAIN triggers[s] : r = triggers[s][i]
  <2> DEFINE times(s) == {starter[s]} \cup {triggers[s][i] : i \in DOMAIN triggers[s]}
  <2>1. Remaining = (UNION {times(s) : s \in Stacks}) \ {Off}
    BY DEF Remaining
  <2>2. \A s : r \in times(s) <=> r = starter[s] \/ \E i \in DOMAIN triggers[s] : r = triggers[s][i]
    OBVIOUS
  <2> HIDE DEF times
  <2>3. r \in Remaining <=> r # Off /\ \E s \in Stacks : r \in times(s)
    <3> DEFINE all == {times(s) : s \in Stacks}
    <3>1. \A T : T \in all <=> \E s \in Stacks : T = times(s)
      BY Zenon
    <3>2. r \in UNION all <=> \E T \in all : r \in T
      BY Zenon
    <3>3. Remaining = (UNION all) \ {Off}
      BY <2>1
    <3> HIDE DEF all
    <3>4. r \in Remaining <=> r # Off /\ r \in UNION all
      BY <3>3, Zenon
    <3> QED BY <3>1, <3>2, <3>4
  <2> QED BY <2>2, <2>3
<1>1. Remaining \in SUBSET Nat
  <2> SUFFICES ASSUME NEW r \in Remaining PROVE r \in Nat
    OBVIOUS
  <2>1. PICK s \in Stacks : \/ r = starter[s]
                           \/ \E i \in DOMAIN triggers[s] : r = triggers[s][i]
    BY <1>0
  <2>2. r # Off
    BY <1>0
  <2>3. starter[s] \in Nat \cup {Off} /\ triggers[s] \in Seq(Nat)
    BY DEF TypeOK, TimerTypes
  <2> QED BY <2>1, <2>2, <2>3
<1>2. Remaining # {}
  BY DEF Tick
<1> DEFINE d == CHOOSE m \in Remaining : \A r \in Remaining : m <= r
<1>3. d \in Remaining /\ \A r \in Remaining : d <= r
  BY <1>1, <1>2, LeastTime
<1>4. d \in Nat
  BY <1>1, <1>3
<1>5. /\ starter' = [s \in Stacks |-> IF starter[s] = Off THEN Off ELSE starter[s] - d]
      /\ triggers' = [s \in Stacks |-> [i \in DOMAIN triggers[s] |-> triggers[s][i] - d]]
  BY DEF Tick
<1> HIDE DEF d
<1>6. ASSUME NEW s \in Stacks, starter[s] # Off PROVE starter[s] >= d
  <2>1. starter[s] \in Remaining
    BY <1>6, <1>0
  <2> QED BY <2>1, <1>1, <1>3, <1>4
<1>7. ASSUME NEW s \in Stacks, NEW i \in DOMAIN triggers[s] PROVE triggers[s][i] >= d
  <2>1. triggers[s][i] \in Nat
    BY DEF TypeOK, TimerTypes
  <2>2. triggers[s][i] \in Remaining
    BY <2>1, <1>0 DEF Off
  <2> QED BY <2>1, <2>2, <1>3, <1>4
<1> QED BY <1>4, <1>5, <1>6, <1>7

\* Only the NR stack gives way, and it gives up what it decided.
LEMMA CancelFacts ==
  ASSUME HandoverAssumption, TypeOK, NEW s \in Stacks, DelayOrCancel(s)
  PROVE  /\ s = "nr"
         /\ starter' = [starter EXCEPT !["nr"] = Off]
         /\ handoverTriggered' = [handoverTriggered EXCEPT !["nr"] = << >>]
<1>1. candidate[s] \in NodeIds(s) /\ MasterNodeOrSelf(candidate[s]) # candidate[s]
      /\ handoverTriggered[Other(s)] # << >>
  BY DEF DelayOrCancel, MasterIsLeft, TypeOK, NodeTypes
<1>2. s = "nr"
  BY <1>1, CellFacts DEF Stacks
<1>3. handoverTriggered["lte"][2] \in NodeIds("lte")
  BY <1>1, <1>2, CellFacts DEF TypeOK, EntryTypes
<1>4. handoverTriggered["lte"][2] # candidate["nr"]
  BY <1>1, <1>2, <1>3, CellFacts
<1> QED BY <1>2, <1>4, CellFacts DEF DelayOrCancel

\* Only the LTE stack makes the other leave its cell.
LEMMA ForceFacts ==
  ASSUME HandoverAssumption, TypeOK, NEW s \in Stacks, ForceDetachment(s)
  PROVE  /\ s = "lte"
         /\ serving["nr"] # None
         /\ starter' = [starter EXCEPT !["lte"] = DetachmentTime + Delta, !["nr"] = 0]
         /\ candidate' = [candidate EXCEPT !["nr"] = None]
         /\ candidateRssi' = [candidateRssi EXCEPT !["nr"] = 0]
         /\ hysteresis' = [hysteresis EXCEPT !["nr"] = Hysteresis(servingRssi["nr"])]
         /\ forcedMidway' = (forcedMidway \/ triggers["nr"] # << >>)
<1>1. serving[Other(s)] # None /\ MasterNodeOrSelf(serving[Other(s)]) = serving[s]
  BY DEF ForceDetachment, SecondaryIsLeft
<1>2. \A x \in Stacks : serving[x] \in NodeIds(x)
  BY DEF TypeOK, NodeTypes
<1>3. s = "lte"
  BY <1>1, <1>2, CellFacts DEF Stacks
<1> QED BY <1>1, <1>3, CellFacts DEF ForceDetachment, SetCandidate

\* What a completed handover removes.
LEMMA DoFacts ==
  ASSUME HandoverAssumption, TypeOK, NEW s \in Stacks, DoHandover(s)
  PROVE  /\ triggers[s] # << >> /\ triggers' \in [Stacks -> Seq(Nat)]
         /\ Len(triggers'[s]) = Len(triggers[s]) - 1
         /\ \A x \in Stacks : x # s => triggers'[x] = triggers[x]
         /\ \E i \in DOMAIN triggers[s] : triggers[s][i] = 0
<1>1. triggers \in [Stacks -> Seq(Nat)]
  BY DEF TypeOK, TimerTypes
<1>2. PICK i \in DOMAIN triggers[s] :
        /\ triggers[s][i] = 0
        /\ triggers' = [triggers EXCEPT ![s] = SubSeq(@, 1, i - 1) \o SubSeq(@, i + 1, Len(@))]
  BY DEF DoHandover
<1> DEFINE r == SubSeq(triggers[s], 1, i - 1) \o SubSeq(triggers[s], i + 1, Len(triggers[s]))
<1>3. r \in Seq(Nat) /\ Len(r) = Len(triggers[s]) - 1 /\ triggers[s] # << >>
  BY <1>1, RemoveOne
<1>4. triggers' = [triggers EXCEPT ![s] = r]
  BY <1>2
<1> HIDE DEF r
<1> QED BY <1>1, <1>2, <1>3, <1>4
-----------------------------------------------------------------------------
(***************************************************************************)
(* Type correctness.                                                        *)
(***************************************************************************)

LEMMA HysteresisType ==
  ASSUME HandoverAssumption, NEW r \in Int
  PROVE  Hysteresis(r) \in Int
BY DEF Hysteresis, HandoverAssumption

LEMMA InitType == HandoverAssumption /\ Init => TypeOK
<1> SUFFICES ASSUME HandoverAssumption, Init PROVE TypeOK
  OBVIOUS
<1>1. NodeTypes
  BY DEF Init, NodeTypes, NodeIds
<1>2. RssiTypes
  BY DEF Init, RssiTypes, VeryBad
<1>3. TimerTypes
  BY DEF Init, TimerTypes, Off
<1>4. EntryTypes
  BY DEF Init, EntryTypes
<1>5. TurnTypes
  BY DEF Init, TurnTypes
<1> QED BY <1>1, <1>2, <1>3, <1>4, <1>5 DEF TypeOK

LEMMA BeaconTurnType ==
  ASSUME HandoverAssumption, TypeOK, BeaconTurn
  PROVE  TypeOK'
<1>1. UNCHANGED <<controllerVars, handoverTriggered, performing, holderVars, failed, forcedMidway>>
  BY DEF BeaconTurn
<1>2. TurnTypes'
  BY <1>1 DEF BeaconTurn, TypeOK, TurnTypes
<1> QED BY <1>1, <1>2
        DEF TypeOK, NodeTypes, RssiTypes, TimerTypes, EntryTypes, controllerVars, holderVars

LEMMA TickType ==
  ASSUME HandoverAssumption, TypeOK, Tick
  PROVE  TypeOK'
<1>1. UNCHANGED <<serving, candidate, servingRssi, candidateRssi, hysteresis, pointer,
                  handoverTriggered, performing, holderVars, beacons, turns, failed, forcedMidway>>
  BY DEF Tick
<1>2. PICK d \in Nat :
        /\ starter' = [s \in Stacks |-> IF starter[s] = Off THEN Off ELSE starter[s] - d]
        /\ triggers' = [s \in Stacks |-> [i \in DOMAIN triggers[s] |-> triggers[s][i] - d]]
        /\ \A s \in Stacks : starter[s] # Off => starter[s] >= d
        /\ \A s \in Stacks : \A i \in DOMAIN triggers[s] : triggers[s][i] >= d
  BY TickFacts
<1>3. ASSUME NEW s \in Stacks
      PROVE  (IF starter[s] = Off THEN Off ELSE starter[s] - d) \in Nat \cup {Off}
  BY <1>2 DEF TypeOK, TimerTypes
<1>4. ASSUME NEW s \in Stacks
      PROVE  [i \in DOMAIN triggers[s] |-> triggers[s][i] - d] \in Seq(Nat)
  <2>1. triggers[s] \in Seq(Nat) /\ DOMAIN triggers[s] = 1 .. Len(triggers[s])
        /\ Len(triggers[s]) \in Nat
    BY DEF TypeOK, TimerTypes
  <2>2. \A i \in 1 .. Len(triggers[s]) : triggers[s][i] - d \in Nat
    BY <1>2, <2>1
  <2> QED BY <2>1, <2>2
<1>5. TimerTypes'
  BY <1>1, <1>2, <1>3, <1>4 DEF TypeOK, TimerTypes
<1> QED BY <1>1, <1>5
        DEF TypeOK, NodeTypes, RssiTypes, EntryTypes, TurnTypes, holderVars

\* What a beacon does to the decision of its stack, and what it leaves alone.
LEMMA BeaconFacts ==
  ASSUME HandoverAssumption, TypeOK,
         NEW s \in Stacks, NEW c \in CellsOf(s), NEW r \in Rssi, BeaconReceived(s, c, r)
  PROVE  /\ <<s, c>> \in beacons
         /\ beacons' = beacons \ {<<s, c>>}
         /\ UNCHANGED <<serving, triggers, pointer, performing, holderVars, turns, failed, forcedMidway>>
         /\ \/ UNCHANGED <<candidate, starter, handoverTriggered>>
            \/ /\ candidate' = [candidate EXCEPT ![s] = serving[s]]
               /\ starter' = [starter EXCEPT ![s] = Off]
               /\ UNCHANGED handoverTriggered
            \/ /\ c # serving[s] /\ ~Ignored(s, c)
               /\ candidate' = [candidate EXCEPT ![s] = c] /\ Announce(s, c)
            \/ /\ c = serving[s]
               /\ candidate' = [candidate EXCEPT ![s] = None] /\ Announce(s, None)
<1>1. \/ UNCHANGED <<candidate, candidateRssi, servingRssi, hysteresis, starter, handoverTriggered>>
      \/ ServingStronger(s, r)
      \/ c # serving[s] /\ ~Ignored(s, c) /\ CandidateStronger(s, c, r)
      \/ c = serving[s] /\ ServingNotStronger(s, r)
  BY Zenon DEF BeaconReceived
<1>2. CASE ServingStronger(s, r)
  BY <1>2 DEF ServingStronger, SetCandidate, BeaconReceived
<1>3. CASE c # serving[s] /\ ~Ignored(s, c) /\ CandidateStronger(s, c, r)
  BY <1>3 DEF CandidateStronger, SetCandidate, BeaconReceived
<1>4. CASE c = serving[s] /\ ServingNotStronger(s, r)
  BY <1>4 DEF ServingNotStronger, SetCandidate, BeaconReceived
<1>5. CASE UNCHANGED <<candidate, candidateRssi, servingRssi, hysteresis, starter, handoverTriggered>>
  BY <1>5 DEF BeaconReceived
<1> QED BY <1>1, <1>2, <1>3, <1>4, <1>5

LEMMA BeaconType ==
  ASSUME HandoverAssumption, TypeOK,
         NEW s \in Stacks, NEW c \in CellsOf(s), NEW r \in Rssi, BeaconReceived(s, c, r)
  PROVE  TypeOK'
<1> r \in Int /\ Hysteresis(r) \in Int /\ Hysteresis(0) \in Int
  BY HysteresisType DEF HandoverAssumption
<1>1. RssiTypes'
  <2>1. \/ UNCHANGED <<candidate, candidateRssi, servingRssi, hysteresis, starter, handoverTriggered>>
        \/ ServingStronger(s, r)
        \/ CandidateStronger(s, c, r)
        \/ ServingNotStronger(s, r)
    BY Zenon DEF BeaconReceived
  <2> QED BY <2>1 DEF TypeOK, RssiTypes, ServingStronger, CandidateStronger, ServingNotStronger,
                      SetCandidate, VeryBad
<1>2. NodeTypes'
  <2>1. UNCHANGED <<serving, ueServing>>
    BY BeaconFacts DEF holderVars
  <2>2. /\ serving[s] \in NodeIds(s) /\ c \in NodeIds(s) /\ None \in NodeIds(s)
        /\ NodeIds(s) \subseteq Cells \cup {None}
    BY DEF TypeOK, NodeTypes, NodeIds, CellsOf, Cells
  <2>3. candidate' = candidate \/ \E x \in NodeIds(s) : candidate' = [candidate EXCEPT ![s] = x]
    BY <2>2, BeaconFacts, Zenon
  <2> QED BY <2>1, <2>2, <2>3 DEF TypeOK, NodeTypes
<1>3. TimerTypes'
  <2>1. UNCHANGED <<triggers, pointer>>
    BY BeaconFacts
  <2>2. \/ starter' = starter \/ starter' = [starter EXCEPT ![s] = Off]
        \/ starter' = [starter EXCEPT ![s] = IF @ = Off THEN Delta ELSE @]
    BY BeaconFacts, Zenon DEF Announce
  <2>3. Delta \in Nat
    BY DEF HandoverAssumption
  <2> QED BY <2>1, <2>2, <2>3 DEF TypeOK, TimerTypes
<1>4. ASSUME NEW x \in NodeIds(s), Announce(s, x) PROVE EntryTypes'
  <2>1. x \in Cells \cup {None} /\ serving[s] \in Cells \cup {None}
    BY DEF NodeIds, Cells, CellsOf, TypeOK, NodeTypes
  <2>2. UNCHANGED <<performing, holderVars>>
    BY BeaconFacts
  <2>3. handoverTriggered' = [handoverTriggered EXCEPT ![s] = <<serving[s], x>>]
    BY <1>4 DEF Announce
  <2> QED BY <2>1, <2>2, <2>3 DEF TypeOK, EntryTypes, holderVars
<1>5. EntryTypes'
  <2>1. CASE UNCHANGED handoverTriggered
    BY <2>1, BeaconFacts DEF TypeOK, EntryTypes, holderVars
  <2> QED BY <2>1, <1>4, BeaconFacts DEF NodeIds
<1>6. TurnTypes'
  BY BeaconFacts DEF TypeOK, TurnTypes
<1> QED BY <1>1, <1>2, <1>3, <1>5, <1>6 DEF TypeOK

LEMMA CancelType ==
  ASSUME HandoverAssumption, TypeOK, NEW s \in Stacks, DelayOrCancel(s),
         UNCHANGED <<serving, servingRssi, beacons, turns>>
  PROVE  TypeOK'
<1>1. UNCHANGED <<candidate, candidateRssi, hysteresis, triggers, pointer, performing,
                  holderVars, failed, forcedMidway>>
  BY DEF DelayOrCancel
<1>2. TimerTypes'
  BY <1>1, CancelFacts DEF TypeOK, TimerTypes
<1>3. EntryTypes'
  BY <1>1, CancelFacts DEF TypeOK, EntryTypes, holderVars
<1> QED BY <1>1, <1>2, <1>3 DEF TypeOK, NodeTypes, RssiTypes, TurnTypes, holderVars

LEMMA ForceType ==
  ASSUME HandoverAssumption, TypeOK, NEW s \in Stacks, ForceDetachment(s),
         UNCHANGED <<serving, servingRssi, beacons, turns>>
  PROVE  TypeOK'
<1>1. UNCHANGED <<handoverTriggered, triggers, pointer, performing, holderVars, failed>>
  BY DEF ForceDetachment
<1>2. TimerTypes'
  <2>1. DetachmentTime + Delta \in Nat
    BY DEF HandoverAssumption
  <2>2. starter' = [starter EXCEPT !["lte"] = DetachmentTime + Delta, !["nr"] = 0]
    BY ForceFacts
  <2> QED BY <1>1, <2>1, <2>2 DEF TypeOK, TimerTypes
<1>3. Hysteresis(servingRssi["nr"]) \in Int
  BY HysteresisType DEF TypeOK, RssiTypes, Stacks
<1>4. RssiTypes'
  BY <1>3, ForceFacts DEF TypeOK, RssiTypes
<1>5. NodeTypes'
  BY <1>1, ForceFacts DEF TypeOK, NodeTypes, NodeIds, holderVars
<1>6. TurnTypes'
  <2>1. forcedMidway' \in BOOLEAN
    BY ForceFacts
  <2> QED BY <1>1, <2>1 DEF TypeOK, TurnTypes
<1> QED BY <1>1, <1>2, <1>4, <1>5, <1>6 DEF TypeOK, EntryTypes, holderVars

LEMMA StartType ==
  ASSUME HandoverAssumption, TypeOK, NEW s \in Stacks, StartHandover(s),
         UNCHANGED <<serving, servingRssi, beacons, turns>>
  PROVE  TypeOK'
<1>1. UNCHANGED <<candidate, candidateRssi, hysteresis, handoverTriggered, forcedMidway>>
  BY DEF StartHandover
<1> DEFINE latency == (IF serving[s] # None THEN DetachmentTime ELSE 0)
                      + IF candidate[s] # None \/ serving[s] = None THEN AttachmentTime ELSE 0
<1>2. latency \in Nat
  BY DEF HandoverAssumption
<1>3. /\ triggers' = [triggers EXCEPT ![s] = Append(@, latency)]
      /\ starter' = [starter EXCEPT ![s] = Off]
      /\ pointer' = [pointer EXCEPT ![s] = TRUE]
  BY DEF StartHandover
<1> HIDE DEF latency
<1>4. TimerTypes'
  BY <1>2, <1>3 DEF TypeOK, TimerTypes
<1>5. NodeTypes'
  <2>1. ueServing' = [ueServing EXCEPT ![s] = candidate[s]]
    BY DEF StartHandover
  <2> QED BY <1>1, <2>1 DEF TypeOK, NodeTypes
<1>6. EntryTypes'
  <2>1. /\ performing' = performing \cup {s} /\ ueHold' = (ueHold \/ candidate[s] # None)
        /\ \/ UNCHANGED <<forwarding, holding>>
           \/ /\ serving[s] # None /\ candidate[s] # None
              /\ forwarding' = {f \in forwarding : <<f[1], f[2]>> # <<s, serving[s]>>}
                               \cup {<<s, serving[s], candidate[s]>>}
              /\ holding' = holding \cup {<<s, candidate[s]>>}
    BY DEF StartHandover
  <2>2. performing' \in SUBSET Stacks /\ ueHold' \in BOOLEAN
    BY <2>1 DEF TypeOK, EntryTypes
  <2>3. serving[s] \in Cells \cup {None} /\ candidate[s] \in Cells \cup {None}
    BY DEF TypeOK, NodeTypes
  <2>4. forwarding' \in SUBSET (Stacks \X Cells \X Cells) /\ holding' \in SUBSET (Stacks \X Cells)
    BY <2>1, <2>3 DEF TypeOK, EntryTypes
  <2> QED BY <1>1, <2>2, <2>4 DEF TypeOK, EntryTypes
<1>7. TurnTypes'
  <2>1. failed' \in BOOLEAN
    BY DEF StartHandover
  <2> QED BY <1>1, <2>1 DEF TypeOK, TurnTypes
<1> QED BY <1>1, <1>4, <1>5, <1>6, <1>7 DEF TypeOK, RssiTypes

LEMMA DoType ==
  ASSUME HandoverAssumption, TypeOK, NEW s \in Stacks, DoHandover(s)
  PROVE  TypeOK'
<1>1. UNCHANGED <<candidate, candidateRssi, starter, ueServing, beacons, turns, failed, forcedMidway>>
  BY DEF DoHandover
<1>2. TimerTypes'
  <2>1. pointer' = [pointer EXCEPT ![s] = FALSE]
    BY DEF DoHandover
  <2> QED BY <1>1, <2>1, DoFacts DEF TypeOK, TimerTypes
<1>3. NodeTypes'
  <2>1. serving' = [serving EXCEPT ![s] = candidate[s]]
    BY DEF DoHandover
  <2> QED BY <1>1, <2>1 DEF TypeOK, NodeTypes
<1>4. RssiTypes'
  <2>1. candidateRssi[s] \in Int /\ Hysteresis(candidateRssi[s]) \in Int
    BY HysteresisType DEF TypeOK, RssiTypes
  <2>2. /\ servingRssi' = [servingRssi EXCEPT ![s] = candidateRssi[s]]
        /\ hysteresis' = [hysteresis EXCEPT ![s] = Hysteresis(candidateRssi[s])]
    BY DEF DoHandover
  <2> QED BY <1>1, <2>1, <2>2 DEF TypeOK, RssiTypes
<1>5. EntryTypes'
  <2>1. /\ handoverTriggered' = [handoverTriggered EXCEPT ![s] = << >>]
        /\ performing' = performing \ {s}
        /\ ueHold' = (ueHold /\ ueServing[s] = None)
    BY DEF DoHandover
  <2>2. forwarding' \in SUBSET forwarding /\ holding' \in SUBSET holding
    BY DEF DoHandover, SignalHandoverComplete
  <2>3. ueHold' \in BOOLEAN
    BY <2>1
  <2> QED BY <2>1, <2>2, <2>3 DEF TypeOK, EntryTypes
<1> QED BY <1>1, <1>2, <1>3, <1>4, <1>5 DEF TypeOK, TurnTypes
-----------------------------------------------------------------------------
(***************************************************************************)
(* The two stacks in one turn of beacons.                                   *)
(***************************************************************************)

LEMMA InitDual == HandoverAssumption /\ Init => DualInv
<1> SUFFICES ASSUME HandoverAssumption, Init PROVE DualInv
  OBVIOUS
<1>1. /\ starter = [s \in Stacks |-> Off] /\ triggers = [s \in Stacks |-> << >>]
      /\ beacons = {}
      /\ \A s \in Stacks : serving[s] \in NodeIds(s)
      /\ MasterNodeOrSelf(serving["nr"]) \in {serving["nr"], serving["lte"]}
  BY DEF Init, NodeIds
<1>2. UnderMaster
  <2> SUFFICES ASSUME Secondary(serving["nr"])
               PROVE  serving["lte"] = Master[serving["nr"]] /\ triggers["lte"] = << >>
    BY DEF UnderMaster
  <2>1. serving["nr"] \in Cells
    BY <1>1, CellFacts DEF Secondary, NodeIds, Cells, CellsOf
  <2> QED BY <1>1, <2>1, CellFacts DEF Secondary, MasterNodeOrSelf
<1> QED BY <1>1, <1>2, CellFacts
        DEF DualInv, BeaconsFirst, OneHandover, LteAnnounced, RealMove, DecidesInTime, MasterStays,
            Scheduled

LEMMA BeaconTurnDual ==
  ASSUME HandoverAssumption, TypeOK, DualInv, BeaconTurn
  PROVE  DualInv'
<1>1. /\ UNCHANGED <<serving, candidate, starter, triggers, handoverTriggered, forcedMidway>>
      /\ \A s \in Stacks : starter[s] = Off /\ triggers[s] = << >>
  BY DEF BeaconTurn, controllerVars, AtRest, Scheduled
<1>2. BeaconsFirst'
  BY <1>1 DEF BeaconsFirst
<1> QED BY <1>1, <1>2
        DEF DualInv, OneHandover, LteAnnounced, RealMove, DecidesInTime, MasterStays, UnderMaster,
            Scheduled

LEMMA TickDual ==
  ASSUME HandoverAssumption, TypeOK, DualInv, Tick
  PROVE  DualInv'
<1>1. UNCHANGED <<serving, candidate, handoverTriggered, beacons, forcedMidway>> /\ beacons = {}
  BY DEF Tick
<1>2. PICK d \in Nat :
        /\ starter' = [s \in Stacks |-> IF starter[s] = Off THEN Off ELSE starter[s] - d]
        /\ triggers' = [s \in Stacks |-> [i \in DOMAIN triggers[s] |-> triggers[s][i] - d]]
        /\ \A s \in Stacks : starter[s] # Off => starter[s] >= d
        /\ \A s \in Stacks : \A i \in DOMAIN triggers[s] : triggers[s][i] >= d
  BY TickFacts
<1>3. ASSUME NEW s \in Stacks
      PROVE  /\ starter'[s] = Off <=> starter[s] = Off
             /\ starter[s] # Off => starter'[s] = starter[s] - d
             /\ triggers[s] \in Seq(Nat) /\ triggers'[s] \in Seq(Nat)
             /\ Len(triggers'[s]) = Len(triggers[s])
             /\ triggers'[s] = << >> <=> triggers[s] = << >>
             /\ DOMAIN triggers'[s] = DOMAIN triggers[s]
             /\ \A i \in DOMAIN triggers[s] : triggers'[s][i] = triggers[s][i] - d
  <2>1. starter[s] \in Nat \cup {Off}
    BY DEF TypeOK, TimerTypes
  <2>2. triggers[s] \in Seq(Nat) /\ triggers'[s] \in Seq(Nat)
    BY TickType DEF TypeOK, TimerTypes
  <2>3. starter'[s] = IF starter[s] = Off THEN Off ELSE starter[s] - d
    BY <1>2
  <2>4. triggers'[s] = [i \in DOMAIN triggers[s] |-> triggers[s][i] - d]
    BY <1>2
  <2>5. starter'[s] = Off <=> starter[s] = Off
    BY <1>2, <2>1, <2>3 DEF Off
  <2>6. Len(triggers'[s]) = Len(triggers[s]) /\ DOMAIN triggers'[s] = DOMAIN triggers[s]
    BY <2>2, <2>4
  <2> QED BY <2>2, <2>3, <2>4, <2>5, <2>6
<1>4. OneHandover' /\ LteAnnounced' /\ RealMove' /\ MasterStays' /\ UnderMaster'
  BY <1>1, <1>3, CellFacts
     DEF DualInv, OneHandover, LteAnnounced, RealMove, MasterStays, UnderMaster, Scheduled
<1>5. DecidesInTime'
  <2> SUFFICES ASSUME starter'["nr"] # Off, Secondary(candidate["nr"])
               PROVE  /\ serving["lte"] = Master[candidate["nr"]]
                      /\ starter'["lte"] \in {Off, starter'["nr"]}
                      /\ \A i \in DOMAIN triggers'["lte"] : triggers'["lte"][i] > starter'["nr"]
    BY <1>1 DEF DecidesInTime, Secondary
  <2>1. /\ serving["lte"] = Master[candidate["nr"]]
        /\ starter["lte"] \in {Off, starter["nr"]}
        /\ \A i \in DOMAIN triggers["lte"] : triggers["lte"][i] > starter["nr"]
        /\ starter["nr"] # Off
    BY <1>3, CellFacts DEF DualInv, DecidesInTime
  <2>2. starter'["lte"] \in {Off, starter'["nr"]}
    BY <1>3, <2>1, CellFacts
  <2>3. ASSUME NEW i \in DOMAIN triggers'["lte"]
        PROVE  triggers'["lte"][i] > starter'["nr"]
    <3>1. i \in DOMAIN triggers["lte"] /\ triggers["lte"][i] \in Nat /\ starter["nr"] \in Nat
      BY <1>3, <2>1, CellFacts DEF TypeOK, TimerTypes
    <3>2. triggers'["lte"][i] = triggers["lte"][i] - d /\ starter'["nr"] = starter["nr"] - d
      BY <1>3, <2>1, <3>1, CellFacts
    <3> QED BY <2>1, <3>1, <3>2
  <2> QED BY <2>1, <2>2, <2>3
<1>6. BeaconsFirst'
  BY <1>1 DEF BeaconsFirst
<1> QED BY <1>4, <1>5, <1>6 DEF DualInv

LEMMA BeaconDual ==
  ASSUME HandoverAssumption, TypeOK, DualInv,
         NEW s \in Stacks, NEW c \in CellsOf(s), NEW r \in Rssi, BeaconReceived(s, c, r)
  PROVE  DualInv'
<1>1. /\ UNCHANGED <<serving, triggers, forcedMidway>>
      /\ \A x \in Stacks : triggers[x] = << >> /\ starter[x] \in {Off, Delta}
  BY BeaconFacts DEF DualInv, BeaconsFirst
<1>2. /\ starter \in [Stacks -> Nat \cup {Off}]
      /\ candidate \in [Stacks -> Cells \cup {None}]
      /\ handoverTriggered \in
           [Stacks -> {<< >>} \cup ((Cells \cup {None}) \X (Cells \cup {None}))]
      /\ \A x \in Stacks : serving[x] \in NodeIds(x) /\ candidate[x] \in NodeIds(x)
  BY DEF TypeOK, TimerTypes, NodeTypes, EntryTypes
<1>3. Delta \in Nat /\ Delta # Off
  BY DEF HandoverAssumption, Off
\* The stack decides nothing new, drops what it decided, or decides for x.
<1>4. \/ UNCHANGED <<candidate, starter, handoverTriggered>>
      \/ /\ candidate' = [candidate EXCEPT ![s] = serving[s]]
         /\ starter' = [starter EXCEPT ![s] = Off]
         /\ UNCHANGED handoverTriggered
      \/ \E x \in NodeIds(s) :
           /\ candidate' = [candidate EXCEPT ![s] = x]
           /\ starter' = [starter EXCEPT ![s] = Delta]
           /\ handoverTriggered' = [handoverTriggered EXCEPT ![s] = <<serving[s], x>>]
           /\ serving[s] # x
           /\ s = "nr" /\ Secondary(x) => serving["lte"] = Master[x]
  <2>1. CASE c # serving[s] /\ ~Ignored(s, c)
             /\ candidate' = [candidate EXCEPT ![s] = c] /\ Announce(s, c)
    <3>1. c \in NodeIds(s) /\ starter' = [starter EXCEPT ![s] = Delta]
      BY <1>1, <1>2, <1>3, <2>1 DEF NodeIds, Announce
    <3>2. s = "nr" /\ Secondary(c) => serving["lte"] = Master[c]
      BY <2>1, CellFacts DEF Ignored, Secondary
    <3> QED BY <2>1, <3>1, <3>2 DEF Announce
  <2>2. CASE c = serving[s] /\ candidate' = [candidate EXCEPT ![s] = None] /\ Announce(s, None)
    <3>1. None \in NodeIds(s) /\ starter' = [starter EXCEPT ![s] = Delta]
      BY <1>1, <1>2, <1>3, <2>2 DEF NodeIds, Announce
    <3>2. serving[s] # None /\ ~Secondary(None)
      BY <2>2, CellFacts DEF Cells, CellsOf, Secondary
    <3> QED BY <2>2, <3>1, <3>2 DEF Announce
  <2> QED BY <2>1, <2>2, BeaconFacts
<1>5. BeaconsFirst'
  BY <1>1, <1>2, <1>3, <1>4 DEF BeaconsFirst
<1>6. OneHandover' /\ MasterStays'
  BY <1>1, CellFacts DEF OneHandover, MasterStays
<1>7. LteAnnounced'
  <2> SUFFICES ASSUME starter'["lte"] # Off PROVE handoverTriggered'["lte"] # << >>
    BY <1>1, CellFacts DEF LteAnnounced, Scheduled
  <2>1. starter["lte"] # Off => handoverTriggered["lte"] # << >>
    BY DEF DualInv, LteAnnounced, Scheduled
  <2>2. CASE UNCHANGED <<candidate, starter, handoverTriggered>>
    BY <2>1, <2>2
  <2>3. CASE starter' = [starter EXCEPT ![s] = Off] /\ UNCHANGED handoverTriggered
    BY <1>2, <2>1, <2>3, CellFacts
  <2>4. ASSUME NEW x, starter' = [starter EXCEPT ![s] = Delta],
               handoverTriggered' = [handoverTriggered EXCEPT ![s] = <<serving[s], x>>]
        PROVE  handoverTriggered'["lte"] # << >>
    <3>1. CASE s = "lte"
      <4>1. handoverTriggered'["lte"] = <<serving[s], x>>
        BY <1>2, <2>4, <3>1
      <4> QED BY <4>1
    <3>2. CASE s # "lte"
      BY <1>2, <2>1, <2>4, <3>2, CellFacts
    <3> QED BY <3>1, <3>2
  <2> QED BY <1>4, <2>2, <2>3, <2>4
<1>8. RealMove'
  <2> SUFFICES ASSUME NEW x \in Stacks, starter'[x] # Off
               PROVE  serving[x] = None \/ candidate'[x] # serving[x]
    BY <1>1 DEF RealMove
  <2> QED BY <1>2, <1>4 DEF DualInv, RealMove
<1>9. DecidesInTime'
  <2> SUFFICES ASSUME starter'["nr"] # Off, Secondary(candidate'["nr"])
               PROVE  serving["lte"] = Master[candidate'["nr"]]
                      /\ starter'["lte"] \in {Off, starter'["nr"]}
    BY <1>1, CellFacts DEF DecidesInTime, Secondary
  <2>1. starter'["lte"] \in {Off, starter'["nr"]}
    BY <1>1, <1>2, <1>3, <1>4, CellFacts
  <2>2. serving["lte"] = Master[candidate'["nr"]]
    BY <1>2, <1>4, CellFacts DEF DualInv, DecidesInTime, Stacks
  <2> QED BY <2>1, <2>2
<1>10. UnderMaster'
  BY <1>1 DEF DualInv, UnderMaster
<1> QED BY <1>5, <1>6, <1>7, <1>8, <1>9, <1>10 DEF DualInv

LEMMA CancelDual ==
  ASSUME HandoverAssumption, TypeOK, DualInv, NEW s \in Stacks, DelayOrCancel(s), beacons = {},
         UNCHANGED <<serving, servingRssi, beacons, turns>>
  PROVE  DualInv'
<1>1. UNCHANGED <<serving, candidate, triggers, forcedMidway, beacons>>
  BY DEF DelayOrCancel
<1>2. /\ starter'["nr"] = Off /\ starter'["lte"] = starter["lte"]
      /\ handoverTriggered'["lte"] = handoverTriggered["lte"]
  BY CancelFacts DEF TypeOK, TimerTypes, EntryTypes, Stacks
<1> QED BY <1>1, <1>2
        DEF DualInv, BeaconsFirst, OneHandover, LteAnnounced, RealMove, DecidesInTime, MasterStays,
            UnderMaster, Scheduled, Stacks

LEMMA ForceDual ==
  ASSUME HandoverAssumption, TypeOK, DualInv, NEW s \in Stacks, ForceDetachment(s), beacons = {},
         starter[s] = 0, UNCHANGED <<serving, servingRssi, beacons, turns>>
  PROVE  DualInv'
<1>1. UNCHANGED <<serving, triggers, handoverTriggered, beacons>>
  BY DEF ForceDetachment
<1>2. /\ s = "lte" /\ serving["nr"] # None
      /\ starter'["lte"] = DetachmentTime + Delta /\ starter'["nr"] = 0
      /\ candidate'["nr"] = None /\ candidate'["lte"] = candidate["lte"]
      /\ forcedMidway' = (forcedMidway \/ triggers["nr"] # << >>)
  BY ForceFacts DEF TypeOK, TimerTypes, NodeTypes, Stacks
<1>3. starter["lte"] # Off /\ triggers["lte"] = << >>
  BY <1>2 DEF Off, DualInv, OneHandover, Stacks
<1>4. OneHandover'
  BY <1>1, <1>2, <1>3 DEF DualInv, OneHandover, Stacks
<1>5. LteAnnounced' /\ UnderMaster'
  BY <1>1, <1>2, <1>3 DEF DualInv, LteAnnounced, UnderMaster, Scheduled
<1>6. RealMove'
  BY <1>1, <1>2, <1>3 DEF DualInv, RealMove, Stacks
<1>7. DecidesInTime' /\ MasterStays'
  BY <1>2 DEF DecidesInTime, MasterStays, Secondary
<1>8. BeaconsFirst'
  BY <1>1 DEF BeaconsFirst
<1> QED BY <1>4, <1>5, <1>6, <1>7, <1>8 DEF DualInv

LEMMA StartDual ==
  ASSUME HandoverAssumption, TypeOK, DualInv, NEW s \in Stacks, StartHandover(s), beacons = {},
         starter[s] = 0, UNCHANGED <<serving, servingRssi, beacons, turns>>
  PROVE  DualInv' /\ ~failed'
<1>1. UNCHANGED <<serving, candidate, handoverTriggered, forcedMidway, beacons>>
  BY DEF StartHandover
<1> DEFINE latency == (IF serving[s] # None THEN DetachmentTime ELSE 0)
                      + IF candidate[s] # None \/ serving[s] = None THEN AttachmentTime ELSE 0
<1>2. latency \in Nat /\ latency > 0
  BY DEF HandoverAssumption
<1>3. /\ triggers' = [triggers EXCEPT ![s] = Append(@, latency)]
      /\ starter' = [starter EXCEPT ![s] = Off]
  BY DEF StartHandover
<1> HIDE DEF latency
<1>4. /\ triggers \in [Stacks -> Seq(Nat)] /\ starter \in [Stacks -> Nat \cup {Off}]
      /\ \A x \in Stacks : serving[x] \in NodeIds(x) /\ candidate[x] \in NodeIds(x)
  BY DEF TypeOK, TimerTypes, NodeTypes
<1>5. /\ starter'[s] = Off /\ triggers'[s] # << >>
      /\ triggers'[s] = Append(triggers[s], latency)
      /\ \A x \in Stacks : x # s => starter'[x] = starter[x] /\ triggers'[x] = triggers[x]
      /\ starter[s] # Off
  <2>1. triggers[s] \in Seq(Nat) /\ Append(triggers[s], latency) # << >>
    BY <1>2, <1>4, LenFacts
  <2> QED BY <1>3, <1>4, <2>1 DEF Off
<1>6. ~failed'
  BY <1>5 DEF StartHandover, DualInv, RealMove
<1>7. OneHandover'
  <2>1. Len(triggers'[s]) <= 1 \/ (s = "nr" /\ forcedMidway)
    <3>1. CASE triggers[s] = << >>
      BY <1>2, <1>5, <3>1
    <3>2. CASE triggers[s] # << >>
      BY <1>5, <3>2 DEF DualInv, OneHandover
    <3> QED BY <3>1, <3>2
  <2> QED BY <1>1, <1>5, <2>1 DEF DualInv, OneHandover
<1>8. LteAnnounced'
  <2>1. Scheduled("lte") => handoverTriggered["lte"] # << >>
    BY DEF DualInv, LteAnnounced
  <2> QED BY <1>1, <1>5, <2>1, CellFacts DEF LteAnnounced, Scheduled
<1>9. RealMove'
  BY <1>1, <1>5 DEF DualInv, RealMove
<1>10. DecidesInTime'
  <2> SUFFICES ASSUME starter'["nr"] # Off, Secondary(candidate["nr"])
               PROVE  /\ serving["lte"] = Master[candidate["nr"]]
                      /\ starter'["lte"] \in {Off, starter'["nr"]}
                      /\ \A i \in DOMAIN triggers'["lte"] : triggers'["lte"][i] > starter'["nr"]
    BY <1>1 DEF DecidesInTime, Secondary
  <2>1. s = "lte" /\ starter'["nr"] = starter["nr"] /\ starter["nr"] # Off
    BY <1>5, CellFacts DEF Stacks
  <2>2. serving["lte"] = Master[candidate["nr"]] /\ starter["nr"] = 0
    BY <1>5, <2>1 DEF DualInv, DecidesInTime
  <2>3. triggers["lte"] = << >>
    BY <1>5, <2>1 DEF DualInv, OneHandover, Stacks
  <2>4. \A i \in DOMAIN triggers'["lte"] : triggers'["lte"][i] = latency
    BY <1>2, <1>5, <2>1, <2>3
  <2> QED BY <1>2, <1>5, <2>1, <2>2, <2>4
<1>11. MasterStays'
  <2> SUFFICES ASSUME triggers'["nr"] # << >>, Secondary(candidate["nr"])
               PROVE  /\ serving["lte"] = Master[candidate["nr"]]
                      /\ starter'["lte"] = Off /\ triggers'["lte"] = << >>
    BY <1>1 DEF MasterStays, Secondary, Scheduled
  \* The NR stack starts to move: the LTE stack has announced nothing.
  <2>1. CASE s = "nr"
    <3>1. serving["lte"] = Master[candidate["nr"]]
      BY <1>5, <2>1 DEF DualInv, DecidesInTime
    <3>2. handoverTriggered["lte"] = << >>
      <4>1. ~MasterIsLeft("nr")
        BY <2>1 DEF StartHandover
      <4>2. candidate["nr"] # None /\ MasterNodeOrSelf(candidate["nr"]) = Master[candidate["nr"]]
            /\ Master[candidate["nr"]] # candidate["nr"]
        BY DEF Secondary, MasterNodeOrSelf
      <4> QED BY <3>1, <4>1, <4>2, CellFacts DEF MasterIsLeft
    <3>3. starter["lte"] = Off /\ triggers["lte"] = << >>
      BY <3>2 DEF DualInv, LteAnnounced, Scheduled
    <3> QED BY <1>5, <2>1, <3>1, <3>3, CellFacts
  \* The LTE stack does not start while the NR stack moves to a secondary node.
  <2>2. CASE s = "lte"
    <3>1. triggers["nr"] # << >>
      BY <1>5, <2>2, CellFacts
    <3> QED BY <1>5, <2>2, <3>1 DEF DualInv, MasterStays, Scheduled
  <2> QED BY <2>1, <2>2 DEF Stacks
<1>12. UnderMaster'
  <2> SUFFICES ASSUME Secondary(serving["nr"])
               PROVE  serving["lte"] = Master[serving["nr"]] /\ triggers'["lte"] = << >>
    BY <1>1 DEF UnderMaster, Secondary
  <2>1. serving["lte"] = Master[serving["nr"]] /\ triggers["lte"] = << >>
    BY DEF DualInv, UnderMaster
  <2>2. s # "lte"
    <3>1. ~SecondaryIsLeft(s)
      BY DEF StartHandover
    <3> QED BY <2>1, <3>1, CellFacts DEF SecondaryIsLeft, MasterNodeOrSelf, Secondary
  <2> QED BY <1>5, <2>1, <2>2, CellFacts
<1>13. BeaconsFirst'
  BY <1>1 DEF BeaconsFirst
<1> QED BY <1>6, <1>7, <1>8, <1>9, <1>10, <1>11, <1>12, <1>13 DEF DualInv

LEMMA DoDual ==
  ASSUME HandoverAssumption, TypeOK, DualInv, NEW s \in Stacks, DoHandover(s)
  PROVE  DualInv'
<1>1. UNCHANGED <<candidate, starter, beacons, forcedMidway>> /\ beacons = {}
  BY DEF DoHandover
<1>2. /\ serving' = [serving EXCEPT ![s] = candidate[s]]
      /\ handoverTriggered' = [handoverTriggered EXCEPT ![s] = << >>]
  BY DEF DoHandover
<1>3. /\ serving \in [Stacks -> Cells \cup {None}]
      /\ triggers \in [Stacks -> Seq(Nat)] /\ starter \in [Stacks -> Nat \cup {Off}]
      /\ handoverTriggered \in
           [Stacks -> {<< >>} \cup ((Cells \cup {None}) \X (Cells \cup {None}))]
      /\ \A x \in Stacks : serving[x] \in NodeIds(x) /\ candidate[x] \in NodeIds(x)
  BY DEF TypeOK, TimerTypes, NodeTypes, EntryTypes
<1>4. /\ triggers[s] # << >> /\ triggers' \in [Stacks -> Seq(Nat)]
      /\ Len(triggers'[s]) = Len(triggers[s]) - 1
      /\ \A x \in Stacks : x # s => triggers'[x] = triggers[x]
  BY DoFacts
<1>5. serving'[s] = candidate[s] /\ \A x \in Stacks : x # s => serving'[x] = serving[x]
      /\ handoverTriggered'[x] = handoverTriggered[x]
  BY <1>2, <1>3
<1>6. s = "lte" => triggers'["lte"] = << >> /\ starter["lte"] = Off
  <2> SUFFICES ASSUME s = "lte" PROVE triggers'["lte"] = << >> /\ starter["lte"] = Off
    OBVIOUS
  <2>1. Len(triggers["lte"]) <= 1 /\ starter["lte"] = Off
    BY <1>4 DEF DualInv, OneHandover
  <2>2. /\ triggers["lte"] \in Seq(Nat) /\ triggers'["lte"] \in Seq(Nat)
        /\ Len(triggers'["lte"]) = Len(triggers["lte"]) - 1
    BY <1>3, <1>4, CellFacts
  <2>3. triggers["lte"] # << >>
    BY <1>4
  <2>4. Len(triggers["lte"]) = 1
    BY <2>1, <2>2, <2>3, LenOne
  <2>5. Len(triggers'["lte"]) = 0
    BY <2>2, <2>4
  <2> QED BY <2>1, <2>2, <2>5, LenFacts
<1>7. OneHandover'
  <2>1. ASSUME NEW x \in Stacks
        PROVE  /\ triggers'[x] # << >> => triggers[x] # << >>
               /\ Len(triggers'[x]) <= Len(triggers[x])
    BY <1>3, <1>4
  <2>2. ASSUME NEW x \in Stacks
        PROVE  Len(triggers'[x]) \in Nat /\ Len(triggers[x]) \in Nat
    BY <1>3, <1>4
  <2> QED BY <1>1, <2>1, <2>2 DEF DualInv, OneHandover
<1>8. LteAnnounced'
  <2>1. CASE s = "lte"
    BY <1>1, <1>6, <2>1 DEF LteAnnounced, Scheduled
  <2>2. CASE s # "lte"
    BY <1>1, <1>4, <1>5, <2>2, CellFacts DEF DualInv, LteAnnounced, Scheduled
  <2> QED BY <2>1, <2>2
<1>9. RealMove'
  <2> SUFFICES ASSUME NEW x \in Stacks, starter[x] # Off
               PROVE  serving'[x] = None \/ candidate[x] # serving'[x]
    BY <1>1 DEF RealMove
  <2>1. CASE x = s
    BY <1>4, <1>5, <2>1 DEF DualInv, OneHandover
  <2>2. CASE x # s
    BY <1>5, <2>2 DEF DualInv, RealMove
  <2> QED BY <2>1, <2>2
<1>10. DecidesInTime'
  <2> SUFFICES ASSUME starter["nr"] # Off, Secondary(candidate["nr"])
               PROVE  /\ serving'["lte"] = Master[candidate["nr"]]
                      /\ starter["lte"] \in {Off, starter["nr"]}
                      /\ \A i \in DOMAIN triggers'["lte"] : triggers'["lte"][i] > starter["nr"]
    BY <1>1 DEF DecidesInTime, Secondary
  <2>1. /\ serving["lte"] = Master[candidate["nr"]]
        /\ starter["lte"] \in {Off, starter["nr"]}
        /\ \A i \in DOMAIN triggers["lte"] : triggers["lte"][i] > starter["nr"]
    BY DEF DualInv, DecidesInTime
  \* The LTE stack is not due before the NR stack has decided.
  <2>2. s # "lte"
    <3>1. starter["nr"] \in Nat
      BY <1>3, CellFacts
    <3> QED BY <2>1, <3>1, DoFacts
  <2> QED BY <1>4, <1>5, <2>1, <2>2, CellFacts
<1>11. MasterStays'
  <2> SUFFICES ASSUME triggers'["nr"] # << >>, Secondary(candidate["nr"])
               PROVE  /\ serving'["lte"] = Master[candidate["nr"]]
                      /\ starter["lte"] = Off /\ triggers'["lte"] = << >>
    BY <1>1 DEF MasterStays, Secondary, Scheduled
  <2>1. triggers["nr"] # << >>
    BY <1>4, CellFacts
  <2>2. serving["lte"] = Master[candidate["nr"]] /\ starter["lte"] = Off /\ triggers["lte"] = << >>
    BY <2>1 DEF DualInv, MasterStays, Scheduled
  <2>3. s # "lte"
    BY <1>4, <2>2
  <2> QED BY <1>4, <1>5, <2>2, <2>3, CellFacts
<1>12. UnderMaster'
  <2> SUFFICES ASSUME Secondary(serving'["nr"])
               PROVE  serving'["lte"] = Master[serving'["nr"]] /\ triggers'["lte"] = << >>
    BY DEF UnderMaster, Secondary
  <2>1. CASE s = "nr"
    <3>1. Secondary(candidate["nr"]) /\ serving'["nr"] = candidate["nr"]
      BY <1>5, <2>1 DEF Secondary
    <3>2. serving["lte"] = Master[candidate["nr"]] /\ triggers["lte"] = << >>
      BY <1>4, <2>1, <3>1 DEF DualInv, MasterStays, Scheduled
    <3> QED BY <1>4, <1>5, <2>1, <3>1, <3>2, CellFacts
  <2>2. CASE s = "lte"
    <3>1. serving'["nr"] = serving["nr"]
      BY <1>5, <2>2, CellFacts
    <3>2. Secondary(serving["nr"])
      BY <3>1 DEF Secondary
    <3> QED BY <1>4, <2>2, <3>2 DEF DualInv, UnderMaster
  <2> QED BY <2>1, <2>2 DEF Stacks
<1>13. BeaconsFirst'
  BY <1>1 DEF BeaconsFirst
<1> QED BY <1>7, <1>8, <1>9, <1>10, <1>11, <1>12, <1>13 DEF DualInv
-----------------------------------------------------------------------------
(***************************************************************************)
(* What a handover leaves in the Binder and in the packet holders.          *)
(***************************************************************************)

LEMMA InitHolders == HandoverAssumption /\ Init => HoldersKnow /\ ~failed
BY DEF Init, HoldersKnow, Moving

\* Nothing that the holders are compared with changes.
LEMMA HoldersStutter ==
  ASSUME HandoverAssumption, TypeOK, HoldersKnow,
         UNCHANGED <<serving, triggers, performing, holderVars, forcedMidway>>,
         \A s \in Stacks : Moving(s) => candidate'[s] = candidate[s]
  PROVE  HoldersKnow'
<1>1. \A s \in Stacks : /\ Moving(s)' <=> Moving(s)
                        /\ BetweenCells(s)' <=> BetweenCells(s)
                        /\ Moving(s) => candidate'[s] = candidate[s]
  BY DEF Moving, BetweenCells
<1>2. /\ forwarding \in SUBSET (Stacks \X Cells \X Cells)
      /\ holding \in SUBSET (Stacks \X Cells) /\ performing \in SUBSET Stacks
  BY DEF TypeOK, EntryTypes
<1> SUFFICES ASSUME ~forcedMidway
             PROVE  /\ \A f \in forwarding : BetweenCells(f[1])' /\ f[2] = serving[f[1]]
                    /\ \A h \in holding : BetweenCells(h[1])' /\ h[2] = candidate'[h[1]]
                    /\ \A s \in performing : Moving(s)'
                    /\ \A s \in Stacks :
                         ueServing[s] = IF Moving(s)' THEN candidate'[s] ELSE serving[s]
                    /\ ueHold => \E s \in Stacks : Moving(s)' /\ candidate'[s] # None
  BY DEF HoldersKnow, holderVars, Moving, BetweenCells
<1>3. \A f \in forwarding : f[1] \in Stacks
  BY <1>2
<1>4. \A h \in holding : h[1] \in Stacks
  BY <1>2
<1>5. \A f \in forwarding : BetweenCells(f[1])' /\ f[2] = serving[f[1]]
  BY <1>1, <1>3 DEF HoldersKnow
<1>6. \A h \in holding : BetweenCells(h[1])' /\ h[2] = candidate'[h[1]]
  BY <1>1, <1>4 DEF HoldersKnow, BetweenCells
<1>7. \A s \in performing : Moving(s)'
  BY <1>1, <1>2 DEF HoldersKnow
<1>8. \A s \in Stacks : ueServing[s] = IF Moving(s)' THEN candidate'[s] ELSE serving[s]
  BY <1>1 DEF HoldersKnow
<1>9. ueHold => \E s \in Stacks : Moving(s)' /\ candidate'[s] # None
  BY <1>1 DEF HoldersKnow
<1> QED BY <1>5, <1>6, <1>7, <1>8, <1>9

LEMMA TickHolders ==
  ASSUME HandoverAssumption, TypeOK, HoldersKnow, Tick
  PROVE  HoldersKnow'
<1>1. UNCHANGED <<serving, candidate, performing, holderVars, forcedMidway>>
  BY DEF Tick
<1>2. ASSUME NEW s \in Stacks PROVE Moving(s)' <=> Moving(s)
  <2>1. PICK d \in Nat :
          triggers' = [x \in Stacks |-> [i \in DOMAIN triggers[x] |-> triggers[x][i] - d]]
    BY TickFacts
  <2>2. triggers'[s] = [i \in DOMAIN triggers[s] |-> triggers[s][i] - d]
    BY <2>1
  <2>3. triggers[s] \in Seq(Nat) /\ triggers'[s] \in Seq(Nat)
    BY TickType DEF TypeOK, TimerTypes
  <2> QED BY <2>2, <2>3 DEF Moving
<1>3. \A s \in Stacks : BetweenCells(s)' <=> BetweenCells(s)
  BY <1>1, <1>2 DEF BetweenCells
<1>4. /\ \A f \in forwarding : f[1] \in Stacks
      /\ \A h \in holding : h[1] \in Stacks
      /\ performing \in SUBSET Stacks
  BY DEF TypeOK, EntryTypes
<1> QED BY <1>1, <1>2, <1>3, <1>4 DEF HoldersKnow, holderVars

LEMMA ForceHolders ==
  ASSUME HandoverAssumption, TypeOK, HoldersKnow, NEW s \in Stacks, ForceDetachment(s),
         UNCHANGED <<serving, servingRssi, beacons, turns>>
  PROVE  HoldersKnow'
<1>1. UNCHANGED <<handoverTriggered, triggers, pointer, performing, holderVars, failed>>
  BY DEF ForceDetachment
<1>2. /\ candidate' = [candidate EXCEPT !["nr"] = None]
      /\ forcedMidway' = (forcedMidway \/ triggers["nr"] # << >>)
  BY ForceFacts
<1>3. CASE forcedMidway'
  BY <1>3 DEF HoldersKnow
<1>4. CASE ~forcedMidway'
  <2>1. ~forcedMidway /\ forcedMidway \in BOOLEAN /\ triggers["nr"] = << >>
    BY <1>2, <1>4 DEF TypeOK, TurnTypes
  <2>2. UNCHANGED forcedMidway
    BY <1>2, <2>1
  <2>3. \A x \in Stacks : Moving(x) => candidate'[x] = candidate[x]
    BY <1>2, <2>1 DEF TypeOK, NodeTypes, Moving
  <2> QED BY <1>1, <2>2, <2>3, HoldersStutter
<1> QED BY <1>3, <1>4

LEMMA StartHolders ==
  ASSUME HandoverAssumption, TypeOK, DualInv, HoldersKnow, NEW s \in Stacks, StartHandover(s),
         starter[s] = 0, UNCHANGED <<serving, servingRssi, beacons, turns>>
  PROVE  HoldersKnow'
<1>1. UNCHANGED <<serving, candidate, forcedMidway>>
  BY DEF StartHandover
<1>2. ASSUME NEW x \in Stacks PROVE Moving(x)' <=> (Moving(x) \/ x = s)
  <2>1. PICK l \in Nat : triggers' = [triggers EXCEPT ![s] = Append(@, l)]
    <3>1. (IF serving[s] # None THEN DetachmentTime ELSE 0)
          + (IF candidate[s] # None \/ serving[s] = None THEN AttachmentTime ELSE 0) \in Nat
      BY DEF HandoverAssumption
    <3> QED BY <3>1 DEF StartHandover
  <2>2. triggers[s] \in Seq(Nat) /\ triggers \in [Stacks -> Seq(Nat)]
    BY DEF TypeOK, TimerTypes
  <2>3. Append(triggers[s], l) # << >>
    BY <2>2, LenFacts
  <2> QED BY <2>1, <2>2, <2>3 DEF Moving
<1> SUFFICES ASSUME ~forcedMidway
             PROVE  /\ \A f \in forwarding' : BetweenCells(f[1])' /\ f[2] = serving[f[1]]
                    /\ \A h \in holding' : BetweenCells(h[1])' /\ h[2] = candidate[h[1]]
                    /\ \A x \in performing' : Moving(x)'
                    /\ \A x \in Stacks :
                         ueServing'[x] = IF Moving(x)' THEN candidate[x] ELSE serving[x]
                    /\ ueHold' => \E x \in Stacks : Moving(x)' /\ candidate[x] # None
  BY <1>1 DEF HoldersKnow, Moving, BetweenCells
<1>3. ASSUME NEW x \in Stacks, BetweenCells(x) PROVE BetweenCells(x)'
  BY <1>1, <1>2, <1>3 DEF BetweenCells
<1>4. ASSUME serving[s] # None, candidate[s] # None PROVE BetweenCells(s)'
  BY <1>1, <1>2, <1>4 DEF BetweenCells
<1>5. /\ \A f \in forwarding : f[1] \in Stacks
      /\ \A h \in holding : h[1] \in Stacks
      /\ performing \in SUBSET Stacks
  BY DEF TypeOK, EntryTypes
<1>6. \/ UNCHANGED <<forwarding, holding>>
      \/ /\ serving[s] # None /\ candidate[s] # None
         /\ forwarding' = {f \in forwarding : <<f[1], f[2]>> # <<s, serving[s]>>}
                          \cup {<<s, serving[s], candidate[s]>>}
         /\ holding' = holding \cup {<<s, candidate[s]>>}
  BY DEF StartHandover
<1>7. ASSUME NEW f \in forwarding' PROVE BetweenCells(f[1])' /\ f[2] = serving[f[1]]
  <2>1. CASE f \in forwarding
    BY <1>3, <1>5, <2>1 DEF HoldersKnow
  <2>2. CASE f \notin forwarding
    BY <1>4, <1>6, <2>2
  <2> QED BY <2>1, <2>2
<1>8. ASSUME NEW h \in holding' PROVE BetweenCells(h[1])' /\ h[2] = candidate[h[1]]
  <2>1. CASE h \in holding
    BY <1>3, <1>5, <2>1 DEF HoldersKnow
  <2>2. CASE h \notin holding
    BY <1>4, <1>6, <2>2
  <2> QED BY <2>1, <2>2
<1>9. \A x \in performing' : Moving(x)'
  <2>1. performing' = performing \cup {s}
    BY DEF StartHandover
  <2> QED BY <1>2, <1>5, <2>1 DEF HoldersKnow
<1>10. \A x \in Stacks : ueServing'[x] = IF Moving(x)' THEN candidate[x] ELSE serving[x]
  <2>1. ueServing' = [ueServing EXCEPT ![s] = candidate[s]]
    BY DEF StartHandover
  <2> QED BY <1>2, <2>1 DEF HoldersKnow, TypeOK, NodeTypes
<1>11. ueHold' => \E x \in Stacks : Moving(x)' /\ candidate[x] # None
  <2>1. ueHold' = (ueHold \/ candidate[s] # None)
    BY DEF StartHandover
  <2> QED BY <1>2, <2>1 DEF HoldersKnow
<1> QED BY <1>7, <1>8, <1>9, <1>10, <1>11

LEMMA DoHolders ==
  ASSUME HandoverAssumption, TypeOK, DualInv, HoldersKnow, NEW s \in Stacks, DoHandover(s)
  PROVE  HoldersKnow'
<1>1. UNCHANGED <<candidate, ueServing, forcedMidway>>
  BY DEF DoHandover
<1> SUFFICES ASSUME ~forcedMidway
             PROVE  /\ \A f \in forwarding' : BetweenCells(f[1])' /\ f[2] = serving'[f[1]]
                    /\ \A h \in holding' : BetweenCells(h[1])' /\ h[2] = candidate[h[1]]
                    /\ \A x \in performing' : Moving(x)'
                    /\ \A x \in Stacks :
                         ueServing[x] = IF Moving(x)' THEN candidate[x] ELSE serving'[x]
                    /\ ueHold' => \E x \in Stacks : Moving(x)' /\ candidate[x] # None
  BY <1>1 DEF HoldersKnow, Moving, BetweenCells
<1>2. /\ triggers[s] # << >> /\ triggers' \in [Stacks -> Seq(Nat)]
      /\ Len(triggers'[s]) = Len(triggers[s]) - 1
      /\ \A x \in Stacks : x # s => triggers'[x] = triggers[x]
  BY DoFacts
\* The handover that ends is the only one of its stack.
<1>3. triggers'[s] = << >>
  <2>1. triggers[s] \in Seq(Nat) /\ triggers'[s] \in Seq(Nat)
    BY <1>2 DEF TypeOK, TimerTypes
  <2>2. Len(triggers[s]) = 1
    BY <1>2, <2>1, LenOne DEF DualInv, OneHandover
  <2>3. Len(triggers'[s]) = 0
    BY <1>2, <2>2
  <2> QED BY <2>1, <2>3, LenFacts
<1>4. /\ serving' = [serving EXCEPT ![s] = candidate[s]]
      /\ serving \in [Stacks -> Cells \cup {None}]
  BY DEF DoHandover, TypeOK, NodeTypes
<1>5. Moving(s) /\ ~Moving(s)'
  BY <1>2, <1>3 DEF Moving
<1>6. ASSUME NEW x \in Stacks, x # s
      PROVE  /\ Moving(x)' <=> Moving(x)
             /\ serving'[x] = serving[x]
             /\ BetweenCells(x)' <=> BetweenCells(x)
  BY <1>1, <1>2, <1>4, <1>6 DEF Moving, BetweenCells
<1>7. /\ \A f \in forwarding : f[1] \in Stacks
      /\ \A h \in holding : h[1] \in Stacks
      /\ performing \in SUBSET Stacks
  BY DEF TypeOK, EntryTypes
<1>8. IF serving[s] # None /\ candidate[s] # None
      THEN /\ forwarding' = {f \in forwarding : <<f[1], f[2]>> # <<s, serving[s]>>}
           /\ holding' = holding \ {<<s, candidate[s]>>}
      ELSE UNCHANGED <<forwarding, holding>>
  BY Zenon DEF DoHandover, SignalHandoverComplete
<1>9. ASSUME NEW f \in forwarding' PROVE BetweenCells(f[1])' /\ f[2] = serving'[f[1]]
  <2>1. f \in forwarding /\ BetweenCells(f[1]) /\ f[2] = serving[f[1]] /\ f[1] \in Stacks
    BY <1>7, <1>8 DEF HoldersKnow
  <2>2. f[1] # s
    BY <1>8, <2>1 DEF BetweenCells
  <2> QED BY <1>6, <2>1, <2>2
<1>10. ASSUME NEW h \in holding' PROVE BetweenCells(h[1])' /\ h[2] = candidate[h[1]]
  <2>1. h \in holding /\ BetweenCells(h[1]) /\ h[2] = candidate[h[1]] /\ h[1] \in Stacks
    BY <1>7, <1>8 DEF HoldersKnow
  <2>2. h = <<h[1], h[2]>>
    BY <2>1 DEF TypeOK, EntryTypes
  <2>3. h[1] # s
    BY <1>8, <2>1, <2>2 DEF BetweenCells
  <2> QED BY <1>6, <2>1, <2>3
<1>11. \A x \in performing' : Moving(x)'
  <2>1. performing' = performing \ {s}
    BY DEF DoHandover
  <2> QED BY <1>6, <1>7, <2>1 DEF HoldersKnow
<1>12. ASSUME NEW x \in Stacks
       PROVE  ueServing[x] = IF Moving(x)' THEN candidate[x] ELSE serving'[x]
  <2>1. CASE x = s
    BY <1>4, <1>5, <2>1 DEF HoldersKnow
  <2>2. CASE x # s
    BY <1>6, <2>2 DEF HoldersKnow
  <2> QED BY <2>1, <2>2
<1>13. ueHold' => \E x \in Stacks : Moving(x)' /\ candidate[x] # None
  <2> SUFFICES ASSUME ueHold' PROVE \E x \in Stacks : Moving(x)' /\ candidate[x] # None
    OBVIOUS
  <2>1. ueHold /\ ueServing[s] = None
    BY DEF DoHandover
  <2>2. candidate[s] = None
    BY <1>5, <2>1 DEF HoldersKnow
  <2>3. PICK x \in Stacks : Moving(x) /\ candidate[x] # None
    BY <2>1 DEF HoldersKnow
  <2> QED BY <1>6, <2>2, <2>3
<1> QED BY <1>9, <1>10, <1>11, <1>12, <1>13
-----------------------------------------------------------------------------
(***************************************************************************)
(* The theorems.                                                            *)
(***************************************************************************)

LEMMA TriggerStep ==
  ASSUME HandoverAssumption, IInv, NEW s \in Stacks, TriggerHandover(s)
  PROVE  IInv'
<1>1. /\ beacons = {} /\ starter[s] = 0 /\ UNCHANGED <<serving, servingRssi, beacons, turns>>
      /\ TypeOK /\ DualInv /\ HoldersKnow /\ ~failed
  BY DEF TriggerHandover, IInv
<1>2. CASE DelayOrCancel(s)
  <2>1. TypeOK' /\ DualInv'
    BY <1>1, <1>2, CancelType, CancelDual
  <2>2. UNCHANGED <<candidate, triggers, performing, holderVars, failed, forcedMidway>>
    BY <1>2 DEF DelayOrCancel
  <2>3. HoldersKnow'
    BY <1>1, <2>2, HoldersStutter
  <2> QED BY <1>1, <2>1, <2>2, <2>3 DEF IInv
<1>3. CASE ForceDetachment(s)
  <2>1. TypeOK' /\ DualInv' /\ HoldersKnow'
    BY <1>1, <1>3, ForceType, ForceDual, ForceHolders
  <2>2. ~failed'
    BY <1>1, <1>3 DEF ForceDetachment
  <2> QED BY <2>1, <2>2 DEF IInv
<1>4. CASE StartHandover(s)
  BY <1>1, <1>4, StartType, StartDual, StartHolders DEF IInv
<1> QED BY <1>2, <1>3, <1>4 DEF TriggerHandover

LEMMA Invariance == Spec => []IInv
<1>1. Init => IInv
  BY HandoverAssumption, InitType, InitDual, InitHolders DEF IInv
<1>2. IInv /\ [Next]_vars => IInv'
  <2> SUFFICES ASSUME IInv, [Next]_vars PROVE IInv'
    OBVIOUS
  <2>0. HandoverAssumption /\ TypeOK /\ DualInv /\ HoldersKnow /\ ~failed
    BY HandoverAssumption DEF IInv
  <2>1. CASE BeaconTurn
    <3>1. /\ UNCHANGED <<serving, triggers, performing, holderVars, forcedMidway, failed>>
          /\ UNCHANGED candidate
      BY <2>1 DEF BeaconTurn, controllerVars
    <3>2. HoldersKnow'
      BY <2>0, <3>1, HoldersStutter
    <3>3. TypeOK' /\ DualInv'
      BY <2>0, <2>1, BeaconTurnType, BeaconTurnDual
    <3> QED BY <2>0, <3>1, <3>2, <3>3 DEF IInv
  <2>2. CASE Tick
    <3>1. UNCHANGED failed
      BY <2>2 DEF Tick
    <3> QED BY <2>0, <2>2, <3>1, TickType, TickDual, TickHolders DEF IInv
  <2>3. ASSUME NEW s \in Stacks, NEW c \in CellsOf(s), NEW r \in Rssi, BeaconReceived(s, c, r)
        PROVE  IInv'
    <3>1. /\ UNCHANGED <<serving, triggers, performing, holderVars, forcedMidway, failed>>
          /\ beacons # {}
      BY <2>0, <2>3, BeaconFacts
    <3>2. \A x \in Stacks : Moving(x) => candidate'[x] = candidate[x]
      BY <2>0, <3>1 DEF DualInv, BeaconsFirst, Moving
    <3>3. HoldersKnow'
      BY <2>0, <3>1, <3>2, HoldersStutter
    <3>4. TypeOK' /\ DualInv'
      BY <2>0, <2>3, BeaconType, BeaconDual
    <3> QED BY <2>0, <3>1, <3>3, <3>4 DEF IInv
  <2>4. ASSUME NEW s \in Stacks, TriggerHandover(s) PROVE IInv'
    BY <2>0, <2>4, TriggerStep
  <2>5. ASSUME NEW s \in Stacks, DoHandover(s) PROVE IInv'
    <3>1. UNCHANGED failed
      BY <2>5 DEF DoHandover
    <3>2. TypeOK' /\ DualInv' /\ HoldersKnow'
      BY <2>0, <2>5, DoType, DoDual, DoHolders
    <3> QED BY <2>0, <3>1, <3>2 DEF IInv
  <2>6. CASE UNCHANGED vars
    <3>1. UNCHANGED <<serving, candidate, servingRssi, candidateRssi, hysteresis, starter,
                      triggers, pointer, handoverTriggered, performing, ueHold, ueServing,
                      forwarding, holding, beacons, turns, failed, forcedMidway>>
      BY <2>6 DEF vars, controllerVars, holderVars
    <3> QED BY <2>0, <3>1
            DEF IInv, TypeOK, NodeTypes, RssiTypes, TimerTypes, EntryTypes, TurnTypes, DualInv,
                BeaconsFirst, OneHandover, LteAnnounced, RealMove, DecidesInTime, MasterStays,
                UnderMaster, HoldersKnow, Scheduled, Moving, BetweenCells, Secondary
  <2> QED BY <2>1, <2>2, <2>3, <2>4, <2>5, <2>6 DEF Next
<1> QED BY <1>1, <1>2, PTL DEF Spec

\* Every variable keeps its type, whatever the cells, the delays and the
\* signals: no timer passes zero, and a stack is only attached to, moving to
\* or held at cells of its own technology.
THEOREM TypeCorrect == Spec => []TypeOK
<1>1. IInv => TypeOK
  BY DEF IInv
<1> QED BY <1>1, Invariance, PTL

\* For every topology of masters and secondary nodes, all delays and all
\* signals: when the handovers of a turn are over, the NR stack is attached to
\* a secondary node only if the LTE stack is attached to its master.
THEOREM NeverUnderAnotherMaster == Spec => []SecondaryUnderMaster
<1>1. IInv => SecondaryUnderMaster
  BY HandoverAssumption, CellFacts
     DEF IInv, TypeOK, NodeTypes, DualInv, UnderMaster, SecondaryUnderMaster, Secondary, MasterNodeOrSelf
<1> QED BY <1>1, Invariance, PTL

\* ... and a handover that was not overtaken by a forced one has left nothing
\* in the Binder or in a packet holder; no stack ever hands over to the cell
\* that serves it already.
THEOREM HandoversLeaveNothing == Spec => []HandoverStateEndsUnlessForced
<1>1. IInv => HandoverStateEndsUnlessForced
  <2> SUFFICES ASSUME IInv, ~forcedMidway, AtRest PROVE HandoverStateEnds
    BY DEF IInv, HandoverStateEndsUnlessForced, HandoverStateEnds
  <2>1. \A s \in Stacks : ~Moving(s) /\ ~BetweenCells(s)
    BY DEF AtRest, Scheduled, Moving, BetweenCells
  <2>2. /\ \A f \in forwarding : f[1] \in Stacks
        /\ \A h \in holding : h[1] \in Stacks
        /\ performing \in SUBSET Stacks
    BY DEF IInv, TypeOK, EntryTypes
  <2>3. forwarding = {} /\ holding = {} /\ performing = {} /\ ~ueHold
    BY <2>1, <2>2 DEF IInv, HoldersKnow
  <2>4. ueServing = serving
    BY <2>1 DEF IInv, HoldersKnow, TypeOK, NodeTypes
  <2> QED BY <2>3, <2>4 DEF HandoverStateEnds
<1> QED BY <1>1, Invariance, PTL
=============================================================================
