------------------------- MODULE HandoverController -------------------------
(***************************************************************************)
(* The two HandoverController modules of a UE with an LTE and an NR stack    *)
(* (both with NrPhyUe, see NrNicUe.ned), and what they keep in the Binder    *)
(* and in the packet holders.  In dual connectivity an NR cell may be the    *)
(* secondary node of an LTE cell, its master: the NR stack may be attached   *)
(* to it only while the LTE stack is attached to the master.                 *)
(* Time: each timer holds the time left until it fires.  All base stations   *)
(* broadcast their beacons at the same instant, once per beaconInterval.     *)
(* The commands between base stations take effect at once here; X2Handover   *)
(* models them with their delays.                                            *)
(***************************************************************************)
EXTENDS Integers, Sequences

CONSTANTS
  LteCells, NrCells,   \* the eNodeBs and the gNodeBs
  None,                \* NODEID_NONE
  Master,              \* cell -> its master, or itself
  Rssi,                \* the values a beacon's RSSI may take
  MinRssi,             \* minRssi_
  HysteresisFactor,    \* hysteresisFactor_
  Delta,               \* handoverDelta_
  DetachmentTime,      \* handoverDetachmentTime_
  AttachmentTime,      \* handoverAttachmentTime_
  MaxTurns             \* bound on turns of beacons

Stacks == {"lte", "nr"}
Other(s) == IF s = "lte" THEN "nr" ELSE "lte"
CellsOf(s) == IF s = "lte" THEN LteCells ELSE NrCells
Cells == LteCells \cup NrCells

ASSUME HandoverAssumption ==
  /\ LteCells \cap NrCells = {} /\ None \notin Cells
  /\ Master \in [Cells -> Cells]
  /\ \A c \in LteCells : Master[c] = c
  /\ Rssi \subseteq Int /\ MinRssi \in Int /\ HysteresisFactor \in Nat
  /\ Delta \in Nat /\ DetachmentTime \in Nat /\ AttachmentTime \in Nat
  /\ 0 < Delta /\ Delta < DetachmentTime /\ Delta < AttachmentTime
  /\ MaxTurns \in Nat

Off == -1           \* a timer that is not scheduled
VeryBad == -999     \* the RSSI of no candidate

VARIABLES
  \* of the controllers, a value for each stack
  serving, candidate, servingRssi, candidateRssi, hysteresis,
  starter,      \* handoverStarter_: the time left, or Off
  triggers,     \* the handoverTrigger messages that are scheduled: times left
  pointer,      \* handoverTrigger_ is not null (then its message is scheduled)
  \* of the Binder
  handoverTriggered,   \* stack -> <<from, to>>, or << >> if there is no entry
  performing,          \* ueHandoverTriggered_
  \* of the packet holders
  ueHold,       \* ueHold_, one flag for both stacks
  ueServing,    \* stack -> servingNodeId_, nrServingNodeId_
  forwarding,   \* <<stack, from, to>>: the entries of hoForwarding_
  holding,      \* <<stack, cell>>: the entries of hoHolding_
  \* the environment, and the assertion of triggerHandover
  beacons,      \* <<stack, cell>>: beacons of this turn yet to be received
  turns, failed,
  forcedMidway  \* history: a handover in progress was overtaken by forceHandover

controllerVars == <<serving, candidate, servingRssi, candidateRssi, hysteresis,
                    starter, triggers, pointer>>
holderVars == <<ueHold, ueServing, forwarding, holding>>
vars == <<controllerVars, handoverTriggered, performing, holderVars, beacons, turns, failed, forcedMidway>>

MasterNodeOrSelf(c) == IF c = None THEN None ELSE Master[c]
Hysteresis(rssi) == IF HysteresisFactor = 0 THEN 0 ELSE rssi \div HysteresisFactor
Scheduled(s) == starter[s] # Off \/ triggers[s] # << >>
AtRest == beacons = {} /\ \A s \in Stacks : ~Scheduled(s)
-----------------------------------------------------------------------------
\* The UE starts attached to the best cells, or to none.
Init ==
  /\ serving \in [Stacks -> Cells \cup {None}]
  /\ \A s \in Stacks : serving[s] \in CellsOf(s) \cup {None}
  /\ MasterNodeOrSelf(serving["nr"]) \in {serving["nr"], serving["lte"]}
  /\ candidate = serving
  /\ servingRssi = [s \in Stacks |-> VeryBad] /\ candidateRssi = servingRssi
  /\ hysteresis = [s \in Stacks |-> 0]
  /\ starter = [s \in Stacks |-> Off] /\ triggers = [s \in Stacks |-> << >>]
  /\ pointer = [s \in Stacks |-> FALSE]
  /\ handoverTriggered = [s \in Stacks |-> << >>] /\ performing = {}
  /\ ueHold = FALSE /\ ueServing = serving
  /\ forwarding = {} /\ holding = {}
  /\ beacons = {} /\ turns = 0 /\ failed = FALSE /\ forcedMidway = FALSE

\* A turn of beacons.  A turn is over, with all it started, before the next:
\* beaconInterval is 1 s, a handover with all its delays takes 0.1 s.
BeaconTurn ==
  /\ AtRest /\ turns < MaxTurns
  /\ turns' = turns + 1
  /\ beacons' = {b \in Stacks \X Cells : b[2] \in CellsOf(b[1])}
  /\ UNCHANGED <<controllerVars, handoverTriggered, performing, holderVars, failed, forcedMidway>>

Due(s) == starter[s] = 0 \/ \E i \in DOMAIN triggers[s] : triggers[s][i] = 0
Remaining ==
  (UNION {{starter[s]} \cup {triggers[s][i] : i \in DOMAIN triggers[s]} : s \in Stacks}) \ {Off}

\* Time passes until the next event.
Tick ==
  /\ beacons = {} /\ Remaining # {} /\ \A s \in Stacks : ~Due(s)
  /\ LET d == CHOOSE m \in Remaining : \A r \in Remaining : m <= r
     IN /\ starter' = [s \in Stacks |-> IF starter[s] = Off THEN Off ELSE starter[s] - d]
        /\ triggers' = [s \in Stacks |-> [i \in DOMAIN triggers[s] |-> triggers[s][i] - d]]
  /\ UNCHANGED <<serving, candidate, servingRssi, candidateRssi, hysteresis, pointer,
                 handoverTriggered, performing, holderVars, beacons, turns, failed, forcedMidway>>
-----------------------------------------------------------------------------
(* beaconReceived.                                                         *)

\* A beacon is ignored during a handover, and from a secondary node whose
\* master does not serve the other stack.
Ignored(s, c) ==
  \/ pointer[s]
  \/ Master[c] # c /\ serving[Other(s)] # Master[c]

SetCandidate(s, c, rssi) ==
  /\ candidate' = [candidate EXCEPT ![s] = c]
  /\ candidateRssi' = [candidateRssi EXCEPT ![s] = rssi]

\* The candidate is announced to the other stack and evaluated after Delta.
Announce(s, c) ==
  /\ handoverTriggered' = [handoverTriggered EXCEPT ![s] = <<serving[s], c>>]
  /\ starter' = [starter EXCEPT ![s] = IF @ = Off THEN Delta ELSE @]

\* A stronger signal of the serving cell: the candidate is dropped.
ServingStronger(s, rssi) ==
  /\ SetCandidate(s, serving[s], rssi)
  /\ servingRssi' = [servingRssi EXCEPT ![s] = rssi]
  /\ hysteresis' = [hysteresis EXCEPT ![s] = Hysteresis(rssi)]
  /\ starter' = [starter EXCEPT ![s] = Off]
  /\ UNCHANGED handoverTriggered

\* A stronger signal of another cell.
CandidateStronger(s, c, rssi) ==
  /\ SetCandidate(s, c, rssi)
  /\ hysteresis' = [hysteresis EXCEPT ![s] = Hysteresis(rssi)]
  /\ Announce(s, c)
  /\ UNCHANGED servingRssi

\* The serving cell, not stronger than the candidate.
ServingNotStronger(s, rssi) ==
  \/ /\ rssi >= MinRssi
     /\ servingRssi' = [servingRssi EXCEPT ![s] = rssi]
     /\ candidateRssi' = [candidateRssi EXCEPT ![s] = rssi]
     /\ hysteresis' = [hysteresis EXCEPT ![s] = Hysteresis(rssi)]
     /\ UNCHANGED <<candidate, starter, handoverTriggered>>
  \/ /\ rssi < MinRssi /\ candidate[s] = serving[s]      \* connection lost
     /\ SetCandidate(s, None, VeryBad)
     /\ servingRssi' = [servingRssi EXCEPT ![s] = VeryBad]
     /\ hysteresis' = [hysteresis EXCEPT ![s] = Hysteresis(0)]
     /\ Announce(s, None)
  \/ /\ rssi < MinRssi /\ candidate[s] # serving[s]      \* a better one was found
     /\ UNCHANGED <<candidate, candidateRssi, servingRssi, hysteresis, starter, handoverTriggered>>

BeaconReceived(s, c, rssi) ==
  /\ <<s, c>> \in beacons /\ ~failed
  /\ beacons' = beacons \ {<<s, c>>}
  /\ LET tooWeak == c # serving[s] /\ rssi < MinRssi
         stronger == rssi > candidateRssi[s] + hysteresis[s]
     IN CASE Ignored(s, c) \/ tooWeak \/ (~stronger /\ c # serving[s]) ->
               UNCHANGED <<candidate, candidateRssi, servingRssi, hysteresis, starter,
                           handoverTriggered>>
          [] ~Ignored(s, c) /\ stronger /\ c = serving[s] -> ServingStronger(s, rssi)
          [] ~Ignored(s, c) /\ ~tooWeak /\ stronger /\ c # serving[s] -> CandidateStronger(s, c, rssi)
          [] ~Ignored(s, c) /\ ~stronger /\ c = serving[s] -> ServingNotStronger(s, rssi)
  /\ UNCHANGED <<serving, triggers, pointer, performing, holderVars, turns, failed, forcedMidway>>
-----------------------------------------------------------------------------
(* triggerHandover: the handoverStarter of stack s fires.                  *)

\* The candidate is a secondary node and its master, which serves the other
\* stack, is about to be left: the handover is delayed or cancelled.
MasterIsLeft(s) ==
  /\ MasterNodeOrSelf(candidate[s]) # candidate[s]
  /\ serving[Other(s)] = MasterNodeOrSelf(candidate[s])
  /\ handoverTriggered[Other(s)] # << >>

\* Mutant: a secondary node is never detached first.
NobodyToDetach(s) == FALSE
\* The other stack is attached to a secondary node of the cell that is left.
SecondaryIsLeft(s) ==
  LET o == serving[Other(s)] IN o # None /\ MasterNodeOrSelf(o) = serving[s]

DelayOrCancel(s) ==
  LET pair == handoverTriggered[Other(s)]
  IN /\ MasterIsLeft(s)
     /\ IF pair[2] = candidate[s]
        THEN /\ starter' = [starter EXCEPT ![s] =
                  Delta + AttachmentTime + IF pair[1] # None THEN DetachmentTime ELSE 0]
             /\ UNCHANGED handoverTriggered
        ELSE /\ starter' = [starter EXCEPT ![s] = Off]
             /\ handoverTriggered' = [handoverTriggered EXCEPT ![s] = << >>]
     /\ UNCHANGED <<candidate, candidateRssi, hysteresis, triggers, pointer, performing,
                    holderVars, failed, forcedMidway>>

\* The secondary node is left first: forceHandover of the other stack, and this
\* one waits.
ForceDetachment(s) ==
  /\ ~MasterIsLeft(s) /\ SecondaryIsLeft(s)
  /\ LET o == Other(s)
     IN /\ starter' = [starter EXCEPT ![s] = DetachmentTime + Delta, ![o] = 0]
        /\ SetCandidate(o, None, 0)
        /\ hysteresis' = [hysteresis EXCEPT ![o] = Hysteresis(servingRssi[o])]
        /\ forcedMidway' = (forcedMidway \/ triggers[o] # << >>)
  /\ UNCHANGED <<handoverTriggered, triggers, pointer, performing, holderVars, failed>>

\* The UE's holder is told, the source told to forward, the completion scheduled.
StartHandover(s) ==
  LET from == serving[s]  to == candidate[s]
      latency == (IF from # None THEN DetachmentTime ELSE 0)
                 + IF to # None \/ from = None THEN AttachmentTime ELSE 0
  IN /\ ~MasterIsLeft(s) /\ ~SecondaryIsLeft(s)
     /\ failed' = (from # None /\ from = to)   \* "never hand over to ourselves"
     /\ starter' = [starter EXCEPT ![s] = Off]
     /\ performing' = performing \cup {s}
     /\ ueServing' = [ueServing EXCEPT ![s] = to] /\ ueHold' = (ueHold \/ to # None)
     /\ IF from # None /\ to # None
        THEN /\ forwarding' = {f \in forwarding : <<f[1], f[2]>> # <<s, from>>} \cup {<<s, from, to>>}
             /\ holding' = holding \cup {<<s, to>>}
        ELSE UNCHANGED <<forwarding, holding>>
     /\ triggers' = [triggers EXCEPT ![s] = Append(@, latency)]
     /\ pointer' = [pointer EXCEPT ![s] = TRUE]
     /\ UNCHANGED <<candidate, candidateRssi, hysteresis, handoverTriggered, forcedMidway>>

TriggerHandover(s) ==
  /\ beacons = {} /\ ~failed
  /\ starter[s] = 0
  /\ DelayOrCancel(s) \/ ForceDetachment(s) \/ StartHandover(s)
  /\ UNCHANGED <<serving, servingRssi, beacons, turns>>
-----------------------------------------------------------------------------
\* Mutant: the source is not told.
KeepForwarding(s, from, to) ==
  /\ holding' = holding \ {<<s, to>>}
  /\ UNCHANGED forwarding

\* signalHandoverCompleteTarget, and signalHandoverCompleteSource at its peer.
SignalHandoverComplete(s, from, to) ==
  IF from # None /\ to # None
  THEN /\ forwarding' = {f \in forwarding : <<f[1], f[2]>> # <<s, from>>}
       /\ holding' = holding \ {<<s, to>>}
  ELSE UNCHANGED <<forwarding, holding>>

\* doHandover: a handoverTrigger message of stack s fires.
DoHandover(s) ==
  /\ beacons = {} /\ ~failed
  /\ \E i \in DOMAIN triggers[s] :
       /\ triggers[s][i] = 0
       /\ triggers' = [triggers EXCEPT ![s] = SubSeq(@, 1, i - 1) \o SubSeq(@, i + 1, Len(@))]
  /\ pointer' = [pointer EXCEPT ![s] = FALSE]
  /\ serving' = [serving EXCEPT ![s] = candidate[s]]
  /\ servingRssi' = [servingRssi EXCEPT ![s] = candidateRssi[s]]
  /\ hysteresis' = [hysteresis EXCEPT ![s] = Hysteresis(candidateRssi[s])]
  /\ performing' = performing \ {s}
  /\ handoverTriggered' = [handoverTriggered EXCEPT ![s] = << >>]
  /\ ueHold' = (ueHold /\ ueServing[s] = None)
  /\ SignalHandoverComplete(s, serving[s], candidate[s])
  /\ UNCHANGED <<candidate, candidateRssi, starter, ueServing, beacons, turns, failed,
                 forcedMidway>>

Next ==
  \/ BeaconTurn \/ Tick
  \/ \E s \in Stacks : \/ \E c \in CellsOf(s), r \in Rssi : BeaconReceived(s, c, r)
                       \/ TriggerHandover(s)
                       \/ DoHandover(s)

Spec == Init /\ [][Next]_vars
-----------------------------------------------------------------------------
\* Dual connectivity: when all handovers of a turn are over, the NR stack is
\* attached to a secondary node only if the LTE stack is attached to its
\* master, whatever the two stacks decided in the same turn.
SecondaryUnderMaster ==
  AtRest => MasterNodeOrSelf(serving["nr"]) \in {serving["nr"], serving["lte"]}

\* No handover leaves anything of itself behind: no cell forwards or holds, the
\* UE holds no packets and its holder knows the cells that serve it, and the
\* Binder no longer counts the UE as handing over.
HandoverStateEnds ==
  AtRest => /\ forwarding = {} /\ holding = {} /\ performing = {}
            /\ ~ueHold /\ ueServing = serving

\* ... unless a handover was forced while another was in progress; and the
\* assertion of triggerHandover holds: when it is evaluated, the candidate has
\* not become the serving cell.
HandoverStateEndsUnlessForced == ~failed /\ (~forcedMidway => HandoverStateEnds)
=============================================================================
