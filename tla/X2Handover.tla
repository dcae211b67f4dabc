----------------------------- MODULE X2Handover -----------------------------
(***************************************************************************)
(* The data path of a handover of one UE: HandoverPacketHolderEnb at each   *)
(* base station, HandoverPacketHolderUe, HandoverX2Forwarder and            *)
(* LteX2Manager between the base stations, and the core network that        *)
(* tunnels downlink packets to the station that the Binder names.           *)
(* HandoverController starts a handover (TriggerHandover) and completes it  *)
(* a latency later (DoHandover); which cell it picks is a free choice here. *)
(* Packets are numbered in the order in which they were sent.               *)
(***************************************************************************)
EXTENDS Naturals, Sequences, SequencesExt, FiniteSets

CONSTANTS
  Cells,         \* the base stations
  None,          \* NODEID_NONE
  MaxDl,         \* bound on downlink packets
  MaxUl,         \* bound on uplink packets
  MaxHandovers   \* bound on handovers

ASSUME X2HandoverAssumption ==
  /\ None \notin Cells
  /\ MaxDl \in Nat /\ MaxUl \in Nat /\ MaxHandovers \in Nat

VARIABLES
  serving,      \* servingNodeId_ of the controller; Binder::servingNode_ of the UE
  candidate,    \* candidateServingNodeId_
  trigger,      \* handoverTrigger_ is scheduled
  forwarding,   \* cell -> hoForwarding_ of the UE, None if there is no entry
  holding,      \* the cells whose hoHolding_ has the UE
  fromX2,       \* cell -> hoFromX2_ of the UE
  fromIp,       \* cell -> hoFromIp_ of the UE
  ueServing,    \* servingNodeId_ of the UE's packet holder
  ueHold,       \* ueHold_
  ueHeld,       \* ueHoldFromIp_
  tunnel,       \* cell -> packets in the GTP tunnel from the core to it
  x2Control,    \* <<from, to>> -> commands in the X2 (SCTP) connection
  x2Data,       \* <<from, to>> -> packets in the X2 GTP tunnel
  dl,           \* downlink history, see Init
  ul,           \* uplink history, see Init
  handovers     \* handovers started

enbVars == <<forwarding, holding, fromX2, fromIp>>
ueVars == <<ueServing, ueHold, ueHeld>>
channels == <<tunnel, x2Control, x2Data>>
controllerVars == <<serving, candidate, trigger, handovers>>
vars == <<controllerVars, enbVars, ueVars, channels, dl, ul>>

Pairs == {p \in Cells \X Cells : p[1] # p[2]}
NoPackets == [c \in Cells |-> << >>]
-----------------------------------------------------------------------------
Init ==
  /\ serving \in Cells \cup {None} /\ candidate = serving
  /\ trigger = FALSE /\ handovers = 0
  /\ forwarding = [c \in Cells |-> None] /\ holding = {}
  /\ fromX2 = NoPackets /\ fromIp = NoPackets
  /\ ueServing = serving /\ ueHold = FALSE /\ ueHeld = << >>
  /\ tunnel = NoPackets
  /\ x2Control = [p \in Pairs |-> << >>] /\ x2Data = [p \in Pairs |-> << >>]
  \* sent: packets sent so far; down: handed to the stack, in order; removed:
  \* deleted; late: under way when a handover completed; astray: handed to the
  \* stack of a cell that does not serve the UE
  /\ dl = [sent |-> 0, down |-> << >>, removed |-> {}, late |-> {}, astray |-> {}]
  /\ ul = [sent |-> 0, down |-> << >>, removed |-> {}]
-----------------------------------------------------------------------------
(* The core network.                                                       *)

\* Mutant: the core keeps tunnelling to the cell of the last handover decision.
CoreSendToCandidate ==
  /\ dl.sent < MaxDl
  /\ dl' = [dl EXCEPT !.sent = @ + 1,
                      !.removed = IF candidate = None THEN @ \cup {dl.sent} ELSE @]
  /\ tunnel' = IF candidate = None THEN tunnel
               ELSE [tunnel EXCEPT ![candidate] = Append(@, dl.sent)]
  /\ UNCHANGED <<controllerVars, enbVars, ueVars, x2Control, x2Data, ul>>

\* The traffic flow filter asks the Binder for the serving node: the packet is
\* tunnelled to it, or deleted if the UE is not attached.
CoreSend ==
  /\ dl.sent < MaxDl
  /\ dl' = [dl EXCEPT !.sent = @ + 1,
                      !.removed = IF serving = None THEN @ \cup {dl.sent} ELSE @]
  /\ tunnel' = IF serving = None THEN tunnel
               ELSE [tunnel EXCEPT ![serving] = Append(@, dl.sent)]
  /\ UNCHANGED <<controllerVars, enbVars, ueVars, x2Control, x2Data, ul>>
-----------------------------------------------------------------------------
(* HandoverPacketHolderEnb of cell c.                                      *)

\* The history when cell c hands packets to its stack while cell v serves the UE.
ToStackBs(c, v, packets) ==
  [dl EXCEPT !.down = @ \o packets,
             !.astray = IF c = v THEN @ ELSE @ \cup ToSet(packets)]

\* A packet that comes out of the tunnel is forwarded while the UE is leaving,
\* held while it is arriving, forwarded if another cell serves it, and handed
\* to the stack otherwise.
FromIpBs(c) ==
  /\ tunnel[c] # << >>
  /\ tunnel' = [tunnel EXCEPT ![c] = Tail(@)]
  /\ LET p == Head(tunnel[c])
         Forward(t) == /\ x2Data' = [x2Data EXCEPT ![<<c, t>>] = Append(@, p)]
                       /\ UNCHANGED <<fromIp, dl>>
     IN \/ /\ forwarding[c] # None
           /\ Forward(forwarding[c])
        \/ /\ forwarding[c] = None /\ c \in holding
           /\ fromIp' = [fromIp EXCEPT ![c] = Append(@, p)]
           /\ UNCHANGED <<x2Data, dl>>
        \/ /\ forwarding[c] = None /\ c \notin holding /\ serving \notin {None, c}
           /\ Forward(serving)
        \/ /\ forwarding[c] = None /\ c \notin holding /\ serving \in {None, c}
           /\ dl' = ToStackBs(c, serving, <<p>>)
           /\ UNCHANGED <<fromIp, x2Data>>
  /\ UNCHANGED <<controllerVars, forwarding, holding, fromX2, ueVars, x2Control, ul>>

\* A packet that another cell forwarded is queued, whatever the UE is doing.
ReceiveTunneledPacket(s, c) ==
  /\ x2Data[<<s, c>>] # << >>
  /\ x2Data' = [x2Data EXCEPT ![<<s, c>>] = Tail(@)]
  /\ fromX2' = [fromX2 EXCEPT ![c] = Append(@, Head(x2Data[<<s, c>>]))]
  /\ UNCHANGED <<controllerVars, forwarding, holding, fromIp, ueVars, tunnel,
                 x2Control, dl, ul>>

\* Mutant: the source keeps forwarding when the handover is complete.
ReceiveOnlyStart(s, c) ==
  /\ x2Control[<<s, c>>] # << >>
  /\ x2Control' = [x2Control EXCEPT ![<<s, c>>] = Tail(@)]
  /\ holding' = IF Head(x2Control[<<s, c>>]) = "start" THEN holding \cup {c} ELSE holding
  /\ UNCHANGED <<controllerVars, forwarding, fromX2, fromIp, ueVars, tunnel, x2Data, dl, ul>>

\* A handover command from cell s: "start" makes c the target, "complete" ends
\* the forwarding that c did as the source.
ReceiveHandoverCommand(s, c) ==
  /\ x2Control[<<s, c>>] # << >>
  /\ x2Control' = [x2Control EXCEPT ![<<s, c>>] = Tail(@)]
  /\ \/ /\ Head(x2Control[<<s, c>>]) = "start"
        /\ holding' = holding \cup {c}
        /\ UNCHANGED forwarding
     \/ /\ Head(x2Control[<<s, c>>]) = "complete"
        /\ forwarding' = [forwarding EXCEPT ![c] = None]
        /\ UNCHANGED holding
  /\ UNCHANGED <<controllerVars, fromX2, fromIp, ueVars, tunnel, x2Data, dl, ul>>
-----------------------------------------------------------------------------
(* HandoverController and HandoverPacketHolderUe.                          *)

\* The decision to move to cell c, or to detach: the UE holds its packets
\* unless it detaches, and the source starts forwarding to the target.
TriggerHandover(c) ==
  /\ ~trigger /\ c # serving /\ handovers < MaxHandovers
  /\ handovers' = handovers + 1
  /\ candidate' = c /\ trigger' = TRUE
  /\ ueServing' = c /\ ueHold' = (ueHold \/ c # None)
  /\ IF serving # None /\ c # None
     THEN /\ forwarding' = [forwarding EXCEPT ![serving] = c]
          /\ x2Control' = [x2Control EXCEPT ![<<serving, c>>] = Append(@, "start")]
     ELSE UNCHANGED <<forwarding, x2Control>>
  /\ UNCHANGED <<serving, holding, fromX2, fromIp, ueHeld, tunnel, x2Data, dl, ul>>

\* The commands exchanged over X2 are faster than a handover: handoverLatency
\* is 50 ms, an X2 link's delay below one.
X2IsFaster == \A p \in Pairs : x2Control[p] = << >>

\* The UE's held packets are released if it is attached.
SignalHandoverCompleteUe ==
  IF ueServing # None
  THEN /\ ul' = [ul EXCEPT !.down = @ \o ueHeld]
       /\ ueHeld' = << >> /\ ueHold' = FALSE
  ELSE UNCHANGED <<ul, ueHeld, ueHold>>

\* The packets that are on their way to a base station.
UnderWay == UNION ({ToSet(tunnel[c]) : c \in Cells} \cup {ToSet(x2Data[p]) : p \in Pairs})

\* Mutant: the packets from X2 stay queued.
ReleaseIpOnly(c, s) ==
  /\ x2Control' = [x2Control EXCEPT ![<<c, s>>] = Append(@, "complete")]
  /\ dl' = [ToStackBs(c, c, fromIp[c]) EXCEPT !.late = @ \cup UnderWay]
  /\ UNCHANGED fromX2 /\ fromIp' = [fromIp EXCEPT ![c] = << >>]
  /\ holding' = holding \ {c}

\* The target c, which now serves the UE, tells the source s and releases what
\* it held: first the packets from X2, then those from its own tunnel.
SignalHandoverCompleteTarget(c, s) ==
  /\ x2Control' = [x2Control EXCEPT ![<<c, s>>] = Append(@, "complete")]
  /\ dl' = [ToStackBs(c, c, fromX2[c] \o fromIp[c]) EXCEPT !.late = @ \cup UnderWay]
  /\ fromX2' = [fromX2 EXCEPT ![c] = << >>] /\ fromIp' = [fromIp EXCEPT ![c] = << >>]
  /\ holding' = holding \ {c}

\* The handover completes: the Binder's entry changes, both ends release what
\* they held.
DoHandover ==
  /\ trigger /\ X2IsFaster
  /\ trigger' = FALSE /\ serving' = candidate
  /\ SignalHandoverCompleteUe
  /\ IF serving # None /\ candidate # None
     THEN SignalHandoverCompleteTarget(candidate, serving)
     ELSE /\ dl' = [dl EXCEPT !.late = @ \cup UnderWay]
          /\ UNCHANGED <<x2Control, holding, fromX2, fromIp>>
  /\ UNCHANGED <<candidate, handovers, forwarding, ueServing, tunnel, x2Data>>

\* A packet of the UE's IP layer is held during a handover and deleted if the
\* UE is not attached.
FromIpUe ==
  /\ ul.sent < MaxUl
  /\ LET p == ul.sent
     IN \/ /\ ueHold
           /\ ueHeld' = Append(ueHeld, p)
           /\ ul' = [ul EXCEPT !.sent = @ + 1]
        \/ /\ ~ueHold /\ UNCHANGED ueHeld
           /\ ul' = IF ueServing = None
                    THEN [ul EXCEPT !.sent = @ + 1, !.removed = @ \cup {p}]
                    ELSE [ul EXCEPT !.sent = @ + 1, !.down = Append(@, p)]
  /\ UNCHANGED <<controllerVars, enbVars, ueServing, ueHold, channels, dl>>
-----------------------------------------------------------------------------
Next ==
  \/ CoreSend \/ FromIpUe \/ DoHandover
  \/ \E c \in Cells \cup {None} : TriggerHandover(c)
  \/ \E c \in Cells : FromIpBs(c)
  \/ \E p \in Pairs : ReceiveTunneledPacket(p[1], p[2]) \/ ReceiveHandoverCommand(p[1], p[2])

Spec == Init /\ [][Next]_vars
-----------------------------------------------------------------------------
\* The shape of the state; packets are numbers, commands of two kinds.
TypeOK ==
  /\ serving \in Cells \cup {None} /\ candidate \in Cells \cup {None}
  /\ trigger \in BOOLEAN /\ handovers \in Nat
  /\ forwarding \in [Cells -> Cells \cup {None}] /\ holding \in SUBSET Cells
  /\ fromX2 \in [Cells -> Seq(Nat)] /\ fromIp \in [Cells -> Seq(Nat)]
  /\ ueServing \in Cells \cup {None} /\ ueHold \in BOOLEAN /\ ueHeld \in Seq(Nat)
  /\ tunnel \in [Cells -> Seq(Nat)]
  /\ x2Control \in [Pairs -> Seq({"start", "complete"})]
  /\ x2Data \in [Pairs -> Seq(Nat)]
  /\ dl \in [sent : Nat, down : Seq(Nat), removed : SUBSET Nat,
             late : SUBSET Nat, astray : SUBSET Nat]
  /\ ul \in [sent : Nat, down : Seq(Nat), removed : SUBSET Nat]

\* The packets of a sequence that are not in L come in the order of sending.
Increasing(s, L) ==
  \A i, j \in DOMAIN s : i < j => s[i] \in L \/ s[j] \in L \/ s[i] < s[j]

\* A downlink packet that was not still under way when a handover completed is
\* handed down once, in the order in which it was sent, at the cell that serves
\* the UE, through any chain of handovers, detachments and returns; and so is
\* every uplink packet.
InOrder ==
  /\ Increasing(dl.down, dl.late) /\ dl.astray \subseteq dl.late
  /\ Increasing(ul.down, {})

\* The packets that a base station holds.
Held == UNION ({ToSet(fromX2[c]) : c \in Cells} \cup {ToSet(fromIp[c]) : c \in Cells})

\* Packets are not lost: each one sent is handed down, deleted for want of a
\* serving cell, under way or held; and between handovers nothing is held but
\* packets that were late.
NothingLeftBehind ==
  /\ 0 .. dl.sent - 1 = ToSet(dl.down) \cup dl.removed \cup UnderWay \cup Held
  /\ 0 .. ul.sent - 1 = ToSet(ul.down) \cup ul.removed \cup ToSet(ueHeld)
  /\ ~trigger => Held \subseteq dl.late /\ ueHeld = << >>

\* No cell is left in the state of a handover: one holds only as the target of
\* the handover in progress, one forwards only as its source or while the
\* command that ends it is on its way, and the UE holds only during a handover.
HandoverStateEnds ==
  /\ \A c \in holding : trigger /\ candidate = c /\ serving # None
  /\ \A c \in Cells : forwarding[c] # None =>
       \/ trigger /\ serving = c /\ candidate = forwarding[c]
       \/ "complete" \in ToSet(x2Control[<<forwarding[c], c>>])
  /\ ueHold => trigger /\ candidate # None
  /\ ~trigger => ueServing = serving

\* Late packets reach the UE as well, once everything has come to rest.
LatePacketsReachTheUe ==
  ~trigger /\ UnderWay = {} => \A c \in Cells : fromX2[c] = << >> /\ fromIp[c] = << >>
=============================================================================
