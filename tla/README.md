# TLA+ models of Simu5G

Simu5G is a discrete-event simulator, on OMNeT++ and INET, of the user plane of
LTE and 5G networks. This directory holds TLA+ modules that model its protocol
entities, TLC configurations that check them on small instances, and TLAPS
proofs of properties for every value of their constants. `PROJECT.json` lists the
components, runs, mutants, findings, hazards and theorems, and the source lines
each definition stands for. Paths below are relative to `src/src/simu5g/`.

## 1. Inventory

A simulation is single-threaded. Modules exchange messages through gates or call
each other directly; timers are messages to oneself. What is hard is therefore not
data races but the *order of events*: timers that race with messages in flight,
messages lost or delayed by the radio, two ends of a protocol that must agree on
counters neither transmits, buffers deleted by a handover while their contents are
in the air, counters shared between users. An exception (`cRuntimeError`) ends the
simulation, so "this cannot happen" checks are part of correctness.

| Component | State | Operations | Talks to | Must hold |
|---|---|---|---|---|
| RLC AM, `stack/rlc/am` | tx and rx windows, retransmission queue, marks, MRW commands, timers, pending PDUs | SDU from PDCP, fragmentation, status reports, PDU/MRW/status timers, window moves | PDCP, MAC (PDUs), its peer | SDUs passed up once and whole; acknowledged only if stored; windows aligned; every SDU settled |
| RLC UM, `stack/rlc/um` | SDU queue, fragment, sequence number, reordering window, t-Reordering | one PDU per MAC request, reordering, reassembly, D2D mode switch | PDCP, MAC | SDUs in order, whole or dropped; window consistent |
| RLC TM, `stack/rlc/tm` | a queue | send, deliver | PDCP, MAC | none |
| PDCP, `stack/pdcp` | sequence numbers; NR: reordering window and timer | number, compress, reorder | SDAP/IP, RLC | NR: in-order delivery, no index out of range |
| H-ARQ, `stack/mac/buffer/harq` | per UE and process: unit status, PDU, attempts; receiving process; selected process | insert, mark, send, feedback, evaluate, extract, drop | MAC main loop, PHY | both ends in step; no process lost; delivered once |
| gNB MAC, `stack/mac/LteMacEnb.cc` | schedule lists, H-ARQ buffers, counters of waiting retransmissions, BSR buffers, RAC requests | main loop, SDU requests, PDU building, grants, RAC | RLC, scheduler, PHY | grants used consistently, RAC resolved |
| UE MAC, `LteMacUe.cc`, `NrMacUe.cc` | grant, RAC and BSR flags and timers, current process | main loop, grant, RAC, BSR | RLC, PHY | a UE with data gets a grant in the end |
| Schedulers, `stack/mac/scheduler*` | allocated codewords and blocks, active connections | retransmissions before new data, policy | AMC, H-ARQ | one grant per UE and TTI |
| AMC, PHY, channel, CQI feedback | tables, measurements | numerical | MAC, PHY | numerical |
| Handover: `stack/rrc/HandoverController.cc`, `stack/ip2nic/HandoverPacketHolder*.cc`, `stack/handoverX2Forwarder`, `x2/` | serving and candidate cell, trigger, held packets, peers | beacon, trigger, complete, hold, forward over X2 | PHY, MAC, PDCP, Binder | no packet stuck, order kept |
| Binder, bearer management, `common/binder`, `stack/rrc` | registries | register, look up, establish, remove | everything | no dangling reference |
| SDAP, GTP, traffic flow filter | mappings | encapsulate, classify | IP, PDCP | none |
| D2D: `LteMac*D2D.cc`, `stack/rrc/D2D*.cc` | mode per pair, mirror buffers | mode switch | MAC, RLC | buffers of the old mode dropped |
| MEC: `mec/`, `apps/mec` | app contexts, resources, request queues | instantiate, terminate, queue and answer requests | TCP, each other | resources returned, requests answered |
| Apps, background cells, statistics, mobility | generators, counters | generate, measure | IP, MAC | none |

How a downlink packet travels: PDCP gives an SDU to RLC; RLC tells the MAC that
data waits; in a TTI the scheduler grants UEs, the MAC asks RLC for an SDU of the
granted size, builds a MAC PDU and puts it in an H-ARQ process; a flush message at
the end of the same instant sends it; the UE's process evaluates it some slots
later, sends feedback and passes a correct PDU up to its RLC. RLC AM repairs what
H-ARQ gives up: the losses of `RlcAm` are the PDUs that `Harq` fails, deletes for
lack of a process, or drops at a handover.

The hazards of the code, each with its line and the properties that would catch
it, are in `PROJECT.json`.

## 2. Plan

In this order, most important behaviour first. Steps 1 to 7 are done.

1. **RLC AM**: `AmTxQueue`, `AmRxQueue`, composed by `RlcAm`; abstract `AmService`;
   `RlcAmProofs` for the transmitting entity and for the composition.
2. **H-ARQ downlink**: `Harq`, abstract `HarqService`, `HarqProofs`.
3. **NR PDCP reordering**: `NrPdcpRx`, `NrPdcpRxProofs`.
4. **Handover**: `X2Handover` (packet holders and X2 forwarding, from source, target,
   UE and core) and `HandoverController` (what two stacks in dual connectivity
   decide), with `MCHandover`; `X2HandoverProofs`, `HandoverControllerProofs`.
5. **RLC UM**: `RlcUm`, fragmentation per request, reordering, D2D mode switch;
   `RlcUmProofs`.
6. **Uplink access**: `UlAccess`, random access, BSRs, grants, H-ARQ; `MCUlAccess`,
   `UlAccessProofs`.
7. **MEC life cycle**: `Mec`, device application, UALCMP, orchestrator, VIM; `MCMec`,
   `MecProofs`.
8. **Left**: a second TTI less in the hypothesis
   of `OneAttemptAtATime`, which TLC finds to be enough; the D2D forms of H-ARQ, with
   their mirror buffers; RLC UM with `msClearRlcBuffer = false`; the request queue of
   `MecServiceBase`.

## 3. What is modelled

### RLC AM

`AmTxQueue` and `AmRxQueue` model an entity each. The entity is a record (`tx`,
`rx`) and every method is an operator from record to record, so a handler that
calls others is written as their composition, in the order of the code. Arrays
indexed by position in the window (`received_`, `discarded_`, `pduRtxQueue_`) are
sets and functions indexed by sequence number in the sender, and by position in
the receiver, where `moveRxWindow` shifts them and the shift is where things go
wrong. An exception sets `err`, after which `Running` is false and nothing happens.
`RlcAm` has the two entities, a bag of PDUs in flight each way (any order, loss up
to `MaxLoss`), and one action per event: `SendSdu`, `PduTimer`, `MrwTimer`,
`BufferStatusTimer`, `DeliverToTx`, `DeliverToRx`, `RxTimer`, `Lose`. A status
report is sent only if `statusReportInterval` has passed, which is the parameter
`allowed` of the receiving actions. The history fields `lost`, `givenUp`,
`passedUp`, `accepted` and `badSdu` record what happened to SDUs and PDUs.

`AmService` is the abstract bearer: an SDU is unsent, lost before transmission,
open, acknowledged or given up, and passed up or not. `RlcAm!ServiceSpec` is the
refinement: an SDU counts as acknowledged when all its PDUs are marked received or
left behind by the window.

| Run | Question | Bounds |
|---|---|---|
| `am` | Are windows, queues, marks, timers, MRW commands, acknowledgements and delivered SDUs consistent, and is `AmService` implemented, below the load at which the defects listed in section 5 show? | sender's window 3, receiver's 4, 3 SDUs of 1 and 2 fragments, one loss, one retransmission, two MRW commands, timers while one PDU is in flight |
| `am_live` | Is every SDU settled in the end? | two losses, fair timers and deliveries |
| `am_rtx_ack` | The code disagrees with an assertion of its own (section 5) | window 4, nothing lost, 8 SDUs of one fragment |

A window of three or four has all the cases: empty, partly resolved, full. In `am` the
sender's window, which always keeps a position free, fills up while the receiver's is
used by half, so that its shift is exact; beyond, in `am_rtx_ack`, it is not. What the
sender keeps to next to a peer whose reports are wrong is proved (section 4, first part
of `RlcAmProofs`). `MaxRtx` is 1, so that a first attempt, a retransmission and
giving up all happen. `MaxInFlight` bounds how many PDUs may be in flight when a
timer expires: 0 is the code's usual situation (timeouts longer than the round
trip), 1 lets them race.

Fairness in `am_live`: every event in OMNeT++'s queue is executed, so a running
timer expires (strong fairness, since in the model a PDU in flight only postpones
it) and a PDU in flight arrives or is lost (weak fairness).

### H-ARQ downlink

`Harq` models a gNB and its UEs on one carrier. `tx[p]` is unit 0 of process `p` of
`LteHarqBufferTx` and `rx[p]` the UE's `LteHarqProcessRx`. Only unit 0 is modelled
because `LteSchedulerEnb::scheduleGrant` sets `numCodewords = 1`, so nothing
is ever inserted in another unit. A TTI is three actions, as in the code: the main
loop (`Schedule`: retransmissions, then grants), the SDUs that RLC returns
(`MacPduMake`) and the flush message of lower priority (`Flush`). `ReceiveData`,
`ExtractCorrectPdus` (the UE's main loop: feedback, then extraction) and
`ReceiveHarqFeedback` are the rest of the round trip. `Handover` is what `doHandover`
does to H-ARQ: both ends' buffers are deleted in one event and frames in the air
are dropped by the PHYs, while the counter `needRtxDl_` keeps what it had.

`needRtx`, `selected`, `granted` and `flushing` are `needRtxDl_`, `selectedAcid_`, the
schedule list and the scheduled flush message. Which retransmissions fit in the
blocks and which UEs are granted is free, at most one of them per UE and TTI
(`allocatedCws_`). `HarqService` is the abstract specification: a MAC PDU is
pending, acknowledged, failed or dropped; acknowledged implies handed up, failed
implies never handed up.

| Run | Question | Bounds |
|---|---|---|
| `harq` | Do both ends of each process stay in step, with any corruption and a handover; do UEs interfere through the shared counter or a TTI's grants; is `HarqService` implemented and every PDU settled? | 2 UEs, 2 processes each, 1 retransmission, 2 PDUs, 1 handover |

Processes of a UE interact only through `selected` and the choice of a free
process, and UEs only through `needRtx`, so two of each are enough; a PDU dropped by
the handover and its successor meet in one process, and a process is used again
after an acknowledgement, a failure and a drop. Larger numbers of all four are
covered by the proofs. Deadlock is checked: a gNB always has a next TTI.

Fairness: the flush, the arrival of a frame and the UE's main loop are events that
the simulator executes (weak fairness). That a waiting unit is served infinitely
often is an assumption on the radio (strong fairness): the code serves it only in a
TTI in which its PDU fits in the blocks of the cell.

### NR PDCP receiving entity

`NrPdcpRx` models `NrRxPdcpEntity` of a split bearer. `rxNext`, `rxDeliv`, `rxReord`,
`received` and `buffer` are `rxWindowDesc_`, `received_` and `sduBuffer_` by position,
`timer` is `t_reordering_`. `HandlePdcpSdu` is the handler of an SDU and
`ReorderingTimer` that of the timer, both with the loop that shifts the window,
modelled by what it copies, clears and leaves (`ShiftedMarks`, `ShiftedBuffer`,
`Collides`); the end of the loop of `HandlePdcpSdu` is computed from the advanced
`rxDeliv_`, as in the code. The other variables record what was passed up, deleted
and skipped. The SDUs travel over RLC legs: each arrives once or never, and those of
a leg in order, since RLC UM keeps the order (`RlcUmProofs`) and a leg is free to lose
what it likes. RLC AM passes up what is complete, in any order, which is the case of
a leg for each SDU. Nothing else limits what arrives: any number of gaps may be
open and the window may be used to its end and beyond.
The log line 67 announces that the window advances when an SDU is beyond it; the
code deletes the SDU, and so does the model.

Two steps do not shift the window as they should. An SDU that closes the first of
several gaps stops the loop of line 107 too early, because its end is computed from
an `rxDeliv_` that has moved (`crossed`). An expiry of `t_reordering_` that moves the
window by more than its half leaves marks that the loop of line 179 does not overwrite
(`jumped`). Both variables only record that such a step was taken; the model goes on after
it as the code does, and each property says which part of it needs which of the two.

| Run | Question | Bounds |
|---|---|---|
| `pdcp` | Is the order restored until a gap is crossed, is an SDU deleted or an exception thrown only for the reasons named, is nothing stuck, and is everything that arrives passed up or deleted? | window 4, 7 SDUs, 2 legs |
| `pdcp_order` | The entity does not do what its description says (section 5) | window 8, 4 SDUs, 2 legs |

With a window of 4, two gaps fit with SDUs behind both, the timer moves the window by one
to four positions, and an SDU can be too late and another beyond the window; seven SDUs
let the window move over more than its length, so that a stale mark or a misplaced SDU
is met again. In `pdcp_order` the SDUs use half of the window only. The system stops when
every SDU has arrived, or with an exception, so deadlock is not checked. Fairness in
`pdcp` is that the simulator executes the event of a running timer; nothing obliges
an SDU to arrive.

### Handover: the data path

`X2Handover` models what happens to the packets of one UE while it moves. `serving`,
`candidate` and `trigger` are what matters of `HandoverController`: which cell it
picks, and when, is free. At each cell, `forwarding`, `holding`, `fromX2` and
`fromIp` are `hoForwarding_`, `hoHolding_`, `hoFromX2_` and `hoFromIp_` of
`HandoverPacketHolderEnb`; `ueServing`, `ueHold` and `ueHeld` belong to
`HandoverPacketHolderUe`. `tunnel`, `x2Control` and `x2Data` are the GTP tunnels of
the core, the X2 commands (SCTP) and the packets forwarded over X2 (UDP): each is in
order, none is in order with the others. `CoreSend` is the traffic flow filter that
asks the Binder, `FromIpBs` and `ReceiveTunneledPacket` what comes out of the two
tunnels, `ReceiveHandoverCommand` the X2 commands, `TriggerHandover` and
`DoHandover` the two halves of a handover with the calls to both packet holders.
`dl` and `ul` are the histories of packets.

| Run | Question | Bounds |
|---|---|---|
| `x2_handover` | Are packets handed down once, in order and at the right cell, does none disappear, and is no cell left holding or forwarding? | 3 cells, 3 handovers, 3 downlink and 2 uplink packets |

Three cells and three handovers let a UE leave, return and move on, and detach and
attach in between, so that each cell is source, target and bystander. Three packets
put one in the tunnel, one on X2 and one at a new cell at the same time. One
assumption is in the guard of `DoHandover`: a command over X2 is faster than
`handoverLatency` (50 ms; the links of the repository's networks take below one).
What is still under way when a handover completes (`late`) is exempt from the order,
and is what section 5 is about: such a packet overtakes, is overtaken, or stays in a
queue. Deadlock is not checked: the traffic ends.

### Handover: the decisions

`HandoverController` models the two controllers of a UE with an LTE and an NR stack
(`NrNicUe.ned` gives both an `NrPhyUe`), the Binder's two tables and the packet
holders' tables, which are shared between the stacks. `BeaconReceived` is the
handler of a beacon; its cases (`ServingStronger`, `CandidateStronger`,
`ServingNotStronger`, ignored) are the branches of the code. `TriggerHandover` is the
handler of `handoverStarter_` (delay or cancel, force the other stack to detach
first, or start), `DoHandover` that of `handoverTrigger_`. Timers are the time that is
left, `Tick` lets the smallest pass; beacons of a turn arrive at one instant in any
order. A turn ends, with everything it started, before the next one, because beacons
are 1 s apart and the longest chain of delays takes 0.1 s. `triggers` is a sequence,
because a forced handover schedules a second message while the first one is pending.
Commands between base stations take effect at once here; `X2Handover` has them with
their delays.

| Run | Question | Bounds |
|---|---|---|
| `ho_dual` | After any turn of beacons, is the NR stack under its master, and has each handover cleaned up? | 2 masters with a secondary node each, 1 standalone gNB, 3 levels of signal, 3 turns |

Two masters are needed for a secondary node to change with its master; the levels are
too weak, and two that differ by more than the hysteresis. The first turn can attach
both stacks, the second can move both, the third can detach both. Deadlock is not
checked: the system stops after the last turn.

### Uplink access

`UlAccess` models how the data of a UE is served: `ue` is the state of `NrMacUe` and
`LcgScheduler` (virtual buffer, grant, flags and timers of random access and BSR),
`tx` and `rx` are the H-ARQ processes of the uplink, `racs` and `bsr` are
`pendingRacRequests_` and `bsrbuf_` of the gNB. A TTI is three actions: `UeLoops`,
`GnbLoop` and `Arrive`. A frame takes one TTI and comes after the loops of that TTI,
since `airFramePriority_` is 10, so within a part the nodes do not see one another and
one action for all of them loses no interleaving. `CheckRac` and `UseGrant` are the
UE's loop without and with a grant; `GnbLoop` gives blocks to the answers to
preambles, then to retransmissions, then to the backlog the reports tell of, as
`NrSchedulerGnbUl` does; `Arrive` handles answers, grants, feedback and PDUs. The
policy's order is any permutation, the outcome of preambles and of PDUs is free up to
the bounds. Bytes are counted, because the grants that are too small for the headers
are where it gets hard.

| Run | Question | Bounds |
|---|---|---|
| `ul_access` | Does a UE contend once at a time; is everything it has to send granted in the end; do grants stop when there is nothing left? | 2 UEs with 10 and 2 bytes a block, 3 blocks, 2 processes, 1 retransmission, 2 SDUs of 5 or 12 bytes, 2 collisions, 2 corrupted PDUs |

The timers are scaled down and keep their order: the response window (4) covers the
round trip of a preamble, the retransmission timer of the BSR (6) that of a grant. The
poor UE cannot be given a useful grant in the blocks that the other leaves, and the
good one can use a grant in one TTI. Collisions and losses are bounded because
nothing can be promised of a UE whose every preamble collides. Fairness is `WF(Tti)`:
`ttiTick_` is rescheduled at the end of every main loop. Deadlock is checked.

### RLC UM

`RlcUm` models `UmTxEntity` (`tx`: queue, what is left of a fragment, number) and
`UmRxEntity` (`rx`: the window of four numbers, t-Reordering, the store by position
and the beginning of an SDU that waits for its end), with the PDUs that H-ARQ has in
between (`air`), which arrive in any order or not at all. Operators on the record `rx`
carry the names of the code (`MoveRxWindow`, `Reassemble`, `Advance`, `HandleTimer`)
and `Enque` and `ReorderingTimer` compose them in its order. `bearer` is the kind of
bearer: the direct one of a D2D pair, which a mode switch puts out of use
(`SwitchAway`) and back (`SwitchBack`); a multicast one, whose window has the size 1 and
starts at its first PDU; or an uplink one, which `LteMacEnbD2D` sends the notifications of
another flow. The history `pdus` lists the PDUs made; each knows its place there (`id`) and
where in its SDU it begins (`offset`), which the code does not transmit and the model
uses only to say which PDUs an SDU needs (`Pieces`).

| Run | Question | Bounds |
|---|---|---|
| `um` | Are SDUs passed up in order, and exactly those that arrived whole; is no exception thrown; does the buffer empty? | direct and multicast bearer, window 2, 3 SDUs of 1 or 5 bytes, requests of 4 or 6, 5 PDUs, 3 in flight, 1 switch away and back |

An SDU of 5 takes two or three PDUs, one of 1 shares a PDU, and a window of 2 with
three PDUs in flight is overrun and shifted over PDUs that have not come. Fairness:
the event of a running timer is executed. Deadlock is not checked: the bounds on SDUs
and PDUs end every behaviour.

### MEC life cycle

`Mec` models the way from a UE application over its device application
(`DeviceApp`: `appState`, `deviceAppIdCounter`, `appContextUri`) and the proxy
(`UALCMPApp`: the request it works on) to the orchestrator (`meAppMap`, `onboarded`,
the messages it delays) and the VIM of each host (`mecAppMap`, slots, resources,
gates). Requests and responses are indexed by the device application, which has one
out at a time, and the proxy may take them in any order; the orchestrator's
delays are steps that happen eventually. `InstantiateMEApp` and `TerminateMEApp` are
functions of a VIM's state that also return whether they succeeded, since a gate is
taken before the check that may fail. `Logging` says whether the log statements are
evaluated, because one of them changes the state.

| Run | Question | Bounds |
|---|---|---|
| `mec` | Do orchestrator and VIMs agree, are slots, resources and gates those of what runs, can somebody stop each instance, and does everything stop in the end? | 3 device applications, 2 hosts with 2 slots and 3 units, 2 kinds of application (1 and 2 units, the second emulated), 2 starts each |
| `mec_same_id` | The code disagrees with its comments (section 5) | 2 device applications that ask for the same application, 1 host |

Two of the three ask for the same application, so that requests cross, numbers
collide and a context is shared and deleted under another's feet; the hosts do not
hold everything, so that requests are refused. Fairness: timers fire, the proxy
serves its requests, messages arrive. Deadlock is not checked: the system stops when
every UE application has stopped or given up.

## 4. What is proved

`RlcAmProofs` proves in its first part, for every `TxWindowSize` in 1..200 and every `MaxRtx`, of
the transmitting entity under `TxSpec` — any SDUs, timers in any order and *any*
control PDUs of the right shape, so nothing depends on the peer:

| Theorem | What |
|---|---|
| `TxTypeCorrect` | the record keeps its shape |
| `TxTimersCoverUnresolved` | exactly the outstanding PDUs have a stored copy and exactly the unresolved ones a timer |
| `TxWindowNeverFull` | a position always stays free, so `sduQueue_` is empty between events and `moveTxWindow` has nothing to add |
| `TxDiscardsWholeSdu` | no SDU in the window is given up in part |
| `TxMrwOrdered` | each stored MRW command has a timer and the newest covers the others |
| `TxNoInternalError` | six of the entity's exceptions are unreachable |

The inductive invariant adds to these what links them: an MRW command never asks for
an unresolved PDU, so the next one never asks for less; only outstanding PDUs are
discarded; an SDU is numbered above those of all PDUs built so far; headers partition
the outstanding sequence numbers into SDUs, so that `discard` walks exactly to the
ends of one. One lemma per operator says that it preserves the invariant; the step of
a handler follows from the lemmas of the operators it composes.

`HarqProofs` proves, for every finite set of UEs, every number of processes, every
limit on retransmissions and any number of PDUs and handovers, under `Spec`:

| Theorem | What |
|---|---|
| `TypeCorrect` | the state keeps its shape; attempts stay within the limit at both ends |
| `NeverFails` | no exception of the H-ARQ classes is thrown |
| `BothEndsAgree` | the two ends of a process free it together and count the same attempts |
| `OneThingInFlight` | a waiting unit is owed exactly one frame, evaluation or feedback |
| `CounterSound` | `needRtxDl_` is never smaller than the number of waiting units |
| `OutcomesSound` | what the gNB believes of a PDU is what happened to it |
| `Implements` | `Spec => ServiceSpec`: `Harq` implements `HarqService` |

`HarqInv` is inductive. `EndsInv` says where the PDU of each process is: held by a
receiver that counts as many attempts, in the air towards one that counts one less,
in evaluation, or behind a feedback that tells what happened; without it nothing
excludes a feedback for a unit that was reset. `PduInv` says that no two processes
hold the same PDU, without which an acknowledgement could settle another's, and
`TtiInv` that a process marked in a main loop stays marked until its flush, even
though RLC's SDUs arrive between the two. There is one lemma per action;
`StepRefines` maps each to a step of the service or a stutter.

`NrPdcpRxProofs` proves of `NrPdcpRx`, for every window size, number of legs and of SDUs,
without a hypothesis on what arrives:

| Theorem | What |
|---|---|
| `TypeCorrect` | the state keeps its shape |
| `OrderRestored` | the upper layer gets the SDUs in order until one crosses a gap |
| `WindowIsAligned` | until a crossing or a jump, each position holds the SDU that belongs there, and its mark |
| `InexactShiftMisplaces` | the first crossing or jump does misplace an SDU or a mark |
| `DeletionsJustified` | an SDU is deleted as too late only if it was given up, until a crossing; none as already received, until a crossing or a jump |
| `NothingIsStuck` | every SDU that arrived is in exactly one place, the timer runs while the window is behind, and until a crossing it reaches every SDU that is held |
| `NoException` | no position is taken twice; the other exceptions need a crossing or a jump |

`InexactShiftMisplaces` is the converse of `WindowIsAligned`: the exemptions are exactly the
steps after which the window is wrong, so that the theorems exclude no arrival that the
code handles. The invariant `IInv` has three parts. `General` holds always: an SDU
is in one place only (`Once`, `Accounts`), what is buffered is marked, the timer runs while the
window is behind (`TimerInv`). `Orderly` holds until a crossing: each SDU is at its position, the
last one below `rxNext` and below `rxReord` is there, and below the window nothing is
missing that was not skipped. `Clean` is what the upper layer sees. The lemmas `RunEnds`
(the marks the handlers follow are an interval that ends at a free position), `ShiftMoves`,
`ShiftKeeps` and `MarksFollow` (what the two loops move, that they lose and copy nothing, and
when marks stay with their SDUs) carry the argument; there is one lemma per case of the
handlers: an SDU that is deleted, buffered or next, and the timer.

`X2HandoverProofs` proves of `X2Handover`, for every set of cells and any number of
packets and handovers:

| Theorem | What |
|---|---|
| `TypeCorrect` | the state keeps its shape |
| `HandoversEnd` | no cell and no UE is left in the state of a handover |
| `PacketsInOrder` | what is not late is handed down once, in order, where the UE is served |
| `NoPacketLost` | each packet is handed down, deleted for want of a cell, under way or held; between handovers only late ones are held |

The invariant has three parts. `ControlInv` is about commands: a start command
belongs to the handover in progress, a command that ends the forwarding comes from the
cell that has served the UE since, and a cell forwards only until it arrives. From it
follows that the serving cell forwards only to the target of the handover in
progress (`FromIpBsCases`). `PlacesInv` says where a packet that is not late can be:
handed down, queued at that target, in the X2 tunnel to it, or in the tunnel of the
serving cell. `OrderInv` orders these four places one behind the other, so that each
step moves a packet from the head of one to the tail of the next; a packet handed
down directly is in order because without a handover in progress the two places in
between hold only late packets. `AccountInv` counts the packets. The uplink has an
invariant of its own, `UlInv`. All of it rests on the guard `X2IsFaster`: without it a
start command could arrive after the handover it belongs to.

In its second part `RlcAmProofs` proves of `RlcAm`, the two entities and the channel between them, for
all window sizes, numbers of retransmissions, SDUs, losses, reports and PDUs in
flight, under `HalfWindow`:

| Theorem | What |
|---|---|
| `TypeCorrect` | both entities and the bags between them keep their shape |
| `AlignedWindows` | no PDU, report or command in flight falls outside the window it will be checked against |
| `TrueAcks` | what the sender marks as received was buffered by the receiver, or given up |
| `MarksFollowBuffer` | each mark of the receiver's window is at the position of a stored PDU, and each stored PDU has its mark |
| `OnceAndIntact` | PDCP gets no SDU twice, in part or mixed with another |
| `CompleteIsPassedUp` | no complete SDU is overlooked (`ShortSdus`) |
| `ForwardOverResolved` | the sender's window passes only PDUs acknowledged or given up; neither window moves back |
| `SenderNeverThrows` | no exception of `AmTxQueue` is thrown, and `AckedPdusAreStored`: the assertion of `recvAck`, which `am_rtx_ack` refutes beyond half of the window |
| `SenderImplements` | the sender of `RlcAm` is the one of `TxSpec`, so the first part holds of it |
| `Implements` | `RlcAm` implements `AmService` (`ShortSdus`) |

`HalfWindow` says that what can be outstanding, `MaxLoad` or the sender's window less
its free position, is at most half of the receiver's window. It is what separates
`am` from `am_rtx_ack`: the shift of `moveRxWindow` is exact up to half of the
window and leaves marks beyond, and the first mark without a PDU is acknowledged. With
the default sizes (200 and 200) it asks that at most 100 PDUs are outstanding; with a
sender's window of half the receiver's it always holds. `ShortSdus` says that no SDU has more than
two PDUs, without which section 5 shows a complete SDU that is not passed up.
The inductive invariant `IInv` has a part per place. `Sound` relates the sender to the
set of PDUs the receiver has accepted and to the start of its window: the receiver's
window begins neither before the sender's nor after the next number (`Apart`), and
everything it has left behind is resolved (`True`). `Buffers` and `Passes` are the
receiver; `Sends` and `Answers` say of every PDU in the two bags what its sender could
have meant by it, in a form that stays true while it is delayed: a command skips only what is
resolved, a report acknowledges only what was accepted, a window start is at most the
receiver's. Each operator of the two entities has a lemma that it keeps its part, and
each handler follows by composition. For the refinement, `SenderMoves` and
`ReceiverMoves` say what a step may change, and from them each step is one of `AmService`
or a stutter.

`HandoverControllerProofs` proves of `HandoverController`, for every set of cells, every
assignment of secondary nodes to masters, all delays and all signals:

| Theorem | What |
|---|---|
| `TypeCorrect` | the state keeps its shape |
| `NeverUnderAnotherMaster` | when a turn's handovers are over, the NR stack is under its master or standalone |
| `HandoversLeaveNothing` | a handover that no forced one crosses leaves nothing in Binder and packet holders |

A secondary node may serve only under its master at *every* moment, not just at rest
(`UnderMaster`). What makes that inductive is time: `DecidesInTime` says that an NR stack
that considers a secondary node decides before the LTE stack can leave its master,
because both timers were started in the same turn or the LTE stack has the whole of its
attachment or detachment time left; hence `Delta < DetachmentTime`, `AttachmentTime` in
`HandoverAssumption`, which the constants of the code satisfy. `MasterStays` carries it over to
the execution, and `HoldersKnow` describes every entry of Binder and holders by the
handover in progress that it belongs to, as long as no forced one has changed a
candidate midway.

`UlAccessProofs` proves of `UlAccess`, for every finite set of UEs, all block sizes,
numbers of processes, losses, collisions and back-offs, under `CoversRoundTrip`:

| Theorem | What |
|---|---|
| `OneAttemptAtATime` | a UE sends no preamble while an earlier one is in the air, at the gNB or being answered |

`CoversRoundTrip` is `RaRespWindow >= 3`; the defaults are 3 (`LteMacUe.ned:34`) and 20
(`NrMacUe.ned:26`). The invariant says at which of the places an attempt is, that it is at one
only (`OnePlace`), and how much of the response window is left at each (`TimeLeft`). TLC finds that
2 is enough too and 1 is not.

`MecProofs` proves of `Mec`, for every set of device applications and hosts, all costs
and capacities and any number of starts:

| Theorem | What |
|---|---|
| `TypeCorrect` | the state keeps its shape, a message the form of its kind |
| `NothingLeaks` | slots, resources and gates of a VIM are those of the applications in its map (`MecHostBased = {}`) |
| `OneContextPerApp` | the contexts of the orchestrator are one for one the applications of the VIMs (`~Logging`) |
| `SomebodyCanStopIt` | every context is held by a device application, or an answer that names it is on the way |

Both hypotheses exclude a defect of section 5: a host chosen without looking loses a gate, and
the evaluation of a log statement inserts a context. The first leaves the policies
`MecServiceBased` and `AvailableResourcesBased`, the second a run without log output;
`SomebodyCanStopIt`, and the counts of slots and resources, need neither. The invariant ties each device application's state to the one message
it has under way (`Conversation`), and each context to a device application that holds it or is
about to be told of it (`Known`). The sum of resources is expressed as the size of a set
(`Units`), because a sum over a set is a recursion that the provers cannot unfold.

`RlcUmProofs` proves of `RlcUm`, for every size of SDUs, requests, queue and window, and any
number of SDUs, PDUs, losses and mode switches, under `RightBearer`:

| Theorem | What |
|---|---|
| `Invariance` | the inductive invariant `IInv` |
| `SdusAreInOrder` | PDCP gets the SDUs in order, none twice |
| `PassedUpExactlyWhenComplete` | an SDU is passed up exactly when it was sent to its end and all PDUs with a part of it were taken |
| `NoErrorIsThrown` | no exception of window or reassembly is thrown |

`RightBearer` is `"uplink" \notin Bearers`: without it the receiving entity forgets its numbers
and its sender does not (section 5), and `PassedUpWhenComplete` is violated. `Log` and `TxOk` are about
what is sent: the parts of the PDUs, read one after the other, are the SDUs one after the
other, and the queue begins where the last PDU ended. What the sum over the queue in `LeftOf`
returns is proved from its recursion by induction on the numbers (`LeftOfSteps`). `Window` bounds the four
numbers of the receiver, and `Stored` says that position `i` holds the PDU numbered
`firstSno + i` and that everything taken comes before everything stored. That order is why
reassembly needs to look at the previous PDU only: `Content` says which SDUs the PDUs taken so
far complete, and that `buffered_` is empty or all that was sent of its SDU up to there, and `Joined` that what may
still be completed is never thrown away. `Epoch` is the distance of numbers and places
in `pdus`, which each switch changes because numbers start again at 0; it is why nothing
of an earlier mode may be left in the air or in the buffer after one. Each operator of the two entities has a
lemma (`LogGrows`, `Reassembled`, `AllReassembled`, `Advanced`, `Placed`, `Proceeded`),
and the handlers follow by composition.

Every inductive invariant was first checked by TLC as an invariant of the module's
runs and of variations of them. The proofs rest only on the named assumptions on the
constants (`TxAssumption`, `RxAssumption`, `RlcAmAssumption`, `HarqAssumption`,
`NrPdcpRxAssumption`, `X2HandoverAssumption`, `HandoverAssumption`, `UlAccessAssumption`,
`MecAssumption`, `RlcUmAssumption`), which TLC evaluates in every run of the module, and on the hypotheses that
a theorem names: `HalfWindow`, `ShortSdus`, `CoversRoundTrip`, `MecHostBased = {}`,
`~Logging`, `RightBearer`. The configurations of the runs satisfy them, so that none is empty.

## 5. Disagreements found

With a run that shows it:

* `am_rtx_ack`: `AmRxQueue::moveRxWindow` leaves stale `received_` marks when the
  window moves by more than half of its size; PDUs never sent are acknowledged and
  the assertion at `AmTxQueue.cc:632` fails.
* `mec_same_id`: device applications count their requests from 2000 independently
  (`DeviceApp.h:87`), so two UEs that ask for the same application get one instance,
  although neither asked to share it, and the first that stops it stops it for both.
* `pdcp_order`: `NrRxPdcpEntity.ned:19` says that the entity "manages the reordering of
  out-of-sequence PDCP PDUs". When an SDU closes the first of two gaps, the loop at
  `NrRxPdcpEntity.cc:107` ends at a difference with the `rxDeliv_` that has already moved: SDU 2
  arrives, then 0 and 1, SDU 2 stays where it is and SDU 3 overtakes it.

Met while modelling, in the models, without a run of their own. Where a definition and
bounds are named, a configuration with them shows the violation; everything not named
is as in the component's run.

* RLC AM, `NoSduLost` (window 4, two SDUs of two fragments, `MaxLoad` 4):
  `AmTxQueue::addPdus` (`AmTxQueue.cc:185`) pops an SDU before it checks that it
  fits, and forgets it.
* RLC AM, `CompleteSduPassedUp` (window 6, one SDU of three fragments, `MaxLoad` 3,
  `MaxInFlight` 2): an SDU whose beginning left the window before its last fragment
  arrived is never passed up (`AmRxQueue.cc:447`).
* RLC AM: fragments stay in `pendingPduBuffer_` when the rest of their SDU is
  skipped, and `passUp` throws at the next SDU (`AmRxQueue.cc:332`); an MRW that
  arrives before any data PDU is answered with a copy of a null pointer
  (`AmRxQueue.cc:210`); positions from 200 on throw whatever `txWindowSize` is
  (`AmTxQueue.cc:133`), hence the assumption on it.
* H-ARQ, `NoPduUnserved` (one UE, one process, two PDUs):
  `LteSchedulerEnbDl::checkEligibility` (`LteSchedulerEnbDl.cc:48`) accepts a UE
  without a free process; the MAC PDU is deleted.
* NR PDCP, after a crossing (the run `pdcp_order` above): an SDU that never arrived before is
  deleted as already received, inside half of the window too (`DeletedForAReason` without
  `crossed`; SDU 2 arrives, then 0: the loop ends at 2, SDU 2 stays at position 2, and SDU 3 finds
  its mark there, `NrRxPdcpEntity.cc:73`); and SDUs are held that no timer will pass up
  (1 and 3 arrive, 0 crosses, the timer expires: `NothingStuck` without `crossed`).
* NR PDCP, `DeletedForAReason` and `NoError` without `jumped`: an expiry that moves the
  window by more than its half leaves `received_` marks (`NrRxPdcpEntity.cc:179`); SDUs that
  never arrived are deleted as already received (window 4: 2 arrives, the timer expires, 5
  arrives), or a null pointer is passed up (`:94`). When the window is used up the timer
  reads `received_.at(windowSize_)`, which throws (`:165`).
* X2, `LatePacketsReachTheUe`: a packet that reaches the target over X2 after the
  handover completed is queued in `hoFromX2_` and stays there until a later handover
  to the same cell (`HandoverPacketHolderEnb.cc:174`), although `WHATSNEW.md:251`
  announces that packets that arrive at the old cell just after a handover are
  forwarded to the new one.
* Handover decisions, `HandoverStateEnds` (without the exemption of
  `HandoverStateEndsUnlessForced`): `forceHandover` in the middle of a handover
  changes its candidate, and the target of the first one keeps holding. Also: the
  branch that delays a handover (`HandoverController.cc:270`) cannot be taken, since
  it compares the two stacks' candidates, which are cells of different stacks;
  cancelling an evaluation (`:207`) leaves its entry in the Binder.
* RLC UM, `BufferEmpties` and `PassedUpWhenComplete` with `Bearers` = {"uplink"}: `LteMacEnbD2D.cc:474` notifies
  the first incoming connection that is not D2D of a mode switch of another flow.
  The receiving entity forgets its numbers and the sending one does not.
* Uplink: a grant of at most the headers' size clears `bsrTriggered_` and reports
  nothing; a backlog is then reported only after another random access, because
  `racschedule` takes what blocks are left although the comment at
  `LteSchedulerEnbUl.cc:139` speaks of a usable grant. A waiting retransmission takes
  any grant, even one that is smaller than its PDU. With the default number of
  processes (5) and of slots before the evaluation, the UE of a full load finds no
  free process every sixth TTI and deletes the PDU.
* MEC: a VIM whose host was chosen without looking (`MecHostBased`) takes a gate
  before it refuses, and loses it (`VirtualisationInfrastructureManager.cc:187`;
  `ResourcesAccounted` with `MecHostBased` = {1}). When the creation of an instance
  that was deleted meanwhile is to be acknowledged, nothing is sent
  (`MecOrchestrator.cc:344`): the device application stays in `CREATING`. With
  `Logging` = TRUE the log statement for an unknown context inserts it
  (`MecOrchestrator.cc:288`), and the one that names an emulated application has no
  module to ask (`AllStopped` fails). The answer to a refused termination is built
  and not sent (`DeviceApp.cc:243`).

## 6. What is only model-checked, and what is left out

Checked by TLC only: liveness (`EventuallySettled`, `EventuallyPassedUp`,
`EventuallyServed`, `GrantsCease`, `BufferEmpties`, `AllStopped`), since temporal
reasoning with fairness is out of the prover's reach; and the runs of `RlcAm` with more than half
a window in use, or with SDUs of three PDUs, of which the theorems about the composition do not speak.
Every safety invariant and action property of a passing run is stated by a theorem, under the
hypotheses that it names.

Not modelled, in components that are: headers and tags; a second codeword; statistics;
RLC AM with a bearer re-established by a handover; RLC UM with
`msClearRlcBuffer = false`; D2D, background UEs and several bearers at the UE MAC;
periodic grants; MEC requests that ask to share an application, closed connections and
the length limit of the proxy's queue; what `doHandover` does besides H-ARQ and packet
holders (queues, AMC, binder).

Not modelled at all, because there is no protocol state to get wrong: RLC TM, the
transmitting PDCP entity, SDAP, GTP and the flow filter hand packets on; AMC, the PHY,
the channel models, CQI, the scheduling policies and mode selection are numerical, and
their outcomes are free choices in the models; the Binder is a set of tables; the
rest measures, generates traffic, or parses. These are most of the source's lines: a
vendored JSON library, tables of error rates, channel models. The D2D forms of H-ARQ
and the request queues of the MEC services do have such state and are next in the plan.
`PROJECT.json` gives the reason for each component.
