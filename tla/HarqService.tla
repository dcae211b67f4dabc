----------------------------- MODULE HarqService -----------------------------
(***************************************************************************)
(* What downlink H-ARQ promises for each MAC PDU, without processes,       *)
(* attempts or frames: a PDU is handed up at most once; the gNB takes it   *)
(* as acknowledged only after it was handed up, and gives it up only if it *)
(* never will be.  A PDU dropped by a handover may or may not have been    *)
(* handed up, and one that finds no process is dropped at once.            *)
(***************************************************************************)
CONSTANT Pdu

VARIABLES
  status,     \* what the gNB knows of each PDU
  handedUp    \* the PDUs that a UE handed to macPduUnmake

svars == <<status, handedUp>>

Status == {"unbuilt", "pending", "acked", "failed", "dropped"}

Init == status = [m \in Pdu |-> "unbuilt"] /\ handedUp = {}

Build(m, outcome) ==
  /\ status[m] = "unbuilt" /\ outcome \in {"pending", "dropped"}
  /\ status' = [status EXCEPT ![m] = outcome]
  /\ UNCHANGED handedUp

HandUp(m) ==
  /\ status[m] = "pending" /\ m \notin handedUp
  /\ handedUp' = handedUp \cup {m}
  /\ UNCHANGED status

Acknowledge(m) ==
  /\ status[m] = "pending" /\ m \in handedUp
  /\ status' = [status EXCEPT ![m] = "acked"]
  /\ UNCHANGED handedUp

GiveUp(m) ==
  /\ status[m] = "pending" /\ m \notin handedUp
  /\ status' = [status EXCEPT ![m] = "failed"]
  /\ UNCHANGED handedUp

Drop(M) ==
  /\ \A m \in M : status[m] = "pending"
  /\ status' = [m \in Pdu |-> IF m \in M THEN "dropped" ELSE status[m]]
  /\ UNCHANGED handedUp

Next ==
  \/ \E m \in Pdu : \E o \in {"pending", "dropped"} : Build(m, o)
  \/ \E m \in Pdu : HandUp(m) \/ Acknowledge(m) \/ GiveUp(m)
  \/ \E M \in SUBSET Pdu : Drop(M)

Spec == Init /\ [][Next]_svars
=============================================================================
