----------------------------- MODULE AmService -----------------------------
(***************************************************************************)
(* What an RLC AM bearer promises to the two PDCP entities, without        *)
(* windows, fragments, timers or messages: an SDU is passed up at most     *)
(* once, and the sender takes an SDU as acknowledged only after it was     *)
(* passed up.  An SDU may be lost before it is sent, and an SDU that the   *)
(* sender gave up may still be passed up, but is never acknowledged.       *)
(***************************************************************************)
CONSTANT Sdu

VARIABLES
  status,    \* what the sender knows of each SDU
  passedUp   \* the SDUs that reached the peer's PDCP

svars == <<status, passedUp>>

Status == {"unsent", "lost", "open", "acked", "givenUp"}

Init == status = [s \in Sdu |-> "unsent"] /\ passedUp = {}

Send(s, outcome) ==
  /\ status[s] = "unsent" /\ outcome \in {"open", "lost"}
  /\ status' = [status EXCEPT ![s] = outcome]
  /\ UNCHANGED passedUp

PassUp(s) ==
  /\ status[s] \in {"open", "givenUp"} /\ s \notin passedUp
  /\ passedUp' = passedUp \cup {s}
  /\ UNCHANGED status

\* A report can acknowledge several SDUs.
Acknowledge(S) ==
  /\ \A s \in S : status[s] = "open" /\ s \in passedUp
  /\ status' = [s \in Sdu |-> IF s \in S THEN "acked" ELSE status[s]]
  /\ UNCHANGED passedUp

GiveUp(s) ==
  /\ status[s] = "open"
  /\ status' = [status EXCEPT ![s] = "givenUp"]
  /\ UNCHANGED passedUp

Next ==
  \/ \E s \in Sdu : \E o \in {"open", "lost"} : Send(s, o)
  \/ \E s \in Sdu : PassUp(s) \/ GiveUp(s)
  \/ \E S \in (SUBSET Sdu) \ {{}} : Acknowledge(S)

Spec == Init /\ [][Next]_svars
=============================================================================
