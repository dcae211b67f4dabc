----------------------------- MODULE MCHandover -----------------------------
(* Cells and signal levels for model checking HandoverController.           *)
EXTENDS HandoverController

\* Two masters, a secondary node of each, and a gNodeB of its own.
Topology == [M1 |-> "M1", M2 |-> "M2", S1 |-> "M1", S2 |-> "M2", G |-> "G"]

\* Too weak, and two levels that differ by more than the hysteresis.
Levels == {0, 20, 40}
=============================================================================
