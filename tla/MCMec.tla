------------------------------- MODULE MCMec -------------------------------
(* Two device applications ask for the same application, a third asks for  *)
(* an emulated one that needs twice the resources.                         *)
EXTENDS Mec, TLC
CONSTANTS d1, d2, d3, a, b
MCWants == d1 :> a @@ d2 :> a @@ d3 :> b
MCSameApp == d1 :> a @@ d2 :> a
MCCost == a :> 1 @@ b :> 2
=============================================================================
