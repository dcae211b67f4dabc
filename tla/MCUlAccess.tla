----------------------------- MODULE MCUlAccess -----------------------------
(* Two UEs, one with a good channel and one whose blocks carry two bytes.   *)
EXTENDS UlAccess

MCUe == {1, 2}
MCBytesPerBlock == [u \in MCUe |-> IF u = 1 THEN 10 ELSE 2]
=============================================================================
