-------------------------- MODULE MCUmassRequest --------------------------
(* Device 1 is not a mass-storage device; MCTwo has two that are.          *)
EXTENDS UmassRequest, TLC

MCOne == 2 :> 0
MCTwo == (2 :> 0) @@ (3 :> 1)
===========================================================================
