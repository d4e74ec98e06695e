----------------------------- MODULE MCElevator -----------------------------
(***************************************************************************)
(* Elevator in a building of three floors.                                 *)
(***************************************************************************)
EXTENDS Elevator
=============================================================================
