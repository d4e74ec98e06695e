---------------------------- MODULE MCEngineModes ----------------------------
(***************************************************************************)
(* EngineModes on a small instance: two places, of which the action of one *)
(* puts a token into an input place.                                       *)
(***************************************************************************)
EXTENDS EngineModes

CONSTANTS p, q

TwoPlaces == {p, q}
FirstPlace == {p}
=============================================================================
