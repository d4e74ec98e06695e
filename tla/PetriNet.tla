------------------------------ MODULE PetriNet -----------------------------
(***************************************************************************)
(* The promise of the engine, "a C++ library that implements the rules of  *)
(* Petri nets": a marking changes only by a token that the environment     *)
(* puts in an input place, and by firings. A firing happens at an instant: *)
(* the marking it consumes is the one at which the transition is enabled.  *)
(***************************************************************************)
EXTENDS Net

VARIABLE marking

Init == marking = InitialTokens

AddToken(p) ==
    /\ p \in InputPlace
    /\ marking' = [marking EXCEPT ![p] = @ + 1]

Fire(t) ==
    /\ Enabled(marking, t)
    /\ marking' = AfterFiring(marking, t)

Next ==
    \/ \E p \in InputPlace : AddToken(p)
    \/ \E t \in Transition : Fire(t)

Spec == Init /\ [][Next]_marking
=============================================================================
