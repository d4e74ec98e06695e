-------------------------------- MODULE Net --------------------------------
(***************************************************************************)
(* The structure of a Petri net as the engine keeps it: each transition    *)
(* owns three vectors of arcs (Transition::m_activationArcs,               *)
(* m_destinationArcs, m_inhibitorArcs), an arc being a place and a weight. *)
(* The vectors are sequences because the code visits them in order.        *)
(***************************************************************************)
EXTENDS Naturals, Sequences

CONSTANTS
    Place, Transition,
    InputPlace,           \* places created with PlaceProperties::input
    Activation,           \* [Transition -> Seq(Arc)]
    Destination,
    Inhibitor,
    RequireNoActions,     \* transitions with requireNoActionsInExecution
    Conditioned,          \* transitions with additional activation conditions
    OnEnter, OnExit,      \* places with an on-enter, an on-exit action
    InitialTokens,        \* [Place -> Nat]
    MaxTokens             \* the largest value of m_numberOfTokens (ULLONG_MAX)

Arc == [place : Place, weight : 0..MaxTokens]

(***************************************************************************)
(* No place occurs twice in one vector: the constructor of Transition      *)
(* throws on a repetition, addArc on "Arc already exists".                 *)
(***************************************************************************)
DistinctPlaces(arcs) ==
    \A i, j \in 1..Len(arcs) : arcs[i].place = arcs[j].place => i = j

IsArcTable(table) ==
    /\ table \in [Transition -> Seq(Arc)]
    /\ \A t \in Transition : DistinctPlaces(table[t])

ASSUME NetAssumption ==
    /\ MaxTokens \in Nat
    /\ IsArcTable(Activation)
    /\ IsArcTable(Destination)
    /\ IsArcTable(Inhibitor)
    /\ InputPlace \subseteq Place
    /\ OnEnter \subseteq Place
    /\ OnExit \subseteq Place
    /\ RequireNoActions \subseteq Transition
    /\ Conditioned \subseteq Transition
    /\ InitialTokens \in [Place -> 0..MaxTokens]

(***************************************************************************)
(* What the two checks of Transition::isEnabledInternal ask of a marking   *)
(* m (a function from places to token counts).                             *)
(***************************************************************************)
NotInhibited(m, t) ==
    \A i \in 1..Len(Inhibitor[t]) : m[Inhibitor[t][i].place] = 0

EnoughTokens(m, t) ==
    \A i \in 1..Len(Activation[t]) :
        m[Activation[t][i].place] >= Activation[t][i].weight

Enabled(m, t) == NotInhibited(m, t) /\ EnoughTokens(m, t)

PlacesOf(arcs) == {arcs[i].place : i \in 1..Len(arcs)}

(***************************************************************************)
(* The weight that arcs from position k on put on place p, 0 for none      *)
(* (places of a vector are distinct).                                      *)
(***************************************************************************)
WeightFrom(arcs, k, p) ==
    IF \E i \in k..Len(arcs) : arcs[i].place = p
    THEN arcs[CHOOSE i \in k..Len(arcs) : arcs[i].place = p].weight
    ELSE 0

(***************************************************************************)
(* A reset arc, weight 0, takes every token.                               *)
(***************************************************************************)
Remaining(n, w) == IF w = 0 THEN 0 ELSE n - w

(***************************************************************************)
(* Place p of marking m after the activation arcs from position k on have  *)
(* been left and the destination arcs from position l on been entered.     *)
(***************************************************************************)
AfterExits(m, t, k, p) ==
    IF \E i \in k..Len(Activation[t]) : Activation[t][i].place = p
    THEN Remaining(m[p], WeightFrom(Activation[t], k, p))
    ELSE m[p]

AfterFiring(m, t) ==
    [p \in Place |-> AfterExits(m, t, 1, p) + WeightFrom(Destination[t], 1, p)]
=============================================================================
