---------------------------- MODULE MCNetEditor ----------------------------
(***************************************************************************)
(* NetEditor on two places, one transition and weights up to 1.            *)
(***************************************************************************)
EXTENDS NetEditor

CONSTANTS p, q, t

Arcs(activation, destination, inhibitor) ==
    [activation |-> activation, destination |-> destination, inhibitor |-> inhibitor]

FromP == [place |-> p, weight |-> 1]

Descriptions ==
    {[arcs |-> Arcs({}, {}, {}), condition |-> "anonymous"],
     [arcs |-> Arcs({FromP}, {}, {}), condition |-> "named"]}

FileArcTo(place, type, weight) ==
    [transition |-> t, type |-> type, place |-> place, weight |-> weight]

\* A transition with an arc of its own, a bidirectional and a reset arc.
Files ==
    {[places |-> [x \in {p, q} |-> IF x = p THEN "named" ELSE "none"],
      transitions |-> [x \in {t} |-> [arcs |-> Arcs({FromP}, {}, {}), condition |-> "none"]],
      arcs |-> {FileArcTo(q, "bidirectional", 0), FileArcTo(p, "inhibitor", 1)}]}
=============================================================================
