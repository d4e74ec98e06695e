-------------------------- MODULE NetEditorProofs --------------------------
(***************************************************************************)
(* What holds of the editing of nets for any names, weights and files.     *)
(***************************************************************************)
EXTENDS NetEditor, FiniteSetTheorems, TLAPS

\* What keeps its type whichever part of a net a call writes.
NetTyped ==
    /\ Maps(places, PlaceName, Function)
    /\ Maps(transitions, TransitionName, Description)

\* Where an import has got to.
ImportTyped ==
    /\ importing \in {"no", "option", "places", "transitions", "arcs", "done", "failed"}
    /\ file \in File \cup {NoFile}
    /\ importing = "places" => rest \subseteq DOMAIN file.places
    /\ importing = "transitions" => rest \subseteq DOMAIN file.transitions
    /\ importing = "arcs" => rest \subseteq file.arcs

-----------------------------------------------------------------------------
\* A partial function with one more point is one still.
LEMMA WithMaps ==
    ASSUME NEW S, NEW T, NEW f, Maps(f, S, T), NEW x \in S, NEW y \in T
    PROVE  Maps(With(f, x, y), S, T)
BY DEF Maps, With

\* So is one with one value changed.
LEMMA ExceptMaps ==
    ASSUME NEW S, NEW T, NEW f, Maps(f, S, T), NEW x \in DOMAIN f, NEW y \in T
    PROVE  Maps([f EXCEPT ![x] = y], S, T)
BY DEF Maps

\* The file that is being imported is well typed.
LEMMA FileTyped == ImportTyped => IsFile(file)
<1>1. IsFile(NoFile)
  BY DEF IsFile, NoFile, Empty, Maps
<1>2. QED
  BY <1>1, NetEditorAssumption DEF ImportTyped

\* Adding an arc to vectors keeps them vectors of arcs.
LEMMA WithArcTyped ==
    ASSUME NEW arcs \in [Vector -> SUBSET Arc], NEW type, NEW arc \in Arc
    PROVE  WithArc(arcs, type, arc) \in [Vector -> SUBSET Arc]
BY DEF WithArc

\* And so does removing one.
LEMMA WithoutArcTyped ==
    ASSUME NEW arcs \in [Vector -> SUBSET Arc], NEW type, NEW p
    PROVE  WithoutArc(arcs, type, p) \in [Vector -> SUBSET Arc]
BY DEF WithoutArc

\* A transition whose arcs are replaced is a description still.
LEMMA ArcsReplaced ==
    ASSUME NEW d \in Description, NEW arcs \in [Vector -> SUBSET Arc]
    PROVE  [d EXCEPT !.arcs = arcs] \in Description
BY DEF Description

-----------------------------------------------------------------------------
(* Each call keeps the types of the net and leaves it well formed.         *)
LEMMA CreatePlaceKeeps ==
    ASSUME NetTyped, WellFormed,
           NEW p \in PlaceName, NEW action \in Function, CreatePlace(p, action)
    PROVE  NetTyped' /\ WellFormed'
<1>1. NetTyped'
  BY WithMaps DEF NetTyped, CreatePlace
<1>2. WellFormed'
  BY DEF CreatePlace, WellFormed, Exists, With
<1>3. QED
  BY <1>1, <1>2

LEMMA CreateTransitionKeeps ==
    ASSUME NetTyped, WellFormed,
           NEW t \in TransitionName, NEW description \in Description,
           CreateTransition(t, description)
    PROVE  NetTyped' /\ WellFormed'
<1>1. NetTyped'
  BY WithMaps DEF NetTyped, CreateTransition
<1>2. ASSUME NEW u \in DOMAIN transitions', NEW v \in Vector
      PROVE  /\ Distinct(transitions'[u].arcs[v])
             /\ \A arc \in transitions'[u].arcs[v] : Exists(arc.place)'
  <2>1. CASE u = t
    BY <2>1 DEF CreateTransition, CanCreateTransition, Acceptable, Exists, With
  <2>2. CASE u # t
    BY <1>2, <2>2 DEF CreateTransition, WellFormed, Exists, With
  <2>3. QED
    BY <2>1, <2>2
<1>3. QED
  BY <1>1, <1>2 DEF WellFormed, Distinct

LEMMA AddArcKeeps ==
    ASSUME NetTyped, WellFormed,
           NEW t, NEW type, NEW arc \in Arc, AddArc(t, type, arc)
    PROVE  NetTyped' /\ WellFormed'
<1> DEFINE arcs == WithArc(transitions[t].arcs, type, arc)
<1>1. t \in DOMAIN transitions /\ Exists(arc.place)
  BY DEF AddArc, MayEditArcs
<1>2. transitions[t] \in Description
  BY <1>1 DEF NetTyped, Maps
<1>3. arcs \in [Vector -> SUBSET Arc]
  BY <1>2, WithArcTyped DEF Description
<1>4. [transitions[t] EXCEPT !.arcs = arcs] \in Description
  BY <1>2, <1>3, ArcsReplaced
<1>5. transitions' = [transitions EXCEPT ![t] = [transitions[t] EXCEPT !.arcs = arcs]]
  BY DEF AddArc
<1>6. NetTyped'
  <2>1. Maps(transitions, TransitionName, Description)
    BY DEF NetTyped
  <2>2. \A d \in Description :
           Maps([transitions EXCEPT ![t] = d], TransitionName, Description)
    BY <1>1, <2>1, ExceptMaps
  <2>3. Maps(transitions', TransitionName, Description)
    BY <1>4, <1>5, <2>2
  <2>4. QED
    BY <2>3 DEF NetTyped, AddArc
<1>7. ASSUME NEW u \in DOMAIN transitions', NEW v \in Vector
      PROVE  /\ Distinct(transitions'[u].arcs[v])
             /\ \A a \in transitions'[u].arcs[v] : Exists(a.place)'
  <2>1. places' = places
    BY DEF AddArc
  <2>2. CASE u # t
    BY <1>5, <1>7, <2>1, <2>2 DEF WellFormed, Exists
  <2>3. CASE u = t
    <3>1. transitions'[u].arcs = arcs
      BY <1>1, <1>2, <1>5, <2>3 DEF Description
    <3>2. /\ Distinct(transitions[t].arcs[v])
          /\ \A a \in transitions[t].arcs[v] : Exists(a.place)
      BY <1>1, <1>7 DEF WellFormed
    <3>3. CASE v \in AddsTo(transitions[t].arcs, type, arc.place)
      <4>1. arcs[v] = transitions[t].arcs[v] \cup {arc}
        BY <1>7, <3>3 DEF WithArc
      <4>2. \A a \in transitions[t].arcs[v] : a.place # arc.place
        BY <3>3 DEF AddsTo, Has
      <4>3. QED
        BY <1>1, <2>1, <3>1, <3>2, <4>1, <4>2 DEF Distinct, Exists
    <3>4. CASE v \notin AddsTo(transitions[t].arcs, type, arc.place)
      <4>1. arcs[v] = transitions[t].arcs[v]
        BY <1>7, <3>4 DEF WithArc
      <4>2. QED
        BY <2>1, <3>1, <3>2, <4>1 DEF Exists
    <3>5. QED
      BY <3>3, <3>4
  <2>4. QED
    BY <2>2, <2>3
<1>8. QED
  BY <1>6, <1>7 DEF WellFormed, Distinct

LEMMA RemoveArcKeeps ==
    ASSUME NetTyped, WellFormed, NEW t, NEW type, NEW p, RemoveArc(t, type, p)
    PROVE  NetTyped' /\ WellFormed'
<1> DEFINE arcs == WithoutArc(transitions[t].arcs, type, p)
<1>1. t \in DOMAIN transitions
  BY DEF RemoveArc, MayEditArcs
<1>2. transitions[t] \in Description
  BY <1>1 DEF NetTyped, Maps
<1>3. arcs \in [Vector -> SUBSET Arc]
  BY <1>2, WithoutArcTyped DEF Description
<1>4. [transitions[t] EXCEPT !.arcs = arcs] \in Description
  BY <1>2, <1>3, ArcsReplaced
<1>5. transitions' = [transitions EXCEPT ![t] = [transitions[t] EXCEPT !.arcs = arcs]]
  BY DEF RemoveArc
<1>6. NetTyped'
  <2>1. Maps(transitions, TransitionName, Description)
    BY DEF NetTyped
  <2>2. \A d \in Description :
           Maps([transitions EXCEPT ![t] = d], TransitionName, Description)
    BY <1>1, <2>1, ExceptMaps
  <2>3. Maps(transitions', TransitionName, Description)
    BY <1>4, <1>5, <2>2
  <2>4. QED
    BY <2>3 DEF NetTyped, RemoveArc
<1>7. ASSUME NEW u \in DOMAIN transitions', NEW v \in Vector
      PROVE  /\ u \in DOMAIN transitions
             /\ transitions'[u].arcs[v] \subseteq transitions[u].arcs[v]
  <2>1. CASE u # t
    BY <1>5, <1>7, <2>1
  <2>2. CASE u = t
    <3>1. transitions'[u].arcs = arcs
      BY <1>1, <1>2, <1>5, <2>2 DEF Description
    <3>2. arcs[v] \subseteq transitions[t].arcs[v]
      BY <1>7 DEF WithoutArc
    <3>3. QED
      BY <1>1, <2>2, <3>1, <3>2
  <2>3. QED
    BY <2>1, <2>2
<1>8. places' = places
  BY DEF RemoveArc
<1>9. QED
  BY <1>6, <1>7, <1>8 DEF WellFormed, Distinct, Exists

LEMMA ClearNetKeeps == ClearNet => NetTyped' /\ WellFormed'
BY DEF ClearNet, NetTyped, WellFormed, Maps, Empty

LEMMA SameNetKeeps == NetTyped /\ WellFormed /\ UNCHANGED net => NetTyped' /\ WellFormed'
BY DEF net, NetTyped, WellFormed, Distinct, Exists, Maps

-----------------------------------------------------------------------------
(* The steps of an import, whose file is not to be trusted with more than  *)
(* its types.                                                              *)
LEMMA ImportKeepsNet ==
    ASSUME NetTyped, WellFormed, ImportTyped, Import
    PROVE  NetTyped' /\ WellFormed'
<1> USE SameNetKeeps
<1>1. IsFile(file)
  BY FileTyped
<1>2. ASSUME NEW f \in File, BeginImport(f) PROVE NetTyped' /\ WellFormed'
  BY <1>2 DEF BeginImport
<1>3. CASE ImportOption
  BY <1>3 DEF ImportOption
<1>4. ASSUME NEW p \in PlaceName, ImportPlace(p) PROVE NetTyped' /\ WellFormed'
  <2>1. file.places[p] \in Function
    BY <1>1, <1>4 DEF ImportPlace, ImportTyped, IsFile, Maps, Function
  <2>2. QED
    BY <1>4, <2>1, CreatePlaceKeeps DEF ImportPlace
<1>5. ASSUME NEW t \in TransitionName, ImportTransition(t) PROVE NetTyped' /\ WellFormed'
  <2>1. file.transitions[t] \in Description
    BY <1>1, <1>5 DEF ImportTransition, ImportTyped, IsFile, Maps
  <2>2. QED
    BY <1>5, <2>1, CreateTransitionKeeps DEF ImportTransition
<1>6. ASSUME NEW a \in FileArc, ImportArc(a) PROVE NetTyped' /\ WellFormed'
  <2>1. ArcOf(a) \in Arc
    BY <1>6 DEF FileArc, Arc, ArcOf
  <2>2. QED
    BY <1>6, <2>1, AddArcKeeps DEF ImportArc
<1>7. CASE ImportNextSection
  BY <1>7 DEF ImportNextSection
<1>8. CASE ImportMalformed
  BY <1>8 DEF ImportMalformed
<1>9. QED
  BY <1>2, <1>3, <1>4, <1>5, <1>6, <1>7, <1>8 DEF Import

LEMMA ImportKeepsImport ==
    ASSUME ImportTyped, Import
    PROVE  ImportTyped'
<1> USE DEF ImportTyped, ImportGoesTo, ImportFails
<1>1. ASSUME NEW f \in File, BeginImport(f) PROVE ImportTyped'
  BY <1>1 DEF BeginImport
<1>2. CASE ImportOption
  BY <1>2 DEF ImportOption
<1>3. ASSUME NEW p \in PlaceName, ImportPlace(p) PROVE ImportTyped'
  BY <1>3 DEF ImportPlace
<1>4. ASSUME NEW t \in TransitionName, ImportTransition(t) PROVE ImportTyped'
  BY <1>4 DEF ImportTransition
<1>5. ASSUME NEW a \in FileArc, ImportArc(a) PROVE ImportTyped'
  BY <1>5 DEF ImportArc
<1>6. CASE ImportNextSection
  BY <1>6 DEF ImportNextSection
<1>7. CASE ImportMalformed
  BY <1>7 DEF ImportMalformed
<1>8. QED
  BY <1>1, <1>2, <1>3, <1>4, <1>5, <1>6, <1>7 DEF Import

-----------------------------------------------------------------------------
IInv == NetTyped /\ ImportTyped /\ WellFormed

LEMMA IInvInit == Init => IInv
BY DEF Init, IInv, NetTyped, ImportTyped, WellFormed, Maps, Empty

LEMMA IInvStep == IInv /\ [Next]_vars => IInv'
<1> SUFFICES ASSUME IInv, [Next]_vars PROVE IInv'
  OBVIOUS
<1> USE DEF IInv
<1>1. CASE Import
  BY <1>1, ImportKeepsNet, ImportKeepsImport
<1>2. ASSUME UNCHANGED import PROVE ImportTyped'
  BY <1>2 DEF ImportTyped, import
<1>3. CASE Create
  <2>1. ASSUME NEW p \in PlaceName, NEW action \in Function, CreatePlace(p, action)
        PROVE  NetTyped' /\ WellFormed'
    BY <2>1, CreatePlaceKeeps
  <2>2. ASSUME NEW t \in TransitionName, NEW description \in Offered,
               CreateTransition(t, description)
        PROVE  NetTyped' /\ WellFormed'
    <3>1. description \in Description
      BY NetEditorAssumption
    <3>2. QED
      BY <2>2, <3>1, CreateTransitionKeeps
  <2>3. ASSUME NEW t \in TransitionName, NEW type \in ArcType, NEW arc \in Arc,
               AddArc(t, type, arc)
        PROVE  NetTyped' /\ WellFormed'
    BY <2>3, AddArcKeeps
  <2>4. UNCHANGED import
    BY <1>3 DEF Create
  <2>5. NetTyped' /\ WellFormed'
    BY <1>3, <2>1, <2>2, <2>3 DEF Create
  <2>6. QED
    BY <1>2, <2>4, <2>5
<1>4. CASE Remove
  <2>1. UNCHANGED import
    BY <1>4 DEF Remove
  <2>2. NetTyped' /\ WellFormed'
    BY <1>4, ClearNetKeeps, RemoveArcKeeps DEF Remove
  <2>3. QED
    BY <1>2, <2>1, <2>2
<1>5. CASE Register \/ Execute \/ Stop \/ UNCHANGED vars
  <2>1. UNCHANGED net /\ UNCHANGED import
    BY <1>5 DEF Register, Execute, Stop, vars
  <2>2. QED
    BY <1>2, <2>1, SameNetKeeps
<1>6. QED
  BY <1>1, <1>3, <1>4, <1>5 DEF Next

(***************************************************************************)
(* Every arc of the net leads to a place of the net and no place occurs    *)
(* twice in a vector of arcs, whatever calls were made and wherever an     *)
(* import was broken off.                                                  *)
(***************************************************************************)
THEOREM NetIsWellFormed == Spec => []WellFormed
<1>1. Init => IInv
  BY IInvInit
<1>2. IInv /\ [Next]_vars => IInv'
  BY IInvStep
<1>3. IInv => WellFormed
  BY DEF IInv
<1>4. QED
  BY <1>1, <1>2, <1>3, PTL DEF Spec

-----------------------------------------------------------------------------
LEMMA FlagsTyped ==
    ASSUME running \in BOOLEAN, registered \in BOOLEAN, kept \in BOOLEAN, [Next]_vars
    PROVE  running' \in BOOLEAN /\ registered' \in BOOLEAN /\ kept' \in BOOLEAN
<1>1. CASE Import
  BY <1>1 DEF Import, BeginImport, ImportOption, ImportPlace, ImportTransition, ImportArc,
              ImportNextSection, ImportMalformed, ImportFails, ImportGoesTo
<1>2. CASE Create \/ Remove
  BY <1>2 DEF Create, Remove
<1>3. CASE Register \/ Execute \/ Stop \/ UNCHANGED vars
  BY <1>3 DEF Register, Execute, Stop, vars
<1>4. QED
  BY <1>1, <1>2, <1>3 DEF Next

(***************************************************************************)
(* Every variable keeps its type; in particular an import never has more   *)
(* before it than its file holds.                                          *)
(***************************************************************************)
THEOREM TypeCorrect == Spec => []TypeOK
<1> DEFINE Typed == /\ IInv
                    /\ running \in BOOLEAN /\ registered \in BOOLEAN /\ kept \in BOOLEAN
<1>1. Init => Typed
  BY IInvInit DEF Init
<1>2. Typed /\ [Next]_vars => Typed'
  BY IInvStep, FlagsTyped
<1>3. Typed => TypeOK
  BY DEF IInv, NetTyped, ImportTyped, TypeOK
<1>4. QED
  BY <1>1, <1>2, <1>3, PTL DEF Spec

-----------------------------------------------------------------------------
(* What a step of a running engine leaves of the net.                      *)
Grows ==
    /\ \A p \in DOMAIN places : Exists(p)' /\ places'[p] = places[p]
    /\ \A t \in DOMAIN transitions :
          t \in DOMAIN transitions' /\ transitions'[t] = transitions[t]

LEMMA CreatingGrows ==
    /\ \A p, action : CreatePlace(p, action) => Grows
    /\ \A t, description : CreateTransition(t, description) => Grows
BY DEF CreatePlace, CanCreatePlace, CreateTransition, CanCreateTransition, Exists, With, Grows

LEMMA SameNetGrows == UNCHANGED net => Grows
BY DEF net, Grows, Exists

LEMMA StepGrows == running /\ [Next]_vars => Grows
<1> SUFFICES ASSUME running, [Next]_vars PROVE Grows
  OBVIOUS
<1>1. CASE Create
  BY <1>1, CreatingGrows DEF Create, AddArc, MayEditArcs
<1>2. ~Remove
  BY DEF Remove, RemoveArc, MayEditArcs, ClearNet
<1>3. CASE Import
  <2>1. \A t, type, arc : ~AddArc(t, type, arc)
    BY DEF AddArc, MayEditArcs
  <2>2. ASSUME NEW p \in PlaceName, ImportPlace(p) PROVE Grows
    BY <2>2, CreatingGrows, SameNetGrows DEF ImportPlace
  <2>3. ASSUME NEW t \in TransitionName, ImportTransition(t) PROVE Grows
    BY <2>3, CreatingGrows, SameNetGrows DEF ImportTransition
  <2>4. ASSUME NEW a \in FileArc, ImportArc(a) PROVE Grows
    BY <2>1, <2>4, SameNetGrows DEF ImportArc
  <2>5. ASSUME NEW f \in File, BeginImport(f) PROVE Grows
    BY <2>5, SameNetGrows DEF BeginImport
  <2>6. CASE ImportOption \/ ImportNextSection \/ ImportMalformed
    BY <2>6, SameNetGrows DEF ImportOption, ImportNextSection, ImportMalformed
  <2>7. QED
    BY <1>3, <2>2, <2>3, <2>4, <2>5, <2>6 DEF Import
<1>4. CASE Register \/ Execute \/ Stop \/ UNCHANGED vars
  BY <1>4, SameNetGrows DEF Register, Execute, Stop, vars
<1>5. QED
  BY <1>1, <1>2, <1>3, <1>4 DEF Next

(***************************************************************************)
(* While the loop runs no call and no step of an import takes away or      *)
(* changes anything of the net.                                            *)
(***************************************************************************)
THEOREM RunningNetOnlyGrows == Spec => OnlyGrowsWhileRunning
<1>1. [Next]_vars => [running => Grows]_vars
  BY StepGrows
<1>2. QED
  BY <1>1, PTL DEF Spec, OnlyGrowsWhileRunning, Grows

-----------------------------------------------------------------------------
(***************************************************************************)
(* What of its file an import has put into the net stays there as long as  *)
(* nothing is removed, whoever else adds to the net.                       *)
(***************************************************************************)
Extends ==
    /\ \A p \in DOMAIN places : Exists(p)' /\ places'[p] = places[p]
    /\ \A t \in DOMAIN transitions :
          /\ t \in DOMAIN transitions'
          /\ transitions'[t].condition = transitions[t].condition
          /\ \A v \in Vector : transitions[t].arcs[v] \subseteq transitions'[t].arcs[v]

PlaceDone(p) == Exists(p) /\ places[p] = file.places[p]

TransitionDone(t) ==
    /\ t \in DOMAIN transitions
    /\ transitions[t].condition = file.transitions[t].condition
    /\ \A v \in Vector : file.transitions[t].arcs[v] \subseteq transitions[t].arcs[v]

ArcDone(a) ==
    /\ a.transition \in DOMAIN transitions
    /\ \A v \in Parts(a.type) : ArcOf(a) \in transitions[a.transition].arcs[v]

PlacesDone ==
    importing \in {"places", "transitions", "arcs", "done"} =>
        \A p \in DOMAIN file.places : PlaceDone(p) \/ (importing = "places" /\ p \in rest)

TransitionsDone ==
    importing \in {"transitions", "arcs", "done"} =>
        \A t \in DOMAIN file.transitions :
            TransitionDone(t) \/ (importing = "transitions" /\ t \in rest)

ArcsDone ==
    importing \in {"arcs", "done"} =>
        \A a \in file.arcs : ArcDone(a) \/ (importing = "arcs" /\ a \in rest)

Progress == PlacesDone /\ TransitionsDone /\ ArcsDone

LEMMA GrowsExtends == Grows => Extends
BY DEF Grows, Extends

LEMMA AddArcExtends ==
    ASSUME NetTyped, NEW t, NEW type, NEW arc, AddArc(t, type, arc)
    PROVE  Extends
<1> DEFINE arcs == WithArc(transitions[t].arcs, type, arc)
<1>1. t \in DOMAIN transitions /\ transitions[t] \in Description
  BY DEF AddArc, MayEditArcs, NetTyped, Maps
<1>2. transitions' = [transitions EXCEPT ![t] = [transitions[t] EXCEPT !.arcs = arcs]]
      /\ places' = places
  BY DEF AddArc
<1>3. transitions'[t].arcs = arcs /\ transitions'[t].condition = transitions[t].condition
  BY <1>1, <1>2 DEF Description
<1>4. \A v \in Vector : transitions[t].arcs[v] \subseteq arcs[v]
  BY DEF WithArc
<1>5. ASSUME NEW u \in DOMAIN transitions
      PROVE  /\ u \in DOMAIN transitions'
             /\ transitions'[u].condition = transitions[u].condition
             /\ \A v \in Vector : transitions[u].arcs[v] \subseteq transitions'[u].arcs[v]
  <2>1. CASE u = t
    BY <1>1, <1>2, <1>3, <1>4, <2>1
  <2>2. CASE u # t
    BY <1>2, <1>5, <2>2
  <2>3. QED
    BY <2>1, <2>2
<1>6. QED
  BY <1>2, <1>5 DEF Extends, Exists

\* What is done stays done.
LEMMA StaysDone ==
    ASSUME Extends, file' = file
    PROVE  /\ \A p : PlaceDone(p) => PlaceDone(p)'
           /\ \A t : TransitionDone(t) => TransitionDone(t)'
           /\ \A a \in FileArc : ArcDone(a) => ArcDone(a)'
<1>1. \A p : PlaceDone(p) => PlaceDone(p)'
  BY DEF PlaceDone, Extends, Exists
<1>2. ASSUME NEW t, TransitionDone(t)
      PROVE  TransitionDone(t)'
  BY <1>2 DEF TransitionDone, Extends
<1>3. ASSUME NEW a \in FileArc, ArcDone(a)
      PROVE  ArcDone(a)'
  <2>1. Parts(a.type) \subseteq Vector
    BY DEF FileArc, ArcType, Parts, Vector
  <2>2. QED
    BY <1>3, <2>1 DEF ArcDone, Extends
<1>4. QED
  BY <1>1, <1>2, <1>3

LEMMA ProgressStays ==
    ASSUME ImportTyped, Progress, Extends, UNCHANGED import
    PROVE  Progress'
<1>1. file' = file /\ importing' = importing /\ rest' = rest
  BY DEF import
<1>2. file.arcs \subseteq FileArc
  BY FileTyped DEF IsFile
<1>3. PlacesDone'
  BY <1>1, StaysDone DEF Progress, PlacesDone
<1>4. TransitionsDone'
  BY <1>1, StaysDone DEF Progress, TransitionsDone
<1>5. ArcsDone'
  BY <1>1, <1>2, StaysDone DEF Progress, ArcsDone
<1>6. QED
  BY <1>3, <1>4, <1>5 DEF Progress

-----------------------------------------------------------------------------
(* Each call of the import that is not refused does its part.              *)
LEMMA ImportPlaceDone ==
    ASSUME ImportTyped, Progress, NEW p \in PlaceName, ImportPlace(p)
    PROVE  Progress'
<1>1. CASE ImportFails
  BY <1>1 DEF ImportFails, ImportGoesTo, Progress, PlacesDone, TransitionsDone, ArcsDone
<1>2. CASE CreatePlace(p, file.places[p]) /\ ImportGoesTo("places", rest \ {p})
  <2>1. file' = file /\ importing = "places" /\ importing' = "places" /\ rest' = rest \ {p}
    BY <1>2 DEF ImportPlace, ImportGoesTo
  <2>2. Extends
    BY <1>2, CreatingGrows, GrowsExtends
  <2>3. PlaceDone(p)'
    BY <1>2, <2>1 DEF CreatePlace, PlaceDone, Exists, With
  <2>4. PlacesDone'
    BY <2>1, <2>2, <2>3, StaysDone DEF Progress, PlacesDone
  <2>5. QED
    BY <2>1, <2>4 DEF Progress, TransitionsDone, ArcsDone
<1>3. QED
  BY <1>1, <1>2 DEF ImportPlace

LEMMA ImportTransitionDone ==
    ASSUME ImportTyped, Progress, NEW t \in TransitionName, ImportTransition(t)
    PROVE  Progress'
<1>1. CASE ImportFails
  BY <1>1 DEF ImportFails, ImportGoesTo, Progress, PlacesDone, TransitionsDone, ArcsDone
<1>2. CASE CreateTransition(t, file.transitions[t]) /\ ImportGoesTo("transitions", rest \ {t})
  <2>1. /\ file' = file /\ importing = "transitions" /\ importing' = "transitions"
        /\ rest' = rest \ {t}
    BY <1>2 DEF ImportTransition, ImportGoesTo
  <2>2. Extends
    BY <1>2, CreatingGrows, GrowsExtends
  <2>3. TransitionDone(t)'
    BY <1>2, <2>1 DEF CreateTransition, TransitionDone, With
  <2>4. TransitionsDone'
    BY <2>1, <2>2, <2>3, StaysDone DEF Progress, TransitionsDone
  <2>5. PlacesDone'
    BY <2>1, <2>2, StaysDone DEF Progress, PlacesDone
  <2>6. QED
    BY <2>1, <2>4, <2>5 DEF Progress, ArcsDone
<1>3. QED
  BY <1>1, <1>2 DEF ImportTransition

\* addArc that does not throw has put the arc into all of its vectors.
LEMMA ArcIsAdded ==
    ASSUME NetTyped, NEW a \in FileArc, AddArc(a.transition, a.type, ArcOf(a)),
           ~AddArcThrows(a)
    PROVE  ArcDone(a)'
<1> DEFINE arcs == WithArc(transitions[a.transition].arcs, a.type, ArcOf(a))
<1>1. a.transition \in DOMAIN transitions /\ transitions[a.transition] \in Description
  BY DEF AddArc, MayEditArcs, NetTyped, Maps
<1>2. transitions' = [transitions EXCEPT ![a.transition] =
                        [transitions[a.transition] EXCEPT !.arcs = arcs]]
  BY DEF AddArc
<1>3. a.transition \in DOMAIN transitions' /\ transitions'[a.transition].arcs = arcs
  BY <1>1, <1>2 DEF Description
<1>4. AddsTo(transitions[a.transition].arcs, a.type, ArcOf(a).place) = Parts(a.type)
  BY DEF AddArcThrows, ArcOf
<1>5. Parts(a.type) \subseteq Vector
  BY DEF FileArc, ArcType, Parts, Vector
<1>6. \A v \in Parts(a.type) : ArcOf(a) \in arcs[v]
  BY <1>4, <1>5 DEF WithArc
<1>7. QED
  BY <1>3, <1>6 DEF ArcDone

LEMMA ImportArcDone ==
    ASSUME NetTyped, ImportTyped, Progress, NEW a \in FileArc, ImportArc(a)
    PROVE  Progress'
<1>1. CASE ImportFails
  BY <1>1 DEF ImportFails, ImportGoesTo, Progress, PlacesDone, TransitionsDone, ArcsDone
<1>2. CASE /\ AddArc(a.transition, a.type, ArcOf(a)) /\ ~AddArcThrows(a)
           /\ ImportGoesTo("arcs", rest \ {a})
  <2>1. file' = file /\ importing = "arcs" /\ importing' = "arcs" /\ rest' = rest \ {a}
    BY <1>2 DEF ImportArc, ImportGoesTo
  <2>2. Extends
    BY <1>2, AddArcExtends
  <2>3. ArcDone(a)'
    BY <1>2, ArcIsAdded
  <2>4. file.arcs \subseteq FileArc
    BY FileTyped DEF IsFile
  <2>5. ArcsDone'
    BY <2>1, <2>2, <2>3, <2>4, StaysDone DEF Progress, ArcsDone
  <2>6. PlacesDone' /\ TransitionsDone'
    BY <2>1, <2>2, StaysDone DEF Progress, PlacesDone, TransitionsDone
  <2>7. QED
    BY <2>5, <2>6 DEF Progress
<1>3. QED
  BY <1>1, <1>2 DEF ImportArc

\* A section begins with all that the file holds and ends with nothing left.
LEMMA SectionDone ==
    ASSUME Progress, UNCHANGED net,
           BeginImport(file') \/ ImportOption \/ ImportNextSection \/ ImportMalformed
    PROVE  Progress'
<1> USE DEF Progress, PlacesDone, TransitionsDone, ArcsDone, ImportGoesTo, ImportFails
<1>1. CASE BeginImport(file')
  BY <1>1 DEF BeginImport
<1>2. CASE ImportMalformed
  BY <1>2 DEF ImportMalformed
<1>3. CASE ImportOption
  BY <1>3 DEF ImportOption
<1>4. CASE ImportNextSection
  <2>1. file' = file /\ rest = {}
    BY <1>4 DEF ImportNextSection
  <2>2. /\ \A p : PlaceDone(p)' <=> PlaceDone(p)
        /\ \A t : TransitionDone(t)' <=> TransitionDone(t)
        /\ \A a : ArcDone(a)' <=> ArcDone(a)
    BY <2>1 DEF net, PlaceDone, TransitionDone, ArcDone, Exists
  <2>3. QED
    BY <1>4, <2>1, <2>2 DEF ImportNextSection
<1>5. QED
  BY <1>1, <1>2, <1>3, <1>4

LEMMA ProgressStep ==
    ASSUME NetTyped, ImportTyped, kept => Progress, [Next]_vars
    PROVE  (kept => Progress)'
<1>1. CASE Import
  <2>1. ASSUME NEW f \in File, BeginImport(f) PROVE Progress'
    BY <2>1 DEF BeginImport, Progress, PlacesDone, TransitionsDone, ArcsDone
  <2>2. ASSUME ~(\E f \in File : BeginImport(f)) PROVE kept' = kept
    BY <1>1, <2>2 DEF Import, ImportOption, ImportPlace, ImportTransition, ImportArc,
                      ImportNextSection, ImportMalformed, ImportFails, ImportGoesTo
  <2>3. ASSUME kept, ImportOption \/ ImportNextSection \/ ImportMalformed PROVE Progress'
    BY <2>3, SectionDone DEF ImportOption, ImportNextSection, ImportMalformed
  <2>4. QED
    BY <1>1, <2>1, <2>2, <2>3, ImportPlaceDone, ImportTransitionDone, ImportArcDone DEF Import
<1>2. CASE Create
  <2>1. UNCHANGED import /\ kept' = kept
    BY <1>2 DEF Create
  <2>2. Extends
    BY <1>2, CreatingGrows, GrowsExtends, AddArcExtends DEF Create
  <2>3. QED
    BY <2>1, <2>2, ProgressStays
<1>3. CASE Remove
  BY <1>3 DEF Remove
<1>4. CASE Register \/ Execute \/ Stop \/ UNCHANGED vars
  <2>1. UNCHANGED import /\ kept' = kept /\ Extends
    BY <1>4, SameNetGrows, GrowsExtends DEF Register, Execute, Stop, vars
  <2>2. QED
    BY <2>1, ProgressStays
<1>5. QED
  BY <1>1, <1>2, <1>3, <1>4 DEF Next

(***************************************************************************)
(* An import that returns has put its whole file into the net, whatever    *)
(* others add and execute meanwhile, for any file and names.               *)
(***************************************************************************)
THEOREM ReturnedImportIsWhole == Spec => []ImportIsWhole
<1>1. Init => IInv /\ (kept => Progress)
  BY IInvInit DEF Init, Progress, PlacesDone, TransitionsDone, ArcsDone
<1>2. IInv /\ (kept => Progress) /\ [Next]_vars => IInv' /\ (kept => Progress)'
  BY IInvStep, ProgressStep DEF IInv
<1>3. (kept => Progress) => ImportIsWhole
  BY DEF Progress, PlacesDone, TransitionsDone, ArcsDone, PlaceDone, TransitionDone, ArcDone,
         ImportIsWhole
<1>4. QED
  BY <1>1, <1>2, <1>3, PTL DEF Spec

-----------------------------------------------------------------------------
(***************************************************************************)
(* A net that has been saved loads again: RoundTrip of NetEditor, for any  *)
(* names, weights and net, however the net was built.                      *)
(*                                                                         *)
(* The import folds the arcs of the file into the transitions one by one.  *)
(* That the fold arrives at the saved transitions is shown by its minimal  *)
(* counterexample: a smallest set of arcs on which it goes wrong.          *)
(***************************************************************************)

(***************************************************************************)
(* A net is finite, and every function of it has been looked up with       *)
(* success.                                                                *)
(***************************************************************************)
FiniteNet == IsFiniteSet(DOMAIN places) /\ IsFiniteSet(DOMAIN transitions)

KnownFunctions ==
    /\ \A p \in DOMAIN places : Known(places[p])
    /\ \A t \in DOMAIN transitions : Known(transitions[t].condition)

LEMMA CreatePlaceFinite ==
    ASSUME FiniteNet, KnownFunctions, UNCHANGED registered,
           NEW p, NEW action, CreatePlace(p, action)
    PROVE  FiniteNet' /\ KnownFunctions'
<1>1. DOMAIN places' = DOMAIN places \cup {p} /\ UNCHANGED transitions
  BY DEF CreatePlace, With
<1>2. FiniteNet'
  BY <1>1, FS_AddElement DEF FiniteNet
<1>3. \A q \in DOMAIN places' : places'[q] = IF q = p THEN action ELSE places[q]
  BY DEF CreatePlace, With
<1>4. Known(action)
  BY DEF CreatePlace, CanCreatePlace
<1>. QED BY <1>1, <1>2, <1>3, <1>4 DEF KnownFunctions, Known

LEMMA CreateTransitionFinite ==
    ASSUME FiniteNet, KnownFunctions, UNCHANGED registered,
           NEW t, NEW description, CreateTransition(t, description)
    PROVE  FiniteNet' /\ KnownFunctions'
<1>1. DOMAIN transitions' = DOMAIN transitions \cup {t} /\ UNCHANGED places
  BY DEF CreateTransition, With
<1>2. FiniteNet'
  BY <1>1, FS_AddElement DEF FiniteNet
<1>3. \A u \in DOMAIN transitions' :
         transitions'[u] = IF u = t THEN description ELSE transitions[u]
  BY DEF CreateTransition, With
<1>4. Known(description.condition)
  BY DEF CreateTransition, CanCreateTransition
<1>. QED BY <1>1, <1>2, <1>3, <1>4 DEF KnownFunctions, Known

(* Editing the arcs leaves the names and the functions of a net alone.     *)
LEMMA EditFinite ==
    ASSUME NetTyped, FiniteNet, KnownFunctions, UNCHANGED registered,
           NEW t, NEW type, NEW arc, NEW p,
           AddArc(t, type, arc) \/ RemoveArc(t, type, p)
    PROVE  FiniteNet' /\ KnownFunctions'
<1>1. PICK arcs : transitions' = [transitions EXCEPT ![t] = [transitions[t] EXCEPT !.arcs = arcs]]
  BY DEF AddArc, RemoveArc
<1>2. UNCHANGED places /\ t \in DOMAIN transitions
  BY DEF AddArc, RemoveArc, MayEditArcs
<1>3. transitions[t] \in Description
  BY <1>2 DEF NetTyped, Maps
<1>4. /\ DOMAIN transitions' = DOMAIN transitions
      /\ \A u \in DOMAIN transitions : transitions'[u].condition = transitions[u].condition
  BY <1>1, <1>2, <1>3 DEF Description
<1>. QED BY <1>2, <1>4 DEF FiniteNet, KnownFunctions, Known

LEMMA ClearedFinite ==
    ASSUME ClearNet
    PROVE  FiniteNet' /\ KnownFunctions'
BY FS_EmptySet DEF ClearNet, FiniteNet, KnownFunctions, Empty

LEMMA SameNetFinite ==
    ASSUME FiniteNet, KnownFunctions, UNCHANGED net, registered => registered'
    PROVE  FiniteNet' /\ KnownFunctions'
BY DEF net, FiniteNet, KnownFunctions, Known

LEMMA FiniteStep == NetTyped /\ FiniteNet /\ KnownFunctions /\ [Next]_vars
                        => FiniteNet' /\ KnownFunctions'
<1> SUFFICES ASSUME NetTyped, FiniteNet, KnownFunctions, [Next]_vars
             PROVE  FiniteNet' /\ KnownFunctions'
  OBVIOUS
<1>1. CASE Create
  BY <1>1, CreatePlaceFinite, CreateTransitionFinite, EditFinite DEF Create
<1>2. CASE Remove
  BY <1>2, EditFinite, ClearedFinite DEF Remove
<1>3. CASE Register \/ Execute \/ Stop \/ UNCHANGED vars
  BY <1>3, SameNetFinite DEF Register, Execute, Stop, vars
<1>4. CASE Import
  <2>1. UNCHANGED registered
    BY <1>4 DEF Import, BeginImport, ImportOption, ImportPlace, ImportTransition, ImportArc,
                ImportNextSection, ImportMalformed, ImportFails, ImportGoesTo
  <2>2. ASSUME NEW f \in File, BeginImport(f) PROVE UNCHANGED net
    BY <2>2 DEF BeginImport
  <2>3. CASE ImportOption \/ ImportNextSection \/ ImportMalformed
    BY <2>1, <2>3, SameNetFinite DEF ImportOption, ImportNextSection, ImportMalformed
  <2>4. ASSUME NEW p \in PlaceName, ImportPlace(p) PROVE FiniteNet' /\ KnownFunctions'
    BY <2>1, <2>4, CreatePlaceFinite, SameNetFinite DEF ImportPlace
  <2>5. ASSUME NEW t \in TransitionName, ImportTransition(t) PROVE FiniteNet' /\ KnownFunctions'
    BY <2>1, <2>5, CreateTransitionFinite, SameNetFinite DEF ImportTransition
  <2>6. ASSUME NEW a \in FileArc, ImportArc(a) PROVE FiniteNet' /\ KnownFunctions'
    BY <2>1, <2>6, EditFinite, SameNetFinite DEF ImportArc
  <2>. QED BY <1>4, <2>1, <2>2, <2>3, <2>4, <2>5, <2>6, SameNetFinite DEF Import
<1>. QED BY <1>1, <1>2, <1>3, <1>4 DEF Next

-----------------------------------------------------------------------------
(***************************************************************************)
(* What the export writes of the arcs: each with the transition and the    *)
(* vector it is in, so that it is told from every other arc by these and   *)
(* its place.                                                              *)
(***************************************************************************)
LEMMA ExportedArc ==
    ASSUME NetTyped, NEW a \in ExportedArcs
    PROVE  /\ a.transition \in DOMAIN transitions
           /\ a.type \in Vector
           /\ ArcOf(a) \in transitions[a.transition].arcs[a.type]
           /\ a = [transition |-> a.transition, type |-> a.type,
                   place |-> a.place, weight |-> a.weight]
<1>1. PICK t \in DOMAIN transitions, v \in Vector :
         a \in {[transition |-> t, type |-> v, place |-> arc.place, weight |-> arc.weight] :
                  arc \in transitions[t].arcs[v]}
  BY DEF ExportedArcs
<1>2. PICK arc \in transitions[t].arcs[v] :
         a = [transition |-> t, type |-> v, place |-> arc.place, weight |-> arc.weight]
  BY <1>1
<1>3. arc \in Arc
  BY <1>1, <1>2 DEF NetTyped, Maps, Description
<1>4. arc = [place |-> arc.place, weight |-> arc.weight]
  BY <1>3 DEF Arc
<1>. QED BY <1>1, <1>2, <1>4 DEF ArcOf

LEMMA ArcIsExported ==
    ASSUME NetTyped, NEW t \in DOMAIN transitions, NEW v \in Vector,
           NEW arc \in transitions[t].arcs[v]
    PROVE  \E a \in ExportedArcs : a.transition = t /\ a.type = v /\ ArcOf(a) = arc
<1>. DEFINE a == [transition |-> t, type |-> v, place |-> arc.place, weight |-> arc.weight]
<1>1. a \in ExportedArcs
  <2>1. a \in {[transition |-> t, type |-> v, place |-> b.place, weight |-> b.weight] :
                  b \in transitions[t].arcs[v]}
    OBVIOUS
  <2>2. PICK S : S = {[transition |-> t, type |-> v, place |-> b.place, weight |-> b.weight] :
                        b \in transitions[t].arcs[v]}
    OBVIOUS
  <2>3. S \in {{[transition |-> u, type |-> w, place |-> b.place, weight |-> b.weight] :
                   b \in transitions[u].arcs[w]} : u \in DOMAIN transitions, w \in Vector}
    BY <2>2
  <2>. HIDE DEF a
  <2>. QED BY <2>1, <2>2, <2>3 DEF ExportedArcs
<1>2. arc \in Arc
  BY DEF NetTyped, Maps, Description
<1>3. ArcOf(a) = arc
  BY <1>2 DEF ArcOf, Arc
<1>. QED BY <1>1, <1>3

LEMMA TellsApart ==
    ASSUME NetTyped, WellFormed, NEW a \in ExportedArcs, NEW b \in ExportedArcs,
           a.transition = b.transition, a.type = b.type, a.place = b.place
    PROVE  a = b
<1>1. /\ ArcOf(a) \in transitions[a.transition].arcs[a.type]
      /\ ArcOf(b) \in transitions[a.transition].arcs[a.type]
      /\ a.transition \in DOMAIN transitions /\ a.type \in Vector
  BY ExportedArc
<1>2. ArcOf(a) = ArcOf(b)
  BY <1>1 DEF WellFormed, Distinct, ArcOf
<1>3. a.weight = b.weight
  BY <1>2 DEF ArcOf
<1>. QED BY <1>3, ExportedArc

LEMMA FinitelyManyArcs ==
    ASSUME NetTyped, WellFormed, FiniteNet
    PROVE  IsFiniteSet(ExportedArcs)
<1>. DEFINE Key == (DOMAIN transitions) \X (Vector \X DOMAIN places)
            key == [a \in ExportedArcs |-> <<a.transition, <<a.type, a.place>>>>]
<1>1. IsFiniteSet(Vector)
  <2>1. Vector = {"activation"} \cup ({"destination"} \cup {"inhibitor"})
    BY DEF Vector
  <2>. QED BY <2>1, FS_Singleton, FS_Union
<1>2. IsFiniteSet(Key)
  <2>1. IsFiniteSet(Vector \X DOMAIN places)
    BY <1>1, FS_Product DEF FiniteNet
  <2>. QED BY <2>1, FS_Product DEF FiniteNet
<1>3. ASSUME NEW a \in ExportedArcs PROVE key[a] \in Key
  <2>1. /\ a.transition \in DOMAIN transitions /\ a.type \in Vector
        /\ ArcOf(a) \in transitions[a.transition].arcs[a.type]
    BY ExportedArc
  <2>2. a.place \in DOMAIN places
    BY <2>1 DEF WellFormed, Exists, ArcOf
  <2>3. <<a.type, a.place>> \in Vector \X DOMAIN places
    BY <2>1, <2>2
  <2>4. <<a.transition, <<a.type, a.place>>>> \in Key
    BY <2>1, <2>3
  <2>. QED BY <2>4
<1>4. ASSUME NEW a \in ExportedArcs, NEW b \in ExportedArcs, key[a] = key[b] PROVE a = b
  BY <1>4, TellsApart
<1>5. key \in [ExportedArcs -> Key]
  BY <1>3
<1>6. key \in Injection(ExportedArcs, Key)
  <2>. HIDE DEF key, Key
  <2>. QED BY <1>4, <1>5 DEF Injection, IsInjective
<1>. QED BY <1>2, <1>6, FS_Injection

-----------------------------------------------------------------------------
(***************************************************************************)
(* The transitions of the net with no other arcs than those of s: what the *)
(* import has made when it has added the arcs of s.                        *)
(***************************************************************************)
ArcsAmong(s, t, v) == {ArcOf(a) : a \in {b \in s : b.transition = t /\ b.type = v}}

MadeWith(s) ==
    [t \in DOMAIN transitions |->
        [arcs |-> [v \in Vector |-> ArcsAmong(s, t, v)],
         condition |-> transitions[t].condition]]

AddOne(a, made) == [made EXCEPT ![a.transition].arcs = WithArc(@, a.type, ArcOf(a))]

LEMMA NoneMade == AllNamed => Exported.transitions = MadeWith({})
<1> SUFFICES ASSUME AllNamed PROVE Exported.transitions = MadeWith({})
  OBVIOUS
<1>1. Exported.transitions = [t \in DOMAIN transitions |-> ExportedTransition(t)]
  BY DEF Exported
<1>2. \A t, v : ArcsAmong({}, t, v) = {}
  BY DEF ArcsAmong
<1>3. ASSUME NEW t \in DOMAIN transitions
      PROVE  ExportedTransition(t) = [arcs |-> [v \in Vector |-> ArcsAmong({}, t, v)],
                                      condition |-> transitions[t].condition]
  BY <1>2 DEF ExportedTransition, AllNamed
<1>. QED BY <1>1, <1>3 DEF MadeWith

(* Adding the last arc of a set: it is not there yet, in any vector it is  *)
(* to go to.                                                               *)
LEMMA OneMade ==
    ASSUME NetTyped, WellFormed, NEW s \in SUBSET ExportedArcs, NEW a \in s
    PROVE  AddOne(a, MadeWith(s \ {a})) = MadeWith(s)
<1>. DEFINE t == a.transition
            arcs == [v \in Vector |-> ArcsAmong(s \ {a}, t, v)]
<1>1. /\ t \in DOMAIN transitions /\ a.type \in Vector /\ Parts(a.type) = {a.type}
      /\ ArcOf(a).place = a.place
  BY ExportedArc DEF Parts, Vector, ArcOf
<1>2. ~Has(arcs, a.type, a.place)
  <2>1. ASSUME NEW b \in s \ {a}, b.transition = t, b.type = a.type PROVE ArcOf(b).place # a.place
    BY <2>1, TellsApart DEF ArcOf
  <2>. QED BY <1>1, <2>1 DEF Has, ArcsAmong
<1>3. AddsTo(arcs, a.type, a.place) = {a.type}
  BY <1>1, <1>2 DEF AddsTo, Vector
<1>4. ASSUME NEW u, NEW v PROVE ArcsAmong(s, u, v) = IF u = t /\ v = a.type
                                                     THEN ArcsAmong(s \ {a}, u, v) \cup {ArcOf(a)}
                                                     ELSE ArcsAmong(s \ {a}, u, v)
  BY DEF ArcsAmong
<1>5. WithArc(arcs, a.type, ArcOf(a)) = [v \in Vector |-> ArcsAmong(s, t, v)]
  BY <1>1, <1>3, <1>4 DEF WithArc
<1>6. MadeWith(s \ {a})[t] = [arcs |-> arcs, condition |-> transitions[t].condition]
  BY <1>1 DEF MadeWith
<1>7. AddOne(a, MadeWith(s \ {a})) =
         [MadeWith(s \ {a}) EXCEPT ![t] =
            [arcs |-> [v \in Vector |-> ArcsAmong(s, t, v)], condition |-> transitions[t].condition]]
  <2>1. PICK m : m = MadeWith(s \ {a})
    OBVIOUS
  <2>2. AddOne(a, m) = [m EXCEPT ![t] = [m[t] EXCEPT !.arcs = WithArc(m[t].arcs, a.type, ArcOf(a))]]
    BY DEF AddOne
  <2>. HIDE DEF arcs
  <2>3. m[t].arcs = arcs
    BY <1>6, <2>1
  <2>4. [m[t] EXCEPT !.arcs = WithArc(m[t].arcs, a.type, ArcOf(a))] =
          [arcs |-> [v \in Vector |-> ArcsAmong(s, t, v)], condition |-> transitions[t].condition]
    BY <1>5, <1>6, <2>1, <2>3
  <2>. QED BY <2>1, <2>2, <2>4
<1>8. ASSUME NEW u \in DOMAIN transitions, u # t PROVE MadeWith(s \ {a})[u] = MadeWith(s)[u]
  BY <1>4, <1>8 DEF MadeWith
<1>. QED BY <1>1, <1>7, <1>8 DEF MadeWith

LEMMA AllMade ==
    ASSUME NetTyped
    PROVE  MadeWith(ExportedArcs) = transitions
<1>1. ASSUME NEW t \in DOMAIN transitions, NEW v \in Vector
      PROVE  ArcsAmong(ExportedArcs, t, v) = transitions[t].arcs[v]
  BY ExportedArc, ArcIsExported DEF ArcsAmong
<1>2. ASSUME NEW t \in DOMAIN transitions
      PROVE  transitions[t] = [arcs |-> [v \in Vector |-> ArcsAmong(ExportedArcs, t, v)],
                               condition |-> transitions[t].condition]
  <2>1. transitions[t] \in Description
    BY DEF NetTyped, Maps
  <2>2. transitions[t].arcs = [v \in Vector |-> transitions[t].arcs[v]]
    BY <2>1 DEF Description
  <2>3. transitions[t].arcs = [v \in Vector |-> ArcsAmong(ExportedArcs, t, v)]
    BY <1>1, <2>2
  <2>. QED BY <2>1, <2>3 DEF Description
<1>3. transitions = [t \in DOMAIN transitions |-> transitions[t]]
  BY DEF NetTyped, Maps
<1>. QED BY <1>2, <1>3 DEF MadeWith

-----------------------------------------------------------------------------
(* What FoldSet computes with: a function of the sets of arcs.             *)
Folds(h, base, S) ==
    h = [s \in SUBSET S |->
            IF s = {} THEN base
            ELSE LET a == CHOOSE a \in s : TRUE IN AddOne(a, h[s \ {a}])]

LEMMA ImportedFolds ==
    ASSUME NEW f
    PROVE  Imported(f) = (CHOOSE h : Folds(h, f.transitions, f.arcs))[f.arcs]
BY DEF Imported, FoldSet, MapThenFoldSet, AddOne, Folds

(* There is such a function, ...                                           *)
LEMMA MadeFolds ==
    ASSUME NetTyped, WellFormed
    PROVE  Folds([s \in SUBSET ExportedArcs |-> MadeWith(s)], MadeWith({}), ExportedArcs)
<1>. DEFINE h == [s \in SUBSET ExportedArcs |-> MadeWith(s)]
<1>1. ASSUME NEW s \in SUBSET ExportedArcs, s # {}
      PROVE  MadeWith(s) = LET a == CHOOSE a \in s : TRUE IN AddOne(a, h[s \ {a}])
  <2>1. PICK a : a = CHOOSE b \in s : TRUE
    OBVIOUS
  <2>2. a \in s
    BY <1>1, <2>1
  <2>3. h[s \ {a}] = MadeWith(s \ {a})
    OBVIOUS
  <2>. QED BY <2>1, <2>2, <2>3, OneMade
<1>. QED BY <1>1 DEF Folds

(* ... and any is right on every set: take a smallest one where it is not. *)
LEMMA FoldsAlike ==
    ASSUME NetTyped, WellFormed, IsFiniteSet(ExportedArcs),
           NEW h, Folds(h, MadeWith({}), ExportedArcs)
    PROVE  \A s \in SUBSET ExportedArcs : h[s] = MadeWith(s)
<1>. DEFINE R == StrictSubsetOrdering(ExportedArcs)
            Wrong == {s \in SUBSET ExportedArcs : h[s] # MadeWith(s)}
<1> SUFFICES ASSUME Wrong # {} PROVE FALSE
  OBVIOUS
<1>1. IsWellFoundedOn(R, SUBSET ExportedArcs)
  BY FS_StrictSubsetOrderingWellFounded, FS_FiniteSubsetsOfFinite
<1>2. PICK s \in Wrong : \A r \in Wrong : <<r, s>> \notin R
  <2>. HIDE DEF R
  <2>. Wrong \subseteq SUBSET ExportedArcs
    OBVIOUS
  <2>. HIDE DEF Wrong
  <2>. QED BY <1>1, WFMin
<1>3. s # {}
  BY DEF Folds
<1>4. PICK a : a = CHOOSE b \in s : TRUE
  OBVIOUS
<1>5. a \in s
  BY <1>3, <1>4
<1>6. h[s \ {a}] = MadeWith(s \ {a})
  <2>1. s \ {a} \in SUBSET ExportedArcs /\ <<s \ {a}, s>> \in R
    BY <1>5 DEF StrictSubsetOrdering
  <2>. QED BY <1>2, <2>1
<1>7. h[s] = AddOne(a, h[s \ {a}])
  BY <1>3, <1>4 DEF Folds
<1>. QED BY <1>5, <1>6, <1>7, OneMade

LEMMA ImportRestores ==
    ASSUME NetTyped, WellFormed, FiniteNet, AllNamed
    PROVE  Imported(Exported) = transitions
<1>. DEFINE h == CHOOSE g : Folds(g, MadeWith({}), ExportedArcs)
<1>1. Exported.transitions = MadeWith({}) /\ Exported.arcs = ExportedArcs
  BY NoneMade DEF Exported
<1>2. Imported(Exported) = h[ExportedArcs]
  BY <1>1, ImportedFolds
<1>3. Folds(h, MadeWith({}), ExportedArcs)
  BY MadeFolds
<1>4. h[ExportedArcs] = MadeWith(ExportedArcs)
  <2>. HIDE DEF h
  <2>. QED BY <1>3, FinitelyManyArcs, FoldsAlike
<1>. QED BY <1>2, <1>4, AllMade

(***************************************************************************)
(* A net whose functions have names is what an import makes of its export, *)
(* whichever calls and broken-off imports it was built with; and none of   *)
(* its functions is unknown to the import.                                 *)
(***************************************************************************)
THEOREM SavedNetLoads == Spec => []RoundTrip
<1>1. Init => IInv /\ FiniteNet /\ KnownFunctions
  BY IInvInit, FS_EmptySet DEF Init, Empty, FiniteNet, KnownFunctions
<1>2. IInv /\ FiniteNet /\ KnownFunctions /\ [Next]_vars
        => IInv' /\ FiniteNet' /\ KnownFunctions'
  BY IInvStep, FiniteStep DEF IInv
<1>3. IInv /\ FiniteNet /\ KnownFunctions => RoundTrip
  <2> SUFFICES ASSUME IInv, FiniteNet, KnownFunctions, AllNamed
               PROVE  /\ \A p \in DOMAIN Exported.places : Known(Exported.places[p])
                      /\ \A t \in DOMAIN Exported.transitions :
                            Known(Exported.transitions[t].condition)
                      /\ Exported.places = places
                      /\ Imported(Exported) = transitions
    BY DEF RoundTrip
  <2>1. Exported.places = places
    BY DEF Exported, AllNamed, IInv, NetTyped, Maps
  <2>2. \A t \in DOMAIN transitions :
           Exported.transitions[t].condition = transitions[t].condition
    BY NoneMade DEF MadeWith
  <2>3. DOMAIN Exported.transitions = DOMAIN transitions
    BY DEF Exported
  <2>. QED BY <2>1, <2>2, <2>3, ImportRestores DEF IInv, KnownFunctions
<1>. QED BY <1>1, <1>2, <1>3, PTL DEF Spec
=============================================================================
