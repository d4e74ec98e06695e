--------------------------- MODULE ElevatorProofs ---------------------------
(***************************************************************************)
(* Proofs about Elevator.  The argument is structural: no transition of    *)
(* the table takes a token from a set of places (the states of the cabin,  *)
(* of the doors, of the controller) without giving one back.  The second   *)
(* half is for JourneyProofs: the invariant that journeys keep, and the    *)
(* table read once more: every transition that fires takes a step of the   *)
(* net's skeleton.                                                         *)
(***************************************************************************)
EXTENDS Elevator, TLAPS

Cabin == {"Stopped", "Stopped_", "Moving", "Moving_"}

Doors == {"DoorsOpened", "DoorsClosed", "DoorsClosed_"}

\* Transition t leaves places S alone, or takes one token and gives one.
PassesOn(t, S) ==
    \/ \A p \in S : p \notin t.activation /\ p \notin t.destination
    \/ \E a, b \in S :
          \A p \in S : (p \in t.activation <=> p = a) /\ (p \in t.destination <=> p = b)

\* Doors open at a stopped cabin, and a cabin departs with closed doors.
MindsTheDoors(t) ==
    /\ "DoorsOpened" \in t.destination => "Stopped_" \in t.activation \cap t.destination
    /\ "Moving" \in t.destination \/ "Moving_" \in t.destination =>
          "Moving" \in t.activation \/ "DoorsClosed_" \in t.activation
            \/ "Moving_" \in t.activation

\* What the table says of the three sets, group by group of transitions.
Disciplined(t) ==
    /\ PassesOn(t, Cabin) /\ PassesOn(t, Doors) /\ PassesOn(t, Activities)
    /\ MindsTheDoors(t)

LEMMA CabineTable == \A t \in CabineTransitions : Disciplined(t)
<1>1. \A t \in CabineTransitions : PassesOn(t, Cabin) /\ PassesOn(t, Doors)
  BY DEF CabineTransitions, Departure, PassesOn, Cabin, Doors, Plain, Quiet
<1>2. \A t \in CabineTransitions : PassesOn(t, Activities)
  BY SMTT(120) DEF CabineTransitions, Departure, PassesOn, Activities, OnEnter, Plain, Quiet
<1>3. \A t \in CabineTransitions : MindsTheDoors(t)
  BY DEF CabineTransitions, Departure, MindsTheDoors, Plain, Quiet
<1> QED
  BY <1>1, <1>2, <1>3 DEF Disciplined

LEMMA SimulationTable == \A t \in SimulationTransitions : Disciplined(t)
<1>1. \A t \in SimulationTransitions : PassesOn(t, Cabin) /\ PassesOn(t, Doors)
  BY DEF SimulationTransitions, PassesOn, Cabin, Doors, Plain, Quiet, Inhibited
<1>2. \A t \in SimulationTransitions : PassesOn(t, Activities)
  BY SMTT(120) DEF SimulationTransitions, PassesOn, Activities, OnEnter, Plain, Quiet, Inhibited
<1>3. \A t \in SimulationTransitions : MindsTheDoors(t)
  BY DEF SimulationTransitions, MindsTheDoors, Plain, Quiet, Inhibited
<1> QED
  BY <1>1, <1>2, <1>3 DEF Disciplined

LEMMA ArrivingGoingDownTable == \A t \in ArrivingGoingDownTransitions : Disciplined(t)
<1>1. \A t \in ArrivingGoingDownTransitions : PassesOn(t, Cabin) /\ PassesOn(t, Doors)
  BY DEF ArrivingGoingDownTransitions, PassesOn, Cabin, Doors, Plain, Quiet
<1>2. \A t \in ArrivingGoingDownTransitions : PassesOn(t, Activities)
  BY SMTT(120) DEF ArrivingGoingDownTransitions, PassesOn, Activities, OnEnter, Plain, Quiet
<1>3. \A t \in ArrivingGoingDownTransitions : MindsTheDoors(t)
  BY DEF ArrivingGoingDownTransitions, MindsTheDoors, Plain, Quiet
<1> QED
  BY <1>1, <1>2, <1>3 DEF Disciplined

LEMMA ArrivingGoingUpTable == \A t \in ArrivingGoingUpTransitions : Disciplined(t)
<1>1. \A t \in ArrivingGoingUpTransitions : PassesOn(t, Cabin) /\ PassesOn(t, Doors)
  BY DEF ArrivingGoingUpTransitions, PassesOn, Cabin, Doors, Plain, Quiet
<1>2. \A t \in ArrivingGoingUpTransitions : PassesOn(t, Activities)
  BY SMTT(120) DEF ArrivingGoingUpTransitions, PassesOn, Activities, OnEnter, Plain, Quiet
<1>3. \A t \in ArrivingGoingUpTransitions : MindsTheDoors(t)
  BY DEF ArrivingGoingUpTransitions, MindsTheDoors, Plain, Quiet
<1> QED
  BY <1>1, <1>2, <1>3 DEF Disciplined

LEMMA ButtonPressingTable == \A t \in ButtonPressingTransitions : Disciplined(t)
<1>1. \A t \in ButtonPressingTransitions : PassesOn(t, Cabin) /\ PassesOn(t, Doors)
  BY DEF ButtonPressingTransitions, PassesOn, Cabin, Doors, Plain, Quiet
<1>2. \A t \in ButtonPressingTransitions : PassesOn(t, Activities)
  BY SMTT(120) DEF ButtonPressingTransitions, PassesOn, Activities, OnEnter, Plain, Quiet
<1>3. \A t \in ButtonPressingTransitions : MindsTheDoors(t)
  BY DEF ButtonPressingTransitions, MindsTheDoors, Plain, Quiet
<1> QED
  BY <1>1, <1>2, <1>3 DEF Disciplined

LEMMA CallingButtonTable == \A t \in CallingButtonTransitions : Disciplined(t)
<1>1. \A t \in CallingButtonTransitions : PassesOn(t, Cabin) /\ PassesOn(t, Doors)
  BY DEF CallingButtonTransitions, PassesOn, Cabin, Doors, Plain, Quiet
<1>2. \A t \in CallingButtonTransitions : PassesOn(t, Activities)
  BY SMTT(120) DEF CallingButtonTransitions, PassesOn, Activities, OnEnter, Plain, Quiet
<1>3. \A t \in CallingButtonTransitions : MindsTheDoors(t)
  BY DEF CallingButtonTransitions, MindsTheDoors, Plain, Quiet
<1> QED
  BY <1>1, <1>2, <1>3 DEF Disciplined

LEMMA TableIsDisciplined == \A t \in Transitions : Disciplined(t)
  BY CabineTable, SimulationTable, ArrivingGoingDownTable, ArrivingGoingUpTable,
     ButtonPressingTable, CallingButtonTable DEF Transitions
-----------------------------------------------------------------------------
LEMMA PlacesOfTheCabin == Cabin \cup Doors \cup FloorButtons \cup {"OpenDoors", "CloseDoors"} \subseteq Places
<1>1. FloorButtons \cup {"OpenDoors", "CloseDoors"} \subseteq Places
  BY DEF FloorButtons, Places, InputPlaces
<1>2. Plain("T7", {"Stopped"}, {"Stopped_"}) \in Transitions
      /\ Plain("T6", {"Moving"}, {"Moving_"}) \in Transitions
      /\ Plain("T5", {"DoorsClosed"}, {"DoorsClosed_"}) \in Transitions
      /\ Plain("T1", {"CloseDoors", "Stopped_", "DoorsOpened"}, {"Stopped_", "DoorsClosed"})
            \in Transitions
  BY DEF Transitions, CabineTransitions
<1>3. \A t \in Transitions : t.activation \subseteq Places /\ t.destination \subseteq Places
  BY DEF Places
<1> QED
  BY <1>1, <1>2, <1>3 DEF Plain, Cabin, Doors

LEMMA PlacesOfTheController == Activities \subseteq Places
<1>1. \A p \in {"Ready", "D1", "D2", "D3", "AddToTravel", "AddToNextTravel"} :
         \E t \in ButtonPressingTransitions : p \in t.activation
  BY SMTT(60) DEF ButtonPressingTransitions, Plain, Quiet
<1>2. \A p \in {"D4", "D5", "WaitToGoUp", "WaitToGoDown"} :
         \E t \in CallingButtonTransitions : p \in t.activation
  BY SMTT(60) DEF CallingButtonTransitions, Plain, Quiet
<1>3. \A p \in {"IncreaseFloor", "DecreaseFloor", "RemoveFromListGU", "RemoveFromListGD"} :
         \E t \in SimulationTransitions : p \in t.activation
  BY SMTT(60) DEF SimulationTransitions, Plain, Quiet, Inhibited
<1>4. \A p \in {"SwapGD", "MergeGoingUpGTCurrent", "MergeMinGoingUp1", "MergeMaxGoingDown1",
                "MergePostponedToCurrent11", "MergePostponedToCurrent12"} :
         \E t \in ArrivingGoingDownTransitions : p \in t.activation
  BY SMTT(60) DEF ArrivingGoingDownTransitions, Plain, Quiet
<1>5. \A p \in {"SwapGU", "MergeGoingDownSTCurrent", "MergeMinGoingUp2", "MergeMaxGoingDown2",
                "MergePostponedToCurrent21", "MergePostponedToCurrent22"} :
         \E t \in ArrivingGoingUpTransitions : p \in t.activation
  BY SMTT(60) DEF ArrivingGoingUpTransitions, Plain, Quiet
<1>6. \A p \in Activities : \E t \in Transitions : p \in t.activation
  BY <1>1, <1>2, <1>3, <1>4, <1>5 DEF Activities, OnEnter, Transitions
<1> QED
  BY <1>6 DEF Places

\* The user's places are none of the three sets.
LEMMA InputsApart ==
    FloorButtons \cup {"OpenDoors", "CloseDoors"} \subseteq InputPlaces
    /\ InputPlaces \cap (Cabin \cup Doors \cup Activities) = {}
  BY DEF FloorButtons, InputPlaces, Cabin, Doors, Activities, OnEnter

-----------------------------------------------------------------------------
(***************************************************************************)
(* Every variable of the elevator keeps its type; in particular no place   *)
(* gives a token it does not hold.                                         *)
(***************************************************************************)
THEOREM TypeCorrect == Spec => []TypeOK
<1>1. Init => TypeOK
  <2> SUFFICES ASSUME Init
               PROVE  TypeOK
    OBVIOUS
  <2>1. tokens \in [Places -> Nat]
    BY DEF Init
  <2>2. jobs \in Seq(OnEnter)
    BY DEF Init
  <2>3. collected \subseteq Transitions
    BY DEF Init
  <2>4. {currentFloor, toAddToDestination} \subseteq Int /\ requests \in Nat
    BY DEF Init
  <2>5. pressing \in FloorButtons \cup {"none"} /\ disturbed \in BOOLEAN
    BY DEF Init
  <2> QED
    BY <2>1, <2>2, <2>3, <2>4, <2>5 DEF TypeOK
<1>2. TypeOK /\ [Next]_vars => TypeOK'
  <2> SUFFICES ASSUME TypeOK, [Next]_vars
               PROVE  TypeOK'
    OBVIOUS
  <2>1. CASE CollectEnabledTransitions
    BY <2>1 DEF CollectEnabledTransitions, EnabledTransitions, TypeOK, userVars
  <2>2. ASSUME NEW t \in Transitions, Fire(t)
        PROVE  TypeOK'
    <3>1. \A p \in Places : p \in t.activation => tokens[p] > 0
      BY <2>2 DEF Fire, Active, Enabled, Marked, Places
    <3>2. tokens' \in [Places -> Nat]
      BY <2>2, <3>1 DEF Fire, AfterTransit, TypeOK
    <3>3. jobs' \in Seq(OnEnter)
      <4> DEFINE entered == t.destination \cap OnEnter
      <4>1. entered # {} => (CHOOSE p \in entered : TRUE) \in OnEnter
        OBVIOUS
      <4>2. jobs' = IF entered = {} THEN jobs ELSE Append(jobs, CHOOSE p \in entered : TRUE)
        BY <2>2 DEF Fire, AfterEntering
      <4> HIDE DEF entered
      <4> QED
        BY <4>1, <4>2 DEF TypeOK
    <3> QED
      BY <2>2, <3>2, <3>3 DEF Fire, TypeOK, TakenWhileTurning, TurnedBeforeAdding, Marked, ActionInExecution
  <2>3. ASSUME NEW t \in Transitions, DoNotFire(t)
        PROVE  TypeOK'
    BY <2>3 DEF DoNotFire, TypeOK, userVars
  <2>4. CASE Worker
    <3>1. jobs # <<>> /\ jobs' = Tail(jobs) /\ UNCHANGED <<netVars, userVars>>
          /\ currentFloor' \in {currentFloor, currentFloor + 1, currentFloor - 1}
      BY <2>4 DEF Worker, Job, AddDestination1, AddDestination2, AddWaitingToGoUp,
         AddWaitingToGoDown, RemoveDestinationGU, RemoveDestinationGD, RotateLists,
         IncreaseFloor, DecreaseFloor, MergeGoingUpGTCurrent, MergeGoingDownSTCurrent,
         MergeToDestinations, MergeMinGoingUp, MergeMaxGoingDown, MergePostponedToCurrent,
         ProcessedLists
    <3> QED
      BY <3>1 DEF TypeOK, netVars, userVars
  <2>5. ASSUME NEW button \in FloorButtons, NEW floor \in Typed, Request(button, floor)
        PROVE  TypeOK'
    <3>1. floor \in Int
      BY ElevatorAssumption DEF Typed
    <3> QED
      BY <2>5, <3>1 DEF Request, RequestInProgress, Marked, ActionInExecution, TypeOK, netVars
  <2>6. CASE PressFloorButton
    <3>1. pressing \in Places
      BY <2>6, PlacesOfTheCabin DEF PressFloorButton, TypeOK
    <3> QED
      BY <2>6, <3>1 DEF PressFloorButton, IncrementInput, TypeOK
  <2>7. ASSUME NEW button \in {"OpenDoors", "CloseDoors"}, PressDoorButton(button)
        PROVE  TypeOK'
    <3>1. button \in Places
      BY PlacesOfTheCabin
    <3> QED
      BY <2>7, <3>1 DEF PressDoorButton, IncrementInput, TypeOK, userVars
  <2>8. CASE UNCHANGED vars
    BY <2>8 DEF TypeOK, vars, netVars, userVars
  <2> QED
    BY <2>1, <2>2, <2>3, <2>4, <2>5, <2>6, <2>7, <2>8
       DEF Next, Engine, User, CallElevatorUp, CallElevatorDown, SetDestinationFloor,
           OpenDoors, CloseDoors, FloorButtons, TypeOK
<1> QED
  BY <1>1, <1>2, PTL DEF Spec

-----------------------------------------------------------------------------
\* Where the marking changes: a transition fires, or a button is pressed.
LEMMA MarkingSteps ==
    ASSUME TypeOK, [Next]_vars
    PROVE  \/ tokens' = tokens
           \/ \E t \in Transitions : Fire(t)
           \/ \E place \in FloorButtons \cup {"OpenDoors", "CloseDoors"} : IncrementInput(place)
<1>1. CASE Engine
  BY <1>1 DEF Engine, CollectEnabledTransitions, DoNotFire, TypeOK
<1>2. CASE Worker
  BY <1>2 DEF Worker, Job, AddDestination1, AddDestination2, AddWaitingToGoUp,
     AddWaitingToGoDown, RemoveDestinationGU, RemoveDestinationGD, RotateLists,
     IncreaseFloor, DecreaseFloor, MergeGoingUpGTCurrent, MergeGoingDownSTCurrent,
     MergeMinGoingUp, MergeMaxGoingDown, MergePostponedToCurrent, ProcessedLists, netVars
<1>3. CASE User
  BY <1>3 DEF User, CallElevatorUp, CallElevatorDown, SetDestinationFloor, Request,
     PressFloorButton, PressDoorButton, OpenDoors, CloseDoors, TypeOK, netVars
<1> QED
  BY <1>1, <1>2, <1>3 DEF Next, vars, netVars

\* A transition that passes on the token of a set of places keeps it one.
LEMMA FiringKeepsOneToken ==
    ASSUME TypeOK, NEW t \in Transitions, Fire(t), NEW S, S \subseteq Places,
           PassesOn(t, S), OneToken(S)
    PROVE  OneToken(S)'
<1>1. \A p \in S : tokens[p] \in Nat
                  /\ tokens'[p] = tokens[p] - (IF p \in t.activation THEN 1 ELSE 0)
                                           + (IF p \in t.destination THEN 1 ELSE 0)
  BY DEF Fire, AfterTransit, TypeOK
<1>2. \A p \in S : p \in t.activation => tokens[p] > 0
  BY DEF Fire, Active, Enabled, Marked
<1>3. PICK p \in S : tokens[p] = 1 /\ \A q \in S \ {p} : tokens[q] = 0
  BY DEF OneToken
<1>4. CASE \A q \in S : q \notin t.activation /\ q \notin t.destination
  BY <1>1, <1>3, <1>4 DEF OneToken
<1>5. ASSUME NEW a \in S, NEW b \in S,
             \A q \in S : (q \in t.activation <=> q = a) /\ (q \in t.destination <=> q = b)
      PROVE  OneToken(S)'
  <2>1. a = p
    BY <1>2, <1>3, <1>5
  <2>2. /\ tokens[a] = 1
        /\ \A q \in S : q # a => tokens[q] = 0
    BY <1>3, <2>1
  <2>3. \A q \in S : tokens'[q] = tokens[q] - (IF q = a THEN 1 ELSE 0)
                                         + (IF q = b THEN 1 ELSE 0)
    BY <1>1, <1>5
  <2>4. tokens'[b] = 1
    <3>1. CASE b = a
      BY <2>2, <2>3, <3>1
    <3>2. CASE b # a
      BY <2>2, <2>3, <3>2
    <3> QED
      BY <3>1, <3>2
  <2>5. ASSUME NEW q \in S, q # b
        PROVE  tokens'[q] = 0
    <3>1. CASE q = a
      BY <2>2, <2>3, <2>5, <3>1
    <3>2. CASE q # a
      BY <2>2, <2>3, <2>5, <3>2
    <3> QED
      BY <3>1, <3>2
  <2> QED
    BY <2>4, <2>5 DEF OneToken
<1> QED
  BY <1>4, <1>5 DEF PassesOn

LEMMA StepKeepsOneToken ==
    ASSUME TypeOK, [Next]_vars, NEW S, S \subseteq Places, S \cap InputPlaces = {},
           \A t \in Transitions : PassesOn(t, S), OneToken(S)
    PROVE  OneToken(S)'
<1>1. CASE tokens' = tokens
  BY <1>1 DEF OneToken
<1>2. ASSUME NEW t \in Transitions, Fire(t)
      PROVE  OneToken(S)'
  BY <1>2, FiringKeepsOneToken
<1>3. ASSUME NEW place \in FloorButtons \cup {"OpenDoors", "CloseDoors"}, IncrementInput(place)
      PROVE  OneToken(S)'
  <2>1. \A p \in S : tokens'[p] = tokens[p]
    BY <1>3, InputsApart DEF IncrementInput, TypeOK
  <2> QED
    BY <2>1 DEF OneToken
<1> QED
  BY <1>1, <1>2, <1>3, MarkingSteps

(***************************************************************************)
(* The token of Ready is passed on and never doubled or dropped: moving a  *)
(* floor, taking up a request and processing the lists exclude each other, *)
(* for any number of floors and requests and any timing of the user.       *)
(***************************************************************************)
THEOREM OneActivity == Spec => []OneActivityAtATime
<1>1. Init => OneActivityAtATime
  <2> SUFFICES ASSUME Init
               PROVE  OneToken(Activities)
    BY DEF OneActivityAtATime
  <2>1. tokens["Ready"] = 1 /\ \A q \in Activities \ {"Ready"} : tokens[q] = 0
    BY PlacesOfTheController DEF Init, InitiallyMarked, Activities, OnEnter
  <2>2. "Ready" \in Activities
    BY DEF Activities
  <2> QED
    BY <2>1, <2>2 DEF OneToken
<1>2. TypeOK /\ OneActivityAtATime /\ [Next]_vars => OneActivityAtATime'
  <2>1. Activities \cap InputPlaces = {} /\ \A t \in Transitions : PassesOn(t, Activities)
    BY InputsApart, TableIsDisciplined DEF Disciplined
  <2> QED
    BY <2>1, PlacesOfTheController, StepKeepsOneToken DEF OneActivityAtATime
<1> QED
  BY <1>1, <1>2, TypeCorrect, PTL DEF Spec

-----------------------------------------------------------------------------
(***************************************************************************)
(* The cabin is in one state, the doors are in one state, and the doors    *)
(* are not open while the cabin moves.                                     *)
(***************************************************************************)
CabinInv ==
    /\ OneToken(Cabin)
    /\ OneToken(Doors)
    /\ Marked("Moving") \/ Marked("Moving_") => ~Marked("DoorsOpened")

LEMMA FiringMindsTheDoors ==
    ASSUME TypeOK, CabinInv, NEW t \in Transitions, Fire(t),
           OneToken(Cabin)', OneToken(Doors)',
           Marked("Moving")' \/ Marked("Moving_")'
    PROVE  ~Marked("DoorsOpened")'
<1> SUFFICES ASSUME Marked("DoorsOpened")'
             PROVE  FALSE
  OBVIOUS
<1>1. \A p \in Cabin \cup Doors :
         /\ tokens[p] \in Nat
         /\ tokens'[p] \in Int
         /\ p \in t.activation => tokens[p] > 0
         /\ p \notin t.destination => tokens'[p] <= tokens[p]
         /\ p \in t.destination /\ p \in t.activation => tokens'[p] = tokens[p]
  BY PlacesOfTheCabin DEF Fire, AfterTransit, Active, Enabled, Marked, TypeOK
<1>2. MindsTheDoors(t)
  BY TableIsDisciplined DEF Disciplined
<1>3. "DoorsOpened" \notin t.destination
  <2> SUFFICES ASSUME "DoorsOpened" \in t.destination
               PROVE  FALSE
    OBVIOUS
  <2>1. tokens'["Stopped_"] = tokens["Stopped_"] /\ tokens["Stopped_"] > 0
    BY <1>1, <1>2 DEF MindsTheDoors, Cabin
  <2>2. tokens'["Moving"] = 0 /\ tokens'["Moving_"] = 0
    BY <1>1, <2>1 DEF OneToken, Cabin
  <2> QED
    BY <2>2 DEF Marked
<1>4. Marked("DoorsOpened")
  <2>1. "DoorsOpened" \in Cabin \cup Doors
    BY DEF Doors
  <2>2. tokens'["DoorsOpened"] <= tokens["DoorsOpened"] /\ tokens'["DoorsOpened"] > 0
    BY <1>1, <1>3, <2>1 DEF Marked
  <2>3. tokens["DoorsOpened"] \in Nat /\ tokens'["DoorsOpened"] \in Int
    BY <1>1, <2>1
  <2> QED
    BY <2>2, <2>3 DEF Marked
<1>5. ~Marked("Moving") /\ ~Marked("Moving_") /\ ~Marked("DoorsClosed_")
  BY <1>1, <1>4 DEF CabinInv, OneToken, Doors, Marked
<1>6. "Moving" \in t.destination \/ "Moving_" \in t.destination
  <2>1. ASSUME NEW p \in {"Moving", "Moving_"}, tokens'[p] > 0
        PROVE  p \in t.destination
    <3>1. tokens[p] \in Nat /\ tokens'[p] \in Int /\ ~(tokens[p] > 0)
          /\ (p \notin t.destination => tokens'[p] <= tokens[p])
      BY <1>1, <1>5 DEF Marked, Cabin
    <3> QED
      BY <2>1, <3>1
  <2> QED
    BY <2>1 DEF Marked
<1> QED
  BY <1>1, <1>2, <1>5, <1>6 DEF MindsTheDoors, Marked, Cabin, Doors

LEMMA CabinStep ==
    ASSUME TypeOK, CabinInv, [Next]_vars
    PROVE  CabinInv'
<1>1. OneToken(Cabin)' /\ OneToken(Doors)'
  BY PlacesOfTheCabin, InputsApart, TableIsDisciplined, StepKeepsOneToken
     DEF CabinInv, Disciplined
<1>2. CASE tokens' = tokens
  BY <1>1, <1>2 DEF CabinInv, Marked
<1>3. ASSUME NEW t \in Transitions, Fire(t)
      PROVE  CabinInv'
  BY <1>1, <1>3, FiringMindsTheDoors DEF CabinInv
<1>4. ASSUME NEW place \in FloorButtons \cup {"OpenDoors", "CloseDoors"}, IncrementInput(place)
      PROVE  CabinInv'
  <2>1. \A p \in Cabin \cup Doors : tokens'[p] = tokens[p]
    BY <1>4, InputsApart, PlacesOfTheCabin DEF IncrementInput, TypeOK
  <2> QED
    BY <1>1, <2>1 DEF CabinInv, Marked, Cabin, Doors
<1> QED
  BY <1>2, <1>3, <1>4, MarkingSteps

(***************************************************************************)
(* The cabin never moves with its doors open: whatever the order in which  *)
(* the engine fires, however the actions lag behind, whatever is pressed.  *)
(***************************************************************************)
THEOREM DoorsStayClosed == Spec => []DoorsClosedWhileMoving
<1>1. Init => CabinInv
  <2> SUFFICES ASSUME Init
               PROVE  CabinInv
    OBVIOUS
  <2>1. /\ tokens["Stopped_"] = 1 /\ \A q \in Cabin \ {"Stopped_"} : tokens[q] = 0
        /\ tokens["DoorsOpened"] = 1 /\ \A q \in Doors \ {"DoorsOpened"} : tokens[q] = 0
    BY PlacesOfTheCabin DEF Init, InitiallyMarked, Cabin, Doors
  <2> QED
    BY <2>1 DEF CabinInv, OneToken, Marked, Cabin, Doors
<1>2. TypeOK /\ CabinInv /\ [Next]_vars => CabinInv'
  BY CabinStep
<1>3. TypeOK /\ CabinInv => DoorsClosedWhileMoving
  BY DEF CabinInv, OneToken, Doors, DoorsClosedWhileMoving, Marked
<1> QED
  BY <1>1, <1>2, <1>3, TypeCorrect, PTL DEF Spec

-----------------------------------------------------------------------------
(***************************************************************************)
(* No floor is dropped from the controller's lists, however they are       *)
(* rotated and merged, except the one the cabin is at.                     *)
(***************************************************************************)
THEOREM RequestsAreKept == Spec => NoRequestIsDropped
<1>1. ASSUME [Next]_vars
      PROVE  Known \ Known' \subseteq {currentFloor}
  <2>1. CASE Engine
    BY <2>1 DEF Engine, CollectEnabledTransitions, Fire, DoNotFire, lists, Known
  <2>2. CASE User
    BY <2>2 DEF User, CallElevatorUp, CallElevatorDown, SetDestinationFloor, Request,
       PressFloorButton, PressDoorButton, OpenDoors, CloseDoors, IncrementInput, lists, Known
  <2>3. CASE AddDestination1 \/ AddDestination2 \/ AddWaitingToGoUp \/ AddWaitingToGoDown
    BY <2>3 DEF AddDestination1, AddDestination2, AddWaitingToGoUp, AddWaitingToGoDown,
       lists, Known
  <2>4. CASE RemoveDestinationGU \/ RemoveDestinationGD \/ RotateLists
    BY <2>4 DEF RemoveDestinationGU, RemoveDestinationGD, RotateLists, Known
  <2>5. CASE IncreaseFloor \/ DecreaseFloor \/ ProcessedLists
    BY <2>5 DEF IncreaseFloor, DecreaseFloor, ProcessedLists, lists, Known
  <2>6. CASE MergeGoingUpGTCurrent \/ MergeGoingDownSTCurrent
    BY <2>6 DEF MergeGoingUpGTCurrent, MergeGoingDownSTCurrent, MergeToDestinations, Known
  <2>7. CASE MergeMinGoingUp \/ MergeMaxGoingDown \/ MergePostponedToCurrent
    BY <2>7 DEF MergeMinGoingUp, MergeMaxGoingDown, MergePostponedToCurrent, lists, Known
  <2>8. CASE UNCHANGED vars
    BY <2>8 DEF vars, lists, Known
  <2> QED
    BY <1>1, <2>1, <2>2, <2>3, <2>4, <2>5, <2>6, <2>7, <2>8 DEF Next, Worker
<1> QED
  BY <1>1, PTL DEF Spec, NoRequestIsDropped
-----------------------------------------------------------------------------
(***************************************************************************)
(* The invariant that the journeys of the elevator keep. A floor is        *)
(* counted only on the way to a destination because the marking, the queue *)
(* of actions, the request in progress and the four lists of the           *)
(* controller agree at every step.                                         *)
(*                                                                         *)
(* The state of the net, read as three values. The activity is the place   *)
(* of Activities that is marked. The direction is the place of GoingUp,    *)
(* GoingUp_, GoingDown and GoingDown_ that is marked, or none. The stage   *)
(* tells the phase of a travel: at rest until T3 departs, moving, arrived  *)
(* at a destination (T15, T17), processing its lists (T4), turning (T19,   *)
(* T32).                                                                   *)
(***************************************************************************)
Directions == {"GoingUp", "GoingUp_", "GoingDown", "GoingDown_"}
Stages == {"rest", "moving", "arrived", "processing", "turning"}

\* The activities by what they are for.
Asking == {"D1", "D2", "D3", "D4", "D5"}
Requesting == {"AddToTravel", "AddToNextTravel", "WaitToGoUp", "WaitToGoDown"}
Counting == {"IncreaseFloor", "DecreaseFloor"}
Removing == {"RemoveFromListGU", "RemoveFromListGD"}
Swapping == {"SwapGD", "SwapGU"}
ChoosingMin == {"MergeMinGoingUp1", "MergeMinGoingUp2"}
ChoosingMax == {"MergeMaxGoingDown1", "MergeMaxGoingDown2"}
Choosing == ChoosingMin \cup ChoosingMax
Postponing ==
    {"MergePostponedToCurrent11", "MergePostponedToCurrent12",
     "MergePostponedToCurrent21", "MergePostponedToCurrent22"}
Merging == Postponing \cup {"MergeGoingUpGTCurrent", "MergeGoingDownSTCurrent"}
Turning == Swapping \cup Choosing \cup Merging

\* Directions, and the activities that lead to one.
Up == {"GoingUp", "GoingUp_", "SwapGD", "MergeGoingUpGTCurrent",
       "MergePostponedToCurrent11", "MergePostponedToCurrent22"}
Down == {"GoingDown", "GoingDown_", "SwapGU", "MergeGoingDownSTCurrent",
         "MergePostponedToCurrent12", "MergePostponedToCurrent21"}

Count(b) == IF b THEN 1 ELSE 0

\* The tokens of the net in activity a, direction d and stage s.
MarkedAs(a, d, s) ==
    /\ \A p \in Activities : tokens[p] = Count(p = a)
    /\ \A p \in Directions : tokens[p] = Count(p = d)
    /\ tokens["ProcessedLists"] = Count(s = "rest")
    /\ tokens["ProcessLists"] = Count(s \in {"arrived", "processing"})
    /\ tokens["ArrivedDestination"] = Count(s = "arrived")
    /\ tokens["Moving"] + tokens["Moving_"] = Count(s \in {"moving", "arrived"})

\* The activities that go with a direction and a stage.
Agree(a, d, s) ==
    /\ s = "turning" <=> a \in Turning
    /\ a \in Counting \cup Removing => s = "moving"
    /\ a \in Turning \cup {"D3"} => d = "none"
    /\ d = "none" => s \in {"rest", "turning"} /\ a \notin Requesting
    /\ a \in {"IncreaseFloor", "RemoveFromListGU", "D1", "D4"} => d = "GoingUp_"
    /\ a \in {"DecreaseFloor", "RemoveFromListGD", "D2", "D5"} => d = "GoingDown_"

\* The action of a place, or of some place of a set, waits or runs.
Pending(p) == ActionInExecution(p)
IsPending(S) == \E i \in 1..Len(jobs) : jobs[i] \in S

(***************************************************************************)
(* The queue. An action whose end its activity awaits is the last one.     *)
(* Removing and merging actions, which the net does not await everywhere,  *)
(* are at the front when they are left over from an earlier activity, and  *)
(* T3 waits for the action of ProcessedLists behind them. At most one      *)
(* request is in it.                                                       *)
(***************************************************************************)
QueueFits(a, d, s) ==
    /\ a \in Counting \cup Swapping \cup Choosing => jobs = <<>> \/ jobs[Len(jobs)] = a
    /\ \A i \in 1..Len(jobs) :
        /\ jobs[i] \in Counting \cup Swapping \cup Choosing => jobs[i] = a /\ i = Len(jobs)
        /\ jobs[i] = "ProcessedLists" => s = "rest"
        /\ jobs[i] \in Removing =>
             /\ i = 1
             /\ currentFloor \in destinations
             /\ jobs[i] = a \/ s \in {"arrived", "processing"} \/ (s = "rest" /\ Pending("ProcessedLists"))
        /\ jobs[i] \in Merging =>
             /\ i = 1
             /\ jobs[i] = a \/ (s = "rest" /\ Pending("ProcessedLists"))
             /\ jobs[i] = "MergeGoingUpGTCurrent" => a = jobs[i] \/ d \in Up
             /\ jobs[i] = "MergeGoingDownSTCurrent" => a = jobs[i] \/ d \in Down
        /\ jobs[i] \in Requesting =>
             /\ a \notin Asking \cup Choosing \cup Merging \cup Removing
             /\ a \in Requesting => a = jobs[i]
             /\ d = "none" => a \in Swapping /\ jobs[i] # "AddToTravel"
             /\ \A j \in 1..Len(jobs) : jobs[j] \in Requesting => j = i

\* One request at a time, from the press of the button to its action.
RequestsApart(a, d, s) ==
    /\ \A b \in FloorButtons : tokens[b] <= 1
    /\ \A b, c \in FloorButtons : tokens[b] > 0 /\ tokens[c] > 0 => b = c
    /\ pressing # "none" => \A b \in FloorButtons : tokens[b] = 0
    /\ pressing # "none" \/ (\E b \in FloorButtons : tokens[b] > 0) =>
          a \notin Asking \cup Requesting /\ ~IsPending(Requesting)
    /\ a \in Asking => toAddToDestination # currentFloor

\* Floor f lies ahead of the cabin in direction h; floor g is not before f.
Ahead(h, f) == (h \in Up /\ f > currentFloor) \/ (h \in Down /\ f < currentFloor)
AsFar(h, g, f) == (h \in Up /\ g >= f) \/ (h \in Down /\ g <= f)

(***************************************************************************)
(* The lists of a travel in direction d. All its destinations lie ahead,   *)
(* but for the one the cabin has just arrived at. Floors of the next       *)
(* travel do not lie ahead, or a destination lies as far; while they are   *)
(* being merged into this travel they all lie ahead.                       *)
(***************************************************************************)
Travelling(a, d, s) ==
    /\ \A f \in destinations :
          \/ Ahead(d, f)
          \/ f = currentFloor /\ (IsPending(Removing) \/ (a \in Counting /\ ~Pending(a)))
    /\ IF IsPending(Postponing)
       THEN \A n \in nextTravelDestinations : Ahead(d, n)
       ELSE \A n \in nextTravelDestinations :
               ~Ahead(d, n) \/ \E f \in destinations : AsFar(d, f, n)
    /\ s = "moving" /\ a \notin Removing => destinations # {}
    /\ Pending("AddToTravel") => Ahead(d, toAddToDestination)
    /\ Pending("AddToNextTravel") => toAddToDestination # currentFloor /\ ~Ahead(d, toAddToDestination)

\* The lists while the elevator turns: before and after they are rotated,
Swaps(a) ==
    IF Pending(a)
    THEN /\ destinations = {}
         /\ \A n \in nextTravelDestinations : Ahead(a, n) \/ n = currentFloor
         /\ Pending("AddToNextTravel") => Ahead(a, toAddToDestination)
    ELSE nextTravelDestinations = {} /\ \A f \in destinations : Ahead(a, f)

\* while the first of the waiting floors gives the new direction,
Chooses(a) ==
    /\ a = "MergeMaxGoingDown1" => waitingToGoUp = {}
    /\ a = "MergeMinGoingUp2" => waitingToGoDown = {}
    /\ IF Pending(a)
       THEN destinations = {} /\ nextTravelDestinations = {}
       ELSE /\ a \in ChoosingMin => waitingToGoUp = {}
            /\ a \in ChoosingMax => waitingToGoDown = {}
            /\ \/ destinations = {} /\ nextTravelDestinations = {}
               \/ \E m \in Floors :
                    /\ destinations = {m}
                    /\ \A n \in nextTravelDestinations :
                         IF a \in ChoosingMin THEN n >= m ELSE n <= m

\* and while the other floors are merged into the new travel.
Merges(a) ==
    /\ \A f \in destinations : Ahead(a, f)
    /\ IF a \in Postponing /\ Pending(a)
       THEN \A n \in nextTravelDestinations : Ahead(a, n)
       ELSE nextTravelDestinations = {}

\* The four lists in activity a, direction d and stage s.
ListsFit(a, d, s) ==
    /\ d # "none" => Travelling(a, d, s)
    /\ d = "none" /\ s # "turning" => Known = {}
    /\ a \in Swapping => Swaps(a)
    /\ a \in Choosing => Chooses(a)
    /\ a \in Merging => Merges(a)

\* The cabin, the lists and the request know floors of the building only.
FloorsExist == Known \cup {currentFloor, toAddToDestination} \subseteq Floors

(***************************************************************************)
(* The inductive invariant of a journey: in some activity, direction and   *)
(* stage, the tokens, the queue, the requests and the lists fit each       *)
(* other.                                                                  *)
(***************************************************************************)
Fit(a, d, s) ==
    Agree(a, d, s) /\ QueueFits(a, d, s) /\ RequestsApart(a, d, s) /\ ListsFit(a, d, s)

Carried ==
    \E a \in Activities, d \in Directions \cup {"none"}, s \in Stages :
       MarkedAs(a, d, s) /\ Fit(a, d, s)

JourneyFits == ~disturbed => FloorsExist /\ Carried
-----------------------------------------------------------------------------
(***************************************************************************)
(* The skeleton of the net: what its 66 transitions do to the activity,    *)
(* the direction, the stage, the queue and the requests. Each kind of step *)
(* stands for the transitions named beside it.                             *)
(***************************************************************************)
\* No request is taken up, the one of button b is, an action is queued.
Untaken == \A b \in FloorButtons : tokens'[b] = tokens[b]
Taken(b) ==
    b \in FloorButtons /\ tokens[b] > 0 /\ \A c \in FloorButtons : tokens'[c] = tokens[c] - Count(c = b)
Enters(p) == jobs' = Append(jobs, p)

\* T1, T2, T5 to T9
Idles(a, d, s) ==
    /\ \/ MarkedAs(a, d, s)'
       \/ d = "GoingUp" /\ MarkedAs(a, "GoingUp_", s)'
       \/ d = "GoingDown" /\ MarkedAs(a, "GoingDown_", s)'
    /\ jobs' = jobs /\ Untaken

\* T3
Departs(a, d, s) ==
    /\ s = "rest" /\ destinations # {} /\ ~Pending("ProcessedLists")
    /\ MarkedAs(a, d, "moving")' /\ jobs' = jobs /\ Untaken

\* T4
Stops(a, d, s) ==
    s = "arrived" /\ MarkedAs(a, d, "processing")' /\ jobs' = jobs /\ Untaken

\* T10, T11
StartsCounting(a, d, s) ==
    /\ a = "Ready" /\ s = "moving"
    /\ \E a2 \in Counting :
         /\ d = IF a2 = "IncreaseFloor" THEN "GoingUp_" ELSE "GoingDown_"
         /\ MarkedAs(a2, d, s)' /\ Enters(a2) /\ Untaken

\* T12, T13
PassesFloor(a, d, s) ==
    /\ a \in Counting /\ ~Pending(a) /\ currentFloor \notin destinations
    /\ MarkedAs("Ready", d, s)' /\ jobs' = jobs /\ Untaken

\* T14, T16
StopsAtFloor(a, d, s) ==
    /\ a \in Counting /\ ~Pending(a) /\ currentFloor \in destinations
    /\ \E a2 \in Removing :
         /\ a2 = IF a = "IncreaseFloor" THEN "RemoveFromListGU" ELSE "RemoveFromListGD"
         /\ MarkedAs(a2, d, s)' /\ Enters(a2) /\ Untaken

\* T15, T17
HasStopped(a, d, s) ==
    a \in Removing /\ MarkedAs("Ready", d, "arrived")' /\ jobs' = jobs /\ Untaken

\* T18, T31
GoesOn(a, d, s) ==
    /\ a = "Ready" /\ s = "processing"
    /\ MarkedAs(a, d, "rest")' /\ Enters("ProcessedLists") /\ Untaken

\* T19, T32
Turns(a, d, s) ==
    /\ a = "Ready" /\ s = "processing" /\ destinations = {} /\ (Pending("AddToTravel") => disturbed')
    /\ \E a2 \in Swapping :
         /\ d = IF a2 = "SwapGU" THEN "GoingUp_" ELSE "GoingDown_"
         /\ MarkedAs(a2, "none", "turning")' /\ Enters(a2) /\ Untaken

\* T20, T33
MergesWaiting(a, d, s) ==
    /\ a \in Swapping /\ ~Pending(a) /\ destinations # {}
    /\ \E a2 \in Merging \ Postponing :
         /\ (a2 \in Up <=> a \in Up)
         /\ MarkedAs(a2, d, s)' /\ Enters(a2) /\ Untaken

\* T21, T34
LooksForWaiting(a, d, s) ==
    /\ a \in Swapping /\ ~Pending(a) /\ destinations = {}
    /\ \E a2 \in {"MergeMinGoingUp1", "MergeMaxGoingDown2"} :
          MarkedAs(a2, d, s)' /\ Enters(a2) /\ Untaken

\* T22, T29, T30, T35, T42, T43
HasMerged(a, d, s) ==
    /\ a \in Merging
    /\ MarkedAs("Ready", IF a \in Up THEN "GoingUp" ELSE "GoingDown", "rest")'
    /\ Enters("ProcessedLists") /\ Untaken

\* T23, T36
LooksFurther(a, d, s) ==
    /\ ~Pending(a) /\ destinations = {}
    /\ \E a2 \in {"MergeMaxGoingDown1", "MergeMinGoingUp2"} :
         /\ a = IF a2 = "MergeMaxGoingDown1" THEN "MergeMinGoingUp1" ELSE "MergeMaxGoingDown2"
         /\ MarkedAs(a2, d, s)' /\ Enters(a2) /\ Untaken

\* The only destination lies in direction h.
Sees(a, h) ==
    /\ a \in Choosing /\ ~Pending(a) /\ destinations # {}
    /\ h \in Up => (IF a \in ChoosingMin THEN Min(destinations) ELSE Max(destinations)) > currentFloor
    /\ h \in Down => (IF a \in ChoosingMin THEN Min(destinations) ELSE Max(destinations)) < currentFloor

\* T24, T28, T37, T41
ChoosesDirection(a, d, s) ==
    /\ \E h \in {"GoingUp", "GoingDown"} :
          Sees(a, h) /\ (a \in ChoosingMin <=> h = "GoingDown") /\ MarkedAs("Ready", h, "rest")'
    /\ Enters("ProcessedLists") /\ Untaken

\* T25, T27, T38, T40
ChoosesAll(a, d, s) ==
    \E a2 \in Postponing :
       /\ Sees(a, a2) /\ (a \in ChoosingMin <=> a2 \in Up)
       /\ MarkedAs(a2, d, s)' /\ Enters(a2) /\ Untaken

\* T26, T39
FindsNothing(a, d, s) ==
    /\ a \in {"MergeMaxGoingDown1", "MergeMinGoingUp2"} /\ ~Pending(a) /\ destinations = {}
    /\ MarkedAs("Ready", "none", "rest")' /\ Enters("ProcessedLists") /\ Untaken

\* T44 to T46, T55, T56, T61, T62
TakesUp(a, d, s) ==
    /\ a = "Ready" /\ toAddToDestination # currentFloor
    /\ \/ d \notin {"GoingUp_", "GoingDown_"} /\ (d # "none" => disturbed') /\ MarkedAs("D3", d, s)'
       \/ d = "GoingUp_" /\ \E a2 \in {"D1", "D4"} : MarkedAs(a2, d, s)'
       \/ d = "GoingDown_" /\ \E a2 \in {"D2", "D5"} : MarkedAs(a2, d, s)'
    /\ jobs' = jobs /\ \E b \in FloorButtons : Taken(b)

\* T47 to T50, T58, T59, T64, T65
Assigns(a, d, s) ==
    /\ a \in Asking \ {"D3"}
    /\ \E a2 \in Requesting :
         /\ toAddToDestination > currentFloor /\ a2 = "AddToTravel" => d = "GoingUp_"
         /\ toAddToDestination < currentFloor /\ a2 = "AddToTravel" => d = "GoingDown_"
         /\ toAddToDestination > currentFloor /\ a2 = "AddToNextTravel" => d = "GoingDown_"
         /\ toAddToDestination < currentFloor /\ a2 = "AddToNextTravel" => d = "GoingUp_"
         /\ MarkedAs(a2, d, s)' /\ Enters(a2) /\ Untaken

\* T57, T63
LetsWait(a, d, s) ==
    /\ a = "Ready"
    /\ \E a2 \in {"WaitToGoUp", "WaitToGoDown"} :
         /\ d = IF a2 = "WaitToGoUp" THEN "GoingDown_" ELSE "GoingUp_"
         /\ MarkedAs(a2, d, s)' /\ Enters(a2) /\ \E b \in FloorButtons : Taken(b)

\* T51, T52
SetsOut(a, d, s) ==
    /\ a = "D3"
    /\ \E d2 \in {"GoingUp", "GoingDown"} : Ahead(d2, toAddToDestination) /\ MarkedAs("AddToTravel", d2, s)'
    /\ Enters("AddToTravel") /\ Untaken

\* T53, T54, T60, T66
IsAssigned(a, d, s) ==
    a \in Requesting /\ MarkedAs("Ready", d, s)' /\ jobs' = jobs /\ Untaken

Skeleton(a, d, s) ==
    \/ Idles(a, d, s) \/ Departs(a, d, s) \/ Stops(a, d, s) \/ StartsCounting(a, d, s)
    \/ PassesFloor(a, d, s) \/ StopsAtFloor(a, d, s) \/ HasStopped(a, d, s)
    \/ GoesOn(a, d, s) \/ Turns(a, d, s) \/ MergesWaiting(a, d, s) \/ LooksForWaiting(a, d, s)
    \/ HasMerged(a, d, s) \/ LooksFurther(a, d, s) \/ ChoosesDirection(a, d, s)
    \/ ChoosesAll(a, d, s) \/ FindsNothing(a, d, s) \/ TakesUp(a, d, s) \/ Assigns(a, d, s)
    \/ LetsWait(a, d, s) \/ SetsOut(a, d, s) \/ IsAssigned(a, d, s)
-----------------------------------------------------------------------------
\* The places that tell the direction and the stage.
Controls == Directions \cup {"ProcessLists", "ProcessedLists", "ArrivedDestination", "Moving", "Moving_"}

\* What the proofs use of Fire(t).
Fires(t) ==
    /\ {currentFloor, toAddToDestination} \subseteq Int
    /\ \A p \in t.activation : tokens[p] > 0
    /\ \A p \in t.inhibitor : ~Marked(p)
    /\ \A p \in Activities \cup Controls \cup FloorButtons :
          /\ tokens[p] \in Nat
          /\ tokens'[p] = tokens[p] - Count(p \in t.activation) + Count(p \in t.destination)
    /\ t.requireNoActions => \A p \in t.activation : ~Pending(p)
    /\ \A c \in t.conditions : Holds(c)
    /\ t.destination \cap OnEnter = {} => jobs' = jobs
    /\ \A p : t.destination \cap OnEnter = {p} => Enters(p)
    /\ TakenWhileTurning(t) \/ TurnedBeforeAdding(t) => disturbed'

\* The row of the table that t is.
Row(t, activation, destination, inhibitor, conditions, quiet) ==
    /\ t.activation = activation /\ t.destination = destination /\ t.inhibitor = inhibitor
    /\ t.conditions = conditions /\ t.requireNoActions = quiet

\* A transition that takes the token of an activity gives it to another one.
LEMMA ActivityPasses ==
    ASSUME NEW t \in Transitions, Fires(t), NEW a \in Activities, NEW d, NEW s, MarkedAs(a, d, s),
           NEW x \in t.activation \cap Activities, NEW y \in t.destination \cap Activities
    PROVE  a = x /\ \A p \in Activities : tokens'[p] = Count(p = y)
<1>1. PassesOn(t, Activities)
  BY TableIsDisciplined DEF Disciplined
<1>2. a = x
  BY DEF Fires, MarkedAs, Count
<1>3. ASSUME NEW p \in Activities
      PROVE  (p \in t.activation <=> p = x) /\ (p \in t.destination <=> p = y)
  BY <1>1 DEF PassesOn
<1>4. \A p \in Activities :
         /\ tokens[p] = Count(p = x)
         /\ tokens'[p] = tokens[p] - Count(p \in t.activation) + Count(p \in t.destination)
  BY <1>2 DEF Fires, MarkedAs
<1> QED
  BY <1>2, <1>3, <1>4 DEF Count

LEMMA ActivityRests ==
    ASSUME NEW t \in Transitions, Fires(t), NEW a \in Activities, NEW d, NEW s, MarkedAs(a, d, s),
           t.activation \cap Activities = {}
    PROVE  \A p \in Activities : tokens'[p] = Count(p = a)
<1>1. PassesOn(t, Activities)
  BY TableIsDisciplined DEF Disciplined
<1>3. ASSUME NEW p \in Activities
      PROVE  p \notin t.activation /\ p \notin t.destination
  BY <1>1 DEF PassesOn
<1> QED
  BY <1>3 DEF Fires, MarkedAs, Count

\* T1 to T9
LEMMA CabineSteps ==
    ASSUME NEW t \in CabineTransitions, Fires(t),
           NEW a \in Activities, NEW d \in Directions \cup {"none"}, NEW s \in Stages,
           MarkedAs(a, d, s), Agree(a, d, s)
    PROVE  Skeleton(a, d, s)
<1>t. t \in Transitions
  BY DEF Transitions
<1>1. t.activation \cap Activities = {} /\ t.destination \cap OnEnter = {}
  BY DEF CabineTransitions, Departure, Plain, Quiet, Activities, OnEnter
<1>2. \A p \in Activities : tokens'[p] = Count(p = a)
  BY <1>t, <1>1, ActivityRests
<1>3. jobs' = jobs
  BY <1>1 DEF Fires
<1>4. Untaken
  <2>1. t.activation \cap FloorButtons = {} /\ t.destination \cap FloorButtons = {}
    BY DEF CabineTransitions, Departure, Plain, Quiet, FloorButtons
  <2> QED
    BY <2>1 DEF Fires, Untaken, Count
<1>5. CASE t.name \in {"T1", "T2", "T5", "T7"}
  <2>1. t.activation \cap Controls = {} /\ t.destination \cap Controls = {}
    BY <1>5 DEF CabineTransitions, Departure, Plain, Quiet, Controls, Directions
  <2>2. \A p \in Controls : tokens'[p] = tokens[p]
    BY <2>1 DEF Fires, Count
  <2>3. MarkedAs(a, d, s)'
    BY <1>2, <2>2 DEF MarkedAs, Controls
  <2> QED
    BY <1>3, <1>4, <2>3 DEF Skeleton, Idles
<1>6. CASE t.name = "T6"
  <2>1. Row(t, {"Moving"}, {"Moving_"}, {}, {}, FALSE)
    BY <1>6 DEF CabineTransitions, Departure, Plain, Quiet, Row
  <2>2. /\ \A p \in Controls \ {"Moving", "Moving_"} : tokens'[p] = tokens[p]
        /\ tokens'["Moving"] + tokens'["Moving_"] = tokens["Moving"] + tokens["Moving_"]
    BY <2>1 DEF Row, Fires, Controls, Count
  <2>3. MarkedAs(a, d, s)'
    BY <1>2, <2>2 DEF MarkedAs, Controls, Directions
  <2> QED
    BY <1>3, <1>4, <2>3 DEF Skeleton, Idles
<1>7. CASE t.name \in {"T8", "T9"}
  <2>1. PICK h \in {"GoingUp", "GoingDown"} :
           Row(t, {h}, {IF h = "GoingUp" THEN "GoingUp_" ELSE "GoingDown_"}, {}, {}, FALSE)
    BY <1>7 DEF CabineTransitions, Departure, Plain, Quiet, Row
  <2>2. d = h
    BY <2>1 DEF Row, Fires, MarkedAs, Directions, Count
  <2>3. \A p \in Controls :
           tokens'[p] = tokens[p] - Count(p = h)
                        + Count(p = IF h = "GoingUp" THEN "GoingUp_" ELSE "GoingDown_")
    BY <2>1 DEF Row, Fires
  <2>4. \A p \in Controls \ Directions : tokens'[p] = tokens[p]
    BY <2>3 DEF Controls, Directions, Count, Fires
  <2>5. \A p \in Directions :
           tokens'[p] = Count(p = IF h = "GoingUp" THEN "GoingUp_" ELSE "GoingDown_")
    BY <2>2, <2>3 DEF MarkedAs, Controls, Directions, Count
  <2>6. MarkedAs(a, IF h = "GoingUp" THEN "GoingUp_" ELSE "GoingDown_", s)'
    BY <1>2, <2>4, <2>5 DEF MarkedAs, Controls, Directions
  <2> QED
    BY <1>3, <1>4, <2>2, <2>6 DEF Skeleton, Idles
<1>8. CASE t.name = "T3"
  <2>1. Row(t, {"Stopped_", "DoorsClosed_", "ProcessedLists"}, {"DoorsClosed_", "Moving"},
            {"OpenDoors"}, {"DestinationListNotEmpty"}, TRUE)
    BY <1>8 DEF CabineTransitions, Departure, Plain, Quiet, Row
  <2>2. s = "rest"
    BY <2>1 DEF Row, Fires, MarkedAs, Count
  <2>3. \A p \in Controls :
           tokens'[p] = tokens[p] - Count(p = "ProcessedLists") + Count(p = "Moving")
    BY <2>1 DEF Row, Fires, Controls, Directions, Count
  <2>4. MarkedAs(a, d, "moving")'
    <3>1. \A p \in Directions \cup {"ProcessLists", "ArrivedDestination", "Moving_"} : tokens'[p] = tokens[p]
      BY <2>3 DEF Controls, Directions, Count, Fires
    <3>2. tokens'["ProcessedLists"] = 0 /\ tokens'["Moving"] = tokens["Moving"] + 1
      BY <2>2, <2>3 DEF MarkedAs, Controls, Count, Fires
    <3> QED
      BY <1>2, <2>2, <3>1, <3>2 DEF MarkedAs, Count, Fires, Controls
  <2>5. destinations # {} /\ ~Pending("ProcessedLists")
    BY <2>1 DEF Row, Fires, Holds
  <2> QED
    BY <1>3, <1>4, <2>2, <2>4, <2>5 DEF Skeleton, Departs
<1>9. CASE t.name = "T4"
  <2>1. Row(t, {"ArrivedDestination", "Moving_"}, {"Stopped", "OpenDoors"}, {}, {}, FALSE)
    BY <1>9 DEF CabineTransitions, Departure, Plain, Quiet, Row
  <2>2. s = "arrived"
    BY <2>1 DEF Row, Fires, MarkedAs, Count
  <2>3. \A p \in Controls :
           tokens'[p] = tokens[p] - Count(p \in {"ArrivedDestination", "Moving_"})
    BY <2>1 DEF Row, Fires, Controls, Directions, Count
  <2>4. MarkedAs(a, d, "processing")'
    <3>1. \A p \in Directions \cup {"ProcessLists", "ProcessedLists", "Moving"} : tokens'[p] = tokens[p]
      BY <2>3 DEF Controls, Directions, Count, Fires
    <3>2. tokens'["ArrivedDestination"] = 0 /\ tokens'["Moving_"] = tokens["Moving_"] - 1
      BY <2>2, <2>3 DEF MarkedAs, Controls, Count, Fires
    <3> QED
      BY <1>2, <2>2, <3>1, <3>2 DEF MarkedAs, Count, Fires, Controls
  <2> QED
    BY <1>3, <1>4, <2>2, <2>4 DEF Skeleton, Stops
<1> QED
  BY <1>5, <1>6, <1>7, <1>8, <1>9 DEF CabineTransitions, Departure, Plain, Quiet

\* Another activity, in the same direction and stage.
LEMMA ControlsKept ==
    ASSUME NEW a, NEW d, NEW s, MarkedAs(a, d, s), NEW y,
           \A p \in Activities : tokens'[p] = Count(p = y),
           \A p \in Controls : tokens'[p] = tokens[p]
    PROVE  MarkedAs(y, d, s)'
BY DEF MarkedAs, Controls

\* T10 to T17
LEMMA SimulationSteps ==
    ASSUME NEW t \in SimulationTransitions, Fires(t),
           NEW a \in Activities, NEW d \in Directions \cup {"none"}, NEW s \in Stages,
           MarkedAs(a, d, s), Agree(a, d, s)
    PROVE  Skeleton(a, d, s)
<1>t. t \in Transitions
  BY DEF Transitions
<1>f. Untaken
  <2>1. t.activation \cap FloorButtons = {} /\ t.destination \cap FloorButtons = {}
    BY DEF SimulationTransitions, Plain, Quiet, Inhibited, FloorButtons
  <2> QED
    BY <2>1 DEF Fires, Untaken, Count
<1>1. CASE t.name \in {"T10", "T11"}
  <2>1. PICK x \in Counting, h \in {"GoingUp_", "GoingDown_"} :
           /\ h = IF x = "IncreaseFloor" THEN "GoingUp_" ELSE "GoingDown_"
           /\ Row(t, {h, "Ready", "Moving_"}, {"Moving_", h, x}, {"ArrivedDestination"}, {}, FALSE)
    BY <1>1 DEF SimulationTransitions, Quiet, Plain, Inhibited, Row, Counting
  <2>2. "Ready" \in t.activation \cap Activities /\ x \in t.destination \cap Activities
    BY <2>1 DEF Row, Activities, OnEnter, Counting
  <2>3. a = "Ready" /\ \A p \in Activities : tokens'[p] = Count(p = x)
    BY <1>t, <2>2, ActivityPasses
  <2>4. \A p \in Controls : tokens'[p] = tokens[p]
    BY <2>1 DEF Row, Fires, Count, Directions, Controls, Counting
  <2>5. MarkedAs(x, d, s)'
    BY <2>3, <2>4, ControlsKept
  <2>6. d = h
    BY <2>1 DEF Row, Fires, MarkedAs, Directions, Count
  <2>7. s = "moving"
    <3>1. tokens["Moving_"] > 0 /\ ~(tokens["ArrivedDestination"] > 0) /\ tokens["Moving"] \in Nat
          /\ tokens["Moving_"] \in Nat
      BY <2>1 DEF Row, Fires, Controls, Marked
    <3> QED
      BY <3>1 DEF MarkedAs, Count
  <2>8. Enters(x)
    <3>1. t.destination \cap OnEnter = {x}
      BY <2>1 DEF Row, OnEnter, Counting
    <3> QED
      BY <3>1 DEF Fires
  <2> QED
    BY <1>f, <2>1, <2>3, <2>5, <2>6, <2>7, <2>8 DEF Skeleton, StartsCounting
<1>2. CASE t.name \in {"T12", "T13"}
  <2>1. PICK x \in Counting : Row(t, {x}, {"Ready"}, {}, {"FloorNotInList"}, TRUE)
    BY <1>2 DEF SimulationTransitions, Quiet, Plain, Inhibited, Row, Counting
  <2>2. x \in t.activation \cap Activities /\ "Ready" \in t.destination \cap Activities
    BY <2>1 DEF Row, Activities, OnEnter, Counting
  <2>3. a = x /\ \A p \in Activities : tokens'[p] = Count(p = "Ready")
    BY <1>t, <2>2, ActivityPasses
  <2>4. \A p \in Controls : tokens'[p] = tokens[p]
    BY <2>1 DEF Row, Fires, Count, Directions, Controls, Counting
  <2>5. MarkedAs("Ready", d, s)'
    BY <2>3, <2>4, ControlsKept
  <2>6. ~Pending(a) /\ currentFloor \notin destinations
    BY <2>1, <2>3 DEF Row, Fires, Holds
  <2>7. jobs' = jobs
    BY <2>1 DEF Row, Fires, OnEnter
  <2> QED
    BY <1>f, <2>3, <2>5, <2>6, <2>7 DEF Skeleton, PassesFloor
<1>3. CASE t.name \in {"T14", "T16"}
  <2>1. PICK x \in Counting, y \in Removing :
           /\ y = IF x = "IncreaseFloor" THEN "RemoveFromListGU" ELSE "RemoveFromListGD"
           /\ Row(t, {x}, {y}, {}, {"FloorInList"}, TRUE)
    BY <1>3 DEF SimulationTransitions, Quiet, Plain, Inhibited, Row, Counting, Removing
  <2>2. x \in t.activation \cap Activities /\ y \in t.destination \cap Activities
    BY <2>1 DEF Row, Activities, OnEnter, Counting, Removing
  <2>3. a = x /\ \A p \in Activities : tokens'[p] = Count(p = y)
    BY <1>t, <2>2, ActivityPasses
  <2>4. \A p \in Controls : tokens'[p] = tokens[p]
    BY <2>1 DEF Row, Fires, Count, Directions, Controls, Counting, Removing
  <2>5. MarkedAs(y, d, s)'
    BY <2>3, <2>4, ControlsKept
  <2>6. ~Pending(a) /\ currentFloor \in destinations
    BY <2>1, <2>3 DEF Row, Fires, Holds
  <2>7. Enters(y)
    <3>1. t.destination \cap OnEnter = {y}
      BY <2>1 DEF Row, OnEnter, Removing
    <3> QED
      BY <3>1 DEF Fires
  <2> QED
    BY <1>f, <2>1, <2>3, <2>5, <2>6, <2>7 DEF Skeleton, StopsAtFloor
<1>4. CASE t.name \in {"T15", "T17"}
  <2>1. PICK x \in Removing : Row(t, {x}, {"ProcessLists", "ArrivedDestination", "Ready"}, {}, {}, FALSE)
    BY <1>4 DEF SimulationTransitions, Quiet, Plain, Inhibited, Row, Removing
  <2>2. x \in t.activation \cap Activities /\ "Ready" \in t.destination \cap Activities
    BY <2>1 DEF Row, Activities, OnEnter, Removing
  <2>3. a = x /\ \A p \in Activities : tokens'[p] = Count(p = "Ready")
    BY <1>t, <2>2, ActivityPasses
  <2>4. \A p \in Controls : tokens'[p] = tokens[p] + Count(p \in {"ProcessLists", "ArrivedDestination"})
    BY <2>1 DEF Row, Fires, Count, Directions, Controls, Removing
  <2>5. s = "moving"
    BY <2>3 DEF Agree
  <2>6. MarkedAs("Ready", d, "arrived")'
    <3>1. \A p \in Controls \ {"ProcessLists", "ArrivedDestination"} : tokens'[p] = tokens[p]
      BY <2>4 DEF Fires, Count
    <3>2. tokens'["ProcessLists"] = 1 /\ tokens'["ArrivedDestination"] = 1
      BY <2>4, <2>5 DEF Controls, MarkedAs, Count
    <3> QED
      BY <2>3, <2>5, <3>1, <3>2 DEF MarkedAs, Count, Controls, Directions
  <2>7. jobs' = jobs
    BY <2>1 DEF Row, Fires, OnEnter
  <2> QED
    BY <1>f, <2>1, <2>3, <2>6, <2>7 DEF Skeleton, HasStopped
<1> QED
  BY <1>1, <1>2, <1>3, <1>4 DEF SimulationTransitions, Quiet, Plain, Inhibited

Arriving == ArrivingGoingDownTransitions \cup ArrivingGoingUpTransitions

\* The elevator is ready again, with a new direction or without one.
LEMMA ListsProcessed ==
    ASSUME NEW a, MarkedAs(a, "none", "turning"), NEW h \in {"GoingUp", "GoingDown", "none"},
           \A p \in Activities : tokens'[p] = Count(p = "Ready"),
           \A p \in Controls : /\ tokens[p] \in Nat
                               /\ tokens'[p] = tokens[p] + Count(p \in {"ProcessedLists", h})
    PROVE  MarkedAs("Ready", h, "rest")'
<1>1. \A p \in Directions : tokens'[p] = Count(p = h)
  <2>1. \A p \in Directions : tokens[p] = 0 /\ p # "ProcessedLists" /\ p \in Controls
    BY DEF MarkedAs, Directions, Controls, Count
  <2> QED
    BY <2>1 DEF Count
<1>2. tokens'["ProcessedLists"] = 1
  BY DEF MarkedAs, Controls, Count
<1>3. tokens'["ProcessLists"] = 0 /\ tokens'["ArrivedDestination"] = 0
  <2>1. tokens["ProcessLists"] = 0 /\ tokens["ArrivedDestination"] = 0
    BY DEF MarkedAs, Count
  <2> QED
    BY <2>1 DEF Controls, Count
<1>4. tokens["Moving"] + tokens["Moving_"] = 0
  BY DEF MarkedAs, Count
<1>5. tokens'["Moving"] = tokens["Moving"] /\ tokens'["Moving_"] = tokens["Moving_"]
  BY DEF Controls, Count
<1> QED
  BY <1>1, <1>2, <1>3, <1>4, <1>5 DEF MarkedAs, Count

\* T18 to T43
LEMMA ArrivingSteps ==
    ASSUME NEW t \in Arriving, Fires(t),
           NEW a \in Activities, NEW d \in Directions \cup {"none"}, NEW s \in Stages,
           MarkedAs(a, d, s), Agree(a, d, s)
    PROVE  Skeleton(a, d, s)
<1>t. t \in Transitions
  BY DEF Transitions, Arriving
<1>f. Untaken
  <2>1. t.activation \cap FloorButtons = {} /\ t.destination \cap FloorButtons = {}
    BY DEF Arriving, ArrivingGoingDownTransitions, ArrivingGoingUpTransitions, Plain, Quiet,
           FloorButtons
  <2> QED
    BY <2>1 DEF Fires, Untaken, Count
<1>1. CASE t.name \in {"T18", "T31"}
  <2>1. PICK h \in {"GoingUp_", "GoingDown_"} :
           Row(t, {"Ready", "ProcessLists", h, "DoorsClosed_"},
               {"Ready", h, "DoorsClosed_", "ProcessedLists"},
               {"OpenDoors", "ArrivedDestination"}, {"DestinationListNotEmpty"}, TRUE)
    BY <1>1 DEF Arriving, ArrivingGoingDownTransitions, ArrivingGoingUpTransitions, Plain, Quiet, Row
  <2>2. "Ready" \in t.activation \cap Activities /\ "Ready" \in t.destination \cap Activities
    BY <2>1 DEF Row, Activities
  <2>3. a = "Ready" /\ \A p \in Activities : tokens'[p] = Count(p = a)
    BY <1>t, <2>2, ActivityPasses
  <2>4. s = "processing"
    BY <2>1 DEF Row, Fires, Controls, Marked, MarkedAs, Count
  <2>5. \A p \in Controls :
           tokens'[p] = tokens[p] - Count(p = "ProcessLists") + Count(p = "ProcessedLists")
    BY <2>1 DEF Row, Fires, Count, Directions, Controls
  <2>6. MarkedAs(a, d, "rest")'
    <3>1. \A p \in Controls \ {"ProcessLists", "ProcessedLists"} : tokens'[p] = tokens[p]
      BY <2>5 DEF Fires, Count
    <3>2. tokens'["ProcessLists"] = 0 /\ tokens'["ProcessedLists"] = 1
      BY <2>4, <2>5 DEF Controls, MarkedAs, Count
    <3> QED
      BY <2>3, <2>4, <3>1, <3>2 DEF MarkedAs, Count, Controls, Directions
  <2>7. Enters("ProcessedLists")
    <3>1. t.destination \cap OnEnter = {"ProcessedLists"}
      BY <2>1 DEF Row, OnEnter
    <3> QED
      BY <3>1 DEF Fires
  <2> QED
    BY <1>f, <2>3, <2>4, <2>6, <2>7 DEF Skeleton, GoesOn
<1>2. CASE t.name \in {"T19", "T32"}
  <2>1. PICK x \in Swapping, h \in {"GoingUp_", "GoingDown_"} :
           /\ h = IF x = "SwapGU" THEN "GoingUp_" ELSE "GoingDown_"
           /\ Row(t, {"Ready", "ProcessLists", h, "DoorsClosed_"}, {"DoorsClosed_", x},
                  {"OpenDoors", "ArrivedDestination"}, {"DestinationListEmpty"}, TRUE)
    BY <1>2 DEF Arriving, ArrivingGoingDownTransitions, ArrivingGoingUpTransitions, Plain, Quiet, Row,
                Swapping
  <2>2. "Ready" \in t.activation \cap Activities /\ x \in t.destination \cap Activities
    BY <2>1 DEF Row, Activities, OnEnter, Swapping
  <2>3. a = "Ready" /\ \A p \in Activities : tokens'[p] = Count(p = x)
    BY <1>t, <2>2, ActivityPasses
  <2>4. s = "processing" /\ d = h
    BY <2>1 DEF Row, Fires, Controls, Marked, MarkedAs, Count, Directions
  <2>5. \A p \in Controls : tokens'[p] = tokens[p] - Count(p \in {"ProcessLists", h})
    BY <2>1 DEF Row, Fires, Count, Directions, Controls, Swapping
  <2>6. MarkedAs(x, "none", "turning")'
    <3>1. \A p \in {"ProcessedLists", "ArrivedDestination", "Moving", "Moving_"} : tokens'[p] = tokens[p]
      BY <2>5 DEF Fires, Count, Controls
    <3>2. tokens'["ProcessLists"] = 0
      BY <2>4, <2>5 DEF Controls, MarkedAs, Count
    <3>3. \A p \in Directions : tokens'[p] = Count(p = "none")
      BY <2>4, <2>5 DEF Controls, Directions, MarkedAs, Count
    <3> QED
      BY <2>3, <2>4, <3>1, <3>2, <3>3 DEF MarkedAs, Count
  <2>7. Enters(x)
    <3>1. t.destination \cap OnEnter = {x}
      BY <2>1 DEF Row, OnEnter, Swapping
    <3> QED
      BY <3>1 DEF Fires
  <2>8. destinations = {} /\ (Pending("AddToTravel") => disturbed')
    BY <2>1 DEF Row, Fires, Holds, TurnedBeforeAdding, Pending, Swapping
  <2> QED
    BY <1>f, <2>1, <2>3, <2>4, <2>6, <2>7, <2>8 DEF Skeleton, Turns
<1>3. CASE t.name \in {"T20", "T33"}
  <2>1. PICK x \in Swapping, y \in Merging \ Postponing :
           (y \in Up <=> x \in Up) /\ Row(t, {x}, {y}, {}, {"DestinationListNotEmpty"}, TRUE)
    BY <1>3 DEF Arriving, ArrivingGoingDownTransitions, ArrivingGoingUpTransitions, Plain, Quiet, Row,
                Swapping, Merging, Postponing, Up
  <2>2. x \in t.activation \cap Activities /\ y \in t.destination \cap Activities
    BY <2>1 DEF Row, Activities, OnEnter, Swapping, Merging, Postponing
  <2>3. a = x /\ \A p \in Activities : tokens'[p] = Count(p = y)
    BY <1>t, <2>2, ActivityPasses
  <2>4. \A p \in Controls : tokens'[p] = tokens[p]
    BY <2>1 DEF Row, Fires, Count, Directions, Controls, Swapping, Merging, Postponing
  <2>5. MarkedAs(y, d, s)'
    BY <2>3, <2>4, ControlsKept
  <2>6. ~Pending(a) /\ destinations # {}
    BY <2>1, <2>3 DEF Row, Fires, Holds
  <2>7. Enters(y)
    <3>1. t.destination \cap OnEnter = {y}
      BY <2>1 DEF Row, OnEnter, Merging, Postponing
    <3> QED
      BY <3>1 DEF Fires
  <2> QED
    BY <1>f, <2>1, <2>3, <2>5, <2>6, <2>7 DEF Skeleton, MergesWaiting
<1>4. CASE t.name \in {"T21", "T34"}
  <2>1. PICK x \in Swapping, y \in {"MergeMinGoingUp1", "MergeMaxGoingDown2"} :
           Row(t, {x}, {y}, {}, {"DestinationListEmpty"}, TRUE)
    BY <1>4 DEF Arriving, ArrivingGoingDownTransitions, ArrivingGoingUpTransitions, Plain, Quiet, Row,
                Swapping
  <2>2. x \in t.activation \cap Activities /\ y \in t.destination \cap Activities
    BY <2>1 DEF Row, Activities, OnEnter, Swapping
  <2>3. a = x /\ \A p \in Activities : tokens'[p] = Count(p = y)
    BY <1>t, <2>2, ActivityPasses
  <2>4. \A p \in Controls : tokens'[p] = tokens[p]
    BY <2>1 DEF Row, Fires, Count, Directions, Controls, Swapping
  <2>5. MarkedAs(y, d, s)'
    BY <2>3, <2>4, ControlsKept
  <2>6. ~Pending(a) /\ destinations = {}
    BY <2>1, <2>3 DEF Row, Fires, Holds
  <2>7. Enters(y)
    <3>1. t.destination \cap OnEnter = {y}
      BY <2>1 DEF Row, OnEnter
    <3> QED
      BY <3>1 DEF Fires
  <2> QED
    BY <1>f, <2>1, <2>3, <2>5, <2>6, <2>7 DEF Skeleton, LooksForWaiting
<1>5. CASE t.name \in {"T22", "T35", "T29", "T30", "T42", "T43"}
  <2>1. PICK x \in Merging, h \in {"GoingUp", "GoingDown"} :
           /\ h = IF x \in Up THEN "GoingUp" ELSE "GoingDown"
           /\ Row(t, {x}, {"Ready", "ProcessedLists", h}, {}, {}, FALSE)
    BY <1>5 DEF Arriving, ArrivingGoingDownTransitions, ArrivingGoingUpTransitions, Plain, Quiet, Row,
                Merging, Postponing, Up
  <2>2. x \in t.activation \cap Activities /\ "Ready" \in t.destination \cap Activities
    BY <2>1 DEF Row, Activities, OnEnter, Merging, Postponing
  <2>3. a = x /\ \A p \in Activities : tokens'[p] = Count(p = "Ready")
    BY <1>t, <2>2, ActivityPasses
  <2>4. \A p \in Controls : /\ tokens[p] \in Nat
                            /\ tokens'[p] = tokens[p] + Count(p \in {"ProcessedLists", h})
    BY <2>1 DEF Row, Fires, Count, Directions, Controls, Merging, Postponing
  <2>5. d = "none" /\ s = "turning"
    BY <2>3 DEF Agree, Turning
  <2>6. MarkedAs("Ready", h, "rest")'
    BY <2>3, <2>4, <2>5, ListsProcessed
  <2>7. Enters("ProcessedLists")
    <3>1. t.destination \cap OnEnter = {"ProcessedLists"}
      BY <2>1 DEF Row, OnEnter
    <3> QED
      BY <3>1 DEF Fires
  <2> QED
    BY <1>f, <2>1, <2>3, <2>6, <2>7 DEF Skeleton, HasMerged
<1>6. CASE t.name \in {"T23", "T36"}
  <2>1. PICK x \in Choosing, y \in {"MergeMaxGoingDown1", "MergeMinGoingUp2"} :
           /\ x = IF y = "MergeMaxGoingDown1" THEN "MergeMinGoingUp1" ELSE "MergeMaxGoingDown2"
           /\ Row(t, {x}, {y}, {}, {"DestinationListEmpty"}, TRUE)
    BY <1>6 DEF Arriving, ArrivingGoingDownTransitions, ArrivingGoingUpTransitions, Plain, Quiet, Row,
                Choosing, ChoosingMin, ChoosingMax
  <2>2. x \in t.activation \cap Activities /\ y \in t.destination \cap Activities
    BY <2>1 DEF Row, Activities, OnEnter, Choosing, ChoosingMin, ChoosingMax
  <2>3. a = x /\ \A p \in Activities : tokens'[p] = Count(p = y)
    BY <1>t, <2>2, ActivityPasses
  <2>4. \A p \in Controls : tokens'[p] = tokens[p]
    BY <2>1 DEF Row, Fires, Count, Directions, Controls, Choosing, ChoosingMin, ChoosingMax
  <2>5. MarkedAs(y, d, s)'
    BY <2>3, <2>4, ControlsKept
  <2>6. ~Pending(a) /\ destinations = {}
    BY <2>1, <2>3 DEF Row, Fires, Holds
  <2>7. Enters(y)
    <3>1. t.destination \cap OnEnter = {y}
      BY <2>1 DEF Row, OnEnter
    <3> QED
      BY <3>1 DEF Fires
  <2> QED
    BY <1>f, <2>1, <2>3, <2>5, <2>6, <2>7 DEF Skeleton, LooksFurther
<1>7. CASE t.name \in {"T24", "T37", "T28", "T41"}
  <2>1. PICK x \in Choosing, h \in {"GoingUp", "GoingDown"} :
           /\ x \in ChoosingMin <=> h = "GoingDown"
           /\ t.activation = {x} /\ t.destination = {"Ready", "ProcessedLists", h}
           /\ IF x \in ChoosingMin THEN "MinSmallerThanCurrent" \in t.conditions
                                   ELSE "MaxGreaterThanCurrent" \in t.conditions
           /\ t.requireNoActions
    BY <1>7 DEF Arriving, ArrivingGoingDownTransitions, ArrivingGoingUpTransitions, Plain, Quiet,
                Choosing, ChoosingMin, ChoosingMax
  <2>2. x \in t.activation \cap Activities /\ "Ready" \in t.destination \cap Activities
    BY <2>1 DEF Activities, OnEnter, Choosing, ChoosingMin, ChoosingMax
  <2>3. a = x /\ \A p \in Activities : tokens'[p] = Count(p = "Ready")
    BY <1>t, <2>2, ActivityPasses
  <2>4. \A p \in Controls : /\ tokens[p] \in Nat
                            /\ tokens'[p] = tokens[p] + Count(p \in {"ProcessedLists", h})
    BY <2>1 DEF Fires, Count, Directions, Controls, Choosing, ChoosingMin, ChoosingMax
  <2>5. d = "none" /\ s = "turning"
    BY <2>3 DEF Agree, Turning
  <2>6. MarkedAs("Ready", h, "rest")'
    BY <2>3, <2>4, <2>5, ListsProcessed
  <2>7. Enters("ProcessedLists")
    <3>1. t.destination \cap OnEnter = {"ProcessedLists"}
      BY <2>1 DEF OnEnter
    <3> QED
      BY <3>1 DEF Fires
  <2>8. ~Pending(a)
    BY <2>1, <2>3 DEF Fires
  <2>9. Sees(a, h)
    <3>1. x \in ChoosingMin => Holds("MinSmallerThanCurrent")
      BY <2>1 DEF Fires
    <3>2. x \notin ChoosingMin => Holds("MaxGreaterThanCurrent")
      BY <2>1 DEF Fires
    <3> QED
      BY <2>1, <2>3, <2>8, <3>1, <3>2 DEF Sees, Holds, Up, Down
  <2> QED
    BY <1>f, <2>1, <2>3, <2>6, <2>7, <2>9 DEF Skeleton, ChoosesDirection
<1>8. CASE t.name \in {"T25", "T38", "T27", "T40"}
  <2>1. PICK x \in Choosing, y \in Postponing :
           /\ x \in ChoosingMin <=> y \in Up
           /\ t.activation = {x} /\ t.destination = {y}
           /\ IF x \in ChoosingMin THEN "MinGreaterThanCurrent" \in t.conditions
                                   ELSE "MaxSmallerThanCurrent" \in t.conditions
           /\ t.requireNoActions
    BY <1>8 DEF Arriving, ArrivingGoingDownTransitions, ArrivingGoingUpTransitions, Plain, Quiet,
                Choosing, ChoosingMin, ChoosingMax, Postponing, Up
  <2>2. x \in t.activation \cap Activities /\ y \in t.destination \cap Activities
    BY <2>1 DEF Activities, OnEnter, Choosing, ChoosingMin, ChoosingMax, Postponing
  <2>3. a = x /\ \A p \in Activities : tokens'[p] = Count(p = y)
    BY <1>t, <2>2, ActivityPasses
  <2>4. \A p \in Controls : tokens'[p] = tokens[p]
    BY <2>1 DEF Fires, Count, Directions, Controls, Choosing, ChoosingMin, ChoosingMax, Postponing
  <2>5. MarkedAs(y, d, s)'
    BY <2>3, <2>4, ControlsKept
  <2>7. Enters(y)
    <3>1. t.destination \cap OnEnter = {y}
      BY <2>1 DEF OnEnter, Postponing
    <3> QED
      BY <3>1 DEF Fires
  <2>8. ~Pending(a)
    BY <2>1, <2>3 DEF Fires
  <2>9. Sees(a, y)
    <3>1. x \in ChoosingMin => Holds("MinGreaterThanCurrent")
      BY <2>1 DEF Fires
    <3>2. x \notin ChoosingMin => Holds("MaxSmallerThanCurrent")
      BY <2>1 DEF Fires
    <3> QED
      BY <2>1, <2>3, <2>8, <3>1, <3>2 DEF Sees, Holds, Up, Down, Postponing
  <2> QED
    BY <1>f, <2>1, <2>3, <2>5, <2>7, <2>9 DEF Skeleton, ChoosesAll
<1>9. CASE t.name \in {"T26", "T39"}
  <2>1. PICK x \in {"MergeMaxGoingDown1", "MergeMinGoingUp2"} :
           Row(t, {x}, {"Ready", "ProcessedLists"}, {}, {"DestinationListEmpty"}, TRUE)
    BY <1>9 DEF Arriving, ArrivingGoingDownTransitions, ArrivingGoingUpTransitions, Plain, Quiet, Row
  <2>2. x \in t.activation \cap Activities /\ "Ready" \in t.destination \cap Activities
    BY <2>1 DEF Row, Activities, OnEnter
  <2>3. a = x /\ \A p \in Activities : tokens'[p] = Count(p = "Ready")
    BY <1>t, <2>2, ActivityPasses
  <2>4. \A p \in Controls : /\ tokens[p] \in Nat
                            /\ tokens'[p] = tokens[p] + Count(p \in {"ProcessedLists", "none"})
    BY <2>1 DEF Row, Fires, Count, Directions, Controls
  <2>5. d = "none" /\ s = "turning"
    BY <2>3 DEF Agree, Turning, Choosing, ChoosingMin, ChoosingMax
  <2>6. MarkedAs("Ready", "none", "rest")'
    BY <2>3, <2>4, <2>5, ListsProcessed
  <2>7. Enters("ProcessedLists")
    <3>1. t.destination \cap OnEnter = {"ProcessedLists"}
      BY <2>1 DEF Row, OnEnter
    <3> QED
      BY <3>1 DEF Fires
  <2>8. ~Pending(a) /\ destinations = {}
    BY <2>1, <2>3 DEF Row, Fires, Holds
  <2> QED
    BY <1>f, <2>1, <2>3, <2>6, <2>7, <2>8 DEF Skeleton, FindsNothing
<1> QED
  BY <1>1, <1>2, <1>3, <1>4, <1>5, <1>6, <1>7, <1>8, <1>9
     DEF Arriving, ArrivingGoingDownTransitions, ArrivingGoingUpTransitions, Plain, Quiet

Buttons == ButtonPressingTransitions \cup CallingButtonTransitions

\* T44 to T66
LEMMA ButtonSteps ==
    ASSUME NEW t \in Buttons, Fires(t),
           NEW a \in Activities, NEW d \in Directions \cup {"none"}, NEW s \in Stages,
           MarkedAs(a, d, s), Agree(a, d, s)
    PROVE  Skeleton(a, d, s)
<1>t. t \in Transitions
  BY DEF Transitions, Buttons
<1>1. CASE t.name \in {"T44", "T55", "T61"}
  <2>1. PICK b \in FloorButtons :
           Row(t, {b, "Ready"}, {"D3"}, {"GoingUp_", "GoingDown_"}, {"MarkedFloorNotCurrentFloor"}, TRUE)
    BY <1>1 DEF Buttons, ButtonPressingTransitions, CallingButtonTransitions, Plain, Quiet, Row,
                FloorButtons
  <2>2. "Ready" \in t.activation \cap Activities /\ "D3" \in t.destination \cap Activities
    BY <2>1 DEF Row, Activities
  <2>3. a = "Ready" /\ \A p \in Activities : tokens'[p] = Count(p = "D3")
    BY <1>t, <2>2, ActivityPasses
  <2>4. \A p \in Controls : tokens'[p] = tokens[p]
    BY <2>1 DEF Row, Fires, Count, Directions, Controls, FloorButtons
  <2>5. MarkedAs("D3", d, s)'
    BY <2>3, <2>4, ControlsKept
  <2>6. d \notin {"GoingUp_", "GoingDown_"}
    BY <2>1 DEF Row, Fires, MarkedAs, Directions, Count, Marked
  <2>7. d # "none" => disturbed'
    BY <2>1, <2>6 DEF Row, Fires, TakenWhileTurning, MarkedAs, Directions, Count, Marked
  <2>8. jobs' = jobs /\ toAddToDestination # currentFloor
    BY <2>1 DEF Row, Fires, OnEnter, Holds
  <2>9. Taken(b)
    BY <2>1 DEF Row, Fires, Taken, FloorButtons, Count
  <2> QED
    BY <2>3, <2>5, <2>6, <2>7, <2>8, <2>9 DEF Skeleton, TakesUp
<1>2. CASE t.name \in {"T45", "T46", "T56", "T62"}
  <2>1. PICK b \in FloorButtons, h \in {"GoingUp_", "GoingDown_"}, y \in {"D1", "D2", "D4", "D5"} :
           /\ y \in IF h = "GoingUp_" THEN {"D1", "D4"} ELSE {"D2", "D5"}
           /\ Row(t, {b, h, "Ready"}, {y, h}, {}, {"MarkedFloorNotCurrentFloor"}, TRUE)
    BY <1>2 DEF Buttons, ButtonPressingTransitions, CallingButtonTransitions, Plain, Quiet, Row,
                FloorButtons
  <2>2. "Ready" \in t.activation \cap Activities /\ y \in t.destination \cap Activities
    BY <2>1 DEF Row, Activities
  <2>3. a = "Ready" /\ \A p \in Activities : tokens'[p] = Count(p = y)
    BY <1>t, <2>2, ActivityPasses
  <2>4. \A p \in Controls : tokens'[p] = tokens[p]
    BY <2>1 DEF Row, Fires, Count, Directions, Controls, FloorButtons
  <2>5. MarkedAs(y, d, s)'
    BY <2>3, <2>4, ControlsKept
  <2>6. d = h
    BY <2>1 DEF Row, Fires, MarkedAs, Directions, Count
  <2>8. jobs' = jobs /\ toAddToDestination # currentFloor
    BY <2>1 DEF Row, Fires, OnEnter, Holds
  <2>9. Taken(b)
    BY <2>1 DEF Row, Fires, Taken, FloorButtons, Count
  <2> QED
    BY <2>1, <2>3, <2>5, <2>6, <2>8, <2>9 DEF Skeleton, TakesUp
<1>3. CASE t.name \in {"T47", "T48", "T49", "T50", "T58", "T59", "T64", "T65"}
  <2>1. PICK x \in {"D1", "D2", "D4", "D5"}, y \in Requesting, c \in {"MarkedFloorGreaterThanCurrentFloor",
                  "MarkedFloorSmallerThanCurrentFloor"} :
           /\ Row(t, {x}, {y}, {}, {c}, TRUE)
           /\ y = "AddToTravel" => (x \in {"D1", "D4"} <=> c = "MarkedFloorGreaterThanCurrentFloor")
           /\ y = "AddToNextTravel" => (x \in {"D1", "D4"} <=> c = "MarkedFloorSmallerThanCurrentFloor")
    BY <1>3 DEF Buttons, ButtonPressingTransitions, CallingButtonTransitions, Plain, Quiet, Row,
                Requesting
  <2>2. x \in t.activation \cap Activities /\ y \in t.destination \cap Activities
    BY <2>1 DEF Row, Activities, OnEnter, Requesting
  <2>3. a = x /\ \A p \in Activities : tokens'[p] = Count(p = y)
    BY <1>t, <2>2, ActivityPasses
  <2>4. \A p \in Controls \cup FloorButtons : tokens'[p] = tokens[p]
    BY <2>1 DEF Row, Fires, Count, Directions, Controls, Requesting, FloorButtons
  <2>5. MarkedAs(y, d, s)' /\ Untaken
    BY <2>3, <2>4, ControlsKept DEF Untaken
  <2>6. d = IF x \in {"D1", "D4"} THEN "GoingUp_" ELSE "GoingDown_"
    BY <2>3 DEF Agree
  <2>7. Enters(y)
    <3>1. t.destination \cap OnEnter = {y}
      BY <2>1 DEF Row, OnEnter, Requesting
    <3> QED
      BY <3>1 DEF Fires
  <2>8. Holds(c)
    BY <2>1 DEF Row, Fires
  <2>9. c = "MarkedFloorGreaterThanCurrentFloor" => toAddToDestination > currentFloor
    BY <2>1, <2>8 DEF Holds
  <2>10. c # "MarkedFloorGreaterThanCurrentFloor" => toAddToDestination < currentFloor
    BY <2>1, <2>8 DEF Holds
  <2>11. toAddToDestination \in Int /\ currentFloor \in Int
    BY DEF Fires
  <2>12. Assigns(a, d, s)
    BY <2>1, <2>3, <2>5, <2>6, <2>7, <2>9, <2>10, <2>11 DEF Assigns, Asking
  <2> QED
    BY <2>12 DEF Skeleton
<1>4. CASE t.name \in {"T57", "T63"}
  <2>1. PICK b \in FloorButtons, h \in {"GoingUp_", "GoingDown_"}, y \in {"WaitToGoUp", "WaitToGoDown"} :
           /\ h = IF y = "WaitToGoUp" THEN "GoingDown_" ELSE "GoingUp_"
           /\ Row(t, {b, h, "Ready"}, {y, h}, {}, {}, FALSE)
    BY <1>4 DEF Buttons, ButtonPressingTransitions, CallingButtonTransitions, Plain, Quiet, Row,
                FloorButtons
  <2>2. "Ready" \in t.activation \cap Activities /\ y \in t.destination \cap Activities
    BY <2>1 DEF Row, Activities, OnEnter
  <2>3. a = "Ready" /\ \A p \in Activities : tokens'[p] = Count(p = y)
    BY <1>t, <2>2, ActivityPasses
  <2>4. \A p \in Controls : tokens'[p] = tokens[p]
    BY <2>1 DEF Row, Fires, Count, Directions, Controls, FloorButtons
  <2>5. MarkedAs(y, d, s)'
    BY <2>3, <2>4, ControlsKept
  <2>6. d = h
    BY <2>1 DEF Row, Fires, MarkedAs, Directions, Count
  <2>7. Enters(y)
    <3>1. t.destination \cap OnEnter = {y}
      BY <2>1 DEF Row, OnEnter
    <3> QED
      BY <3>1 DEF Fires
  <2>9. Taken(b)
    BY <2>1 DEF Row, Fires, Taken, FloorButtons, Count
  <2> QED
    BY <2>1, <2>3, <2>5, <2>6, <2>7, <2>9 DEF Skeleton, LetsWait
<1>5. CASE t.name \in {"T51", "T52"}
  <2>1. PICK h \in {"GoingUp", "GoingDown"} :
           Row(t, {"D3"}, {h, "AddToTravel"}, {},
               {IF h = "GoingUp" THEN "MarkedFloorGreaterThanCurrentFloor"
                                 ELSE "MarkedFloorSmallerThanCurrentFloor"}, TRUE)
    BY <1>5 DEF Buttons, ButtonPressingTransitions, CallingButtonTransitions, Plain, Quiet, Row
  <2>2. "D3" \in t.activation \cap Activities /\ "AddToTravel" \in t.destination \cap Activities
    BY <2>1 DEF Row, Activities, OnEnter
  <2>3. a = "D3" /\ \A p \in Activities : tokens'[p] = Count(p = "AddToTravel")
    BY <1>t, <2>2, ActivityPasses
  <2>4. \A p \in Controls \cup FloorButtons : tokens'[p] = tokens[p] + Count(p = h)
    BY <2>1 DEF Row, Fires, Count, Directions, Controls, FloorButtons
  <2>5. d = "none"
    BY <2>3 DEF Agree
  <2>6. MarkedAs("AddToTravel", h, s)' /\ Untaken
    <3>1. \A p \in (Controls \cup FloorButtons) \ Directions : tokens'[p] = tokens[p]
      BY <2>4 DEF Fires, Count, Directions
    <3>2. \A p \in Directions : tokens'[p] = Count(p = h)
      BY <2>4, <2>5 DEF MarkedAs, Controls, Directions, Count
    <3> QED
      BY <2>3, <3>1, <3>2 DEF MarkedAs, Controls, Directions, Untaken, FloorButtons
  <2>7. Enters("AddToTravel")
    <3>1. t.destination \cap OnEnter = {"AddToTravel"}
      BY <2>1 DEF Row, OnEnter
    <3> QED
      BY <3>1 DEF Fires
  <2>8. Holds(IF h = "GoingUp" THEN "MarkedFloorGreaterThanCurrentFloor"
                               ELSE "MarkedFloorSmallerThanCurrentFloor")
    BY <2>1 DEF Row, Fires
  <2>9. Ahead(h, toAddToDestination)
    BY <2>8 DEF Holds, Ahead, Up, Down
  <2> QED
    BY <2>3, <2>6, <2>7, <2>9 DEF Skeleton, SetsOut
<1>6. CASE t.name \in {"T53", "T54", "T60", "T66"}
  <2>1. PICK x \in Requesting : Row(t, {x}, {"Ready"}, {}, {}, FALSE)
    BY <1>6 DEF Buttons, ButtonPressingTransitions, CallingButtonTransitions, Plain, Quiet, Row,
                Requesting
  <2>2. x \in t.activation \cap Activities /\ "Ready" \in t.destination \cap Activities
    BY <2>1 DEF Row, Activities, OnEnter, Requesting
  <2>3. a = x /\ \A p \in Activities : tokens'[p] = Count(p = "Ready")
    BY <1>t, <2>2, ActivityPasses
  <2>4. \A p \in Controls \cup FloorButtons : tokens'[p] = tokens[p]
    BY <2>1 DEF Row, Fires, Count, Directions, Controls, FloorButtons, Requesting
  <2>5. MarkedAs("Ready", d, s)' /\ Untaken
    BY <2>3, <2>4, ControlsKept DEF Untaken
  <2>6. jobs' = jobs
    BY <2>1 DEF Row, Fires, OnEnter
  <2> QED
    BY <2>3, <2>5, <2>6 DEF Skeleton, IsAssigned
<1> QED
  BY <1>1, <1>2, <1>3, <1>4, <1>5, <1>6
     DEF Buttons, ButtonPressingTransitions, CallingButtonTransitions, Plain, Quiet

LEMMA EnteredPlace ==
    ASSUME NEW t, Fire(t), NEW p, t.destination \cap OnEnter = {p}
    PROVE  Enters(p)
<1>1. (CHOOSE q \in {p} : TRUE) = p
  OBVIOUS
<1> QED
  BY <1>1 DEF Fire, AfterEntering, Enters

LEMMA PlacesOfTheJourney == Activities \cup Controls \cup FloorButtons \subseteq Places
<1>1. Plain("T8", {"GoingUp"}, {"GoingUp_"}) \in Transitions
      /\ Plain("T9", {"GoingDown"}, {"GoingDown_"}) \in Transitions
      /\ Plain("T4", {"ArrivedDestination", "Moving_"}, {"Stopped", "OpenDoors"}) \in Transitions
  BY DEF Transitions, CabineTransitions
<1>2. Plain("T15", {"RemoveFromListGU"}, {"ProcessLists", "ArrivedDestination", "Ready"}) \in Transitions
  BY DEF Transitions, SimulationTransitions
<1>3. Plain("T29", {"MergePostponedToCurrent11"}, {"Ready", "ProcessedLists", "GoingUp"}) \in Transitions
  BY DEF Transitions, ArrivingGoingDownTransitions
<1>4. \A u \in Transitions : u.activation \subseteq Places /\ u.destination \subseteq Places
  BY DEF Places
<1>5. Controls \subseteq Places
  BY <1>1, <1>2, <1>3, <1>4, PlacesOfTheCabin DEF Plain, Controls, Directions, Cabin
<1> QED
  BY <1>5, PlacesOfTheController, PlacesOfTheCabin

LEMMA FiringFollowsSkeleton ==
    ASSUME TypeOK, NEW t \in Transitions, Fire(t),
           NEW a \in Activities, NEW d \in Directions \cup {"none"}, NEW s \in Stages,
           MarkedAs(a, d, s), Agree(a, d, s)
    PROVE  Skeleton(a, d, s)
<1>1. Activities \cup Controls \cup FloorButtons \subseteq Places
  BY PlacesOfTheJourney
<1>2. Fires(t)
  <2>1. /\ \A p \in t.activation : p \in Places /\ Marked(p)
        /\ \A p \in t.inhibitor : ~Marked(p)
    BY DEF Fire, Active, Enabled, Places
  <2>2. ASSUME NEW p \in Activities \cup Controls \cup FloorButtons
        PROVE  /\ tokens[p] \in Nat
               /\ tokens'[p] = tokens[p] - Count(p \in t.activation) + Count(p \in t.destination)
    BY <1>1, <2>2 DEF Fire, AfterTransit, TypeOK, Count
  <2>3. t.requireNoActions => \A p \in t.activation : ~Pending(p)
    BY DEF Fire, Active, NoActionsInExecution, Pending
  <2>4. \A c \in t.conditions : Holds(c)
    BY DEF Fire, Active, AdditionalConditions
  <2>5. t.destination \cap OnEnter = {} => jobs' = jobs
    BY DEF Fire, AfterEntering
  <2>6. TakenWhileTurning(t) \/ TurnedBeforeAdding(t) => disturbed'
    BY DEF Fire
  <2>7. \A p : t.destination \cap OnEnter = {p} => Enters(p)
    BY EnteredPlace
  <2> QED
    BY <2>1, <2>2, <2>3, <2>4, <2>5, <2>6, <2>7 DEF Fires, TypeOK, Marked
<1> QED
  BY <1>2, CabineSteps, SimulationSteps, ArrivingSteps, ButtonSteps
     DEF Transitions, Arriving, Buttons
=============================================================================
