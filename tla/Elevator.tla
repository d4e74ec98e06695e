------------------------------ MODULE Elevator ------------------------------
(***************************************************************************)
(* The Elevator example: the net of ElevatorNet run by the engine with the *)
(* option JOB_QUEUE, the lists of ElevatorController that its on-enter     *)
(* actions change, and the user of main.cpp.                               *)
(*                                                                         *)
(* A round of the event loop collects the enabled transitions and executes *)
(* them in a random order.  Transition::execute() is one step (Firing      *)
(* takes it apart): what runs beside it, the user and the actions, only    *)
(* adds tokens to input places and ends actions.  Actions that only print  *)
(* are left out, except that of ProcessedLists, which T3 waits for.        *)
(***************************************************************************)
EXTENDS ElevatorNet, Integers, Sequences, FiniteSets, FiniteSetsExt

CONSTANTS
    TopFloor,       \* s_topFloor; s_bottomFloor is 0
    MaxPresses,     \* bound on the tokens the user puts in one input place
    MaxRequests     \* bound on the calls and destinations the user asks for

ASSUME ElevatorAssumption ==
    TopFloor \in Nat \ {0} /\ MaxPresses \in Nat /\ MaxRequests \in Nat

VARIABLES
    tokens,         \* Place::m_numberOfTokens
    collected,      \* transitions of the round that have not been executed yet
    jobs,           \* the job queue: places whose on-enter action waits or runs
    currentFloor,             \* m_currentFloor
    toAddToDestination,       \* m_toAddToDestination
    destinations,             \* m_destinations
    nextTravelDestinations,   \* m_nextTravelDestinations
    waitingToGoUp,            \* m_floorsWaitingToGoUp
    waitingToGoDown,          \* m_floorsWaitingToGoDown
    pressing,       \* input place of the call that has set toAddToDestination, or "none"
    requests,       \* number of requests made (bound)
    disturbed       \* history: a request met one that was being processed

netVars == <<tokens, collected>>
lists == <<destinations, nextTravelDestinations, waitingToGoUp, waitingToGoDown>>
userVars == <<toAddToDestination, pressing, requests, disturbed>>
vars == <<netVars, jobs, currentFloor, lists, userVars>>

Floors == 0..TopFloor
FloorButtons == {"CallButtonUp", "CallButtonDown", "DestinationButton"}

\* One floor beyond the building on each side: the bound of the shaft.
Shaft == -1..TopFloor + 1

\* Places with an on-enter action.
OnEnter ==
    {"AddToTravel", "AddToNextTravel", "WaitToGoUp", "WaitToGoDown",
     "RemoveFromListGU", "RemoveFromListGD", "IncreaseFloor", "DecreaseFloor",
     "SwapGD", "SwapGU", "MergeGoingUpGTCurrent", "MergeGoingDownSTCurrent",
     "MergeMinGoingUp1", "MergeMinGoingUp2", "MergeMaxGoingDown1", "MergeMaxGoingDown2",
     "MergePostponedToCurrent11", "MergePostponedToCurrent12",
     "MergePostponedToCurrent21", "MergePostponedToCurrent22", "ProcessedLists"}

Init ==
    /\ tokens = [p \in Places |-> IF p \in InitiallyMarked THEN 1 ELSE 0]
    /\ collected = {}
    /\ jobs = <<>>
    /\ currentFloor = 0
    /\ toAddToDestination = 0
    /\ destinations = {}
    /\ nextTravelDestinations = {}
    /\ waitingToGoUp = {}
    /\ waitingToGoDown = {}
    /\ pressing = "none"
    /\ requests = 0
    /\ disturbed = FALSE
-----------------------------------------------------------------------------
(***************************************************************************)
(* The engine.                                                             *)
(***************************************************************************)

Marked(p) == tokens[p] > 0

Enabled(t) ==
    /\ \A p \in t.inhibitor : ~Marked(p)
    /\ \A p \in t.activation : Marked(p)

EnabledTransitions == {t \in Transitions : Enabled(t)}

CollectEnabledTransitions ==
    /\ collected = {}
    /\ EnabledTransitions # {}
    /\ collected' = EnabledTransitions
    /\ UNCHANGED <<tokens, jobs, currentFloor, lists, userVars>>

Holds(condition) ==
    CASE condition = "DestinationListEmpty" -> destinations = {}
      [] condition = "DestinationListNotEmpty" -> destinations # {}
      [] condition = "FloorInList" -> currentFloor \in destinations
      [] condition = "FloorNotInList" -> currentFloor \notin destinations
      [] condition = "MinSmallerThanCurrent" ->
             destinations # {} /\ Min(destinations) < currentFloor
      [] condition = "MinGreaterThanCurrent" ->
             destinations # {} /\ Min(destinations) > currentFloor
      [] condition = "MaxSmallerThanCurrent" ->
             destinations # {} /\ Max(destinations) < currentFloor
      [] condition = "MaxGreaterThanCurrent" ->
             destinations # {} /\ Max(destinations) > currentFloor
      [] condition = "MarkedFloorNotCurrentFloor" -> toAddToDestination # currentFloor
      [] condition = "MarkedFloorGreaterThanCurrentFloor" -> toAddToDestination > currentFloor
      [] condition = "MarkedFloorSmallerThanCurrentFloor" -> toAddToDestination < currentFloor

ActionInExecution(p) == \E i \in 1..Len(jobs) : jobs[i] = p

NoActionsInExecution(t) == \A p \in t.activation : ~ActionInExecution(p)

AdditionalConditions(t) == \A condition \in t.conditions : Holds(condition)

\* Bug: the transition has been collected, so it is taken to be enabled still.
ActiveAsCollected(t) ==
    (t.requireNoActions => NoActionsInExecution(t)) /\ AdditionalConditions(t)

\* Bug: conditions are asked while the action they depend on is running.
ActiveDuringActions(t) == Enabled(t) /\ AdditionalConditions(t)

Active(t) ==
    /\ Enabled(t)
    /\ t.requireNoActions => NoActionsInExecution(t)
    /\ AdditionalConditions(t)

AfterTransit(t) ==
    [p \in Places |->
        tokens[p] - (IF p \in t.activation THEN 1 ELSE 0)
                  + (IF p \in t.destination THEN 1 ELSE 0)]

\* No transition enters two places with on-enter actions.
AfterEntering(t) ==
    LET entered == t.destination \cap OnEnter
    IN  IF entered = {} THEN jobs ELSE Append(jobs, CHOOSE p \in entered : TRUE)

(***************************************************************************)
(* T44, T55 or T61 takes up a request for an elevator at rest in the round *)
(* between the one that turned it (GoingUp, GoingDown) and the one that    *)
(* shows it to their inhibitor arcs (GoingUp_, GoingDown_).                *)
(***************************************************************************)
TakenWhileTurning(t) ==
    "D3" \in t.destination /\ (Marked("GoingUp") \/ Marked("GoingDown"))

(***************************************************************************)
(* T19 or T32 finds no destination and turns the elevator, while the       *)
(* action that adds the one of a request just taken up is still queued.    *)
(***************************************************************************)
TurnedBeforeAdding(t) ==
    t.destination \cap {"SwapGD", "SwapGU"} # {} /\ ActionInExecution("AddToTravel")

Fire(t) ==
    /\ t \in collected
    /\ Active(t)
    /\ collected' = collected \ {t}
    /\ tokens' = AfterTransit(t)
    /\ jobs' = AfterEntering(t)
    /\ disturbed' = (disturbed \/ TakenWhileTurning(t) \/ TurnedBeforeAdding(t))
    /\ UNCHANGED <<currentFloor, lists, toAddToDestination, pressing, requests>>

DoNotFire(t) ==
    /\ t \in collected
    /\ ~Active(t)
    /\ collected' = collected \ {t}
    /\ UNCHANGED <<tokens, jobs, currentFloor, lists, userVars>>

Engine == CollectEnabledTransitions \/ \E t \in collected : Fire(t) \/ DoNotFire(t)
-----------------------------------------------------------------------------
(***************************************************************************)
(* The actions of the controller, executed in order by the job queue.      *)
(***************************************************************************)

Job(places) ==
    /\ jobs # <<>>
    /\ Head(jobs) \in places
    /\ jobs' = Tail(jobs)
    /\ UNCHANGED <<netVars, userVars>>

AddDestination1 ==
    /\ Job({"AddToTravel"})
    /\ destinations' = destinations \cup {toAddToDestination}
    /\ nextTravelDestinations' = nextTravelDestinations \ {toAddToDestination}
    /\ UNCHANGED <<currentFloor, waitingToGoUp, waitingToGoDown>>

AddDestination2 ==
    /\ Job({"AddToNextTravel"})
    /\ IF toAddToDestination \in destinations
       THEN UNCHANGED lists
       ELSE /\ nextTravelDestinations' = nextTravelDestinations \cup {toAddToDestination}
            /\ waitingToGoUp' = waitingToGoUp \ {toAddToDestination}
            /\ waitingToGoDown' = waitingToGoDown \ {toAddToDestination}
            /\ UNCHANGED destinations
    /\ UNCHANGED currentFloor

AddWaitingToGoUp ==
    /\ Job({"WaitToGoUp"})
    /\ waitingToGoUp' = waitingToGoUp \cup {toAddToDestination}
    /\ UNCHANGED <<currentFloor, destinations, nextTravelDestinations, waitingToGoDown>>

AddWaitingToGoDown ==
    /\ Job({"WaitToGoDown"})
    /\ waitingToGoDown' = waitingToGoDown \cup {toAddToDestination}
    /\ UNCHANGED <<currentFloor, destinations, nextTravelDestinations, waitingToGoUp>>

RemoveDestinationGU ==
    /\ Job({"RemoveFromListGU"})
    /\ destinations' = destinations \ {currentFloor}
    /\ waitingToGoUp' = waitingToGoUp \ {currentFloor}
    /\ UNCHANGED <<currentFloor, nextTravelDestinations, waitingToGoDown>>

RemoveDestinationGD ==
    /\ Job({"RemoveFromListGD"})
    /\ destinations' = destinations \ {currentFloor}
    /\ waitingToGoDown' = waitingToGoDown \ {currentFloor}
    /\ UNCHANGED <<currentFloor, nextTravelDestinations, waitingToGoUp>>

\* Bug: the floors left in the list are overwritten.
OverwriteLists ==
    /\ Job({"SwapGD", "SwapGU"})
    /\ destinations' = nextTravelDestinations \ {currentFloor}
    /\ nextTravelDestinations' = {}
    /\ UNCHANGED <<currentFloor, waitingToGoUp, waitingToGoDown>>

RotateLists ==
    /\ Job({"SwapGD", "SwapGU"})
    /\ destinations' = nextTravelDestinations \ {currentFloor}
    /\ nextTravelDestinations' = destinations
    /\ UNCHANGED <<currentFloor, waitingToGoUp, waitingToGoDown>>

IncreaseFloor ==
    /\ Job({"IncreaseFloor"})
    /\ currentFloor + 1 \in Shaft
    /\ currentFloor' = currentFloor + 1
    /\ UNCHANGED lists

DecreaseFloor ==
    /\ Job({"DecreaseFloor"})
    /\ currentFloor - 1 \in Shaft
    /\ currentFloor' = currentFloor - 1
    /\ UNCHANGED lists

\* Floors waiting to go down, in both: the name of the first says up.
MergeToDestinations(floors) ==
    /\ destinations' = (destinations \cup floors) \ {currentFloor}
    /\ waitingToGoDown' = waitingToGoDown \ floors
    /\ UNCHANGED <<currentFloor, nextTravelDestinations, waitingToGoUp>>

MergeGoingUpGTCurrent ==
    /\ Job({"MergeGoingUpGTCurrent"})
    /\ MergeToDestinations({f \in waitingToGoDown : f > currentFloor})

MergeGoingDownSTCurrent ==
    /\ Job({"MergeGoingDownSTCurrent"})
    /\ MergeToDestinations({f \in waitingToGoDown : f < currentFloor})

MergeMinGoingUp ==
    /\ Job({"MergeMinGoingUp1", "MergeMinGoingUp2"})
    /\ IF waitingToGoUp = {}
       THEN UNCHANGED lists
       ELSE LET first == Min(waitingToGoUp)
            IN  /\ destinations' = destinations \cup {first}
                /\ nextTravelDestinations' = nextTravelDestinations \cup (waitingToGoUp \ {first})
                /\ waitingToGoUp' = {}
                /\ UNCHANGED waitingToGoDown
    /\ UNCHANGED currentFloor

MergeMaxGoingDown ==
    /\ Job({"MergeMaxGoingDown1", "MergeMaxGoingDown2"})
    /\ IF waitingToGoDown = {}
       THEN UNCHANGED lists
       ELSE LET first == Max(waitingToGoDown)
            IN  /\ destinations' = destinations \cup {first}
                /\ nextTravelDestinations' = nextTravelDestinations \cup (waitingToGoDown \ {first})
                /\ waitingToGoDown' = {}
                /\ UNCHANGED waitingToGoUp
    /\ UNCHANGED currentFloor

MergePostponedToCurrent ==
    /\ Job({"MergePostponedToCurrent11", "MergePostponedToCurrent12",
            "MergePostponedToCurrent21", "MergePostponedToCurrent22"})
    /\ destinations' = (destinations \cup nextTravelDestinations) \ {currentFloor}
    /\ nextTravelDestinations' = {}
    /\ UNCHANGED <<currentFloor, waitingToGoUp, waitingToGoDown>>

ProcessedLists == Job({"ProcessedLists"}) /\ UNCHANGED <<currentFloor, lists>>

Worker ==
    \/ AddDestination1 \/ AddDestination2 \/ AddWaitingToGoUp \/ AddWaitingToGoDown
    \/ RemoveDestinationGU \/ RemoveDestinationGD \/ RotateLists
    \/ IncreaseFloor \/ DecreaseFloor
    \/ MergeGoingUpGTCurrent \/ MergeGoingDownSTCurrent
    \/ MergeMinGoingUp \/ MergeMaxGoingDown \/ MergePostponedToCurrent
    \/ ProcessedLists
-----------------------------------------------------------------------------
(***************************************************************************)
(* The user, one thread.  A request sets the floor under the controller's  *)
(* mutex and puts the token after it has released it.                      *)
(***************************************************************************)

RequestInProgress ==
    \/ \E p \in FloorButtons \cup {"D1", "D2", "D3", "D4", "D5"} : Marked(p)
    \/ \E p \in {"AddToTravel", "AddToNextTravel", "WaitToGoUp", "WaitToGoDown"} :
          Marked(p) \/ ActionInExecution(p)

Request(button, floor) ==
    /\ pressing = "none"
    /\ requests < MaxRequests
    /\ pressing' = button
    /\ toAddToDestination' = floor
    /\ requests' = requests + 1
    /\ disturbed' = (disturbed \/ RequestInProgress)
    /\ UNCHANGED <<netVars, jobs, currentFloor, lists>>

\* What the user types, floors that do not exist among them.
Typed == -1..TopFloor + 1

CallElevatorUp ==
    \E floor \in Typed : 0 <= floor /\ floor < TopFloor /\ Request("CallButtonUp", floor)

CallElevatorDown ==
    \E floor \in Typed : 0 < floor /\ floor <= TopFloor /\ Request("CallButtonDown", floor)

SetDestinationFloor ==
    \E floor \in Typed : 0 <= floor /\ floor <= TopFloor /\ Request("DestinationButton", floor)

IncrementInput(place) ==
    /\ tokens' = [tokens EXCEPT ![place] = @ + 1]
    /\ UNCHANGED <<collected, jobs, currentFloor, lists>>

PressFloorButton ==
    /\ pressing # "none"
    /\ IncrementInput(pressing)
    /\ pressing' = "none"
    /\ UNCHANGED <<toAddToDestination, requests, disturbed>>

PressDoorButton(button) ==
    /\ pressing = "none"
    /\ tokens[button] < MaxPresses
    /\ IncrementInput(button)
    /\ UNCHANGED userVars

OpenDoors == PressDoorButton("OpenDoors")
CloseDoors == PressDoorButton("CloseDoors")

User ==
    CallElevatorUp \/ CallElevatorDown \/ SetDestinationFloor
      \/ PressFloorButton \/ OpenDoors \/ CloseDoors
-----------------------------------------------------------------------------
Next == Engine \/ Worker \/ User

Spec == Init /\ [][Next]_vars
-----------------------------------------------------------------------------
OneToken(places) ==
    \E p \in places : tokens[p] = 1 /\ \A q \in places \ {p} : tokens[q] = 0

TypeOK ==
    /\ tokens \in [Places -> Nat]
    /\ collected \subseteq Transitions
    /\ jobs \in Seq(OnEnter)
    /\ {currentFloor, toAddToDestination} \subseteq Int
    /\ pressing \in FloorButtons \cup {"none"}
    /\ requests \in Nat
    /\ disturbed \in BOOLEAN

(***************************************************************************)
(* The cabin moves with its doors closed, whatever is pressed and whenever *)
(* the actions are executed: T1 and T2 ask for a stopped cabin, T3 for     *)
(* closed doors, and no place stands for two states of either.             *)
(***************************************************************************)
DoorsClosedWhileMoving ==
    Marked("Moving") \/ Marked("Moving_") =>
        ~Marked("DoorsOpened") /\ (Marked("DoorsClosed") \/ Marked("DoorsClosed_"))

Activities ==
    {"Ready", "D1", "D2", "D3", "D4", "D5"} \cup (OnEnter \ {"ProcessedLists"})

(***************************************************************************)
(* Moving a floor, taking up a request and processing the lists exclude    *)
(* each other: the token of Ready is passed on, never doubled and never    *)
(* dropped, so the controller's lists are changed for one purpose at once. *)
(***************************************************************************)
OneActivityAtATime == OneToken(Activities)

(***************************************************************************)
(* The elevator stays between the bottom and the top floor, as long as no  *)
(* request meets another one, or a change of direction, in progress (the   *)
(* README's known limits tell what happens then).                          *)
(***************************************************************************)
StaysInTheBuilding == ~disturbed => currentFloor \in Floors

(***************************************************************************)
(* ... it does not pass a floor it is to stop at: whether that floor is in *)
(* the list is asked after the action that counts floors has ended.        *)
(***************************************************************************)
NeverPassesADestination ==
    [][~disturbed /\ currentFloor' # currentFloor => currentFloor \notin destinations]_vars

(***************************************************************************)
(* ... and it moves only towards a floor of the current travel: direction, *)
(* lists and cabin, changed by different transitions, agree.               *)
(***************************************************************************)
HeadsForADestination ==
    [][~disturbed =>
        /\ currentFloor' > currentFloor => \E d \in destinations : d > currentFloor
        /\ currentFloor' < currentFloor => \E d \in destinations : d < currentFloor]_vars

Known == destinations \cup nextTravelDestinations \cup waitingToGoUp \cup waitingToGoDown

(***************************************************************************)
(* However the four lists are rotated and merged, a floor leaves them only *)
(* when the cabin is there.                                                *)
(***************************************************************************)
NoRequestIsDropped == [][Known \ Known' \subseteq {currentFloor}]_vars

Resting == jobs = <<>> /\ pressing = "none" /\ \A t \in Transitions : ~Active(t)

(***************************************************************************)
(* When nothing is left to happen before the user acts, the elevator is    *)
(* ready for a request.  There is one other way for it to come to rest,    *)
(* for ever: the floor it is at is the only one left when it turns (see    *)
(* the README's known limits).                                             *)
(***************************************************************************)
RestsReady ==
    ~disturbed /\ Resting => Marked("Ready") \/ destinations = {currentFloor}
=============================================================================
