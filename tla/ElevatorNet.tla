----------------------------- MODULE ElevatorNet ----------------------------
(***************************************************************************)
(* The Petri net of the Elevator example (ElevatorPetriNet.cpp) as a table *)
(* of transitions.  Every arc has weight one, so the three vectors of arcs *)
(* are sets of places.                                                     *)
(***************************************************************************)

\* createTransition with no condition and no demand on actions.
Plain(name, activation, destination) ==
    [name |-> name, activation |-> activation, destination |-> destination,
     inhibitor |-> {}, conditions |-> {}, requireNoActions |-> FALSE]

\* createTransition with requireNoActionsInExecution and conditions.
Quiet(name, activation, destination, inhibitor, conditions) ==
    [name |-> name, activation |-> activation, destination |-> destination,
     inhibitor |-> inhibitor, conditions |-> conditions, requireNoActions |-> TRUE]

\* createTransition with inhibitor arcs.
Inhibited(name, activation, destination, inhibitor) ==
    [name |-> name, activation |-> activation, destination |-> destination,
     inhibitor |-> inhibitor, conditions |-> {}, requireNoActions |-> FALSE]

\* Bug: the cabin departs whatever the doors do.
DepartureWithDoorsAjar ==
    Quiet("T3", {"Stopped_", "ProcessedLists"}, {"Moving"}, {"OpenDoors"},
          {"DestinationListNotEmpty"})

Departure ==
    Quiet("T3", {"Stopped_", "DoorsClosed_", "ProcessedLists"}, {"DoorsClosed_", "Moving"},
          {"OpenDoors"}, {"DestinationListNotEmpty"})

CabineTransitions == {
    Plain("T1", {"CloseDoors", "Stopped_", "DoorsOpened"}, {"Stopped_", "DoorsClosed"}),
    Plain("T2", {"OpenDoors", "Stopped_", "DoorsClosed_"}, {"Stopped_", "DoorsOpened"}),
    Departure,
    Plain("T4", {"ArrivedDestination", "Moving_"}, {"Stopped", "OpenDoors"}),
    Plain("T5", {"DoorsClosed"}, {"DoorsClosed_"}),
    Plain("T6", {"Moving"}, {"Moving_"}),
    Plain("T7", {"Stopped"}, {"Stopped_"}),
    Plain("T8", {"GoingUp"}, {"GoingUp_"}),
    Plain("T9", {"GoingDown"}, {"GoingDown_"})}

SimulationTransitions == {
    Inhibited("T10", {"GoingUp_", "Ready", "Moving_"},
              {"Moving_", "GoingUp_", "IncreaseFloor"}, {"ArrivedDestination"}),
    Inhibited("T11", {"GoingDown_", "Ready", "Moving_"},
              {"Moving_", "GoingDown_", "DecreaseFloor"}, {"ArrivedDestination"}),
    Quiet("T12", {"IncreaseFloor"}, {"Ready"}, {}, {"FloorNotInList"}),
    Quiet("T13", {"DecreaseFloor"}, {"Ready"}, {}, {"FloorNotInList"}),
    Quiet("T14", {"IncreaseFloor"}, {"RemoveFromListGU"}, {}, {"FloorInList"}),
    Plain("T15", {"RemoveFromListGU"}, {"ProcessLists", "ArrivedDestination", "Ready"}),
    Quiet("T16", {"DecreaseFloor"}, {"RemoveFromListGD"}, {}, {"FloorInList"}),
    Plain("T17", {"RemoveFromListGD"}, {"ProcessLists", "ArrivedDestination", "Ready"})}

ArrivingGoingDownTransitions == {
    Quiet("T18", {"Ready", "ProcessLists", "GoingDown_", "DoorsClosed_"},
          {"Ready", "GoingDown_", "DoorsClosed_", "ProcessedLists"},
          {"OpenDoors", "ArrivedDestination"}, {"DestinationListNotEmpty"}),
    Quiet("T19", {"Ready", "ProcessLists", "GoingDown_", "DoorsClosed_"},
          {"DoorsClosed_", "SwapGD"}, {"OpenDoors", "ArrivedDestination"},
          {"DestinationListEmpty"}),
    Quiet("T20", {"SwapGD"}, {"MergeGoingUpGTCurrent"}, {}, {"DestinationListNotEmpty"}),
    Quiet("T21", {"SwapGD"}, {"MergeMinGoingUp1"}, {}, {"DestinationListEmpty"}),
    Plain("T22", {"MergeGoingUpGTCurrent"}, {"Ready", "ProcessedLists", "GoingUp"}),
    Quiet("T23", {"MergeMinGoingUp1"}, {"MergeMaxGoingDown1"}, {}, {"DestinationListEmpty"}),
    Quiet("T24", {"MergeMinGoingUp1"},
          {"GoingDown", "Ready", "ProcessedLists"}, {},
          {"MinSmallerThanCurrent"}),
    Quiet("T25", {"MergeMinGoingUp1"},
          {"MergePostponedToCurrent11"}, {},
          {"MinGreaterThanCurrent"}),
    Quiet("T26", {"MergeMaxGoingDown1"},
          {"Ready", "ProcessedLists"}, {},
          {"DestinationListEmpty"}),
    Quiet("T27", {"MergeMaxGoingDown1"},
          {"MergePostponedToCurrent12"}, {},
          {"DestinationListNotEmpty", "MaxSmallerThanCurrent"}),
    Quiet("T28", {"MergeMaxGoingDown1"},
          {"Ready", "ProcessedLists", "GoingUp"}, {},
          {"DestinationListNotEmpty", "MaxGreaterThanCurrent"}),
    Plain("T29", {"MergePostponedToCurrent11"}, {"Ready", "ProcessedLists", "GoingUp"}),
    Plain("T30", {"MergePostponedToCurrent12"}, {"Ready", "ProcessedLists", "GoingDown"})}

ArrivingGoingUpTransitions == {
    Quiet("T31", {"Ready", "ProcessLists", "GoingUp_", "DoorsClosed_"},
          {"Ready", "GoingUp_", "DoorsClosed_", "ProcessedLists"},
          {"OpenDoors", "ArrivedDestination"}, {"DestinationListNotEmpty"}),
    Quiet("T32", {"Ready", "ProcessLists", "GoingUp_", "DoorsClosed_"},
          {"DoorsClosed_", "SwapGU"}, {"OpenDoors", "ArrivedDestination"},
          {"DestinationListEmpty"}),
    Quiet("T33", {"SwapGU"}, {"MergeGoingDownSTCurrent"}, {}, {"DestinationListNotEmpty"}),
    Quiet("T34", {"SwapGU"}, {"MergeMaxGoingDown2"}, {}, {"DestinationListEmpty"}),
    Plain("T35", {"MergeGoingDownSTCurrent"}, {"Ready", "ProcessedLists", "GoingDown"}),
    Quiet("T36", {"MergeMaxGoingDown2"}, {"MergeMinGoingUp2"}, {}, {"DestinationListEmpty"}),
    Quiet("T37", {"MergeMaxGoingDown2"},
          {"GoingUp", "Ready", "ProcessedLists"}, {},
          {"MaxGreaterThanCurrent"}),
    Quiet("T38", {"MergeMaxGoingDown2"},
          {"MergePostponedToCurrent21"}, {},
          {"MaxSmallerThanCurrent"}),
    Quiet("T39", {"MergeMinGoingUp2"},
          {"Ready", "ProcessedLists"}, {},
          {"DestinationListEmpty"}),
    Quiet("T40", {"MergeMinGoingUp2"},
          {"MergePostponedToCurrent22"}, {},
          {"DestinationListNotEmpty", "MinGreaterThanCurrent"}),
    Quiet("T41", {"MergeMinGoingUp2"},
          {"Ready", "ProcessedLists", "GoingDown"}, {},
          {"DestinationListNotEmpty", "MinSmallerThanCurrent"}),
    Plain("T42", {"MergePostponedToCurrent21"}, {"Ready", "ProcessedLists", "GoingDown"}),
    Plain("T43", {"MergePostponedToCurrent22"}, {"Ready", "ProcessedLists", "GoingUp"})}

ButtonPressingTransitions == {
    Quiet("T44", {"DestinationButton", "Ready"},
          {"D3"}, {"GoingUp_", "GoingDown_"},
          {"MarkedFloorNotCurrentFloor"}),
    Quiet("T45", {"DestinationButton", "GoingUp_", "Ready"},
          {"D1", "GoingUp_"}, {},
          {"MarkedFloorNotCurrentFloor"}),
    Quiet("T46", {"DestinationButton", "GoingDown_", "Ready"},
          {"D2", "GoingDown_"}, {},
          {"MarkedFloorNotCurrentFloor"}),
    Quiet("T47", {"D1"}, {"AddToTravel"}, {}, {"MarkedFloorGreaterThanCurrentFloor"}),
    Quiet("T48", {"D1"}, {"AddToNextTravel"}, {}, {"MarkedFloorSmallerThanCurrentFloor"}),
    Quiet("T49", {"D2"}, {"AddToNextTravel"}, {}, {"MarkedFloorGreaterThanCurrentFloor"}),
    Quiet("T50", {"D2"}, {"AddToTravel"}, {}, {"MarkedFloorSmallerThanCurrentFloor"}),
    Quiet("T51", {"D3"}, {"GoingUp", "AddToTravel"}, {}, {"MarkedFloorGreaterThanCurrentFloor"}),
    Quiet("T52", {"D3"},
          {"GoingDown", "AddToTravel"}, {},
          {"MarkedFloorSmallerThanCurrentFloor"}),
    Plain("T53", {"AddToNextTravel"}, {"Ready"}),
    Plain("T54", {"AddToTravel"}, {"Ready"})}

CallingButtonTransitions == {
    Quiet("T55", {"CallButtonUp", "Ready"},
          {"D3"}, {"GoingUp_", "GoingDown_"},
          {"MarkedFloorNotCurrentFloor"}),
    Quiet("T56", {"CallButtonUp", "GoingUp_", "Ready"},
          {"D4", "GoingUp_"}, {},
          {"MarkedFloorNotCurrentFloor"}),
    Plain("T57", {"CallButtonUp", "GoingDown_", "Ready"}, {"WaitToGoUp", "GoingDown_"}),
    Quiet("T58", {"D4"}, {"WaitToGoUp"}, {}, {"MarkedFloorSmallerThanCurrentFloor"}),
    Quiet("T59", {"D4"}, {"AddToTravel"}, {}, {"MarkedFloorGreaterThanCurrentFloor"}),
    Plain("T60", {"WaitToGoUp"}, {"Ready"}),
    Quiet("T61", {"CallButtonDown", "Ready"},
          {"D3"}, {"GoingUp_", "GoingDown_"},
          {"MarkedFloorNotCurrentFloor"}),
    Quiet("T62", {"CallButtonDown", "GoingDown_", "Ready"},
          {"D5", "GoingDown_"}, {},
          {"MarkedFloorNotCurrentFloor"}),
    Plain("T63", {"CallButtonDown", "GoingUp_", "Ready"}, {"WaitToGoDown", "GoingUp_"}),
    Quiet("T64", {"D5"}, {"AddToTravel"}, {}, {"MarkedFloorSmallerThanCurrentFloor"}),
    Quiet("T65", {"D5"}, {"WaitToGoDown"}, {}, {"MarkedFloorGreaterThanCurrentFloor"}),
    Plain("T66", {"WaitToGoDown"}, {"Ready"})}

Transitions ==
    CabineTransitions \cup SimulationTransitions
      \cup ArrivingGoingDownTransitions \cup ArrivingGoingUpTransitions
      \cup ButtonPressingTransitions \cup CallingButtonTransitions

InputPlaces ==
    {"CloseDoors", "OpenDoors", "CallButtonUp", "CallButtonDown", "DestinationButton"}

Places ==
    InputPlaces \cup UNION {t.activation \cup t.destination : t \in Transitions}

InitiallyMarked == {"Stopped_", "DoorsOpened", "ProcessedLists", "Ready"}
=============================================================================
