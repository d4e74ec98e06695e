--------------------------- MODULE JourneyProofs ----------------------------
(***************************************************************************)
(* JourneyFits of ElevatorProofs is kept, and what follows from it for     *)
(* buildings of any height and any number of requests: the cabin stays in  *)
(* the building, stops where it is to stop, moves only towards a           *)
(* destination, and comes to rest ready for a request.                     *)
(***************************************************************************)
EXTENDS ElevatorProofs, WellFoundedInduction

\* No activity is for two things.
LEMMA KindsApart ==
    ASSUME NEW x
    PROVE  /\ x \in Requesting =>
                x \notin Counting \cup Removing \cup Swapping \cup Choosing \cup Merging \cup Asking \cup {"ProcessedLists", "Ready"}
           /\ x \in Counting =>
                x \notin Requesting \cup Removing \cup Swapping \cup Choosing \cup Merging \cup Asking \cup {"ProcessedLists", "Ready"}
           /\ x \in Removing =>
                x \notin Requesting \cup Counting \cup Swapping \cup Choosing \cup Merging \cup Asking \cup {"ProcessedLists", "Ready"}
           /\ x \in Swapping =>
                x \notin Requesting \cup Counting \cup Removing \cup Choosing \cup Merging \cup Asking \cup {"ProcessedLists", "Ready"}
           /\ x \in Choosing =>
                x \notin Requesting \cup Counting \cup Removing \cup Swapping \cup Merging \cup Asking \cup {"ProcessedLists", "Ready"}
           /\ x \in Merging =>
                x \notin Requesting \cup Counting \cup Removing \cup Swapping \cup Choosing \cup Asking \cup {"ProcessedLists", "Ready"}
           /\ x \in Postponing => x \in Merging
           /\ x \in Turning <=> x \in Swapping \cup Choosing \cup Merging
BY DEF Turning, Counting, Removing, Asking, Requesting, Swapping, Choosing, Merging, ChoosingMin, ChoosingMax, Postponing

\* A non-empty set of floors has a lowest and a highest one.
LEMMA LowestAndHighest ==
    ASSUME NEW S, S \subseteq Floors, S # {}
    PROVE  /\ Min(S) \in S /\ \A f \in S : f >= Min(S)
           /\ Max(S) \in S /\ \A f \in S : f <= Max(S)
<1> DEFINE R == OpToRel(<, Nat)
<1>1. IsWellFoundedOn(R, Nat)
  BY NatLessThanWellFounded
<1>2. \A x, y \in Nat : <<y, x>> \in R <=> y < x
  BY DEF OpToRel
<1> HIDE DEF R
<1>3. S \subseteq Nat /\ TopFloor \in Nat
  BY ElevatorAssumption DEF Floors
<1>4. PICK low \in S : \A f \in S : ~(<<f, low>> \in R)
  BY <1>1, <1>3, WFMin
<1>5. \A f \in S : low <= f
  <2>1. \A f \in S : ~(f < low)
    BY <1>2, <1>3, <1>4
  <2> QED
    BY <1>3, <2>1
<1>6. Min(S) \in S /\ \A f \in S : f >= Min(S)
  <2>1. Min(S) \in S /\ \A f \in S : Min(S) <= f
    BY <1>5 DEF Min
  <2> QED
    BY <1>3, <2>1
<1> DEFINE T == {TopFloor - f : f \in S}
<1>7. T \subseteq Nat /\ T # {} /\ \A x \in T : TopFloor - x \in S
  <2>1. \A f \in S : TopFloor - f \in Nat /\ TopFloor - (TopFloor - f) = f
    BY <1>3 DEF Floors
  <2> QED
    BY <2>1
<1>8. \A f \in S : TopFloor - f \in T
  OBVIOUS
<1> HIDE DEF T
<1>9. PICK x \in T : \A y \in T : ~(<<y, x>> \in R)
  BY <1>1, <1>7, WFMin
<1>10. \A f \in S : TopFloor - x >= f
  <2>1. \A f \in S : ~(TopFloor - f < x)
    BY <1>2, <1>7, <1>8, <1>9
  <2> QED
    BY <1>3, <1>7, <2>1
<1>11. Max(S) \in S /\ \A f \in S : f <= Max(S)
  <2>1. Max(S) \in S /\ \A f \in S : Max(S) >= f
    BY <1>7, <1>10 DEF Max
  <2> QED
    BY <1>3, <2>1
<1> QED
  BY <1>6, <1>11
-----------------------------------------------------------------------------
(***************************************************************************)
(* The queue, when an action enters it and when none does.                 *)
(***************************************************************************)
LEMMA JobEntered ==
    ASSUME jobs \in Seq(OnEnter), NEW p \in OnEnter, Enters(p)
    PROVE  /\ Len(jobs') = Len(jobs) + 1
           /\ jobs'[Len(jobs) + 1] = p
           /\ \A i \in 1..Len(jobs) : jobs'[i] = jobs[i]
           /\ Len(jobs) \in Nat
BY DEF Enters

LEMMA PendingEntered ==
    ASSUME jobs \in Seq(OnEnter), NEW p \in OnEnter, Enters(p)
    PROVE  /\ \A q : Pending(q)' <=> Pending(q) \/ q = p
           /\ \A S : IsPending(S)' <=> IsPending(S) \/ p \in S
<1>1. \A q : Pending(q)' <=> Pending(q) \/ q = p
  BY JobEntered DEF Pending, ActionInExecution
<1>2. \A S : IsPending(S)' <=> IsPending(S) \/ p \in S
  BY JobEntered DEF IsPending
<1> QED
  BY <1>1, <1>2

LEMMA PendingSame ==
    ASSUME jobs' = jobs
    PROVE  (\A q : Pending(q)' <=> Pending(q)) /\ (\A S : IsPending(S)' <=> IsPending(S))
BY DEF Pending, ActionInExecution, IsPending

LEMMA NothingPending ==
    ASSUME jobs = <<>>
    PROVE  (\A q : ~Pending(q)) /\ (\A S : ~IsPending(S))
BY DEF Pending, ActionInExecution, IsPending

LEMMA AwaitedIsLast ==
    ASSUME jobs \in Seq(OnEnter), NEW a, NEW d, NEW s, QueueFits(a, d, s),
           a \in Counting \cup Swapping \cup Choosing, ~Pending(a)
    PROVE  jobs = <<>>
BY DEF QueueFits, Pending, ActionInExecution

LEMMA IdlesFits ==
    ASSUME TypeOK, NEW a \in Activities, NEW d \in Directions \cup {"none"}, NEW s \in Stages,
           Fit(a, d, s), UNCHANGED <<currentFloor, lists, toAddToDestination, pressing>>,
           Untaken, jobs' = jobs,
           NEW d2 \in Directions \cup {"none"},
           d2 = d \/ (d = "GoingUp" /\ d2 = "GoingUp_") \/ (d = "GoingDown" /\ d2 = "GoingDown_")
    PROVE  Fit(a, d2, s)'
<1>1. Agree(a, d2, s)
  BY DEF Fit, Agree, Turning
<1>2. QueueFits(a, d2, s)'
  BY DEF Fit, QueueFits, Up, Down, lists, Pending, ActionInExecution
<1>3. RequestsApart(a, d2, s)'
  BY PendingSame DEF Fit, RequestsApart, Untaken
<1>4. ListsFit(a, d2, s)'
  <2>1. \A f : Ahead(d2, f)' <=> Ahead(d, f)
    BY DEF Ahead, Up, Down
  <2>2. \A f, g : AsFar(d2, f, g) <=> AsFar(d, f, g)
    BY DEF AsFar, Up, Down
  <2>3. d2 # "none" => Travelling(a, d2, s)'
    BY <2>1, <2>2, PendingSame DEF Fit, ListsFit, Travelling, lists
  <2>4. Known' = Known
    BY DEF Known, lists
  <2>5. a \in Swapping => Swaps(a)'
    BY PendingSame DEF Fit, ListsFit, Swaps, Ahead, lists
  <2>6. a \in Choosing => Chooses(a)'
    BY PendingSame DEF Fit, ListsFit, Chooses, lists
  <2>7. a \in Merging => Merges(a)'
    BY PendingSame DEF Fit, ListsFit, Merges, Ahead, lists
  <2> QED
    BY <2>3, <2>4, <2>5, <2>6, <2>7 DEF Fit, ListsFit
<1> QED
  BY <1>1, <1>2, <1>3, <1>4 DEF Fit, Agree

\* No request is begun by an activity that is no part of one.
LEMMA RequestsKept ==
    ASSUME NEW a, NEW d, NEW s, RequestsApart(a, d, s), Untaken, pressing' = pressing,
           NEW a2 \in Activities \ (Asking \cup Requesting), NEW d2, NEW s2,
           IsPending(Requesting)' => IsPending(Requesting)
    PROVE  RequestsApart(a2, d2, s2)'
BY DEF RequestsApart, Untaken

LEMMA DepartsFits ==
    ASSUME TypeOK, NEW a \in Activities, NEW d \in Directions \cup {"none"}, NEW s \in Stages,
           Fit(a, d, s), UNCHANGED <<currentFloor, lists, toAddToDestination, pressing>>,
           Departs(a, d, s)
    PROVE  Fit(a, d, "moving")'
<1>1. s = "rest" /\ destinations # {} /\ ~Pending("ProcessedLists") /\ jobs' = jobs /\ Untaken
  BY DEF Departs
<1>2. d # "none"
  BY <1>1 DEF Fit, ListsFit, Known
<1>3. a \notin Turning \cup Counting \cup Removing
  BY <1>1 DEF Fit, Agree
<1>4. Agree(a, d, "moving")
  BY <1>1, <1>2, <1>3 DEF Fit, Agree
<1>5. QueueFits(a, d, "moving")'
  BY <1>1, <1>3, PendingSame DEF Fit, QueueFits, Turning, lists, Pending, ActionInExecution
<1>6. RequestsApart(a, d, "moving")'
  BY <1>1, PendingSame DEF Fit, RequestsApart, Untaken
<1>7. ListsFit(a, d, "moving")'
  BY <1>1, <1>2, <1>3, PendingSame DEF Fit, ListsFit, Turning, Travelling, Ahead, lists
<1> QED
  BY <1>4, <1>5, <1>6, <1>7 DEF Fit, Agree

LEMMA StopsFits ==
    ASSUME TypeOK, NEW a \in Activities, NEW d \in Directions \cup {"none"}, NEW s \in Stages,
           Fit(a, d, s), UNCHANGED <<currentFloor, lists, toAddToDestination, pressing>>,
           Stops(a, d, s)
    PROVE  Fit(a, d, "processing")'
<1>1. s = "arrived" /\ jobs' = jobs /\ Untaken
  BY DEF Stops
<1>2. d # "none" /\ a \notin Turning
  BY <1>1 DEF Fit, Agree
<1>4. Agree(a, d, "processing")
  BY <1>1, <1>2 DEF Fit, Agree
<1>5. QueueFits(a, d, "processing")'
  BY <1>1, <1>2, PendingSame DEF Fit, QueueFits, lists, Pending, ActionInExecution
<1>6. RequestsApart(a, d, "processing")'
  BY <1>1, PendingSame DEF Fit, RequestsApart, Untaken
<1>7. ListsFit(a, d, "processing")'
  BY <1>1, <1>2, PendingSame DEF Fit, ListsFit, Turning, Travelling, Ahead, lists
<1> QED
  BY <1>4, <1>5, <1>6, <1>7 DEF Fit, Agree

LEMMA StartsCountingFits ==
    ASSUME TypeOK, NEW a \in Activities, NEW d \in Directions \cup {"none"}, NEW s \in Stages,
           Fit(a, d, s), UNCHANGED <<currentFloor, lists, toAddToDestination, pressing>>,
           a = "Ready", s = "moving", NEW a2 \in Counting,
           d = IF a2 = "IncreaseFloor" THEN "GoingUp_" ELSE "GoingDown_", Enters(a2), Untaken
    PROVE  Fit(a2, d, s)'
<1>1. a2 \in OnEnter /\ a2 \in Activities \ (Asking \cup Requesting \cup Turning)
      /\ a2 \notin Removing \cup Merging /\ a2 # "ProcessedLists"
  BY DEF Counting, OnEnter, Activities, Asking, Requesting, Turning, Swapping, Choosing, Merging,
         ChoosingMin, ChoosingMax, Postponing, Removing
<1>2. jobs \in Seq(OnEnter)
  BY DEF TypeOK
<1>3. ~IsPending(Removing) /\ ~IsPending(Merging)
  BY DEF Fit, QueueFits, IsPending, Removing, Merging, Postponing
<1>4. Agree(a2, d, s)
  BY <1>1 DEF Fit, Agree, Counting, Turning, Swapping, Choosing, Merging,
         ChoosingMin, ChoosingMax, Postponing, Requesting
<1>5. QueueFits(a2, d, s)'
  BY <1>1, <1>2, <1>3, JobEntered DEF Fit, QueueFits, IsPending, Asking, Requesting, Counting,
     Swapping, Choosing, ChoosingMin, ChoosingMax
<1>6. RequestsApart(a2, d, s)'
  BY <1>1, <1>2, PendingEntered, RequestsKept DEF Fit
<1>7. ListsFit(a2, d, s)'
  <2>1. a \notin Counting \cup Removing /\ d # "none"
    BY DEF Counting, Removing
  <2>2. Travelling(a, d, s)
    BY <2>1 DEF Fit, ListsFit
  <2>3. ~IsPending(Postponing) /\ ~IsPending(Postponing)'
    BY <1>1, <1>2, <1>3, PendingEntered DEF IsPending, Merging
  <2>4. /\ Pending("AddToTravel")' => Pending("AddToTravel")
        /\ Pending("AddToNextTravel")' => Pending("AddToNextTravel")
    BY <1>1, <1>2, PendingEntered DEF Requesting
  <2>5. Travelling(a2, d, s)'
    BY <1>3, <2>1, <2>2, <2>3, <2>4 DEF Travelling, Ahead, lists
  <2> QED
    BY <1>1, <2>1, <2>5 DEF ListsFit, Turning
<1> QED
  BY <1>4, <1>5, <1>6, <1>7 DEF Fit, Agree

LEMMA PassesFloorFits ==
    ASSUME TypeOK, NEW a \in Activities, NEW d \in Directions \cup {"none"}, NEW s \in Stages,
           Fit(a, d, s), UNCHANGED <<currentFloor, lists, toAddToDestination, pressing>>,
           PassesFloor(a, d, s)
    PROVE  Fit("Ready", d, s)'
<1>1. a \in Counting /\ ~Pending(a) /\ currentFloor \notin destinations /\ jobs' = jobs /\ Untaken
  BY DEF PassesFloor
<1>2. jobs = <<>>
  BY <1>1, AwaitedIsLast DEF Fit, TypeOK
<1>3. s = "moving" /\ d # "none"
  BY <1>1 DEF Fit, Agree, Counting
<1>4. Agree("Ready", d, s)
  BY <1>3 DEF Agree, Turning, Swapping, Choosing, Merging, ChoosingMin, ChoosingMax, Postponing,
          Counting, Removing, Requesting
<1>5. QueueFits("Ready", d, s)'
  BY <1>1, <1>2 DEF QueueFits
<1>6. RequestsApart("Ready", d, s)'
  BY <1>1, PendingSame, RequestsKept DEF Fit, Activities, Asking, Requesting
<1>7. ListsFit("Ready", d, s)'
  <2>1. Travelling(a, d, s) /\ a \notin Removing
    BY <1>1, <1>3 DEF Fit, ListsFit, Counting, Removing
  <2>2. Travelling("Ready", d, s)'
    BY <1>1, <1>2, <2>1, NothingPending, PendingSame DEF Travelling, Ahead, lists
  <2> QED
    BY <1>3, <2>2 DEF ListsFit, Swapping, Choosing, Merging, ChoosingMin, ChoosingMax, Postponing
<1> QED
  BY <1>4, <1>5, <1>6, <1>7 DEF Fit, Agree

LEMMA StopsAtFloorFits ==
    ASSUME TypeOK, NEW a \in Activities, NEW d \in Directions \cup {"none"}, NEW s \in Stages,
           Fit(a, d, s), UNCHANGED <<currentFloor, lists, toAddToDestination, pressing>>,
           a \in Counting, ~Pending(a), currentFloor \in destinations, NEW a2 \in Removing,
           a2 = IF a = "IncreaseFloor" THEN "RemoveFromListGU" ELSE "RemoveFromListGD",
           Enters(a2), Untaken
    PROVE  Fit(a2, d, s)'
<1>1. a2 \in OnEnter /\ a2 \in Activities \ (Asking \cup Requesting \cup Turning \cup Counting)
      /\ a2 \notin Merging /\ a2 # "ProcessedLists"
  BY DEF Counting, OnEnter, Activities, Asking, Requesting, Turning, Swapping, Choosing, Merging,
         ChoosingMin, ChoosingMax, Postponing, Removing
<1>2. jobs = <<>> /\ jobs' = <<a2>>
  <2>1. jobs = <<>>
    BY AwaitedIsLast DEF Fit, TypeOK
  <2> QED
    BY <2>1 DEF Enters
<1>3. s = "moving" /\ d # "none"
  BY DEF Fit, Agree, Counting
<1>4. Agree(a2, d, s)
  BY <1>1, <1>3 DEF Fit, Agree, Counting, Removing
<1>5. QueueFits(a2, d, s)'
  BY <1>1, <1>2 DEF QueueFits, Turning, Counting, lists
<1>6. RequestsApart(a2, d, s)'
  BY <1>1, <1>2, RequestsKept DEF Fit, IsPending
<1>7. ListsFit(a2, d, s)'
  <2>1. Travelling(a, d, s)
    BY <1>3 DEF Fit, ListsFit
  <2>2. IsPending(Removing)' /\ ~IsPending(Postponing)' /\ ~IsPending(Postponing)
    BY <1>1, <1>2 DEF IsPending, Merging
  <2>3. ~Pending("AddToTravel")' /\ ~Pending("AddToNextTravel")' /\ ~IsPending(Removing)
    BY <1>1, <1>2 DEF Pending, ActionInExecution, IsPending, Requesting
  <2>4. Travelling(a2, d, s)'
    BY <2>1, <2>2, <2>3 DEF Travelling, Ahead, lists
  <2> QED
    BY <1>1, <1>3, <2>4 DEF ListsFit, Turning
<1> QED
  BY <1>4, <1>5, <1>6, <1>7 DEF Fit, Agree

LEMMA HasStoppedFits ==
    ASSUME TypeOK, NEW a \in Activities, NEW d \in Directions \cup {"none"}, NEW s \in Stages,
           Fit(a, d, s), UNCHANGED <<currentFloor, lists, toAddToDestination, pressing>>,
           HasStopped(a, d, s)
    PROVE  Fit("Ready", d, "arrived")'
<1>1. a \in Removing /\ jobs' = jobs /\ Untaken
  BY DEF HasStopped
<1>2. s = "moving" /\ d # "none" /\ a \notin Turning \cup Counting \cup Requesting
  BY <1>1 DEF Fit, Agree, Removing, Counting, Requesting
<1>4. Agree("Ready", d, "arrived")
  BY <1>2 DEF Agree, Turning, Swapping, Choosing, Merging, ChoosingMin, ChoosingMax, Postponing,
          Counting, Removing, Requesting
<1>5. QueueFits("Ready", d, "arrived")'
  BY <1>1, <1>2 DEF Fit, QueueFits, lists, Turning, Swapping, Choosing, Merging, ChoosingMin, ChoosingMax, Postponing,
          Counting, Removing, Asking, Requesting
<1>6. RequestsApart("Ready", d, "arrived")'
  BY <1>1, PendingSame, RequestsKept DEF Fit, Activities, Asking, Requesting
<1>7. ListsFit("Ready", d, "arrived")'
  <2>1. Travelling(a, d, s)
    BY <1>2 DEF Fit, ListsFit
  <2>2. Travelling("Ready", d, "arrived")'
    BY <1>1, <1>2, <2>1, PendingSame DEF Travelling, Ahead, lists
  <2> QED
    BY <1>2, <2>2 DEF ListsFit, Swapping, Choosing, Merging, ChoosingMin, ChoosingMax, Postponing
<1> QED
  BY <1>4, <1>5, <1>6, <1>7 DEF Fit, Agree

LEMMA GoesOnFits ==
    ASSUME TypeOK, NEW a \in Activities, NEW d \in Directions \cup {"none"}, NEW s \in Stages,
           Fit(a, d, s), UNCHANGED <<currentFloor, lists, toAddToDestination, pressing>>,
           GoesOn(a, d, s)
    PROVE  Fit(a, d, "rest")'
<1>1. a = "Ready" /\ s = "processing" /\ Enters("ProcessedLists") /\ Untaken
  BY DEF GoesOn
<1>2. "ProcessedLists" \in OnEnter /\ jobs \in Seq(OnEnter)
  BY DEF OnEnter, TypeOK
<1>3. d # "none" /\ a \notin Turning
  BY <1>1 DEF Fit, Agree
<1>k. a \notin Swapping \cup Choosing \cup Merging \cup Counting \cup Removing \cup Asking \cup Requesting
      /\ "ProcessedLists" \notin Swapping \cup Choosing \cup Merging \cup Counting \cup Removing \cup Asking \cup Requesting
  BY <1>1, <1>3 DEF Turning, Counting, Removing, Asking, Requesting, Swapping, Choosing, Merging, ChoosingMin, ChoosingMax, Postponing
<1>4. Agree(a, d, "rest")
  BY <1>1, <1>3, <1>k DEF Fit, Agree
<1>p. Pending("ProcessedLists")'
  BY <1>1, <1>2, PendingEntered
<1>5. QueueFits(a, d, "rest")'
  BY <1>1, <1>2, <1>3, <1>k, <1>p, JobEntered DEF Fit, QueueFits, lists
<1>6. RequestsApart(a, d, "rest")'
  BY <1>1, <1>2, <1>k, PendingEntered, RequestsKept DEF Fit
<1>7. ListsFit(a, d, "rest")'
  <2>1. Travelling(a, d, s)
    BY <1>3 DEF Fit, ListsFit
  <2>2. /\ IsPending(Removing)' <=> IsPending(Removing)
        /\ IsPending(Postponing)' <=> IsPending(Postponing)
        /\ Pending("AddToTravel")' <=> Pending("AddToTravel")
        /\ Pending("AddToNextTravel")' <=> Pending("AddToNextTravel")
    BY <1>1, <1>2, <1>k, PendingEntered DEF Merging
  <2>3. Travelling(a, d, "rest")'
    BY <1>k, <2>1, <2>2 DEF Travelling, Ahead, lists
  <2> QED
    BY <1>k, <1>3, <2>3 DEF ListsFit
<1> QED
  BY <1>4, <1>5, <1>6, <1>7 DEF Fit, Agree

LEMMA TurnsFits ==
    ASSUME TypeOK, NEW a \in Activities, NEW d \in Directions \cup {"none"}, NEW s \in Stages,
           Fit(a, d, s), UNCHANGED <<currentFloor, lists, toAddToDestination, pressing>>,
           FloorsExist, a = "Ready", s = "processing", destinations = {}, ~Pending("AddToTravel"),
           NEW a2 \in Swapping, d = IF a2 = "SwapGU" THEN "GoingUp_" ELSE "GoingDown_",
           Enters(a2), Untaken
    PROVE  Fit(a2, "none", "turning")'
<1>1. a2 \in OnEnter /\ a2 \in Activities \ (Asking \cup Requesting \cup Choosing \cup Merging \cup Counting \cup Removing)
      /\ a2 # "ProcessedLists" /\ a2 \in Turning
  BY DEF Counting, OnEnter, Activities, Asking, Requesting, Turning, Swapping, Choosing, Merging,
         ChoosingMin, ChoosingMax, Postponing, Removing
<1>2. jobs \in Seq(OnEnter) /\ "none" # d
  BY DEF TypeOK
<1>3. ~IsPending(Removing) /\ ~IsPending(Merging)
  BY DEF Fit, QueueFits, IsPending, Removing, Merging, Postponing
<1>4. Agree(a2, "none", "turning")
  BY <1>1 DEF Agree, Asking, Counting, Removing
<1>5. QueueFits(a2, "none", "turning")'
  BY <1>1, <1>2, <1>3, JobEntered DEF Fit, QueueFits, IsPending, Pending, ActionInExecution,
     Asking, Requesting, Counting, Swapping, Choosing, ChoosingMin, ChoosingMax
<1>6. RequestsApart(a2, "none", "turning")'
  BY <1>1, <1>2, PendingEntered, RequestsKept DEF Fit
<1>7. ListsFit(a2, "none", "turning")'
  <2>1. Travelling(a, d, s)
    BY <1>2 DEF Fit, ListsFit
  <2>2. ~IsPending(Postponing)
    BY <1>3 DEF IsPending, Merging
  <2>3. Pending(a2)' /\ (Pending("AddToNextTravel")' => Pending("AddToNextTravel"))
    BY <1>1, <1>2, PendingEntered DEF Requesting
  <2>4. currentFloor \in Int /\ toAddToDestination \in Int /\ nextTravelDestinations \subseteq Int
    BY ElevatorAssumption DEF FloorsExist, Known, Floors
  <2>5. \A f \in Int : f # currentFloor /\ ~Ahead(d, f) => Ahead(a2, f)
    BY <2>4 DEF Ahead, Up, Down, Swapping
  <2>6. \A n \in nextTravelDestinations : ~Ahead(d, n)
    BY <2>1, <2>2 DEF Travelling
  <2>7. Pending("AddToNextTravel")' => Ahead(a2, toAddToDestination)
    BY <2>1, <2>3, <2>4, <2>5 DEF Travelling
  <2>8. \A f : Ahead(a2, f)' <=> Ahead(a2, f)
    BY DEF Ahead
  <2>9. Swaps(a2)'
    BY <2>3, <2>4, <2>5, <2>6, <2>7, <2>8 DEF Swaps, lists
  <2> QED
    BY <1>1, <2>9 DEF ListsFit
<1> QED
  BY <1>4, <1>5, <1>6, <1>7 DEF Fit, Agree

LEMMA MergesWaitingFits ==
    ASSUME TypeOK, NEW a \in Activities, NEW d \in Directions \cup {"none"}, NEW s \in Stages,
           Fit(a, d, s), UNCHANGED <<currentFloor, lists, toAddToDestination, pressing>>,
           a \in Swapping, ~Pending(a), NEW a2 \in Merging \ Postponing, a2 \in Up <=> a \in Up,
           Enters(a2), Untaken
    PROVE  Fit(a2, d, s)'
<1>1. a2 \in OnEnter /\ a2 \in Activities \ (Asking \cup Requesting \cup Choosing \cup Swapping \cup Counting \cup Removing)
      /\ a2 # "ProcessedLists" /\ a2 \in Turning /\ a \in Turning
  BY DEF Counting, OnEnter, Activities, Asking, Requesting, Turning, Swapping, Choosing, Merging,
         ChoosingMin, ChoosingMax, Postponing, Removing
<1>2. jobs = <<>> /\ jobs' = <<a2>>
  <2>1. jobs = <<>>
    BY AwaitedIsLast DEF Fit, TypeOK
  <2> QED
    BY <2>1 DEF Enters
<1>3. s = "turning" /\ d = "none"
  BY <1>1 DEF Fit, Agree
<1>4. Agree(a2, d, s)
  BY <1>1, <1>3 DEF Agree, Counting, Removing, Asking
<1>5. QueueFits(a2, d, s)'
  BY <1>1, <1>2 DEF QueueFits
<1>6. RequestsApart(a2, d, s)'
  BY <1>1, <1>2, RequestsKept DEF Fit, IsPending
<1>7. ListsFit(a2, d, s)'
  <2>1. \A f : Ahead(a2, f)' <=> Ahead(a, f)
    BY DEF Ahead, Up, Down, Swapping, Merging, Postponing
  <2>2. Merges(a2)'
    BY <2>1 DEF Fit, ListsFit, Swaps, Merges, lists
  <2> QED
    BY <1>1, <1>3, <2>2 DEF ListsFit
<1> QED
  BY <1>4, <1>5, <1>6, <1>7 DEF Fit, Agree

LEMMA LooksForWaitingFits ==
    ASSUME TypeOK, NEW a \in Activities, NEW d \in Directions \cup {"none"}, NEW s \in Stages,
           Fit(a, d, s), UNCHANGED <<currentFloor, lists, toAddToDestination, pressing>>,
           destinations = {}, ~Pending(a), NEW a2 \in Choosing,
           \/ a \in Swapping /\ a2 \in {"MergeMinGoingUp1", "MergeMaxGoingDown2"}
           \/ a = "MergeMinGoingUp1" /\ a2 = "MergeMaxGoingDown1"
           \/ a = "MergeMaxGoingDown2" /\ a2 = "MergeMinGoingUp2",
           Enters(a2), Untaken
    PROVE  Fit(a2, d, s)'
<1>1. a2 \in OnEnter /\ a2 \in Activities \ (Asking \cup Requesting \cup Merging \cup Swapping \cup Counting \cup Removing)
      /\ a2 # "ProcessedLists" /\ a2 \in Turning /\ a \in Turning
  BY DEF Counting, OnEnter, Activities, Asking, Requesting, Turning, Swapping, Choosing, Merging,
         ChoosingMin, ChoosingMax, Postponing, Removing
<1>2. jobs = <<>> /\ jobs' = <<a2>>
  <2>1. jobs = <<>>
    BY AwaitedIsLast DEF Fit, TypeOK, Choosing, ChoosingMin, ChoosingMax
  <2> QED
    BY <2>1 DEF Enters
<1>3. s = "turning" /\ d = "none"
  BY <1>1 DEF Fit, Agree
<1>4. Agree(a2, d, s)
  BY <1>1, <1>3 DEF Agree, Counting, Removing, Asking
<1>5. QueueFits(a2, d, s)'
  BY <1>1, <1>2 DEF QueueFits
<1>6. RequestsApart(a2, d, s)'
  BY <1>1, <1>2, RequestsKept DEF Fit, IsPending
<1>7. ListsFit(a2, d, s)'
  <2>1. Pending(a2)'
    BY <1>2 DEF Pending, ActionInExecution
  <2>2. nextTravelDestinations = {}
    BY DEF Fit, ListsFit, Swaps, Chooses, Choosing, ChoosingMin, ChoosingMax
  <2>3. /\ a2 = "MergeMaxGoingDown1" => waitingToGoUp = {}
        /\ a2 = "MergeMinGoingUp2" => waitingToGoDown = {}
    BY DEF Fit, ListsFit, Chooses, Choosing, ChoosingMin, ChoosingMax
  <2>4. Chooses(a2)'
    BY <2>1, <2>2, <2>3 DEF Chooses, lists
  <2> QED
    BY <1>1, <1>3, <2>4 DEF ListsFit
<1> QED
  BY <1>4, <1>5, <1>6, <1>7 DEF Fit, Agree

LEMMA HasMergedFits ==
    ASSUME TypeOK, NEW a \in Activities, NEW d \in Directions \cup {"none"}, NEW s \in Stages,
           Fit(a, d, s), UNCHANGED <<currentFloor, lists, toAddToDestination, pressing>>,
           a \in Merging, NEW h \in Directions, h = IF a \in Up THEN "GoingUp" ELSE "GoingDown",
           Enters("ProcessedLists"), Untaken
    PROVE  Fit("Ready", h, "rest")'
<1>1. a \in Turning /\ a \notin Counting \cup Removing \cup Requesting \cup Asking \cup Swapping \cup Choosing
  BY DEF Counting, Asking, Requesting, Turning, Swapping, Choosing, Merging,
         ChoosingMin, ChoosingMax, Postponing, Removing
<1>2. s = "turning" /\ d = "none"
  BY <1>1 DEF Fit, Agree
<1>3. jobs \in Seq(OnEnter) /\ "ProcessedLists" \in OnEnter
  BY DEF OnEnter, TypeOK
<1>k. /\ "Ready" \notin Turning \cup Swapping \cup Choosing \cup Merging \cup Counting \cup Removing \cup Asking \cup Requesting
      /\ "ProcessedLists" \notin Swapping \cup Choosing \cup Merging \cup Counting \cup Removing \cup Asking \cup Requesting
  BY DEF Turning, Counting, Removing, Asking, Requesting, Swapping, Choosing, Merging, ChoosingMin, ChoosingMax, Postponing
<1>4. Agree("Ready", h, "rest")
  BY <1>k DEF Agree
<1>j. \A i \in 1..Len(jobs) : i = 1 /\ jobs[i] = a
  <2>1. \A i \in 1..Len(jobs) : jobs[i] \in OnEnter
    BY <1>3
  <2>2. OnEnter = Counting \cup Swapping \cup Choosing \cup {"ProcessedLists"} \cup Removing \cup Merging \cup Requesting
    BY DEF OnEnter, Counting, Removing, Requesting, Swapping, Choosing, Merging, ChoosingMin, ChoosingMax, Postponing
  <2> QED
    BY <1>1, <1>2, <2>1, <2>2 DEF Fit, QueueFits, Removing
<1>p. Pending("ProcessedLists")'
  BY <1>3, PendingEntered
<1>5. QueueFits("Ready", h, "rest")'
  <2>1. /\ a = "MergeGoingUpGTCurrent" => h \in Up
        /\ a = "MergeGoingDownSTCurrent" => h \in Down
    BY DEF Up, Down
  <2> QED
    BY <1>1, <1>k, <1>3, <1>j, <1>p, <2>1, JobEntered DEF QueueFits
<1>6. RequestsApart("Ready", h, "rest")'
  BY <1>3, <1>k, PendingEntered, RequestsKept DEF Fit, Activities
<1>7. ListsFit("Ready", h, "rest")'
  <2>1. \A f : Ahead(h, f)' <=> Ahead(a, f)
    BY DEF Ahead, Up, Down, Merging, Postponing
  <2>2. Merges(a)
    BY DEF Fit, ListsFit
  <2>3. /\ IsPending(Postponing)' <=> IsPending(Postponing)
        /\ IsPending(Postponing) <=> a \in Postponing /\ Pending(a)
    <3>1. IsPending(Postponing)' <=> IsPending(Postponing)
      BY <1>3, <1>k, PendingEntered DEF Merging
    <3>2. IsPending(Postponing) <=> a \in Postponing /\ Pending(a)
      BY <1>j DEF IsPending, Pending, ActionInExecution
    <3> QED
      BY <3>1, <3>2
  <2>4. ~Pending("AddToTravel")' /\ ~Pending("AddToNextTravel")'
    <3>1. ~Pending("AddToTravel") /\ ~Pending("AddToNextTravel")
      BY <1>1, <1>j DEF Pending, ActionInExecution, Requesting
    <3> QED
      BY <1>3, <3>1, PendingEntered
  <2>5. Travelling("Ready", h, "rest")'
    BY <2>1, <2>2, <2>3, <2>4 DEF Travelling, Merges, lists
  <2> QED
    BY <1>k, <2>5 DEF ListsFit, Directions
<1> QED
  BY <1>4, <1>5, <1>6, <1>7 DEF Fit, Agree

\* What a merge of waiting floors has put in the list, when a direction is chosen.
LEMMA SeenAhead ==
    ASSUME NEW a \in Choosing, Chooses(a), NEW h \in Up \cup Down, Sees(a, h),
           h \in Up => h \notin Down
    PROVE  \E m \in Floors :
              /\ destinations = {m} /\ Ahead(h, m)
              /\ \A n \in nextTravelDestinations : IF a \in ChoosingMin THEN n >= m ELSE n <= m
<1>1. ~Pending(a) /\ destinations # {}
  BY DEF Sees
<1>2. PICK m \in Floors :
         /\ destinations = {m}
         /\ \A n \in nextTravelDestinations : IF a \in ChoosingMin THEN n >= m ELSE n <= m
  BY <1>1 DEF Chooses
<1>3. m \in Int
  BY ElevatorAssumption DEF Floors
<1>4. Min(destinations) = m /\ Max(destinations) = m
  BY <1>2, <1>3 DEF Min, Max
<1>5. Ahead(h, m)
  BY <1>2, <1>4 DEF Sees, Ahead
<1> QED
  BY <1>2, <1>5

LEMMA ChoosesDirectionFits ==
    ASSUME TypeOK, NEW a \in Activities, NEW d \in Directions \cup {"none"}, NEW s \in Stages,
           Fit(a, d, s), UNCHANGED <<currentFloor, lists, toAddToDestination, pressing>>, FloorsExist,
           NEW h \in {"GoingUp", "GoingDown"}, Sees(a, h), a \in ChoosingMin <=> h = "GoingDown",
           Enters("ProcessedLists"), Untaken
    PROVE  Fit("Ready", h, "rest")'
<1>1. a \in Choosing /\ ~Pending(a)
  BY DEF Sees
<1>2. jobs = <<>> /\ jobs' = <<"ProcessedLists">>
  <2>1. jobs = <<>>
    BY <1>1, AwaitedIsLast DEF Fit, TypeOK
  <2> QED
    BY <2>1 DEF Enters
<1>k. /\ "Ready" \notin Turning \cup Swapping \cup Choosing \cup Merging \cup Counting \cup Removing \cup Asking \cup Requesting
      /\ "ProcessedLists" \notin Swapping \cup Choosing \cup Merging \cup Counting \cup Removing \cup Asking \cup Requesting
  BY DEF Turning, Counting, Removing, Asking, Requesting, Swapping, Choosing, Merging, ChoosingMin, ChoosingMax, Postponing
<1>4. Agree("Ready", h, "rest")
  BY <1>k DEF Agree
<1>5. QueueFits("Ready", h, "rest")'
  BY <1>k, <1>2 DEF QueueFits
<1>6. RequestsApart("Ready", h, "rest")'
  BY <1>2, <1>k, RequestsKept DEF Fit, Activities, IsPending
<1>7. ListsFit("Ready", h, "rest")'
  <2>1. PICK m \in Floors :
           /\ destinations = {m} /\ Ahead(h, m)
           /\ \A n \in nextTravelDestinations : IF a \in ChoosingMin THEN n >= m ELSE n <= m
    BY <1>1, SeenAhead DEF Fit, ListsFit, Up, Down
  <2>2. \A n \in nextTravelDestinations : AsFar(h, m, n)
    <3>1. m \in Int /\ nextTravelDestinations \subseteq Int
      BY ElevatorAssumption DEF FloorsExist, Known, Floors
    <3> QED
      BY <2>1, <3>1 DEF AsFar, Up, Down
  <2>3. ~IsPending(Postponing)' /\ ~Pending("AddToTravel")' /\ ~Pending("AddToNextTravel")'
    BY <1>2, <1>k DEF IsPending, Pending, ActionInExecution, Merging
  <2>4. Travelling("Ready", h, "rest")'
    BY <2>1, <2>2, <2>3 DEF Travelling, Ahead, lists
  <2> QED
    BY <1>k, <2>4 DEF ListsFit
<1> QED
  BY <1>4, <1>5, <1>6, <1>7 DEF Fit, Agree

LEMMA ChoosesAllFits ==
    ASSUME TypeOK, NEW a \in Activities, NEW d \in Directions \cup {"none"}, NEW s \in Stages,
           Fit(a, d, s), UNCHANGED <<currentFloor, lists, toAddToDestination, pressing>>, FloorsExist,
           NEW a2 \in Postponing, Sees(a, a2), a \in ChoosingMin <=> a2 \in Up,
           Enters(a2), Untaken
    PROVE  Fit(a2, d, s)'
<1>1. a \in Choosing /\ ~Pending(a) /\ a \in Turning
  BY DEF Sees, Turning
<1>2. jobs = <<>> /\ jobs' = <<a2>>
  <2>1. jobs = <<>>
    BY <1>1, AwaitedIsLast DEF Fit, TypeOK
  <2> QED
    BY <2>1 DEF Enters
<1>3. s = "turning" /\ d = "none"
  BY <1>1 DEF Fit, Agree
<1>k. a2 \in Activities \ (Asking \cup Requesting \cup Choosing \cup Swapping \cup Counting \cup Removing)
      /\ a2 # "ProcessedLists" /\ a2 \in Turning /\ a2 \in Merging
  BY DEF Counting, OnEnter, Activities, Asking, Requesting, Turning, Swapping, Choosing, Merging,
         ChoosingMin, ChoosingMax, Postponing, Removing
<1>4. Agree(a2, d, s)
  BY <1>k, <1>3 DEF Agree, Asking, Counting, Removing
<1>5. QueueFits(a2, d, s)'
  BY <1>k, <1>2 DEF QueueFits, Postponing
<1>6. RequestsApart(a2, d, s)'
  BY <1>2, <1>k, RequestsKept DEF Fit, IsPending
<1>7. ListsFit(a2, d, s)'
  <2>1. PICK m \in Floors :
           /\ destinations = {m} /\ Ahead(a2, m)
           /\ \A n \in nextTravelDestinations : IF a \in ChoosingMin THEN n >= m ELSE n <= m
    BY <1>1, SeenAhead DEF Fit, ListsFit, Up, Down, Postponing
  <2>2. \A n \in nextTravelDestinations : Ahead(a2, n)
    <3>1. m \in Int /\ nextTravelDestinations \subseteq Int /\ currentFloor \in Int
      BY ElevatorAssumption DEF FloorsExist, Known, Floors
    <3> QED
      BY <2>1, <3>1 DEF Ahead, Up, Down, Postponing
  <2>3. Pending(a2)'
    BY <1>2 DEF Pending, ActionInExecution
  <2>4. Merges(a2)'
    BY <2>1, <2>2, <2>3 DEF Merges, Ahead, lists
  <2> QED
    BY <1>k, <1>3, <2>4 DEF ListsFit
<1> QED
  BY <1>4, <1>5, <1>6, <1>7 DEF Fit, Agree

LEMMA FindsNothingFits ==
    ASSUME TypeOK, NEW a \in Activities, NEW d \in Directions \cup {"none"}, NEW s \in Stages,
           Fit(a, d, s), UNCHANGED <<currentFloor, lists, toAddToDestination, pressing>>,
           FindsNothing(a, d, s)
    PROVE  Fit("Ready", "none", "rest")'
<1>1. /\ a \in {"MergeMaxGoingDown1", "MergeMinGoingUp2"} /\ ~Pending(a) /\ destinations = {}
      /\ Enters("ProcessedLists") /\ Untaken /\ a \in Choosing
  BY DEF FindsNothing, Choosing, ChoosingMin, ChoosingMax
<1>2. jobs = <<>> /\ jobs' = <<"ProcessedLists">>
  <2>1. jobs = <<>>
    BY <1>1, AwaitedIsLast DEF Fit, TypeOK
  <2> QED
    BY <1>1, <2>1 DEF Enters
<1>k. /\ "Ready" \notin Turning \cup Swapping \cup Choosing \cup Merging \cup Counting \cup Removing \cup Asking \cup Requesting
      /\ "ProcessedLists" \notin Swapping \cup Choosing \cup Merging \cup Counting \cup Removing \cup Asking \cup Requesting
  BY DEF Turning, Counting, Removing, Asking, Requesting, Swapping, Choosing, Merging, ChoosingMin, ChoosingMax, Postponing
<1>4. Agree("Ready", "none", "rest")
  BY <1>k DEF Agree
<1>5. QueueFits("Ready", "none", "rest")'
  BY <1>k, <1>2 DEF QueueFits
<1>6. RequestsApart("Ready", "none", "rest")'
  BY <1>1, <1>2, <1>k, RequestsKept DEF Fit, Activities, IsPending
<1>7. ListsFit("Ready", "none", "rest")'
  <2>1. Known = {}
    BY <1>1 DEF Fit, ListsFit, Chooses, Choosing, ChoosingMin, ChoosingMax, Known
  <2> QED
    BY <1>k, <2>1 DEF ListsFit, Known, lists
<1> QED
  BY <1>4, <1>5, <1>6, <1>7 DEF Fit, Agree

LEMMA RequestTaken ==
    ASSUME TypeOK, NEW a, NEW d, NEW s, RequestsApart(a, d, s),
           NEW b \in FloorButtons, Taken(b), pressing' = pressing
    PROVE  /\ pressing' = "none" /\ \A c \in FloorButtons : tokens'[c] = 0
           /\ ~IsPending(Requesting)
<1>1. pressing = "none"
  BY DEF Taken, RequestsApart
<1>2. ASSUME NEW c \in FloorButtons
      PROVE  tokens'[c] = 0
  <2>1. tokens[c] \in Nat /\ tokens[b] \in Nat
    BY PlacesOfTheCabin DEF TypeOK
  <2> QED
    BY <2>1 DEF Taken, RequestsApart, Count
<1>3. ~IsPending(Requesting)
  BY DEF Taken, RequestsApart
<1> QED
  BY <1>1, <1>2, <1>3

LEMMA TakesUpFits ==
    ASSUME TypeOK, NEW a \in Activities, NEW d \in Directions \cup {"none"}, NEW s \in Stages,
           Fit(a, d, s), UNCHANGED <<currentFloor, lists, toAddToDestination, pressing>>,
           a = "Ready", toAddToDestination # currentFloor, NEW a2 \in Asking,
           \/ a2 = "D3" /\ d = "none"
           \/ a2 \in {"D1", "D4"} /\ d = "GoingUp_"
           \/ a2 \in {"D2", "D5"} /\ d = "GoingDown_",
           jobs' = jobs, NEW b \in FloorButtons, Taken(b)
    PROVE  Fit(a2, d, s)'
<1>k. /\ "Ready" \notin Turning \cup Swapping \cup Choosing \cup Merging \cup Counting \cup Removing \cup Asking \cup Requesting
      /\ a2 \notin Turning \cup Swapping \cup Choosing \cup Merging \cup Counting \cup Removing \cup Requesting
  BY DEF Turning, Counting, Removing, Asking, Requesting, Swapping, Choosing, Merging, ChoosingMin, ChoosingMax, Postponing
<1>1. pressing' = "none" /\ (\A c \in FloorButtons : tokens'[c] = 0) /\ ~IsPending(Requesting)
  BY RequestTaken DEF Fit
<1>4. Agree(a2, d, s)
  BY <1>k DEF Fit, Agree
<1>5. QueueFits(a2, d, s)'
  BY <1>k, <1>1 DEF Fit, QueueFits, Pending, ActionInExecution, IsPending, lists
<1>6. RequestsApart(a2, d, s)'
  BY <1>1, PendingSame DEF RequestsApart
<1>7. ListsFit(a2, d, s)'
  <2>1. d # "none" => Travelling(a2, d, s)'
    BY <1>k, PendingSame DEF Fit, ListsFit, Travelling, Ahead, lists
  <2>2. Known' = Known
    BY DEF Known, lists
  <2> QED
    BY <1>k, <2>1, <2>2 DEF Fit, ListsFit
<1> QED
  BY <1>4, <1>5, <1>6, <1>7 DEF Fit, Agree

LEMMA RequestEnters ==
    ASSUME TypeOK, NEW a \in Asking \cup {"Ready"}, NEW d \in Directions \cup {"none"}, NEW s \in Stages,
           Fit(a, d, s), UNCHANGED <<currentFloor, lists, toAddToDestination, pressing>>,
           ~IsPending(Requesting), pressing = "none", \A c \in FloorButtons : tokens'[c] = 0,
           NEW a2 \in Requesting, NEW d2 \in Directions, d = d2 \/ d = "none", Enters(a2),
           a2 = "AddToTravel" => Ahead(d2, toAddToDestination),
           a2 = "AddToNextTravel" =>
              toAddToDestination # currentFloor /\ ~Ahead(d2, toAddToDestination)
    PROVE  Fit(a2, d2, s)'
<1>k. /\ a \notin Turning \cup Swapping \cup Choosing \cup Merging \cup Counting \cup Removing \cup Requesting
      /\ a2 \notin Turning \cup Swapping \cup Choosing \cup Merging \cup Counting \cup Removing \cup Asking
      /\ a2 # "ProcessedLists" /\ a2 \in OnEnter /\ d2 # "none"
  BY DEF Turning, Counting, Removing, Asking, Requesting, Swapping, Choosing, Merging, ChoosingMin, ChoosingMax,
         Postponing, OnEnter, Directions
<1>1. jobs \in Seq(OnEnter)
  BY DEF TypeOK
<1>2. d = "none" => s = "rest"
  BY <1>k DEF Fit, Agree
<1>4. Agree(a2, d2, s)
  BY <1>k DEF Fit, Agree, Requesting
<1>5. QueueFits(a2, d2, s)'
  <2>q. QueueFits(a, d, s)
    BY DEF Fit
  <2>n. /\ \A i \in 1..Len(jobs) : jobs[i] \notin Requesting /\ jobs'[i] = jobs[i] /\ i \in 1..Len(jobs')
        /\ jobs'[Len(jobs) + 1] = a2 /\ Len(jobs) + 1 \in 1..Len(jobs')
        /\ \A i \in 1..Len(jobs') : i \in 1..Len(jobs) \/ i = Len(jobs) + 1
    BY <1>1, <1>k, JobEntered DEF IsPending
  <2>p. Pending("ProcessedLists") => Pending("ProcessedLists")'
    BY <1>1, <1>k, PendingEntered
  <2>d. currentFloor' = currentFloor /\ destinations' = destinations
    BY DEF lists
  <2>1. a2 \notin Counting \cup Swapping \cup Choosing
    BY <1>k
  <2>2. ASSUME NEW i \in 1..Len(jobs)
        PROVE  /\ jobs[i] \notin Counting \cup Swapping \cup Choosing
               /\ jobs[i] = "ProcessedLists" => s = "rest"
               /\ jobs[i] \in Removing =>
                    /\ i = 1
                    /\ currentFloor \in destinations
                    /\ s \in {"arrived", "processing"} \/ (s = "rest" /\ Pending("ProcessedLists"))
               /\ jobs[i] \in Merging =>
                    /\ i = 1
                    /\ s = "rest" /\ Pending("ProcessedLists")
                    /\ jobs[i] = "MergeGoingUpGTCurrent" => d2 \in Up
                    /\ jobs[i] = "MergeGoingDownSTCurrent" => d2 \in Down
    BY <1>k, <2>q DEF QueueFits, Up, Down
  <2>3. ASSUME NEW i \in 1..Len(jobs')
        PROVE  /\ jobs'[i] \notin Counting \cup Swapping \cup Choosing
               /\ jobs'[i] = "ProcessedLists" => s = "rest"
               /\ jobs'[i] \in Removing =>
                    /\ i = 1
                    /\ currentFloor' \in destinations'
                    /\ s \in {"arrived", "processing"} \/ (s = "rest" /\ Pending("ProcessedLists")')
               /\ jobs'[i] \in Merging =>
                    /\ i = 1
                    /\ s = "rest" /\ Pending("ProcessedLists")'
                    /\ jobs'[i] = "MergeGoingUpGTCurrent" => d2 \in Up
                    /\ jobs'[i] = "MergeGoingDownSTCurrent" => d2 \in Down
               /\ jobs'[i] \in Requesting => i = Len(jobs) + 1 /\ jobs'[i] = a2
    BY <1>k, <2>n, <2>p, <2>d, <2>2
  <2> QED
    BY <1>k, <2>1, <2>3 DEF QueueFits
<1>6. RequestsApart(a2, d2, s)'
  BY <1>k DEF RequestsApart
<1>7. ListsFit(a2, d2, s)'
  <2>1. /\ IsPending(Removing)' <=> IsPending(Removing)
        /\ IsPending(Postponing)' <=> IsPending(Postponing)
        /\ Pending("AddToTravel")' => a2 = "AddToTravel"
        /\ Pending("AddToNextTravel")' => a2 = "AddToNextTravel"
    <3>1. ~Pending("AddToTravel") /\ ~Pending("AddToNextTravel")
      BY DEF IsPending, Pending, ActionInExecution, Requesting
    <3> QED
      BY <1>1, <1>k, <3>1, PendingEntered DEF Merging
  <2>2. CASE d = d2
    <3>1. Travelling(a, d, s)
      BY <1>k, <2>2 DEF Fit, ListsFit
    <3>2. Travelling(a2, d2, s)'
      BY <1>k, <2>1, <2>2, <3>1 DEF Travelling, Ahead, lists
    <3> QED
      BY <1>k, <3>2 DEF ListsFit
  <2>3. CASE d = "none"
    <3>1. Known = {}
      BY <1>2, <2>3 DEF Fit, ListsFit
    <3>2. Travelling(a2, d2, s)'
      BY <1>2, <2>1, <2>3, <3>1 DEF Travelling, Ahead, lists, Known
    <3> QED
      BY <1>k, <3>2 DEF ListsFit
  <2> QED
    BY <2>2, <2>3
<1> QED
  BY <1>4, <1>5, <1>6, <1>7 DEF Fit, Agree

LEMMA AskingIsAlone ==
    ASSUME TypeOK, NEW a \in Asking, NEW d, NEW s, RequestsApart(a, d, s), QueueFits(a, d, s), Untaken
    PROVE  pressing = "none" /\ (\A c \in FloorButtons : tokens'[c] = 0) /\ ~IsPending(Requesting)
<1>1. \A c \in FloorButtons : tokens[c] \in Nat
  BY PlacesOfTheCabin DEF TypeOK
<1>2. ~IsPending(Requesting)
  BY DEF QueueFits, IsPending
<1> QED
  BY <1>1, <1>2 DEF RequestsApart, Untaken

LEMMA AssignsFits ==
    ASSUME TypeOK, NEW a \in Activities, NEW d \in Directions \cup {"none"}, NEW s \in Stages,
           Fit(a, d, s), UNCHANGED <<currentFloor, lists, toAddToDestination, pressing>>, FloorsExist,
           a \in Asking \ {"D3"}, NEW a2 \in Requesting,
           /\ toAddToDestination > currentFloor /\ a2 = "AddToTravel" => d = "GoingUp_"
           /\ toAddToDestination < currentFloor /\ a2 = "AddToTravel" => d = "GoingDown_"
           /\ toAddToDestination > currentFloor /\ a2 = "AddToNextTravel" => d = "GoingDown_"
           /\ toAddToDestination < currentFloor /\ a2 = "AddToNextTravel" => d = "GoingUp_",
           Enters(a2), Untaken
    PROVE  Fit(a2, d, s)'
<1>1. d \in Directions
  BY DEF Fit, Agree, Asking, Directions
<1>2. toAddToDestination # currentFloor
  BY DEF Fit, RequestsApart
<1>3. toAddToDestination \in Int /\ currentFloor \in Int
  BY ElevatorAssumption DEF FloorsExist, Floors
<1>4. toAddToDestination > currentFloor \/ toAddToDestination < currentFloor
  BY <1>2, <1>3
<1>5. /\ a2 = "AddToTravel" => Ahead(d, toAddToDestination)
      /\ a2 = "AddToNextTravel" => ~Ahead(d, toAddToDestination)
  BY <1>3, <1>4 DEF Ahead, Up, Down
<1> QED
  BY <1>1, <1>2, <1>5, AskingIsAlone, RequestEnters DEF Fit

LEMMA LetsWaitFits ==
    ASSUME TypeOK, NEW a \in Activities, NEW d \in Directions \cup {"none"}, NEW s \in Stages,
           Fit(a, d, s), UNCHANGED <<currentFloor, lists, toAddToDestination, pressing>>,
           a = "Ready", NEW a2 \in {"WaitToGoUp", "WaitToGoDown"},
           d = IF a2 = "WaitToGoUp" THEN "GoingDown_" ELSE "GoingUp_",
           Enters(a2), NEW b \in FloorButtons, Taken(b)
    PROVE  Fit(a2, d, s)'
<1>1. d \in Directions /\ a2 \in Requesting /\ a2 # "AddToTravel" /\ a2 # "AddToNextTravel"
  BY DEF Directions, Requesting
<1>2. pressing' = "none" /\ (\A c \in FloorButtons : tokens'[c] = 0) /\ ~IsPending(Requesting)
  BY RequestTaken DEF Fit
<1> QED
  BY <1>1, <1>2, RequestEnters

LEMMA SetsOutFits ==
    ASSUME TypeOK, NEW a \in Activities, NEW d \in Directions \cup {"none"}, NEW s \in Stages,
           Fit(a, d, s), UNCHANGED <<currentFloor, lists, toAddToDestination, pressing>>,
           a = "D3", NEW d2 \in {"GoingUp", "GoingDown"}, Ahead(d2, toAddToDestination),
           Enters("AddToTravel"), Untaken
    PROVE  Fit("AddToTravel", d2, s)'
<1>1. d = "none" /\ a \in Asking /\ d2 \in Directions /\ "AddToTravel" \in Requesting
  BY DEF Fit, Agree, Asking, Directions, Requesting
<1> QED
  BY <1>1, AskingIsAlone, RequestEnters DEF Fit

LEMMA IsAssignedFits ==
    ASSUME TypeOK, NEW a \in Activities, NEW d \in Directions \cup {"none"}, NEW s \in Stages,
           Fit(a, d, s), UNCHANGED <<currentFloor, lists, toAddToDestination, pressing>>,
           IsAssigned(a, d, s)
    PROVE  Fit("Ready", d, s)'
<1>1. a \in Requesting /\ jobs' = jobs /\ Untaken
  BY DEF IsAssigned
<1>k. /\ "Ready" \notin Turning \cup Swapping \cup Choosing \cup Merging \cup Counting \cup Removing \cup Requesting \cup Asking
      /\ a \notin Turning \cup Swapping \cup Choosing \cup Merging \cup Counting \cup Removing \cup Asking
  BY <1>1 DEF Turning, Counting, Removing, Asking, Requesting, Swapping, Choosing, Merging, ChoosingMin, ChoosingMax, Postponing
<1>2. d # "none" /\ s # "turning"
  BY <1>1, <1>k DEF Fit, Agree
<1>4. Agree("Ready", d, s)
  BY <1>k, <1>2 DEF Agree
<1>5. QueueFits("Ready", d, s)'
  BY <1>1, <1>k, <1>2 DEF Fit, QueueFits, Pending, ActionInExecution, lists
<1>6. RequestsApart("Ready", d, s)'
  BY <1>1, <1>k, PendingSame, RequestsKept DEF Fit, Activities
<1>7. ListsFit("Ready", d, s)'
  <2>1. Travelling("Ready", d, s)'
    BY <1>1, <1>2, <1>k, PendingSame DEF Fit, ListsFit, Travelling, Ahead, lists
  <2> QED
    BY <1>k, <1>2, <2>1 DEF ListsFit
<1> QED
  BY <1>4, <1>5, <1>6, <1>7 DEF Fit, Agree

LEMMA SkeletonFits ==
    ASSUME TypeOK, NEW a \in Activities, NEW d \in Directions \cup {"none"}, NEW s \in Stages,
           Fit(a, d, s), UNCHANGED <<currentFloor, lists, toAddToDestination, pressing>>, FloorsExist,
           Skeleton(a, d, s), ~disturbed'
    PROVE  Carried'
<1>s. Stages = {"rest", "moving", "arrived", "processing", "turning"}
      /\ Activities = {"Ready"} \cup Asking \cup Requesting \cup Counting \cup Removing \cup Turning
      /\ "GoingUp_" \in Directions /\ "GoingDown_" \in Directions
      /\ "GoingUp" \in Directions /\ "GoingDown" \in Directions
  BY DEF Stages, Activities, OnEnter, Turning, Counting, Removing, Asking, Requesting, Swapping,
         Choosing, Merging, ChoosingMin, ChoosingMax, Postponing, Directions
<1>1. CASE Idles(a, d, s)
  <2>1. PICK d2 \in Directions \cup {"none"} :
           /\ MarkedAs(a, d2, s)'
           /\ d2 = d \/ (d = "GoingUp" /\ d2 = "GoingUp_") \/ (d = "GoingDown" /\ d2 = "GoingDown_")
    BY <1>1, <1>s DEF Idles
  <2>2. Fit(a, d2, s)'
    BY <1>1, <2>1, IdlesFits DEF Idles
  <2> QED
    BY <2>1, <2>2 DEF Carried
<1>2. CASE Departs(a, d, s)
  BY <1>s, <1>2, DepartsFits DEF Departs, Carried
<1>3. CASE Stops(a, d, s)
  BY <1>s, <1>3, StopsFits DEF Stops, Carried
<1>4. CASE StartsCounting(a, d, s)
  <2>1. PICK a2 \in Counting :
           /\ d = IF a2 = "IncreaseFloor" THEN "GoingUp_" ELSE "GoingDown_"
           /\ MarkedAs(a2, d, s)' /\ Enters(a2) /\ Untaken
    BY <1>4 DEF StartsCounting
  <2>2. Fit(a2, d, s)'
    BY <1>4, <2>1, StartsCountingFits DEF StartsCounting
  <2> QED
    BY <1>s, <2>1, <2>2 DEF Carried
<1>5. CASE PassesFloor(a, d, s)
  BY <1>s, <1>5, PassesFloorFits DEF PassesFloor, Carried
<1>6. CASE StopsAtFloor(a, d, s)
  <2>1. PICK a2 \in Removing :
           /\ a2 = IF a = "IncreaseFloor" THEN "RemoveFromListGU" ELSE "RemoveFromListGD"
           /\ MarkedAs(a2, d, s)' /\ Enters(a2) /\ Untaken
    BY <1>6 DEF StopsAtFloor
  <2>2. Fit(a2, d, s)'
    BY <1>6, <2>1, StopsAtFloorFits DEF StopsAtFloor
  <2> QED
    BY <1>s, <2>1, <2>2 DEF Carried
<1>7. CASE HasStopped(a, d, s)
  BY <1>s, <1>7, HasStoppedFits DEF HasStopped, Carried
<1>8. CASE GoesOn(a, d, s)
  BY <1>s, <1>8, GoesOnFits DEF GoesOn, Carried
<1>9. CASE Turns(a, d, s)
  <2>1. PICK a2 \in Swapping :
           /\ d = IF a2 = "SwapGU" THEN "GoingUp_" ELSE "GoingDown_"
           /\ MarkedAs(a2, "none", "turning")' /\ Enters(a2) /\ Untaken
    BY <1>9 DEF Turns
  <2>2. Fit(a2, "none", "turning")'
    BY <1>9, <2>1, TurnsFits DEF Turns
  <2> QED
    BY <1>s, <2>1, <2>2 DEF Carried, Turning
<1>10. CASE MergesWaiting(a, d, s)
  <2>1. PICK a2 \in Merging \ Postponing :
           (a2 \in Up <=> a \in Up) /\ MarkedAs(a2, d, s)' /\ Enters(a2) /\ Untaken
    BY <1>10 DEF MergesWaiting
  <2>2. Fit(a2, d, s)'
    BY <1>10, <2>1, MergesWaitingFits DEF MergesWaiting
  <2> QED
    BY <1>s, <2>1, <2>2 DEF Carried, Turning
<1>11. CASE LooksForWaiting(a, d, s) \/ LooksFurther(a, d, s)
  <2>1. PICK a2 \in Choosing :
           /\ \/ a \in Swapping /\ a2 \in {"MergeMinGoingUp1", "MergeMaxGoingDown2"}
              \/ a = "MergeMinGoingUp1" /\ a2 = "MergeMaxGoingDown1"
              \/ a = "MergeMaxGoingDown2" /\ a2 = "MergeMinGoingUp2"
           /\ MarkedAs(a2, d, s)' /\ Enters(a2) /\ Untaken
    BY <1>11 DEF LooksForWaiting, LooksFurther, Choosing, ChoosingMin, ChoosingMax
  <2>2. Fit(a2, d, s)'
    BY <1>11, <2>1, LooksForWaitingFits DEF LooksForWaiting, LooksFurther
  <2> QED
    BY <1>s, <2>1, <2>2 DEF Carried, Turning
<1>12. CASE HasMerged(a, d, s)
  <2>1. PICK h \in Directions : h = IF a \in Up THEN "GoingUp" ELSE "GoingDown"
    BY <1>s
  <2>2. Fit("Ready", h, "rest")'
    BY <1>12, <2>1, HasMergedFits DEF HasMerged
  <2> QED
    BY <1>s, <1>12, <2>1, <2>2 DEF HasMerged, Carried
<1>13. CASE ChoosesDirection(a, d, s)
  <2>1. PICK h \in {"GoingUp", "GoingDown"} :
           Sees(a, h) /\ (a \in ChoosingMin <=> h = "GoingDown") /\ MarkedAs("Ready", h, "rest")'
    BY <1>13 DEF ChoosesDirection
  <2>2. Fit("Ready", h, "rest")'
    BY <1>13, <2>1, ChoosesDirectionFits DEF ChoosesDirection
  <2> QED
    BY <1>s, <2>1, <2>2 DEF Carried
<1>14. CASE ChoosesAll(a, d, s)
  <2>1. PICK a2 \in Postponing :
           /\ Sees(a, a2) /\ (a \in ChoosingMin <=> a2 \in Up)
           /\ MarkedAs(a2, d, s)' /\ Enters(a2) /\ Untaken
    BY <1>14 DEF ChoosesAll
  <2>2. Fit(a2, d, s)'
    BY <2>1, ChoosesAllFits
  <2> QED
    BY <1>s, <2>1, <2>2 DEF Carried, Turning, Merging
<1>15. CASE FindsNothing(a, d, s)
  BY <1>s, <1>15, FindsNothingFits DEF FindsNothing, Carried
<1>16. CASE TakesUp(a, d, s)
  <2>1. PICK a2 \in Asking :
           /\ MarkedAs(a2, d, s)'
           /\ \/ a2 = "D3" /\ d = "none"
              \/ a2 \in {"D1", "D4"} /\ d = "GoingUp_"
              \/ a2 \in {"D2", "D5"} /\ d = "GoingDown_"
    BY <1>16 DEF TakesUp, Asking
  <2>2. PICK b \in FloorButtons : Taken(b)
    BY <1>16 DEF TakesUp
  <2>3. Fit(a2, d, s)'
    BY <1>16, <2>1, <2>2, TakesUpFits DEF TakesUp
  <2> QED
    BY <1>s, <2>1, <2>3 DEF Carried
<1>17. CASE Assigns(a, d, s)
  <2>1. PICK a2 \in Requesting :
           /\ /\ toAddToDestination > currentFloor /\ a2 = "AddToTravel" => d = "GoingUp_"
              /\ toAddToDestination < currentFloor /\ a2 = "AddToTravel" => d = "GoingDown_"
              /\ toAddToDestination > currentFloor /\ a2 = "AddToNextTravel" => d = "GoingDown_"
              /\ toAddToDestination < currentFloor /\ a2 = "AddToNextTravel" => d = "GoingUp_"
           /\ MarkedAs(a2, d, s)' /\ Enters(a2) /\ Untaken
    BY <1>17 DEF Assigns
  <2>2. Fit(a2, d, s)'
    BY <1>17, <2>1, AssignsFits DEF Assigns
  <2> QED
    BY <1>s, <2>1, <2>2 DEF Carried
<1>18. CASE LetsWait(a, d, s)
  <2>1. PICK a2 \in {"WaitToGoUp", "WaitToGoDown"} :
           /\ d = IF a2 = "WaitToGoUp" THEN "GoingDown_" ELSE "GoingUp_"
           /\ MarkedAs(a2, d, s)' /\ Enters(a2) /\ \E b \in FloorButtons : Taken(b)
    BY <1>18 DEF LetsWait
  <2>2. Fit(a2, d, s)'
    BY <1>18, <2>1, LetsWaitFits DEF LetsWait
  <2> QED
    BY <1>s, <2>1, <2>2 DEF Carried, Requesting
<1>19. CASE SetsOut(a, d, s)
  <2>1. PICK d2 \in {"GoingUp", "GoingDown"} :
           Ahead(d2, toAddToDestination) /\ MarkedAs("AddToTravel", d2, s)'
    BY <1>19 DEF SetsOut
  <2>2. Fit("AddToTravel", d2, s)'
    BY <1>19, <2>1, SetsOutFits DEF SetsOut
  <2> QED
    BY <1>s, <2>1, <2>2 DEF Carried, Requesting
<1>20. CASE IsAssigned(a, d, s)
  BY <1>s, <1>20, IsAssignedFits DEF IsAssigned, Carried
<1> QED
  BY <1>1, <1>2, <1>3, <1>4, <1>5, <1>6, <1>7, <1>8, <1>9, <1>10, <1>11, <1>12, <1>13, <1>14,
     <1>15, <1>16, <1>17, <1>18, <1>19, <1>20 DEF Skeleton
-----------------------------------------------------------------------------
(***************************************************************************)
(* The actions of the controller.                                          *)
(***************************************************************************)
\* What an executed action leaves in the queue.
LEMMA JobLeaves ==
    ASSUME TypeOK, NEW a \in Activities, NEW d \in Directions \cup {"none"}, NEW s \in Stages,
           Fit(a, d, s), NEW P, Job(P), NEW p, p = Head(jobs)
    PROVE  /\ p \in P /\ p \in OnEnter /\ p = jobs[1] /\ 1 \in 1..Len(jobs)
           /\ Pending(p) /\ \A q : Pending(q)' => Pending(q)
           /\ \A S : IsPending(S)' => IsPending(S)
           /\ \A S : p \in S => IsPending(S)
           /\ IsPending(Removing) => p \in Removing
           /\ IsPending(Merging) => p \in Merging
           /\ a \in Counting \cup Swapping \cup Choosing => Pending(a)
           /\ p \in Counting \cup Swapping \cup Choosing => p = a /\ jobs' = <<>> /\ jobs = <<p>>
           /\ a \in Counting \cup Swapping \cup Choosing => p = a \/ Pending(a)'
           /\ QueueFits(a, d, s)'
<1>1. /\ jobs \in Seq(OnEnter) /\ jobs # <<>> /\ jobs' = Tail(jobs) /\ p \in P
      /\ QueueFits(a, d, s)
  BY DEF Job, TypeOK, Fit
<1>2. /\ p = jobs[1] /\ Len(jobs) \in Nat \ {0} /\ Len(jobs') = Len(jobs) - 1
      /\ \A i \in 1..Len(jobs') : jobs'[i] = jobs[i + 1] /\ i + 1 \in 1..Len(jobs) /\ i + 1 # 1
      /\ p \in OnEnter /\ 1 \in 1..Len(jobs)
  BY <1>1
<1>3. /\ Pending(p) /\ \A q : Pending(q)' => Pending(q)
      /\ \A S : IsPending(S)' => IsPending(S)
      /\ \A S : p \in S => IsPending(S)
  BY <1>1, <1>2 DEF Pending, ActionInExecution, IsPending
<1>4. /\ IsPending(Removing) => p \in Removing
      /\ IsPending(Merging) => p \in Merging
      /\ a \in Counting \cup Swapping \cup Choosing => Pending(a)
  <2>1. IsPending(Removing) => p \in Removing
    BY <1>1, <1>2 DEF QueueFits, IsPending
  <2>2. IsPending(Merging) => p \in Merging
    BY <1>1, <1>2 DEF QueueFits, IsPending
  <2>3. a \in Counting \cup Swapping \cup Choosing => jobs[Len(jobs)] = a
    BY <1>1 DEF QueueFits
  <2>4. Len(jobs) \in 1..Len(jobs)
    BY <1>2
  <2> QED
    BY <2>1, <2>2, <2>3, <2>4 DEF Pending, ActionInExecution
<1>5. p \in Counting \cup Swapping \cup Choosing => p = a /\ jobs' = <<>> /\ jobs = <<p>>
  BY <1>1, <1>2 DEF QueueFits
<1>6. \A i \in 1..Len(jobs') : jobs'[i] \notin Removing /\ jobs'[i] \notin Merging
  BY <1>1, <1>2 DEF QueueFits
<1>7. a \in Counting \cup Swapping \cup Choosing => jobs' = <<>> \/ jobs'[Len(jobs')] = a
  <2>1. a \in Counting \cup Swapping \cup Choosing => jobs[Len(jobs)] = a
    BY <1>1 DEF QueueFits
  <2>2. Len(jobs') = 0 => jobs' = <<>>
    BY <1>1
  <2>3. Len(jobs') # 0 => Len(jobs') \in 1..Len(jobs') /\ Len(jobs') + 1 = Len(jobs)
    BY <1>2
  <2> QED
    BY <1>2, <2>1, <2>2, <2>3
<1>8. \A i \in 1..Len(jobs') :
        /\ jobs'[i] \in Counting \cup Swapping \cup Choosing => jobs'[i] = a /\ i = Len(jobs')
        /\ jobs'[i] = "ProcessedLists" => s = "rest"
        /\ jobs'[i] \in Requesting =>
             /\ a \notin Asking \cup Choosing \cup Merging \cup Removing
             /\ a \in Requesting => a = jobs'[i]
             /\ d = "none" => a \in Swapping /\ jobs'[i] # "AddToTravel"
             /\ \A j \in 1..Len(jobs') : jobs'[j] \in Requesting => j = i
  <2> SUFFICES ASSUME NEW i \in 1..Len(jobs')
               PROVE  /\ jobs'[i] \in Counting \cup Swapping \cup Choosing => jobs'[i] = a /\ i = Len(jobs')
                      /\ jobs'[i] = "ProcessedLists" => s = "rest"
                      /\ jobs'[i] \in Requesting =>
                           /\ a \notin Asking \cup Choosing \cup Merging \cup Removing
                           /\ a \in Requesting => a = jobs'[i]
                           /\ d = "none" => a \in Swapping /\ jobs'[i] # "AddToTravel"
                           /\ \A j \in 1..Len(jobs') : jobs'[j] \in Requesting => j = i
    OBVIOUS
  <2>1. jobs'[i] = jobs[i + 1] /\ i + 1 \in 1..Len(jobs)
    BY <1>2
  <2>2. jobs[i + 1] \in Requesting => \A j \in 1..Len(jobs') : jobs'[j] \in Requesting => j + 1 = i + 1
    BY <1>1, <1>2, <2>1 DEF QueueFits
  <2>3. jobs[i + 1] \in Requesting => \A j \in 1..Len(jobs') : jobs'[j] \in Requesting => j = i
    BY <2>2
  <2>4. jobs[i + 1] \in Counting \cup Swapping \cup Choosing => jobs[i + 1] = a /\ i = Len(jobs')
    <3>1. jobs[i + 1] \in Counting \cup Swapping \cup Choosing => jobs[i + 1] = a /\ i + 1 = Len(jobs)
      BY <1>1, <2>1 DEF QueueFits
    <3>2. i + 1 = Len(jobs) => i = Len(jobs')
      BY <1>2
    <3> QED
      BY <3>1, <3>2
  <2> QED
    BY <1>1, <2>1, <2>3, <2>4 DEF QueueFits
<1>9. QueueFits(a, d, s)'
  BY <1>6, <1>7, <1>8 DEF QueueFits
<1>10. a \in Counting \cup Swapping \cup Choosing => p = a \/ Pending(a)'
  <2>1. a \in Counting \cup Swapping \cup Choosing => jobs[Len(jobs)] = a
    BY <1>1 DEF QueueFits
  <2>2. jobs' = <<>> => Len(jobs) = 1
    BY <1>2
  <2>3. jobs' # <<>> => Len(jobs') \in 1..Len(jobs')
    BY <1>1
  <2> QED
    BY <1>2, <1>7, <2>1, <2>2, <2>3 DEF Pending, ActionInExecution
<1> QED
  BY <1>1, <1>2, <1>3, <1>4, <1>5, <1>9, <1>10

\* An action changes no request, and the floor only in an activity that asks nothing.
LEMMA JobKeepsRequests ==
    ASSUME TypeOK, NEW a \in Activities, NEW d \in Directions \cup {"none"}, NEW s \in Stages,
           Fit(a, d, s), NEW P, Job(P), currentFloor' = currentFloor \/ a \notin Asking
    PROVE  RequestsApart(a, d, s)'
<1>1. \A S : IsPending(S)' => IsPending(S)
  BY JobLeaves
<1>2. tokens' = tokens /\ pressing' = pressing /\ toAddToDestination' = toAddToDestination
  BY DEF Job, netVars, userVars
<1> QED
  BY <1>1, <1>2 DEF Fit, RequestsApart

LEMMA AddDestination1Fits ==
    ASSUME TypeOK, NEW a \in Activities, NEW d \in Directions \cup {"none"}, NEW s \in Stages,
           Fit(a, d, s), FloorsExist, AddDestination1
    PROVE  ListsFit(a, d, s)' /\ FloorsExist'
<1>1. PICK p : p = Head(jobs)
  OBVIOUS
<1>2. Job({"AddToTravel"}) /\ p = "AddToTravel" /\ p \in Requesting
  BY <1>1, JobLeaves DEF AddDestination1, Requesting
<1>3. /\ a \notin Asking \cup Choosing \cup Merging \cup Removing /\ d # "none" /\ a \notin Turning
      /\ Ahead(d, toAddToDestination)
  <2>1. a \notin Asking \cup Choosing \cup Merging \cup Removing /\ d # "none" /\ a \notin Turning
    BY <1>1, <1>2, JobLeaves DEF Fit, QueueFits, Agree
  <2>2. Pending("AddToTravel")
    BY <1>1, <1>2, JobLeaves
  <2> QED
    BY <2>1, <2>2 DEF Fit, ListsFit, Travelling
<1>4. /\ ~IsPending(Removing) /\ ~IsPending(Removing)' /\ ~IsPending(Postponing) /\ ~IsPending(Postponing)'
      /\ a \in Counting => Pending(a)
      /\ Pending("AddToTravel")' => Pending("AddToTravel")
      /\ Pending("AddToNextTravel")' => Pending("AddToNextTravel")
  <2>1. ~IsPending(Removing) /\ ~IsPending(Merging)
    BY <1>1, <1>2, JobLeaves, KindsApart
  <2>2. ~IsPending(Postponing)
    BY <2>1 DEF IsPending, Merging
  <2> QED
    BY <1>1, <1>2, <2>1, <2>2, JobLeaves
<1>5. /\ destinations' = destinations \cup {toAddToDestination} /\ currentFloor' = currentFloor
      /\ nextTravelDestinations' \subseteq nextTravelDestinations /\ toAddToDestination' = toAddToDestination
      /\ waitingToGoUp' = waitingToGoUp /\ waitingToGoDown' = waitingToGoDown
  BY DEF AddDestination1, Job, userVars
<1>6. Travelling(a, d, s)
  BY <1>3 DEF Fit, ListsFit
<1>7. \A f \in destinations : Ahead(d, f)
  BY <1>4, <1>6 DEF Travelling
<1>8. Travelling(a, d, s)'
  BY <1>3, <1>4, <1>5, <1>6, <1>7 DEF Travelling, Ahead
<1>9. FloorsExist'
  BY <1>5 DEF FloorsExist, Known
<1> QED
  BY <1>3, <1>8, <1>9, KindsApart DEF ListsFit

LEMMA AddDestination2Fits ==
    ASSUME TypeOK, NEW a \in Activities, NEW d \in Directions \cup {"none"}, NEW s \in Stages,
           Fit(a, d, s), FloorsExist, AddDestination2
    PROVE  ListsFit(a, d, s)' /\ FloorsExist'
<1>1. PICK p : p = Head(jobs)
  OBVIOUS
<1>2. Job({"AddToNextTravel"}) /\ p = "AddToNextTravel" /\ p \in Requesting
  BY <1>1, JobLeaves DEF AddDestination2, Requesting
<1>3. /\ a \notin Asking \cup Choosing \cup Merging \cup Removing
      /\ d = "none" => a \in Swapping
      /\ a \in Swapping => d = "none"
      /\ Pending("AddToNextTravel")
  BY <1>1, <1>2, JobLeaves, KindsApart DEF Fit, QueueFits, Agree
<1>4. /\ ~IsPending(Removing) /\ ~IsPending(Removing)' /\ ~IsPending(Postponing) /\ ~IsPending(Postponing)'
      /\ a \in Counting \cup Swapping => Pending(a)
      /\ Pending("AddToTravel")' => Pending("AddToTravel")
      /\ Pending("AddToNextTravel")' => Pending("AddToNextTravel")
      /\ a \in Swapping => Pending(a)'
  <2>1. ~IsPending(Removing) /\ ~IsPending(Merging)
    BY <1>1, <1>2, JobLeaves, KindsApart
  <2>2. ~IsPending(Postponing)
    BY <2>1 DEF IsPending, Merging
  <2>3. a \in Swapping => Pending(a)'
    BY <1>1, <1>2, KindsApart, JobLeaves
  <2> QED
    BY <1>1, <1>2, <2>1, <2>2, <2>3, JobLeaves
<1>5. /\ destinations' = destinations /\ currentFloor' = currentFloor /\ toAddToDestination' = toAddToDestination
      /\ \/ nextTravelDestinations' = nextTravelDestinations
         \/ nextTravelDestinations' = nextTravelDestinations \cup {toAddToDestination}
      /\ waitingToGoUp' \subseteq waitingToGoUp /\ waitingToGoDown' \subseteq waitingToGoDown
  BY DEF AddDestination2, Job, userVars, lists
<1>6. d # "none" => Travelling(a, d, s)'
  BY <1>3, <1>4, <1>5 DEF Fit, ListsFit, Travelling, Ahead
<1>7. a \in Swapping => Swaps(a)'
  BY <1>3, <1>4, <1>5 DEF Fit, ListsFit, Swaps, Ahead
<1>8. FloorsExist'
  BY <1>5 DEF FloorsExist, Known
<1>9. d = "none" => s = "turning"
  BY <1>3, KindsApart DEF Fit, Agree
<1> QED
  BY <1>3, <1>6, <1>7, <1>8, <1>9 DEF ListsFit

LEMMA AddWaitingFits ==
    ASSUME TypeOK, NEW a \in Activities, NEW d \in Directions \cup {"none"}, NEW s \in Stages,
           Fit(a, d, s), FloorsExist, AddWaitingToGoUp \/ AddWaitingToGoDown
    PROVE  ListsFit(a, d, s)' /\ FloorsExist'
<1>0. PICK P : Job(P) /\ P \subseteq Requesting
  BY DEF AddWaitingToGoUp, AddWaitingToGoDown, Requesting
<1>1. PICK p : p = Head(jobs)
  OBVIOUS
<1>2. p \in Requesting
  BY <1>0, <1>1, JobLeaves
<1>3. /\ a \notin Asking \cup Choosing \cup Merging \cup Removing
      /\ d = "none" => a \in Swapping
      /\ a \in Swapping => d = "none"
  BY <1>0, <1>1, <1>2, JobLeaves, KindsApart DEF Fit, QueueFits, Agree
<1>4. /\ ~IsPending(Removing) /\ ~IsPending(Removing)' /\ ~IsPending(Postponing) /\ ~IsPending(Postponing)'
      /\ a \in Counting \cup Swapping => Pending(a)
      /\ Pending("AddToTravel")' => Pending("AddToTravel")
      /\ Pending("AddToNextTravel")' => Pending("AddToNextTravel")
      /\ a \in Swapping => Pending(a)'
  <2>1. ~IsPending(Removing) /\ ~IsPending(Merging)
    BY <1>0, <1>1, <1>2, JobLeaves, KindsApart
  <2>2. ~IsPending(Postponing)
    BY <2>1 DEF IsPending, Merging
  <2>3. a \in Swapping => Pending(a)'
    BY <1>0, <1>1, <1>2, KindsApart, JobLeaves
  <2> QED
    BY <1>0, <1>1, <1>2, <2>1, <2>2, <2>3, JobLeaves
<1>5. /\ destinations' = destinations /\ currentFloor' = currentFloor /\ toAddToDestination' = toAddToDestination
      /\ nextTravelDestinations' = nextTravelDestinations
      /\ waitingToGoUp' \subseteq waitingToGoUp \cup {toAddToDestination}
      /\ waitingToGoDown' \subseteq waitingToGoDown \cup {toAddToDestination}
  BY DEF AddWaitingToGoUp, AddWaitingToGoDown, Job, userVars
<1>6. d # "none" => Travelling(a, d, s)'
  BY <1>3, <1>4, <1>5 DEF Fit, ListsFit, Travelling, Ahead
<1>7. a \in Swapping => Swaps(a)'
  BY <1>3, <1>4, <1>5 DEF Fit, ListsFit, Swaps, Ahead
<1>8. FloorsExist'
  BY <1>5 DEF FloorsExist, Known
<1>9. d = "none" => s = "turning"
  BY <1>3, KindsApart DEF Fit, Agree
<1> QED
  BY <1>3, <1>6, <1>7, <1>8, <1>9 DEF ListsFit

LEMMA RemoveDestinationFits ==
    ASSUME TypeOK, NEW a \in Activities, NEW d \in Directions \cup {"none"}, NEW s \in Stages,
           Fit(a, d, s), FloorsExist, RemoveDestinationGU \/ RemoveDestinationGD
    PROVE  ListsFit(a, d, s)' /\ FloorsExist'
<1>0. PICK P : Job(P) /\ P \subseteq Removing
  BY DEF RemoveDestinationGU, RemoveDestinationGD, Removing
<1>1. PICK p : p = Head(jobs)
  OBVIOUS
<1>2. p \in Removing
  BY <1>0, <1>1, JobLeaves
<1>3. currentFloor \in destinations /\ (p = a \/ s \in {"arrived", "processing", "rest"})
  BY <1>0, <1>1, <1>2, JobLeaves DEF Fit, QueueFits
<1>4. a \notin Turning /\ s # "turning" /\ d # "none" /\ (s = "moving" => a \in Removing)
  <2>1. a \notin Turning /\ s # "turning"
    BY <1>2, <1>3, KindsApart DEF Fit, Agree
  <2>2. d # "none"
    BY <1>3, <2>1 DEF Fit, ListsFit, Known
  <2> QED
    BY <1>2, <1>3, <2>1, <2>2
<1>5. /\ ~IsPending(Postponing) /\ ~IsPending(Postponing)'
      /\ Pending("AddToTravel")' => Pending("AddToTravel")
      /\ Pending("AddToNextTravel")' => Pending("AddToNextTravel")
  <2>1. ~IsPending(Merging)
    BY <1>0, <1>1, <1>2, JobLeaves, KindsApart
  <2>2. ~IsPending(Postponing)
    BY <2>1 DEF IsPending, Merging
  <2> QED
    BY <1>0, <1>1, <2>2, JobLeaves
<1>6. /\ destinations' = destinations \ {currentFloor} /\ currentFloor' = currentFloor
      /\ toAddToDestination' = toAddToDestination /\ nextTravelDestinations' = nextTravelDestinations
      /\ waitingToGoUp' \subseteq waitingToGoUp /\ waitingToGoDown' \subseteq waitingToGoDown
  BY DEF RemoveDestinationGU, RemoveDestinationGD, Job, userVars
<1>7. Travelling(a, d, s)
  BY <1>4 DEF Fit, ListsFit
<1>8. \A n \in nextTravelDestinations : ~Ahead(d, n) \/ \E f \in destinations' : AsFar(d, f, n)
  <2>1. currentFloor \in Int /\ destinations \subseteq Int /\ nextTravelDestinations \subseteq Int
    BY ElevatorAssumption DEF FloorsExist, Known, Floors
  <2>2. \A n \in nextTravelDestinations : Ahead(d, n) => ~AsFar(d, currentFloor, n)
    BY <2>1 DEF Ahead, AsFar, Up, Down
  <2> QED
    BY <1>5, <1>6, <1>7, <2>2 DEF Travelling
<1>9. Travelling(a, d, s)'
  BY <1>4, <1>5, <1>6, <1>7, <1>8 DEF Travelling, Ahead
<1>10. FloorsExist'
  BY <1>6 DEF FloorsExist, Known
<1> QED
  BY <1>4, <1>9, <1>10, KindsApart DEF ListsFit

LEMMA RotateListsFits ==
    ASSUME TypeOK, NEW a \in Activities, NEW d \in Directions \cup {"none"}, NEW s \in Stages,
           Fit(a, d, s), FloorsExist, RotateLists
    PROVE  ListsFit(a, d, s)' /\ FloorsExist'
<1>0. Job({"SwapGD", "SwapGU"})
  BY DEF RotateLists
<1>1. PICK p : p = Head(jobs)
  OBVIOUS
<1>2. p = a /\ a \in Swapping /\ jobs' = <<>> /\ Pending(a)
  BY <1>0, <1>1, JobLeaves DEF Swapping
<1>3. s = "turning" /\ d = "none" /\ a \notin Choosing \cup Merging
  BY <1>2, KindsApart DEF Fit, Agree
<1>4. /\ destinations' = nextTravelDestinations \ {currentFloor} /\ nextTravelDestinations' = destinations
      /\ currentFloor' = currentFloor /\ toAddToDestination' = toAddToDestination
      /\ waitingToGoUp' = waitingToGoUp /\ waitingToGoDown' = waitingToGoDown
  BY DEF RotateLists, Job, userVars
<1>5. Swaps(a)'
  BY <1>2, <1>4 DEF Fit, ListsFit, Swaps, Ahead, Pending, ActionInExecution
<1>6. FloorsExist'
  BY <1>4 DEF FloorsExist, Known
<1> QED
  BY <1>2, <1>3, <1>5, <1>6 DEF ListsFit

\* A floor is counted on the way to all the destinations there are.
LEMMA CountsTowards ==
    ASSUME TypeOK, NEW a \in Activities, NEW d \in Directions \cup {"none"}, NEW s \in Stages,
           Fit(a, d, s), IncreaseFloor \/ DecreaseFloor
    PROVE  /\ a \in Counting /\ Pending(a) /\ jobs' = <<>> /\ jobs = <<a>>
           /\ d # "none" /\ s = "moving" /\ Travelling(a, d, s)
           /\ (\A f \in destinations : Ahead(d, f)) /\ destinations # {}
           /\ IncreaseFloor => d = "GoingUp_" /\ currentFloor' = currentFloor + 1
           /\ DecreaseFloor => d = "GoingDown_" /\ currentFloor' = currentFloor - 1
<1>0. PICK P : Job(P) /\ P \subseteq Counting
  BY DEF IncreaseFloor, DecreaseFloor, Counting
<1>1. PICK p : p = Head(jobs)
  OBVIOUS
<1>2. p \in Counting /\ p = a /\ Pending(a) /\ jobs' = <<>> /\ jobs = <<a>>
  BY <1>0, <1>1, JobLeaves
<1>3. d # "none" /\ s = "moving" /\ Travelling(a, d, s) /\ a \notin Removing
  <2>1. d # "none" /\ s = "moving"
    BY <1>2, KindsApart DEF Fit, Agree, Counting
  <2> QED
    BY <1>2, <2>1, KindsApart DEF Fit, ListsFit
<1>4. (\A f \in destinations : Ahead(d, f)) /\ destinations # {}
  <2>1. ~IsPending(Removing)
    BY <1>0, <1>1, <1>2, KindsApart, JobLeaves
  <2> QED
    BY <1>2, <1>3, <2>1 DEF Travelling
<1>5. IncreaseFloor => a = "IncreaseFloor"
  BY <1>1, <1>2, JobLeaves DEF IncreaseFloor
<1>6. DecreaseFloor => a = "DecreaseFloor"
  BY <1>1, <1>2, JobLeaves DEF DecreaseFloor
<1>7. /\ IncreaseFloor => d = "GoingUp_" /\ currentFloor' = currentFloor + 1
      /\ DecreaseFloor => d = "GoingDown_" /\ currentFloor' = currentFloor - 1
  BY <1>5, <1>6 DEF Fit, Agree, IncreaseFloor, DecreaseFloor
<1> QED
  BY <1>2, <1>3, <1>4, <1>7

LEMMA CountsFloorsFits ==
    ASSUME TypeOK, NEW a \in Activities, NEW d \in Directions \cup {"none"}, NEW s \in Stages,
           Fit(a, d, s), FloorsExist, IncreaseFloor \/ DecreaseFloor
    PROVE  ListsFit(a, d, s)' /\ FloorsExist' /\ a \notin Asking
<1>1. /\ a \in Counting /\ Pending(a) /\ jobs' = <<>> /\ jobs = <<a>>
      /\ d # "none" /\ s = "moving" /\ Travelling(a, d, s)
      /\ (\A f \in destinations : Ahead(d, f)) /\ destinations # {}
  BY CountsTowards
<1>2. /\ \/ d = "GoingUp_" /\ currentFloor' = currentFloor + 1
         \/ d = "GoingDown_" /\ currentFloor' = currentFloor - 1
      /\ destinations' = destinations /\ nextTravelDestinations' = nextTravelDestinations
      /\ waitingToGoUp' = waitingToGoUp /\ waitingToGoDown' = waitingToGoDown
      /\ toAddToDestination' = toAddToDestination
  BY CountsTowards DEF IncreaseFloor, DecreaseFloor, Job, userVars, lists
<1>3. /\ currentFloor \in Int /\ destinations \subseteq Int /\ nextTravelDestinations \subseteq Int
      /\ \A f \in Int : f \in Floors <=> 0 <= f /\ f <= TopFloor
      /\ destinations \subseteq Floors /\ currentFloor \in Floors /\ TopFloor \in Int
  BY ElevatorAssumption DEF FloorsExist, Known, Floors
<1>4. /\ ~IsPending(Postponing) /\ ~IsPending(Postponing)' /\ ~Pending(a)'
      /\ ~Pending("AddToTravel")' /\ ~Pending("AddToNextTravel")'
  <2>1. a \notin Postponing
    BY <1>1, KindsApart
  <2> QED
    BY <1>1, <2>1 DEF IsPending, Pending, ActionInExecution
<1>5. \A f \in destinations : Ahead(d, f)' \/ f = currentFloor'
  BY <1>1, <1>2, <1>3 DEF Ahead, Up, Down
<1>6. \A n \in nextTravelDestinations : ~Ahead(d, n) => ~Ahead(d, n)'
  BY <1>2, <1>3 DEF Ahead, Up, Down
<1>7. Travelling(a, d, s)'
  BY <1>1, <1>2, <1>4, <1>5, <1>6 DEF Travelling
<1>8. currentFloor' \in Floors
  <2>1. PICK f \in destinations : Ahead(d, f)
    BY <1>1
  <2> QED
    BY <1>2, <1>3, <2>1 DEF Ahead, Up, Down
<1>9. FloorsExist'
  BY <1>2, <1>8 DEF FloorsExist, Known, Floors
<1> QED
  BY <1>1, <1>7, <1>9, KindsApart DEF ListsFit

\* A list that fits a merging action fits the direction it leads to.
LEMMA MergesWaitingToGoDownFits ==
    ASSUME TypeOK, NEW a \in Activities, NEW d \in Directions \cup {"none"}, NEW s \in Stages,
           Fit(a, d, s), FloorsExist, MergeGoingUpGTCurrent \/ MergeGoingDownSTCurrent
    PROVE  ListsFit(a, d, s)' /\ FloorsExist'
<1>1. PICK p : p = Head(jobs)
  OBVIOUS
<1>0. PICK P : Job(P) /\ P \subseteq Merging \ Postponing
  BY DEF MergeGoingUpGTCurrent, MergeGoingDownSTCurrent, Merging, Postponing
<1>2. /\ p \in Merging /\ p = jobs[1] /\ 1 \in 1..Len(jobs) /\ p \notin Postponing
      /\ MergeGoingUpGTCurrent => p = "MergeGoingUpGTCurrent"
      /\ MergeGoingDownSTCurrent => p = "MergeGoingDownSTCurrent"
  BY <1>0, <1>1, JobLeaves DEF MergeGoingUpGTCurrent, MergeGoingDownSTCurrent
<1>3. /\ p = a \/ s = "rest"
      /\ p = "MergeGoingUpGTCurrent" => a = p \/ d \in Up
      /\ p = "MergeGoingDownSTCurrent" => a = p \/ d \in Down
  BY <1>2 DEF Fit, QueueFits
<1>4. /\ ~IsPending(Removing) /\ ~IsPending(Removing)'
      /\ ~IsPending(Postponing) /\ ~IsPending(Postponing)'
      /\ Pending("AddToTravel")' => Pending("AddToTravel")
      /\ Pending("AddToNextTravel")' => Pending("AddToNextTravel")
  <2>1. ~IsPending(Removing) /\ (\A S : IsPending(S)' => IsPending(S)) /\ (\A q : Pending(q)' => Pending(q))
    BY <1>0, <1>1, <1>2, KindsApart, JobLeaves
  <2>2. ~IsPending(Postponing)
    BY <1>2, KindsApart DEF Fit, QueueFits, IsPending
  <2> QED
    BY <2>1, <2>2
<1>5. PICK floors :
        /\ floors \subseteq waitingToGoDown
        /\ \A f \in floors : IF p = "MergeGoingUpGTCurrent" THEN f > currentFloor ELSE f < currentFloor
        /\ destinations' = (destinations \cup floors) \ {currentFloor}
        /\ currentFloor' = currentFloor /\ toAddToDestination' = toAddToDestination
        /\ nextTravelDestinations' = nextTravelDestinations
        /\ waitingToGoUp' = waitingToGoUp /\ waitingToGoDown' \subseteq waitingToGoDown
  BY <1>2 DEF MergeGoingUpGTCurrent, MergeGoingDownSTCurrent, MergeToDestinations, Job, userVars
<1>6. FloorsExist'
  BY <1>5 DEF FloorsExist, Known
<1>7. CASE a = p
  <2>1. \A f \in floors : Ahead(a, f)
    BY <1>2, <1>5, <1>7 DEF Ahead, Up, Down, Merging, Postponing
  <2>2. Merges(a)'
    BY <1>2, <1>5, <1>7, <2>1 DEF Fit, ListsFit, Merges, Ahead
  <2>3. s = "turning" /\ d = "none" /\ a \notin Swapping \cup Choosing
    BY <1>2, <1>7, KindsApart DEF Fit, Agree
  <2> QED
    BY <1>2, <1>6, <1>7, <2>2, <2>3 DEF ListsFit
<1>8. CASE a # p
  <2>1. s = "rest" /\ d # "none" /\ a \notin Turning \cup Counting
    <3>1. s = "rest" /\ a \notin Turning \cup Counting
      BY <1>3, <1>8 DEF Fit, Agree
    <3>2. d # "none"
      BY <1>2, <1>3, <1>8 DEF Merging, Postponing, Up, Down
    <3> QED
      BY <3>1, <3>2
  <2>2. Travelling(a, d, s)
    BY <2>1 DEF Fit, ListsFit
  <2>3. \A f \in destinations : Ahead(d, f)
    BY <1>4, <2>1, <2>2 DEF Travelling
  <2>4. \A f \in floors : Ahead(d, f)
    BY <1>2, <1>3, <1>5, <1>8 DEF Ahead, Up, Down, Merging, Postponing
  <2>5. currentFloor \notin destinations \cup floors
    <3>1. ~Ahead(d, currentFloor)
      BY ElevatorAssumption DEF FloorsExist, Floors, Ahead
    <3> QED
      BY <2>3, <2>4, <3>1
  <2>6. Travelling(a, d, s)'
    BY <1>4, <1>5, <2>1, <2>2, <2>3, <2>4, <2>5 DEF Travelling, Ahead
  <2> QED
    BY <1>6, <2>1, <2>6, KindsApart DEF ListsFit
<1> QED
  BY <1>7, <1>8

LEMMA MergesFirstFits ==
    ASSUME TypeOK, NEW a \in Activities, NEW d \in Directions \cup {"none"}, NEW s \in Stages,
           Fit(a, d, s), FloorsExist, MergeMinGoingUp \/ MergeMaxGoingDown
    PROVE  ListsFit(a, d, s)' /\ FloorsExist'
<1>0. PICK P : Job(P) /\ P \subseteq Choosing
  BY DEF MergeMinGoingUp, MergeMaxGoingDown, Choosing, ChoosingMin, ChoosingMax
<1>1. PICK p : p = Head(jobs)
  OBVIOUS
<1>2. p = a /\ a \in Choosing /\ jobs' = <<>> /\ Pending(a) /\ ~Pending(a)'
  <2>1. p = a /\ a \in Choosing /\ jobs' = <<>> /\ Pending(a)
    BY <1>0, <1>1, JobLeaves
  <2> QED
    BY <2>1 DEF Pending, ActionInExecution
<1>3. s = "turning" /\ d = "none" /\ a \notin Swapping \cup Merging
  BY <1>2, KindsApart DEF Fit, Agree
<1>4. Chooses(a) /\ destinations = {} /\ nextTravelDestinations = {}
  BY <1>2 DEF Fit, ListsFit, Chooses
<1>5. /\ MergeMinGoingUp => a \in ChoosingMin /\ a \notin ChoosingMax
      /\ MergeMaxGoingDown => a \in ChoosingMax /\ a \notin ChoosingMin
  BY <1>1, <1>2, JobLeaves DEF MergeMinGoingUp, MergeMaxGoingDown, ChoosingMin, ChoosingMax
<1>6. waitingToGoUp \subseteq Floors /\ waitingToGoDown \subseteq Floors
  BY DEF FloorsExist, Known
<1>7. toAddToDestination' = toAddToDestination
  BY DEF MergeMinGoingUp, MergeMaxGoingDown, Job, userVars
<1>8. CASE MergeMinGoingUp
  <2>1. CASE waitingToGoUp = {}
    BY <1>2, <1>3, <1>4, <1>5, <1>7, <1>8, <2>1
       DEF MergeMinGoingUp, lists, ListsFit, Chooses, FloorsExist, Known
  <2>2. CASE waitingToGoUp # {}
    <3>1. PICK m : m = Min(waitingToGoUp)
      OBVIOUS
    <3>2. m \in waitingToGoUp /\ \A f \in waitingToGoUp : f >= m
      BY <1>6, <2>2, <3>1, LowestAndHighest
    <3>3. /\ destinations' = {m} /\ nextTravelDestinations' = waitingToGoUp \ {m}
          /\ waitingToGoUp' = {} /\ waitingToGoDown' = waitingToGoDown /\ currentFloor' = currentFloor
      BY <1>4, <1>8, <2>2, <3>1 DEF MergeMinGoingUp
    <3>4. Chooses(a)'
      BY <1>2, <1>4, <1>5, <1>6, <1>8, <3>2, <3>3 DEF Chooses
    <3>5. FloorsExist'
      BY <1>7, <3>2, <3>3 DEF FloorsExist, Known
    <3> QED
      BY <1>3, <3>4, <3>5 DEF ListsFit
  <2> QED
    BY <2>1, <2>2
<1>9. CASE MergeMaxGoingDown
  <2>1. CASE waitingToGoDown = {}
    BY <1>2, <1>3, <1>4, <1>5, <1>7, <1>9, <2>1
       DEF MergeMaxGoingDown, lists, ListsFit, Chooses, FloorsExist, Known
  <2>2. CASE waitingToGoDown # {}
    <3>1. PICK m : m = Max(waitingToGoDown)
      OBVIOUS
    <3>2. m \in waitingToGoDown /\ \A f \in waitingToGoDown : f <= m
      BY <1>6, <2>2, <3>1, LowestAndHighest
    <3>3. /\ destinations' = {m} /\ nextTravelDestinations' = waitingToGoDown \ {m}
          /\ waitingToGoDown' = {} /\ waitingToGoUp' = waitingToGoUp /\ currentFloor' = currentFloor
      BY <1>4, <1>9, <2>2, <3>1 DEF MergeMaxGoingDown
    <3>4. Chooses(a)'
      BY <1>2, <1>4, <1>5, <1>6, <1>9, <3>2, <3>3 DEF Chooses
    <3>5. FloorsExist'
      BY <1>7, <3>2, <3>3 DEF FloorsExist, Known
    <3> QED
      BY <1>3, <3>4, <3>5 DEF ListsFit
  <2> QED
    BY <2>1, <2>2
<1> QED
  BY <1>8, <1>9

LEMMA MergesPostponedFits ==
    ASSUME TypeOK, NEW a \in Activities, NEW d \in Directions \cup {"none"}, NEW s \in Stages,
           Fit(a, d, s), FloorsExist, MergePostponedToCurrent
    PROVE  ListsFit(a, d, s)' /\ FloorsExist'
<1>1. PICK p : p = Head(jobs)
  OBVIOUS
<1>0. Job(Postponing)
  BY DEF MergePostponedToCurrent, Postponing
<1>2. p \in Postponing /\ p \in Merging /\ p = jobs[1] /\ 1 \in 1..Len(jobs) /\ IsPending(Postponing) /\ Pending(p)
  BY <1>0, <1>1, JobLeaves, KindsApart
<1>3. p = a \/ s = "rest"
  BY <1>2 DEF Fit, QueueFits
<1>4. /\ ~IsPending(Removing) /\ ~IsPending(Removing)'
      /\ Pending("AddToTravel")' => Pending("AddToTravel")
      /\ Pending("AddToNextTravel")' => Pending("AddToNextTravel")
  BY <1>0, <1>1, <1>2, KindsApart, JobLeaves
<1>5. /\ destinations' = (destinations \cup nextTravelDestinations) \ {currentFloor}
      /\ currentFloor' = currentFloor /\ toAddToDestination' = toAddToDestination
      /\ nextTravelDestinations' = {}
      /\ waitingToGoUp' = waitingToGoUp /\ waitingToGoDown' = waitingToGoDown
  BY DEF MergePostponedToCurrent, Job, userVars
<1>6. FloorsExist'
  BY <1>5 DEF FloorsExist, Known
<1>7. CASE a = p
  <2>1. Merges(a)'
    BY <1>2, <1>5, <1>7 DEF Fit, ListsFit, Merges, Ahead
  <2>2. s = "turning" /\ d = "none" /\ a \notin Swapping \cup Choosing
    BY <1>2, <1>7, KindsApart DEF Fit, Agree
  <2> QED
    BY <1>6, <2>1, <2>2 DEF ListsFit
<1>8. CASE a # p
  <2>1. s = "rest" /\ a \notin Turning \cup Counting
    BY <1>2, <1>3, <1>8, KindsApart DEF Fit, Agree
  <2>2. CASE d = "none"
    BY <1>5, <1>6, <2>1, <2>2, KindsApart DEF Fit, ListsFit, Known
  <2>3. CASE d # "none"
    <3>1. Travelling(a, d, s)
      BY <2>3 DEF Fit, ListsFit
    <3>2. Travelling(a, d, s)'
      BY <1>2, <1>4, <1>5, <2>1, <3>1 DEF Travelling, Ahead
    <3> QED
      BY <1>6, <2>1, <2>3, <3>2, KindsApart DEF ListsFit
  <2> QED
    BY <2>2, <2>3
<1> QED
  BY <1>7, <1>8

LEMMA ProcessedListsFits ==
    ASSUME TypeOK, NEW a \in Activities, NEW d \in Directions \cup {"none"}, NEW s \in Stages,
           Fit(a, d, s), FloorsExist, ProcessedLists
    PROVE  ListsFit(a, d, s)' /\ FloorsExist'
<1>1. PICK p : p = Head(jobs)
  OBVIOUS
<1>0. Job({"ProcessedLists"})
  BY DEF ProcessedLists
<1>2. p = "ProcessedLists" /\ p = jobs[1] /\ 1 \in 1..Len(jobs)
  BY <1>0, <1>1, JobLeaves
<1>3. s = "rest" /\ a \notin Turning \cup Counting
  BY <1>2 DEF Fit, QueueFits, Agree
<1>4. /\ ~IsPending(Removing) /\ ~IsPending(Removing)'
      /\ ~IsPending(Postponing) /\ ~IsPending(Postponing)'
      /\ Pending("AddToTravel")' => Pending("AddToTravel")
      /\ Pending("AddToNextTravel")' => Pending("AddToNextTravel")
  <2>1. /\ ~IsPending(Removing) /\ ~IsPending(Merging)
        /\ (\A S : IsPending(S)' => IsPending(S)) /\ (\A q : Pending(q)' => Pending(q))
    BY <1>0, <1>1, <1>2, KindsApart, JobLeaves
  <2>2. ~IsPending(Postponing)
    BY <2>1 DEF IsPending, Merging
  <2> QED
    BY <2>1, <2>2
<1>5. /\ currentFloor' = currentFloor /\ toAddToDestination' = toAddToDestination
      /\ UNCHANGED <<destinations, nextTravelDestinations, waitingToGoUp, waitingToGoDown>>
  BY DEF ProcessedLists, Job, userVars, lists
<1>6. FloorsExist'
  BY <1>5 DEF FloorsExist, Known
<1>7. CASE d = "none"
  BY <1>3, <1>5, <1>6, <1>7, KindsApart DEF Fit, ListsFit, Known
<1>8. CASE d # "none"
  <2>1. Travelling(a, d, s)'
    BY <1>3, <1>4, <1>5, <1>8 DEF Fit, ListsFit, Travelling, Ahead
  <2> QED
    BY <1>3, <1>6, <1>8, <2>1, KindsApart DEF ListsFit
<1> QED
  BY <1>7, <1>8
-----------------------------------------------------------------------------
(***************************************************************************)
(* The steps of the worker, of the user and of the engine keep the         *)
(* invariant.                                                              *)
(***************************************************************************)
LEMMA WorkerCarries ==
    ASSUME TypeOK, FloorsExist, Carried, Worker
    PROVE  FloorsExist' /\ Carried'
<1>1. PICK a \in Activities, d \in Directions \cup {"none"}, s \in Stages :
         MarkedAs(a, d, s) /\ Fit(a, d, s)
  BY DEF Carried
<1>2. PICK P : Job(P)
  BY DEF Worker, AddDestination1, AddDestination2, AddWaitingToGoUp, AddWaitingToGoDown,
         RemoveDestinationGU, RemoveDestinationGD, RotateLists, IncreaseFloor, DecreaseFloor,
         MergeGoingUpGTCurrent, MergeGoingDownSTCurrent, MergeMinGoingUp, MergeMaxGoingDown,
         MergePostponedToCurrent, ProcessedLists
<1>3. ListsFit(a, d, s)' /\ FloorsExist' /\ (currentFloor' = currentFloor \/ a \notin Asking)
  <2>1. CASE AddDestination1
    BY <1>1, <2>1, AddDestination1Fits DEF AddDestination1
  <2>2. CASE AddDestination2
    BY <1>1, <2>2, AddDestination2Fits DEF AddDestination2
  <2>3. CASE AddWaitingToGoUp \/ AddWaitingToGoDown
    BY <1>1, <2>3, AddWaitingFits DEF AddWaitingToGoUp, AddWaitingToGoDown
  <2>4. CASE RemoveDestinationGU \/ RemoveDestinationGD
    BY <1>1, <2>4, RemoveDestinationFits DEF RemoveDestinationGU, RemoveDestinationGD
  <2>5. CASE RotateLists
    BY <1>1, <2>5, RotateListsFits DEF RotateLists
  <2>6. CASE IncreaseFloor \/ DecreaseFloor
    BY <1>1, <2>6, CountsFloorsFits
  <2>7. CASE MergeGoingUpGTCurrent \/ MergeGoingDownSTCurrent
    BY <1>1, <2>7, MergesWaitingToGoDownFits
       DEF MergeGoingUpGTCurrent, MergeGoingDownSTCurrent, MergeToDestinations
  <2>8. CASE MergeMinGoingUp \/ MergeMaxGoingDown
    BY <1>1, <2>8, MergesFirstFits DEF MergeMinGoingUp, MergeMaxGoingDown
  <2>9. CASE MergePostponedToCurrent
    BY <1>1, <2>9, MergesPostponedFits DEF MergePostponedToCurrent
  <2>10. CASE ProcessedLists
    BY <1>1, <2>10, ProcessedListsFits DEF ProcessedLists
  <2> QED
    BY <2>1, <2>2, <2>3, <2>4, <2>5, <2>6, <2>7, <2>8, <2>9, <2>10 DEF Worker
<1>4. QueueFits(a, d, s)'
  BY <1>1, <1>2, JobLeaves
<1>5. RequestsApart(a, d, s)'
  BY <1>1, <1>2, <1>3, JobKeepsRequests
<1>6. MarkedAs(a, d, s)'
  BY <1>1, <1>2 DEF MarkedAs, Job, netVars
<1>7. Agree(a, d, s)' /\ Fit(a, d, s)'
  BY <1>1, <1>3, <1>4, <1>5 DEF Fit, Agree
<1> QED
  BY <1>3, <1>6, <1>7 DEF Carried

LEMMA RequestCarries ==
    ASSUME TypeOK, FloorsExist, Carried, NEW button \in FloorButtons, NEW floor \in Floors,
           Request(button, floor), ~disturbed'
    PROVE  FloorsExist' /\ Carried'
<1>1. PICK a \in Activities, d \in Directions \cup {"none"}, s \in Stages :
         MarkedAs(a, d, s) /\ Fit(a, d, s)
  BY DEF Carried
<1>2. /\ tokens' = tokens /\ jobs' = jobs /\ currentFloor' = currentFloor
      /\ UNCHANGED <<destinations, nextTravelDestinations, waitingToGoUp, waitingToGoDown>>
      /\ toAddToDestination' = floor /\ ~RequestInProgress
  BY DEF Request, netVars, lists
<1>3. /\ \A p \in FloorButtons \cup Asking \cup Requesting : ~Marked(p)
      /\ \A p \in Requesting : ~Pending(p)
  BY <1>2 DEF RequestInProgress, Asking, Requesting, Pending
<1>4. a \notin Asking \cup Requesting
  <2>1. Marked(a)
    BY <1>1 DEF MarkedAs, Count, Marked
  <2> QED
    BY <1>3, <2>1
<1>5. ~IsPending(Requesting) /\ ~Pending("AddToTravel") /\ ~Pending("AddToNextTravel")
  BY <1>3 DEF IsPending, Pending, ActionInExecution, Requesting
<1>6. \A b \in FloorButtons : tokens[b] = 0
  <2>1. \A b \in FloorButtons : tokens[b] \in Nat
    BY PlacesOfTheCabin DEF TypeOK
  <2> QED
    BY <1>3, <2>1 DEF Marked
<1>7. RequestsApart(a, d, s)'
  BY <1>2, <1>4, <1>5, <1>6, PendingSame DEF RequestsApart
<1>8. QueueFits(a, d, s)' /\ MarkedAs(a, d, s)' /\ Agree(a, d, s)'
  BY <1>1, <1>2 DEF Fit, QueueFits, Pending, ActionInExecution, MarkedAs, Agree
<1>9. ListsFit(a, d, s)'
  <2>1. d # "none" => Travelling(a, d, s)'
    BY <1>1, <1>2, <1>5, PendingSame DEF Fit, ListsFit, Travelling, Ahead
  <2>2. Known' = Known
    BY <1>2 DEF Known
  <2>3. a \in Swapping => Swaps(a)'
    BY <1>1, <1>2, <1>5, PendingSame DEF Fit, ListsFit, Swaps, Ahead
  <2>4. a \in Choosing => Chooses(a)'
    BY <1>1, <1>2, PendingSame DEF Fit, ListsFit, Chooses
  <2>5. a \in Merging => Merges(a)'
    BY <1>1, <1>2, PendingSame DEF Fit, ListsFit, Merges, Ahead
  <2> QED
    BY <1>1, <2>1, <2>2, <2>3, <2>4, <2>5 DEF Fit, ListsFit
<1>10. FloorsExist'
  BY <1>2 DEF FloorsExist, Known, Floors
<1> QED
  BY <1>7, <1>8, <1>9, <1>10 DEF Carried, Fit

LEMMA ButtonsAreApart ==
    /\ (FloorButtons \cup {"OpenDoors", "CloseDoors"}) \cap (Activities \cup Controls) = {}
    /\ FloorButtons \cap {"OpenDoors", "CloseDoors"} = {}
    /\ "none" \notin FloorButtons
  BY DEF FloorButtons, Activities, OnEnter, Controls, Directions

\* The token that a button puts changes no activity, direction or stage.
LEMMA PressingKeepsMarks ==
    ASSUME TypeOK, NEW a, NEW d, NEW s, MarkedAs(a, d, s),
           NEW b \in FloorButtons \cup {"OpenDoors", "CloseDoors"}, IncrementInput(b)
    PROVE  /\ MarkedAs(a, d, s)' /\ tokens[b] \in Nat /\ tokens'[b] = tokens[b] + 1
           /\ \A c \in FloorButtons \ {b} : tokens'[c] = tokens[c]
<1>1. b \in Places /\ tokens \in [Places -> Nat] /\ FloorButtons \subseteq Places
  BY PlacesOfTheCabin DEF TypeOK
<1>2. tokens' = [tokens EXCEPT ![b] = @ + 1]
  BY DEF IncrementInput
<1>3. \A p : p # b => tokens'[p] = tokens[p]
  BY <1>1, <1>2
<1>4. \A p \in Activities \cup Controls : tokens'[p] = tokens[p]
  BY <1>3, ButtonsAreApart
<1>5. MarkedAs(a, d, s)'
  BY <1>4 DEF MarkedAs, Controls
<1> QED
  BY <1>1, <1>2, <1>3, <1>5

LEMMA ButtonCarries ==
    ASSUME TypeOK, FloorsExist, Carried, PressFloorButton \/ OpenDoors \/ CloseDoors
    PROVE  FloorsExist' /\ Carried'
<1>1. PICK a \in Activities, d \in Directions \cup {"none"}, s \in Stages :
         MarkedAs(a, d, s) /\ Fit(a, d, s)
  BY DEF Carried
<1>2. PICK b \in FloorButtons \cup {"OpenDoors", "CloseDoors"} :
         /\ IncrementInput(b)
         /\ \/ b = pressing /\ b \in FloorButtons /\ pressing' = "none"
            \/ b \notin FloorButtons /\ pressing' = pressing
  <2>1. CASE PressFloorButton
    BY <2>1 DEF PressFloorButton, TypeOK
  <2>2. CASE OpenDoors
    BY <2>2, ButtonsAreApart DEF OpenDoors, PressDoorButton, userVars
  <2>3. CASE CloseDoors
    BY <2>3, ButtonsAreApart DEF CloseDoors, PressDoorButton, userVars
  <2> QED
    BY <2>1, <2>2, <2>3
<1>3. /\ jobs' = jobs /\ currentFloor' = currentFloor /\ toAddToDestination' = toAddToDestination
      /\ UNCHANGED <<destinations, nextTravelDestinations, waitingToGoUp, waitingToGoDown>>
  BY DEF PressFloorButton, OpenDoors, CloseDoors, PressDoorButton, IncrementInput, lists, userVars
<1>4. /\ MarkedAs(a, d, s)' /\ tokens[b] \in Nat /\ tokens'[b] = tokens[b] + 1
      /\ \A c \in FloorButtons \ {b} : tokens'[c] = tokens[c]
  BY <1>1, <1>2, PressingKeepsMarks
<1>5. RequestsApart(a, d, s)'
  <2>1. RequestsApart(a, d, s)
    BY <1>1 DEF Fit
  <2>2. IsPending(Requesting)' <=> IsPending(Requesting)
    BY <1>3, PendingSame
  <2>3. CASE b = pressing /\ b \in FloorButtons /\ pressing' = "none"
    <3>1. pressing # "none"
      BY <2>3, ButtonsAreApart
    <3>2. /\ \A c \in FloorButtons : tokens[c] = 0
          /\ a \notin Asking \cup Requesting /\ ~IsPending(Requesting)
      BY <2>1, <3>1 DEF RequestsApart
    <3>3. tokens'[b] = 1 /\ \A c \in FloorButtons \ {b} : tokens'[c] = 0
      BY <1>4, <2>3, <3>2
    <3> QED
      BY <2>2, <2>3, <3>2, <3>3 DEF RequestsApart
  <2>4. CASE b \notin FloorButtons /\ pressing' = pressing
    BY <1>3, <1>4, <2>1, <2>2, <2>4 DEF RequestsApart
  <2> QED
    BY <1>2, <2>3, <2>4
<1>6. QueueFits(a, d, s)' /\ Agree(a, d, s)'
  BY <1>1, <1>3 DEF Fit, QueueFits, Pending, ActionInExecution, Agree
<1>7. ListsFit(a, d, s)'
  <2>1. d # "none" => Travelling(a, d, s)'
    BY <1>1, <1>3, PendingSame DEF Fit, ListsFit, Travelling, Ahead
  <2>2. Known' = Known
    BY <1>3 DEF Known
  <2>3. a \in Swapping => Swaps(a)'
    BY <1>1, <1>3, PendingSame DEF Fit, ListsFit, Swaps, Ahead
  <2>4. a \in Choosing => Chooses(a)'
    BY <1>1, <1>3, PendingSame DEF Fit, ListsFit, Chooses
  <2>5. a \in Merging => Merges(a)'
    BY <1>1, <1>3, PendingSame DEF Fit, ListsFit, Merges, Ahead
  <2> QED
    BY <1>1, <2>1, <2>2, <2>3, <2>4, <2>5 DEF Fit, ListsFit
<1>8. FloorsExist'
  BY <1>3 DEF FloorsExist, Known, Floors
<1> QED
  BY <1>4, <1>5, <1>6, <1>7, <1>8 DEF Carried, Fit

LEMMA FiringCarries ==
    ASSUME TypeOK, FloorsExist, Carried, NEW t \in Transitions, Fire(t), ~disturbed'
    PROVE  FloorsExist' /\ Carried'
<1>1. PICK a \in Activities, d \in Directions \cup {"none"}, s \in Stages :
         MarkedAs(a, d, s) /\ Fit(a, d, s)
  BY DEF Carried
<1>2. Skeleton(a, d, s)
  BY <1>1, FiringFollowsSkeleton DEF Fit
<1>3. UNCHANGED <<currentFloor, lists, toAddToDestination, pressing>>
  BY DEF Fire
<1>4. Carried'
  BY <1>1, <1>2, <1>3, SkeletonFits
<1>5. FloorsExist'
  BY <1>3 DEF FloorsExist, Known, lists, Floors
<1> QED
  BY <1>4, <1>5

LEMMA NothingCarries ==
    ASSUME FloorsExist, Carried,
           UNCHANGED <<tokens, jobs, currentFloor, lists, toAddToDestination, pressing>>
    PROVE  FloorsExist' /\ Carried'
<1>1. PICK a \in Activities, d \in Directions \cup {"none"}, s \in Stages :
         MarkedAs(a, d, s) /\ Fit(a, d, s)
  BY DEF Carried
<1>2. MarkedAs(a, d, s)' /\ Agree(a, d, s)'
  BY <1>1 DEF MarkedAs, Fit, Agree
<1>3. QueueFits(a, d, s)' /\ RequestsApart(a, d, s)'
  BY <1>1 DEF Fit, QueueFits, RequestsApart, Pending, IsPending, ActionInExecution, lists
<1>4. ListsFit(a, d, s)'
  BY <1>1 DEF Fit, ListsFit, Travelling, Swaps, Chooses, Merges, Known, Ahead, Pending, IsPending,
              ActionInExecution, lists
<1>5. FloorsExist'
  BY DEF FloorsExist, Known, lists, Floors
<1> QED
  BY <1>2, <1>3, <1>4, <1>5 DEF Carried, Fit

LEMMA JourneyStarts == Init => JourneyFits
<1> SUFFICES ASSUME Init PROVE FloorsExist /\ Carried
  BY DEF JourneyFits
<1>1. Activities \cup Controls \cup FloorButtons \subseteq Places
  BY PlacesOfTheJourney
<1>2. "Ready" \in Activities /\ "none" \notin Directions /\ "rest" \in Stages
  BY DEF Activities, Directions, Stages
<1>3. MarkedAs("Ready", "none", "rest")
  <2>1. \A p \in Activities \cup Controls \cup FloorButtons : tokens[p] = Count(p \in InitiallyMarked)
    BY <1>1 DEF Init, Count
  <2>2. \A p \in Activities : p \in InitiallyMarked <=> p = "Ready"
    BY DEF Activities, OnEnter, InitiallyMarked
  <2>3. \A p \in Controls : p \in InitiallyMarked <=> p = "ProcessedLists"
    BY DEF Controls, Directions, InitiallyMarked
  <2>4. tokens["Moving"] = 0 /\ tokens["Moving_"] = 0
    BY <2>1, <2>3 DEF Controls, Count
  <2> QED
    BY <1>2, <2>1, <2>2, <2>3, <2>4 DEF MarkedAs, Controls, Directions, Count
<1>4. \A b \in FloorButtons : tokens[b] = 0
  BY <1>1 DEF Init, FloorButtons, InitiallyMarked
<1>5. "Ready" \notin Turning \cup Swapping \cup Choosing \cup Merging \cup Counting \cup Removing \cup Asking \cup Requesting
  BY DEF Turning, Counting, Removing, Asking, Requesting, Swapping, Choosing, Merging, ChoosingMin, ChoosingMax, Postponing
<1>6. Fit("Ready", "none", "rest")
  BY <1>4, <1>5 DEF Init, Fit, Agree, QueueFits, RequestsApart, ListsFit, Known, IsPending
<1>7. FloorsExist
  BY ElevatorAssumption DEF Init, FloorsExist, Known, Floors
<1> QED
  BY <1>2, <1>3, <1>6, <1>7 DEF Carried

LEMMA JourneyContinues ==
    ASSUME TypeOK, JourneyFits, [Next]_vars
    PROVE  JourneyFits'
<1> SUFFICES ASSUME ~disturbed' PROVE FloorsExist' /\ Carried'
  BY DEF JourneyFits
<1>1. CASE Engine
  <2>1. CASE CollectEnabledTransitions
    BY <2>1, NothingCarries DEF CollectEnabledTransitions, JourneyFits, userVars
  <2>2. ASSUME NEW t \in collected, Fire(t) PROVE FloorsExist' /\ Carried'
    BY <2>2, FiringCarries DEF Fire, JourneyFits, TypeOK
  <2>3. ASSUME NEW t \in collected, DoNotFire(t) PROVE FloorsExist' /\ Carried'
    BY <2>3, NothingCarries DEF DoNotFire, JourneyFits, userVars
  <2> QED
    BY <1>1, <2>1, <2>2, <2>3 DEF Engine
<1>2. CASE Worker
  <2>1. ~disturbed
    BY <1>2 DEF Worker, AddDestination1, AddDestination2, AddWaitingToGoUp, AddWaitingToGoDown,
         RemoveDestinationGU, RemoveDestinationGD, RotateLists, IncreaseFloor, DecreaseFloor,
         MergeGoingUpGTCurrent, MergeGoingDownSTCurrent, MergeMinGoingUp, MergeMaxGoingDown,
         MergePostponedToCurrent, ProcessedLists, Job, userVars
  <2> QED
    BY <1>2, <2>1, WorkerCarries DEF JourneyFits
<1>3. CASE CallElevatorUp \/ CallElevatorDown \/ SetDestinationFloor
  <2>1. PICK button \in FloorButtons, floor \in Floors : Request(button, floor)
    BY <1>3, ElevatorAssumption
       DEF CallElevatorUp, CallElevatorDown, SetDestinationFloor, FloorButtons, Floors, Typed
  <2>2. ~disturbed
    BY <2>1 DEF Request
  <2> QED
    BY <2>1, <2>2, RequestCarries DEF JourneyFits
<1>4. CASE PressFloorButton \/ OpenDoors \/ CloseDoors
  <2>1. ~disturbed
    BY <1>4 DEF PressFloorButton, OpenDoors, CloseDoors, PressDoorButton, userVars
  <2> QED
    BY <1>4, <2>1, ButtonCarries DEF JourneyFits
<1>5. CASE UNCHANGED vars
  BY <1>5, NothingCarries DEF JourneyFits, vars, netVars, userVars
<1> QED
  BY <1>1, <1>2, <1>3, <1>4, <1>5 DEF Next, User

(***************************************************************************)
(* Tokens, queue, requests and lists fit each other at every step, as long *)
(* as no request meets what TakenWhileTurning, TurnedBeforeAdding and      *)
(* RequestInProgress name.                                                 *)
(***************************************************************************)
LEMMA JourneyAlwaysFits == Spec => []JourneyFits
<1>1. TypeOK /\ JourneyFits /\ [Next]_vars => JourneyFits'
  BY JourneyContinues
<1> QED
  BY <1>1, JourneyStarts, TypeCorrect, PTL DEF Spec

(***************************************************************************)
(* The cabin stays between the bottom and the top floor, for any number of *)
(* floors: there is a destination ahead whenever it counts one, and the    *)
(* controller knows no floor outside the building.                         *)
(***************************************************************************)
THEOREM NeverLeavesTheBuilding == Spec => []StaysInTheBuilding
<1>1. JourneyFits => StaysInTheBuilding
  BY DEF JourneyFits, FloorsExist, StaysInTheBuilding
<1> QED
  BY <1>1, JourneyAlwaysFits, PTL

\* Only the counting actions move the cabin.
LEMMA CountsOrStays ==
    ASSUME [Next]_vars
    PROVE  currentFloor' = currentFloor \/ IncreaseFloor \/ DecreaseFloor
<1>1. CASE Engine
  BY <1>1 DEF Engine, CollectEnabledTransitions, Fire, DoNotFire
<1>2. CASE Worker
  BY <1>2 DEF Worker, AddDestination1, AddDestination2, AddWaitingToGoUp, AddWaitingToGoDown,
         RemoveDestinationGU, RemoveDestinationGD, RotateLists,
         MergeGoingUpGTCurrent, MergeGoingDownSTCurrent, MergeToDestinations, MergeMinGoingUp, MergeMaxGoingDown,
         MergePostponedToCurrent, ProcessedLists
<1>3. CASE User
  BY <1>3 DEF User, CallElevatorUp, CallElevatorDown, SetDestinationFloor, Request,
         PressFloorButton, OpenDoors, CloseDoors, PressDoorButton, IncrementInput
<1>4. CASE UNCHANGED vars
  BY <1>4 DEF vars
<1> QED
  BY <1>1, <1>2, <1>3, <1>4 DEF Next

\* When it moves, all its destinations lie ahead, and there is one.
LEMMA MovesTowards ==
    ASSUME TypeOK, JourneyFits, [Next]_vars, ~disturbed, currentFloor' # currentFloor
    PROVE  /\ destinations # {} /\ destinations \subseteq Int /\ currentFloor \in Int
           /\ \/ currentFloor' = currentFloor + 1 /\ \A f \in destinations : f > currentFloor
              \/ currentFloor' = currentFloor - 1 /\ \A f \in destinations : f < currentFloor
<1>1. PICK a \in Activities, d \in Directions \cup {"none"}, s \in Stages : Fit(a, d, s)
  BY DEF JourneyFits, Carried
<1>2. IncreaseFloor \/ DecreaseFloor
  BY CountsOrStays
<1>3. destinations \subseteq Int /\ currentFloor \in Int
  BY ElevatorAssumption DEF JourneyFits, FloorsExist, Known, Floors
<1>4. /\ (\A f \in destinations : Ahead(d, f)) /\ destinations # {}
      /\ \/ d = "GoingUp_" /\ currentFloor' = currentFloor + 1
         \/ d = "GoingDown_" /\ currentFloor' = currentFloor - 1
  BY <1>1, <1>2, CountsTowards
<1> QED
  BY <1>3, <1>4 DEF Ahead, Up, Down

(***************************************************************************)
(* The cabin stops where it is to stop: when a floor is counted, the one   *)
(* it leaves is no destination, because the action that removes a floor is *)
(* queued before the cabin moves on.                                       *)
(***************************************************************************)
THEOREM PassesNoDestination == Spec => NeverPassesADestination
<1>1. TypeOK /\ JourneyFits /\ [Next]_vars =>
         [~disturbed /\ currentFloor' # currentFloor => currentFloor \notin destinations]_vars
  <2> SUFFICES ASSUME TypeOK, JourneyFits, [Next]_vars, ~disturbed, currentFloor' # currentFloor
               PROVE  currentFloor \notin destinations
    OBVIOUS
  <2> QED
    BY MovesTowards
<1> QED
  BY <1>1, JourneyAlwaysFits, TypeCorrect, PTL DEF Spec, NeverPassesADestination

(***************************************************************************)
(* The cabin moves only towards a destination: direction, lists and cabin, *)
(* changed by different transitions and actions, agree whenever a floor is *)
(* counted.                                                                *)
(***************************************************************************)
THEOREM AlwaysHeadsForADestination == Spec => HeadsForADestination
<1>1. TypeOK /\ JourneyFits /\ [Next]_vars =>
         [~disturbed =>
            /\ currentFloor' > currentFloor => \E d \in destinations : d > currentFloor
            /\ currentFloor' < currentFloor => \E d \in destinations : d < currentFloor]_vars
  <2> SUFFICES ASSUME TypeOK, JourneyFits, [Next]_vars, ~disturbed
               PROVE  /\ currentFloor' > currentFloor => \E d \in destinations : d > currentFloor
                      /\ currentFloor' < currentFloor => \E d \in destinations : d < currentFloor
    OBVIOUS
  <2>1. CASE currentFloor' = currentFloor
    BY <2>1 DEF TypeOK
  <2>2. CASE currentFloor' # currentFloor
    BY <2>2, MovesTowards
  <2> QED
    BY <2>1, <2>2
<1> QED
  BY <1>1, JourneyAlwaysFits, TypeCorrect, PTL DEF Spec, HeadsForADestination
-----------------------------------------------------------------------------
(***************************************************************************)
(* When the elevator rests, each activity but Ready has a transition whose *)
(* condition would have to hold.                                           *)
(***************************************************************************)
\* A transition that asks for the token of an activity only waits for a condition.
LEMMA RestingWaits ==
    ASSUME Resting, NEW t \in Transitions, NEW p, Marked(p), t.activation = {p}, t.inhibitor = {}
    PROVE  \E c \in t.conditions : ~Holds(c)
<1>1. jobs = <<>> /\ ~Active(t)
  BY DEF Resting
<1>2. Enabled(t)
  BY DEF Enabled
<1>3. NoActionsInExecution(t)
  BY <1>1 DEF NoActionsInExecution, ActionInExecution
<1> QED
  BY <1>1, <1>2, <1>3 DEF Active, AdditionalConditions

LEMMA RestingPlain ==
    ASSUME Resting, NEW p, Marked(p), NEW name, NEW destination
    PROVE  Plain(name, {p}, destination) \notin Transitions
  BY RestingWaits DEF Plain

LEMMA RestingQuiet ==
    ASSUME Resting, NEW p, Marked(p), NEW name, NEW destination, NEW c,
           Quiet(name, {p}, destination, {}, {c}) \in Transitions
    PROVE  ~Holds(c)
  BY RestingWaits DEF Quiet

LEMMA RestingQuietTwice ==
    ASSUME Resting, NEW p, Marked(p), NEW name, NEW destination, NEW c, NEW c2,
           Quiet(name, {p}, destination, {}, {c, c2}) \in Transitions
    PROVE  ~Holds(c) \/ ~Holds(c2)
  BY RestingWaits DEF Quiet

\* The only floor left is the one the cabin is at.
LEMMA RestsWhereItIs ==
    ASSUME FloorsExist, NEW a \in Choosing, Chooses(a), jobs = <<>>,
           destinations # {},
           \/ Min(destinations) = currentFloor
           \/ Max(destinations) = currentFloor
    PROVE  destinations = {currentFloor}
<1>1. PICK m \in Floors : destinations = {m}
  BY NothingPending DEF Chooses
<1>2. m \in Int
  BY ElevatorAssumption DEF Floors
<1>3. Min({m}) = m /\ Max({m}) = m
  BY <1>2 DEF Min, Max
<1> QED
  BY <1>1, <1>3

LEMMA ComesToRest ==
    ASSUME JourneyFits, ~disturbed, Resting
    PROVE  Marked("Ready") \/ destinations = {currentFloor}
<1>1. PICK a \in Activities, d \in Directions \cup {"none"}, s \in Stages :
         MarkedAs(a, d, s) /\ Fit(a, d, s)
  BY DEF JourneyFits, Carried
<1>2. Marked(a) /\ jobs = <<>>
  BY <1>1 DEF MarkedAs, Count, Marked, Resting
<1>3. /\ currentFloor \in Int /\ toAddToDestination \in Int /\ destinations \subseteq Floors
      /\ destinations \subseteq Int
  BY ElevatorAssumption DEF JourneyFits, FloorsExist, Known, Floors
<1>4. Activities = {"Ready"} \cup Asking \cup Requesting \cup Counting \cup Removing \cup Swapping \cup Choosing \cup Merging
  BY DEF Activities, OnEnter, Counting, Removing, Asking, Requesting, Swapping, Choosing,
         ChoosingMin, ChoosingMax, Merging, Postponing
<1>5. CASE a = "Ready"
  BY <1>2, <1>5
<1>6. CASE a \in Counting
  <2>1. /\ Quiet("T12", {"IncreaseFloor"}, {"Ready"}, {}, {"FloorNotInList"}) \in Transitions
        /\ Quiet("T13", {"DecreaseFloor"}, {"Ready"}, {}, {"FloorNotInList"}) \in Transitions
        /\ Quiet("T14", {"IncreaseFloor"}, {"RemoveFromListGU"}, {}, {"FloorInList"}) \in Transitions
        /\ Quiet("T16", {"DecreaseFloor"}, {"RemoveFromListGD"}, {}, {"FloorInList"}) \in Transitions
    BY DEF Transitions, SimulationTransitions
  <2>2. ~Holds("FloorNotInList") /\ ~Holds("FloorInList")
    BY <1>2, <1>6, <2>1, RestingQuiet DEF Counting
  <2> QED
    BY <2>2 DEF Holds
<1>7. CASE a \in Removing
  <2>1. /\ Plain("T15", {"RemoveFromListGU"}, {"ProcessLists", "ArrivedDestination", "Ready"}) \in Transitions
        /\ Plain("T17", {"RemoveFromListGD"}, {"ProcessLists", "ArrivedDestination", "Ready"}) \in Transitions
    BY DEF Transitions, SimulationTransitions
  <2> QED
    BY <1>2, <1>7, <2>1, RestingPlain DEF Removing
<1>8. CASE a \in Swapping
  <2>1. /\ Quiet("T20", {"SwapGD"}, {"MergeGoingUpGTCurrent"}, {}, {"DestinationListNotEmpty"}) \in Transitions
        /\ Quiet("T21", {"SwapGD"}, {"MergeMinGoingUp1"}, {}, {"DestinationListEmpty"}) \in Transitions
    BY DEF Transitions, ArrivingGoingDownTransitions
  <2>2. /\ Quiet("T33", {"SwapGU"}, {"MergeGoingDownSTCurrent"}, {}, {"DestinationListNotEmpty"}) \in Transitions
        /\ Quiet("T34", {"SwapGU"}, {"MergeMaxGoingDown2"}, {}, {"DestinationListEmpty"}) \in Transitions
    BY DEF Transitions, ArrivingGoingUpTransitions
  <2>3. ~Holds("DestinationListNotEmpty") /\ ~Holds("DestinationListEmpty")
    BY <1>2, <1>8, <2>1, <2>2, RestingQuiet DEF Swapping
  <2> QED
    BY <2>3 DEF Holds
<1>9. CASE a \in Merging
  <2>1. /\ Plain("T22", {"MergeGoingUpGTCurrent"}, {"Ready", "ProcessedLists", "GoingUp"}) \in Transitions
        /\ Plain("T29", {"MergePostponedToCurrent11"}, {"Ready", "ProcessedLists", "GoingUp"}) \in Transitions
        /\ Plain("T30", {"MergePostponedToCurrent12"}, {"Ready", "ProcessedLists", "GoingDown"}) \in Transitions
    BY DEF Transitions, ArrivingGoingDownTransitions
  <2>2. /\ Plain("T35", {"MergeGoingDownSTCurrent"}, {"Ready", "ProcessedLists", "GoingDown"}) \in Transitions
        /\ Plain("T42", {"MergePostponedToCurrent21"}, {"Ready", "ProcessedLists", "GoingDown"}) \in Transitions
        /\ Plain("T43", {"MergePostponedToCurrent22"}, {"Ready", "ProcessedLists", "GoingUp"}) \in Transitions
    BY DEF Transitions, ArrivingGoingUpTransitions
  <2> QED
    BY <1>2, <1>9, <2>1, <2>2, RestingPlain DEF Merging, Postponing
<1>10. CASE a \in Choosing
  <2>1. /\ Quiet("T23", {"MergeMinGoingUp1"}, {"MergeMaxGoingDown1"}, {}, {"DestinationListEmpty"}) \in Transitions
        /\ Quiet("T24", {"MergeMinGoingUp1"}, {"GoingDown", "Ready", "ProcessedLists"}, {},
                 {"MinSmallerThanCurrent"}) \in Transitions
        /\ Quiet("T25", {"MergeMinGoingUp1"}, {"MergePostponedToCurrent11"}, {},
                 {"MinGreaterThanCurrent"}) \in Transitions
        /\ Quiet("T26", {"MergeMaxGoingDown1"}, {"Ready", "ProcessedLists"}, {},
                 {"DestinationListEmpty"}) \in Transitions
        /\ Quiet("T27", {"MergeMaxGoingDown1"}, {"MergePostponedToCurrent12"}, {},
                 {"DestinationListNotEmpty", "MaxSmallerThanCurrent"}) \in Transitions
        /\ Quiet("T28", {"MergeMaxGoingDown1"}, {"Ready", "ProcessedLists", "GoingUp"}, {},
                 {"DestinationListNotEmpty", "MaxGreaterThanCurrent"}) \in Transitions
    BY DEF Transitions, ArrivingGoingDownTransitions
  <2>2. /\ Quiet("T36", {"MergeMaxGoingDown2"}, {"MergeMinGoingUp2"}, {}, {"DestinationListEmpty"}) \in Transitions
        /\ Quiet("T37", {"MergeMaxGoingDown2"}, {"GoingUp", "Ready", "ProcessedLists"}, {},
                 {"MaxGreaterThanCurrent"}) \in Transitions
        /\ Quiet("T38", {"MergeMaxGoingDown2"}, {"MergePostponedToCurrent21"}, {},
                 {"MaxSmallerThanCurrent"}) \in Transitions
        /\ Quiet("T39", {"MergeMinGoingUp2"}, {"Ready", "ProcessedLists"}, {},
                 {"DestinationListEmpty"}) \in Transitions
        /\ Quiet("T40", {"MergeMinGoingUp2"}, {"MergePostponedToCurrent22"}, {},
                 {"DestinationListNotEmpty", "MinGreaterThanCurrent"}) \in Transitions
        /\ Quiet("T41", {"MergeMinGoingUp2"}, {"Ready", "ProcessedLists", "GoingDown"}, {},
                 {"DestinationListNotEmpty", "MinSmallerThanCurrent"}) \in Transitions
    BY DEF Transitions, ArrivingGoingUpTransitions
  <2>3. ~Holds("DestinationListEmpty")
    BY <1>2, <1>10, <2>1, <2>2, RestingQuiet DEF Choosing, ChoosingMin, ChoosingMax
  <2>4. Holds("DestinationListNotEmpty") /\ destinations # {}
    BY <2>3 DEF Holds
  <2>5. \/ ~Holds("MinSmallerThanCurrent") /\ ~Holds("MinGreaterThanCurrent")
        \/ ~Holds("MaxSmallerThanCurrent") /\ ~Holds("MaxGreaterThanCurrent")
    BY <1>2, <1>10, <2>1, <2>2, <2>4, RestingQuiet, RestingQuietTwice DEF Choosing, ChoosingMin, ChoosingMax
  <2>6. Min(destinations) \in Int /\ Max(destinations) \in Int
    BY <1>3, <2>4, LowestAndHighest
  <2>7. Min(destinations) = currentFloor \/ Max(destinations) = currentFloor
    BY <1>3, <2>4, <2>5, <2>6 DEF Holds
  <2> QED
    BY <1>1, <1>2, <1>10, <2>4, <2>7, RestsWhereItIs DEF JourneyFits, Fit, ListsFit
<1>11. CASE a \in Asking
  <2>1. /\ Quiet("T47", {"D1"}, {"AddToTravel"}, {}, {"MarkedFloorGreaterThanCurrentFloor"}) \in Transitions
        /\ Quiet("T48", {"D1"}, {"AddToNextTravel"}, {}, {"MarkedFloorSmallerThanCurrentFloor"}) \in Transitions
        /\ Quiet("T49", {"D2"}, {"AddToNextTravel"}, {}, {"MarkedFloorGreaterThanCurrentFloor"}) \in Transitions
        /\ Quiet("T50", {"D2"}, {"AddToTravel"}, {}, {"MarkedFloorSmallerThanCurrentFloor"}) \in Transitions
        /\ Quiet("T51", {"D3"}, {"GoingUp", "AddToTravel"}, {}, {"MarkedFloorGreaterThanCurrentFloor"}) \in Transitions
        /\ Quiet("T52", {"D3"}, {"GoingDown", "AddToTravel"}, {}, {"MarkedFloorSmallerThanCurrentFloor"}) \in Transitions
    BY DEF Transitions, ButtonPressingTransitions
  <2>2. /\ Quiet("T58", {"D4"}, {"WaitToGoUp"}, {}, {"MarkedFloorSmallerThanCurrentFloor"}) \in Transitions
        /\ Quiet("T59", {"D4"}, {"AddToTravel"}, {}, {"MarkedFloorGreaterThanCurrentFloor"}) \in Transitions
        /\ Quiet("T64", {"D5"}, {"AddToTravel"}, {}, {"MarkedFloorSmallerThanCurrentFloor"}) \in Transitions
        /\ Quiet("T65", {"D5"}, {"WaitToGoDown"}, {}, {"MarkedFloorGreaterThanCurrentFloor"}) \in Transitions
    BY DEF Transitions, CallingButtonTransitions
  <2>3. ~Holds("MarkedFloorGreaterThanCurrentFloor") /\ ~Holds("MarkedFloorSmallerThanCurrentFloor")
    BY <1>2, <1>11, <2>1, <2>2, RestingQuiet DEF Asking
  <2>4. toAddToDestination # currentFloor
    BY <1>1, <1>11 DEF Fit, RequestsApart
  <2> QED
    BY <1>3, <2>3, <2>4 DEF Holds
<1>12. CASE a \in Requesting
  <2>1. /\ Plain("T53", {"AddToNextTravel"}, {"Ready"}) \in Transitions
        /\ Plain("T54", {"AddToTravel"}, {"Ready"}) \in Transitions
    BY DEF Transitions, ButtonPressingTransitions
  <2>2. /\ Plain("T60", {"WaitToGoUp"}, {"Ready"}) \in Transitions
        /\ Plain("T66", {"WaitToGoDown"}, {"Ready"}) \in Transitions
    BY DEF Transitions, CallingButtonTransitions
  <2> QED
    BY <1>2, <1>12, <2>1, <2>2, RestingPlain DEF Requesting
<1> QED
  BY <1>1, <1>4, <1>5, <1>6, <1>7, <1>8, <1>9, <1>10, <1>11, <1>12

(***************************************************************************)
(* The net gets stuck in no activity: when nothing is left to happen, it   *)
(* is ready for a request, or the only floor left when it turned is the    *)
(* one it is at.                                                           *)
(***************************************************************************)
THEOREM AlwaysRestsReady == Spec => []RestsReady
<1>1. JourneyFits => RestsReady
  BY ComesToRest DEF RestsReady
<1> QED
  BY <1>1, JourneyAlwaysFits, PTL
=============================================================================
