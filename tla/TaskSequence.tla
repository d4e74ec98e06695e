---------------------------- MODULE TaskSequence ----------------------------
(***************************************************************************)
(* What a job queue promises: it "accepts tasks to be executed in          *)
(* sequence" (JobQueue.h).  Tasks begin in the order in which they were    *)
(* added, each after the one before it has finished.                       *)
(***************************************************************************)
EXTENDS Sequences

CONSTANT Task

VARIABLES
    waiting,    \* tasks that have not begun, oldest first
    underway    \* the task being executed, if any

Init == waiting = <<>> /\ underway = {}

Add(task) == waiting' = Append(waiting, task) /\ UNCHANGED underway

Begin ==
    /\ underway = {}
    /\ waiting # <<>>
    /\ underway' = {Head(waiting)}
    /\ waiting' = Tail(waiting)

Finish == underway # {} /\ underway' = {} /\ UNCHANGED waiting

Next == Begin \/ Finish \/ \E task \in Task : Add(task)

Spec == Init /\ [][Next]_<<waiting, underway>>
=============================================================================
