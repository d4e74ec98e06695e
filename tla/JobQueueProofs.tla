--------------------------- MODULE JobQueueProofs ---------------------------
(***************************************************************************)
(* What holds of the job queue for any number of threads and jobs.         *)
(***************************************************************************)
EXTENDS JobQueue, TLAPS

-----------------------------------------------------------------------------
\* The flag m_isJobQueueRunning is the existence of a worker in run(), the
\* worker has a job exactly while it executes one, and before the first
\* launch there is none.
Flagged ==
    /\ FlagIsExact
    /\ handle = "empty" => worker = "none"

LEMMA TypeInit == Init => TypeOK /\ Flagged
<1> SUFFICES ASSUME Init PROVE TypeOK /\ Flagged
  OBVIOUS
<1>1. TypeOK
  <2>1. pc \in [Thread -> Call]
    BY DEF Init, Call
  <2>2. running \in BOOLEAN /\ terminated \in BOOLEAN /\ active \in BOOLEAN
    BY DEF Init
  <2>3. stopRequested \in BOOLEAN
    BY DEF Init
  <2>4. queue \in Seq(Nat) /\ job \in Nat /\ pushed \in Nat
    BY DEF Init
  <2>5. QED
    BY <2>1, <2>2, <2>3, <2>4 DEF Init, TypeOK
<1>2. Flagged
  BY DEF Init, Flagged, FlagIsExact
<1>3. QED
  BY <1>1, <1>2

LEMMA TypeStep == TypeOK /\ Flagged /\ [Next]_vars => TypeOK' /\ Flagged'
<1> SUFFICES ASSUME TypeOK, Flagged, [Next]_vars PROVE TypeOK' /\ Flagged'
  OBVIOUS
<1> USE DEF TypeOK, Flagged, FlagIsExact
<1>1. CASE UNCHANGED vars
  BY <1>1 DEF vars, flags, working, thread
<1>2. ASSUME NEW t \in Thread, PushJob(t) PROVE TypeOK' /\ Flagged'
  BY <1>2 DEF PushJob, Goto, Call, flags, working, thread
<1>3. ASSUME NEW t \in Thread, NotNeeded(t) PROVE TypeOK' /\ Flagged'
  BY <1>3 DEF NotNeeded, Goto, Call, flags, working, thread
<1>4. ASSUME NEW t \in Thread, Launch(t) PROVE TypeOK' /\ Flagged'
  BY <1>4 DEF Launch, Goto, Call
<1>5. ASSUME NEW t \in Thread, LaunchFails(t) PROVE TypeOK' /\ Flagged'
  BY <1>5 DEF LaunchFails, Goto, Call, flags, working, thread
<1>6. ASSUME NEW t \in Thread, LaunchWhileJoining(t)
      PROVE TypeOK' /\ Flagged'
  BY <1>6 DEF LaunchWhileJoining, flags, working, thread
<1>7. ASSUME NEW t \in Owner, Activate(t) PROVE TypeOK' /\ Flagged'
  BY <1>7, JobQueueAssumption DEF Activate, Goto, Call, working, thread
<1>8. ASSUME NEW t \in Owner, Deactivate(t) PROVE TypeOK' /\ Flagged'
  BY <1>8 DEF Deactivate, Goto, Call, flags, working, thread
<1>9. ASSUME NEW t \in Owner, Destroy(t) PROVE TypeOK' /\ Flagged'
  BY <1>9 DEF Destroy, Goto, Call, flags, working
<1>10. ASSUME NEW t \in Owner, RequestStop(t) PROVE TypeOK' /\ Flagged'
  BY <1>10 DEF RequestStop, Goto, Call, flags, working
<1>11. ASSUME NEW t \in Owner, Join(t) PROVE TypeOK' /\ Flagged'
  BY <1>11 DEF Join, Goto, Call, flags, working, thread
<1>12. ASSUME NEW t \in Owner, JoinThrows(t) PROVE TypeOK' /\ Flagged'
  BY <1>12 DEF JoinThrows, flags, working, thread
<1>13. ASSUME NEW t \in Owner, Joined(t) PROVE TypeOK' /\ Flagged'
  BY <1>13 DEF Joined, Goto, Call, flags, working
<1>14. ASSUME NEW t \in Owner, Deactivated(t) PROVE TypeOK' /\ Flagged'
  BY <1>14 DEF Deactivated, Goto, Call, working, thread
<1>15. ASSUME TakeJob PROVE TypeOK' /\ Flagged'
  <2>1. Head(queue) \in Nat /\ Tail(queue) \in Seq(Nat)
    BY <1>15 DEF TakeJob
  <2>2. QED
    BY <1>15, <2>1 DEF TakeJob, NextJob, flags, thread
<1>16. ASSUME FinishJob PROVE TypeOK' /\ Flagged'
  BY <1>16 DEF FinishJob, flags, thread
<1>17. ASSUME LeaveRun PROVE TypeOK' /\ Flagged'
  BY <1>17 DEF LeaveRun, RunningAfterRun, thread
<1>18. QED
  BY <1>1, <1>2, <1>3, <1>4, <1>5, <1>6, <1>7, <1>8, <1>9, <1>10, <1>11,
     <1>12, <1>13, <1>14, <1>15, <1>16, <1>17
     DEF Next, Calls, Controls, Run

\* Every variable of the job queue keeps its type, and the running flag is
\* exact, whatever threads share the queue (JobQueue.cpp:60-89).
THEOREM TypeCorrect == Spec => [](TypeOK /\ FlagIsExact)
<1>1. TypeOK /\ Flagged => TypeOK /\ FlagIsExact
  BY DEF Flagged
<1>2. QED
  BY <1>1, TypeInit, TypeStep, PTL DEF Spec

-----------------------------------------------------------------------------
LEMMA TaskInit == Init => Tasks!Init
  BY DEF Init, Tasks!Init

\* A step of the queue is a step of the sequence of tasks, or changes neither
\* the tasks that wait nor the one underway.
Underway == IF worker = "job" THEN {job} ELSE {}

LEMMA TaskStep ==
    TypeOK /\ Flagged /\ [Next]_vars => [Tasks!Next]_<<queue, Underway>>
<1> SUFFICES ASSUME TypeOK, Flagged, [Next]_vars
             PROVE  Tasks!Next \/ UNCHANGED <<queue, Underway>>
  BY DEF Underway
<1>1. CASE UNCHANGED <<queue, worker, job>>
  BY <1>1 DEF Underway
<1>2. ASSUME NEW t \in Thread, PushJob(t) PROVE Tasks!Next
  <2>1. pushed' \in 1 .. MaxPushed
    BY <1>2, JobQueueAssumption DEF PushJob, TypeOK
  <2>2. Tasks!Add(pushed')
    BY <1>2 DEF PushJob, Tasks!Add, working
  <2>3. QED
    BY <2>1, <2>2 DEF Tasks!Next
<1>3. ASSUME NEW t \in Thread, Launch(t) PROVE UNCHANGED <<queue, Underway>>
  BY <1>3 DEF Launch, Needed, Flagged, FlagIsExact, Underway
<1>4. ASSUME TakeJob PROVE Tasks!Begin
  BY <1>4 DEF TakeJob, NextJob, Tasks!Begin
<1>5. ASSUME FinishJob PROVE Tasks!Finish
  BY <1>5 DEF FinishJob, Tasks!Finish
<1>6. ASSUME LeaveRun PROVE UNCHANGED <<queue, Underway>>
  BY <1>6 DEF LeaveRun, Underway
<1>7. ASSUME NEW t \in Thread,
             NotNeeded(t) \/ LaunchFails(t) \/ LaunchWhileJoining(t)
      PROVE  UNCHANGED <<queue, worker, job>>
  BY <1>7 DEF NotNeeded, LaunchFails, LaunchWhileJoining, working
<1>8. ASSUME NEW t \in Owner, Controls(t)
      PROVE  UNCHANGED <<queue, worker, job>>
  BY <1>8 DEF Controls, Activate, Deactivate, Destroy, RequestStop, Join,
              JoinThrows, Joined, Deactivated, working
<1>9. CASE UNCHANGED vars
  BY <1>9, <1>1 DEF vars, working
<1>10. QED
  BY <1>1, <1>2, <1>3, <1>4, <1>5, <1>6, <1>7, <1>8, <1>9
     DEF Next, Calls, Run, Tasks!Next

\* JobQueue implements a sequence of tasks: for any threads that add jobs,
\* activate, deactivate and destroy the queue, jobs are executed one at a
\* time in the order of addJob (JobQueue.cpp:60-99).
THEOREM ExecutesInSequence == Spec => InSequence
  BY TypeInit, TypeStep, TaskInit, TaskStep, PTL
     DEF Spec, InSequence, Tasks!Spec, Underway

-----------------------------------------------------------------------------
\* Only a call of deactivate in progress, or the destructor, asks the worker
\* that is there to stop.
StopHasReason ==
    worker # "none" /\ stopRequested =>
        \E t \in Owner : pc[t] \in {"join", "joining", "destroyed"}

LEMMA ReasonStep ==
    TypeOK /\ Flagged /\ StopHasReason /\ [Next]_vars => StopHasReason'
<1> SUFFICES ASSUME TypeOK, Flagged, StopHasReason, [Next]_vars
             PROVE  StopHasReason'
  OBVIOUS
<1>1. CASE UNCHANGED <<worker, stopRequested, pc>>
  BY <1>1 DEF StopHasReason
<1>2. ASSUME NEW t \in Thread, Launch(t) PROVE StopHasReason'
  BY <1>2 DEF Launch, StopHasReason
<1>3. ASSUME NEW t \in Thread,
             PushJob(t) \/ NotNeeded(t) \/ LaunchFails(t)
      PROVE  StopHasReason'
  <2>1. UNCHANGED <<worker, stopRequested>> /\ pc[t] \in {"idle", "launch"}
    BY <1>3 DEF PushJob, NotNeeded, LaunchFails, MayCall, working, thread
  <2>2. \A u \in Thread : u # t => pc'[u] = pc[u]
    BY <1>3 DEF PushJob, NotNeeded, LaunchFails, Goto, TypeOK
  <2>3. QED
    BY <2>1, <2>2, JobQueueAssumption DEF StopHasReason
<1>4. ASSUME NEW t \in Owner, Activate(t) \/ Deactivate(t)
      PROVE  StopHasReason'
  <2>1. UNCHANGED <<worker, stopRequested>> /\ pc[t] = "idle"
    BY <1>4 DEF Activate, Deactivate, MayCall, working, thread
  <2>2. \A u \in Thread : u # t => pc'[u] = pc[u]
    BY <1>4 DEF Activate, Deactivate, Goto, TypeOK
  <2>3. QED
    BY <2>1, <2>2, JobQueueAssumption DEF StopHasReason
<1>5. ASSUME NEW t \in Owner, Destroy(t) \/ RequestStop(t) \/ Join(t)
      PROVE  StopHasReason'
  <2>1. pc'[t] \in {"join", "joining", "destroyed"}
    BY <1>5, JobQueueAssumption
       DEF Destroy, RequestStop, Join, Goto, TypeOK
  <2>2. QED
    BY <2>1 DEF StopHasReason
<1>6. ASSUME NEW t \in Owner, Joined(t) PROVE StopHasReason'
  BY <1>6 DEF Joined, Ended, StopHasReason, working
<1>7. ASSUME NEW t \in Owner, Deactivated(t) PROVE StopHasReason'
  <2>1. UNCHANGED <<worker, stopRequested>> /\ pc[t] = "deactivated"
    BY <1>7 DEF Deactivated, working, thread
  <2>2. \A u \in Thread : u # t => pc'[u] = pc[u]
    BY <1>7 DEF Deactivated, Goto, TypeOK
  <2>3. QED
    BY <2>1, <2>2, JobQueueAssumption DEF StopHasReason
<1>8. ASSUME TakeJob \/ FinishJob PROVE StopHasReason'
  BY <1>8 DEF TakeJob, FinishJob, StopHasReason, thread
<1>9. ASSUME LeaveRun PROVE StopHasReason'
  BY <1>9 DEF LeaveRun, StopHasReason
<1>10. ASSUME NEW t \in Thread, LaunchWhileJoining(t) PROVE StopHasReason'
  BY <1>10, <1>1 DEF LaunchWhileJoining, working, thread
<1>11. ASSUME NEW t \in Owner, JoinThrows(t) PROVE StopHasReason'
  BY <1>11, <1>1 DEF JoinThrows, working, thread
<1>12. QED
  BY <1>1, <1>2, <1>3, <1>4, <1>5, <1>6, <1>7, <1>8, <1>9, <1>10, <1>11
     DEF Next, Calls, Controls, Run, vars, working, thread

-----------------------------------------------------------------------------
LEMMA AttendedStep ==
    ~LaunchMayFail /\ TypeOK /\ Flagged /\ StopHasReason /\ Attended
        /\ [Next]_vars => Attended'
<1> SUFFICES ASSUME ~LaunchMayFail, TypeOK, Flagged, StopHasReason, Attended,
                    [Next]_vars,
                    queue' # <<>>, active', ~Destroyed'
             PROVE  worker' # "none" \/ \E t \in Thread : pc'[t] # "idle"
  BY DEF Attended, Destroyed
<1>1. CASE UNCHANGED <<queue, active, worker, pc>>
  BY <1>1 DEF Attended, Destroyed
<1>2. ASSUME NEW t \in Thread, PushJob(t) PROVE pc'[t] # "idle"
  BY <1>2 DEF PushJob, Goto, TypeOK
<1>3. ASSUME NEW t \in Thread, NotNeeded(t) PROVE worker' # "none"
  BY <1>3 DEF NotNeeded, Needed, Flagged, FlagIsExact, flags, working
<1>4. ASSUME NEW t \in Thread, Launch(t) PROVE worker' # "none"
  BY <1>4 DEF Launch
<1>5. ASSUME NEW t \in Thread, LaunchWhileJoining(t) PROVE pc'[t] # "idle"
  BY <1>5 DEF LaunchWhileJoining
<1>6. ASSUME NEW t \in Owner,
             \/ Activate(t) \/ Deactivate(t) \/ Destroy(t) \/ RequestStop(t)
             \/ Join(t) \/ JoinThrows(t) \/ Joined(t)
      PROVE  pc'[t] # "idle"
  BY <1>6, JobQueueAssumption
     DEF Activate, Deactivate, Destroy, RequestStop, Join, JoinThrows, Joined,
         Goto, TypeOK
<1>7. ASSUME NEW t \in Owner, Deactivated(t) PROVE FALSE
  BY <1>7 DEF Deactivated
<1>8. ASSUME TakeJob \/ FinishJob PROVE worker' # "none"
  BY <1>8 DEF TakeJob, FinishJob
<1>9. ASSUME LeaveRun PROVE \E t \in Thread : pc'[t] # "idle"
  <2>1. worker # "none" /\ stopRequested /\ UNCHANGED pc
    BY <1>9 DEF LeaveRun, AskedToStop
  <2>2. PICK t \in Owner : pc[t] \in {"join", "joining", "destroyed"}
    BY <2>1 DEF StopHasReason
  <2>3. QED
    BY <2>1, <2>2, JobQueueAssumption
<1>10. ASSUME NEW t \in Thread, LaunchFails(t) PROVE FALSE
  BY <1>10 DEF LaunchFails
<1>11. QED
  BY <1>1, <1>2, <1>3, <1>4, <1>5, <1>6, <1>7, <1>8, <1>9, <1>10,
     JobQueueAssumption
     DEF Next, Calls, Controls, Run, vars, flags, working

\* No lost wakeup: if threads can be created, then jobs in an active queue
\* always have a worker, or a call in progress that is about to see to them
\* (JobQueue.cpp:60-99).
THEOREM NoLostWakeup == ~LaunchMayFail /\ Spec => []Attended
<1>1. Init => StopHasReason /\ Attended
  BY DEF Init, StopHasReason, Attended
<1>2. ~LaunchMayFail /\ TypeOK /\ Flagged /\ StopHasReason /\ Attended
        /\ [Next]_vars
      => StopHasReason' /\ Attended'
  BY ReasonStep, AttendedStep
<1>3. CASE LaunchMayFail
  BY <1>3
<1>4. CASE ~LaunchMayFail
  <2>1. TypeOK /\ Flagged /\ StopHasReason /\ Attended /\ [Next]_vars
        => StopHasReason' /\ Attended'
    BY <1>2, <1>4
  <2>2. Spec => []Attended
    BY <1>1, <2>1, TypeInit, TypeStep, PTL DEF Spec
  <2>3. QED
    BY <2>2
<1>5. QED
  BY <1>3, <1>4

-----------------------------------------------------------------------------
\* With one thread alone besides the worker's own calls, nobody launches a
\* worker between the join and the end of deactivate.
Quiet ==
    /\ Worker \in Thread /\ pc[Worker] # "idle" => worker = "job"
    /\ \A t \in Owner : pc[t] = "deactivated" => worker = "none"
    /\ InactiveIsQuiet

LEMMA QuietStep ==
    ASSUME Thread \subseteq Owner \cup {Worker},
           TypeOK, Flagged, Quiet, [Next]_vars
    PROVE  Quiet'
<1> USE JobQueueAssumption DEF TypeOK, Flagged, FlagIsExact, Quiet, InactiveIsQuiet
<1>1. CASE UNCHANGED <<active, worker, pc>>
  BY <1>1
<1>2. ASSUME NEW t \in Thread, PushJob(t) PROVE Quiet'
  BY <1>2 DEF PushJob, MayCall, Goto, flags, working
<1>3. ASSUME NEW t \in Thread, NotNeeded(t) PROVE Quiet'
  BY <1>3 DEF NotNeeded, Goto, flags, working
<1>4. ASSUME NEW t \in Thread, Launch(t) PROVE Quiet'
  <2>1. t \in Owner /\ worker = "none" /\ active
    BY <1>4 DEF Launch, Needed
  <2>2. \A u \in Owner : pc'[u] = "idle"
    BY <1>4, <2>1 DEF Launch, Goto
  <2>3. Worker \in Thread => pc'[Worker] = "idle"
    BY <1>4, <2>1 DEF Launch, Goto
  <2>4. QED
    BY <1>4, <2>1, <2>2, <2>3 DEF Launch
<1>5. ASSUME NEW t \in Thread, LaunchFails(t) PROVE Quiet'
  BY <1>5 DEF LaunchFails, Goto, flags, working
<1>6. ASSUME NEW t \in Owner, Activate(t) PROVE Quiet'
  BY <1>6 DEF Activate, Goto, working
<1>7. ASSUME NEW t \in Owner, Deactivate(t) PROVE Quiet'
  BY <1>7 DEF Deactivate, Goto, flags, working
<1>8. ASSUME NEW t \in Owner, Destroy(t) PROVE Quiet'
  BY <1>8 DEF Destroy, Goto, flags, working
<1>9. ASSUME NEW t \in Owner, RequestStop(t) PROVE Quiet'
  BY <1>9 DEF RequestStop, Goto, flags, working
<1>10. ASSUME NEW t \in Owner, Join(t) PROVE Quiet'
  BY <1>10 DEF Join, Goto, flags, working
<1>11. ASSUME NEW t \in Owner, Joined(t) PROVE Quiet'
  BY <1>11 DEF Joined, Ended, Goto, flags, working
<1>12. ASSUME NEW t \in Owner, Deactivated(t) PROVE Quiet'
  BY <1>12 DEF Deactivated, Goto, working
<1>13. ASSUME TakeJob PROVE Quiet'
  BY <1>13 DEF TakeJob, flags
<1>14. ASSUME FinishJob PROVE Quiet'
  BY <1>14 DEF FinishJob, flags
<1>15. ASSUME LeaveRun PROVE Quiet'
  BY <1>15 DEF LeaveRun
<1>16. ASSUME NEW t \in Thread, LaunchWhileJoining(t) PROVE Quiet'
  BY <1>16, <1>1 DEF LaunchWhileJoining, flags, working
<1>17. ASSUME NEW t \in Owner, JoinThrows(t) PROVE Quiet'
  BY <1>17, <1>1 DEF JoinThrows, flags, working
<1>18. QED
  BY <1>1, <1>2, <1>3, <1>4, <1>5, <1>6, <1>7, <1>8, <1>9, <1>10, <1>11,
     <1>12, <1>13, <1>14, <1>15, <1>16, <1>17
     DEF Next, Calls, Controls, Run, vars, flags, working

\* When one thread makes all the calls, a job queue that says it is inactive
\* has no worker, even if jobs add jobs (JobQueue.cpp:41-58).
THEOREM DeactivatedIsQuiet ==
    ASSUME Thread \subseteq Owner \cup {Worker}
    PROVE  Spec => []InactiveIsQuiet
<1>1. Init => Quiet
  BY JobQueueAssumption DEF Init, Quiet, InactiveIsQuiet
<1>2. TypeOK /\ Flagged /\ Quiet /\ [Next]_vars => Quiet'
  BY QuietStep
<1>3. Quiet => InactiveIsQuiet
  BY DEF Quiet
<1>4. QED
  BY <1>1, <1>2, <1>3, TypeInit, TypeStep, PTL DEF Spec
=============================================================================
