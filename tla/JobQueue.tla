------------------------------ MODULE JobQueue ------------------------------
(***************************************************************************)
(* JobQueue: the queue behind the JOB_QUEUE option.  Threads add jobs; a   *)
(* worker thread, launched when there is something to do, executes them    *)
(* and leaves when there is nothing left or it is asked to stop.  Inside   *)
(* the engine nobody activates or deactivates it (Owner is empty); the     *)
(* class offers both operations.                                           *)
(*                                                                         *)
(* What is done under m_jobQueueMutex is one step.  deactivate() uses      *)
(* m_workerThread without that mutex, launch() assigns it under it: the    *)
(* steps of the two interleave, and an assignment while deactivate() is    *)
(* joining has the one outcome that it has in practice, two joins of one   *)
(* thread, of which the second throws out of a noexcept function.          *)
(***************************************************************************)
EXTENDS Integers, Sequences

CONSTANTS
    Thread,          \* threads that call the queue
    Owner,           \* those that activate, deactivate and destroy it
    Worker,          \* in Thread when jobs may themselves add jobs
    LaunchMayFail,   \* whether the system may refuse to create a thread
    MaxPushed        \* bound: jobs added in a behaviour

ASSUME JobQueueAssumption ==
    /\ Owner \subseteq Thread \ {Worker}
    /\ \A s, t \in Owner : s = t
    /\ LaunchMayFail \in BOOLEAN
    /\ MaxPushed \in Nat

VARIABLES
    active,          \* m_isJobQueueActive
    running,         \* m_isJobQueueRunning
    queue,           \* m_jobQueue from back to front: jobs, oldest first
    worker,          \* where in run() the worker thread is, "none" if in none
    job,             \* the job it executes, 0 if none
    handle,          \* m_workerThread: no thread yet, a thread, a joined one
    stopRequested,   \* the stop state that m_workerThread and run() share
    pc,              \* what each calling thread is doing
    pushed,          \* how many jobs have been added; job n is the n-th
    terminated       \* std::terminate has been called

flags == <<active, running>>
working == <<worker, job>>
thread == <<handle, stopRequested>>
vars == <<flags, queue, working, thread, pc, pushed, terminated>>

Call == {"idle", "launch", "stop", "join", "joining", "deactivated",
         "destroyed"}

Init ==
    /\ active = TRUE
    /\ running = FALSE
    /\ queue = <<>>
    /\ worker = "none" /\ job = 0
    /\ handle = "empty" /\ stopRequested = FALSE
    /\ pc = [t \in Thread |-> "idle"]
    /\ pushed = 0
    /\ terminated = FALSE

(***************************************************************************)
(* Who may call.  The worker thread calls from the job it executes; nobody *)
(* calls a queue that is being destroyed, except the job it still executes.*)
(***************************************************************************)
Destroyed == \E t \in Owner : pc[t] = "destroyed"

MayCall(t) ==
    /\ ~terminated
    /\ pc[t] = "idle"
    /\ IF t = Worker THEN worker = "job" ELSE ~Destroyed

Goto(t, call) == pc' = [pc EXCEPT ![t] = call]

(***************************************************************************)
(* Variants of the code, each with a bug that a property below finds.      *)
(***************************************************************************)
\* run pops the job that was pushed last.
NewestJob == queue[Len(queue)]

\* run does not lower m_isJobQueueRunning.
StillRunning == TRUE

\* deactivate does not wait for the thread it stopped.
NoJoin == TRUE

(***************************************************************************)
(* addJob and activate, which both end in launch.                          *)
(***************************************************************************)
PushJob(t) ==
    /\ MayCall(t)
    /\ pushed < MaxPushed
    /\ pushed' = pushed + 1
    /\ queue' = Append(queue, pushed')
    /\ Goto(t, "launch")
    /\ UNCHANGED <<flags, working, thread, terminated>>

Activate(t) ==
    /\ MayCall(t)
    /\ ~active
    /\ active' = TRUE
    /\ Goto(t, "launch")
    /\ UNCHANGED <<running, queue, working, thread, pushed, terminated>>

Needed == ~running /\ queue # <<>> /\ active

NotNeeded(t) ==
    /\ pc[t] = "launch"
    /\ ~Needed
    /\ Goto(t, "idle")
    /\ UNCHANGED <<flags, queue, working, thread, pushed, terminated>>

\* The assignment joins the thread m_workerThread had, which has left run().
Launch(t) ==
    /\ pc[t] = "launch"
    /\ Needed
    /\ \A u \in Owner : pc[u] # "joining"
    /\ running' = TRUE
    /\ worker' = "locking"
    /\ handle' = "thread"
    /\ stopRequested' = FALSE
    /\ Goto(t, "idle")
    /\ UNCHANGED <<active, queue, job, pushed, terminated>>

LaunchFails(t) ==
    /\ LaunchMayFail
    /\ pc[t] = "launch"
    /\ Needed
    /\ Goto(t, "idle")
    /\ UNCHANGED <<flags, queue, working, thread, pushed, terminated>>

LaunchWhileJoining(t) ==
    /\ pc[t] = "launch"
    /\ Needed
    /\ \E u \in Owner : pc[u] = "joining"
    /\ terminated' = TRUE
    /\ UNCHANGED <<flags, queue, working, thread, pc, pushed>>

(***************************************************************************)
(* The worker thread.  Each step holds the mutex, except the end of a job. *)
(***************************************************************************)
NextJob == Head(queue)

AskedToStop == stopRequested

TakeJob ==
    /\ worker = "locking"
    /\ queue # <<>> /\ ~AskedToStop
    /\ job' = NextJob
    /\ queue' = Tail(queue)
    /\ worker' = "job"
    /\ UNCHANGED <<flags, thread, pc, pushed, terminated>>

FinishJob ==
    /\ worker = "job"
    /\ Worker \in Thread => pc[Worker] = "idle"
    /\ worker' = "locking"
    /\ job' = 0
    /\ UNCHANGED <<flags, queue, thread, pc, pushed, terminated>>

RunningAfterRun == FALSE

LeaveRun ==
    /\ worker = "locking"
    /\ queue = <<>> \/ AskedToStop
    /\ running' = RunningAfterRun
    /\ worker' = "none"
    /\ UNCHANGED <<active, queue, job, thread, pc, pushed, terminated>>

(***************************************************************************)
(* deactivate and the destructor.  A thread object that never had a thread *)
(* has no stop state; one that was joined keeps it.                        *)
(***************************************************************************)
Deactivate(t) ==
    /\ MayCall(t)
    /\ active
    /\ Goto(t, IF handle = "empty" THEN "deactivated" ELSE "stop")
    /\ UNCHANGED <<flags, queue, working, thread, pushed, terminated>>

RequestStop(t) ==
    /\ pc[t] = "stop"
    /\ stopRequested' = TRUE
    /\ Goto(t, "join")
    /\ UNCHANGED <<flags, queue, working, handle, pushed, terminated>>

Join(t) ==
    /\ pc[t] = "join"
    /\ handle = "thread"
    /\ Goto(t, "joining")
    /\ UNCHANGED <<flags, queue, working, thread, pushed, terminated>>

\* join() of a thread that is not joinable throws, and deactivate is noexcept.
JoinThrows(t) ==
    /\ pc[t] = "join"
    /\ handle # "thread"
    /\ terminated' = TRUE
    /\ UNCHANGED <<flags, queue, working, thread, pc, pushed>>

Ended == worker = "none"

Joined(t) ==
    /\ pc[t] = "joining"
    /\ Ended
    /\ handle' = "joined"
    /\ Goto(t, "deactivated")
    /\ UNCHANGED <<flags, queue, working, stopRequested, pushed, terminated>>

Deactivated(t) ==
    /\ pc[t] = "deactivated"
    /\ active' = FALSE
    /\ Goto(t, "idle")
    /\ UNCHANGED <<running, queue, working, thread, pushed, terminated>>

\* Destruction begins when no other call is in progress; ~jthread asks the
\* worker to stop and waits for it.
Destroy(t) ==
    /\ MayCall(t)
    /\ \A u \in Thread \ {Worker} : pc[u] = "idle"
    /\ stopRequested' = (handle # "empty")
    /\ Goto(t, "destroyed")
    /\ UNCHANGED <<flags, queue, working, handle, pushed, terminated>>

-----------------------------------------------------------------------------
Calls(t) ==
    \/ PushJob(t) \/ NotNeeded(t)
    \/ Launch(t) \/ LaunchFails(t) \/ LaunchWhileJoining(t)

Controls(t) ==
    \/ Activate(t) \/ Deactivate(t) \/ Destroy(t)
    \/ RequestStop(t) \/ Join(t) \/ JoinThrows(t)
    \/ Joined(t) \/ Deactivated(t)

Run == TakeJob \/ FinishJob \/ LeaveRun

Next ==
    /\ ~terminated
    /\ \/ \E t \in Thread : Calls(t)
       \/ \E t \in Owner : Controls(t)
       \/ Run

\* A call goes on and so does the worker, whose jobs end; nobody has to call.
Progress(t) ==
    /\ ~terminated
    /\ \/ NotNeeded(t) \/ Launch(t) \/ LaunchWhileJoining(t)
       \/ RequestStop(t) \/ Join(t) \/ JoinThrows(t)
       \/ Joined(t) \/ Deactivated(t)

Fairness ==
    /\ WF_vars(~terminated /\ Run)
    /\ \A t \in Thread : WF_vars(Progress(t))

Spec == Init /\ [][Next]_vars /\ Fairness

-----------------------------------------------------------------------------
TypeOK ==
    /\ active \in BOOLEAN /\ running \in BOOLEAN
    /\ queue \in Seq(Nat)
    /\ worker \in {"none", "locking", "job"}
    /\ job \in Nat
    /\ handle \in {"empty", "thread", "joined"}
    /\ stopRequested \in BOOLEAN
    /\ pc \in [Thread -> Call]
    /\ pushed \in Nat
    /\ terminated \in BOOLEAN

\* m_isJobQueueRunning, on which launch decides, is exact: there is never a
\* second worker, and never none that is taken for one (JobQueue.cpp:60-89).
FlagIsExact == running <=> worker # "none"

\* launch, run and the flag m_isJobQueueRunning execute the jobs as a queue
\* should: one at a time, in the order of addJob, whatever is activated,
\* deactivated, stopped and launched again in between (JobQueue.cpp:60-99).
Tasks == INSTANCE TaskSequence WITH
            Task <- 1 .. MaxPushed,
            waiting <- queue,
            underway <- IF worker = "job" THEN {job} ELSE {}

InSequence == Tasks!Spec

\* No lost wakeup: while jobs wait in an active queue, a worker is there to
\* take them, or a call in progress is about to look (JobQueue.cpp:60-99: the
\* flag is lowered under the mutex under which launch reads it).
Attended ==
    (queue # <<>> /\ active /\ ~Destroyed) =>
        \/ worker # "none"
        \/ \E t \in Thread : pc[t] # "idle"

\* isActive() being false means that no job is executed, nor will be before
\* the next activate (JobQueue.h:48-59).
InactiveIsQuiet == ~active => worker = "none"

\* Every job that is added is executed if in the end the queue stays active
\* and is not destroyed.
JobsAreExecuted ==
    <>[](active /\ ~Destroyed /\ ~terminated)
        => \A n \in 1 .. MaxPushed :
             (pushed >= n) ~> (queue = <<>> \/ Head(queue) > n)

\* deactivate(), declared noexcept, does not end the process.
NeverTerminates == ~terminated
=============================================================================
