----------------------------- MODULE EventLoop -----------------------------
(***************************************************************************)
(* EventLoop and the calls of PTN_Engine that reach it through             *)
(* PTN_EngineImpProxy: threads of the program add tokens, execute, stop    *)
(* and reconfigure the engine, each call under the proxy's m_mutex, while  *)
(* the thread of the event loop runs rounds of PTN_EngineImp::executeInt   *)
(* and sleeps when a round fires nothing.  What a round does to the marking*)
(* is in module Firing; here a round looks at the tokens that have come    *)
(* and fires something or nothing.                                         *)
(*                                                                         *)
(* The proxy's m_mutex is a variable, since calls wait while they hold it. *)
(* m_eventNotifierMutex and m_sleepDurationMutex are held by the loop in   *)
(* some of its states and otherwise within one step.                       *)
(***************************************************************************)
EXTENDS Naturals

CONSTANTS
    Thread,          \* threads that call the engine
    Loop,            \* in Thread when actions call the engine from the loop
    NoThread,
    LaunchMayFail    \* whether the system may refuse to create a thread

ASSUME EventLoopAssumption ==
    /\ NoThread \notin Thread \cup {Loop}
    /\ LaunchMayFail \in BOOLEAN

VARIABLES
    proxy,           \* who holds PTN_EngineImpProxy::m_mutex for writing
    option,          \* whether m_actionsThreadOption is SINGLE_THREAD
    running,         \* m_eventLoopThreadRunning
    newInput,        \* m_newInputReceived
    unseen,          \* a token came that no round has looked at
    unannounced,     \* such a token, of a call that ended before it raised the flag
    loop,            \* where in run() the thread of the event loop is
    hasThread,       \* m_eventLoopThread has been assigned a thread
    stopRequested,   \* stop state of that thread
    arrivals,        \* arrivals at the barrier *m_barrier
    pc               \* what each calling thread is doing

settings == <<option, running>>
events == <<newInput, unseen, unannounced>>
thread == <<loop, hasThread, stopRequested, arrivals>>
vars == <<proxy, settings, events, thread, pc>>

\* Calls that wait for the proxy's mutex, and their further steps with it.
Request == {"increment", "execute", "stop", "setOption", "setSleep"}
Holding == {"flag", "notify", "rounds", "launch", "arrive", "barrier",
            "sleepMutex"}

Round == {"clear", "collect", "fire", "lock", "decided", "asleep", "woken"}
Looping == {"check"} \cup Round
LoopState == {"none", "arrive", "atBarrier", "gone"} \cup Looping

Init ==
    /\ proxy = NoThread
    /\ option \in {"SINGLE_THREAD", "EVENT_LOOP"}
    /\ running = FALSE
    /\ newInput = FALSE
    /\ unseen = FALSE
    /\ unannounced = FALSE
    /\ loop = "none"
    /\ hasThread = FALSE
    /\ stopRequested = FALSE
    /\ arrivals = 0
    /\ pc = [t \in Thread |-> "idle"]

Goto(t, step) == pc' = [pc EXCEPT ![t] = step]

Call(t) ==
    /\ pc[t] = "idle"
    /\ t = Loop => loop = "fire"
    /\ \E request \in Request : Goto(t, request)
    /\ UNCHANGED <<proxy, settings, events, thread>>

\* A call gets the proxy's mutex and goes on to a step that holds it, or
\* does all it does at once and returns.
Enter(t, request, step) ==
    /\ pc[t] = request
    /\ proxy = NoThread
    /\ proxy' = t
    /\ Goto(t, step)

Pass(t, request) ==
    /\ pc[t] = request
    /\ proxy = NoThread
    /\ UNCHANGED proxy
    /\ Goto(t, "idle")

Return(t) == proxy' = NoThread /\ Goto(t, "idle")

\* A step of the thread of the event loop.
Advance(from, to) ==
    /\ loop = from
    /\ loop' = to
    /\ UNCHANGED <<proxy, option, hasThread, stopRequested, pc>>

(***************************************************************************)
(* Variants of the code, each with a bug that a property below finds.      *)
(***************************************************************************)
\* notifyNewEvent does not take m_eventNotifierMutex.
NoNotifierMutex == TRUE

\* incrementInputPlace does not notify.
NotNotified == loop

\* start() keeps the barrier of the thread before.
SameBarrier == arrivals

\* The wait is resumed when its time is up.
WaitsOn ==
    /\ Advance("asleep", "woken")
    /\ UNCHANGED <<running, events, arrivals>>

\* setActionsThreadOption does not ask whether the loop is running.
AlwaysReconfigure == TRUE

\* run() lowers m_eventLoopThreadRunning as soon as it is asked to stop, with
\* a last round to go.
LowersEarly ==
    /\ Advance("check", "clear")
    /\ running' = ~stopRequested
    /\ UNCHANGED <<events, arrivals>>

\* run() asks for the stop only when a round has fired nothing.
FiresOn ==
    /\ Advance("fire", "clear") \/ Advance("fire", "lock")
    /\ UNCHANGED <<running, events, arrivals>>

(***************************************************************************)
(* incrementInputPlace: the token, then the flag, then the notification.   *)
(***************************************************************************)
PutToken(t) ==
    /\ Enter(t, "increment", "flag")
    /\ unseen' = TRUE
    /\ UNCHANGED <<settings, newInput, unannounced, thread>>

\* The place's action throws, or no thread can be created for it: the token
\* stays, the call ends without telling the loop.
PutTokenAndThrow(t) ==
    /\ Pass(t, "increment")
    /\ unannounced' = TRUE
    /\ UNCHANGED <<settings, newInput, unseen, thread>>

RaiseFlag(t) ==
    /\ pc[t] = "flag"
    /\ newInput' = TRUE
    /\ Goto(t, "notify")
    /\ UNCHANGED <<proxy, settings, unseen, unannounced, thread>>

Notified == IF loop = "asleep" THEN "woken" ELSE loop

\* The loop holds m_eventNotifierMutex from its test of the flag to its wait.
NotifierFree == loop # "decided"

NotifyNewEvent(t) ==
    /\ pc[t] = "notify"
    /\ NotifierFree
    /\ loop' = Notified
    /\ Return(t)
    /\ UNCHANGED <<settings, events, hasThread, stopRequested, arrivals>>

(***************************************************************************)
(* execute.                                                                *)
(***************************************************************************)
ExecuteRefused(t) ==
    /\ Pass(t, "execute")
    /\ running
    /\ UNCHANGED <<settings, events, thread>>

ExecuteHere(t) ==
    /\ Enter(t, "execute", "rounds")
    /\ ~running
    /\ option = "SINGLE_THREAD"
    /\ UNCHANGED <<settings, events, thread>>

\* executeInt in the thread that calls, until a round fires nothing.
RoundHere(t) ==
    /\ pc[t] = "rounds"
    /\ newInput' = FALSE
    /\ unseen' = FALSE
    /\ unannounced' = FALSE
    /\ UNCHANGED <<proxy, pc>> \/ Return(t)
    /\ UNCHANGED <<settings, thread>>

FreshBarrier == 0

NewBarrier(t) ==
    /\ Enter(t, "execute", "launch")
    /\ ~running
    /\ option # "SINGLE_THREAD"
    /\ arrivals' = FreshBarrier
    /\ running' = TRUE
    /\ UNCHANGED <<option, events, loop, hasThread, stopRequested>>

\* The assignment joins the thread m_eventLoopThread had; until it ends, it
\* only returns from the barrier.
Launch(t) ==
    /\ pc[t] = "launch"
    /\ loop \in {"none", "gone"}
    /\ loop' = "check"
    /\ hasThread' = TRUE
    /\ stopRequested' = FALSE
    /\ Return(t)
    /\ UNCHANGED <<settings, events, arrivals>>

LaunchFails(t) ==
    /\ LaunchMayFail
    /\ pc[t] = "launch"
    /\ Return(t)
    /\ UNCHANGED <<settings, events, thread>>

(***************************************************************************)
(* stop.                                                                   *)
(***************************************************************************)
NothingToStop(t) ==
    /\ Pass(t, "stop")
    /\ ~running \/ ~hasThread
    /\ UNCHANGED <<settings, events, thread>>

RequestStop(t) ==
    /\ Enter(t, "stop", "arrive")
    /\ running /\ hasThread
    /\ stopRequested' = TRUE
    /\ UNCHANGED <<settings, events, loop, hasThread, arrivals>>

Arrive(t) ==
    /\ pc[t] = "arrive"
    /\ arrivals' = arrivals + 1
    /\ Goto(t, "barrier")
    /\ UNCHANGED <<proxy, settings, events, loop, hasThread, stopRequested>>

Stopped(t) ==
    /\ pc[t] = "barrier"
    /\ arrivals = 2
    /\ Return(t)
    /\ UNCHANGED <<settings, events, thread>>

(***************************************************************************)
(* setActionsThreadOption, and clearNet which refuses in the same way;     *)
(* setEventLoopSleepDuration.                                              *)
(***************************************************************************)
MayReconfigure == ~running

SetOption(t) ==
    /\ Pass(t, "setOption")
    /\ MayReconfigure
    /\ option' \in {"SINGLE_THREAD", "EVENT_LOOP"}
    /\ UNCHANGED <<running, events, thread>>

SetOptionRefused(t) ==
    /\ Pass(t, "setOption")
    /\ ~MayReconfigure
    /\ UNCHANGED <<settings, events, thread>>

SetSleepDuration(t) ==
    /\ Enter(t, "setSleep", "sleepMutex")
    /\ UNCHANGED <<settings, events, thread>>

SleepDurationSet(t) ==
    /\ pc[t] = "sleepMutex"
    /\ loop \notin {"decided", "asleep", "woken"}
    /\ Return(t)
    /\ UNCHANGED <<settings, events, thread>>

(***************************************************************************)
(* run(), in the thread of the event loop.                                 *)
(***************************************************************************)
BeginRound ==
    /\ Advance("check", "clear")
    /\ ~stopRequested
    /\ UNCHANGED <<running, events, arrivals>>

LeaveLoop ==
    /\ Advance("check", "arrive")
    /\ stopRequested
    /\ running' = FALSE
    /\ UNCHANGED <<events, arrivals>>

ClearNewInput ==
    /\ Advance("clear", "collect")
    /\ newInput' = FALSE
    /\ UNCHANGED <<running, unseen, unannounced, arrivals>>

Collect ==
    /\ Advance("collect", "fire")
    /\ unseen' = FALSE
    /\ unannounced' = FALSE
    /\ UNCHANGED <<running, newInput, arrivals>>

\* A round that fired nothing goes to sleep.  It ends when its actions have.
EndRound ==
    /\ Loop \in Thread => pc[Loop] = "idle"
    /\ Advance("fire", "check") \/ Advance("fire", "lock")
    /\ UNCHANGED <<running, events, arrivals>>

\* The predicate of wait_for, with both mutexes held.
Awaken ==
    /\ Advance("lock", "check") \/ Advance("woken", "check")
    /\ newInput
    /\ UNCHANGED <<running, events, arrivals>>

DecideToSleep ==
    /\ Advance("lock", "decided") \/ Advance("woken", "decided")
    /\ ~newInput
    /\ UNCHANGED <<running, events, arrivals>>

FallAsleep ==
    /\ Advance("decided", "asleep")
    /\ UNCHANGED <<running, events, arrivals>>

TimeOut ==
    /\ Advance("asleep", "check")
    /\ UNCHANGED <<running, events, arrivals>>

WakeSpuriously ==
    /\ Advance("asleep", "woken")
    /\ UNCHANGED <<running, events, arrivals>>

ArriveAtBarrier ==
    /\ Advance("arrive", "atBarrier")
    /\ arrivals' = arrivals + 1
    /\ UNCHANGED <<running, events>>

\* Both have arrived.  start() may by then have replaced the barrier.
LeaveBarrier ==
    /\ Advance("atBarrier", "gone")
    /\ arrivals # 1
    /\ UNCHANGED <<running, events, arrivals>>

-----------------------------------------------------------------------------
\* What a call does once it has been made.
Proceed(t) ==
    \/ PutToken(t) \/ PutTokenAndThrow(t) \/ RaiseFlag(t) \/ NotifyNewEvent(t)
    \/ ExecuteRefused(t) \/ ExecuteHere(t) \/ RoundHere(t)
    \/ NewBarrier(t) \/ Launch(t)
    \/ NothingToStop(t) \/ RequestStop(t) \/ Arrive(t) \/ Stopped(t)
    \/ SetOption(t) \/ SetOptionRefused(t)
    \/ SetSleepDuration(t) \/ SleepDurationSet(t)

RunStep ==
    \/ BeginRound \/ LeaveLoop \/ ClearNewInput \/ Collect \/ EndRound
    \/ Awaken \/ DecideToSleep \/ FallAsleep
    \/ ArriveAtBarrier \/ LeaveBarrier

Next ==
    \/ \E t \in Thread : Call(t) \/ Proceed(t) \/ LaunchFails(t)
    \/ RunStep \/ TimeOut \/ WakeSpuriously

\* Threads are scheduled, and the rounds of a SINGLE_THREAD net come to an
\* end; nobody has to call, and the sleep need not end.
Fairness ==
    /\ WF_vars(RunStep)
    /\ \A t \in Thread : WF_vars(Proceed(t))

Spec == Init /\ [][Next]_vars /\ Fairness

\* The sleep ends after m_sleepDuration, however often it is interrupted, and
\* a thread that waits for a mutex of the loop gets it if it is free again and
\* again.
TimedFairness ==
    /\ SF_vars(TimeOut)
    /\ \A t \in Thread : SF_vars(NotifyNewEvent(t) \/ SleepDurationSet(t))

-----------------------------------------------------------------------------
TypeOK ==
    /\ proxy \in Thread \cup {NoThread}
    /\ option \in {"SINGLE_THREAD", "EVENT_LOOP"}
    /\ running \in BOOLEAN
    /\ newInput \in BOOLEAN
    /\ unseen \in BOOLEAN
    /\ unannounced \in BOOLEAN
    /\ loop \in LoopState
    /\ hasThread \in BOOLEAN
    /\ stopRequested \in BOOLEAN
    /\ arrivals \in 0 .. 2
    /\ pc \in [Thread -> {"idle"} \cup Request \cup Holding]

\* No lost wakeup: the loop does not sleep on a token it has not looked at,
\* unless the call that put the token is about to wake it
\* (PTN_EngineImp.cpp:112-117 and 155-158, EventLoop.cpp:73-77 and 94-103).
NoLostWakeup ==
    unseen /\ loop \in {"decided", "asleep"} =>
        \E t \in Thread : pc[t] \in {"flag", "notify"}

\* A token is looked at, without waiting for the sleep to end, unless the
\* loop is stopped first or never started; not so one whose call ended by an
\* exception (PTN_EngineImp.cpp:112-117),
TokensAreSeen == unseen ~> (~unseen \/ loop \notin Round)

\* for which the end of the sleep is needed (EventLoop.cpp:98-101).
ThrownTokensAreSeen ==
    TimedFairness => (unannounced ~> (~unannounced \/ loop \notin Round))

\* When isRunning() is false the loop is in no round, so a net may be cleared
\* and its options changed (PTN_EngineImp.cpp:49-57 and 119-138).
RestsWhenNotRunning == ~running => loop \notin Looping

\* The option is never changed under a round: what the loop and a call of
\* execute decided with it remains true (EventLoop.cpp:54-71).
OptionIsStable ==
    [][option' # option =>
          loop \notin Looping /\ \A t \in Thread : pc[t] # "rounds"
      ]_vars

\* start() raised the running flag and made a new barrier, but could not create
\* the thread that stop() waits for there; the one before is done.
AwaitsNoThread(t) ==
    LaunchMayFail /\ pc[t] = "barrier" /\ arrivals = 1 /\ loop \in {"atBarrier", "gone"}

\* If the sleep ends in time, every call returns the proxy's mutex, so no call
\* blocks the engine for ever; in particular stop() returns, unless there is
\* no thread to stop (EventLoop.cpp:40-52, 54-71 and 92-106).
MutexIsReturned ==
    TimedFairness => \A t \in Thread : proxy = t ~> proxy # t \/ AwaitsNoThread(t)

\* A call and the loop do not wait for each other: stop() holds the proxy's
\* mutex until the loop arrives, the loop runs its actions before it does.
NoEmbraceInStop ==
    ~ /\ \E t \in Thread : pc[t] = "barrier"
      /\ Loop \in Thread
      /\ pc[Loop] \in Request \cup {"barrier"}
=============================================================================
