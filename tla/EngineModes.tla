----------------------------- MODULE EngineModes -----------------------------
(***************************************************************************)
(* Where the actions of the places are executed, and what becomes of those *)
(* under way when the engine gets another executor (setActionsThreadOption)*)
(* or loses its places (clearNet, the destructor).                         *)
(*                                                                         *)
(* A token that enters a place hands the place's action to the executor of *)
(* the moment, together with a reference to the place's counter of actions *)
(* in execution.  JobQueue shows how a queue finds a thread for its jobs,  *)
(* EventLoop how the loop is started and stopped; here a queue has its     *)
(* worker and starting and stopping are steps.  The calls of the engine    *)
(* are made under the mutex of the proxy, one at a time; those made by an  *)
(* action of the queue or of a detached thread are among them.             *)
(***************************************************************************)
EXTENDS Integers, Sequences, SequencesExt, FiniteSets

CONSTANTS
    Place,            \* places with an on-enter action
    Calling,          \* those whose action calls incrementInputPlace
    InitialOption,    \* the option the engine is constructed with
    LaunchMayFail,    \* whether the system may refuse to create a thread
    UserCodeMayThrow, \* whether an action may end by an exception
    MaxEntered,       \* bound: tokens that enter a place
    MaxClears         \* bound: calls of clearNet

Option == {"SINGLE_THREAD", "EVENT_LOOP", "DETACHED", "JOB_QUEUE"}

ASSUME EngineModesAssumption ==
    /\ Calling \subseteq Place
    /\ InitialOption \in Option
    /\ LaunchMayFail \in BOOLEAN
    /\ UserCodeMayThrow \in BOOLEAN
    /\ MaxEntered \in Nat
    /\ MaxClears \in Nat

VARIABLES
    option,      \* m_actionsThreadOption
    running,     \* the event loop is running
    places,      \* places of the net
    net,         \* how often the net was cleared: tells places of one name apart
    counter,     \* Place::m_onEnterActionsInExecution
    queue,       \* jobs of the JobQueueExecutor's queue, oldest first
    working,     \* the job its worker executes, if any (a set)
    retiring,    \* the job that a destroyed executor's worker still executes
    detached,    \* jobs of detached threads
    inLoop,      \* the job that a thread executes itself that fires transitions, if any
    inCall,      \* the job that a caller of incrementInputPlace executes, if any
    call,        \* the call that holds the proxy's mutex
    target,      \* the option being set
    entered,     \* how many tokens have entered; job n is of the n-th
    called,      \* numbers of the jobs whose action has made its call
    lost,        \* history: actions, by place, that nobody will count down any more:
                 \* dropped with their queue, never started, or ended by an exception
    cutShort,    \* history: places went away while a counter was up
    undefined    \* an action or a counter was used after its place went away

jobs == <<queue, working, retiring, detached, inLoop, inCall>>
calls == <<call, target>>
history == <<lost, cutShort>>
vars == <<option, running, places, net, counter, jobs, calls, entered, called,
          history, undefined>>

Init ==
    /\ option = InitialOption
    /\ running = FALSE
    /\ places = Place
    /\ net = 0
    /\ counter = [p \in Place |-> 0]
    /\ queue = <<>>
    /\ working = {} /\ retiring = {} /\ detached = {} /\ inLoop = {} /\ inCall = {}
    /\ call = "none" /\ target = InitialOption
    /\ entered = 0
    /\ called = {}
    /\ lost = [p \in Place |-> 0]
    /\ cutShort = FALSE
    /\ undefined = FALSE

Orphan(job) == job.net # net
-----------------------------------------------------------------------------
(***************************************************************************)
(* A token enters p: the executor counts the action and takes it over.     *)
(***************************************************************************)
NewJob(p) == [number |-> entered + 1, place |-> p, net |-> net]

CountUp(p) == counter' = [counter EXCEPT ![p] = @ + 1]

\* SingleThreadExecutor: the thread that enters the place executes the action.
RunInline(p, mine) ==
    /\ option \in {"SINGLE_THREAD", "EVENT_LOOP"}
    /\ mine' = {NewJob(p)}
    /\ CountUp(p)
    /\ UNCHANGED <<queue, detached, lost>>

\* JobQueueExecutor.
Enqueue(p) ==
    /\ option = "JOB_QUEUE"
    /\ queue' = Append(queue, NewJob(p))
    /\ CountUp(p)
    /\ UNCHANGED <<detached, lost>>

\* Bug: the thread counts itself, some time after it was created.
DetachUncounted(p) ==
    /\ option = "DETACHED"
    /\ detached' = detached \cup {NewJob(p)}
    /\ UNCHANGED <<counter, queue, lost>>

\* DetachedExecutor.
Detach(p) ==
    /\ option = "DETACHED"
    /\ detached' = detached \cup {NewJob(p)}
    /\ CountUp(p)
    /\ UNCHANGED <<queue, lost>>

\* The constructor of the thread throws, the counter stays up.
DetachFails(p) ==
    /\ LaunchMayFail
    /\ option = "DETACHED"
    /\ CountUp(p)
    /\ lost' = [lost EXCEPT ![p] = @ + 1]
    /\ UNCHANGED <<queue, detached>>

MayEnter(p) ==
    /\ p \in places
    /\ entered < MaxEntered
    /\ entered' = entered + 1
    /\ UNCHANGED <<option, running, places, net, working, retiring, cutShort, undefined>>

(***************************************************************************)
(* By a transition that the event loop, or execute() itself, fires; when a *)
(* thread cannot be created in the loop, the process ends.                 *)
(***************************************************************************)
LoopEnters(p) ==
    /\ running \/ call = "execute"
    /\ inLoop = {}
    /\ MayEnter(p)
    /\ \/ RunInline(p, inLoop)
       \/ (Enqueue(p) \/ Detach(p)) /\ UNCHANGED inLoop
    /\ UNCHANGED <<inCall, calls, called>>

\* By a call of incrementInputPlace from outside of the net's actions.
CallerEnters(p) ==
    /\ call = "none"
    /\ MayEnter(p)
    /\ \/ RunInline(p, inCall) /\ call' = "increment"
       \/ (Enqueue(p) \/ Detach(p) \/ DetachFails(p)) /\ UNCHANGED <<inCall, call>>
    /\ UNCHANGED <<inLoop, target, called>>

(***************************************************************************)
(* By an action that runs in a thread of its own.  What the call throws,   *)
(* the action catches: out of that thread it would end the process.  An    *)
(* action executed inline would call from a thread that may hold the mutex *)
(* (see EventLoop).                                                        *)
(***************************************************************************)
ActionCalls(job, p) ==
    /\ job.place \in Calling
    /\ job.number \notin called
    /\ call = "none"
    /\ MayEnter(p)
    /\ \/ RunInline(p, inCall) /\ call' = "increment"
       \/ (Enqueue(p) \/ Detach(p) \/ DetachFails(p)) /\ UNCHANGED <<inCall, call>>
    /\ called' = called \cup {job.number}
    /\ UNCHANGED <<inLoop, target>>

\* The bound on the tokens is reached: the action is taken not to call.
ActionDoesNotCall(job) ==
    /\ job.place \in Calling
    /\ job.number \notin called
    /\ call = "none"
    /\ entered = MaxEntered
    /\ called' = called \cup {job.number}
    /\ UNCHANGED <<option, running, places, net, counter, jobs, calls, entered, history,
                   undefined>>

\* The engine it calls is being destroyed.
ActionCallsTooLate(job) ==
    /\ job.place \in Calling
    /\ job.number \notin called
    /\ call \in {"destroy", "destroyed"}
    /\ undefined' = TRUE
    /\ UNCHANGED <<option, running, places, net, counter, jobs, calls, entered, called, history>>
-----------------------------------------------------------------------------
(***************************************************************************)
(* Actions begin and end.  A job that uses its place after that went away  *)
(* has no defined outcome; the model goes no further.                      *)
(***************************************************************************)
Use(job) == undefined' = Orphan(job)

HasCalled(job) == job.place \in Calling => job.number \in called

\* Bug: the end of an action is not counted.
KeepsCount(job) == UNCHANGED counter

CountDown(job) ==
    counter' = IF Orphan(job) THEN counter ELSE [counter EXCEPT ![job.place] = @ - 1]

NeverCountDown(job) ==
    lost' = IF Orphan(job) THEN lost ELSE [lost EXCEPT ![job.place] = @ + 1]

TakeJob ==
    /\ queue # <<>>
    /\ working = {}
    /\ working' = {Head(queue)}
    /\ queue' = Tail(queue)
    /\ Use(Head(queue))
    /\ UNCHANGED <<option, running, places, net, counter, retiring, detached, inLoop, inCall,
                   calls, entered, called, history>>

FinishWorking ==
    \E job \in working :
        /\ HasCalled(job)
        /\ working' = {}
        /\ Use(job)
        /\ CountDown(job)
        /\ UNCHANGED <<option, running, places, net, queue, retiring, detached, inLoop, inCall,
                       calls, entered, called, history>>

FinishRetiring ==
    \E job \in retiring :
        /\ HasCalled(job)
        /\ retiring' = {}
        /\ Use(job)
        /\ CountDown(job)
        /\ UNCHANGED <<option, running, places, net, queue, working, detached, inLoop, inCall,
                       calls, entered, called, history>>

FinishDetached(job) ==
    /\ HasCalled(job)
    /\ detached' = detached \ {job}
    /\ Use(job)
    /\ CountDown(job)
    /\ UNCHANGED <<option, running, places, net, queue, working, retiring, inLoop, inCall,
                   calls, entered, called, history>>

FinishInLoop ==
    \E job \in inLoop :
        /\ inLoop' = {}
        /\ Use(job)
        /\ CountDown(job)
        /\ UNCHANGED <<option, running, places, net, queue, working, retiring, detached, inCall,
                       calls, entered, called, history>>

FinishInCall ==
    \E job \in inCall :
        /\ call = "increment"
        /\ inCall' = {}
        /\ call' = "none"
        /\ Use(job)
        /\ CountDown(job)
        /\ UNCHANGED <<option, running, places, net, queue, working, retiring, detached, inLoop,
                       target, entered, called, history>>

(***************************************************************************)
(* An exception of an action leaves incrementInputPlace, or execute() when *)
(* that fires the transitions itself, past the line that counts down; the  *)
(* caller may catch it and go on.  In the loop, in the queue's worker and  *)
(* in a detached thread nobody catches it and the process ends.            *)
(***************************************************************************)
ThrowInCall ==
    /\ UserCodeMayThrow
    /\ call = "increment"
    /\ call' = "none"
    /\ inCall' = {}
    /\ \E job \in inCall : NeverCountDown(job)
    /\ UNCHANGED <<option, running, places, net, counter, queue, working, retiring, detached,
                   inLoop, target, entered, called, cutShort, undefined>>

ThrowInExecute ==
    /\ UserCodeMayThrow
    /\ call = "execute"
    /\ call' = "none"
    /\ inLoop' = {}
    /\ \E job \in inLoop : NeverCountDown(job)
    /\ UNCHANGED <<option, running, places, net, counter, queue, working, retiring, detached,
                   inCall, target, entered, called, cutShort, undefined>>
-----------------------------------------------------------------------------
(***************************************************************************)
(* The other calls.                                                        *)
(***************************************************************************)
Execute ==
    /\ option # "SINGLE_THREAD"
    /\ call = "none"
    /\ ~running
    /\ running' = TRUE
    /\ UNCHANGED <<option, places, net, counter, jobs, calls, entered, called, history,
                   undefined>>

\* With SINGLE_THREAD the caller fires transitions until none can be fired.
ExecuteHere ==
    /\ option = "SINGLE_THREAD"
    /\ call = "none"
    /\ ~running
    /\ call' = "execute"
    /\ UNCHANGED <<option, running, places, net, counter, jobs, target, entered, called,
                   history, undefined>>

ExecuteReturns ==
    /\ call = "execute"
    /\ inLoop = {}
    /\ call' = "none"
    /\ UNCHANGED <<option, running, places, net, counter, jobs, target, entered, called,
                   history, undefined>>

\* stop() comes back after the round, actions of the round included.
Stop ==
    /\ call = "none"
    /\ running
    /\ inLoop = {}
    /\ running' = FALSE
    /\ UNCHANGED <<option, places, net, counter, jobs, calls, entered, called, history,
                   undefined>>

Of(p, some) == {job \in some : job.place = p /\ ~Orphan(job)}

\* ~JobQueue: the worker is asked to stop, nobody takes the jobs that wait.
DestroyExecutor ==
    /\ queue' = <<>>
    /\ lost' = [p \in Place |-> lost[p] + Cardinality(Of(p, ToSet(queue)))]
    /\ working' = {}
    /\ retiring' = retiring \cup working

SetActionsThreadOption(o) ==
    /\ call = "none"
    /\ ~running
    /\ o # option
    /\ call' = "replace"
    /\ target' = o
    /\ DestroyExecutor
    /\ UNCHANGED <<option, running, places, net, counter, detached, inLoop, inCall, entered,
                   called, cutShort, undefined>>

\* Bug: the worker of the old executor is detached.
NotJoined == TRUE

\* Bug: the queue is waited for until no counter is up.
CountersDown == retiring = {} /\ \A p \in Place : counter[p] = 0

Joined == retiring = {}

Installed ==
    /\ call = "replace"
    /\ Joined
    /\ option' = target
    /\ call' = "none"
    /\ UNCHANGED <<running, places, net, counter, jobs, target, entered, called, history,
                   undefined>>

RemovePlaces ==
    /\ places' = {}
    /\ net' = net + 1
    /\ counter' = [p \in Place |-> 0]
    /\ lost' = [p \in Place |-> 0]
    /\ cutShort' = (cutShort \/ \E p \in Place : counter[p] > 0)

ClearNet ==
    /\ call = "none"
    /\ ~running
    /\ net < MaxClears
    /\ RemovePlaces
    /\ UNCHANGED <<option, running, jobs, calls, entered, called, undefined>>

CreatePlace(p) ==
    /\ call = "none"
    /\ p \notin places
    /\ places' = places \cup {p}
    /\ UNCHANGED <<option, running, net, counter, jobs, calls, entered, called, history,
                   undefined>>

(***************************************************************************)
(* Destruction: stop(), and then the members, the places before the        *)
(* executor.  It takes no mutex; nobody calls any more, actions included.  *)
(***************************************************************************)
DestroyPlaces ==
    /\ call = "none"
    /\ ~running
    /\ call' = "destroy"
    /\ RemovePlaces
    /\ UNCHANGED <<option, running, jobs, target, entered, called, undefined>>

DestroyEngine ==
    /\ call = "destroy"
    /\ call' = "destroyed"
    /\ DestroyExecutor
    /\ UNCHANGED <<option, running, places, net, counter, detached, inLoop, inCall, target,
                   entered, called, cutShort, undefined>>
-----------------------------------------------------------------------------
Threads == working \cup retiring \cup detached

Entering ==
    \E p \in Place :
        LoopEnters(p) \/ CallerEnters(p) \/ \E job \in Threads : ActionCalls(job, p)

Acting ==
    \/ TakeJob
    \/ FinishWorking \/ FinishRetiring \/ FinishInLoop \/ FinishInCall
    \/ ThrowInCall \/ ThrowInExecute
    \/ \E job \in Threads : ActionDoesNotCall(job) \/ ActionCallsTooLate(job)
    \/ \E job \in detached : FinishDetached(job)

Managing ==
    \/ Execute \/ ExecuteHere \/ ExecuteReturns \/ Stop
    \/ \E o \in Option : SetActionsThreadOption(o)
    \/ Installed
    \/ ClearNet \/ \E p \in Place : CreatePlace(p)
    \/ DestroyPlaces \/ DestroyEngine

Next == ~undefined /\ (Entering \/ Acting \/ Managing)

\* The worker threads run, user actions end, and a call goes on.
Fairness ==
    /\ WF_vars(~undefined /\ (TakeJob \/ FinishWorking))
    /\ WF_vars(~undefined /\ FinishRetiring)
    /\ WF_vars(~undefined /\ Installed)

Spec == Init /\ [][Next]_vars /\ Fairness
-----------------------------------------------------------------------------
Call == {"none", "increment", "execute", "replace", "destroy", "destroyed"}

Job == [number : Nat, place : Place, net : Nat]

TypeOK ==
    /\ {option, target} \subseteq Option
    /\ running \in BOOLEAN
    /\ places \subseteq Place
    /\ net \in Nat
    /\ counter \in [Place -> Nat]
    /\ queue \in Seq(Job)
    /\ working \cup retiring \cup detached \cup inLoop \cup inCall \subseteq Job
    /\ call \in Call
    /\ entered \in Nat
    /\ called \subseteq Nat
    /\ lost \in [Place -> Nat]
    /\ {cutShort, undefined} \subseteq BOOLEAN

UnderWay == Threads \cup inLoop \cup inCall

Outstanding(p) == Of(p, ToSet(queue) \cup UnderWay)

(***************************************************************************)
(* A place's counter is the number of its actions that wait or run,        *)
(* wherever that is and whatever the options were, plus those that nobody  *)
(* will count down any more.  While there is one of the latter, a          *)
(* transition that requires no actions of the place never fires.           *)
(***************************************************************************)
CountersAreExact == \A p \in Place : counter[p] = Cardinality(Outstanding(p)) + lost[p]

(***************************************************************************)
(* The actions of the queue are executed one at a time in the order in     *)
(* which they were triggered, although the option is changed, and the      *)
(* queue replaced by a new one, between any two of them.                   *)
(***************************************************************************)
SequentialActions ==
    /\ \A job, other \in working \cup retiring : job = other
    /\ \A job \in working \cup retiring, i \in 1..Len(queue) : job.number < queue[i].number
    /\ \A i, j \in 1..Len(queue) : i < j => queue[i].number < queue[j].number

(***************************************************************************)
(* Once another option is set nothing of the queue is left, neither        *)
(* waiting nor running.                                                    *)
(***************************************************************************)
QueueFollowsOption ==
    option # "JOB_QUEUE" => queue = <<>> /\ working \cup retiring = {}

(***************************************************************************)
(* A net may be cleared, or the engine destroyed, whenever the counters    *)
(* are down: no action outlives its place then.  (The engine does not wait *)
(* for that, see the README's known limits.)                               *)
(***************************************************************************)
UndefinedOnlyIfCutShort == undefined => cutShort

Embrace == \E job \in retiring : ~HasCalled(job)

(***************************************************************************)
(* setActionsThreadOption comes back, unless the action that it waits for  *)
(* calls the engine, whose mutex it holds.                                 *)
(***************************************************************************)
ReplacementEnds == call = "replace" ~> call # "replace" \/ Embrace \/ undefined
=============================================================================
