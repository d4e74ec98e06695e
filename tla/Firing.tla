------------------------------- MODULE Firing ------------------------------
(***************************************************************************)
(* One engine at work: the thread that runs PTN_EngineImp::executeInt (the *)
(* loop), which collects the enabled transitions and executes them one by  *)
(* one, and the thread that is inside PTN_Engine::incrementInputPlace (the *)
(* caller; the proxy's mutex admits one at a time).  They share the places,*)
(* each behind its own mutex, so a transition is checked and fired one arc *)
(* at a time while tokens keep arriving.                                   *)
(*                                                                         *)
(* Reading a place locks its mutex for the time of the read, so a read is  *)
(* one step that waits while the other thread is inside the place.  A      *)
(* thread stays inside a place while it waits for the place's block flag   *)
(* and while it runs an action inline.  User code (actions, conditions)    *)
(* is any code that does not call the engine.                              *)
(***************************************************************************)
EXTENDS Net

CONSTANTS
    Option,            \* ACTIONS_THREAD_OPTION
    UserCodeMayThrow,  \* whether actions and conditions may throw
    MaxJobs,           \* bound: actions of one place in execution at a time
    NoPlace, NoTransition

ASSUME FiringAssumption ==
    /\ Option \in {"SINGLE_THREAD", "EVENT_LOOP", "DETACHED", "JOB_QUEUE"}
    /\ UserCodeMayThrow \in BOOLEAN
    /\ MaxJobs \in Nat \ {0}
    /\ NoPlace \notin Place
    /\ NoTransition \notin Transition

VARIABLES
    tokens,          \* Place::m_numberOfTokens
    blocked,         \* Place::m_blockStartingOnEnterActions
    onEnterRunning,  \* Place::m_onEnterActionsInExecution
    onExitRunning,   \* Place::m_onExitActionsInExecution
    newInput,        \* PTN_EngineImp::m_newInputReceived
    pc,              \* what the loop is doing
    current,         \* the transition it checks or executes
    executing,       \* in Transition::execute (TRUE) or isEnabled (FALSE)
    arc,             \* position in the vector of arcs being visited
    toCollect,       \* transitions isEnabled has not been asked of
    collected,       \* enabledTransitions still to execute in this round
    fired,           \* firedAtLeastOneTransition
    inside,          \* the place whose m_mutex a thread holds across steps
    stage,           \* what the thread does there
    terminated       \* std::terminate has been called

marks == <<tokens, blocked>>
counters == <<onEnterRunning, onExitRunning>>
round == <<toCollect, collected, fired>>
control == <<pc, current, executing>>
threads == <<inside, stage>>
vars == <<marks, counters, newInput, control, arc, round, threads, terminated>>

Thread == {"loop", "caller"}
Phase == {"idle", "begin", "collect", "execute", "inhibitors", "activation",
          "noActions", "conditions", "exit", "enter"}
Stage == {"out", "spin", "start", "onEnter", "onExit", "notify"}

Checking == {"inhibitors", "activation", "noActions", "conditions"}
Firings == {"exit", "enter"}

(***************************************************************************)
(* ActionsExecutorFactory gives SINGLE_THREAD and EVENT_LOOP the executor  *)
(* that runs the action in the thread that triggers it.                    *)
(***************************************************************************)
Inline == Option \in {"SINGLE_THREAD", "EVENT_LOOP"}

Free(th, p) == \A other \in Thread \ {th} : inside[other] # p

Init ==
    /\ tokens = InitialTokens
    /\ blocked = [p \in Place |-> FALSE]
    /\ onEnterRunning = [p \in Place |-> 0]
    /\ onExitRunning = [p \in Place |-> 0]
    /\ newInput = FALSE
    /\ pc = "idle"
    /\ current = NoTransition
    /\ executing = FALSE
    /\ arc = 1
    /\ toCollect = {}
    /\ collected = {}
    /\ fired = FALSE
    /\ inside = [th \in Thread |-> NoPlace]
    /\ stage = [th \in Thread |-> "out"]
    /\ terminated = FALSE

GoTo(phase) == pc' = phase /\ arc' = 1

(***************************************************************************)
(* executeInt: the flag is cleared before the net is looked at.  A round   *)
(* that fired is followed by another; after one that did not, the loop     *)
(* sleeps (module EventLoop) or, in SINGLE_THREAD, execute() returns and   *)
(* gives the proxy's mutex back: only there may a caller come in.          *)
(***************************************************************************)
BeginRound ==
    /\ pc \in {"idle", "begin"}
    /\ Option = "SINGLE_THREAD" => stage["caller"] = "out"
    /\ newInput' = FALSE
    /\ GoTo("collect")
    /\ toCollect' = Transition
    /\ collected' = {}
    /\ fired' = FALSE
    /\ UNCHANGED <<marks, counters, current, executing, threads, terminated>>

(* collectEnabledTransitionsRandomly: isEnabled of every transition.       *)
Collect(t) ==
    /\ pc = "collect"
    /\ t \in toCollect
    /\ toCollect' = toCollect \ {t}
    /\ current' = t
    /\ GoTo("inhibitors")
    /\ UNCHANGED <<marks, counters, newInput, executing, collected, fired, threads, terminated>>

(* The shuffled list is handed to the for loop of executeInt.              *)
Collected ==
    /\ pc = "collect"
    /\ toCollect = {}
    /\ GoTo("execute")
    /\ UNCHANGED <<marks, counters, newInput, current, executing, round, threads, terminated>>

(***************************************************************************)
(* blockStartingOnEnterActions.  The flags are stored one by one; a caller *)
(* is in one place at a time, so it cannot tell.                           *)
(***************************************************************************)
(* Bug: the caller may start an on-enter action during execute().          *)
NeverBlock(t, value) == UNCHANGED blocked

BlockStarting(t, value) ==
    blocked' = IF t \in RequireNoActions
               THEN [p \in Place |->
                        IF p \in PlacesOf(Activation[t]) THEN value ELSE blocked[p]]
               ELSE blocked

(* The next transition of the shuffled list: Transition::execute starts.   *)
Execute(t) ==
    /\ pc = "execute"
    /\ t \in collected
    /\ collected' = collected \ {t}
    /\ current' = t
    /\ executing' = TRUE
    /\ BlockStarting(t, TRUE)
    /\ GoTo("inhibitors")
    /\ UNCHANGED <<tokens, counters, newInput, toCollect, fired, threads, terminated>>

(* Bug: the round ends with the first transition that fires.               *)
RoundOverAfterFiring == collected = {} \/ fired

RoundOver == collected = {}

EndRound ==
    /\ pc = "execute"
    /\ RoundOver
    /\ GoTo(IF fired THEN "begin" ELSE "idle")
    /\ UNCHANGED <<marks, counters, newInput, current, executing, round, threads, terminated>>

(* Bug: a way out of execute() that leaves the block in place.             *)
KeepBlock == UNCHANGED blocked

(* What every return of execute() is preceded by.                          *)
LiftBlock == BlockStarting(current, FALSE)

(* isEnabled or isActive answers false.                                    *)
Reject ==
    /\ IF executing
       THEN LiftBlock /\ GoTo("execute")
       ELSE UNCHANGED blocked /\ GoTo("collect")
    /\ current' = NoTransition
    /\ executing' = FALSE
    /\ UNCHANGED <<tokens, counters, newInput, round, threads, terminated>>

Pass(phase) ==
    /\ GoTo(phase)
    /\ UNCHANGED <<marks, counters, newInput, current, executing, round, threads, terminated>>

NextArc ==
    /\ arc' = arc + 1
    /\ UNCHANGED <<marks, counters, newInput, control, round, threads, terminated>>

Inhibits(p) == tokens[p] > 0

(* checkInhibitorPlaces: the first inhibitor place with a token stops it.  *)
CheckInhibitor ==
    /\ pc = "inhibitors"
    /\ arc <= Len(Inhibitor[current])
    /\ LET p == Inhibitor[current][arc].place
       IN  /\ Free("loop", p)
           /\ IF Inhibits(p) THEN Reject ELSE NextArc

InhibitorsChecked ==
    /\ pc = "inhibitors"
    /\ arc > Len(Inhibitor[current])
    /\ Pass("activation")

(* Bug: execute() trusts the list of enabled transitions.                  *)
ShortUnlessListed(a) == ~executing /\ tokens[a.place] < a.weight

Short(a) == tokens[a.place] < a.weight

(* checkActivationPlaces.                                                  *)
CheckActivation ==
    /\ pc = "activation"
    /\ arc <= Len(Activation[current])
    /\ LET a == Activation[current][arc]
       IN  /\ Free("loop", a.place)
           /\ IF Short(a) THEN Reject ELSE NextArc

(* isEnabled is true: the transition goes to the list of the round.        *)
FoundEnabled ==
    /\ pc = "activation"
    /\ arc > Len(Activation[current])
    /\ ~executing
    /\ collected' = collected \cup {current}
    /\ GoTo("collect")
    /\ current' = NoTransition
    /\ UNCHANGED <<marks, counters, newInput, executing, toCollect, fired, threads, terminated>>

(* isActive goes on to noActionsInExecution, or past it.                   *)
ActivationChecked ==
    /\ pc = "activation"
    /\ arc > Len(Activation[current])
    /\ executing
    /\ Pass(IF current \in RequireNoActions THEN "noActions" ELSE "conditions")

(* noActionsInExecution reads atomic counters: no mutex is taken.          *)
CheckNoActions ==
    /\ pc = "noActions"
    /\ arc <= Len(Activation[current])
    /\ IF onEnterRunning[Activation[current][arc].place] > 0 THEN Reject ELSE NextArc

NoActionsChecked ==
    /\ pc = "noActions"
    /\ arc > Len(Activation[current])
    /\ Pass("conditions")

(* checkAdditionalConditions answers false.                                *)
ConditionsRefuse ==
    /\ pc = "conditions"
    /\ current \in Conditioned
    /\ Reject

(* isActive is true: performTransit starts.  The transition counts as      *)
(* fired from this instant.                                                *)
Commit ==
    /\ pc = "conditions"
    /\ Pass("exit")

(* Bug: the event loop's thread catches the exception and goes on.         *)
LoopSurvives ==
    /\ GoTo("idle")
    /\ current' = NoTransition
    /\ executing' = FALSE
    /\ inside' = [inside EXCEPT !["loop"] = NoPlace]
    /\ stage' = [stage EXCEPT !["loop"] = "out"]
    /\ UNCHANGED <<marks, counters, newInput, round, terminated>>

(***************************************************************************)
(* An exception escapes executeInt.  On the event loop's thread nothing    *)
(* catches it: the process ends.  In SINGLE_THREAD it unwinds execute(),   *)
(* releasing the mutexes and nothing else, into the program.               *)
(***************************************************************************)
LoopThrows ==
    /\ IF Option = "SINGLE_THREAD"
       THEN /\ GoTo("idle")
            /\ current' = NoTransition
            /\ executing' = FALSE
            /\ inside' = [inside EXCEPT !["loop"] = NoPlace]
            /\ stage' = [stage EXCEPT !["loop"] = "out"]
            /\ UNCHANGED terminated
       ELSE /\ terminated' = TRUE
            /\ UNCHANGED <<control, arc, threads>>
    /\ UNCHANGED <<marks, counters, newInput, round>>

ConditionThrows ==
    /\ UserCodeMayThrow
    /\ pc = "conditions"
    /\ current \in Conditioned
    /\ LoopThrows

(* A thread is done with a place: its mutex is free, the loop goes to the  *)
(* next arc, the caller goes back to PTN_EngineImp::incrementInputPlace.   *)
Leave(th) ==
    /\ inside' = [inside EXCEPT ![th] = NoPlace]
    /\ stage' = [stage EXCEPT ![th] = IF th = "caller" THEN "notify" ELSE "out"]
    /\ arc' = IF th = "loop" THEN arc + 1 ELSE arc

Stay(th, p, what) ==
    /\ inside' = [inside EXCEPT ![th] = p]
    /\ stage' = [stage EXCEPT ![th] = what]
    /\ UNCHANGED arc

(* Bug: reset arcs are forgotten.                                          *)
DecreaseOnly(n, w) == n - w

(* Place::decreaseNumberOfTokens: weight 0 is a reset arc.                 *)
DecreaseNumberOfTokens(n, w) == IF w = 0 THEN 0 ELSE n - w

(* Place::exitPlace of the next activation arc.                            *)
Exit ==
    /\ pc = "exit"
    /\ stage["loop"] = "out"
    /\ arc <= Len(Activation[current])
    /\ LET a == Activation[current][arc]
           p == a.place
       IN  /\ Free("loop", p)
           /\ IF tokens[p] < a.weight      \* NotEnoughTokensException
              THEN LoopThrows
              ELSE /\ tokens' = [tokens EXCEPT ![p] = DecreaseNumberOfTokens(@, a.weight)]
                   /\ IF p \in OnExit
                      THEN /\ onExitRunning[p] < MaxJobs
                           /\ onExitRunning' = [onExitRunning EXCEPT ![p] = @ + 1]
                           /\ IF Inline THEN Stay("loop", p, "onExit") ELSE Leave("loop")
                      ELSE UNCHANGED onExitRunning /\ Leave("loop")
                   /\ UNCHANGED <<blocked, onEnterRunning, newInput, control, round, terminated>>

(* The on-exit action returns to the loop, which runs it itself.           *)
FinishOnExitAction ==
    /\ stage["loop"] = "onExit"
    /\ onExitRunning' = [onExitRunning EXCEPT ![inside["loop"]] = @ - 1]
    /\ Leave("loop")
    /\ UNCHANGED <<marks, onEnterRunning, newInput, control, round, terminated>>

ExitsDone ==
    /\ pc = "exit"
    /\ stage["loop"] = "out"
    /\ arc > Len(Activation[current])
    /\ Pass("enter")

(***************************************************************************)
(* Place::enterPlace up to the wait on m_blockStartingOnEnterActions.      *)
(***************************************************************************)
EnterPlace(th, p, n) ==
    /\ tokens' = [tokens EXCEPT ![p] = @ + n]
    /\ IF p \in OnEnter THEN Stay(th, p, "spin") ELSE Leave(th)
    /\ UNCHANGED <<blocked, counters, newInput, control, round, terminated>>

(* Bug: the overflow check is dropped.                                     *)
NoOverflowCheck(p, n) == n = 0

(* increaseNumberOfTokens throws: NullTokensException, OverflowException.  *)
CannotIncrease(p, n) == n = 0 \/ n > MaxTokens - tokens[p]

Enter ==
    /\ pc = "enter"
    /\ stage["loop"] = "out"
    /\ arc <= Len(Destination[current])
    /\ LET a == Destination[current][arc]
       IN  /\ Free("loop", a.place)
           /\ IF CannotIncrease(a.place, a.weight)
              THEN LoopThrows
              ELSE EnterPlace("loop", a.place, a.weight)

(* execute() lifts the block and returns true.                             *)
Fired ==
    /\ pc = "enter"
    /\ stage["loop"] = "out"
    /\ arc > Len(Destination[current])
    /\ LiftBlock
    /\ GoTo("execute")
    /\ fired' = TRUE
    /\ current' = NoTransition
    /\ executing' = FALSE
    /\ UNCHANGED <<tokens, counters, newInput, toCollect, collected, threads, terminated>>

(***************************************************************************)
(* PTN_EngineImp::incrementInputPlace.  Calls that throw (a name that is   *)
(* not an input place's, a full place) leave everything as it is.          *)
(***************************************************************************)
IncrementInputPlace(p) ==
    /\ p \in InputPlace
    /\ stage["caller"] = "out"
    /\ Option = "SINGLE_THREAD" => pc = "idle"
    /\ Free("caller", p)
    /\ ~CannotIncrease(p, 1)
    /\ EnterPlace("caller", p, 1)

(* ... and then sets m_newInputReceived and notifies the event loop.       *)
NotifyNewEvent ==
    /\ stage["caller"] = "notify"
    /\ newInput' = TRUE
    /\ stage' = [stage EXCEPT !["caller"] = "out"]
    /\ UNCHANGED <<marks, counters, control, arc, round, inside, terminated>>

(* The wait in enterPlace ends: the flag has been read, and found down.    *)
PassBlock(th) ==
    /\ stage[th] = "spin"
    /\ ~blocked[inside[th]]
    /\ stage' = [stage EXCEPT ![th] = "start"]
    /\ UNCHANGED <<marks, counters, newInput, control, arc, round, inside, terminated>>

(***************************************************************************)
(* IActionsExecutor::executeAction counts the action and runs it, or hands *)
(* it to another thread, whereupon the place is released.                  *)
(***************************************************************************)
StartOnEnterAction(th) ==
    /\ stage[th] = "start"
    /\ LET p == inside[th]
       IN  /\ onEnterRunning[p] < MaxJobs
           /\ onEnterRunning' = [onEnterRunning EXCEPT ![p] = @ + 1]
           /\ IF Inline THEN Stay(th, p, "onEnter") ELSE Leave(th)
    /\ UNCHANGED <<marks, onExitRunning, newInput, control, round, terminated>>

FinishOnEnterAction(th) ==
    /\ stage[th] = "onEnter"
    /\ onEnterRunning' = [onEnterRunning EXCEPT ![inside[th]] = @ - 1]
    /\ Leave(th)
    /\ UNCHANGED <<marks, onExitRunning, newInput, control, round, terminated>>

(* An inline action throws: the counter is not decremented.  MaxJobs       *)
(* bounds how often that may happen.                                       *)
LoopActionThrows ==
    /\ UserCodeMayThrow
    /\ \/ stage["loop"] = "onEnter" /\ onEnterRunning[inside["loop"]] < MaxJobs
       \/ stage["loop"] = "onExit" /\ onExitRunning[inside["loop"]] < MaxJobs
    /\ LoopThrows

(* ... out of incrementInputPlace: neither flag nor notification.          *)
CallerActionThrows ==
    /\ UserCodeMayThrow
    /\ stage["caller"] = "onEnter"
    /\ onEnterRunning[inside["caller"]] < MaxJobs
    /\ inside' = [inside EXCEPT !["caller"] = NoPlace]
    /\ stage' = [stage EXCEPT !["caller"] = "out"]
    /\ UNCHANGED <<marks, counters, newInput, control, arc, round, terminated>>

(* Bug: the end of an action does not reach the counter of its place.      *)
EndsUncounted(p) == ~Inline /\ UNCHANGED vars

(***************************************************************************)
(* An action on a thread of its own, or on the job queue's, comes to its   *)
(* end.  One that throws there ends the process.                           *)
(***************************************************************************)
JobCompletes(p) ==
    /\ ~Inline
    /\ \/ /\ onEnterRunning[p] > 0
          /\ onEnterRunning' = [onEnterRunning EXCEPT ![p] = @ - 1]
          /\ UNCHANGED onExitRunning
       \/ /\ onExitRunning[p] > 0
          /\ onExitRunning' = [onExitRunning EXCEPT ![p] = @ - 1]
          /\ UNCHANGED onEnterRunning
    /\ UNCHANGED <<marks, newInput, control, arc, round, threads, terminated>>

JobThrows(p) ==
    /\ UserCodeMayThrow
    /\ ~Inline
    /\ onEnterRunning[p] + onExitRunning[p] > 0
    /\ terminated' = TRUE
    /\ UNCHANGED <<marks, counters, newInput, control, arc, round, threads>>

LoopStep ==
    \/ BeginRound \/ Collected \/ EndRound
    \/ \E t \in Transition : Collect(t) \/ Execute(t)
    \/ CheckInhibitor \/ InhibitorsChecked
    \/ CheckActivation \/ FoundEnabled \/ ActivationChecked
    \/ CheckNoActions \/ NoActionsChecked
    \/ ConditionsRefuse \/ ConditionThrows \/ Commit
    \/ Exit \/ FinishOnExitAction \/ ExitsDone
    \/ Enter \/ Fired
    \/ PassBlock("loop") \/ StartOnEnterAction("loop") \/ FinishOnEnterAction("loop")
    \/ LoopActionThrows

CallerStep ==
    \/ NotifyNewEvent
    \/ PassBlock("caller") \/ StartOnEnterAction("caller") \/ FinishOnEnterAction("caller")
    \/ CallerActionThrows

Running ==
    \/ LoopStep
    \/ CallerStep
    \/ \E p \in Place : IncrementInputPlace(p) \/ JobCompletes(p) \/ JobThrows(p)

(* Nothing happens after std::terminate.                                   *)
Terminated == terminated /\ UNCHANGED vars

Next == (~terminated /\ Running) \/ Terminated

Spec == Init /\ [][Next]_vars

(***************************************************************************)
(* The loop's thread and the caller's run, user actions return.  Nobody    *)
(* has to call incrementInputPlace.                                        *)
(***************************************************************************)
Fairness ==
    /\ WF_vars(~terminated /\ LoopStep)
    /\ WF_vars(~terminated /\ CallerStep)
    /\ \A p \in Place : WF_vars(~terminated /\ JobCompletes(p))

FairSpec == Spec /\ Fairness

-----------------------------------------------------------------------------
TypeOK ==
    /\ tokens \in [Place -> 0..MaxTokens]
    /\ blocked \in [Place -> BOOLEAN]
    /\ onEnterRunning \in [Place -> Nat]
    /\ onExitRunning \in [Place -> Nat]
    /\ newInput \in BOOLEAN
    /\ pc \in Phase
    /\ current \in Transition \cup {NoTransition}
    /\ current = NoTransition <=> pc \notin Checking \cup Firings
    /\ executing \in BOOLEAN
    /\ arc \in Nat \ {0}
    /\ toCollect \subseteq Transition
    /\ collected \subseteq Transition
    /\ fired \in BOOLEAN
    /\ inside \in [Thread -> Place \cup {NoPlace}]
    /\ stage \in [Thread -> Stage]
    /\ terminated \in BOOLEAN

(* The next activation arc to leave, the next destination arc to enter: an *)
(* arc whose action still runs has been left, or entered, already.         *)
NextExit ==
    IF pc = "exit" THEN IF stage["loop"] = "out" THEN arc ELSE arc + 1
    ELSE Len(Activation[current]) + 1

NextEntry ==
    IF pc = "exit" THEN 1 ELSE IF stage["loop"] = "out" THEN arc ELSE arc + 1

(***************************************************************************)
(* A transition that has been found active can be carried through: every   *)
(* activation place still to be left holds the tokens of its arc, however  *)
(* many arcs have been visited since the check and whatever callers did.   *)
(* So exitPlace never throws NotEnoughTokensException half way through     *)
(* performTransit (the check and the removal are separate lock/unlock      *)
(* pairs of each place's mutex).                                           *)
(***************************************************************************)
NeverShort ==
    pc = "exit" =>
        \A i \in NextExit..Len(Activation[current]) :
            tokens[Activation[current][i].place] >= Activation[current][i].weight

(***************************************************************************)
(* A transition that requires no actions in execution fires while no       *)
(* on-enter action of its activation places is running or queued, and none *)
(* starts there until execute() lifts the block: the flag, the place mutex *)
(* and the counter, read in that order, leave no gap.                      *)
(***************************************************************************)
ExclusiveFiring ==
    pc \in Firings /\ current \in RequireNoActions =>
        \A p \in PlacesOf(Activation[current]) : onEnterRunning[p] = 0

(***************************************************************************)
(* A place's on-enter actions are held back only while execute() of a      *)
(* transition that requires it is in progress: every way out of execute()  *)
(* lifts the block.  (In SINGLE_THREAD an exception is a way out that does *)
(* not; the other modes do not survive one.)                               *)
(***************************************************************************)
BlockedOnlyWhileExecuting ==
    \A p \in Place : blocked[p] =>
        /\ executing
        /\ current \in RequireNoActions
        /\ p \in PlacesOf(Activation[current])

(***************************************************************************)
(* The refinement mapping: from Commit on the firing counts as done, so    *)
(* the tokens still to be taken are gone and those still to be put there.  *)
(***************************************************************************)
AbstractMarking ==
    IF pc \in Firings
    THEN [p \in Place |-> AfterExits(tokens, current, NextExit, p)
                          + WeightFrom(Destination[current], NextEntry, p)]
    ELSE tokens

Atomic == INSTANCE PetriNet WITH marking <- AbstractMarking

(***************************************************************************)
(* The engine implements the rules of Petri nets: with transitions checked *)
(* and fired arc by arc while callers put tokens in input places, the net  *)
(* still moves by whole firings of enabled transitions.                    *)
(***************************************************************************)
AtomicFiring == Atomic!Spec

(***************************************************************************)
(* A transition that stays enabled fires: collecting every enabled         *)
(* transition before executing any, and executing all of them, starves     *)
(* none, whatever order the shuffle gives.                                 *)
(***************************************************************************)
Fires(t) == pc = "enter" /\ current = t

NoStarvation ==
    \A t \in Transition \ Conditioned :
        Enabled(tokens, t) ~> (~Enabled(tokens, t) \/ Fires(t) \/ terminated)

(***************************************************************************)
(* No deadly embrace: a thread that waits in enterPlace, inside the place, *)
(* for the block flag is neither the loop, which alone would lift it, nor  *)
(* inside the very place the loop needs next on its way to lifting it.     *)
(***************************************************************************)
LoopNeeds(p) ==
    \/ pc \in {"activation", "exit"} /\ arc <= Len(Activation[current])
           /\ Activation[current][arc].place = p
    \/ pc = "inhibitors" /\ arc <= Len(Inhibitor[current])
           /\ Inhibitor[current][arc].place = p
    \/ pc = "enter" /\ arc <= Len(Destination[current])
           /\ Destination[current][arc].place = p

NoEmbrace ==
    \A th \in Thread : stage[th] = "spin" /\ blocked[inside[th]] =>
        th # "loop" /\ ~LoopNeeds(inside[th])
=============================================================================
