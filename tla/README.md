# PTN Engine in TLA+

PTN Engine is a C++ library that executes a Petri net inside a program: tokens
enter and leave places, actions (user code) run when they do, and four
*actions thread options* decide in which thread the net and its actions run.
This directory specifies the engine's concurrent core, and the Elevator, its
largest example, model-checks them with TLC and proves their main invariants
with TLAPS. Paths below are relative to `src/PTN_Engine/` or, for the elevator,
to `src/Examples/Elevator/`.

## The system

| Part | State | Operations | Talks to |
|---|---|---|---|
| Place (`Place.cpp`) | token counter (`size_t`), block flag, counters of on-enter and on-exit actions in execution, one shared mutex | `enterPlace`, `exitPlace`, `blockStartingOnEnterActions`, `getNumberOfTokens`, `isOnEnterActionInExecution` | the executor, with its mutex held |
| Transition (`Transition.cpp`) | three vectors of arcs, conditions, `requireNoActionsInExecution`, one shared mutex | `isEnabled`, `execute`, `addArc`, `removeArc` | places, one at a time |
| Engine (`PTN_EngineImp.cpp`, `TransitionsManager.cpp`, `PlacesManager.cpp`) | maps of places and transitions, option, executor, flag of new input | `executeInt` (a *round*), `incrementInputPlace`, `setActionsThreadOption`, create/clear | all others |
| Event loop (`EventLoop.cpp`) | running flag, barrier, `jthread`, condition variable and its mutex, sleep duration and its mutex | `start`, `stop`, `run`, `notifyNewEvent`, `setSleepDuration` | calls `executeInt` in its thread |
| Proxy (`PTN_EngineImpProxy.cpp`) | one shared mutex | every public call: lock, forward, unlock | engine |
| Executors (`Executor/`) | a job queue for `JOB_QUEUE` | `executeAction`: inline, in a detached thread, or as a job | places' counters |
| Job queue (`JobQueue/`) | deque, two flags, mutex, `jthread` | `addJob`, `activate`, `deactivate`, `isActive`; `launch` and `run` inside | executor |
| Net editing, registered functions, import and export | names to objects | create, add and remove, clear; XML | engine at rest |
| Elevator (`Controller/`, `main.cpp`) | a net of 45 places and 66 transitions; the cabin's floor and four lists of floors, one mutex | buttons (input places), actions that change the lists, conditions that read them, a menu | the engine, with `JOB_QUEUE` |

Threads: any number of the program's threads call the proxy; the event loop has
a thread unless the option is `SINGLE_THREAD`; `DETACHED` makes one per action,
`JOB_QUEUE` has a worker. The hard behaviour is between them:

* a transition is checked and fired **arc by arc**, each place under its own
  mutex, while callers put tokens in input places;
* `requireNoActionsInExecution` rests on a flag, a mutex and a counter read in
  turn, and `enterPlace` waits for the flag **with the place's mutex held**;
* exceptions and overflow in the middle of a firing;
* the loop goes to sleep while tokens arrive, is stopped, and is started again;
* `stop()` and `setEventLoopSleepDuration()` wait while they hold the proxy's
  mutex;
* the worker of the job queue leaves while a job is being added;
* the executor is replaced, places are cleared and the engine is destroyed with
  actions of the places still queued or running;
* in the elevator the engine, the queued actions and the user change tokens and
  lists that conditions relate to each other, and nothing locks both.

What makes each part correct: a net moves by whole firings (Transition, Place);
the two exclusions that `requireNoActionsInExecution` promises; nobody starves
(round); no token is slept on, stop stops and restart works (loop); no call
keeps the mutex (proxy); jobs run once, in order, one at a time (job queue);
a place's counter tells how many of its actions wait or run (executors); the
cabin moves with its doors closed, towards a request, and forgets none (elevator).

## Modules

| Module | What it is |
|---|---|
| `Net` | constants that describe a net, with their assumptions, and the operators on markings the code computes: enabled, remaining tokens, firing |
| `PetriNet` | **abstract**: the rules of Petri nets, adding a token and firing a transition as single steps |
| `Firing` | a round of the engine beside a caller of `incrementInputPlace`, arc by arc, with blocking, actions, exceptions; all four options |
| `MCFiring` | three nets for TLC |
| `FiringProofs`, `AtomicFiringProofs` | theorems about `Firing`; that it implements `PetriNet`, and on which nets nobody is embraced |
| `EventLoop` | the loop's life: rounds, sleep, wake-up, start, stop, and the proxy's mutex |
| `MCEventLoop`, `EventLoopProofs` | its instances, its theorems |
| `TaskSequence` | **abstract**: tasks begin in order, each after the one before has ended |
| `JobQueue` | the job queue, its worker, activation and destruction |
| `MCJobQueue`, `JobQueueProofs` | its instances, its theorems |
| `NetEditor` | creating, editing and clearing a net, an import call by call, what an export writes |
| `MCNetEditor`, `NetEditorProofs` | its instance, its theorems, that of saving and loading the last |
| `EngineModes` | the executors and the places' counters together: changing the option, clearing, destruction, with actions outstanding |
| `MCEngineModes`, `EngineModesProofs` | its instance, its theorems |
| `ElevatorNet` | the elevator's net, as constants |
| `Elevator` | that net under the engine's rounds, the controller's lists and actions, the user |
| `MCElevator`, `ElevatorProofs` | its instance, its theorems that follow from the net alone, and the invariant of its journeys |
| `JourneyProofs` | the theorems about the cabin's travel, from that invariant |

`EngineModes` composes what `Firing`, `EventLoop` and `JobQueue` take apart, and
keeps of each what the others can see; `Elevator` puts a real net and real
actions and conditions in the place where `Firing` has arbitrary ones.

### How they correspond to the code

**Firing.** `pc` and `arc` are the position of the loop's thread in `executeInt`
and in the vectors of arcs: `BeginRound` clears the flag of new input,
`Collect(t)` asks each transition `isEnabled` (`CheckInhibitor`,
`CheckActivation`, one arc a step, in any order of transitions: the map is
unordered and the result is shuffled), `Execute(t)` raises the block
flags, checks again, `CheckNoActions` reads the counters, `ConditionsRefuse`
stands for the user's conditions, `Commit` is the decision to fire, `Exit` and
`Enter` lock one place each. `inside` and `stage` say which place's mutex a
thread holds across steps and why: waiting for the flag (`spin`), starting or
running an action. `IncrementInputPlace`, `PassBlock`, `StartOnEnterAction`,
`FinishOnEnterAction`, `NotifyNewEvent` are the caller's. `JobCompletes` ends an
action that runs elsewhere (`DETACHED`, `JOB_QUEUE`; in which order is `JobQueue`'s
matter). Actions and conditions are arbitrary code that does not call the
engine; `UserCodeMayThrow` lets them throw. An exception that leaves the loop's thread or a job ends the
process (`terminated`); one in a caller, or in `SINGLE_THREAD`, unwinds it.
A token count is bounded by `MaxTokens`, which stands for `ULLONG_MAX`, with the code's
check before adding.

**EventLoop.** `proxy` is who holds the proxy's mutex for writing; `pc[t]` is the
request a calling thread waits to make and then its step inside: `PutToken`,
`RaiseFlag`, `NotifyNewEvent` are the three statements of `incrementInputPlace`, and
`PutTokenAndThrow` is a call of which only the first one is made, since the place's action throws or gets no thread;
`NewBarrier`, `Launch` those of `start`; `RequestStop`, `Arrive`, `Stopped` those
of `stop`. `loop` is the position of the loop's thread in `run`; it holds the
notifier's mutex in `decided`, between the test of the predicate and the wait, and
the sleep duration's mutex in `decided`, `asleep`, `woken`. A round is reduced to what matters
here: the flag is cleared, the net is looked at (`unseen` becomes
false), something is fired or not. `unannounced` is a token of a call that threw. `Loop \in Thread` means that actions call the
engine from the loop's thread. The shared (reading) calls of the proxy are left out: they
change nothing and hold the mutex for one step. `TimedFairness` is what `MutexIsReturned`
assumes besides (see Fairness); a call that waits for a thread which could not
be created is excepted (`AwaitsNoThread`).

**JobQueue.** A job is its number in the order of `addJob`. Each critical section
under `m_jobQueueMutex` is a step. `deactivate` uses `m_workerThread` without
that mutex, a data race with the assignment in `launch`: its accesses
interleave with it in any order, and an assignment while `deactivate` is joining
ends in a second join of the same thread, which throws in a function that is
`noexcept` (`LaunchWhileJoining`). In the engine nobody activates or
deactivates (`Owner` is empty); the class offers it and the tests use it.

**NetEditor.** A call under the proxy's mutex is one step; one that is refused
before it changed anything is none, and one that throws after it did (`addArc`
and `removeArc` of a BIDIRECTIONAL arc, `Parts`) is a step all the same. `MayEditArcs`,
`CanCreatePlace` and `CanCreateTransition` are the checks of the code, the ones
in constructors and containers included; note what they do not ask: neither
creation asks whether the loop runs, and only `createTransition` refuses a weight
of 0. An import (`importing`, `rest`) is the sequence of calls that `_importInt`
makes, with anybody's calls between them; it fails where the code throws and
leaves what it did. `Exported` is what `_exportInt` writes of a net at rest.
Whether a function is none, named or anonymous is kept, since an anonymous one cannot be
written; the order of arcs and the tokens are not. `EventLoop` says when the loop really stops; here
it only is running or not.

**EngineModes.** A job is the action of one token: its number, its place, and
which of the nets of that engine (`net`) the place belongs to, since a place created after
`clearNet` may have the name of one that is gone. `LoopEnters`, `CallerEnters` and `ActionCalls` enter a place from the
loop, from a caller and from an action; the executor of the moment decides
(`RunInline`, `Enqueue`, `Detach`, `DetachFails`). `call` is the call that holds
the proxy's mutex over several steps: `incrementInputPlace` while it runs an
action inline, `execute` in `SINGLE_THREAD` while it fires transitions itself (`ExecuteHere`, `ExecuteReturns`), `setActionsThreadOption` while it destroys the old executor
(`DestroyExecutor`, then `Installed` once the worker, whose job is `retiring`, has been joined).
`DestroyPlaces` and `DestroyEngine` follow the order in which the engine's members are destroyed.
An inline action may end by an exception, which leaves the call past the line that counts down (`ThrowInCall`, `ThrowInExecute`);
in any other thread that ends the process. `lost` and `cutShort` are history: actions that nobody will count down any more, because they were
dropped with their queue, never started or ended by an exception; and places that went away with a
counter up. `undefined` is an action or a counter used after its place is gone; the model stops there.

**Elevator.** `ElevatorNet` gives the transitions of `ElevatorPetriNet.cpp` under their numbers,
with their arcs, conditions and `requireNoActionsInExecution`. One step collects the enabled transitions,
one step each executes them in any order (`Fire`, `DoNotFire`). `Firing` takes both apart; one step does here for these reasons.
What `Collect` finds only chooses which transitions are tried: each execution checks again (`Active`), and the proofs use of `collected` no
more than that it is a set of transitions. A firing is atomic by `EngineFiresAtomically` as far as activation places go, which only the loop
empties. That theorem does not cover inhibitor arcs on input places, though, and `OpenDoors` is an input place that `T3`,
`T18`, `T19`, `T31` and `T32` are inhibited by. A user may press it after such a transition has found it empty and before it has fired; none of the
five takes from an input place or puts a token into `OpenDoors`, so the outcome is that of a press right after the firing. The job queue keeps an entry for every action that changes
something (those that only print are left out, except that of `ProcessedLists`, which `T3` waits for), and
an action takes effect when it leaves the queue. `Request` and `PressFloorButton` are the two halves of a
request: the floor is written under the controller's mutex, which is released before the token is put. The menu asks
only for floors that exist (`Typed`, and the guards). `Shaft` bounds the cabin's floor one beyond either end of the building.

## Runs

Passing runs. Deadlock is checked unless noted.

| Run | Instance | Shows |
|---|---|---|
| `firing_event_loop` | `EVENT_LOOP`, *workshop* net: competition, weights, inhibitor, reset, inline actions that may throw, overflow at 2 tokens | types; a transition found active can be carried through (`NeverShort`); the engine implements `PetriNet`, and nothing half-fired by an exception or an overflow is ever acted upon (`AtomicFiring`); no enabled transition starves (`NoStarvation`), all up to the end of the process |
| `firing_job_queue` | `JOB_QUEUE`, *lift* net: two transitions that require no actions, a condition, up to 2 actions of a place in execution | no deadly embrace (`NoEmbrace`) on a net with no on-enter action on an input place, firings are atomic, and a transition that waits for the actions of its place gets its turn |
| `firing_exclusive` | `JOB_QUEUE`, *door* net: on-enter action on the input place of a transition that requires no actions; user code may throw | `ExclusiveFiring`: no on-enter action runs or starts during the firing; `BlockedOnlyWhileExecuting`. This net may deadlock (see below), so deadlock is not checked |
| `event_loop_wakeup` | three callers, the sleep need never time out, threads may fail to be created | `NoLostWakeup`, `TokensAreSeen` without the watchdog; `TypeOK` (nobody arrives twice at a barrier); `OptionIsStable`, `RestsWhenNotRunning`; if the sleep does end, every call gives the proxy's mutex back (`MutexIsReturned`): `stop` returns, and the token of a call that threw is looked at too (`ThrownTokensAreSeen`). After a failed start `stop` may wait for ever, so deadlock is not checked |
| `job_queue_shared` | two threads and jobs add up to 3 jobs, one of the threads also activates, deactivates and destroys | `InSequence` (implements `TaskSequence`), no lost wake-up (`Attended`), every job is executed while the queue lives and stays active (`JobsAreExecuted`), up to `std::terminate` |
| `job_queue_owner` | one thread and its jobs, threads may fail to be created; 4 jobs | `FlagIsExact`, `InactiveIsQuiet` |
| `net_editor` | 2 places, 1 transition, weights 0 and 1; a file whose transition has an arc of its own, a bidirectional arc of weight 0 and an inhibitor arc | after any calls and failures arcs lead to places of the net, no place twice in a vector (`WellFormed`, what `Net` assumes); a running net loses nothing (`OnlyGrowsWhileRunning`); an import that returns is complete although others edit and execute meanwhile (`ImportIsWhole`); every net with named functions can be saved and loaded (`RoundTrip`) |
| `engine_modes` | 2 places, the action of one calls the engine; 4 tokens, 1 `clearNet`, any sequence of the four options; threads may fail to be created and actions may throw | counters are off by exactly the actions that nobody will count down any more (`CountersAreExact`); queued actions stay in sequence across replaced queues (`SequentialActions`) and none is left when the option has changed (`QueueFollowsOption`); an action outlives its place only if a counter was up when it went (`UndefinedOnlyIfCutShort`); a replacement ends unless its joined action calls back (`ReplacementEnds`). The tokens run out and a destroyed engine stops, so deadlock is not checked |
| `elevator` | 3 floors, 3 requests, each door button pressed up to once before it is taken up | doors, direction and lists agree in every timing of engine, actions and user (`DoorsClosedWhileMoving`, `OneActivityAtATime`, `NoRequestIsDropped`); unless requests are hurried (`disturbed`, below) the cabin stays in the building, passes no floor it is to stop at, moves only towards one, and comes to rest only ready for the next request |

The runs of the job queue stop when all jobs have been added and executed, hence
without a check of deadlock.

Runs that end in a violation, each a disagreement of the code with what is said of it:

| Run | What happens |
|---|---|
| `firing_deadlock` | a caller waits in `enterPlace` for the block flag, holding the mutex that the loop needs to get to lowering it (`Place.cpp:69`) |
| `event_loop_action_calls` | an action that calls the engine and a `stop` wait for each other |
| `job_queue_twice` | deactivate, activate, deactivate with no job between: second join, `std::terminate` |

### Known limits

What the models show besides, when an instance is changed as described:

* A transition that requires no actions and gives a token back to its
  activation place, which has an on-enter action, waits for its own flag
  (`Transition.cpp:85`): `NoEmbrace` fails in any option.
* `AtomicFiring` holds on nets whose inhibitor places are not
  input places, or when callers are kept out (`SINGLE_THREAD`, where `execute` holds the proxy's mutex). Otherwise, with
  an inhibitor arc on an input place under `EVENT_LOOP`, a transition may fire that was enabled at no instant of its
  execution, as its places are read one by one (`Transition.cpp:110`). A reset arc does no harm there: a caller's token
  that it takes away half way through the firing is one that came before.
* The on-enter action of an input place runs in the thread that calls
  `incrementInputPlace`, next to the loop's actions, in `EVENT_LOOP` too
  (`SingleThreadExecutor.cpp:30`; `stage["caller"] = "onEnter"` is reachable), while
  `Doc/Specification/Specification.md:54` says that actions "will be done in the same thread that is running the
  Petri net".
* A net with an anonymous condition is exported with a condition of blank name,
  which makes the file one that no import accepts (`XML_FileExporter.cpp:68`,
  `ManagedContainer.h:101`): `RoundTrip` without `AllNamed` fails. An anonymous
  action is left out silently.
* An import that fails leaves what it had created (`IFileImporter.cpp:40`), and
  a BIDIRECTIONAL `addArc` that throws leaves an activation arc (`Transition.cpp:247`): the
  net stays well formed, but is not the one before the call.
* A start whose thread cannot be created leaves `isEventLoopRunning()` true
  without a loop (`EventLoop.cpp:68`).
* `execute` after `stop` may destroy the barrier from which the old thread is still
  returning (`EventLoop.cpp:67`): `NewBarrier` is possible with `loop = "atBarrier"`.
* A job added by another thread during `deactivate` may be executed by a queue that is
  inactive (`JobQueue.cpp:52`): `InactiveIsQuiet` fails with more than one thread.
* Replacing the executor drops the jobs that wait in its queue
  (`PTN_EngineImp.cpp:133`) and leaves their places' counters up, "Counter of on enter functions being
  executed." (`Place.h:155`): a transition that requires no actions of such a place never fires again.
  `CountersAreExact` without `lost` fails. A thread that cannot be created does the same in `DETACHED`
  (`DetachedExecutor.cpp:36`), and so does an inline action that ends by an exception in a caller's `incrementInputPlace`, or in
  the `execute` of `SINGLE_THREAD` (`SingleThreadExecutor.cpp:30`): the caller may catch it and the engine goes on, with the counter up.
* An `incrementInputPlace` that throws in these ways has put its token, but neither raised the flag of new input nor
  notified the loop (`PTN_EngineImp.cpp:114`): if the loop sleeps, the token waits for the end of the sleep.
  `ThrownTokensAreSeen` without `TimedFairness` fails.
* `setActionsThreadOption` joins the old queue's worker with the proxy's mutex
  held; the worker's action and the call wait for each other if the action
  calls the engine. `ReplacementEnds` without `Embrace` fails.
* Neither `clearNet` nor the destructor waits for actions (`PTN_EngineImp.cpp:55`): one that
  is still queued or running uses its place, and a calling one the engine, after they are gone. `~undefined` fails.
* Elevator: when the cabin turns, the lowest floor waiting to go up (or highest to go down) may be
  the floor it is at, and becomes its only destination
  (`Controller/ElevatorPetriNet.cpp:646`; `setDestination(1)`, then `callElevatorDown(1)`). No transition
  allows for that: the cabin stands with neither direction nor `Ready`, for ever. `RestsReady` excepts it.
* Elevator: a request taken up in the round between `GoingUp` (or `GoingDown`) being marked and
  the place that its inhibitor arcs look at, `GoingUp_` (`GoingDown_`), turns a cabin that already has a direction
  (`Controller/ElevatorPetriNet.cpp:506`). With three requests it may leave the building.
* Elevator: a second request overwrites `m_toAddToDestination` of one that is still
  processed (`Controller/ElevatorController.cpp:102`).
* Elevator: `T19` and `T32` turn the cabin when its list of destinations is empty
  (`Controller/ElevatorPetriNet.cpp:316`), and do not ask whether the action of `AddToTravel` is still queued, which is not
  a place of their activation arcs. A floor to the front, taken up in the last moment, is then added after the lists have
  been rotated, to the travel back; the cabin leaves it behind and may leave the building. This needs four
  floors: it came to light in the proof, when `HeadsForADestination` turned out not to follow. This item and the two before
  it are `disturbed` (`TurnedBeforeAdding`, `RequestInProgress`, `TakenWhileTurning`), which the properties of the cabin's travel exclude.
* Elevator: `T31` asks for the list of destinations while the action of `RemoveFromListGU` may still wait,
  which is not a place of its activation arcs, so `requireNoActionsInExecution` does not cover it. With a
  lagging action `T31` fires in place of `T32`: the cabin comes to rest, and the call is served only with the next request.

### Bounds

`MaxTokens` is 2 or 3: enough for a weight of 2, for competition over one
token, and for the counter to overflow within a few steps. `MaxJobs` bounds the
actions of one place in execution, 1 or 2; the code only ever compares their
number with 0. Nets have 2 to 4 transitions and at most 2 arcs in a vector, so
that a caller can come in before, between and after them. `SINGLE_THREAD`, where callers are
kept out, is in the theorems about `Firing` and in no run of it. The engine has one
loop and the proxy admits one caller at a time, so a net needs one of each.
`EventLoop` has no bound but the number of threads; two callers let one hold the mutex while
the other waits. `MaxPushed` bounds the jobs added: 3 or 4 let the worker
leave and be launched again, with jobs left over from before. `NetEditor` has
only the names, weights and files; two places let an arc be refused for one
while the other has it, and a weight is only ever compared with 0.

`MaxEntered` of `EngineModes` is the number of tokens in all: with four, one job can run, one
wait, one be retired and one be detached at once. `MaxClears` of 1 lets a name stand for a place that is gone and
for a new one; the option may be changed any number of times. `Elevator` has three floors, so that there is
one between the ends, to pass or to stop at; with three requests a floor can be in each list. With three floors
`HeadsForADestination` also holds without `TurnedBeforeAdding` in `disturbed`; the ordering it stands for does harm only from four floors on. That
nothing else is left out is shown by the theorems, for any number of floors (and by TLC with `TopFloor = 3`, in
4.3 million states and too long for a run). `MaxPresses` bounds the tokens of a door button, not how often it is pressed.

### Fairness

`FairSpec` of `Firing`: the loop's thread and the caller's thread take steps when they
can (threads are scheduled, conditions return, inline actions
return) and actions in execution end. Nobody has to call. `NoStarvation` is stated for transitions without
conditions: user code may refuse for ever.

`EventLoop`: `Spec` has weak fairness of the loop's thread and of each call made,
and nothing on the sleep's end, so that tokens are shown to be seen by
notification alone. `TimedFairness`, assumed by `MutexIsReturned` and `ThrownTokensAreSeen`, adds the end of the sleep (strong, since spurious
wake-ups interrupt it but do not move its deadline) and strong fairness of the two acquisitions
of mutexes that the loop holds off and on.
Rounds end because actions do; a `SINGLE_THREAD` `execute` comes to an end only
if its net does, which is assumed.

`JobQueue`: the worker and each call in progress go on; jobs end.

`EngineModes`: the workers of the present and of the replaced queue go on, actions end, and
`setActionsThreadOption` goes on once it has joined. `Elevator` has safety properties only; `RestsReady` says
where it can come to rest.

## Theorems

For all values of the constants that satisfy the modules' assumptions (any net,
any number of threads, any width of the counter).

* `FiringProofs!TypeCorrect`, from the base invariant `BaseInv` = types, which stage goes with which place,
  counts below their bound, `executing` exactly from `Execute` to the end.
* `FiringProofs!ActivationNeverShort` (`NeverShort`). Inductive invariant
  `CheckedInv`: the arcs visited so far hold their weight, kept because
  only the loop takes tokens (callers only add), and because the places of a vector of arcs are
  distinct, so leaving one arc takes nothing from the next.
* `FiringProofs!FiringIsExclusive` (`ExclusiveFiring`). The invariant follows the three reads: after the block has been
  raised, an on-enter action of an activation place can only be started by a thread that passed the
  flag before, and that thread holds the place's mutex until the counter shows
  its action; the loop's check of tokens needs that mutex, and the
  counter is read after it.
* `FiringProofs!BlockIsLifted` (`BlockedOnlyWhileExecuting`), for options with a thread of
  the loop. In `SINGLE_THREAD` an exception leaves `execute` with the flags raised.
* `AtomicFiringProofs!EngineFiresAtomically` (`AtomicFiring`), for the options with a thread of the loop and nets on which
  callers cannot fill an inhibitor place (`CallersCannotInhibit`; why, under Known limits). Besides `CheckedInv` it needs
  `UninhibitedInv`, that places found empty stay empty until `Commit`. Then each step is compared through the mapping: `Commit`
  fires the transition at once; leaving an arc takes from the places what `AbstractMarking` no longer subtracts,
  entering one puts what it no longer adds, so both stutter; a caller's token is one more in the abstract marking, unless a
  reset arc still to be left will take it, when it is not seen at all; all other steps keep everything the
  mapping looks at. `SingleThreadFiresAtomically` is the same for `SINGLE_THREAD` and any net, except for the step in which an
  exception or overflow leaves `execute()` (`LoopThrows`) and undoes nothing.
* `AtomicFiringProofs!NobodyIsEmbraced` (`NoEmbrace`), if no place that a transition holds back, with an on-enter action, is an
  input place or a destination of that transition (`HoldsBackOthersOnly`). `WaitInv` says who can wait for a flag at all: a caller
  in an input place, the loop in a destination; and a flag is up only on activation places of the transition in
  execution (`BlockedOnlyWhileExecuting`). The run `firing_deadlock` and the first of the known limits are nets that break the hypothesis.
* `EventLoopProofs`: `TypeCorrect` (with `Counted`: as long as the loop has not arrived, or the
  flag is up, only the stopping call can have), `LoopRests`, `OptionStable`,
  `WakeupNotLost` (with `Announced`: from a round's look at the net until the wait, an unseen token
  has the flag up or a caller about to raise it). They rest on `Held`: a call
  past the proxy's mutex is its holder.
* `JobQueueProofs`: `TypeCorrect` (`FlagIsExact`), `ExecutesInSequence` (the
  refinement of `TaskSequence`, step by step), `NoLostWakeup` (`Attended`, if threads can be created; with
  `StopHasReason`: a worker that is asked to stop has a deactivate or destructor waiting for it), `DeactivatedIsQuiet`
  (`InactiveIsQuiet`, if one thread makes the calls).

* `NetEditorProofs`: `NetIsWellFormed` (`WellFormed`), `RunningNetOnlyGrows`
  (`OnlyGrowsWhileRunning`), `ReturnedImportIsWhole` (`ImportIsWhole`) and `TypeCorrect`. One lemma per call shows that it keeps the
  types and leaves the net well formed, and an import, whose file is trusted
  with no more than its types, is made of such calls. `ImportIsWhole` follows from
  `Progress`, as long as nothing was removed since the import began (`kept`): what the file
  holds and is not left to do is in the net, and what others do can only add to that.
* `NetEditorProofs!SavedNetLoads` (`RoundTrip`). An exported arc is told from the others by transition, vector and place, as the net
  is `WellFormed`, so adding it to a net made of the others (`OneMade`) is never refused and gives the net with all of them. The
  import folds over the arcs in an order nobody chooses; that it ends at the saved net is an induction, for which the library's
  induction theorems cannot be used, but `WFMin` can: a smallest set of arcs for which the fold goes wrong has one arc less for
  which it does not. Nets are finite (`FiniteNet`), hence so are their arcs.
* `EngineModesProofs`: `TypesAreKept`, `CountersStayExact`, `ActionsStaySequential`, `OldQueueIsDone`
  (`QueueFollowsOption`) and `OnlyCutShortIsUndefined`, from one inductive invariant,
  `EngineInv`: numbers grow along the queue and are at most `entered`
  (`SequenceInv`), a job is in one pool only (`PoolsApart`), so that moving it
  leaves the number of outstanding jobs alone and ending it takes one, off the counter or, after an exception, onto `lost` (`JobsCounted`),
  and a job of a place that is gone is one that was counted when it went (`CutInv`).
* `ElevatorProofs`: `TypeCorrect`, `OneActivity` (`OneActivityAtATime`), `DoorsStayClosed`
  (`DoorsClosedWhileMoving`) and `RequestsAreKept` (`NoRequestIsDropped`), for any
  number of floors, requests and presses. The first two safety properties are place invariants of the net: each transition
  takes from a set of places the one token that it gives back to the set, whatever is enabled meanwhile; the last goes through
  the actions one by one.
* `JourneyProofs`: `NeverLeavesTheBuilding` (`StaysInTheBuilding`), `PassesNoDestination`
  (`NeverPassesADestination`), `AlwaysHeadsForADestination` (`HeadsForADestination`) and `AlwaysRestsReady` (`RestsReady`), for
  buildings of any height. All rest on `JourneyFits`: as long as nothing is `disturbed`, the lists hold floors of the building only, and
  the tokens are those of one *activity*, *direction* and *stage* that the queue, the request and the four lists fit
  (`MarkedAs`, `Agree`, `QueueFits`, `RequestsApart`, `ListsFit`). `QueueFits` tells which actions may lag behind the net: those whose
  end the next transition awaits are last, removals and merges left over from before are first, and `T3`
  waits for `ProcessedLists` behind them. `ListsFit` is why the lists lead somewhere: destinations lie ahead, floors of the next
  travel do not, unless a destination lies as far, so that when the list is empty the other list lies behind the cabin and can be
  rotated into it. To go through 66 transitions once instead of once per property, `FiringFollowsSkeleton`
  first shows that each takes one of 21 kinds of steps (`Skeleton`) of the three values. The least and greatest floor of a list, which
  the model takes by `CHOOSE`, exist by well-foundedness (`LowestAndHighest`). For `RestsReady` a transition that is active
  is found for each activity, except where the one floor left is the cabin's own (Known limits).

Only model-checked: all liveness (`NoStarvation`, `TokensAreSeen`,
`ThrownTokensAreSeen`, `MutexIsReturned`, `JobsAreExecuted`, `ReplacementEnds`), which is beyond the prover. Every invariant and every action property
of the passing runs is stated by a theorem, with the hypotheses given above.

## Not modelled, and the plan

* Names, properties, printing and logs; the XML formats.
* Factories and exceptions: they choose a class or carry a message.
* The other examples (a phone menu, arithmetic): one thread drives them and
  their only state is the marking of a net, which `Firing` takes as a constant.
* `clearInputPlaces`: `PTN_Engine` does not offer it, only tests call it.
* The calls that only read: they hold the proxy's mutex for a step and change
  nothing. What is left of them is the recursive shared lock of
  `getTransitionProperties` (`Transition.cpp:208`). Whether it can block depends
  on whether the standard library's `shared_mutex` prefers writers, which no
  code here says, so a model would prove something of the library.
* An export makes two calls (`IFileExporter.cpp:38`); here it is one step of a net at rest. What another
  thread creates between them would need the text of the half written file in the state of
  `NetEditor`, whose instance already has 700,000 states.
* On-exit actions in `EngineModes`. They go to the same executor with a counter of their own, which nothing in the engine reads
  (`requireNoActionsInExecution` asks for the on-enter counter), so they would be a place that only the loop enters; `Firing` has their order.
* An action of the queue that replaces its own executor: the queue's destructor would join the thread it runs in, which throws, and
  the process ends. The callers of `EngineModes` that replace it are not jobs of the queue, or wait as `Embrace` does.
* A caller of `Firing` calls one operation, `incrementInputPlace`; actions there do not call the engine
  (in `EventLoop` and `EngineModes` they do).

Next:

1. A module of its own for an export in two calls beside creations.
2. The same travel with requests that meet: what `disturbed` excludes, floor by floor.
