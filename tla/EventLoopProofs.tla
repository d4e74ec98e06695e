-------------------------- MODULE EventLoopProofs --------------------------
(***************************************************************************)
(* What holds of the event loop for any number of threads that call it,    *)
(* whether or not actions call the engine and threads can be created.      *)
(***************************************************************************)
EXTENDS EventLoop, TLAPS

-----------------------------------------------------------------------------
\* The types, except that arrivals are not bounded.
Types ==
    /\ proxy \in Thread \cup {NoThread}
    /\ option \in {"SINGLE_THREAD", "EVENT_LOOP"}
    /\ running \in BOOLEAN /\ newInput \in BOOLEAN /\ unseen \in BOOLEAN
    /\ unannounced \in BOOLEAN
    /\ loop \in LoopState
    /\ hasThread \in BOOLEAN /\ stopRequested \in BOOLEAN
    /\ arrivals \in Nat
    /\ pc \in [Thread -> {"idle"} \cup Request \cup Holding]

\* A call past the proxy's mutex holds it.
Held == \A t \in Thread : pc[t] \in Holding => proxy = t

\* The thread of the loop is launched with the flag up and no other around.
Launching ==
    \A t \in Thread : pc[t] = "launch" => running /\ loop \notin Looping

Base == Types /\ Held

LEMMA BaseInit == Init => Base
<1> SUFFICES ASSUME Init PROVE Base
  OBVIOUS
<1>1. pc \in [Thread -> {"idle"} \cup Request \cup Holding]
  BY DEF Init
<1>2. running \in BOOLEAN /\ newInput \in BOOLEAN /\ unseen \in BOOLEAN
      /\ unannounced \in BOOLEAN
  BY DEF Init
<1>3. hasThread \in BOOLEAN /\ stopRequested \in BOOLEAN
  BY DEF Init
<1>4. Held
  BY DEF Init, Held, Holding
<1>5. QED
  BY <1>1, <1>2, <1>3, <1>4 DEF Base, Types, Init, LoopState

LEMMA BaseStep == Base /\ [Next]_vars => Base'
<1> SUFFICES ASSUME Base, [Next]_vars PROVE Base'
  OBVIOUS
<1> USE EventLoopAssumption DEF Base, Types, Held, Request, Holding, LoopState, Looping, Round
<1>1. CASE UNCHANGED vars
  BY <1>1 DEF vars, settings, events, thread
<1>2. ASSUME NEW t \in Thread, Call(t) PROVE Base'
  BY <1>2 DEF Call, Request, Goto, settings, events, thread
<1>3. ASSUME NEW t \in Thread, PutToken(t) PROVE Base'
  BY <1>3 DEF PutToken, Enter, Goto, settings, events, thread
<1>4. ASSUME NEW t \in Thread, PutTokenAndThrow(t) PROVE Base'
  BY <1>4 DEF PutTokenAndThrow, Pass, Goto, settings, events, thread
<1>5. ASSUME NEW t \in Thread, RaiseFlag(t) PROVE Base'
  BY <1>5 DEF RaiseFlag, Goto, settings, events, thread
<1>6. ASSUME NEW t \in Thread, NotifyNewEvent(t) PROVE Base'
  BY <1>6 DEF NotifyNewEvent, Notified, NotifierFree, Return, Goto, settings, events, thread
<1>7. ASSUME NEW t \in Thread, ExecuteRefused(t) PROVE Base'
  BY <1>7 DEF ExecuteRefused, Pass, Goto, settings, events, thread
<1>8. ASSUME NEW t \in Thread, ExecuteHere(t) PROVE Base'
  BY <1>8 DEF ExecuteHere, Enter, Goto, settings, events, thread
<1>9. ASSUME NEW t \in Thread, RoundHere(t) PROVE Base'
  BY <1>9 DEF RoundHere, Return, Goto, settings, events, thread
<1>10. ASSUME NEW t \in Thread, NewBarrier(t) PROVE Base'
  BY <1>10 DEF NewBarrier, FreshBarrier, Enter, Goto, settings, events, thread
<1>11. ASSUME NEW t \in Thread, Launch(t) PROVE Base'
  BY <1>11 DEF Launch, Return, Goto, settings, events, thread
<1>12. ASSUME NEW t \in Thread, LaunchFails(t) PROVE Base'
  BY <1>12 DEF LaunchFails, Return, Goto, settings, events, thread
<1>13. ASSUME NEW t \in Thread, NothingToStop(t) PROVE Base'
  BY <1>13 DEF NothingToStop, Pass, Goto, settings, events, thread
<1>14. ASSUME NEW t \in Thread, RequestStop(t) PROVE Base'
  BY <1>14 DEF RequestStop, Enter, Goto, settings, events, thread
<1>15. ASSUME NEW t \in Thread, Arrive(t) PROVE Base'
  BY <1>15 DEF Arrive, Goto, settings, events, thread
<1>16. ASSUME NEW t \in Thread, Stopped(t) PROVE Base'
  BY <1>16 DEF Stopped, Return, Goto, settings, events, thread
<1>17. ASSUME NEW t \in Thread, SetOption(t) PROVE Base'
  BY <1>17 DEF SetOption, Pass, Goto, settings, events, thread
<1>18. ASSUME NEW t \in Thread, SetOptionRefused(t) PROVE Base'
  BY <1>18 DEF SetOptionRefused, Pass, Goto, settings, events, thread
<1>19. ASSUME NEW t \in Thread, SetSleepDuration(t) PROVE Base'
  BY <1>19 DEF SetSleepDuration, Enter, Goto, settings, events, thread
<1>20. ASSUME NEW t \in Thread, SleepDurationSet(t) PROVE Base'
  BY <1>20 DEF SleepDurationSet, Return, Goto, settings, events, thread
<1>21. ASSUME BeginRound PROVE Base'
  BY <1>21 DEF BeginRound, Advance, settings, events, thread
<1>22. ASSUME LeaveLoop PROVE Base'
  BY <1>22 DEF LeaveLoop, Advance, settings, events, thread
<1>23. ASSUME ClearNewInput PROVE Base'
  BY <1>23 DEF ClearNewInput, Advance, settings, events, thread
<1>24. ASSUME Collect PROVE Base'
  BY <1>24 DEF Collect, Advance, settings, events, thread
<1>25. ASSUME EndRound PROVE Base'
  BY <1>25 DEF EndRound, Advance, settings, events, thread
<1>26. ASSUME Awaken PROVE Base'
  BY <1>26 DEF Awaken, Advance, settings, events, thread
<1>27. ASSUME DecideToSleep PROVE Base'
  BY <1>27 DEF DecideToSleep, Advance, settings, events, thread
<1>28. ASSUME FallAsleep PROVE Base'
  BY <1>28 DEF FallAsleep, Advance, settings, events, thread
<1>29. ASSUME TimeOut PROVE Base'
  BY <1>29 DEF TimeOut, Advance, settings, events, thread
<1>30. ASSUME WakeSpuriously PROVE Base'
  BY <1>30 DEF WakeSpuriously, Advance, settings, events, thread
<1>31. ASSUME ArriveAtBarrier PROVE Base'
  BY <1>31 DEF ArriveAtBarrier, Advance, settings, events, thread
<1>32. ASSUME LeaveBarrier PROVE Base'
  BY <1>32 DEF LeaveBarrier, Advance, settings, events, thread
<1>33. QED
  BY <1>1, <1>2, <1>3, <1>4, <1>5, <1>6, <1>7, <1>8, <1>9, <1>10, <1>11, <1>12,
     <1>13, <1>14, <1>15, <1>16, <1>17, <1>18, <1>19, <1>20, <1>21, <1>22,
     <1>23, <1>24, <1>25, <1>26, <1>27, <1>28, <1>29, <1>30, <1>31, <1>32
     DEF Next, Proceed, RunStep

-----------------------------------------------------------------------------
LEMMA RestStep ==
    Base /\ Launching /\ RestsWhenNotRunning /\ [Next]_vars
        => Launching' /\ RestsWhenNotRunning'
<1> SUFFICES ASSUME Base, Launching, RestsWhenNotRunning, [Next]_vars
             PROVE  Launching' /\ RestsWhenNotRunning'
  OBVIOUS
<1> USE EventLoopAssumption
    DEF Base, Types, Held, Request, Holding, LoopState, Looping, Round,
        Launching, RestsWhenNotRunning
<1>1. CASE UNCHANGED vars
  BY <1>1 DEF vars, settings, events, thread
<1>2. ASSUME NEW t \in Thread, Call(t) PROVE Launching' /\ RestsWhenNotRunning'
  BY <1>2 DEF Call, Request, Goto, settings, events, thread
<1>3. ASSUME NEW t \in Thread, PutToken(t) PROVE Launching' /\ RestsWhenNotRunning'
  BY <1>3 DEF PutToken, Enter, Goto, settings, events, thread
<1>4. ASSUME NEW t \in Thread, PutTokenAndThrow(t) PROVE Launching' /\ RestsWhenNotRunning'
  BY <1>4 DEF PutTokenAndThrow, Pass, Goto, settings, events, thread
<1>5. ASSUME NEW t \in Thread, RaiseFlag(t) PROVE Launching' /\ RestsWhenNotRunning'
  BY <1>5 DEF RaiseFlag, Goto, settings, events, thread
<1>6. ASSUME NEW t \in Thread, NotifyNewEvent(t) PROVE Launching' /\ RestsWhenNotRunning'
  BY <1>6 DEF NotifyNewEvent, Notified, NotifierFree, Return, Goto, settings, events, thread
<1>7. ASSUME NEW t \in Thread, ExecuteRefused(t) PROVE Launching' /\ RestsWhenNotRunning'
  BY <1>7 DEF ExecuteRefused, Pass, Goto, settings, events, thread
<1>8. ASSUME NEW t \in Thread, ExecuteHere(t) PROVE Launching' /\ RestsWhenNotRunning'
  BY <1>8 DEF ExecuteHere, Enter, Goto, settings, events, thread
<1>9. ASSUME NEW t \in Thread, RoundHere(t) PROVE Launching' /\ RestsWhenNotRunning'
  BY <1>9 DEF RoundHere, Return, Goto, settings, events, thread
<1>10. ASSUME NEW t \in Thread, NewBarrier(t) PROVE Launching' /\ RestsWhenNotRunning'
  BY <1>10 DEF NewBarrier, FreshBarrier, Enter, Goto, settings, events, thread
<1>11. ASSUME NEW t \in Thread, Launch(t) PROVE Launching' /\ RestsWhenNotRunning'
  BY <1>11 DEF Launch, Return, Goto, settings, events, thread
<1>12. ASSUME NEW t \in Thread, LaunchFails(t) PROVE Launching' /\ RestsWhenNotRunning'
  BY <1>12 DEF LaunchFails, Return, Goto, settings, events, thread
<1>13. ASSUME NEW t \in Thread, NothingToStop(t) PROVE Launching' /\ RestsWhenNotRunning'
  BY <1>13 DEF NothingToStop, Pass, Goto, settings, events, thread
<1>14. ASSUME NEW t \in Thread, RequestStop(t) PROVE Launching' /\ RestsWhenNotRunning'
  BY <1>14 DEF RequestStop, Enter, Goto, settings, events, thread
<1>15. ASSUME NEW t \in Thread, Arrive(t) PROVE Launching' /\ RestsWhenNotRunning'
  BY <1>15 DEF Arrive, Goto, settings, events, thread
<1>16. ASSUME NEW t \in Thread, Stopped(t) PROVE Launching' /\ RestsWhenNotRunning'
  BY <1>16 DEF Stopped, Return, Goto, settings, events, thread
<1>17. ASSUME NEW t \in Thread, SetOption(t) PROVE Launching' /\ RestsWhenNotRunning'
  BY <1>17 DEF SetOption, Pass, Goto, settings, events, thread
<1>18. ASSUME NEW t \in Thread, SetOptionRefused(t) PROVE Launching' /\ RestsWhenNotRunning'
  BY <1>18 DEF SetOptionRefused, Pass, Goto, settings, events, thread
<1>19. ASSUME NEW t \in Thread, SetSleepDuration(t) PROVE Launching' /\ RestsWhenNotRunning'
  BY <1>19 DEF SetSleepDuration, Enter, Goto, settings, events, thread
<1>20. ASSUME NEW t \in Thread, SleepDurationSet(t) PROVE Launching' /\ RestsWhenNotRunning'
  BY <1>20 DEF SleepDurationSet, Return, Goto, settings, events, thread
<1>21. ASSUME BeginRound PROVE Launching' /\ RestsWhenNotRunning'
  BY <1>21 DEF BeginRound, Advance, settings, events, thread
<1>22. ASSUME LeaveLoop PROVE Launching' /\ RestsWhenNotRunning'
  BY <1>22 DEF LeaveLoop, Advance, settings, events, thread
<1>23. ASSUME ClearNewInput PROVE Launching' /\ RestsWhenNotRunning'
  BY <1>23 DEF ClearNewInput, Advance, settings, events, thread
<1>24. ASSUME Collect PROVE Launching' /\ RestsWhenNotRunning'
  BY <1>24 DEF Collect, Advance, settings, events, thread
<1>25. ASSUME EndRound PROVE Launching' /\ RestsWhenNotRunning'
  BY <1>25 DEF EndRound, Advance, settings, events, thread
<1>26. ASSUME Awaken PROVE Launching' /\ RestsWhenNotRunning'
  BY <1>26 DEF Awaken, Advance, settings, events, thread
<1>27. ASSUME DecideToSleep PROVE Launching' /\ RestsWhenNotRunning'
  BY <1>27 DEF DecideToSleep, Advance, settings, events, thread
<1>28. ASSUME FallAsleep PROVE Launching' /\ RestsWhenNotRunning'
  BY <1>28 DEF FallAsleep, Advance, settings, events, thread
<1>29. ASSUME TimeOut PROVE Launching' /\ RestsWhenNotRunning'
  BY <1>29 DEF TimeOut, Advance, settings, events, thread
<1>30. ASSUME WakeSpuriously PROVE Launching' /\ RestsWhenNotRunning'
  BY <1>30 DEF WakeSpuriously, Advance, settings, events, thread
<1>31. ASSUME ArriveAtBarrier PROVE Launching' /\ RestsWhenNotRunning'
  BY <1>31 DEF ArriveAtBarrier, Advance, settings, events, thread
<1>32. ASSUME LeaveBarrier PROVE Launching' /\ RestsWhenNotRunning'
  BY <1>32 DEF LeaveBarrier, Advance, settings, events, thread
<1>33. QED
  BY <1>1, <1>2, <1>3, <1>4, <1>5, <1>6, <1>7, <1>8, <1>9, <1>10, <1>11, <1>12,
     <1>13, <1>14, <1>15, <1>16, <1>17, <1>18, <1>19, <1>20, <1>21, <1>22,
     <1>23, <1>24, <1>25, <1>26, <1>27, <1>28, <1>29, <1>30, <1>31, <1>32
     DEF Next, Proceed, RunStep

\* When isRunning() is false the loop is in no round, for any threads that
\* call the engine (EventLoop.cpp:35-71 and 92-106).
THEOREM LoopRests == Spec => []RestsWhenNotRunning
<1>1. Init => Launching /\ RestsWhenNotRunning
  BY DEF Init, Launching, RestsWhenNotRunning, Looping, Round
<1>2. QED
  BY <1>1, BaseInit, BaseStep, RestStep, PTL DEF Spec

-----------------------------------------------------------------------------
\* The option is never changed under a round of the loop or of a call of
\* execute (PTN_EngineImp.cpp:119-138).
LEMMA OptionStep ==
    ASSUME Base, RestsWhenNotRunning, Next, option' # option
    PROVE  loop \notin Looping /\ \A t \in Thread : pc[t] # "rounds"
<1>1. PICK t \in Thread : SetOption(t)
  BY DEF Next, Call, Proceed, PutToken, PutTokenAndThrow, RaiseFlag, NotifyNewEvent,
         ExecuteRefused, ExecuteHere, RoundHere, NewBarrier, Launch,
         LaunchFails, NothingToStop, RequestStop, Arrive, Stopped,
         SetOptionRefused, SetSleepDuration, SleepDurationSet, RunStep,
         BeginRound, LeaveLoop, ClearNewInput, Collect, EndRound, Awaken,
         DecideToSleep, FallAsleep, TimeOut, WakeSpuriously, ArriveAtBarrier,
         LeaveBarrier, Advance, settings
<1>2. ~running /\ proxy = NoThread
  BY <1>1 DEF SetOption, Pass, MayReconfigure
<1>3. QED
  BY <1>2, EventLoopAssumption
     DEF Base, Held, Holding, RestsWhenNotRunning

THEOREM OptionStable == Spec => OptionIsStable
<1>1. Init => Launching /\ RestsWhenNotRunning
  BY DEF Init, Launching, RestsWhenNotRunning, Looping, Round
<1>2. Base /\ RestsWhenNotRunning /\ [Next]_vars
      => [option' # option =>
            loop \notin Looping /\ \A t \in Thread : pc[t] # "rounds"]_vars
  BY OptionStep
<1>3. QED
  BY <1>1, <1>2, BaseInit, BaseStep, RestStep, PTL DEF Spec, OptionIsStable

-----------------------------------------------------------------------------
\* From the lookup of a round on, a token that is not seen has the flag up, or
\* the call that put it is about to raise the flag.
Announced ==
    unseen /\ ~newInput /\ loop \in {"fire", "lock", "decided", "asleep", "woken"}
        => \E t \in Thread : pc[t] = "flag"

LEMMA WakeupStep ==
    Base /\ Announced /\ NoLostWakeup /\ [Next]_vars
        => Announced' /\ NoLostWakeup'
<1> SUFFICES ASSUME Base, Announced, NoLostWakeup, [Next]_vars
             PROVE  Announced' /\ NoLostWakeup'
  OBVIOUS
<1> USE DEF Base, Types, Request, Holding, Announced, NoLostWakeup
<1>1. CASE UNCHANGED vars
  BY <1>1 DEF vars, settings, events, thread
<1>2. ASSUME NEW t \in Thread, Call(t) PROVE Announced' /\ NoLostWakeup'
  BY <1>2 DEF Call, Request, Goto, settings, events, thread
<1>3. ASSUME NEW t \in Thread, PutToken(t) PROVE Announced' /\ NoLostWakeup'
  BY <1>3 DEF PutToken, Enter, Goto, settings, events, thread
<1>4. ASSUME NEW t \in Thread, PutTokenAndThrow(t) PROVE Announced' /\ NoLostWakeup'
  BY <1>4 DEF PutTokenAndThrow, Pass, Goto, settings, events, thread
<1>5. ASSUME NEW t \in Thread, RaiseFlag(t) PROVE Announced' /\ NoLostWakeup'
  BY <1>5 DEF RaiseFlag, Goto, settings, events, thread
<1>6. ASSUME NEW t \in Thread, NotifyNewEvent(t) PROVE Announced' /\ NoLostWakeup'
  BY <1>6 DEF NotifyNewEvent, Notified, NotifierFree, Return, Goto, settings, events, thread
<1>7. ASSUME NEW t \in Thread, ExecuteRefused(t) PROVE Announced' /\ NoLostWakeup'
  BY <1>7 DEF ExecuteRefused, Pass, Goto, settings, events, thread
<1>8. ASSUME NEW t \in Thread, ExecuteHere(t) PROVE Announced' /\ NoLostWakeup'
  BY <1>8 DEF ExecuteHere, Enter, Goto, settings, events, thread
<1>9. ASSUME NEW t \in Thread, RoundHere(t) PROVE Announced' /\ NoLostWakeup'
  BY <1>9 DEF RoundHere, Return, Goto, settings, events, thread
<1>10. ASSUME NEW t \in Thread, NewBarrier(t) PROVE Announced' /\ NoLostWakeup'
  BY <1>10 DEF NewBarrier, FreshBarrier, Enter, Goto, settings, events, thread
<1>11. ASSUME NEW t \in Thread, Launch(t) PROVE Announced' /\ NoLostWakeup'
  BY <1>11 DEF Launch, Return, Goto, settings, events, thread
<1>12. ASSUME NEW t \in Thread, LaunchFails(t) PROVE Announced' /\ NoLostWakeup'
  BY <1>12 DEF LaunchFails, Return, Goto, settings, events, thread
<1>13. ASSUME NEW t \in Thread, NothingToStop(t) PROVE Announced' /\ NoLostWakeup'
  BY <1>13 DEF NothingToStop, Pass, Goto, settings, events, thread
<1>14. ASSUME NEW t \in Thread, RequestStop(t) PROVE Announced' /\ NoLostWakeup'
  BY <1>14 DEF RequestStop, Enter, Goto, settings, events, thread
<1>15. ASSUME NEW t \in Thread, Arrive(t) PROVE Announced' /\ NoLostWakeup'
  BY <1>15 DEF Arrive, Goto, settings, events, thread
<1>16. ASSUME NEW t \in Thread, Stopped(t) PROVE Announced' /\ NoLostWakeup'
  BY <1>16 DEF Stopped, Return, Goto, settings, events, thread
<1>17. ASSUME NEW t \in Thread, SetOption(t) PROVE Announced' /\ NoLostWakeup'
  BY <1>17 DEF SetOption, Pass, Goto, settings, events, thread
<1>18. ASSUME NEW t \in Thread, SetOptionRefused(t) PROVE Announced' /\ NoLostWakeup'
  BY <1>18 DEF SetOptionRefused, Pass, Goto, settings, events, thread
<1>19. ASSUME NEW t \in Thread, SetSleepDuration(t) PROVE Announced' /\ NoLostWakeup'
  BY <1>19 DEF SetSleepDuration, Enter, Goto, settings, events, thread
<1>20. ASSUME NEW t \in Thread, SleepDurationSet(t) PROVE Announced' /\ NoLostWakeup'
  BY <1>20 DEF SleepDurationSet, Return, Goto, settings, events, thread
<1>21. ASSUME BeginRound PROVE Announced' /\ NoLostWakeup'
  BY <1>21 DEF BeginRound, Advance, settings, events, thread
<1>22. ASSUME LeaveLoop PROVE Announced' /\ NoLostWakeup'
  BY <1>22 DEF LeaveLoop, Advance, settings, events, thread
<1>23. ASSUME ClearNewInput PROVE Announced' /\ NoLostWakeup'
  BY <1>23 DEF ClearNewInput, Advance, settings, events, thread
<1>24. ASSUME Collect PROVE Announced' /\ NoLostWakeup'
  BY <1>24 DEF Collect, Advance, settings, events, thread
<1>25. ASSUME EndRound PROVE Announced' /\ NoLostWakeup'
  BY <1>25 DEF EndRound, Advance, settings, events, thread
<1>26. ASSUME Awaken PROVE Announced' /\ NoLostWakeup'
  BY <1>26 DEF Awaken, Advance, settings, events, thread
<1>27. ASSUME DecideToSleep PROVE Announced' /\ NoLostWakeup'
  BY <1>27 DEF DecideToSleep, Advance, settings, events, thread
<1>28. ASSUME FallAsleep PROVE Announced' /\ NoLostWakeup'
  BY <1>28 DEF FallAsleep, Advance, settings, events, thread
<1>29. ASSUME TimeOut PROVE Announced' /\ NoLostWakeup'
  BY <1>29 DEF TimeOut, Advance, settings, events, thread
<1>30. ASSUME WakeSpuriously PROVE Announced' /\ NoLostWakeup'
  BY <1>30 DEF WakeSpuriously, Advance, settings, events, thread
<1>31. ASSUME ArriveAtBarrier PROVE Announced' /\ NoLostWakeup'
  BY <1>31 DEF ArriveAtBarrier, Advance, settings, events, thread
<1>32. ASSUME LeaveBarrier PROVE Announced' /\ NoLostWakeup'
  BY <1>32 DEF LeaveBarrier, Advance, settings, events, thread
<1>33. QED
  BY <1>1, <1>2, <1>3, <1>4, <1>5, <1>6, <1>7, <1>8, <1>9, <1>10, <1>11, <1>12,
     <1>13, <1>14, <1>15, <1>16, <1>17, <1>18, <1>19, <1>20, <1>21, <1>22,
     <1>23, <1>24, <1>25, <1>26, <1>27, <1>28, <1>29, <1>30, <1>31, <1>32
     DEF Next, Proceed, RunStep

\* The loop never sleeps on a token that no round has looked at unless the
\* call that put it is about to wake it, for any number of callers
\* (PTN_EngineImp.cpp:112-117 and 155-158, EventLoop.cpp:73-77 and 94-103).
THEOREM WakeupNotLost == Spec => []NoLostWakeup
<1>1. Init => Announced /\ NoLostWakeup
  BY DEF Init, Announced, NoLostWakeup
<1>2. QED
  BY <1>1, BaseInit, BaseStep, WakeupStep, PTL DEF Spec

-----------------------------------------------------------------------------
\* Each side arrives once at the barrier of a stop: while the loop is before
\* its arrival, or the flag is up, only the call that stops it has arrived.
CallerArrived == IF \E t \in Thread : pc[t] = "barrier" THEN 1 ELSE 0

Counted ==
    /\ running \/ loop \in Looping \cup {"arrive"} => arrivals = CallerArrived
    /\ loop = "arrive" => ~running
    /\ loop = "arrive" \/ (loop \in Looping /\ stopRequested)
         => \E t \in Thread : pc[t] \in {"arrive", "barrier"}
    /\ \A t \in Thread : pc[t] = "arrive" => arrivals \in {0, 1}
    /\ arrivals \in 0 .. 2

LEMMA CountedStep ==
    Base /\ Launching /\ RestsWhenNotRunning /\ Counted /\ [Next]_vars
        => Counted'
<1> SUFFICES ASSUME Base, Launching, RestsWhenNotRunning, Counted, [Next]_vars
             PROVE  Counted'
  OBVIOUS
<1> USE EventLoopAssumption
    DEF Base, Types, Held, Request, Holding, LoopState, Looping, Round,
        Launching, RestsWhenNotRunning, Counted, CallerArrived
<1>1. CASE UNCHANGED vars
  BY <1>1 DEF vars, settings, events, thread
<1>2. ASSUME NEW t \in Thread, Call(t) PROVE Counted'
  BY <1>2 DEF Call, Request, Goto, settings, events, thread
<1>3. ASSUME NEW t \in Thread, PutToken(t) PROVE Counted'
  BY <1>3 DEF PutToken, Enter, Goto, settings, events, thread
<1>4. ASSUME NEW t \in Thread, PutTokenAndThrow(t) PROVE Counted'
  BY <1>4 DEF PutTokenAndThrow, Pass, Goto, settings, events, thread
<1>5. ASSUME NEW t \in Thread, RaiseFlag(t) PROVE Counted'
  BY <1>5 DEF RaiseFlag, Goto, settings, events, thread
<1>6. ASSUME NEW t \in Thread, NotifyNewEvent(t) PROVE Counted'
  BY <1>6 DEF NotifyNewEvent, Notified, NotifierFree, Return, Goto, settings, events, thread
<1>7. ASSUME NEW t \in Thread, ExecuteRefused(t) PROVE Counted'
  BY <1>7 DEF ExecuteRefused, Pass, Goto, settings, events, thread
<1>8. ASSUME NEW t \in Thread, ExecuteHere(t) PROVE Counted'
  BY <1>8 DEF ExecuteHere, Enter, Goto, settings, events, thread
<1>9. ASSUME NEW t \in Thread, RoundHere(t) PROVE Counted'
  BY <1>9 DEF RoundHere, Return, Goto, settings, events, thread
<1>10. ASSUME NEW t \in Thread, NewBarrier(t) PROVE Counted'
  BY <1>10 DEF NewBarrier, FreshBarrier, Enter, Goto, settings, events, thread
<1>11. ASSUME NEW t \in Thread, Launch(t) PROVE Counted'
  BY <1>11 DEF Launch, Return, Goto, settings, events, thread
<1>12. ASSUME NEW t \in Thread, LaunchFails(t) PROVE Counted'
  BY <1>12 DEF LaunchFails, Return, Goto, settings, events, thread
<1>13. ASSUME NEW t \in Thread, NothingToStop(t) PROVE Counted'
  BY <1>13 DEF NothingToStop, Pass, Goto, settings, events, thread
<1>14. ASSUME NEW t \in Thread, RequestStop(t) PROVE Counted'
  BY <1>14 DEF RequestStop, Enter, Goto, settings, events, thread
<1>15. ASSUME NEW t \in Thread, Arrive(t) PROVE Counted'
  BY <1>15 DEF Arrive, Goto, settings, events, thread
<1>16. ASSUME NEW t \in Thread, Stopped(t) PROVE Counted'
  BY <1>16 DEF Stopped, Return, Goto, settings, events, thread
<1>17. ASSUME NEW t \in Thread, SetOption(t) PROVE Counted'
  BY <1>17 DEF SetOption, Pass, Goto, settings, events, thread
<1>18. ASSUME NEW t \in Thread, SetOptionRefused(t) PROVE Counted'
  BY <1>18 DEF SetOptionRefused, Pass, Goto, settings, events, thread
<1>19. ASSUME NEW t \in Thread, SetSleepDuration(t) PROVE Counted'
  BY <1>19 DEF SetSleepDuration, Enter, Goto, settings, events, thread
<1>20. ASSUME NEW t \in Thread, SleepDurationSet(t) PROVE Counted'
  BY <1>20 DEF SleepDurationSet, Return, Goto, settings, events, thread
<1>21. ASSUME BeginRound PROVE Counted'
  BY <1>21 DEF BeginRound, Advance, settings, events, thread
<1>22. ASSUME LeaveLoop PROVE Counted'
  BY <1>22 DEF LeaveLoop, Advance, settings, events, thread
<1>23. ASSUME ClearNewInput PROVE Counted'
  BY <1>23 DEF ClearNewInput, Advance, settings, events, thread
<1>24. ASSUME Collect PROVE Counted'
  BY <1>24 DEF Collect, Advance, settings, events, thread
<1>25. ASSUME EndRound PROVE Counted'
  BY <1>25 DEF EndRound, Advance, settings, events, thread
<1>26. ASSUME Awaken PROVE Counted'
  BY <1>26 DEF Awaken, Advance, settings, events, thread
<1>27. ASSUME DecideToSleep PROVE Counted'
  BY <1>27 DEF DecideToSleep, Advance, settings, events, thread
<1>28. ASSUME FallAsleep PROVE Counted'
  BY <1>28 DEF FallAsleep, Advance, settings, events, thread
<1>29. ASSUME TimeOut PROVE Counted'
  BY <1>29 DEF TimeOut, Advance, settings, events, thread
<1>30. ASSUME WakeSpuriously PROVE Counted'
  BY <1>30 DEF WakeSpuriously, Advance, settings, events, thread
<1>31. ASSUME ArriveAtBarrier PROVE Counted'
  BY <1>31 DEF ArriveAtBarrier, Advance, settings, events, thread
<1>32. ASSUME LeaveBarrier PROVE Counted'
  BY <1>32 DEF LeaveBarrier, Advance, settings, events, thread
<1>33. QED
  BY <1>1, <1>2, <1>3, <1>4, <1>5, <1>6, <1>7, <1>8, <1>9, <1>10, <1>11, <1>12,
     <1>13, <1>14, <1>15, <1>16, <1>17, <1>18, <1>19, <1>20, <1>21, <1>22,
     <1>23, <1>24, <1>25, <1>26, <1>27, <1>28, <1>29, <1>30, <1>31, <1>32
     DEF Next, Proceed, RunStep

\* Every variable keeps its type; in particular nobody arrives twice at a
\* barrier, whoever starts and stops the loop (EventLoop.cpp:40-52 and 67).
THEOREM TypeCorrect == Spec => []TypeOK
<1>1. Init => Launching /\ RestsWhenNotRunning /\ Counted
  BY DEF Init, Launching, RestsWhenNotRunning, Counted, CallerArrived, Looping,
         Round
<1>2. Base /\ Counted => TypeOK
  BY DEF Base, Types, Counted, TypeOK
<1>3. QED
  BY <1>1, <1>2, BaseInit, BaseStep, RestStep, CountedStep, PTL DEF Spec
=============================================================================
