---------------------------- MODULE FiringProofs ---------------------------
(***************************************************************************)
(* Theorems about module Firing, for every net, every number of callers'   *)
(* tokens and every thread option.                                         *)
(***************************************************************************)
EXTENDS Firing, TLAPS

(* Who is where: only a thread inside a place has one, never both the same *)
(* one, and the loop is inside a place only while it leaves or enters it.  *)
StageInv ==
    /\ stage["caller"] # "onExit"
    /\ stage["loop"] # "notify"
    /\ \A th \in Thread : inside[th] = NoPlace <=> stage[th] \in {"out", "notify"}
    /\ inside["loop"] # NoPlace => inside["loop"] # inside["caller"]
    /\ stage["loop"] = "onExit" => pc = "exit"
    /\ stage["loop"] \in {"spin", "start", "onEnter"} => pc = "enter"

(* An inline action in progress is counted.                                *)
CountInv ==
    /\ \A th \in Thread :
          stage[th] = "onEnter" => Inline /\ onEnterRunning[inside[th]] > 0
    /\ stage["loop"] = "onExit" => Inline /\ onExitRunning[inside["loop"]] > 0

ExecutingInv ==
    /\ executing => pc \in Checking \cup Firings
    /\ pc \in {"noActions", "conditions", "exit", "enter"} => executing

BaseInv == TypeOK /\ StageInv /\ CountInv /\ ExecutingInv

(* The arcs of a transition lead to places and carry natural weights.      *)
LEMMA ArcTypes ==
    ASSUME NEW t \in Transition
    PROVE  /\ Len(Activation[t]) \in Nat
           /\ Len(Destination[t]) \in Nat
           /\ Len(Inhibitor[t]) \in Nat
           /\ \A i \in 1..Len(Activation[t]) :
                 /\ Activation[t][i].place \in Place
                 /\ Activation[t][i].weight \in 0..MaxTokens
           /\ \A i \in 1..Len(Destination[t]) :
                 /\ Destination[t][i].place \in Place
                 /\ Destination[t][i].weight \in 0..MaxTokens
           /\ \A i \in 1..Len(Inhibitor[t]) : Inhibitor[t][i].place \in Place
<1>1. ASSUME NEW table, IsArcTable(table)
      PROVE  /\ Len(table[t]) \in Nat
             /\ \A i \in 1..Len(table[t]) :
                   /\ table[t][i].place \in Place
                   /\ table[t][i].weight \in 0..MaxTokens
  <2>1. table[t] \in Seq(Arc)
    BY <1>1 DEF IsArcTable
  <2>2. \A i \in 1..Len(table[t]) : table[t][i] \in Arc
    BY <2>1
  <2>. QED BY <2>1, <2>2 DEF Arc
<1>. QED BY <1>1, NetAssumption

LEMMA NetTypes ==
    /\ MaxTokens \in Nat
    /\ InputPlace \subseteq Place
    /\ InitialTokens \in [Place -> 0..MaxTokens]
BY NetAssumption

USE DEF Thread

LEMMA BaseInit == Init => BaseInv
<1> SUFFICES ASSUME Init PROVE BaseInv
  OBVIOUS
<1> USE NetTypes, FiringAssumption DEF Init
<1>1. TypeOK
  <2>1. newInput \in BOOLEAN /\ executing \in BOOLEAN /\ fired \in BOOLEAN
    OBVIOUS
  <2>2. blocked \in [Place -> BOOLEAN] /\ terminated \in BOOLEAN
    OBVIOUS
  <2>. QED BY <2>1, <2>2 DEF TypeOK, Phase, Stage, Checking, Firings
<1>2. StageInv
  BY DEF StageInv
<1>3. CountInv /\ ExecutingInv
  BY DEF CountInv, ExecutingInv
<1>. QED BY <1>1, <1>2, <1>3 DEF BaseInv

LEMMA BaseStep == BaseInv /\ [Next]_vars => BaseInv'
<1> SUFFICES ASSUME BaseInv, [Next]_vars PROVE BaseInv'
  OBVIOUS
<1> USE NetTypes, FiringAssumption
        DEF BaseInv, TypeOK, StageInv, CountInv, ExecutingInv, Phase, Stage, Checking, Firings,
            vars, marks, counters, round, control, threads, GoTo, Pass, NextArc
<1>1. CASE BeginRound
  <2>1. TypeOK'
    <3>1. (newInput \in BOOLEAN /\ executing \in BOOLEAN /\ fired \in BOOLEAN)'
      BY <1>1 DEF BeginRound
    <3>2. (blocked \in [Place -> BOOLEAN] /\ terminated \in BOOLEAN)'
      BY <1>1 DEF BeginRound
    <3>. QED BY <3>1, <3>2, <1>1 DEF BeginRound
  <2>2. StageInv'
    BY <1>1 DEF BeginRound
  <2>3. CountInv'
    BY <1>1 DEF BeginRound
  <2>4. ExecutingInv'
    BY <1>1 DEF BeginRound
  <2>. QED BY <2>1, <2>2, <2>3, <2>4
<1>2. ASSUME NEW t \in Transition, Collect(t) PROVE BaseInv'
  BY <1>2 DEF Collect
<1>3. CASE Collected
  BY <1>3 DEF Collected
<1>4. ASSUME NEW t \in Transition, Execute(t) PROVE BaseInv'
  <2>1. TypeOK'
    <3>1. (newInput \in BOOLEAN /\ executing \in BOOLEAN /\ fired \in BOOLEAN)'
      BY <1>4 DEF Execute, BlockStarting
    <3>2. (blocked \in [Place -> BOOLEAN] /\ terminated \in BOOLEAN)'
      BY <1>4 DEF Execute, BlockStarting
    <3>. QED BY <3>1, <3>2, <1>4 DEF Execute
  <2>2. StageInv'
    BY <1>4 DEF Execute, BlockStarting
  <2>3. CountInv'
    BY <1>4 DEF Execute, BlockStarting
  <2>4. ExecutingInv'
    BY <1>4 DEF Execute, BlockStarting
  <2>. QED BY <2>1, <2>2, <2>3, <2>4
<1>5. CASE EndRound
  BY <1>5 DEF EndRound
<1>6. ASSUME Reject, pc \in {"inhibitors", "activation", "noActions", "conditions"} PROVE BaseInv'
  <2>1. TypeOK'
    <3>1. (newInput \in BOOLEAN /\ executing \in BOOLEAN /\ fired \in BOOLEAN)'
      BY <1>6 DEF Reject, LiftBlock, BlockStarting
    <3>2. (blocked \in [Place -> BOOLEAN] /\ terminated \in BOOLEAN)'
      BY <1>6 DEF Reject, LiftBlock, BlockStarting
    <3>. QED BY <3>1, <3>2, <1>6 DEF Reject
  <2>2. StageInv'
    BY <1>6 DEF Reject, LiftBlock, BlockStarting
  <2>3. CountInv'
    BY <1>6 DEF Reject, LiftBlock, BlockStarting
  <2>4. ExecutingInv'
    BY <1>6 DEF Reject, LiftBlock, BlockStarting
  <2>. QED BY <2>1, <2>2, <2>3, <2>4
<1>34. ASSUME NextArc, pc \in {"inhibitors", "activation", "noActions"} PROVE BaseInv'
  BY <1>34
<1>7. CASE CheckInhibitor
  <2>1. Reject \/ NextArc
    BY <1>7 DEF CheckInhibitor
  <2>2. pc \in {"inhibitors", "activation", "noActions"}
    BY <1>7 DEF CheckInhibitor
  <2>. QED BY <1>6, <1>34, <2>1, <2>2
<1>8. CASE InhibitorsChecked
  BY <1>8 DEF InhibitorsChecked
<1>9. CASE CheckActivation
  <2>1. Reject \/ NextArc
    BY <1>9 DEF CheckActivation
  <2>2. pc \in {"inhibitors", "activation", "noActions"}
    BY <1>9 DEF CheckActivation
  <2>. QED BY <1>6, <1>34, <2>1, <2>2
<1>10. CASE FoundEnabled
  BY <1>10 DEF FoundEnabled
<1>11. CASE ActivationChecked
  BY <1>11 DEF ActivationChecked
<1>12. CASE CheckNoActions
  <2>1. Reject \/ NextArc
    BY <1>12 DEF CheckNoActions
  <2>2. pc \in {"inhibitors", "activation", "noActions"}
    BY <1>12 DEF CheckNoActions
  <2>. QED BY <1>6, <1>34, <2>1, <2>2
<1>13. CASE NoActionsChecked
  BY <1>13 DEF NoActionsChecked
<1>14. CASE ConditionsRefuse
  BY <1>6, <1>14 DEF ConditionsRefuse
<1>15. CASE Commit
  BY <1>15 DEF Commit
<1>16. ASSUME LoopThrows PROVE BaseInv'
  <2>1. TypeOK'
    <3>1. (newInput \in BOOLEAN /\ executing \in BOOLEAN /\ fired \in BOOLEAN)'
      BY <1>16 DEF LoopThrows
    <3>2. (blocked \in [Place -> BOOLEAN] /\ terminated \in BOOLEAN)'
      BY <1>16 DEF LoopThrows
    <3>. QED BY <3>1, <3>2, <1>16 DEF LoopThrows
  <2>2. StageInv'
    BY <1>16 DEF LoopThrows
  <2>3. CountInv'
    BY <1>16 DEF LoopThrows
  <2>4. ExecutingInv'
    BY <1>16 DEF LoopThrows
  <2>. QED BY <2>1, <2>2, <2>3, <2>4
<1>17. CASE ConditionThrows
  BY <1>16, <1>17 DEF ConditionThrows
<1>18. CASE Exit
  <2>. DEFINE a == Activation[current][arc]
  <2>1. /\ pc = "exit"
        /\ stage["loop"] = "out"
        /\ Free("loop", a.place)
        /\ arc <= Len(Activation[current])
    BY <1>18 DEF Exit
  <2>2. a.place \in Place /\ a.weight \in 0..MaxTokens
    BY <2>1, ArcTypes
  <2>3. CASE tokens[a.place] < a.weight
    <3>. LoopThrows
      BY <1>18, <2>3 DEF Exit
    <3>. QED BY <1>16
  <2>4. CASE ~(tokens[a.place] < a.weight)
    <3>1. DecreaseNumberOfTokens(tokens[a.place], a.weight) \in 0..MaxTokens
      BY <2>2, <2>4 DEF DecreaseNumberOfTokens
    <3>2. tokens' = [tokens EXCEPT ![a.place] =
                        DecreaseNumberOfTokens(tokens[a.place], a.weight)]
      BY <1>18, <2>4 DEF Exit
    <3>3. UNCHANGED <<blocked, onEnterRunning, newInput, control, round, terminated>>
      BY <1>18, <2>4 DEF Exit
    <3>4. \/ UNCHANGED onExitRunning /\ Leave("loop")
          \/ /\ onExitRunning' = [onExitRunning EXCEPT ![a.place] = @ + 1]
             /\ Inline
             /\ Stay("loop", a.place, "onExit")
          \/ /\ onExitRunning' = [onExitRunning EXCEPT ![a.place] = @ + 1]
             /\ Leave("loop")
      BY <1>18, <2>4 DEF Exit
    <3>5. pc' = pc /\ current' = current /\ arc' \in Nat \ {0}
      BY <3>3, <3>4 DEF Stay, Leave
    <3>6. a.place # NoPlace /\ inside["caller"] # a.place
      BY <2>1, <2>2 DEF Free
    <3>. HIDE DEF a
    <3>7. TypeOK'
      <4>1. inside' \in [Thread -> Place \cup {NoPlace}] /\ stage' \in [Thread -> Stage]
        BY <2>2, <3>4 DEF Stay, Leave
      <4>2. onExitRunning' \in [Place -> Nat]
        BY <2>2, <3>4
      <4>3. tokens' \in [Place -> 0..MaxTokens]
        BY <2>2, <3>1, <3>2
      <4>. QED BY <3>3, <3>5, <4>1, <4>2, <4>3
    <3>8. StageInv'
      <4>1. CASE Leave("loop")
        BY <2>1, <3>3, <4>1 DEF Leave
      <4>2. CASE Stay("loop", a.place, "onExit")
        BY <2>1, <3>3, <3>6, <4>2 DEF Stay
      <4>. QED BY <3>4, <4>1, <4>2
    <3>9. CountInv'
      BY <2>1, <2>2, <3>3, <3>4 DEF Stay, Leave, Free
    <3>10. ExecutingInv'
      BY <3>3
    <3>. QED BY <3>7, <3>8, <3>9, <3>10
  <2>. QED BY <2>3, <2>4
<1>19. CASE FinishOnExitAction
  BY <1>19 DEF FinishOnExitAction, Leave
<1>20. CASE ExitsDone
  BY <1>20 DEF ExitsDone
<1>21. ASSUME NEW th \in Thread, NEW p \in Place, NEW n \in 0..MaxTokens,
              stage[th] = "out", Free(th, p), th = "loop" => pc = "enter",
              ~CannotIncrease(p, n), EnterPlace(th, p, n)
       PROVE  BaseInv'
  BY <1>21 DEF EnterPlace, CannotIncrease, Free, Stay, Leave
<1>22. CASE Enter
  <2>. DEFINE a == Destination[current][arc]
  <2>1. a.place \in Place /\ a.weight \in 0..MaxTokens
    BY <1>22, ArcTypes DEF Enter
  <2>. QED BY <1>16, <1>21, <1>22, <2>1 DEF Enter
<1>23. CASE Fired
  <2>1. TypeOK'
    <3>1. (newInput \in BOOLEAN /\ executing \in BOOLEAN /\ fired \in BOOLEAN)'
      BY <1>23 DEF Fired, LiftBlock, BlockStarting
    <3>2. (blocked \in [Place -> BOOLEAN] /\ terminated \in BOOLEAN)'
      BY <1>23 DEF Fired, LiftBlock, BlockStarting
    <3>. QED BY <3>1, <3>2, <1>23 DEF Fired
  <2>2. StageInv'
    BY <1>23 DEF Fired, LiftBlock, BlockStarting
  <2>3. CountInv'
    BY <1>23 DEF Fired, LiftBlock, BlockStarting
  <2>4. ExecutingInv'
    BY <1>23 DEF Fired, LiftBlock, BlockStarting
  <2>. QED BY <2>1, <2>2, <2>3, <2>4
<1>24. ASSUME NEW p \in Place, IncrementInputPlace(p) PROVE BaseInv'
  <2>1. MaxTokens # 0
    BY <1>24 DEF IncrementInputPlace, CannotIncrease
  <2>. QED BY <1>21, <1>24, <2>1 DEF IncrementInputPlace
<1>25. CASE NotifyNewEvent
  BY <1>25 DEF NotifyNewEvent
<1>26. ASSUME NEW th \in Thread, PassBlock(th) PROVE BaseInv'
  BY <1>26 DEF PassBlock
<1>27. ASSUME NEW th \in Thread, StartOnEnterAction(th) PROVE BaseInv'
  BY <1>27 DEF StartOnEnterAction, Stay, Leave
<1>28. ASSUME NEW th \in Thread, FinishOnEnterAction(th) PROVE BaseInv'
  BY <1>28 DEF FinishOnEnterAction, Leave
<1>29. CASE LoopActionThrows
  BY <1>16, <1>29 DEF LoopActionThrows
<1>30. CASE CallerActionThrows
  BY <1>30 DEF CallerActionThrows
<1>31. ASSUME NEW p \in Place, JobCompletes(p) PROVE BaseInv'
  BY <1>31 DEF JobCompletes
<1>32. ASSUME NEW p \in Place, JobThrows(p) PROVE BaseInv'
  BY <1>32 DEF JobThrows
<1>33. CASE UNCHANGED vars
  BY <1>33
<1>. QED
  BY <1>1, <1>2, <1>3, <1>4, <1>5, <1>7, <1>8, <1>9, <1>10, <1>11, <1>12, <1>13,
     <1>14, <1>15, <1>17, <1>18, <1>19, <1>20, <1>22, <1>23, <1>24, <1>25,
     <1>26, <1>27, <1>28, <1>29, <1>30, <1>31, <1>32, <1>33
     DEF Next, Running, LoopStep, CallerStep, Terminated

(* Every variable of the model keeps to the range of the member it stands  *)
(* for: no counter goes below zero, no place above MaxTokens.              *)
THEOREM TypeCorrect == Spec => []TypeOK
<1>1. Init => BaseInv
  BY BaseInit
<1>2. BaseInv /\ [Next]_vars => BaseInv'
  BY BaseStep
<1>3. BaseInv => TypeOK
  BY DEF BaseInv
<1>. QED BY <1>1, <1>2, <1>3, PTL DEF Spec

-----------------------------------------------------------------------------
(***************************************************************************)
(* Why no activation place is ever found short: what a check has seen      *)
(* stays true, because nobody but the loop takes tokens away, and the loop *)
(* takes each arc's from another place.                                    *)
(***************************************************************************)
Sufficient(i) ==
    tokens[Activation[current][i].place] >= Activation[current][i].weight

CheckedInv ==
    /\ pc = "activation" =>
          \A i \in 1..Len(Activation[current]) : i < arc => Sufficient(i)
    /\ pc \in {"noActions", "conditions"} =>
          \A i \in 1..Len(Activation[current]) : Sufficient(i)
    /\ pc = "exit" =>
          \A i \in 1..Len(Activation[current]) : i >= NextExit => Sufficient(i)

(* A step that takes no token and leaves the loop where it is.             *)
LEMMA CheckedKept ==
    ASSUME BaseInv, CheckedInv,
           \A p \in Place : tokens'[p] >= tokens[p],
           pc' = pc, current' = current, arc' = arc, BaseInv',
           pc = "exit" => NextExit' = NextExit
    PROVE  CheckedInv'
<1>1. ASSUME pc \in Checking \cup Firings, NEW i \in 1..Len(Activation[current]), Sufficient(i)
      PROVE  Sufficient(i)'
  <2>1. current \in Transition
    BY <1>1 DEF BaseInv, TypeOK, Phase
  <2>2. /\ Activation[current][i].place \in Place
        /\ Activation[current][i].weight \in Nat
    BY <2>1, <1>1, ArcTypes, NetTypes
  <2>3. /\ tokens[Activation[current][i].place] \in Nat
        /\ tokens'[Activation[current][i].place] \in Nat
    BY <2>2, NetTypes DEF BaseInv, TypeOK
  <2>. QED BY <1>1, <2>2, <2>3 DEF Sufficient
<1>. QED BY <1>1 DEF CheckedInv, Checking, Firings

LEMMA CheckedStep == BaseInv /\ BaseInv' /\ CheckedInv /\ [Next]_vars => CheckedInv'
<1> SUFFICES ASSUME BaseInv, BaseInv', CheckedInv, [Next]_vars PROVE CheckedInv'
  OBVIOUS
<1> USE DEF vars, marks, counters, round, control, threads
<1>1. ASSUME pc' \notin {"activation", "noActions", "conditions", "exit"} PROVE CheckedInv'
  BY <1>1 DEF CheckedInv
<1>2. ASSUME UNCHANGED <<tokens, control, arc, stage>> PROVE CheckedInv'
  BY <1>2 DEF CheckedInv, Sufficient, NextExit
<1>3. CASE BeginRound \/ Collected \/ EndRound \/ (\E t \in Transition : Collect(t) \/ Execute(t))
  BY <1>1, <1>3 DEF BeginRound, Collected, EndRound, Collect, Execute, GoTo
<1>4. ASSUME Reject PROVE CheckedInv'
  BY <1>1, <1>4 DEF Reject, GoTo
<1>5. CASE CheckInhibitor
  <2>1. CASE Reject
    BY <1>4, <2>1
  <2>2. CASE NextArc /\ pc = "inhibitors"
    BY <1>1, <2>2 DEF NextArc
  <2>. QED BY <1>5, <2>1, <2>2 DEF CheckInhibitor
<1>6. CASE InhibitorsChecked
  <2>1. arc' = 1 /\ pc' = "activation"
    BY <1>6 DEF InhibitorsChecked, Pass, GoTo
  <2>. QED BY <2>1 DEF CheckedInv
<1>7. CASE CheckActivation
  <2>1. CASE Reject
    BY <1>4, <2>1
  <2>2. CASE ~Short(Activation[current][arc])
    <3>1. NextArc /\ pc = "activation" /\ arc <= Len(Activation[current])
      BY <1>7, <2>2 DEF CheckActivation
    <3>2. current \in Transition /\ arc \in 1..Len(Activation[current])
      BY <3>1, ArcTypes DEF BaseInv, TypeOK, Checking
    <3>3. Sufficient(arc)
      <4>1. /\ Activation[current][arc].place \in Place
            /\ Activation[current][arc].weight \in Nat
        BY <3>2, ArcTypes, NetTypes
      <4>2. tokens[Activation[current][arc].place] \in Nat
        BY <4>1, NetTypes DEF BaseInv, TypeOK
      <4>. QED BY <2>2, <4>1, <4>2 DEF Short, Sufficient
    <3>4. \A i \in 1..Len(Activation[current]) : i < arc + 1 => Sufficient(i)
      BY <3>1, <3>2, <3>3, ArcTypes DEF CheckedInv
    <3>5. /\ pc' = "activation" /\ arc' = arc + 1
          /\ UNCHANGED <<current, tokens>>
      BY <3>1 DEF NextArc
    <3>. QED BY <3>4, <3>5 DEF CheckedInv, Sufficient
  <2>. QED BY <1>7, <2>1, <2>2 DEF CheckActivation
<1>8. CASE FoundEnabled
  BY <1>1, <1>8 DEF FoundEnabled, GoTo
<1>9. CASE ActivationChecked
  <2>1. /\ pc = "activation" /\ arc > Len(Activation[current])
        /\ UNCHANGED <<current, tokens>>
        /\ pc' \in {"noActions", "conditions"}
    BY <1>9 DEF ActivationChecked, Pass, GoTo
  <2>2. current \in Transition /\ arc \in Nat /\ Len(Activation[current]) \in Nat
    BY <2>1, ArcTypes DEF BaseInv, TypeOK, Checking
  <2>3. \A i \in 1..Len(Activation[current]) : Sufficient(i)
    BY <2>1, <2>2 DEF CheckedInv
  <2>. QED BY <2>1, <2>3 DEF CheckedInv, Sufficient
<1>10. CASE CheckNoActions
  <2>1. CASE Reject
    BY <1>4, <2>1
  <2>2. CASE NextArc /\ pc = "noActions"
    BY <2>2 DEF NextArc, CheckedInv, Sufficient
  <2>. QED BY <1>10, <2>1, <2>2 DEF CheckNoActions
<1>11. CASE NoActionsChecked
  BY <1>11 DEF NoActionsChecked, Pass, GoTo, CheckedInv, Sufficient
<1>12. CASE ConditionsRefuse
  BY <1>4, <1>12 DEF ConditionsRefuse
<1>13. CASE Commit
  <2>1. /\ pc = "conditions" /\ pc' = "exit"
        /\ UNCHANGED <<current, tokens>>
    BY <1>13 DEF Commit, Pass, GoTo
  <2>. QED BY <2>1 DEF CheckedInv, Sufficient
<1>14. ASSUME LoopThrows PROVE CheckedInv'
  <2>1. CASE Option = "SINGLE_THREAD"
    BY <1>1, <1>14, <2>1 DEF LoopThrows, GoTo
  <2>2. CASE Option # "SINGLE_THREAD"
    BY <1>2, <1>14, <2>2 DEF LoopThrows
  <2>. QED BY <2>1, <2>2
<1>15. CASE ConditionThrows \/ LoopActionThrows
  BY <1>14, <1>15 DEF ConditionThrows, LoopActionThrows
<1>16. CASE Exit
  <2>. DEFINE a == Activation[current][arc]
  <2>1. /\ pc = "exit" /\ stage["loop"] = "out" /\ arc <= Len(Activation[current])
    BY <1>16 DEF Exit
  <2>2. /\ current \in Transition /\ arc \in 1..Len(Activation[current])
        /\ Len(Activation[current]) \in Nat
    <3>1. current \in Transition /\ arc \in Nat \ {0}
      BY <2>1 DEF BaseInv, TypeOK, Firings
    <3>. QED BY <2>1, <3>1, ArcTypes
  <2>3. CASE tokens[a.place] < a.weight
    BY <1>14, <1>16, <2>3 DEF Exit
  <2>4. CASE ~(tokens[a.place] < a.weight)
    <3>1. /\ tokens' = [tokens EXCEPT ![a.place] =
                            DecreaseNumberOfTokens(tokens[a.place], a.weight)]
          /\ pc' = "exit" /\ current' = current
      BY <1>16, <2>1, <2>4 DEF Exit
    <3>2. NextExit' = arc + 1 /\ NextExit = arc
      BY <1>16, <2>1, <2>2, <2>4 DEF Exit, NextExit, Leave, Stay, BaseInv, TypeOK
    <3>3. ASSUME NEW i \in 1..Len(Activation[current]), i >= arc + 1 PROVE Sufficient(i)'
      <4>1. Activation[current][i].place # a.place
        BY <2>2, <3>3, NetAssumption DEF IsArcTable, DistinctPlaces
      <4>2. tokens'[Activation[current][i].place] = tokens[Activation[current][i].place]
        BY <2>2, <3>1, <4>1, ArcTypes DEF BaseInv, TypeOK
      <4>3. Sufficient(i)
        BY <2>1, <2>2, <3>2, <3>3 DEF CheckedInv
      <4>. QED BY <3>1, <4>2, <4>3 DEF Sufficient
    <3>. QED BY <3>1, <3>2, <3>3 DEF CheckedInv
  <2>. QED BY <2>3, <2>4
<1>17. CASE FinishOnExitAction
  <2>1. /\ stage["loop"] = "onExit" /\ pc = "exit"
        /\ stage'["loop"] = "out" /\ arc' = arc + 1
        /\ UNCHANGED <<pc, current, tokens>>
    BY <1>17 DEF FinishOnExitAction, Leave, BaseInv, StageInv, TypeOK
  <2>2. NextExit' = NextExit
    BY <2>1 DEF NextExit
  <2>. QED BY <2>1, <2>2 DEF CheckedInv, Sufficient
<1>18. CASE ExitsDone \/ Fired
  BY <1>1, <1>18 DEF ExitsDone, Fired, Pass, GoTo
<1>19. ASSUME pc = "enter", pc' = pc PROVE CheckedInv'
  BY <1>1, <1>19
<1>20. CASE Enter
  BY <1>14, <1>19, <1>20 DEF Enter, EnterPlace
<1>21. ASSUME PassBlock("loop") \/ StartOnEnterAction("loop") \/ FinishOnEnterAction("loop")
       PROVE  CheckedInv'
  <2>1. pc = "enter"
    BY <1>21 DEF PassBlock, StartOnEnterAction, FinishOnEnterAction, BaseInv, StageInv
  <2>. QED BY <1>19, <1>21, <2>1 DEF PassBlock, StartOnEnterAction, FinishOnEnterAction
<1>22. ASSUME \A p \in Place : tokens'[p] >= tokens[p], UNCHANGED <<control, arc>>,
              stage'["loop"] = stage["loop"]
       PROVE  CheckedInv'
  <2>1. NextExit' = NextExit
    BY <1>22 DEF NextExit
  <2>. QED BY <1>22, <2>1, CheckedKept
<1>23. UNCHANGED tokens => \A p \in Place : tokens'[p] >= tokens[p]
  BY NetTypes DEF BaseInv, TypeOK
<1>24. ASSUME NEW p \in Place, IncrementInputPlace(p) PROVE CheckedInv'
  <2>1. tokens' = [tokens EXCEPT ![p] = @ + 1]
    BY <1>24 DEF IncrementInputPlace, EnterPlace
  <2>2. \A q \in Place : tokens'[q] >= tokens[q]
    BY <2>1, NetTypes DEF BaseInv, TypeOK
  <2>3. UNCHANGED <<control, arc>> /\ stage'["loop"] = stage["loop"]
    BY <1>24 DEF IncrementInputPlace, EnterPlace, Stay, Leave, BaseInv, TypeOK
  <2>. QED BY <1>22, <2>2, <2>3
<1>25. CASE CallerStep
  <2>1. UNCHANGED <<tokens, control, arc>> /\ stage'["loop"] = stage["loop"]
    BY <1>25 DEF CallerStep, NotifyNewEvent, PassBlock, StartOnEnterAction,
                 FinishOnEnterAction, CallerActionThrows, Stay, Leave, BaseInv, TypeOK
  <2>. QED BY <1>22, <1>23, <2>1
<1>26. ASSUME NEW p \in Place, JobCompletes(p) \/ JobThrows(p) PROVE CheckedInv'
  BY <1>2, <1>26 DEF JobCompletes, JobThrows
<1>27. CASE UNCHANGED vars
  BY <1>2, <1>27
<1>. QED
  BY <1>3, <1>5, <1>6, <1>7, <1>8, <1>9, <1>10, <1>11, <1>12, <1>13, <1>15, <1>16,
     <1>17, <1>18, <1>20, <1>21, <1>24, <1>25, <1>26, <1>27
     DEF Next, Running, LoopStep, Terminated

(* exitPlace finds the tokens it was promised, in every net and whatever   *)
(* callers do.                                                             *)
THEOREM ActivationNeverShort == Spec => []NeverShort
<1>1. Init => BaseInv /\ CheckedInv
  BY BaseInit DEF Init, CheckedInv
<1>2. BaseInv /\ CheckedInv /\ [Next]_vars => (BaseInv /\ CheckedInv)'
  BY BaseStep, CheckedStep
<1>3. BaseInv /\ CheckedInv => NeverShort
  <2> SUFFICES ASSUME BaseInv, CheckedInv, pc = "exit",
                      NEW i \in NextExit..Len(Activation[current])
               PROVE  Sufficient(i)
    BY DEF NeverShort, Sufficient
  <2>1. current \in Transition /\ arc \in Nat \ {0}
    BY DEF BaseInv, TypeOK, Firings
  <2>2. i \in 1..Len(Activation[current]) /\ i >= NextExit
    BY <2>1, ArcTypes DEF NextExit
  <2>. QED BY <2>2 DEF CheckedInv
<1>. QED BY <1>1, <1>2, <1>3, PTL DEF Spec

-----------------------------------------------------------------------------
(***************************************************************************)
(* Why no on-enter action overlaps a firing that forbids it: with the flag *)
(* up nobody gets past the wait any more; whoever had got past it before   *)
(* is inside the place, whose mutex the check of its tokens has to take;   *)
(* and after that the counter can only go down.                            *)
(***************************************************************************)
ActivationPlace(i) == Activation[current][i].place

Quiet(p) ==
    \A th \in Thread : inside[th] = p => stage[th] \notin {"start", "onEnter"}

ExclusiveInv ==
    executing /\ current \in RequireNoActions =>
        \A i \in 1..Len(Activation[current]) :
            /\ blocked[ActivationPlace(i)]
            /\ \/ pc = "activation" /\ i < arc
               \/ pc \in {"noActions", "conditions", "exit", "enter"}
               => Quiet(ActivationPlace(i))
            /\ \/ pc = "noActions" /\ i < arc
               \/ pc \in {"conditions", "exit", "enter"}
               => onEnterRunning[ActivationPlace(i)] = 0

(* A step after which the loop is at the same arc, and a quiet place is    *)
(* still quiet, its flag up and its counter at zero.                       *)
LEMMA ExclusiveKept ==
    ASSUME BaseInv, ExclusiveInv,
           UNCHANGED control,
           arc' = arc \/ pc \in {"inhibitors", "exit", "enter"},
           \A q \in Place : blocked[q] =>
               /\ blocked'[q]
               /\ Quiet(q) => Quiet(q)'
               /\ Quiet(q) /\ onEnterRunning[q] = 0 => onEnterRunning'[q] = 0
    PROVE  ExclusiveInv'
<1>1. pc' = pc /\ current' = current /\ executing' = executing
  BY DEF control
<1>2. pc \in {"activation", "noActions"} => arc' = arc
  OBVIOUS
<1> SUFFICES ASSUME executing, current \in RequireNoActions, NEW i \in 1..Len(Activation[current])
             PROVE  /\ blocked'[ActivationPlace(i)]
                    /\ \/ pc = "activation" /\ i < arc
                       \/ pc \in {"noActions", "conditions", "exit", "enter"}
                       => Quiet(ActivationPlace(i))'
                    /\ \/ pc = "noActions" /\ i < arc
                       \/ pc \in {"conditions", "exit", "enter"}
                       => onEnterRunning'[ActivationPlace(i)] = 0
  BY <1>1, <1>2 DEF ExclusiveInv, ActivationPlace
<1>. DEFINE q == ActivationPlace(i)
<1>3. current \in Transition
  BY DEF BaseInv, TypeOK, ExecutingInv
<1>4. q \in Place
  BY <1>3, ArcTypes DEF ActivationPlace
<1>5. Quiet(ActivationPlace(i))' <=>
        \A th \in Thread : inside'[th] = q => stage'[th] \notin {"start", "onEnter"}
  BY <1>1 DEF Quiet, ActivationPlace
<1>6. /\ blocked[q]
      /\ \/ pc = "activation" /\ i < arc
         \/ pc \in {"noActions", "conditions", "exit", "enter"}
         => Quiet(q)
      /\ \/ pc = "noActions" /\ i < arc
         \/ pc \in {"conditions", "exit", "enter"}
         => onEnterRunning[q] = 0
  BY DEF ExclusiveInv
<1>7. /\ blocked'[q]
      /\ Quiet(q) => \A th \in Thread : inside'[th] = q => stage'[th] \notin {"start", "onEnter"}
      /\ Quiet(q) /\ onEnterRunning[q] = 0 => onEnterRunning'[q] = 0
  <2>. HIDE DEF q
  <2>. QED BY <1>4, <1>6 DEF Quiet
<1>. QED BY <1>5, <1>6, <1>7

LEMMA ExclusiveStep == BaseInv /\ BaseInv' /\ ExclusiveInv /\ [Next]_vars => ExclusiveInv'
<1> SUFFICES ASSUME BaseInv, BaseInv', ExclusiveInv, [Next]_vars PROVE ExclusiveInv'
  OBVIOUS
<1> USE DEF vars, marks, counters, round, control, threads
<1>1. ASSUME ~executing' PROVE ExclusiveInv'
  BY <1>1 DEF ExclusiveInv
<1>2. ASSUME UNCHANGED <<blocked, onEnterRunning, control, arc, inside, stage>> PROVE ExclusiveInv'
  BY <1>2 DEF ExclusiveInv, ActivationPlace, Quiet
<1>3. CASE BeginRound \/ Collected \/ EndRound \/ (\E t \in Transition : Collect(t))
  <2>1. ~executing
    BY <1>3 DEF BeginRound, Collected, EndRound, Collect, BaseInv, ExecutingInv, Checking, Firings
  <2>. QED BY <1>1, <1>3, <2>1 DEF BeginRound, Collected, EndRound, Collect
<1>4. ASSUME NEW t \in Transition, Execute(t) PROVE ExclusiveInv'
  <2>1. current' = t /\ pc' = "inhibitors"
    BY <1>4 DEF Execute, GoTo
  <2>2. ASSUME t \in RequireNoActions, NEW i \in 1..Len(Activation[t])
        PROVE  blocked'[Activation[t][i].place]
    <3>1. Activation[t][i].place \in Place /\ Activation[t][i].place \in PlacesOf(Activation[t])
      BY ArcTypes DEF PlacesOf
    <3>2. blocked' = [p \in Place |->
                        IF p \in PlacesOf(Activation[t]) THEN TRUE ELSE blocked[p]]
      BY <1>4, <2>2 DEF Execute, BlockStarting
    <3>. QED BY <3>1, <3>2
  <2>. QED BY <2>1, <2>2 DEF ExclusiveInv, ActivationPlace
<1>5. ASSUME Reject PROVE ExclusiveInv'
  BY <1>1, <1>5 DEF Reject
<1>6. CASE CheckInhibitor
  <2>1. CASE Reject
    BY <1>5, <2>1
  <2>2. CASE NextArc /\ pc = "inhibitors"
    BY <2>2 DEF NextArc, ExclusiveInv, ActivationPlace
  <2>. QED BY <1>6, <2>1, <2>2 DEF CheckInhibitor
<1>7. CASE InhibitorsChecked
  <2>1. /\ pc' = "activation" /\ arc' = 1
        /\ UNCHANGED <<blocked, executing, current>>
    BY <1>7 DEF InhibitorsChecked, Pass, GoTo
  <2>. QED BY <2>1 DEF ExclusiveInv, ActivationPlace
<1>8. CASE CheckActivation
  <2>1. CASE Reject
    BY <1>5, <2>1
  <2>2. CASE NextArc /\ Free("loop", ActivationPlace(arc)) /\ pc = "activation"
    <3>1. /\ pc' = "activation" /\ arc' = arc + 1
          /\ UNCHANGED <<blocked, executing, current, inside, stage>>
      BY <2>2 DEF NextArc
    <3>2. current \in Transition /\ arc \in Nat
      BY <2>2 DEF BaseInv, TypeOK, Checking
    <3>3. Quiet(ActivationPlace(arc))
      BY <2>2 DEF Quiet, Free, BaseInv, StageInv
    <3>4. \A i \in 1..Len(Activation[current]) : i < arc + 1 => i < arc \/ i = arc
      BY <3>2, ArcTypes
    <3>5. executing /\ current \in RequireNoActions =>
            \A i \in 1..Len(Activation[current]) :
                /\ blocked[ActivationPlace(i)]
                /\ i < arc + 1 => Quiet(ActivationPlace(i))
      BY <2>2, <3>3, <3>4 DEF ExclusiveInv
    <3>. QED BY <3>1, <3>5 DEF ExclusiveInv, ActivationPlace, Quiet
  <2>. QED BY <1>8, <2>1, <2>2 DEF CheckActivation, ActivationPlace
<1>9. CASE FoundEnabled
  BY <1>1, <1>9 DEF FoundEnabled
<1>10. CASE ActivationChecked
  <2>1. /\ pc = "activation" /\ arc > Len(Activation[current])
        /\ pc' = (IF current \in RequireNoActions THEN "noActions" ELSE "conditions")
        /\ arc' = 1
        /\ UNCHANGED <<blocked, executing, current, inside, stage>>
    BY <1>10 DEF ActivationChecked, Pass, GoTo
  <2>2. current \in Transition /\ arc \in Nat /\ Len(Activation[current]) \in Nat
    BY <2>1, ArcTypes DEF BaseInv, TypeOK, Checking
  <2>. QED BY <2>1, <2>2 DEF ExclusiveInv, ActivationPlace, Quiet
<1>11. CASE CheckNoActions
  <2>1. CASE Reject
    BY <1>5, <2>1
  <2>2. CASE ~(onEnterRunning[ActivationPlace(arc)] > 0)
    <3>1. /\ pc = "noActions" /\ pc' = "noActions" /\ arc' = arc + 1
          /\ arc <= Len(Activation[current])
          /\ UNCHANGED <<blocked, executing, current, inside, stage, onEnterRunning>>
      BY <1>11, <2>2 DEF CheckNoActions, NextArc, ActivationPlace
    <3>2. current \in Transition /\ arc \in Nat \ {0}
      BY <3>1 DEF BaseInv, TypeOK, Checking
    <3>3. onEnterRunning[ActivationPlace(arc)] = 0
      BY <2>2, <3>1, <3>2, ArcTypes DEF BaseInv, TypeOK, ActivationPlace
    <3>. QED BY <3>1, <3>2, <3>3, ArcTypes DEF ExclusiveInv, ActivationPlace, Quiet
  <2>. QED BY <1>11, <2>1, <2>2 DEF CheckNoActions, ActivationPlace
<1>12. CASE NoActionsChecked
  <2>1. /\ pc = "noActions" /\ arc > Len(Activation[current]) /\ pc' = "conditions"
        /\ UNCHANGED <<blocked, executing, current, inside, stage, onEnterRunning>>
    BY <1>12 DEF NoActionsChecked, Pass, GoTo
  <2>2. current \in Transition /\ arc \in Nat /\ Len(Activation[current]) \in Nat
    BY <2>1, ArcTypes DEF BaseInv, TypeOK, Checking
  <2>. QED BY <2>1, <2>2 DEF ExclusiveInv, ActivationPlace, Quiet
<1>13. CASE ConditionsRefuse
  BY <1>5, <1>13 DEF ConditionsRefuse
<1>14. CASE Commit \/ ExitsDone
  BY <1>14 DEF Commit, ExitsDone, Pass, GoTo, ExclusiveInv, ActivationPlace, Quiet
<1>15. ASSUME LoopThrows PROVE ExclusiveInv'
  <2>1. CASE Option = "SINGLE_THREAD"
    BY <1>1, <1>15, <2>1 DEF LoopThrows
  <2>2. CASE Option # "SINGLE_THREAD"
    BY <1>2, <1>15, <2>2 DEF LoopThrows
  <2>. QED BY <2>1, <2>2
<1>16. CASE ConditionThrows \/ LoopActionThrows
  BY <1>15, <1>16 DEF ConditionThrows, LoopActionThrows
<1>17. CASE Fired
  BY <1>1, <1>17 DEF Fired
<1>18. ASSUME NEW th \in Thread, NEW p, NEW s \in {"spin", "onExit"},
              Stay(th, p, s) \/ Leave(th), NEW q, Quiet(q)
       PROVE  Quiet(q)'
  BY <1>18 DEF Stay, Leave, Quiet, BaseInv, TypeOK
<1>19. CASE Exit
  <2>1. CASE LoopThrows
    BY <1>15, <2>1
  <2>2. CASE ~LoopThrows
    <3>1. /\ Stay("loop", ActivationPlace(arc), "onExit") \/ Leave("loop")
          /\ UNCHANGED <<blocked, onEnterRunning, control>> /\ pc = "exit"
      BY <1>19, <2>2 DEF Exit, ActivationPlace
    <3>2. \A q \in Place : Quiet(q) => Quiet(q)'
      BY <1>18, <3>1
    <3>. QED BY <3>1, <3>2, ExclusiveKept
  <2>. QED BY <2>1, <2>2
<1>20. CASE FinishOnExitAction
  <2>1. Leave("loop") /\ UNCHANGED <<blocked, onEnterRunning, control>> /\ pc = "exit"
    BY <1>20 DEF FinishOnExitAction, BaseInv, StageInv
  <2>2. \A q \in Place : Quiet(q) => Quiet(q)'
    BY <1>18, <2>1
  <2>. QED BY <2>1, <2>2, ExclusiveKept
<1>21. ASSUME NEW th \in Thread, NEW p, NEW n, EnterPlace(th, p, n), th = "loop" => pc = "enter"
       PROVE  ExclusiveInv'
  <2>1. Stay(th, p, "spin") \/ Leave(th)
    BY <1>21 DEF EnterPlace
  <2>2. \A q \in Place : Quiet(q) => Quiet(q)'
    BY <1>18, <2>1
  <2>3. UNCHANGED control /\ (arc' = arc \/ pc = "enter")
    BY <1>21 DEF EnterPlace, Stay, Leave
  <2>. QED BY <1>21, <2>2, <2>3, ExclusiveKept DEF EnterPlace
<1>22. CASE Enter
  BY <1>15, <1>21, <1>22 DEF Enter
<1>23. ASSUME NEW p \in Place, IncrementInputPlace(p) PROVE ExclusiveInv'
  BY <1>21, <1>23 DEF IncrementInputPlace
<1>24. CASE NotifyNewEvent \/ CallerActionThrows
  <2>1. \A q \in Place : Quiet(q) => Quiet(q)'
    BY <1>24, FiringAssumption DEF NotifyNewEvent, CallerActionThrows, Quiet, BaseInv, TypeOK
  <2>. QED BY <1>24, <2>1, ExclusiveKept DEF NotifyNewEvent, CallerActionThrows
<1>25. ASSUME NEW th \in Thread, PassBlock(th) PROVE ExclusiveInv'
  <2>1. UNCHANGED <<control, arc, blocked, onEnterRunning, inside>> /\ ~blocked[inside[th]]
    BY <1>25 DEF PassBlock
  <2>2. ASSUME NEW q, q # inside[th], Quiet(q) PROVE Quiet(q)'
    BY <1>25, <2>2 DEF PassBlock, Quiet, BaseInv, TypeOK
  <2>. QED BY <2>1, <2>2, ExclusiveKept
<1>26. ASSUME NEW th \in Thread, StartOnEnterAction(th) \/ FinishOnEnterAction(th)
       PROVE  ExclusiveInv'
  <2>1. /\ stage[th] \in {"start", "onEnter"}
        /\ UNCHANGED <<control, blocked>>
        /\ \A q \in Place : q # inside[th] => onEnterRunning'[q] = onEnterRunning[q]
    BY <1>26 DEF StartOnEnterAction, FinishOnEnterAction, BaseInv, TypeOK
  <2>2. th = "caller" => arc' = arc
    BY <1>26 DEF StartOnEnterAction, FinishOnEnterAction, Stay, Leave
  <2>3. th = "loop" => pc = "enter"
    BY <2>1 DEF BaseInv, StageInv
  <2>4. ASSUME NEW q, Quiet(q) PROVE q # inside[th] /\ Quiet(q)'
    BY <1>26, <2>1, <2>4 DEF StartOnEnterAction, FinishOnEnterAction, Stay, Leave,
                             Quiet, BaseInv, TypeOK
  <2>. QED BY <2>1, <2>2, <2>3, <2>4, ExclusiveKept
<1>27. ASSUME NEW p \in Place, JobCompletes(p) \/ JobThrows(p) PROVE ExclusiveInv'
  <2>1. UNCHANGED <<control, arc, blocked, inside, stage>>
    BY <1>27 DEF JobCompletes, JobThrows
  <2>2. ASSUME NEW q \in Place, onEnterRunning[q] = 0 PROVE onEnterRunning'[q] = 0
    BY <1>27, <2>2 DEF JobCompletes, JobThrows, BaseInv, TypeOK
  <2>3. \A q \in Place : Quiet(q) => Quiet(q)'
    BY <2>1 DEF Quiet
  <2>. QED BY <2>1, <2>2, <2>3, ExclusiveKept
<1>28. CASE UNCHANGED vars
  BY <1>2, <1>28
<1>. QED
  BY <1>3, <1>4, <1>6, <1>7, <1>8, <1>9, <1>10, <1>11, <1>12, <1>13, <1>14, <1>16,
     <1>17, <1>19, <1>20, <1>22, <1>23, <1>24, <1>25, <1>26, <1>27, <1>28
     DEF Next, Running, LoopStep, CallerStep, Terminated

(* A transition that requires no actions in execution fires while no       *)
(* on-enter action of its activation places runs: flag, mutex and counter  *)
(* close every gap, for every net, thread option and behaviour of callers. *)
THEOREM FiringIsExclusive == Spec => []ExclusiveFiring
<1>1. Init => BaseInv /\ ExclusiveInv
  BY BaseInit DEF Init, ExclusiveInv
<1>2. BaseInv /\ ExclusiveInv /\ [Next]_vars => (BaseInv /\ ExclusiveInv)'
  BY BaseStep, ExclusiveStep
<1>3. BaseInv /\ ExclusiveInv => ExclusiveFiring
  BY DEF BaseInv, ExecutingInv, ExclusiveInv, ExclusiveFiring, Firings, PlacesOf, ActivationPlace
<1>. QED BY <1>1, <1>2, <1>3, PTL DEF Spec

-----------------------------------------------------------------------------
LEMMA BlockedStep ==
    ASSUME Option # "SINGLE_THREAD"
    PROVE  BaseInv /\ BlockedOnlyWhileExecuting /\ [Next]_vars => BlockedOnlyWhileExecuting'
<1> SUFFICES ASSUME BaseInv, BlockedOnlyWhileExecuting, [Next]_vars
             PROVE  BlockedOnlyWhileExecuting'
  OBVIOUS
<1> USE DEF vars, marks, counters, round, control, threads
<1>1. ASSUME UNCHANGED <<blocked, executing, current>> PROVE BlockedOnlyWhileExecuting'
  BY <1>1 DEF BlockedOnlyWhileExecuting
<1>2. ASSUME ~executing, UNCHANGED blocked PROVE BlockedOnlyWhileExecuting'
  BY <1>2 DEF BlockedOnlyWhileExecuting
<1>3. ASSUME NEW t \in Transition, Execute(t) PROVE BlockedOnlyWhileExecuting'
  <2>1. ~executing /\ executing' /\ current' = t
    BY <1>3 DEF Execute, BaseInv, ExecutingInv, Checking, Firings
  <2>2. \A p \in Place : ~blocked[p]
    BY <2>1 DEF BlockedOnlyWhileExecuting
  <2>3. ASSUME NEW p \in Place, blocked'[p]
        PROVE  t \in RequireNoActions /\ p \in PlacesOf(Activation[t])
    BY <1>3, <2>2, <2>3 DEF Execute, BlockStarting
  <2>. QED BY <2>1, <2>3 DEF BlockedOnlyWhileExecuting
<1>4. ASSUME LiftBlock PROVE BlockedOnlyWhileExecuting'
  <2>1. ASSUME NEW p \in Place PROVE ~blocked'[p]
    BY <1>4 DEF LiftBlock, BlockStarting, BlockedOnlyWhileExecuting
  <2>. QED BY <2>1 DEF BlockedOnlyWhileExecuting
<1>5. ASSUME Reject PROVE BlockedOnlyWhileExecuting'
  BY <1>2, <1>4, <1>5 DEF Reject
<1>6. ASSUME LoopThrows PROVE BlockedOnlyWhileExecuting'
  BY <1>1, <1>6 DEF LoopThrows
<1>7. CASE \E t \in Transition : Collect(t)
  BY <1>2, <1>7 DEF Collect, BaseInv, ExecutingInv, Checking, Firings
<1>8. CASE FoundEnabled
  BY <1>2, <1>8 DEF FoundEnabled
<1>9. CASE Fired
  BY <1>4, <1>9 DEF Fired
<1>10. CASE CheckInhibitor \/ CheckActivation \/ CheckNoActions \/ ConditionsRefuse
  BY <1>1, <1>5, <1>10 DEF CheckInhibitor, CheckActivation, CheckNoActions, ConditionsRefuse, NextArc
<1>11. CASE ConditionThrows \/ LoopActionThrows
  BY <1>6, <1>11 DEF ConditionThrows, LoopActionThrows
<1>12. CASE BeginRound \/ Collected \/ EndRound \/ InhibitorsChecked \/ ActivationChecked
              \/ NoActionsChecked \/ Commit \/ ExitsDone
  BY <1>1, <1>12 DEF BeginRound, Collected, EndRound, InhibitorsChecked, ActivationChecked,
                     NoActionsChecked, Commit, ExitsDone, Pass
<1>13. CASE Exit
  BY <1>1, <1>6, <1>13 DEF Exit
<1>14. CASE Enter
  BY <1>1, <1>6, <1>14 DEF Enter, EnterPlace
<1>15. ASSUME NEW p \in Place, IncrementInputPlace(p) \/ JobCompletes(p) \/ JobThrows(p)
       PROVE  BlockedOnlyWhileExecuting'
  BY <1>1, <1>15 DEF IncrementInputPlace, EnterPlace, JobCompletes, JobThrows
<1>16. ASSUME NEW th \in Thread, PassBlock(th) \/ StartOnEnterAction(th) \/ FinishOnEnterAction(th)
       PROVE  BlockedOnlyWhileExecuting'
  BY <1>1, <1>16 DEF PassBlock, StartOnEnterAction, FinishOnEnterAction
<1>17. CASE FinishOnExitAction \/ NotifyNewEvent \/ CallerActionThrows \/ UNCHANGED vars
  BY <1>1, <1>17 DEF FinishOnExitAction, NotifyNewEvent, CallerActionThrows
<1>. QED
  BY <1>3, <1>7, <1>8, <1>9, <1>10, <1>11, <1>12, <1>13, <1>14, <1>15, <1>16, <1>17
     DEF Next, Running, LoopStep, CallerStep, Terminated

(* Except in SINGLE_THREAD, where an exception leaves the block in place,  *)
(* on-enter actions are held back only during execute() of a transition    *)
(* that requires it.                                                       *)
THEOREM BlockIsLifted ==
    ASSUME Option # "SINGLE_THREAD"
    PROVE  Spec => []BlockedOnlyWhileExecuting
<1>1. Init => BaseInv /\ BlockedOnlyWhileExecuting
  BY BaseInit DEF Init, BlockedOnlyWhileExecuting
<1>2. BaseInv /\ BlockedOnlyWhileExecuting /\ [Next]_vars
        => (BaseInv /\ BlockedOnlyWhileExecuting)'
  BY BaseStep, BlockedStep
<1>. QED BY <1>1, <1>2, PTL DEF Spec
=============================================================================
