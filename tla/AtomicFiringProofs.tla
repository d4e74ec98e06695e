------------------------- MODULE AtomicFiringProofs -------------------------
(***************************************************************************)
(* Firing implements PetriNet, step by step: the arc-by-arc round of the   *)
(* engine moves the net by whole firings of enabled transitions, for every *)
(* net in which callers cannot fill an inhibitor place.  And two threads   *)
(* do not block each other in enterPlace, for every net in which no action *)
(* that is held back can be due to a caller or to the firing itself.       *)
(***************************************************************************)
EXTENDS FiringProofs

USE DEF Thread

-----------------------------------------------------------------------------
(* The operators of Net on a vector of arcs without repeated places.       *)

LEMMA WeightOfNone ==
    ASSUME NEW arcs, NEW k, NEW p, \A i \in k..Len(arcs) : arcs[i].place # p
    PROVE  WeightFrom(arcs, k, p) = 0
BY DEF WeightFrom

LEMMA WeightOfArc ==
    ASSUME NEW arcs, Len(arcs) \in Nat, DistinctPlaces(arcs),
           NEW k \in Nat \ {0}, NEW i \in k..Len(arcs)
    PROVE  WeightFrom(arcs, k, arcs[i].place) = arcs[i].weight
<1>1. \A j \in k..Len(arcs) : arcs[j].place = arcs[i].place => j = i
  BY DEF DistinctPlaces
<1>. QED BY <1>1 DEF WeightFrom

(* One arc further, the place of the arc passed has no more weight.        *)
LEMMA WeightFromNext ==
    ASSUME NEW arcs, Len(arcs) \in Nat, DistinctPlaces(arcs), NEW k \in 1..Len(arcs), NEW p
    PROVE  WeightFrom(arcs, k + 1, p) =
             IF p = arcs[k].place THEN 0 ELSE WeightFrom(arcs, k, p)
<1>1. CASE p = arcs[k].place
  <2>1. \A i \in k + 1..Len(arcs) : arcs[i].place # p
    BY <1>1 DEF DistinctPlaces
  <2>. QED BY <1>1, <2>1, WeightOfNone
<1>2. CASE p # arcs[k].place
  <2>1. CASE \E i \in k + 1..Len(arcs) : arcs[i].place = p
    <3>1. PICK i \in k + 1..Len(arcs) : arcs[i].place = p
      BY <2>1
    <3>2. i \in k..Len(arcs) /\ k \in Nat \ {0} /\ k + 1 \in Nat \ {0}
      BY <3>1
    <3>. QED BY <1>2, <3>1, <3>2, WeightOfArc
  <2>2. CASE ~\E i \in k + 1..Len(arcs) : arcs[i].place = p
    <3>1. \A i \in k..Len(arcs) : i = k \/ i \in k + 1..Len(arcs)
      OBVIOUS
    <3>2. \A i \in k..Len(arcs) : arcs[i].place # p
      BY <1>2, <2>2, <3>1
    <3>. QED BY <1>2, <2>2, <3>2, WeightOfNone
  <2>. QED BY <2>1, <2>2
<1>. QED BY <1>1, <1>2

(* What the tables of a net say of one transition.                         *)
LEMMA VectorsOf ==
    ASSUME NEW t \in Transition
    PROVE  /\ DistinctPlaces(Activation[t])
           /\ DistinctPlaces(Destination[t])
           /\ \A k \in Nat \ {0}, p \in Place : WeightFrom(Destination[t], k, p) \in Nat
<1>1. DistinctPlaces(Activation[t]) /\ DistinctPlaces(Destination[t])
  BY NetAssumption DEF IsArcTable
<1>2. ASSUME NEW k \in Nat \ {0}, NEW p \in Place PROVE WeightFrom(Destination[t], k, p) \in Nat
  <2>1. CASE \E i \in k..Len(Destination[t]) : Destination[t][i].place = p
    <3>1. PICK i \in k..Len(Destination[t]) : Destination[t][i].place = p
      BY <2>1
    <3>2. Len(Destination[t]) \in Nat /\ Destination[t][i].weight \in Nat
      BY <3>1, ArcTypes, NetTypes
    <3>. QED BY <1>1, <3>1, <3>2, WeightOfArc
  <2>. QED BY <2>1, WeightOfNone
<1>. QED BY <1>1, <1>2

(* Past the last arc nothing is left to take.                              *)
LEMMA ExitsOver ==
    ASSUME NEW m, NEW t \in Transition, NEW k \in Nat, k > Len(Activation[t]), NEW p
    PROVE  AfterExits(m, t, k, p) = m[p]
BY ArcTypes DEF AfterExits

(* Taking the tokens of an arc and going to the next leaves the rest.      *)
LEMMA ExitsNext ==
    ASSUME NEW m \in [Place -> Nat], NEW t \in Transition, NEW k \in 1..Len(Activation[t]),
           NEW n \in [Place -> Nat],
           n = [m EXCEPT ![Activation[t][k].place] =
                    DecreaseNumberOfTokens(m[Activation[t][k].place], Activation[t][k].weight)],
           NEW p \in Place
    PROVE  AfterExits(n, t, k + 1, p) = AfterExits(m, t, k, p)
<1>. DEFINE arcs == Activation[t]
<1>1. Len(arcs) \in Nat /\ DistinctPlaces(arcs) /\ arcs[k].place \in Place
  BY VectorsOf, ArcTypes
<1>2. CASE p = arcs[k].place
  <2>1. \A i \in k + 1..Len(arcs) : arcs[i].place # p
    BY <1>1, <1>2 DEF DistinctPlaces
  <2>2. AfterExits(n, t, k + 1, p) = n[p]
    BY <2>1 DEF AfterExits
  <2>3. WeightFrom(arcs, k, p) = arcs[k].weight
    BY <1>1, <1>2, WeightOfArc
  <2>4. AfterExits(m, t, k, p) = Remaining(m[p], arcs[k].weight)
    BY <1>1, <1>2, <2>3 DEF AfterExits
  <2>. QED BY <1>1, <1>2, <2>2, <2>4 DEF Remaining, DecreaseNumberOfTokens
<1>3. CASE p # arcs[k].place
  <2>1. n[p] = m[p] /\ WeightFrom(arcs, k + 1, p) = WeightFrom(arcs, k, p)
    BY <1>1, <1>3, WeightFromNext
  <2>2. (\E i \in k + 1..Len(arcs) : arcs[i].place = p) <=> \E i \in k..Len(arcs) : arcs[i].place = p
    <3>1. \A i \in k..Len(arcs) : i = k \/ i \in k + 1..Len(arcs)
      BY <1>1
    <3>2. \A i \in k + 1..Len(arcs) : i \in k..Len(arcs)
      BY <1>1
    <3>. QED BY <1>3, <3>1, <3>2
  <2>. QED BY <2>1, <2>2 DEF AfterExits
<1>. QED BY <1>2, <1>3

(* A reset arc of t from position k on takes whatever is in place q.       *)
TakenByReset(t, k, q) ==
    \E i \in k..Len(Activation[t]) :
        Activation[t][i].place = q /\ Activation[t][i].weight = 0

(* The arcs of t from position k on find their tokens in m.                *)
CoveredFrom(m, t, k) ==
    \A i \in k..Len(Activation[t]) : m[Activation[t][i].place] >= Activation[t][i].weight

(* A token more is one more after the exits, or is taken by a reset arc.   *)
LEMMA ExitsOfOneMore ==
    ASSUME NEW m \in [Place -> Nat], NEW t \in Transition, NEW k \in Nat \ {0},
           NEW q \in Place, NEW p \in Place, CoveredFrom(m, t, k),
           NEW n, n[p] = IF p = q THEN m[p] + 1 ELSE m[p]
    PROVE  /\ AfterExits(m, t, k, p) \in Nat
           /\ AfterExits(n, t, k, p) =
                IF p = q /\ ~TakenByReset(t, k, q)
                THEN AfterExits(m, t, k, p) + 1 ELSE AfterExits(m, t, k, p)
<1>. DEFINE arcs == Activation[t]
<1>. USE DEF CoveredFrom
<1>1. Len(arcs) \in Nat /\ DistinctPlaces(arcs)
  BY VectorsOf, ArcTypes
<1>2. n[p] = (IF p = q THEN m[p] + 1 ELSE m[p]) /\ m[p] \in Nat
  OBVIOUS
<1>3. CASE \E i \in k..Len(arcs) : arcs[i].place = p
  <2>1. PICK i \in k..Len(arcs) : arcs[i].place = p
    BY <1>3
  <2>2. /\ WeightFrom(arcs, k, p) = arcs[i].weight
        /\ arcs[i].weight \in Nat /\ m[p] >= arcs[i].weight
    BY <1>1, <2>1, WeightOfArc, ArcTypes, NetTypes
  <2>3. ASSUME NEW j \in k..Len(arcs), arcs[j].place = p PROVE j = i
    <3>1. i \in 1..Len(arcs) /\ j \in 1..Len(arcs)
      BY <1>1
    <3>. QED BY <1>1, <2>1, <2>3, <3>1 DEF DistinctPlaces
  <2>4. /\ AfterExits(m, t, k, p) = Remaining(m[p], arcs[i].weight)
        /\ AfterExits(n, t, k, p) = Remaining(n[p], arcs[i].weight)
    BY <1>3, <2>2 DEF AfterExits
  <2>5. CASE p = q
    <3>1. TakenByReset(t, k, q) <=> arcs[i].weight = 0
      BY <2>1, <2>3, <2>5 DEF TakenByReset
    <3>2. CASE arcs[i].weight = 0
      BY <2>4, <2>5, <3>1, <3>2 DEF Remaining
    <3>3. CASE arcs[i].weight # 0
      <4>1. AfterExits(m, t, k, p) = m[p] - arcs[i].weight
        BY <2>4, <3>3 DEF Remaining
      <4>2. AfterExits(n, t, k, p) = (m[p] + 1) - arcs[i].weight
        BY <1>2, <2>4, <2>5, <3>3 DEF Remaining
      <4>. QED BY <1>2, <2>2, <2>5, <3>1, <3>3, <4>1, <4>2
    <3>. QED BY <3>2, <3>3
  <2>6. CASE p # q
    BY <1>2, <2>2, <2>4, <2>6 DEF Remaining
  <2>. QED BY <2>5, <2>6
<1>4. CASE ~\E i \in k..Len(arcs) : arcs[i].place = p
  <2>1. AfterExits(m, t, k, p) = m[p] /\ AfterExits(n, t, k, p) = n[p]
    BY <1>4 DEF AfterExits
  <2>2. p = q => ~TakenByReset(t, k, q)
    BY <1>4 DEF TakenByReset
  <2>. QED BY <1>2, <2>1, <2>2
<1>. QED BY <1>3, <1>4

-----------------------------------------------------------------------------
(***************************************************************************)
(* What the check of inhibitor places has seen stays true until the firing *)
(* begins: the loop puts no tokens while it checks, and callers cannot.    *)
(***************************************************************************)
CallersCannotInhibit ==
    \/ Option = "SINGLE_THREAD"
    \/ \A t \in Transition : PlacesOf(Inhibitor[t]) \cap InputPlace = {}

Uninhibited(i) == tokens[Inhibitor[current][i].place] = 0

UninhibitedInv ==
    /\ pc = "inhibitors" =>
          \A i \in 1..Len(Inhibitor[current]) : i < arc => Uninhibited(i)
    /\ pc \in {"activation", "noActions", "conditions"} =>
          \A i \in 1..Len(Inhibitor[current]) : Uninhibited(i)

LEMMA UninhibitedStep ==
    ASSUME CallersCannotInhibit
    PROVE  BaseInv /\ UninhibitedInv /\ [Next]_vars => UninhibitedInv'
<1> SUFFICES ASSUME BaseInv, UninhibitedInv, [Next]_vars PROVE UninhibitedInv'
  OBVIOUS
<1> USE DEF vars, marks, counters, round, control, threads
<1>1. ASSUME pc' \notin Checking PROVE UninhibitedInv'
  BY <1>1 DEF UninhibitedInv, Checking
<1>2. ASSUME pc' = "inhibitors", arc' = 1 PROVE UninhibitedInv'
  BY <1>2 DEF UninhibitedInv
<1>3. ASSUME UNCHANGED <<tokens, pc, current, arc>> PROVE UninhibitedInv'
  BY <1>3 DEF UninhibitedInv, Uninhibited
<1>4. ASSUME pc \in {"activation", "noActions", "conditions"}, UNCHANGED <<tokens, current>>,
             pc' # "inhibitors"
      PROVE  UninhibitedInv'
  BY <1>4 DEF UninhibitedInv, Uninhibited
<1>5. CASE BeginRound \/ Collected \/ EndRound \/ Fired \/ Commit \/ ExitsDone \/ FoundEnabled
  BY <1>1, <1>5 DEF BeginRound, Collected, EndRound, Fired, Commit, ExitsDone, FoundEnabled,
                    Pass, GoTo, Checking
<1>6. CASE \E t \in Transition : Collect(t) \/ Execute(t)
  BY <1>2, <1>6 DEF Collect, Execute, GoTo
<1>7. ASSUME Reject PROVE UninhibitedInv'
  BY <1>1, <1>7 DEF Reject, GoTo, Checking
<1>8. CASE CheckInhibitor
  <2>1. CASE Inhibits(Inhibitor[current][arc].place)
    BY <1>7, <1>8, <2>1 DEF CheckInhibitor
  <2>2. CASE ~Inhibits(Inhibitor[current][arc].place)
    <3>1. NextArc /\ pc = "inhibitors" /\ arc <= Len(Inhibitor[current])
      BY <1>8, <2>2 DEF CheckInhibitor
    <3>2. current \in Transition /\ arc \in 1..Len(Inhibitor[current])
      BY <3>1, ArcTypes DEF BaseInv, TypeOK, Checking
    <3>3. Uninhibited(arc)
      <4>1. tokens[Inhibitor[current][arc].place] \in Nat
        BY <3>2, ArcTypes, NetTypes DEF BaseInv, TypeOK
      <4>. QED BY <2>2, <4>1 DEF Inhibits, Uninhibited
    <3>4. \A i \in 1..Len(Inhibitor[current]) : i < arc + 1 => Uninhibited(i)
      BY <3>1, <3>2, <3>3, ArcTypes DEF UninhibitedInv
    <3>5. pc' = "inhibitors" /\ arc' = arc + 1 /\ UNCHANGED <<current, tokens>>
      BY <3>1 DEF NextArc
    <3>. QED BY <3>4, <3>5 DEF UninhibitedInv, Uninhibited
  <2>. QED BY <2>1, <2>2
<1>9. CASE InhibitorsChecked
  <2>1. /\ pc = "inhibitors" /\ pc' = "activation" /\ arc > Len(Inhibitor[current])
        /\ UNCHANGED <<current, tokens>>
    BY <1>9 DEF InhibitorsChecked, Pass, GoTo
  <2>2. current \in Transition /\ arc \in Nat /\ Len(Inhibitor[current]) \in Nat
    BY <2>1, ArcTypes DEF BaseInv, TypeOK, Checking
  <2>3. \A i \in 1..Len(Inhibitor[current]) : Uninhibited(i)
    BY <2>1, <2>2 DEF UninhibitedInv
  <2>. QED BY <2>1, <2>3 DEF UninhibitedInv, Uninhibited
<1>10. CASE CheckActivation \/ CheckNoActions
  BY <1>4, <1>7, <1>10 DEF CheckActivation, CheckNoActions, NextArc
<1>11. CASE ActivationChecked \/ NoActionsChecked
  BY <1>4, <1>11 DEF ActivationChecked, NoActionsChecked, Pass, GoTo
<1>12. CASE ConditionsRefuse
  BY <1>7, <1>12 DEF ConditionsRefuse
<1>13. ASSUME LoopThrows PROVE UninhibitedInv'
  BY <1>1, <1>3, <1>13 DEF LoopThrows, GoTo, Checking
<1>14. CASE ConditionThrows \/ LoopActionThrows
  BY <1>13, <1>14 DEF ConditionThrows, LoopActionThrows
<1>15. ASSUME pc \in Firings, pc' = pc PROVE UninhibitedInv'
  BY <1>1, <1>15 DEF Firings, Checking
<1>16. CASE Exit \/ Enter
  BY <1>13, <1>15, <1>16 DEF Exit, Enter, EnterPlace, Firings
<1>17. CASE FinishOnExitAction
  BY <1>15, <1>17 DEF FinishOnExitAction, Firings, BaseInv, StageInv
<1>18. CASE PassBlock("loop") \/ StartOnEnterAction("loop") \/ FinishOnEnterAction("loop")
  BY <1>15, <1>18 DEF PassBlock, StartOnEnterAction, FinishOnEnterAction, Firings, BaseInv, StageInv
<1>19. ASSUME NEW p \in Place, IncrementInputPlace(p) PROVE UninhibitedInv'
  <2>1. /\ p \in InputPlace
        /\ tokens' = [tokens EXCEPT ![p] = @ + 1]
        /\ UNCHANGED <<pc, current, arc>>
    BY <1>19 DEF IncrementInputPlace, EnterPlace, Stay, Leave
  <2>2. CASE pc \in Checking
    <3>1. current \in Transition
      BY <2>2 DEF BaseInv, TypeOK
    <3>2. Option # "SINGLE_THREAD"
      BY <1>19, <2>2 DEF IncrementInputPlace, Checking
    <3>3. ASSUME NEW i \in 1..Len(Inhibitor[current])
          PROVE  tokens'[Inhibitor[current][i].place] = tokens[Inhibitor[current][i].place]
      <4>1. Inhibitor[current][i].place \in Place /\ Inhibitor[current][i].place # p
        BY <2>1, <3>1, <3>2, ArcTypes DEF CallersCannotInhibit, PlacesOf
      <4>. QED BY <2>1, <4>1 DEF BaseInv, TypeOK
    <3>. QED BY <2>1, <3>3 DEF UninhibitedInv, Uninhibited
  <2>. QED BY <1>1, <2>1, <2>2
<1>20. CASE CallerStep
  BY <1>3, <1>20 DEF CallerStep, NotifyNewEvent, PassBlock, StartOnEnterAction,
                     FinishOnEnterAction, CallerActionThrows, Stay, Leave
<1>21. ASSUME NEW p \in Place, JobCompletes(p) \/ JobThrows(p) PROVE UninhibitedInv'
  BY <1>3, <1>21 DEF JobCompletes, JobThrows
<1>22. CASE UNCHANGED vars
  BY <1>3, <1>22
<1>. QED
  BY <1>5, <1>6, <1>8, <1>9, <1>10, <1>11, <1>12, <1>14, <1>16, <1>17, <1>18, <1>19, <1>20,
     <1>21, <1>22 DEF Next, Running, LoopStep, Terminated

AtomicInv == BaseInv /\ CheckedInv /\ UninhibitedInv

LEMMA AtomicInvInit == Init => AtomicInv
BY BaseInit DEF Init, AtomicInv, CheckedInv, UninhibitedInv

LEMMA AtomicInvStep ==
    ASSUME CallersCannotInhibit
    PROVE  AtomicInv /\ [Next]_vars => AtomicInv'
BY BaseStep, CheckedStep, UninhibitedStep DEF AtomicInv

-----------------------------------------------------------------------------
(***************************************************************************)
(* The refinement.  A firing counts as done from Commit on, so that every  *)
(* exit and entry after it stutters.                                       *)
(***************************************************************************)
LEMMA AbstractInit == Init => Atomic!Init
BY DEF Init, Atomic!Init, AbstractMarking, Firings

(* At Commit all arcs are still to be left and entered.                    *)
LEMMA CommitFires ==
    ASSUME AtomicInv, Commit
    PROVE  Atomic!Fire(current) /\ current \in Transition
<1>1. /\ pc = "conditions" /\ pc' = "exit" /\ arc' = 1
      /\ UNCHANGED <<tokens, current, inside, stage>>
  BY DEF Commit, Pass, GoTo, marks, control, threads
<1>2. current \in Transition
  BY <1>1 DEF AtomicInv, BaseInv, TypeOK, Checking
<1>3. stage'["loop"] = "out"
  BY <1>1, <1>2, FiringAssumption DEF AtomicInv, BaseInv, TypeOK, StageInv, Stage
<1>4. AbstractMarking = tokens
  BY <1>1 DEF AbstractMarking, Firings
<1>5. AbstractMarking' = [p \in Place |-> AfterExits(tokens, current, 1, p)
                                          + WeightFrom(Destination[current], 1, p)]
  BY <1>1, <1>3 DEF AbstractMarking, Firings, NextExit, NextEntry
<1>6. Atomic!Enabled(tokens, current)
  BY <1>1 DEF AtomicInv, CheckedInv, UninhibitedInv, Sufficient, Uninhibited,
              Atomic!Enabled, Atomic!NotInhibited, Atomic!EnoughTokens
<1>7. AbstractMarking' = Atomic!AfterFiring(AbstractMarking, current)
  BY <1>4, <1>5 DEF Atomic!AfterFiring, Atomic!AfterExits, Atomic!WeightFrom, Atomic!Remaining,
                    AfterExits, WeightFrom, Remaining
<1>. QED BY <1>2, <1>4, <1>6, <1>7 DEF Atomic!Fire

LEMMA AbstractKept ==
    ASSUME UNCHANGED <<tokens, pc, current, arc>>, stage'["loop"] = stage["loop"]
    PROVE  AbstractMarking' = AbstractMarking
BY DEF AbstractMarking, NextExit, NextEntry

(* The loop leaves one arc: what is left to take is the same.              *)
LEMMA ExitStutters ==
    ASSUME AtomicInv, Exit, ~LoopThrows
    PROVE  AbstractMarking' = AbstractMarking
<1>. DEFINE a == Activation[current][arc]
<1>1. /\ pc = "exit" /\ pc' = "exit" /\ current' = current
      /\ stage["loop"] = "out" /\ arc <= Len(Activation[current])
      /\ tokens' = [tokens EXCEPT ![a.place] = DecreaseNumberOfTokens(tokens[a.place], a.weight)]
      /\ Stay("loop", a.place, "onExit") \/ Leave("loop")
  BY DEF Exit, control
<1>2. current \in Transition /\ arc \in 1..Len(Activation[current])
  BY <1>1, ArcTypes DEF AtomicInv, BaseInv, TypeOK, Firings
<1>3. NextExit = arc /\ NextExit' = arc + 1 /\ NextEntry = 1 /\ NextEntry' = 1
  BY <1>1 DEF NextExit, NextEntry, Stay, Leave, AtomicInv, BaseInv, TypeOK
<1>4. Sufficient(arc)
  BY <1>1, <1>2, <1>3 DEF AtomicInv, CheckedInv
<1>5. tokens \in [Place -> Nat] /\ tokens' \in [Place -> Nat]
  <2>1. a.place \in Place /\ a.weight \in Nat
    BY <1>2, ArcTypes, NetTypes
  <2>2. tokens \in [Place -> Nat]
    BY NetTypes DEF AtomicInv, BaseInv, TypeOK
  <2>3. DecreaseNumberOfTokens(tokens[a.place], a.weight) \in Nat
    BY <1>4, <2>1, <2>2 DEF Sufficient, DecreaseNumberOfTokens
  <2>. QED BY <1>1, <2>1, <2>2, <2>3
<1>6. \A p \in Place : AfterExits(tokens', current, arc + 1, p) = AfterExits(tokens, current, arc, p)
  BY <1>1, <1>2, <1>5, ExitsNext
<1>7. AbstractMarking = [p \in Place |-> AfterExits(tokens, current, arc, p)
                                         + WeightFrom(Destination[current], 1, p)]
  BY <1>1, <1>3 DEF AbstractMarking, Firings
<1>8. AbstractMarking' = [p \in Place |-> AfterExits(tokens', current, arc + 1, p)
                                          + WeightFrom(Destination[current], 1, p)]
  BY <1>1, <1>3 DEF AbstractMarking, Firings
<1>. QED BY <1>6, <1>7, <1>8

(* While destination arcs are entered, all activation arcs have been left. *)
LEMMA MarkingOfEntering ==
    ASSUME AtomicInv, pc = "enter"
    PROVE  AbstractMarking = [p \in Place |-> tokens[p] + WeightFrom(Destination[current], NextEntry, p)]
<1>1. current \in Transition
  BY DEF AtomicInv, BaseInv, TypeOK, Firings
<1>2. NextExit \in Nat /\ NextExit > Len(Activation[current])
  BY <1>1, ArcTypes DEF NextExit
<1>3. \A p \in Place : AfterExits(tokens, current, NextExit, p) = tokens[p]
  BY <1>1, <1>2, ExitsOver
<1>. QED BY <1>3 DEF AbstractMarking, Firings

(* The loop enters one arc: what is left to put is less by its weight.     *)
LEMMA EntryStutters ==
    ASSUME AtomicInv, AtomicInv', Enter, ~LoopThrows
    PROVE  AbstractMarking' = AbstractMarking
<1>. DEFINE a == Destination[current][arc]
            later(p) == WeightFrom(Destination[current], arc + 1, p)
<1>1. /\ pc = "enter" /\ pc' = "enter" /\ current' = current
      /\ stage["loop"] = "out" /\ arc <= Len(Destination[current])
      /\ tokens' = [tokens EXCEPT ![a.place] = @ + a.weight]
      /\ Stay("loop", a.place, "spin") \/ Leave("loop")
  BY DEF Enter, EnterPlace, control
<1>2. current \in Transition /\ arc \in 1..Len(Destination[current])
  BY <1>1, ArcTypes DEF AtomicInv, BaseInv, TypeOK, Firings
<1>3. NextEntry = arc /\ NextEntry' = arc + 1
  BY <1>1 DEF NextEntry, Stay, Leave, AtomicInv, BaseInv, TypeOK
<1>4. /\ DistinctPlaces(Destination[current]) /\ Len(Destination[current]) \in Nat
      /\ a.place \in Place /\ a.weight \in Nat
      /\ tokens \in [Place -> Nat]
  <2>1. tokens \in [Place -> Nat]
    BY NetTypes DEF AtomicInv, BaseInv, TypeOK
  <2>2. Len(Destination[current]) \in Nat /\ a.place \in Place /\ a.weight \in Nat
    BY <1>2, ArcTypes, NetTypes
  <2>. QED BY <1>2, <2>1, <2>2, VectorsOf
<1>5. ASSUME NEW p \in Place
      PROVE  tokens'[p] + later(p) = tokens[p] + WeightFrom(Destination[current], arc, p)
  <2>1. later(p) = IF p = a.place THEN 0 ELSE WeightFrom(Destination[current], arc, p)
    BY <1>2, <1>4, WeightFromNext
  <2>2. CASE p = a.place
    <3>1. WeightFrom(Destination[current], arc, p) = a.weight
      <4>1. arc \in Nat \ {0} /\ arc \in arc..Len(Destination[current])
        BY <1>2, <1>4
      <4>. QED BY <1>4, <2>2, <4>1, WeightOfArc
    <3>2. tokens'[p] = tokens[p] + a.weight
      BY <1>1, <1>4, <2>2
    <3>. QED BY <1>4, <2>1, <2>2, <3>1, <3>2
  <2>3. CASE p # a.place
    BY <1>1, <1>4, <2>1, <2>3
  <2>. QED BY <2>2, <2>3
<1>6. AbstractMarking = [p \in Place |-> tokens[p] + WeightFrom(Destination[current], arc, p)]
  BY <1>1, <1>3, MarkingOfEntering
<1>7. AbstractMarking' = [p \in Place |-> tokens'[p] + later(p)]
  <2>1. current' \in Transition /\ NextExit' = Len(Activation[current]) + 1
    BY <1>1, <1>2 DEF NextExit
  <2>2. \A p \in Place : AfterExits(tokens', current, NextExit', p) = tokens'[p]
    BY <1>2, <2>1, ExitsOver, ArcTypes
  <2>. QED BY <1>1, <1>3, <2>2 DEF AbstractMarking, Firings
<1>. QED BY <1>5, <1>6, <1>7

(* The loop has finished the action of the arc that it left or entered.    *)
LEMMA ActionStutters ==
    ASSUME AtomicInv, UNCHANGED <<tokens, control>>,
           pc \in Firings, stage["loop"] # "out",
           \/ stage'["loop"] # "out" /\ arc' = arc
           \/ stage'["loop"] = "out" /\ arc' = arc + 1
    PROVE  AbstractMarking' = AbstractMarking
BY DEF AbstractMarking, NextExit, NextEntry, control, Firings

(* From the last exit to the first entry, and from the last entry out.     *)
LEMMA BetweenStutters ==
    ASSUME AtomicInv, ExitsDone \/ Fired
    PROVE  AbstractMarking' = AbstractMarking
<1> USE DEF marks, control, threads
<1>1. CASE ExitsDone
  <2>1. /\ pc = "exit" /\ pc' = "enter" /\ stage["loop"] = "out" /\ arc' = 1
        /\ arc > Len(Activation[current])
        /\ UNCHANGED <<tokens, current, stage>>
    BY <1>1 DEF ExitsDone, Pass, GoTo
  <2>2. current \in Transition /\ arc \in Nat
    BY <2>1 DEF AtomicInv, BaseInv, TypeOK, Firings
  <2>3. NextExit = arc /\ NextExit' = Len(Activation[current]) + 1 /\ NextEntry = 1 /\ NextEntry' = 1
    BY <2>1 DEF NextExit, NextEntry
  <2>4. ASSUME NEW p \in Place
        PROVE  AfterExits(tokens, current, arc, p)
                 = AfterExits(tokens, current, Len(Activation[current]) + 1, p)
    <3>1. /\ Len(Activation[current]) + 1 \in Nat
          /\ Len(Activation[current]) + 1 > Len(Activation[current])
      BY <2>2, ArcTypes
    <3>2. AfterExits(tokens, current, arc, p) = tokens[p]
      BY <2>1, <2>2, ExitsOver
    <3>3. AfterExits(tokens, current, Len(Activation[current]) + 1, p) = tokens[p]
      BY <2>2, <3>1, ExitsOver
    <3>. QED BY <3>2, <3>3
  <2>. QED BY <2>1, <2>3, <2>4 DEF AbstractMarking, Firings
<1>2. CASE Fired
  <2>1. /\ pc = "enter" /\ pc' = "execute" /\ stage["loop"] = "out"
        /\ arc > Len(Destination[current]) /\ UNCHANGED tokens
    BY <1>2 DEF Fired, GoTo
  <2>2. current \in Transition /\ arc \in Nat
    BY <2>1 DEF AtomicInv, BaseInv, TypeOK, Firings
  <2>3. NextEntry = arc /\ AbstractMarking' = tokens
    BY <2>1 DEF NextEntry, AbstractMarking, Firings
  <2>4. \A p \in Place : WeightFrom(Destination[current], arc, p) = 0
    BY <2>1, <2>2, WeightOfNone, ArcTypes
  <2>5. tokens \in [Place -> Nat]
    BY NetTypes DEF AtomicInv, BaseInv, TypeOK
  <2>6. AbstractMarking = [p \in Place |-> tokens[p] + 0]
    BY <2>1, <2>3, <2>4, MarkingOfEntering
  <2>. QED BY <2>3, <2>5, <2>6
<1>. QED BY <1>1, <1>2

(***************************************************************************)
(* A caller's token arrives, or arrives where a reset arc that is still to *)
(* be left takes it away: then it is not seen in the net at all.           *)
(***************************************************************************)
LEMMA CallerAddsToken ==
    ASSUME AtomicInv, NEW q \in Place, IncrementInputPlace(q)
    PROVE  Atomic!AddToken(q) \/ AbstractMarking' = AbstractMarking
<1>1. /\ q \in InputPlace
      /\ tokens' = [tokens EXCEPT ![q] = @ + 1]
      /\ UNCHANGED <<pc, current, arc>> /\ stage'["loop"] = stage["loop"]
  BY DEF IncrementInputPlace, EnterPlace, Stay, Leave, control, AtomicInv, BaseInv, TypeOK
<1>2. NextExit' = NextExit /\ NextEntry' = NextEntry
  BY <1>1 DEF NextExit, NextEntry
<1>3. CASE pc \notin Firings
  BY <1>1, <1>3 DEF AbstractMarking, Atomic!AddToken
<1>4. CASE pc \in Firings
  <2>. DEFINE put(p) == WeightFrom(Destination[current], NextEntry, p)
              left(p) == AfterExits(tokens, current, NextExit, p)
              reset == TakenByReset(current, NextExit, q)
  <2>1. /\ current \in Transition /\ arc \in Nat \ {0} /\ tokens \in [Place -> Nat]
    BY <1>4, NetTypes DEF AtomicInv, BaseInv, TypeOK
  <2>2. /\ Len(Activation[current]) \in Nat
        /\ NextExit \in Nat \ {0} /\ NextEntry \in Nat \ {0}
    BY <2>1, ArcTypes DEF NextExit, NextEntry
  <2>3. CoveredFrom(tokens, current, NextExit)
    <3>1. CASE pc = "exit"
      <4>1. \A i \in NextExit..Len(Activation[current]) :
               i \in 1..Len(Activation[current]) /\ i >= NextExit
        BY <2>2
      <4>. QED BY <3>1, <4>1 DEF AtomicInv, CheckedInv, Sufficient, CoveredFrom
    <3>2. CASE pc = "enter"
      BY <2>2, <3>2 DEF NextExit, CoveredFrom
    <3>. QED BY <1>4, <3>1, <3>2 DEF Firings
  <2>4. ASSUME NEW p \in Place PROVE left(p) \in Nat /\ put(p) \in Nat
    <3>1. PICK n : n = [r \in Place |-> IF r = q THEN tokens[r] + 1 ELSE tokens[r]]
      OBVIOUS
    <3>2. n[p] = IF p = q THEN tokens[p] + 1 ELSE tokens[p]
      BY <3>1
    <3>3. left(p) \in Nat
      BY <2>1, <2>2, <2>3, <3>2, ExitsOfOneMore
    <3>. QED BY <2>1, <2>2, <3>3, VectorsOf
  <2>5. ASSUME NEW p \in Place
        PROVE  AfterExits(tokens', current, NextExit, p) =
                 IF p = q /\ ~reset THEN left(p) + 1 ELSE left(p)
    <3>1. tokens'[p] = IF p = q THEN tokens[p] + 1 ELSE tokens[p]
      BY <1>1, <2>1
    <3>. HIDE DEF left, reset
    <3>2. AfterExits(tokens', current, NextExit, p) =
            IF p = q /\ ~TakenByReset(current, NextExit, q)
            THEN AfterExits(tokens, current, NextExit, p) + 1
            ELSE AfterExits(tokens, current, NextExit, p)
      BY <2>1, <2>2, <2>3, <3>1, ExitsOfOneMore
    <3>. QED BY <3>2 DEF left, reset
  <2>6. /\ AbstractMarking = [p \in Place |-> left(p) + put(p)]
        /\ AbstractMarking' = [p \in Place |-> AfterExits(tokens', current, NextExit, p) + put(p)]
    BY <1>1, <1>2, <1>4 DEF AbstractMarking
  <2>. HIDE DEF left, put, reset
  <2>7. CASE reset
    BY <2>5, <2>6, <2>7
  <2>8. CASE ~reset
    <3>1. \A p \in Place : AbstractMarking'[p] =
                             IF p = q THEN AbstractMarking[p] + 1 ELSE AbstractMarking[p]
      BY <2>4, <2>5, <2>6, <2>8
    <3>2. AbstractMarking' = [AbstractMarking EXCEPT ![q] = @ + 1]
      BY <2>6, <3>1
    <3>. QED BY <1>1, <3>2 DEF Atomic!AddToken
  <2>. QED BY <2>7, <2>8
<1>. QED BY <1>3, <1>4

(* The steps outside of a firing.                                          *)
LEMMA AtRestStutters ==
    ASSUME pc \notin Firings, pc' \notin Firings, UNCHANGED tokens
    PROVE  AbstractMarking' = AbstractMarking
BY DEF AbstractMarking

Unwinding == Option = "SINGLE_THREAD" /\ LoopThrows

LEMMA AbstractStep ==
    ASSUME AtomicInv, AtomicInv', [Next]_vars, ~Unwinding
    PROVE  [Atomic!Next]_AbstractMarking
<1> USE DEF vars, marks, counters, round, control, threads
<1>1. ASSUME LoopThrows PROVE AbstractMarking' = AbstractMarking
  BY <1>1, AbstractKept DEF LoopThrows, Unwinding
<1>2. CASE BeginRound \/ Collected \/ EndRound \/ (\E t \in Transition : Collect(t) \/ Execute(t))
             \/ InhibitorsChecked \/ FoundEnabled \/ ActivationChecked \/ NoActionsChecked
  BY <1>2, AtRestStutters DEF BeginRound, Collected, EndRound, Collect, Execute, InhibitorsChecked,
                       FoundEnabled, ActivationChecked, NoActionsChecked, Pass, GoTo, Firings
<1>3. CASE CheckInhibitor \/ CheckActivation \/ CheckNoActions \/ ConditionsRefuse
  BY <1>3, AtRestStutters DEF CheckInhibitor, CheckActivation, CheckNoActions, ConditionsRefuse,
                              Reject, NextArc, GoTo, Firings
<1>4. CASE ConditionThrows \/ LoopActionThrows
  BY <1>1, <1>4 DEF ConditionThrows, LoopActionThrows
<1>5. CASE Commit
  BY <1>5, CommitFires DEF Atomic!Next
<1>6. CASE Exit \/ Enter
  BY <1>1, <1>6, ExitStutters, EntryStutters
<1>7. CASE ExitsDone \/ Fired
  BY <1>7, BetweenStutters
<1>8. CASE FinishOnExitAction \/ PassBlock("loop") \/ StartOnEnterAction("loop")
             \/ FinishOnEnterAction("loop")
  <2>1. pc \in Firings /\ stage["loop"] # "out" /\ UNCHANGED <<tokens, control>>
    BY <1>8 DEF FinishOnExitAction, PassBlock, StartOnEnterAction, FinishOnEnterAction, Firings,
                AtomicInv, BaseInv, StageInv
  <2>2. \/ stage'["loop"] # "out" /\ arc' = arc
        \/ stage'["loop"] = "out" /\ arc' = arc + 1
    BY <1>8 DEF FinishOnExitAction, PassBlock, StartOnEnterAction, FinishOnEnterAction,
                Stay, Leave, AtomicInv, BaseInv, TypeOK
  <2>. QED BY <2>1, <2>2, ActionStutters
<1>9. ASSUME NEW p \in Place, IncrementInputPlace(p) PROVE [Atomic!Next]_AbstractMarking
  <2>1. p \in InputPlace
    BY <1>9 DEF IncrementInputPlace
  <2>. QED BY <1>9, <2>1, CallerAddsToken DEF Atomic!Next
<1>10. CASE CallerStep
  <2>1. UNCHANGED <<tokens, control, arc>> /\ stage'["loop"] = stage["loop"]
    BY <1>10 DEF CallerStep, NotifyNewEvent, PassBlock, StartOnEnterAction, FinishOnEnterAction,
                 CallerActionThrows, Stay, Leave, AtomicInv, BaseInv, TypeOK
  <2>. QED BY <2>1, AbstractKept
<1>11. ASSUME NEW p \in Place, JobCompletes(p) \/ JobThrows(p)
       PROVE  AbstractMarking' = AbstractMarking
  BY <1>11, AbstractKept DEF JobCompletes, JobThrows
<1>12. CASE UNCHANGED vars
  BY <1>12, AbstractKept
<1>. QED
  BY <1>2, <1>3, <1>4, <1>5, <1>6, <1>7, <1>8, <1>9, <1>10, <1>11, <1>12
     DEF Next, Running, LoopStep, Terminated

(***************************************************************************)
(* The engine implements the rules of Petri nets: in the options with a    *)
(* thread of the loop, for every net without inhibitor arcs on input       *)
(* places, whatever callers, actions and exceptions do meanwhile.          *)
(***************************************************************************)
THEOREM EngineFiresAtomically ==
    ASSUME Option # "SINGLE_THREAD", CallersCannotInhibit
    PROVE  Spec => AtomicFiring
<1>1. AtomicInv /\ AtomicInv' /\ [Next]_vars => [Atomic!Next]_AbstractMarking
  BY AbstractStep DEF Unwinding
<1>. QED
  BY <1>1, AbstractInit, AtomicInvInit, AtomicInvStep, PTL DEF Spec, AtomicFiring, Atomic!Spec

(***************************************************************************)
(* In SINGLE_THREAD, where no caller comes in during a round, the same     *)
(* holds of any net, but for the step in which an exception leaves         *)
(* execute() and what was half fired stays so.                             *)
(***************************************************************************)
THEOREM SingleThreadFiresAtomically ==
    ASSUME Option = "SINGLE_THREAD"
    PROVE  Spec => Atomic!Init /\ [][LoopThrows \/ [Atomic!Next]_AbstractMarking]_vars
<1>1. CallersCannotInhibit
  BY DEF CallersCannotInhibit
<1>2. AtomicInv /\ AtomicInv' /\ [Next]_vars => LoopThrows \/ [Atomic!Next]_AbstractMarking
  BY AbstractStep DEF Unwinding
<1>. QED
  BY <1>1, <1>2, AbstractInit, AtomicInvInit, AtomicInvStep, PTL DEF Spec

-----------------------------------------------------------------------------
(***************************************************************************)
(* Who can come to wait for a block: a caller in an input place, the loop  *)
(* in a destination of the transition it fires, each where an on-enter     *)
(* action is due.                                                          *)
(***************************************************************************)
WaitInv ==
    /\ stage["caller"] = "spin" => inside["caller"] \in InputPlace \cap OnEnter
    /\ stage["loop"] = "spin" =>
          inside["loop"] \in PlacesOf(Destination[current]) \cap OnEnter

LEMMA WaitStep == BaseInv /\ WaitInv /\ [Next]_vars => WaitInv'
<1> SUFFICES ASSUME BaseInv, WaitInv, [Next]_vars PROVE WaitInv'
  OBVIOUS
<1> USE DEF vars, marks, counters, round, control, threads
<1>1. ASSUME UNCHANGED threads, UNCHANGED current \/ pc # "enter" PROVE WaitInv'
  BY <1>1 DEF WaitInv, BaseInv, StageInv
<1>2. ASSUME NEW th \in Thread, stage'[th] # "spin", UNCHANGED current,
             \A other \in Thread \ {th} :
                stage'[other] = stage[other] /\ inside'[other] = inside[other]
      PROVE  WaitInv'
  BY <1>2 DEF WaitInv
<1>3. CASE BeginRound \/ Collected \/ EndRound \/ (\E t \in Transition : Collect(t) \/ Execute(t))
  BY <1>1, <1>3 DEF BeginRound, Collected, EndRound, Collect, Execute, GoTo
<1>4. CASE InhibitorsChecked \/ ActivationChecked \/ NoActionsChecked \/ Commit \/ ExitsDone
  BY <1>1, <1>4 DEF InhibitorsChecked, ActivationChecked, NoActionsChecked, Commit, ExitsDone, Pass
<1>5. CASE CheckInhibitor \/ CheckActivation \/ CheckNoActions \/ ConditionsRefuse
  BY <1>1, <1>5 DEF CheckInhibitor, CheckActivation, CheckNoActions, ConditionsRefuse, Reject, NextArc
<1>6. CASE FoundEnabled
  BY <1>1, <1>6 DEF FoundEnabled
<1>7. CASE Fired
  BY <1>7 DEF Fired, WaitInv
<1>8. ASSUME LoopThrows PROVE WaitInv'
  <2>1. CASE Option = "SINGLE_THREAD"
    BY <1>8, <2>1 DEF LoopThrows, WaitInv, BaseInv, TypeOK
  <2>2. CASE Option # "SINGLE_THREAD"
    BY <1>1, <1>8, <2>2 DEF LoopThrows
  <2>. QED BY <2>1, <2>2
<1>9. CASE ConditionThrows \/ LoopActionThrows
  BY <1>8, <1>9 DEF ConditionThrows, LoopActionThrows
<1>10. ASSUME NEW th \in Thread, NEW p, NEW s \in {"start", "onEnter", "onExit"},
              Leave(th) \/ Stay(th, p, s), UNCHANGED current
       PROVE  WaitInv'
  BY <1>2, <1>10 DEF Leave, Stay, BaseInv, TypeOK
<1>11. CASE Exit
  BY <1>8, <1>10, <1>11 DEF Exit
<1>12. CASE FinishOnExitAction
  BY <1>10, <1>12 DEF FinishOnExitAction
<1>13. ASSUME NEW th \in Thread, NEW p, NEW n, EnterPlace(th, p, n),
              th = "loop" => p \in PlacesOf(Destination[current]),
              th = "caller" => p \in InputPlace
       PROVE  WaitInv'
  <2>1. UNCHANGED current
    BY <1>13 DEF EnterPlace
  <2>2. CASE p \notin OnEnter
    BY <1>10, <1>13, <2>1, <2>2 DEF EnterPlace
  <2>3. CASE p \in OnEnter
    <3>1. Stay(th, p, "spin")
      BY <1>13, <2>3 DEF EnterPlace
    <3>. QED BY <1>13, <2>1, <2>3, <3>1 DEF Stay, WaitInv, BaseInv, TypeOK
  <2>. QED BY <2>2, <2>3
<1>14. CASE Enter
  <2>1. arc \in 1..Len(Destination[current])
    BY <1>14, ArcTypes DEF Enter, BaseInv, TypeOK, Firings
  <2>2. Destination[current][arc].place \in PlacesOf(Destination[current])
    BY <2>1 DEF PlacesOf
  <2>. QED BY <1>8, <1>13, <1>14, <2>2 DEF Enter
<1>15. ASSUME NEW p \in Place, IncrementInputPlace(p) PROVE WaitInv'
  BY <1>13, <1>15 DEF IncrementInputPlace
<1>16. ASSUME NEW th \in Thread, PassBlock(th) PROVE WaitInv'
  BY <1>2, <1>16 DEF PassBlock, BaseInv, TypeOK
<1>17. ASSUME NEW th \in Thread, StartOnEnterAction(th) \/ FinishOnEnterAction(th) PROVE WaitInv'
  BY <1>10, <1>17 DEF StartOnEnterAction, FinishOnEnterAction
<1>18. CASE NotifyNewEvent \/ CallerActionThrows
  BY <1>2, <1>18 DEF NotifyNewEvent, CallerActionThrows, BaseInv, TypeOK
<1>19. ASSUME NEW p \in Place, JobCompletes(p) \/ JobThrows(p) PROVE WaitInv'
  BY <1>1, <1>19 DEF JobCompletes, JobThrows
<1>20. CASE UNCHANGED vars
  BY <1>1, <1>20
<1>. QED
  BY <1>3, <1>4, <1>5, <1>6, <1>7, <1>9, <1>11, <1>12, <1>14, <1>15, <1>16, <1>17,
     <1>18, <1>19, <1>20
     DEF Next, Running, LoopStep, CallerStep, Terminated

(***************************************************************************)
(* A net on which what a transition holds back is never due to a caller or *)
(* to the transition itself.                                               *)
(***************************************************************************)
HoldsBackOthersOnly ==
    \A t \in RequireNoActions : \A p \in PlacesOf(Activation[t]) \cap OnEnter :
        p \notin InputPlace /\ p \notin PlacesOf(Destination[t])

(* On such a net a wait in enterPlace never finds the flag up, so the loop *)
(* and a caller cannot block each other over it: the nets on which a run   *)
(* finds the deadlock are the others.                                      *)
THEOREM NobodyIsEmbraced ==
    ASSUME Option # "SINGLE_THREAD", HoldsBackOthersOnly
    PROVE  Spec => []NoEmbrace
<1>1. Init => BaseInv /\ BlockedOnlyWhileExecuting /\ WaitInv
  BY BaseInit DEF Init, BlockedOnlyWhileExecuting, WaitInv
<1>2. BaseInv /\ BlockedOnlyWhileExecuting /\ WaitInv /\ [Next]_vars
        => (BaseInv /\ BlockedOnlyWhileExecuting /\ WaitInv)'
  BY BaseStep, BlockedStep, WaitStep
<1>3. BaseInv /\ BlockedOnlyWhileExecuting /\ WaitInv => NoEmbrace
  <2> SUFFICES ASSUME BaseInv, BlockedOnlyWhileExecuting, WaitInv,
                      NEW th \in Thread, stage[th] = "spin", blocked[inside[th]]
               PROVE  FALSE
    BY DEF NoEmbrace
  <2>1. inside[th] \in Place
    BY DEF BaseInv, TypeOK, StageInv
  <2>2. current \in RequireNoActions /\ inside[th] \in PlacesOf(Activation[current])
    BY <2>1 DEF BlockedOnlyWhileExecuting
  <2>. QED BY <2>2 DEF WaitInv, HoldsBackOthersOnly
<1>. QED BY <1>1, <1>2, <1>3, PTL DEF Spec
=============================================================================
