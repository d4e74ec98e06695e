----------------------------- MODULE NetEditor -----------------------------
(***************************************************************************)
(* Building a net: createPlace, createTransition, addArc, removeArc and    *)
(* clearNet of PTN_Engine, by any thread, and an import, which is a        *)
(* sequence of such calls.  The proxy's mutex makes each call one step; an *)
(* import holds nothing between its calls, so others edit, execute and     *)
(* stop the engine meanwhile.                                              *)
(*                                                                         *)
(* A call that is refused before it has changed anything is no step.       *)
(* Vectors of arcs are sets here, as editing does not depend on the order. *)
(* A function (action, condition) is "none", "anonymous" (passed as such), *)
(* "named" (looked up by name) or, in a file only, "blank": an empty name. *)
(***************************************************************************)
EXTENDS Naturals, FiniteSetsExt

CONSTANTS
    PlaceName, TransitionName,
    MaxWeight,
    Offered,         \* what callers pass to createTransition
    File             \* the files that may be imported

VARIABLES
    places,          \* PlacesManager::m_items: name |-> action
    transitions,     \* TransitionsManager::m_items: name |-> arcs, condition
    running,         \* whether the event loop is running
    registered,      \* whether the named functions have been registered
    importing,       \* what IFileImporter::_importInt is doing
    file,            \* the file it imports
    rest,            \* what of that section of the file is still to come
    kept             \* history: nothing removed since the import began

net == <<places, transitions>>
import == <<importing, file, rest>>
vars == <<net, running, registered, import, kept>>

Vector == {"activation", "destination", "inhibitor"}
ArcType == Vector \cup {"bidirectional"}
Arc == [place : PlaceName, weight : 0 .. MaxWeight]
Function == {"none", "anonymous", "named"}

Description == [arcs : [Vector -> SUBSET Arc], condition : Function \cup {"blank"}]

FileArc == [transition : TransitionName, type : ArcType,
            place : PlaceName, weight : 0 .. MaxWeight]

Maps(f, S, T) == DOMAIN f \subseteq S /\ f \in [DOMAIN f -> T]

IsFile(f) ==
    /\ Maps(f.places, PlaceName, {"none", "named"})
    /\ Maps(f.transitions, TransitionName, Description)
    /\ f.arcs \subseteq FileArc

ASSUME NetEditorAssumption ==
    /\ MaxWeight \in Nat
    /\ \A d \in Offered : d \in Description /\ d.condition # "blank"
    /\ \A f \in File : IsFile(f)

Empty == [x \in {} |-> x]
NoFile == [places |-> Empty, transitions |-> Empty, arcs |-> {}]

\* f with x mapped to y.
With(f, x, y) == [z \in DOMAIN f \cup {x} |-> IF z = x THEN y ELSE f[z]]

Init ==
    /\ places = Empty
    /\ transitions = Empty
    /\ running = FALSE
    /\ registered = FALSE
    /\ importing = "no"
    /\ file = NoFile
    /\ rest = {}
    /\ kept = TRUE

Exists(p) == p \in DOMAIN places

Known(function) ==
    function \in {"none", "anonymous"} \/ (function = "named" /\ registered)

-----------------------------------------------------------------------------
(* Creating places and transitions is not refused while the loop runs.     *)
CanCreatePlace(p, action) == ~Exists(p) /\ Known(action)

CreatePlace(p, action) ==
    /\ CanCreatePlace(p, action)
    /\ places' = With(places, p, action)
    /\ UNCHANGED transitions

Distinct(arcs) == \A x, y \in arcs : x.place = y.place => x = y

(* What the constructor of Transition, and createTransition before it, ask *)
(* of each of the three vectors.                                           *)
Acceptable(arcs) ==
    /\ Distinct(arcs)
    /\ \A arc \in arcs : Exists(arc.place) /\ arc.weight # 0

CanCreateTransition(t, description) ==
    /\ t \notin DOMAIN transitions
    /\ Known(description.condition)
    /\ \A v \in Vector : Acceptable(description.arcs[v])

CreateTransition(t, description) ==
    /\ CanCreateTransition(t, description)
    /\ transitions' = With(transitions, t, description)
    /\ UNCHANGED places

-----------------------------------------------------------------------------
(***************************************************************************)
(* A bidirectional arc is an activation arc and then a destination arc.    *)
(* If the second cannot be added, or removed, the first has been.          *)
(***************************************************************************)
Parts(type) ==
    IF type = "bidirectional" THEN {"activation", "destination"} ELSE {type}

Has(arcs, v, p) == \E arc \in arcs[v] : arc.place = p

(* Bug: nobody looks whether there is such an arc.                         *)
AddsAnyway(arcs, type, p) == Parts(type)

AddsTo(arcs, type, p) ==
    {v \in Parts(type) :
        /\ ~Has(arcs, v, p)
        /\ type = "bidirectional" => ~Has(arcs, "activation", p)}

RemovesFrom(arcs, type, p) ==
    {v \in Parts(type) :
        /\ Has(arcs, v, p)
        /\ type = "bidirectional" => Has(arcs, "activation", p)}

WithArc(arcs, type, arc) ==
    [v \in Vector |->
        IF v \in AddsTo(arcs, type, arc.place) THEN arcs[v] \cup {arc} ELSE arcs[v]]

WithoutArc(arcs, type, p) ==
    [v \in Vector |->
        IF v \in RemovesFrom(arcs, type, p)
        THEN {arc \in arcs[v] : arc.place # p} ELSE arcs[v]]

(* Bug: the loop may run.                                                  *)
EditsAtAnyTime(t, p) == Exists(p) /\ t \in DOMAIN transitions

(* addArc and removeArc of PTN_EngineImp ask for a loop at rest and for    *)
(* both ends of the arc.                                                   *)
MayEditArcs(t, p) == ~running /\ Exists(p) /\ t \in DOMAIN transitions

AddArc(t, type, arc) ==
    /\ MayEditArcs(t, arc.place)
    /\ transitions' = [transitions EXCEPT ![t].arcs = WithArc(@, type, arc)]
    /\ UNCHANGED places

RemoveArc(t, type, p) ==
    /\ MayEditArcs(t, p)
    /\ transitions' = [transitions EXCEPT ![t].arcs = WithoutArc(@, type, p)]
    /\ UNCHANGED places

ClearNet ==
    /\ ~running
    /\ transitions' = Empty
    /\ places' = Empty

-----------------------------------------------------------------------------
(* Calls, of any thread.                                                   *)
Create ==
    /\ \/ \E p \in PlaceName, action \in Function : CreatePlace(p, action)
       \/ \E t \in TransitionName, description \in Offered : CreateTransition(t, description)
       \/ \E t \in TransitionName, type \in ArcType, arc \in Arc : AddArc(t, type, arc)
    /\ UNCHANGED <<running, registered, import, kept>>

Remove ==
    /\ \/ ClearNet
       \/ \E t \in TransitionName, type \in ArcType, p \in PlaceName : RemoveArc(t, type, p)
    /\ kept' = FALSE
    /\ UNCHANGED <<running, registered, import>>

Register ==
    /\ registered' = TRUE
    /\ UNCHANGED <<net, running, import, kept>>

Execute ==
    /\ running' = TRUE
    /\ UNCHANGED <<net, registered, import, kept>>

Stop ==
    /\ running' = FALSE
    /\ UNCHANGED <<net, registered, import, kept>>

-----------------------------------------------------------------------------
(***************************************************************************)
(* _importInt.  It stops the engine first, but the net may be running      *)
(* again before its next call.  An exception ends it where it is.          *)
(***************************************************************************)
BeginImport(f) ==
    /\ importing \in {"no", "done", "failed"}
    /\ importing' = "option"
    /\ file' = f
    /\ rest' = {}
    /\ running' = FALSE
    /\ kept' = TRUE
    /\ UNCHANGED <<net, registered>>

ImportGoesTo(section, items) ==
    /\ importing' = section
    /\ rest' = items
    /\ UNCHANGED <<file, running, registered, kept>>

ImportFails == ImportGoesTo("failed", {})

(* setActionsThreadOption refuses while the loop runs.                     *)
ImportOption ==
    /\ importing = "option"
    /\ IF running THEN ImportFails ELSE ImportGoesTo("places", DOMAIN file.places)
    /\ UNCHANGED net

ImportPlace(p) ==
    /\ importing = "places"
    /\ p \in rest
    /\ \/ CreatePlace(p, file.places[p]) /\ ImportGoesTo("places", rest \ {p})
       \/ ~CanCreatePlace(p, file.places[p]) /\ ImportFails /\ UNCHANGED net

ImportTransition(t) ==
    /\ importing = "transitions"
    /\ t \in rest
    /\ \/ /\ CreateTransition(t, file.transitions[t])
          /\ ImportGoesTo("transitions", rest \ {t})
       \/ /\ ~CanCreateTransition(t, file.transitions[t])
          /\ ImportFails
          /\ UNCHANGED net

ArcOf(a) == [place |-> a.place, weight |-> a.weight]

(* Bug: arcs that there are already are skipped.                           *)
SkipsRepeated(a) == FALSE

(* There is an arc of the type already, or of one half of it.              *)
AddArcThrows(a) ==
    AddsTo(transitions[a.transition].arcs, a.type, a.place) # Parts(a.type)

ImportArc(a) ==
    /\ importing = "arcs"
    /\ a \in rest
    /\ \/ /\ AddArc(a.transition, a.type, ArcOf(a))
          /\ IF AddArcThrows(a) THEN ImportFails ELSE ImportGoesTo("arcs", rest \ {a})
       \/ /\ ~MayEditArcs(a.transition, a.place)
          /\ ImportFails
          /\ UNCHANGED net

ImportNextSection ==
    /\ rest = {}
    /\ \/ importing = "places" /\ ImportGoesTo("transitions", DOMAIN file.transitions)
       \/ importing = "transitions" /\ ImportGoesTo("arcs", file.arcs)
       \/ importing = "arcs" /\ ImportGoesTo("done", {})
    /\ UNCHANGED net

(* The option, a transition or an arc of the file is not understood.       *)
ImportMalformed ==
    /\ importing = "option" \/ (importing \in {"places", "transitions"} /\ rest = {})
    /\ ImportFails
    /\ UNCHANGED net

Import ==
    \/ \E f \in File : BeginImport(f)
    \/ ImportOption
    \/ \E p \in PlaceName : ImportPlace(p)
    \/ \E t \in TransitionName : ImportTransition(t)
    \/ \E a \in FileArc : ImportArc(a)
    \/ ImportNextSection
    \/ ImportMalformed

Next == Create \/ Remove \/ Register \/ Execute \/ Stop \/ Import

Spec == Init /\ [][Next]_vars

-----------------------------------------------------------------------------
(***************************************************************************)
(* _exportInt writes the transitions without arcs, and the arcs, three     *)
(* types of them, in a section of their own.  Of functions it writes the   *)
(* name: of an anonymous action none, of an anonymous condition a blank.   *)
(***************************************************************************)
ExportedTransition(t) ==
    [arcs |-> [v \in Vector |-> {}],
     condition |-> IF transitions[t].condition = "anonymous"
                   THEN "blank" ELSE transitions[t].condition]

(* Bug: one kind of arcs is forgotten.                                     *)
WithoutInhibitors ==
    UNION {{[transition |-> t, type |-> v, place |-> arc.place, weight |-> arc.weight] :
               arc \in transitions[t].arcs[v]} :
           t \in DOMAIN transitions, v \in {"activation", "destination"}}

ExportedArcs ==
    UNION {{[transition |-> t, type |-> v, place |-> arc.place, weight |-> arc.weight] :
               arc \in transitions[t].arcs[v]} :
           t \in DOMAIN transitions, v \in Vector}

Exported ==
    [places |-> [p \in DOMAIN places |->
                    IF places[p] = "anonymous" THEN "none" ELSE places[p]],
     transitions |-> [t \in DOMAIN transitions |-> ExportedTransition(t)],
     arcs |-> ExportedArcs]

(* The transitions that an undisturbed import of f into an engine without  *)
(* a net makes, the arcs coming in any one order.                          *)
Imported(f) ==
    FoldSet(LAMBDA a, made : [made EXCEPT ![a.transition].arcs = WithArc(@, a.type, ArcOf(a))],
            f.transitions, f.arcs)

-----------------------------------------------------------------------------
TypeOK ==
    /\ Maps(places, PlaceName, Function)
    /\ Maps(transitions, TransitionName, Description)
    /\ running \in BOOLEAN
    /\ registered \in BOOLEAN
    /\ importing \in {"no", "option", "places", "transitions", "arcs", "done", "failed"}
    /\ file \in File \cup {NoFile}
    /\ importing = "places" => rest \subseteq DOMAIN file.places
    /\ importing = "transitions" => rest \subseteq DOMAIN file.transitions
    /\ importing = "arcs" => rest \subseteq file.arcs
    /\ kept \in BOOLEAN

(***************************************************************************)
(* Whatever calls and failures came before, every arc leads to a place of  *)
(* the net (or lockWeakPtr would throw in the loop, Transition.cpp:157 and *)
(* 322) and no place occurs twice in a vector: what module Net assumes.    *)
(***************************************************************************)
WellFormed ==
    \A t \in DOMAIN transitions, v \in Vector :
        /\ Distinct(transitions[t].arcs[v])
        /\ \A arc \in transitions[t].arcs[v] : Exists(arc.place)

(***************************************************************************)
(* While the loop runs nothing that a round may be using goes away or      *)
(* changes: nets only grow, by places and by whole transitions             *)
(* (PTN_EngineImp.cpp:49-57, 200-250).                                     *)
(***************************************************************************)
OnlyGrowsWhileRunning ==
    [][running =>
          /\ \A p \in DOMAIN places : Exists(p)' /\ places'[p] = places[p]
          /\ \A t \in DOMAIN transitions :
                t \in DOMAIN transitions' /\ transitions'[t] = transitions[t]
      ]_vars

(***************************************************************************)
(* An import that returns has put its whole file into the net, though      *)
(* others may have run the engine and added to the net between its calls   *)
(* (IFileImporter.cpp:29-54).                                              *)
(***************************************************************************)
ImportIsWhole ==
    importing = "done" /\ kept =>
        /\ \A p \in DOMAIN file.places : Exists(p) /\ places[p] = file.places[p]
        /\ \A t \in DOMAIN file.transitions :
              /\ t \in DOMAIN transitions
              /\ transitions[t].condition = file.transitions[t].condition
              /\ \A v \in Vector : file.transitions[t].arcs[v] \subseteq transitions[t].arcs[v]
        /\ \A a \in file.arcs : \A v \in Parts(a.type) :
              ArcOf(a) \in transitions[a.transition].arcs[v]

(***************************************************************************)
(* A net whose functions have names can be saved and loaded again: no call *)
(* of the import is refused and the same net results, whichever calls it   *)
(* was built with: reset arcs and both halves of bidirectional arcs        *)
(* included (IFileExporter.cpp, IFileImporter.cpp).                        *)
(***************************************************************************)
AllNamed ==
    /\ \A p \in DOMAIN places : places[p] # "anonymous"
    /\ \A t \in DOMAIN transitions : transitions[t].condition # "anonymous"

RoundTrip ==
    AllNamed =>
        /\ \A p \in DOMAIN Exported.places : Known(Exported.places[p])
        /\ \A t \in DOMAIN Exported.transitions : Known(Exported.transitions[t].condition)
        /\ Exported.places = places
        /\ Imported(Exported) = transitions
=============================================================================
