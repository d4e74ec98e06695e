------------------------------ MODULE MCFiring -----------------------------
(***************************************************************************)
(* Nets for the model checker.                                             *)
(***************************************************************************)
EXTENDS Firing

A(p, w) == [place |-> p, weight |-> w]

(***************************************************************************)
(* Workshop: requests come in (req, the only input place) and are served   *)
(* one at a time.  serve and drop compete for requests; drop takes two at  *)
(* once and only while the workshop is not free (inhibitor arc); clean has *)
(* a reset arc on bin, which overflows if clean comes too late.            *)
(***************************************************************************)
WorkshopPlace == {"req", "free", "busy", "bin"}
WorkshopTransition == {"serve", "done", "drop", "clean"}
WorkshopActivation ==
    [serve |-> <<A("req", 1), A("free", 1)>>,
     done  |-> <<A("busy", 1)>>,
     drop  |-> <<A("req", 2)>>,
     clean |-> <<A("bin", 0), A("busy", 1)>>]
WorkshopDestination ==
    [serve |-> <<A("busy", 1)>>,
     done  |-> <<A("free", 1), A("bin", 1)>>,
     drop  |-> <<>>,
     clean |-> <<A("busy", 1)>>]
WorkshopInhibitor ==
    [serve |-> <<>>, done |-> <<>>, drop |-> <<>>, clean |-> <<A("free", 1)>>]
WorkshopTokens == [req |-> 1, free |-> 1, busy |-> 0, bin |-> 0]

(***************************************************************************)
(* Lift: two cabins stand ready.  A request sends one (move runs an action *)
(* for as long as the cabin moves); it may arrive only when no cabin's     *)
(* action is running; an operator's stop brings one back at any time the   *)
(* condition of halt allows.                                               *)
(***************************************************************************)
LiftPlace == {"request", "stop", "ready", "move"}
LiftTransition == {"send", "arrive", "halt"}
LiftActivation ==
    [send   |-> <<A("request", 1), A("ready", 1)>>,
     arrive |-> <<A("move", 1)>>,
     halt   |-> <<A("stop", 1), A("move", 1)>>]
LiftDestination ==
    [send   |-> <<A("move", 1)>>,
     arrive |-> <<A("ready", 1)>>,
     halt   |-> <<A("ready", 1)>>]
LiftInhibitor == [send |-> <<A("move", 1)>>, arrive |-> <<>>, halt |-> <<>>]
LiftTokens == [request |-> 0, stop |-> 0, ready |-> 2, move |-> 0]

(***************************************************************************)
(* Door: close requires that no action of open is running, and open, where *)
(* callers put tokens, has an on-enter action.                             *)
(***************************************************************************)
DoorPlace == {"open", "closed"}
DoorTransition == {"close", "reopen"}
DoorActivation == [close |-> <<A("open", 1)>>, reopen |-> <<A("closed", 2)>>]
DoorDestination == [close |-> <<A("closed", 1)>>, reopen |-> <<A("open", 1)>>]
DoorInhibitor == [close |-> <<>>, reopen |-> <<>>]
DoorTokens == [open |-> 1, closed |-> 0]
=============================================================================
