---------------------------- MODULE MCEventLoop ----------------------------
(***************************************************************************)
(* EventLoop on small instances: three threads of the program, and the     *)
(* event loop itself when actions call the engine.                         *)
(***************************************************************************)
EXTENDS EventLoop

CONSTANTS a, b, c, el

Callers == {a, b, c}

CallerAndActions == {a, el}
=============================================================================
