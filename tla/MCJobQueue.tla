----------------------------- MODULE MCJobQueue -----------------------------
(***************************************************************************)
(* JobQueue on small instances.                                            *)
(***************************************************************************)
EXTENDS JobQueue

CONSTANTS p, q, w

\* Two threads of the engine (the event loop and a caller), and jobs that add
\* jobs.
EngineAndJobs == {p, q, w}

\* One thread does everything, as in TestJobQueue; its jobs may add jobs.
OwnerAlone == {p}
OwnerAndJobs == {p, w}

\* One owner among several threads.
FirstThread == {p}
=============================================================================
