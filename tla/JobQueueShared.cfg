CONSTANTS
    p = p
    q = q
    w = w
    Worker = w
    Thread <- EngineAndJobs
    Owner <- FirstThread
    LaunchMayFail = FALSE
    MaxPushed = 3
SPECIFICATION Spec
INVARIANT Attended
PROPERTIES InSequence JobsAreExecuted
CHECK_DEADLOCK FALSE
