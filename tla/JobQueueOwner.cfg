CONSTANTS
    p = p
    q = q
    w = w
    Worker = w
    Thread <- OwnerAndJobs
    Owner <- OwnerAlone
    LaunchMayFail = TRUE
    MaxPushed = 4
SPECIFICATION Spec
INVARIANTS FlagIsExact InactiveIsQuiet
CHECK_DEADLOCK FALSE
