CONSTANTS
    p = p
    q = q
    w = w
    Worker = w
    Thread <- OwnerAlone
    Owner <- OwnerAlone
    LaunchMayFail = FALSE
    MaxPushed = 1
SPECIFICATION Spec
INVARIANT NeverTerminates
CHECK_DEADLOCK FALSE
