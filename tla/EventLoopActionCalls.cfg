CONSTANTS
    a = a
    b = b
    c = c
    el = el
    Loop = el
    NoThread = NoThread
    Thread <- CallerAndActions
    LaunchMayFail = FALSE
SPECIFICATION Spec
INVARIANT NoEmbraceInStop
