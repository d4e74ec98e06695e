CONSTANTS
    a = a
    b = b
    c = c
    el = el
    Loop = el
    NoThread = NoThread
    Thread <- Callers
    LaunchMayFail = TRUE
SPECIFICATION Spec
INVARIANTS TypeOK NoLostWakeup RestsWhenNotRunning
PROPERTIES OptionIsStable TokensAreSeen ThrownTokensAreSeen MutexIsReturned
CHECK_DEADLOCK FALSE
