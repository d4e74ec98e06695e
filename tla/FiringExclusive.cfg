CONSTANTS
    Place <- DoorPlace
    Transition <- DoorTransition
    InputPlace = {"open"}
    Activation <- DoorActivation
    Destination <- DoorDestination
    Inhibitor <- DoorInhibitor
    RequireNoActions = {"close"}
    Conditioned = {"close"}
    OnEnter = {"open"}
    OnExit = {}
    InitialTokens <- DoorTokens
    MaxTokens = 2
    Option = "JOB_QUEUE"
    UserCodeMayThrow = TRUE
    MaxJobs = 2
    NoPlace = NoPlace
    NoTransition = NoTransition
SPECIFICATION Spec
INVARIANTS ExclusiveFiring BlockedOnlyWhileExecuting
CHECK_DEADLOCK FALSE
