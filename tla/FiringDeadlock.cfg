CONSTANTS
    Place <- DoorPlace
    Transition <- DoorTransition
    InputPlace = {"open"}
    Activation <- DoorActivation
    Destination <- DoorDestination
    Inhibitor <- DoorInhibitor
    RequireNoActions = {"close"}
    Conditioned = {}
    OnEnter = {"open"}
    OnExit = {}
    InitialTokens <- DoorTokens
    MaxTokens = 2
    Option = "JOB_QUEUE"
    UserCodeMayThrow = FALSE
    MaxJobs = 1
    NoPlace = NoPlace
    NoTransition = NoTransition
SPECIFICATION Spec
INVARIANTS NoEmbrace
