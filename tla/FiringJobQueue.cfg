CONSTANTS
    Place <- LiftPlace
    Transition <- LiftTransition
    InputPlace = {"request", "stop"}
    Activation <- LiftActivation
    Destination <- LiftDestination
    Inhibitor <- LiftInhibitor
    RequireNoActions = {"arrive", "halt"}
    Conditioned = {"halt"}
    OnEnter = {"ready", "move"}
    OnExit = {"move"}
    InitialTokens <- LiftTokens
    MaxTokens = 2
    Option = "JOB_QUEUE"
    UserCodeMayThrow = FALSE
    MaxJobs = 2
    NoPlace = NoPlace
    NoTransition = NoTransition
SPECIFICATION FairSpec
INVARIANTS NoEmbrace
PROPERTIES AtomicFiring NoStarvation
