CONSTANTS
    Place <- WorkshopPlace
    Transition <- WorkshopTransition
    InputPlace = {"req"}
    Activation <- WorkshopActivation
    Destination <- WorkshopDestination
    Inhibitor <- WorkshopInhibitor
    RequireNoActions = {}
    Conditioned = {}
    OnEnter = {"req", "busy"}
    OnExit = {"busy"}
    InitialTokens <- WorkshopTokens
    MaxTokens = 2
    Option = "EVENT_LOOP"
    UserCodeMayThrow = TRUE
    MaxJobs = 2
    NoPlace = NoPlace
    NoTransition = NoTransition
SPECIFICATION FairSpec
INVARIANTS TypeOK NeverShort
PROPERTIES AtomicFiring NoStarvation
