CONSTANTS
    p = p
    q = q
    Place <- TwoPlaces
    Calling <- FirstPlace
    InitialOption = "JOB_QUEUE"
    LaunchMayFail = TRUE
    UserCodeMayThrow = TRUE
    MaxEntered = 4
    MaxClears = 1
SPECIFICATION Spec
CHECK_DEADLOCK FALSE
INVARIANTS TypeOK CountersAreExact SequentialActions QueueFollowsOption UndefinedOnlyIfCutShort
PROPERTY ReplacementEnds
