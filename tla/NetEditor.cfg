CONSTANTS
    p = p
    q = q
    t = t
    PlaceName = {p, q}
    TransitionName = {t}
    MaxWeight = 1
    Offered <- Descriptions
    File <- Files
SPECIFICATION Spec
INVARIANTS WellFormed ImportIsWhole RoundTrip
PROPERTY OnlyGrowsWhileRunning
