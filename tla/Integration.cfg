SPECIFICATION FairSpec
CONSTANTS
    Task = {1, 2}
    MaxAttempts = 2
    Delta = {"clean", "refused"}
    MaxMoves = 2
    MaxCrashes = 2
INVARIANTS
    IInv
    ExactlyOnce
    HeadWasHeld
    RefsFollowMarkers
PROPERTIES
    NoForcedUpdate
    ImplementsLog
    MarkerResolved
CHECK_DEADLOCK FALSE
