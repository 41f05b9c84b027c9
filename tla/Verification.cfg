CONSTANTS
    Commands = 2
    MaxOperations = 2
    MaxMoves = 1
SPECIFICATION Spec
INVARIANT PassIsEarned
PROPERTY GateEnds
CHECK_DEADLOCK FALSE
