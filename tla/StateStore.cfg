SPECIFICATION Spec
CONSTANTS
    Process = {p1, p2}
    Directory = {d, e}
    Name = {n}
    Body = {x, y}
    None = None
    MaxRevision = 3
    MaxFaults = 2
INVARIANTS
    BoundArtifactsExist
    SnapshotIsWhole
    AcknowledgedSurvives
PROPERTIES
    ImplementsRegister
CHECK_DEADLOCK FALSE
