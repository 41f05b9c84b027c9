SPECIFICATION Spec
CONSTANTS
    Process = {p1, p2}
    Directory = {d}
    Name = {n}
    Body = {x}
    None = None
    MaxRevision = 1
    MaxFaults = 2
INVARIANTS
    PowerLossKeepsArtifacts
CHECK_DEADLOCK FALSE
