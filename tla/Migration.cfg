SPECIFICATION FairSpec
CONSTANTS
    Process = {p1, p2}
    Request = {g}
    MaxRunId = 3
    Requirement = {1, 2}
    ReadOnly = {2}
    Version = {x, y}
    None = None
    MaxCalls = 3
    MaxKills = 1
    MaxEdits = 1
INVARIANTS
    ReservedIdIsKept
    OneOpenCreation
    ReturnedRunIsWhole
    FinalizedIsClaimed
    AnswerIsSound
PROPERTIES
    AllocatorIsFreed
CHECK_DEADLOCK FALSE
