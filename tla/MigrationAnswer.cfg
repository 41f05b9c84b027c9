SPECIFICATION Spec
CONSTANTS
    Process = {p1}
    Request = {g}
    MaxRunId = 2
    Requirement = {1, 2}
    ReadOnly = {2}
    Version = {x}
    None = None
    MaxCalls = 2
    MaxKills = 1
    MaxEdits = 0
INVARIANTS
    AnswerIsFinalized
CHECK_DEADLOCK FALSE
