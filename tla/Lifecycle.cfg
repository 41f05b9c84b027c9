SPECIFICATION Spec
CONSTANTS
    Plans <- TeamPlans
    Order <- TeamOrder
    DependsOn <- TeamDependsOn
    Conflict <- TeamConflict
    MaxWorkers = 2
    MaxAttempts = 1
    RoleAttempts = 1
    MaxRepair = 1
    EvidenceRounds = 1
    PlannerOutcome = {"ok", "invalid", "failed"}
    WorkerOutcome = {"ok", "blocked", "invalid", "failed"}
    EvaluatorOutcome = {"PASS", "unfounded", "NEEDS_REPAIR", "BLOCKED", "UNVERIFIED", "invalid", "failed"}
    Verification = {"passed", "failed", "environment"}
    MaxCrashes = 2
    MaxStops = 2
    MaxMoves = 1
INVARIANTS
    ValidRunState
    AgentsAreOwned
    WorkersDoNotCollide
    EvaluationIsFresh
    SuccessIsEarned
PROPERTIES
    StopIsAddressed
    TerminalIsFinal
CHECK_DEADLOCK FALSE
