SPECIFICATION FairSpec
CONSTANTS
    Plans <- PairPlans
    Order <- PairOrder
    DependsOn <- PairDependsOn
    Conflict = {}
    MaxWorkers = 1
    MaxAttempts = 2
    RoleAttempts = 2
    MaxRepair = 1
    EvidenceRounds = 1
    PlannerOutcome = {"ok"}
    WorkerOutcome = {"ok"}
    EvaluatorOutcome = {"PASS"}
    Verification = {"passed"}
    MaxCrashes = 1
    MaxStops = 0
    MaxMoves = 0
PROPERTIES
    InterruptionIsRecoverable
CHECK_DEADLOCK FALSE
