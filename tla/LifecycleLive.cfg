SPECIFICATION FairSpec
CONSTANTS
    Plans <- LivePlans
    Order <- LiveOrder
    DependsOn <- LiveDependsOn
    Conflict = {}
    MaxWorkers = 1
    MaxAttempts = 2
    RoleAttempts = 3
    MaxRepair = 1
    EvidenceRounds = 1
    PlannerOutcome = {"ok", "failed"}
    WorkerOutcome = {"ok", "failed"}
    EvaluatorOutcome = {"PASS", "NEEDS_REPAIR", "failed"}
    Verification = {"passed", "failed"}
    MaxCrashes = 1
    MaxStops = 1
    MaxMoves = 0
PROPERTIES
    
    StopEndsTheRun
CHECK_DEADLOCK FALSE
