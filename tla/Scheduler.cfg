CONSTANTS
    Documents <- MCDocuments
    Paths <- MCPaths
    Catalog = {"tests", "lint"}
    required_command_ids <- MCCommands
    max_plan_tasks = 3
    max_workers = 2
    task_attempts = 2
    MaxPlans = 2
SPECIFICATION Spec
INVARIANT NoStaleWrite BaseHasDependencies CriteriaAreMet OrderIsLeast NeverStuck
PROPERTY GateOnlyGrows
CHECK_DEADLOCK FALSE
