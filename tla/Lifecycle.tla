----------------------------- MODULE Lifecycle -----------------------------
(***************************************************************************)
(* The life of a run under the Controller: planning, executing, global     *)
(* verification, evaluation and repair; the dispatch of Planner, Worker    *)
(* and Evaluator agents (allocation, durable intent, Provider start,       *)
(* handle binding); `vibe stop`; and what `vibe resume` recovers after the *)
(* Controller died between any two of these steps.                         *)
(*                                                                         *)
(* One step is one transaction on state.json or one effect outside it.     *)
(* The way of a verified Attempt into the run ref is one step here; the    *)
(* Integration module takes it apart.                                      *)
(***************************************************************************)
EXTENDS Integers, Sequences, FiniteSets, SequencesExt

CONSTANTS
    Plans,          \* Plans[v] is the set of tasks that plan version v introduces
    Order,          \* the tasks in topological order
    DependsOn,      \* depends_on of each task
    Conflict,       \* pairs of tasks with overlapping scopes or resources
    MaxWorkers,     \* max_workers
    MaxAttempts,    \* max_attempts of a task contract
    RoleAttempts,   \* max_attempts of the Planner and the Evaluator
    MaxRepair,      \* max_repair_rounds
    EvidenceRounds, \* evidence_rounds of the frozen configuration
    PlannerOutcome, WorkerOutcome, EvaluatorOutcome, \* how an agent may end
    Verification,   \* how the verification gate may end
    MaxCrashes,     \* bound: deaths of the Controller or of an agent
    MaxStops,       \* bound: `vibe stop` requests
    MaxMoves        \* bound: external movements of the run ref

Task == UNION {Plans[v] : v \in DOMAIN Plans}
Role == {"planner", "evaluator"}
Owner == Task \cup Role

\* "unfounded" is a PASS with evidence that its catalog does not have.
Verdict == {"PASS", "unfounded", "NEEDS_REPAIR", "BLOCKED", "UNVERIFIED"}

\* An agent without an end on record: it runs under its supervisor, is gone without its
\* receipts ("lost"), or poll and stop raise on what they find ("stuck").  One that is
\* only "forked" has no launch receipt yet.
Open == {"running", "lost", "stuck"}
AgentState == {"none", "forked", "failed", "invalid", "ok", "blocked"} \cup Verdict \cup Open

ASSUME PlansAssumption ==
    /\ Plans \in Seq(SUBSET Task) /\ Task \cap Role = {}
    /\ \A v, w \in DOMAIN Plans : v # w => Plans[v] \cap Plans[w] = {}
ASSUME OrderAssumption ==
    /\ Order \in Seq(Task) /\ Range(Order) = Task /\ IsInjective(Order)
    /\ DependsOn \in [Task -> SUBSET Task]
    /\ Conflict \subseteq Task \X Task
    /\ \A p \in Conflict : <<p[2], p[1]>> \in Conflict
ASSUME LimitsAssumption ==
    {MaxWorkers, MaxAttempts, RoleAttempts, MaxRepair, EvidenceRounds}
      \subseteq Nat \ {0}
ASSUME OutcomeAssumption ==
    /\ PlannerOutcome \subseteq {"ok", "invalid", "failed"}
    /\ WorkerOutcome \subseteq {"ok", "blocked", "invalid", "failed"}
    /\ EvaluatorOutcome \subseteq Verdict \cup {"invalid", "failed"}
    /\ Verification \subseteq {"passed", "failed", "environment"}
ASSUME BoundsAssumption == {MaxCrashes, MaxStops, MaxMoves} \subseteq Nat

VARIABLES
    \* state.json
    status, resume_status,
    last_error,          \* last_error is not null
    controller,          \* a Controller is registered
    plan_version, repair_round,
    task, failure_count,
    head,                \* integration_head, as the set of integrated tasks
    active,              \* roles with an active_attempt_token
    dispatch,            \* pending_dispatches: none, intent, or bound to a handle
    pending_evaluation, latest_evaluation,
    global_verification, \* heads with a bound global verification, at most one
    \* outside state.json
    stop_request,        \* control/stop.request: none, current or stale (its
                         \* controller_token), or receipted
    stopper,             \* the token a `vibe stop` has loaded: none, current or stale
    agent,               \* the agent of the owner's last Attempt
    astray,              \* owners with a Codex that outlived its supervisor
    refMoved,            \* the run ref is not at integration_head
    \* the Controller process
    pc,
    recovering,          \* inside _recover_locked
    todo,                \* selected tasks still without an Attempt
    queue,               \* owners whose dispatch is still to be made
    meta,                \* _evaluation_meta: evidence round of the Evaluator
    \* bounds
    crashes, stops, moves

phase    == <<status, resume_status, last_error>>
plan     == <<plan_version, repair_round>>
work     == <<task, failure_count, head>>
ledger   == <<active, dispatch>>
verdicts == <<pending_evaluation, latest_evaluation, global_verification>>
runState == <<phase, controller, plan, work, ledger, verdicts>>
memory   == <<recovering, todo, queue, meta>>
requests == <<stop_request, stopper>>
agents   == <<agent, astray>>
world    == <<requests, agents, refMoved>>
bounds   == <<crashes, stops, moves>>
vars     == <<runState, pc, memory, world, bounds>>

-----------------------------------------------------------------------------
Active == {"CREATED", "PLANNING", "EXECUTING", "GLOBAL_VERIFYING", "EVALUATING",
           "REPAIRING"}
Terminal == {"SUCCEEDED", "FAILED"}
Static == Terminal \cup {"PAUSED", "STOPPED"}

Planned == UNION {Plans[v] : v \in 1 .. plan_version}
In(S) == {t \in Planned : task[t] \in S}
Pending == {o \in Owner : dispatch[o] # "none"}
NoEvaluation == [verdict |-> "NONE", evidence_round |-> 0, head |-> {}]
Outcome(o) ==
    CASE o = "planner"   -> PlannerOutcome
      [] o = "evaluator" -> EvaluatorOutcome
      [] OTHER           -> WorkerOutcome

Evaluation == [verdict : Verdict \cup {"NONE"},
               evidence_round : 0 .. EvidenceRounds + 1, head : SUBSET Task]

Location == {"execute", "tick", "polling", "allocate", "intent", "start", "bind",
             "open_repair", "evidence_pause", "supplemental", "stop_agents",
             "unlink_stop", "recover_dispatches", "recover_stop",
             "recover_evaluation", "pause_after_exit", "restore", "down"}

TypeOK ==
    /\ status \in Active \cup Static
    /\ resume_status \in Active \cup {"NONE"}
    /\ last_error \in BOOLEAN /\ controller \in BOOLEAN
    /\ plan_version \in 0 .. Len(Plans) /\ repair_round \in 0 .. MaxRepair
    /\ task \in [Task -> {"UNPLANNED", "PENDING", "READY", "RUNNING", "VERIFYING",
                          "COMPLETED", "FAILED"}]
    /\ failure_count \in [Task -> 0 .. MaxAttempts]
    /\ head \subseteq Task
    /\ active \subseteq Role
    /\ dispatch \in [Owner -> {"none", "intent", "bound"}]
    /\ pending_evaluation \in Evaluation /\ latest_evaluation \in Evaluation
    /\ global_verification \subseteq SUBSET Task
    /\ stop_request \in {"none", "current", "stale", "receipted"}
    /\ stopper \in {"none", "current", "stale"}
    /\ agent \in [Owner -> AgentState] /\ astray \subseteq Owner
    /\ refMoved \in BOOLEAN
    /\ pc \in Location /\ recovering \in BOOLEAN
    /\ todo \subseteq Task /\ queue \in Seq(Owner)
    /\ meta \in 0 .. EvidenceRounds + 1
    /\ crashes \in 0 .. MaxCrashes
    /\ stops \in 0 .. MaxStops /\ moves \in 0 .. MaxMoves

Init ==
    /\ status = "CREATED" /\ resume_status = "NONE"
    /\ last_error = FALSE /\ controller = FALSE
    /\ plan_version = 0 /\ repair_round = 0
    /\ task = [t \in Task |-> "UNPLANNED"]
    /\ failure_count = [t \in Task |-> 0]
    /\ head = {} /\ active = {}
    /\ dispatch = [o \in Owner |-> "none"]
    /\ pending_evaluation = NoEvaluation /\ latest_evaluation = NoEvaluation
    /\ global_verification = {}
    /\ stop_request = "none" /\ stopper = "none"
    /\ agent = [o \in Owner |-> "none"] /\ astray = {}
    /\ refMoved = FALSE
    /\ pc = "execute" /\ recovering = FALSE
    /\ todo = {} /\ queue = <<>> /\ meta = 0
    /\ crashes = 0 /\ stops = 0 /\ moves = 0

-----------------------------------------------------------------------------
(***************************************************************************)
(* A transaction that validate_run_state refuses raises: state.json stays  *)
(* as it is and the process ends.                                          *)
(***************************************************************************)
Exit ==
    /\ pc' = "down"
    /\ recovering' = FALSE /\ todo' = {} /\ queue' = <<>> /\ meta' = 0

Raise == Exit /\ UNCHANGED <<runState, world, bounds>>

\* A tick consumes a stop request before it looks at the status.
Tick(s) == pc = "tick" /\ stop_request = "none" /\ status = s

\* _drive_locked returns on a static status; the Controller stays registered.
DriveEnds ==
    /\ pc = "tick" /\ status \in Static
    /\ Raise

\* `vibe run`: execute registers the Controller of the run it created.
Execute ==
    /\ pc = "execute"
    /\ controller' = TRUE
    /\ pc' = "tick"
    /\ UNCHANGED <<phase, plan, work, ledger, verdicts, memory, world, bounds>>

-----------------------------------------------------------------------------
(***************************************************************************)
(* Dispatch of an agent: allocation of the Attempt, durable intent,        *)
(* Provider.start, binding of the handle.                                  *)
(***************************************************************************)
Allocate(o) ==
    /\ queue' = <<o>>
    /\ pc' = "intent"
    /\ agent' = [agent EXCEPT ![o] = "none"]
    /\ UNCHANGED <<recovering, todo, requests, astray, refMoved>>

StartPlanner ==
    /\ \/ Tick("CREATED")
       \/ Tick("REPAIRING") /\ dispatch["planner"] = "none"
    /\ \/ /\ "planner" \notin active
          /\ active' = active \cup {"planner"}
          /\ status' = IF status = "CREATED" THEN "PLANNING" ELSE status
          /\ Allocate("planner")
          /\ UNCHANGED <<resume_status, last_error, controller, plan, work, dispatch,
                         verdicts, meta, bounds>>
       \/ "planner" \in active /\ Raise

\* The round counts on past EvidenceRounds; only "at the limit or past it" matters.
NextEvidenceRound ==
    IF latest_evaluation.verdict = "UNVERIFIED" /\ latest_evaluation.head = head
    THEN Min({latest_evaluation.evidence_round + 1, EvidenceRounds + 1})
    ELSE 0

StartEvaluator ==
    /\ Tick("EVALUATING")
    /\ pending_evaluation = NoEvaluation /\ dispatch["evaluator"] = "none"
    /\ active' = active \cup {"evaluator"}
    /\ meta' = NextEvidenceRound
    /\ Allocate("evaluator")
    /\ UNCHANGED <<phase, controller, plan, work, dispatch, verdicts, bounds>>

\* Scheduler.dispatchable: greedily, in topological order, the READY tasks that
\* overlap neither a task in flight nor one selected before, as long as a slot is free.
InFlight == In({"RUNNING", "VERIFYING"})
Earlier(S, t) ==
    {u \in S : \E m, n \in DOMAIN Order : m < n /\ Order[m] = u /\ Order[n] = t}

\* Mutant: tasks in flight reserve nothing.
DispatchableUnreserved(S) ==
    \A t \in Task :
        t \in S <=> /\ t \in In({"READY"})
                   /\ Cardinality(InFlight \cup Earlier(S, t)) < MaxWorkers
                   /\ \A u \in Earlier(S, t) : <<t, u>> \notin Conflict

Dispatchable(S) ==
    \A t \in Task :
        t \in S <=> LET taken == InFlight \cup Earlier(S, t)
                   IN  /\ t \in In({"READY"})
                       /\ Cardinality(taken) < MaxWorkers
                       /\ \A u \in taken : <<t, u>> \notin Conflict

Promotable ==
    {t \in In({"PENDING"}) : DependsOn[t] \subseteq In({"COMPLETED"})}

NothingToIntegrate == In({"VERIFYING"}) = {}
AllCompleted == Planned # {} /\ In({"COMPLETED"}) = Planned

PromoteReady ==
    /\ Tick("EXECUTING") /\ NothingToIntegrate /\ ~ AllCompleted
    /\ Promotable # {}
    /\ task' = [t \in Task |-> IF t \in Promotable THEN "READY" ELSE task[t]]
    /\ UNCHANGED <<phase, controller, plan, failure_count, head, ledger, verdicts, pc,
                   memory, world, bounds>>

StartWorkers ==
    /\ Tick("EXECUTING") /\ NothingToIntegrate /\ Promotable = {}
    /\ \E S \in SUBSET Task : S # {} /\ Dispatchable(S) /\ todo' = S
    /\ pc' = "allocate"
    /\ UNCHANGED <<runState, recovering, queue, meta, world, bounds>>

\* _start_workers allocates every selected task before it dispatches the first.
AllocateWorker ==
    /\ pc = "allocate"
    /\ \E t \in todo :
          /\ Earlier(todo, t) = {}
          /\ task' = [task EXCEPT ![t] = "RUNNING"]
          /\ agent' = [agent EXCEPT ![t] = "none"]
          /\ todo' = todo \ {t}
          /\ queue' = Append(queue, t)
    /\ pc' = IF todo' = {} THEN "intent" ELSE "allocate"
    /\ UNCHANGED <<phase, controller, plan, failure_count, head, ledger, verdicts,
                   recovering, meta, requests, astray, refMoved, bounds>>

\* bind_attempt_preflight and add_pending_dispatch; for a dispatch that recovery
\* starts the intent exists already.
PersistIntent ==
    /\ pc = "intent"
    /\ dispatch' = [dispatch EXCEPT ![Head(queue)] = "intent"]
    /\ pc' = "start"
    /\ UNCHANGED <<phase, controller, plan, work, active, verdicts, memory, world,
                   bounds>>

\* The wrapper of a start whose Controller died may still publish its launch receipt
\* while the second start waits for one: then the agent on record never gets its
\* activation and fails, and Codex runs under a supervisor that has no wrapper.
StartProvider ==
    /\ pc = "start"
    /\ \/ agent' = [agent EXCEPT ![Head(queue)] = "running"] /\ UNCHANGED astray
       \/ /\ agent[Head(queue)] = "forked"
          /\ agent' = [agent EXCEPT ![Head(queue)] = "failed"]
          /\ astray' = astray \cup {Head(queue)}
    /\ pc' = "bind"
    /\ UNCHANGED <<runState, memory, requests, refMoved, bounds>>

BindHandle ==
    /\ pc = "bind"
    /\ dispatch' = [dispatch EXCEPT ![Head(queue)] = "bound"]
    /\ queue' = Tail(queue)
    /\ pc' = IF queue' = <<>> THEN "tick" ELSE "intent"
    /\ UNCHANGED <<phase, controller, plan, work, active, verdicts, recovering, todo,
                   meta, world, bounds>>

-----------------------------------------------------------------------------
(***************************************************************************)
(* Polling.  poll and bind_completion raise without receipts, or with one  *)
(* that parse_exit_receipt refuses; parsing raises for invalid output.     *)
(***************************************************************************)
Uncompleted(o) == agent[o] \in {"lost", "stuck"}
PlanRefused == agent["planner"] = "invalid"
ResultRefused(t) == agent[t] = "invalid"
EvaluationRefused == agent["evaluator"] = "invalid"

Closed(o) ==
    /\ dispatch' = [dispatch EXCEPT ![o] = "none"]
    /\ active' = active \ {o}

\* _close_role_failure: failure_count was reset when the operation started.
CloseRoleFailure(o) ==
    /\ agent[o] = "failed"
    /\ Closed(o)
    /\ \/ /\ RoleAttempts = 1
          /\ status' = "FAILED" /\ last_error' = TRUE
       \/ /\ RoleAttempts > 1
          /\ UNCHANGED <<status, last_error>>
    /\ UNCHANGED <<resume_status, controller, plan, work, verdicts, pc, memory, world,
                   bounds>>

\* _accept_plan; Len(Plans) bounds how many plans the Planner has to offer.
AcceptPlan ==
    /\ agent["planner"] = "ok" /\ plan_version < Len(Plans)
    /\ Closed("planner")
    /\ plan_version' = plan_version + 1
    /\ task' = [t \in Task |-> IF t \in Plans[plan_version + 1] THEN "PENDING"
                               ELSE task[t]]
    /\ status' = "EXECUTING" /\ last_error' = FALSE
    /\ UNCHANGED <<resume_status, controller, repair_round, failure_count, head,
                   verdicts, pc, memory, world, bounds>>

PollPlanner ==
    /\ Tick("PLANNING") \/ Tick("REPAIRING")
    /\ dispatch["planner"] = "bound"
    /\ \/ AcceptPlan
       \/ CloseRoleFailure("planner")
       \/ (Uncompleted("planner") \/ PlanRefused) /\ Raise

\* _poll_evaluator: the verdict becomes the pending_evaluation marker.
PrepareEvaluation ==
    /\ agent["evaluator"] \in Verdict
    /\ Closed("evaluator")
    /\ pending_evaluation' = [verdict |-> agent["evaluator"],
                              evidence_round |-> meta, head |-> head]
    /\ UNCHANGED <<phase, controller, plan, work, latest_evaluation,
                   global_verification, pc, memory, world, bounds>>

PollEvaluator ==
    /\ Tick("EVALUATING")
    /\ pending_evaluation = NoEvaluation /\ dispatch["evaluator"] = "bound"
    /\ \/ PrepareEvaluation
       \/ CloseRoleFailure("evaluator")
       \/ (Uncompleted("evaluator") \/ EvaluationRefused) /\ Raise

(***************************************************************************)
(* A failed Attempt: the task is READY again or, at max_attempts, the task *)
(* and the run are FAILED, which validate_run_state refuses while anything *)
(* is pending or a resume_status is set.                                   *)
(***************************************************************************)
\* Mutant: the run fails while other dispatches are pending.
CloseFailedUnchecked(t, remaining) ==
    \/ /\ failure_count[t] + 1 < MaxAttempts
       /\ task' = [task EXCEPT ![t] = "READY"]
       /\ UNCHANGED <<status, last_error>>
    \/ /\ failure_count[t] + 1 >= MaxAttempts
       /\ resume_status = "NONE"
       /\ task' = [task EXCEPT ![t] = "FAILED"]
       /\ status' = "FAILED" /\ last_error' = TRUE

CloseFailed(t, remaining) ==
    \/ /\ failure_count[t] + 1 < MaxAttempts
       /\ task' = [task EXCEPT ![t] = "READY"]
       /\ UNCHANGED <<status, last_error>>
    \/ /\ failure_count[t] + 1 >= MaxAttempts
       /\ remaining = {} /\ resume_status = "NONE"
       /\ task' = [task EXCEPT ![t] = "FAILED"]
       /\ status' = "FAILED" /\ last_error' = TRUE

FailedRefused(t, remaining) ==
    /\ failure_count[t] + 1 >= MaxAttempts
    /\ remaining # {} \/ resume_status # "NONE"
    /\ Raise

AcceptResult(t) ==
    /\ agent[t] = "ok"
    /\ task' = [task EXCEPT ![t] = "VERIFYING"]
    /\ UNCHANGED <<phase, failure_count>>

PauseBlockedWorker(t) ==
    /\ agent[t] = "blocked"
    /\ task' = [task EXCEPT ![t] = "FAILED"]
    /\ status' = "PAUSED" /\ resume_status' = "EXECUTING" /\ last_error' = TRUE
    /\ UNCHANGED failure_count

FreezeFailedWorker(t) ==
    /\ agent[t] = "failed"
    /\ CloseFailed(t, Pending \ {t})
    /\ failure_count' = [failure_count EXCEPT ![t] = @ + 1]
    /\ UNCHANGED resume_status

(***************************************************************************)
(* _poll_workers goes through all bound Workers in one tick, so a later    *)
(* one is still handled after an earlier one paused the run.  Their order  *)
(* is that of random tokens.                                               *)
(***************************************************************************)
PollWorker(t) ==
    /\ Tick("EXECUTING") \/ pc = "polling"
    /\ dispatch[t] = "bound"
    /\ \/ /\ AcceptResult(t) \/ PauseBlockedWorker(t) \/ FreezeFailedWorker(t)
          /\ Closed(t)
          /\ pc' = "polling"
          /\ UNCHANGED <<controller, plan, head, verdicts, memory, world, bounds>>
       \/ agent[t] = "failed" /\ FailedRefused(t, Pending \ {t})
       \/ (Uncompleted(t) \/ ResultRefused(t)) /\ Raise

PollEnds ==
    /\ pc = "polling"
    /\ pc' = "tick"
    /\ UNCHANGED <<runState, memory, world, bounds>>

-----------------------------------------------------------------------------
(***************************************************************************)
(* A verified Attempt is integrated, or rejected and closed as failed (the *)
(* Integration module has the steps in between).                           *)
(***************************************************************************)
Integrate(t) ==
    /\ Tick("EXECUTING") /\ task[t] = "VERIFYING"
    /\ ~ refMoved
    /\ task' = [task EXCEPT ![t] = "COMPLETED"]
    /\ head' = head \cup {t}
    /\ last_error' = FALSE
    /\ UNCHANGED <<status, resume_status, controller, plan, failure_count, ledger,
                   verdicts, pc, memory, world, bounds>>

Reject(t) ==
    /\ Tick("EXECUTING") /\ task[t] = "VERIFYING"
    /\ \/ /\ CloseFailed(t, Pending)
          /\ failure_count' = [failure_count EXCEPT ![t] = @ + 1]
          /\ UNCHANGED <<resume_status, controller, plan, head, ledger, verdicts, pc,
                         memory, world, bounds>>
       \/ FailedRefused(t, Pending)

\* Mutant: a global verification on record is not repeated.
TasksCompletedTrusting ==
    /\ Tick("EXECUTING") /\ AllCompleted
    /\ status' = IF global_verification = {} THEN "GLOBAL_VERIFYING" ELSE "EVALUATING"
    /\ UNCHANGED <<resume_status, last_error, controller, plan, work, ledger, verdicts,
                   pc, memory, world, bounds>>

TasksCompleted ==
    /\ Tick("EXECUTING") /\ AllCompleted
    /\ status' = "GLOBAL_VERIFYING"
    /\ UNCHANGED <<resume_status, last_error, controller, plan, work, ledger, verdicts,
                   pc, memory, world, bounds>>

-----------------------------------------------------------------------------
(***************************************************************************)
(* Global verification, evaluation, repair.                                *)
(***************************************************************************)
AfterTick == IF recovering THEN "pause_after_exit" ELSE "tick"

\* _pause: refused unless the current status is one to resume to.
Pause ==
    \/ /\ status \in Active
       /\ status' = "PAUSED" /\ resume_status' = status /\ last_error' = TRUE
       /\ pc' = AfterTick
       /\ UNCHANGED <<controller, plan, work, ledger, verdicts, memory, world, bounds>>
    \/ status \notin Active /\ Raise


\* _open_repair, _fail.
OpenRepair ==
    /\ \/ /\ repair_round < MaxRepair
          /\ repair_round' = repair_round + 1
          /\ status' = "REPAIRING"
       \/ /\ repair_round >= MaxRepair
          /\ status' = "FAILED"
          /\ UNCHANGED repair_round
    /\ last_error' = TRUE
    /\ pc' = AfterTick
    /\ UNCHANGED <<resume_status, controller, plan_version, work, ledger, verdicts,
                   memory, world, bounds>>

RunGlobalVerification ==
    /\ Tick("GLOBAL_VERIFYING")
    /\ \/ refMoved /\ Pause
       \/ \E v \in Verification :
            /\ ~ refMoved
            /\ \/ v = "environment" /\ Pause
               \/ v = "failed" /\ OpenRepair
               \/ /\ v = "passed"
                  /\ global_verification' = {head}
                  /\ status' = "EVALUATING"
                  /\ UNCHANGED <<resume_status, last_error, controller, plan, work,
                                 ledger, pending_evaluation, latest_evaluation, pc,
                                 memory, world, bounds>>

\* goal_gate_satisfied, for an evaluation whose verdict is PASS.
GoalGate ==
    /\ AllCompleted
    /\ pending_evaluation.head = head
    /\ global_verification = {head}
    /\ Pending = {} /\ ~ last_error

PersistEvaluation(next) ==
    /\ latest_evaluation' = pending_evaluation
    /\ pending_evaluation' = NoEvaluation
    /\ status' = next
    /\ UNCHANGED <<controller, plan, work, ledger, global_verification, memory, world,
                   bounds>>

AcceptPass ==
    \/ refMoved /\ Pause
    \/ /\ ~ refMoved /\ GoalGate
       /\ PersistEvaluation("SUCCEEDED")
       /\ resume_status' = "NONE" /\ last_error' = FALSE
       /\ pc' = AfterTick
    \/ ~ refMoved /\ ~ GoalGate /\ Raise

\* Mutant: every verdict but BLOCKED and NEEDS_REPAIR passes, whatever its evidence.
AcceptUnverified ==
    /\ Tick("EVALUATING") \/ pc = "recover_evaluation"
    /\ pending_evaluation.verdict \in {"PASS", "unfounded", "UNVERIFIED"}
    /\ AcceptPass

\* _accept_pending_evaluation, from a tick or from recovery:
\* _validate_evaluation_evidence raises on a PASS without its evidence, and the
\* transactions that leave a resume_status behind in an active status are refused.
AcceptEvaluation ==
    /\ Tick("EVALUATING") \/ pc = "recover_evaluation"
    /\ pending_evaluation # NoEvaluation
    /\ \/ pending_evaluation.verdict = "PASS" /\ AcceptPass
       \/ pending_evaluation.verdict = "unfounded" /\ Raise
       \/ /\ pending_evaluation.verdict = "BLOCKED"
          /\ PersistEvaluation("PAUSED")
          /\ resume_status' = "EVALUATING" /\ last_error' = TRUE
          /\ pc' = AfterTick
       \/ /\ pending_evaluation.verdict = "NEEDS_REPAIR" /\ resume_status = "NONE"
          /\ PersistEvaluation("REPAIRING")
          /\ pc' = "open_repair"
          /\ UNCHANGED <<resume_status, last_error>>
       \/ /\ pending_evaluation.verdict = "UNVERIFIED" /\ resume_status = "NONE"
          /\ PersistEvaluation("EVALUATING")
          /\ \/ /\ pending_evaluation.evidence_round >= EvidenceRounds
                /\ pc' = "evidence_pause"
             \/ /\ pending_evaluation.evidence_round < EvidenceRounds
                /\ pc' \in {"supplemental", AfterTick}
          /\ UNCHANGED <<resume_status, last_error>>
       \/ /\ pending_evaluation.verdict \in {"NEEDS_REPAIR", "UNVERIFIED"}
          /\ resume_status # "NONE"
          /\ Raise

OpenRepairAfterEvaluation == pc = "open_repair" /\ OpenRepair
EvidenceExhausted == pc = "evidence_pause" /\ Pause

RunSupplemental ==
    /\ pc = "supplemental"
    /\ \/ refMoved /\ Pause
       \/ \E v \in Verification :
            /\ ~ refMoved
            /\ \/ v = "environment" /\ Pause
               \/ /\ v # "environment"
                  /\ pc' = AfterTick
                  /\ UNCHANGED <<runState, memory, world, bounds>>

-----------------------------------------------------------------------------
(***************************************************************************)
(* _consume_stop_request: in every tick, and in recovery.  A request of    *)
(* another Controller's token is answered with an IGNORED receipt, one     *)
(* that has its receipt is only unlinked.                                  *)
(***************************************************************************)
\* Mutant: only recovery looks for a stop request.
ConsumingInRecovery == pc = "recover_stop"

Consuming == pc = "recover_stop" \/ (pc = "tick" /\ status \in Active)

IgnoreStop ==
    /\ Consuming /\ stop_request = "stale"
    /\ stop_request' = "receipted"
    /\ pc' = "unlink_stop"
    /\ UNCHANGED <<runState, memory, stopper, agents, refMoved, bounds>>

UnlinkStop ==
    /\ pc = "unlink_stop" \/ (Consuming /\ stop_request = "receipted")
    /\ stop_request' = "none"
    /\ pc' = CASE ~ recovering       -> "tick"
               [] status = "STOPPED" -> "restore"
               [] OTHER              -> "recover_evaluation"
    /\ UNCHANGED <<runState, memory, stopper, agents, refMoved, bounds>>

\* Mutant: the controller_token is not compared.
BeginStopOfAny ==
    /\ Consuming /\ stop_request \in {"current", "stale"}
    /\ pc' = "stop_agents"
    /\ UNCHANGED <<runState, memory, world, bounds>>

BeginStop ==
    /\ Consuming /\ stop_request = "current"
    /\ pc' = "stop_agents"
    /\ UNCHANGED <<runState, memory, world, bounds>>

\* Mutant: only Planner and Evaluator are stopped.
UnstoppedRoles == {o \in Role : dispatch[o] = "bound" /\ agent[o] \in Open}

(***************************************************************************)
(* Provider.stop leaves an exit receipt, for an agent that vanished as     *)
(* well; Codex may ignore SIGTERM and outlive its supervisor.  It raises   *)
(* when the wrapper publishes its receipt at the same time, when the       *)
(* processes are not gone in time, and, every time again, on a receipt     *)
(* that parse_exit_receipt refuses (SIGTERM came after the exit code was   *)
(* decided) or an identity that is somebody else's by now.                 *)
(***************************************************************************)
Unstopped == {o \in Owner : dispatch[o] = "bound" /\ agent[o] \in Open}

StopReturns(o) ==
    /\ agent[o] # "stuck"
    /\ agent' = [agent EXCEPT ![o] = "failed"]
    /\ UNCHANGED <<runState, pc, memory, requests, refMoved, bounds>>

StopRaises(o) ==
    /\ \E r \in {"stuck"} \cup IF agent[o] = "running" THEN {"failed", "lost"} ELSE {} :
          agent' = [agent EXCEPT ![o] = r]
    /\ Exit
    /\ UNCHANGED <<runState, requests, refMoved, bounds>>

StopAgent(o) ==
    /\ pc = "stop_agents" /\ o \in Unstopped
    /\ StopReturns(o) \/ StopRaises(o)
    /\ \/ UNCHANGED astray
       \/ agent[o] = "running" /\ astray' = astray \cup {o}

\* Whoever has loaded the token of a Controller that is not registered any more.
Outdated(token) == IF token = "current" THEN "stale" ELSE token

\* Mutant: a run is stopped in any status.
PersistStopAnyway ==
    /\ pc = "stop_agents" /\ Unstopped = {}
    /\ task' = [t \in Task |-> IF t \in Pending THEN "READY" ELSE task[t]]
    /\ active' = active \ Pending
    /\ dispatch' = [o \in Owner |-> "none"]
    /\ status' = "STOPPED" /\ resume_status' = status
    /\ controller' = FALSE /\ last_error' = TRUE
    /\ stop_request' = "receipted" /\ stopper' = Outdated(stopper)
    /\ pc' = "unlink_stop"
    /\ UNCHANGED <<plan, failure_count, head, verdicts, memory, agents, refMoved, bounds>>

\* _persist_stop_outcome cancels every dispatch; refused unless the status is one to
\* resume to.
PersistStop ==
    /\ pc = "stop_agents" /\ Unstopped = {}
    /\ \/ /\ status \in Active
          /\ task' = [t \in Task |-> IF t \in Pending THEN "READY" ELSE task[t]]
          /\ active' = active \ Pending
          /\ dispatch' = [o \in Owner |-> "none"]
          /\ status' = "STOPPED" /\ resume_status' = status
          /\ controller' = FALSE /\ last_error' = TRUE
          /\ stop_request' = "receipted" /\ stopper' = Outdated(stopper)
          /\ pc' = "unlink_stop"
          /\ UNCHANGED <<plan, failure_count, head, verdicts, memory, agents, refMoved,
                         bounds>>
       \/ status \notin Active /\ Raise

-----------------------------------------------------------------------------
(***************************************************************************)
(* `vibe resume`: _recover_locked, then _restore_and_register_controller.  *)
(***************************************************************************)
Resume ==
    /\ pc = "down"
    /\ pc' = "recover_dispatches" /\ recovering' = TRUE
    /\ UNCHANGED <<runState, todo, queue, meta, world, bounds>>

\* _recover_dispatches binds an intent with a launch receipt to the handle in it, one
\* transaction per dispatch ...
Launched == {o \in Owner : dispatch[o] = "intent" /\ agent[o] \notin {"none", "forked"}}
BindRecoveredHandle(o) ==
    /\ pc = "recover_dispatches" /\ o \in Launched
    /\ dispatch' = [dispatch EXCEPT ![o] = "bound"]
    /\ UNCHANGED <<phase, controller, plan, work, active, verdicts, pc, memory, world,
                   bounds>>

NothingToRecover ==
    /\ \/ pc = "recover_dispatches" /\ Launched = {} /\ pc' = "recover_stop"
       \/ pc = "recover_stop" /\ stop_request = "none" /\ pc' = "recover_evaluation"
       \/ /\ pc = "recover_evaluation" /\ pending_evaluation = NoEvaluation
          /\ pc' = "pause_after_exit"
    /\ UNCHANGED <<runState, memory, world, bounds>>

\* ... and, once the Controller is registered, starts those without one.
Unlaunched == {o \in Owner : dispatch[o] = "intent"} \ Launched

\* A new token, or none, makes a request for the old one stale.
NewToken == stop_request' = Outdated(stop_request) /\ stopper' = Outdated(stopper)

\* pause_after_exit, and the end of resume for a terminal run.
PauseAfterExit ==
    /\ pc = "pause_after_exit"
    /\ \/ /\ status \in Active
          /\ status' = "PAUSED" /\ resume_status' = status
          /\ controller' = FALSE /\ last_error' = TRUE
          /\ NewToken
          /\ pc' = "restore"
          /\ UNCHANGED <<plan, work, ledger, verdicts, memory, agents, refMoved, bounds>>
       \/ /\ status \in {"PAUSED", "STOPPED"}
          /\ pc' = "restore"
          /\ UNCHANGED <<runState, memory, world, bounds>>
       \/ status \in Terminal /\ Raise

\* _restore_and_register_controller, before the second _recover_dispatches.
Restore ==
    /\ pc = "restore"
    /\ status' = resume_status /\ resume_status' = "NONE"
    /\ controller' = TRUE /\ last_error' = FALSE
    /\ NewToken
    /\ recovering' = FALSE
    /\ queue' = SetToSeq(Unlaunched)
    /\ pc' = IF queue' = <<>> THEN "tick" ELSE "intent"
    /\ UNCHANGED <<plan, work, ledger, verdicts, todo, meta, agents, refMoved, bounds>>

-----------------------------------------------------------------------------
(***************************************************************************)
(* The environment: the operator, the agents, the machine, other users.    *)
(***************************************************************************)
\* request_stop, by another process and without the run lock: it loads the token of the
\* registered Controller ...
LoadToken ==
    /\ controller /\ stopper = "none" /\ stops < MaxStops
    /\ stopper' = "current"
    /\ stops' = stops + 1
    /\ UNCHANGED <<runState, pc, memory, stop_request, agents, refMoved, crashes, moves>>

\* ... and writes its request, unless one is there already, which it returns.
RequestStop ==
    /\ stopper # "none"
    /\ stop_request' = IF stop_request = "none" THEN stopper ELSE stop_request
    /\ stopper' = "none"
    /\ UNCHANGED <<runState, pc, memory, agents, refMoved, bounds>>

AgentEnds(o) ==
    /\ agent[o] = "running"
    /\ \E r \in Outcome(o) : agent' = [agent EXCEPT ![o] = r]
    /\ UNCHANGED <<runState, pc, memory, requests, astray, refMoved, bounds>>

\* The wrapper dies without its receipt, or the supervisor, whose end the wrapper takes
\* for a failure; Codex may go on.
AgentLost(o) ==
    /\ agent[o] = "running" /\ crashes < MaxCrashes
    /\ crashes' = crashes + 1
    /\ \E r \in {"lost", "failed"} : agent' = [agent EXCEPT ![o] = r]
    /\ astray' \in {astray, astray \cup {o}}
    /\ UNCHANGED <<runState, pc, memory, requests, refMoved, stops, moves>>

AstrayEnds(o) ==
    /\ o \in astray
    /\ astray' = astray \ {o}
    /\ UNCHANGED <<runState, pc, memory, requests, agent, refMoved, bounds>>

\* The Controller dies.  Inside Provider.start the wrapper may be forked, and may have
\* published its launch receipt already; never activated, it fails, or is gone as well.
Crash ==
    /\ pc # "down" /\ crashes < MaxCrashes
    /\ crashes' = crashes + 1
    /\ Exit
    /\ \/ UNCHANGED agent
       \/ pc = "start" /\ \E r \in {"forked", "failed", "lost"} :
                            agent' = [agent EXCEPT ![Head(queue)] = r]
    /\ UNCHANGED <<runState, requests, astray, refMoved, stops, moves>>

\* Somebody moves the run ref away from integration_head, or back.
MoveRef ==
    /\ moves < MaxMoves
    /\ moves' = moves + 1
    /\ refMoved' = ~ refMoved
    /\ UNCHANGED <<runState, pc, memory, requests, agents, crashes, stops>>

-----------------------------------------------------------------------------
Dispatching ==
    \/ StartPlanner \/ StartEvaluator \/ PromoteReady \/ StartWorkers
    \/ AllocateWorker \/ PersistIntent \/ StartProvider \/ BindHandle

Polling ==
    \/ PollPlanner \/ PollEvaluator \/ PollEnds
    \/ \E t \in Task : PollWorker(t)

Closing(t) == Integrate(t) \/ Reject(t)

Judging ==
    \/ TasksCompleted \/ RunGlobalVerification \/ AcceptEvaluation
    \/ OpenRepairAfterEvaluation \/ EvidenceExhausted \/ RunSupplemental

Stopping ==
    \/ IgnoreStop \/ UnlinkStop \/ BeginStop \/ PersistStop
    \/ \E o \in Owner : StopAgent(o)

Recovering ==
    \/ NothingToRecover \/ PauseAfterExit \/ Restore
    \/ \E o \in Owner : BindRecoveredHandle(o)

Controller ==
    \/ Execute \/ DriveEnds \/ Dispatching \/ Polling \/ Judging \/ Stopping
    \/ Recovering \/ \E t \in Task : Closing(t)

Next ==
    \/ Controller \/ Resume \/ LoadToken \/ RequestStop \/ Crash \/ MoveRef
    \/ \E o \in Owner : AgentEnds(o) \/ AgentLost(o) \/ AstrayEnds(o)

Spec == Init /\ [][Next]_vars

(***************************************************************************)
(* Fairness: a live Controller keeps executing, an agent ends (the         *)
(* supervisor enforces its timeout), and the operator resumes a run whose  *)
(* Controller is gone.                                                     *)
(***************************************************************************)
FairSpec ==
    /\ Spec
    /\ WF_vars(Controller) /\ WF_vars(Resume)
    /\ \A o \in Owner : WF_vars(AgentEnds(o))

-----------------------------------------------------------------------------
(***************************************************************************)
(* Properties.                                                             *)
(***************************************************************************)

\* Everything the Controller commits passes validate_run_state: a resume_status
\* exists exactly while the run is PAUSED or STOPPED, a terminal run keeps no
\* pending work, and a dispatch belongs to the active Attempt of its owner, from
\* whatever combination of crash, stop and failure the transaction starts.
ValidRunState ==
    /\ (resume_status # "NONE") <=> (status \in {"PAUSED", "STOPPED"})
    /\ status \in Terminal => Pending = {} /\ pending_evaluation = NoEvaluation
    /\ \A o \in Pending : IF o \in Role THEN o \in active ELSE task[o] = "RUNNING"

\* No agent is written off before its end is on record: as long as it runs under its
\* supervisor, or poll and stop cannot tell how it ended, its dispatch is pending, so
\* that the next `vibe stop` or `vibe resume` finds it; a STOPPED or terminal run has
\* none (_consume_stop_request stops, or raises, before it persists).  A Codex that
\* outlives its supervisor (astray) is nobody's: the code does not look for it.
AgentsAreOwned ==
    /\ \A o \in Owner : agent[o] \in Open => o \in Pending
    /\ status \in Terminal \cup {"STOPPED"} => \A o \in Owner : agent[o] \notin Open

\* Two Workers never work on overlapping scopes or resources, and there are never
\* more than max_workers of them, however often the run was stopped and resumed.
WorkersDoNotCollide ==
    LET Working == {t \in Task : agent[t] = "running"}
    IN /\ Cardinality(InFlight) <= MaxWorkers /\ Working \subseteq InFlight
       /\ \A t, u \in InFlight : t # u => <<t, u>> \notin Conflict

\* An Evaluator judges only a head that was globally verified with every task of
\* every plan in it: a verification of the head before a repair does not count.
EvaluationIsFresh ==
    dispatch["evaluator"] # "none" \/ pending_evaluation # NoEvaluation =>
      /\ AllCompleted /\ global_verification = {head}
      /\ pending_evaluation # NoEvaluation => pending_evaluation.head = head

\* SUCCEEDED means the Goal Gate: every task integrated, that very head verified
\* and judged PASS.
SuccessIsEarned ==
    status = "SUCCEEDED" =>
      /\ AllCompleted /\ head = Planned /\ global_verification = {head}
      /\ latest_evaluation.verdict = "PASS" /\ latest_evaluation.head = head

\* A stop request stops the Controller it was addressed to, at most once: neither a
\* request for an earlier Controller nor one that has its receipt stops a run.
StopIsAddressed ==
    [][status' = "STOPPED" /\ status # "STOPPED" =>
         stop_request = "current" /\ stop_request' = "receipted"]_vars

\* SUCCEEDED and FAILED are final: whatever requests and restarts follow, neither
\* the status nor the integrated work changes.
TerminalIsFinal ==
    [][(status \in Terminal) => UNCHANGED <<status, plan, work, verdicts>>]_vars

(***************************************************************************)
(* The inductive invariant.  What a run is in: a PAUSED or STOPPED run is  *)
(* in the phase it will resume to.                                         *)
(***************************************************************************)
Phase == IF status \in {"PAUSED", "STOPPED"} THEN resume_status ELSE status

\* The owners that a phase dispatches.
InPhase(o) ==
    \/ o = "planner" /\ Phase \in {"PLANNING", "REPAIRING"}
    \/ o = "evaluator" /\ Phase = "EVALUATING"
    \/ o \in Task /\ Phase = "EXECUTING"

\* The owner's active Attempt is waiting for an agent.
Assigned(o) == IF o \in Role THEN o \in active ELSE task[o] = "RUNNING"

\* A dispatch belongs to the phase, and to an Attempt of its owner.
DispatchesMean == \A o \in Owner : dispatch[o] # "none" => InPhase(o) /\ Assigned(o)

StatusMeans ==
    /\ (resume_status # "NONE") <=> (status \in {"PAUSED", "STOPPED"})
    /\ status = "STOPPED" => \A o \in Owner : dispatch[o] = "none"

\* Exactly the COMPLETED tasks are integrated, and only tasks of accepted plans move.
TasksMean ==
    \A t \in Task :
        /\ (task[t] = "UNPLANNED") <=> (t \notin Planned)
        /\ (t \in head) <=> (task[t] = "COMPLETED")
        /\ failure_count[t] = MaxAttempts => task[t] = "FAILED"

\* What was verified and judged is what is integrated.
VerdictsMean ==
    /\ Phase \in {"GLOBAL_VERIFYING", "EVALUATING", "SUCCEEDED"} =>
         Planned # {} /\ \A t \in Planned : task[t] = "COMPLETED"
    /\ Phase \in {"EVALUATING", "SUCCEEDED"} => global_verification = {head}
    /\ pending_evaluation # NoEvaluation =>
         /\ Phase = "EVALUATING" /\ pending_evaluation.head = head
         /\ dispatch["evaluator"] = "none"
    /\ Phase = "SUCCEEDED" =>
         latest_evaluation.verdict = "PASS" /\ latest_evaluation.head = head

\* What each place of the Controller relies on.
PlaceMeans ==
    /\ pc \in {"intent", "start", "bind"} => status \in Active /\ queue # <<>>
    /\ pc \in {"start", "bind"} => dispatch[Head(queue)] = "intent"
    /\ pc = "allocate" => status = "EXECUTING"
    /\ pc \notin {"allocate", "intent", "start", "bind"} => queue = <<>>
    /\ pc # "allocate" => todo = {}
    /\ pc = "polling" => Phase \in {"EXECUTING", "FAILED"}
    /\ pc = "open_repair" =>
         status = "REPAIRING" /\ pending_evaluation = NoEvaluation /\ dispatch["planner"] = "none"
    /\ pc \in {"evidence_pause", "supplemental"} => status = "EVALUATING"
    /\ pc = "restore" => status \in {"PAUSED", "STOPPED"}
    /\ pc = "stop_agents" => stop_request = "current"

\* The owners in the queue are different ones, have their Attempt, and no agent yet.
QueueMeans ==
    /\ \A i \in DOMAIN queue :
         /\ InPhase(queue[i]) /\ Assigned(queue[i]) /\ dispatch[queue[i]] # "bound"
         /\ agent[queue[i]] \in Open => (i = 1 /\ pc = "bind")
         /\ queue[i] = "evaluator" => pending_evaluation = NoEvaluation
    /\ \A i, j \in DOMAIN queue : queue[i] = queue[j] => i = j

\* An agent without an end is on record; with its handle, unless the Controller is about
\* to bind it or died before it could.
AgentsMean ==
    \A o \in Owner :
        agent[o] \in Open =>
          /\ dispatch[o] # "none"
          /\ dispatch[o] = "intent" =>
               pc \in {"down", "recover_dispatches"} \/ (pc = "bind" /\ o = Head(queue))

\* Tasks in flight and those selected to be started next fit together.
SlotsMean ==
    /\ todo \subseteq In({"READY"})
    /\ Cardinality(InFlight \cup todo) <= MaxWorkers
    /\ \A t, u \in InFlight \cup todo : t # u => <<t, u>> \notin Conflict

IInv ==
    /\ TypeOK /\ DispatchesMean /\ StatusMeans /\ TasksMean /\ VerdictsMean /\ PlaceMeans
    /\ QueueMeans /\ AgentsMean /\ SlotsMean

\* `vibe stop` ends the run: once the Controller's request is on disk the run
\* becomes STOPPED, unless it ends or pauses by itself first, even if stopping an agent
\* raises and the Controller has to be resumed for it.  The exception is an agent on
\* which Provider.stop raises every time.
StopEndsTheRun ==
    (stop_request = "current" /\ status \in Active /\ pc # "down")
      ~> (status \in Static \/ \E o \in Owner : agent[o] = "stuck")

=============================================================================
