----------------------------- MODULE Scheduler ------------------------------
(***************************************************************************)
(* Plans and the tasks they add: validate_plan, promote_ready and          *)
(* dispatchable of the Scheduler, with the two places that hold a Worker   *)
(* to its path scope, the audit of its worktree and the Integrator.        *)
(*                                                                         *)
(* The Planner answers with a document, the Scheduler accepts or refuses   *)
(* it; accepted tasks run side by side where scopes and resources allow,   *)
(* each from the integration head of its start, and are integrated one by  *)
(* one.  When all are COMPLETED the Evaluator may ask for a repair plan,   *)
(* whose tasks join the old ones.                                          *)
(*                                                                         *)
(* The Scheduler is held to every scope it accepts.  The parser of the     *)
(* Planner's answer, parse_result, lets fewer of them through.             *)
(*                                                                         *)
(* A path is the sequence of its components.  A scope is a path and        *)
(* whether it ends with "/"; "." is the directory with no component.       *)
(***************************************************************************)
EXTENDS Naturals, FiniteSets, SequencesExt

CONSTANTS
    Documents,              \* the documents a Planner may answer with
    Paths,                  \* the paths a Worker may change
    Catalog,                \* IDs of the command catalog of the frozen configuration
    required_command_ids,   \* those that always run, a sequence
    max_plan_tasks, max_workers, task_attempts,
    MaxPlans                \* bound: plans of a run (1 + max_repair_rounds)

Scope == [path : Seq(STRING), directory : BOOLEAN]
TaskContract ==
    [id : Nat \ {0}, depends_on : SUBSET Nat, covers : SUBSET STRING, path_scope : SUBSET Scope,
     exclusive_resources : SUBSET STRING, max_attempts : Nat]
PlanDocument ==
    [plan_version : Nat, acceptance_criteria : SUBSET STRING, global_verification : Seq(STRING),
     tasks : SUBSET TaskContract]

ASSUME InputAssumption ==
    /\ Documents \subseteq PlanDocument /\ \A d \in Documents : IsFiniteSet(d.tasks)
    /\ Paths \subseteq Seq(STRING) \ {<<>>}

ASSUME ConfigAssumption ==
    /\ required_command_ids \in Seq(Catalog) /\ IsInjective(required_command_ids)
    /\ {max_plan_tasks, max_workers, task_attempts, MaxPlans} \subseteq Nat \ {0}

VARIABLES
    status,         \* of the run
    plans,          \* the accepted documents
    tasks,          \* task ID -> its state
    integrated      \* the paths changed by the commits of the run ref, oldest first

vars == <<status, plans, tasks, integrated>>

-----------------------------------------------------------------------------
(***************************************************************************)
(* Scopes                                                                  *)
(***************************************************************************)
Root == [path |-> <<>>, directory |-> TRUE]

Control == {".vibe-coding", ".git"}

\* normalize_scope accepts the scope.
Normal(s) ==
    s = Root \/ /\ s.path # <<>>
                /\ ".." \notin ToSet(s.path)
                /\ Head(s.path) \notin Control

PathMatchesScope(p, s) ==
    IF s.directory THEN IsStrictPrefix(s.path, p) ELSE p = s.path

\* Mutant: a directory is compared with what the left task declares only.
ScopesOverlapLeft(left, right) ==
    \E l \in left, r \in right :
        \/ l.path = r.path
        \/ l.directory /\ PathMatchesScope(r.path, l)

\* A Root on either side contains the other's path or has the same.
ScopesOverlap(left, right) ==
    \E l \in left, r \in right :
        \/ l.path = r.path
        \/ l.directory /\ PathMatchesScope(r.path, l)
        \/ r.directory /\ PathMatchesScope(l.path, r)

\* WorktreeManager._validate_scope and _scope_contains, for one changed path.
ScopeContains(s, p) ==
    \/ ~ s.directory /\ p = s.path
    \/ s.directory /\ IsStrictPrefix(s.path, p)

Audited(t, p) ==
    /\ p[1] # ".vibe-coding"
    /\ \E s \in t.path_scope : ScopeContains(s, p)

\* Integrator._require_paths_in_scope
InScope(t, p) == \E s \in t.path_scope : PathMatchesScope(p, s)

-----------------------------------------------------------------------------
(***************************************************************************)
(* Plans                                                                   *)
(***************************************************************************)
\* IDs are positive numbers; TASK-nnn is ordered the same way.
Ids(ts) == {t.id : t \in ts}
AllTasks(ps) == UNION {ps[i].tasks : i \in DOMAIN ps}

\* The IDs whose dependencies were popped.
Poppable(ts, done) ==
    {t.id : t \in {u \in ts : /\ u.id \notin done
                             /\ u.depends_on \cap Ids(ts) \subseteq done}}

\* Mutant: the heap pops the largest ID.
PopLargest(ts, done) == IF Poppable(ts, done) = {} THEN 0 ELSE Max(Poppable(ts, done))

\* The heap pops the smallest; 0 says it is empty, which is a cycle.
Pop(ts, done) == IF Poppable(ts, done) = {} THEN 0 ELSE Min(Poppable(ts, done))

TopologicalOrder(ts) ==
    LET pop[n \in 1 .. Cardinality(Ids(ts))] == Pop(ts, {pop[m] : m \in 1 .. n - 1})
    IN  [n \in 1 .. Cardinality(Ids(ts)) |-> pop[n]]

\* Mutant: no dependency is looked for among the known tasks.
ValidateTaskUnknown(t, criteria, ids) ==
    /\ t.covers # {} /\ t.covers \subseteq criteria
    /\ t.path_scope # {} /\ \A s \in t.path_scope : Normal(s)
    /\ Root \in t.path_scope => t.path_scope = {Root}
    /\ t.max_attempts \in 1 .. task_attempts

ValidateTask(t, criteria, ids) ==
    /\ t.covers # {} /\ t.covers \subseteq criteria
    /\ t.id \notin t.depends_on /\ t.depends_on \subseteq ids
    /\ t.path_scope # {} /\ \A s \in t.path_scope : Normal(s)
    /\ Root \in t.path_scope => t.path_scope = {Root}
    /\ t.max_attempts \in 1 .. task_attempts

\* resolve_command_ids
Resolves(ids) == IsInjective(ids) /\ ToSet(ids) \subseteq Catalog

\* dict.fromkeys of two sequences keeps the first of equal entries.
Keep(keys, c) == IF c \in ToSet(keys) THEN keys ELSE Append(keys, c)

Merge(ids, more) ==
    LET keys[n \in 0 .. Len(more)] == IF n = 0 THEN ids ELSE Keep(keys[n - 1], more[n])
    IN  keys[Len(more)]

\* Mutant: the commands of the last plan replace those of the plans before it.
LastGlobalVerification(ps) ==
    IF ps = <<>> THEN required_command_ids
    ELSE Merge(required_command_ids, ps[Len(ps)].global_verification)

EffectiveGlobalVerification(ps) ==
    LET gate[n \in 0 .. Len(ps)] ==
          IF n = 0 THEN required_command_ids
          ELSE Merge(gate[n - 1], ps[n].global_verification)
    IN  gate[Len(ps)]

\* Mutant: a repair plan states its own criteria.
ValidateAcceptanceAlone(d, prior) == d.acceptance_criteria # {}

ValidateAcceptance(d, prior) ==
    /\ d.acceptance_criteria # {}
    /\ prior # <<>> => d.acceptance_criteria = prior[1].acceptance_criteria

\* Scheduler.validate_plan
ValidatePlan(d, prior) ==
    LET old == AllTasks(prior)
        all == old \cup d.tasks
    IN  /\ d.plan_version = Len(prior) + 1
        /\ ValidateAcceptance(d, prior)
        /\ Cardinality(old) + Cardinality(d.tasks) <= max_plan_tasks
        /\ Cardinality(Ids(d.tasks)) = Cardinality(d.tasks)
        /\ Ids(d.tasks) \cap Ids(old) = {}
        /\ \A t \in d.tasks : ValidateTask(t, d.acceptance_criteria, Ids(all))
        /\ 0 \notin ToSet(TopologicalOrder(all))
        /\ d.acceptance_criteria \subseteq UNION {t.covers : t \in all}
        /\ Resolves(d.global_verification)

-----------------------------------------------------------------------------
(***************************************************************************)
(* The run                                                                 *)
(***************************************************************************)
InFlight == {i \in DOMAIN tasks : tasks[i].status \in {"RUNNING", "READY_TO_INTEGRATE"}}
Having(st) == {i \in DOMAIN tasks : tasks[i].status = st}
Contract(i) == CHOOSE t \in AllTasks(plans) : t.id = i
Order == TopologicalOrder(AllTasks(plans))

TaskState ==
    [status : {"PENDING", "READY", "RUNNING", "READY_TO_INTEGRATE", "COMPLETED", "FAILED"},
     failure_count : Nat, base : Nat, delta : Paths \cup {<<>>}]

TypeOK ==
    /\ status \in {"PLANNING", "EXECUTING", "GLOBAL_VERIFYING", "FAILED"}
    /\ plans \in Seq(PlanDocument)
    /\ tasks \in [Ids(AllTasks(plans)) -> TaskState]
    /\ integrated \in Seq(Paths)

Init ==
    /\ status = "PLANNING" /\ plans = <<>>
    /\ tasks = <<>> /\ integrated = <<>>

\* new_task_state
NewTask == [status |-> "PENDING", failure_count |-> 0, base |-> 0, delta |-> <<>>]

\* _accept_plan
AcceptPlan(d) ==
    /\ status = "PLANNING" /\ ValidatePlan(d, plans)
    /\ plans' = Append(plans, d)
    /\ tasks' = [i \in DOMAIN tasks \cup Ids(d.tasks) |->
                   IF i \in DOMAIN tasks THEN tasks[i] ELSE NewTask]
    /\ status' = "EXECUTING"
    /\ UNCHANGED integrated

\* The audit passes; prepare_source_commit and its swap are those of Integration.
WorkerEnds(i, p) ==
    /\ status = "EXECUTING" /\ tasks[i].status = "RUNNING"
    /\ Audited(Contract(i), p)
    /\ tasks' = [tasks EXCEPT ![i].status = "READY_TO_INTEGRATE", ![i].delta = p]
    /\ UNCHANGED <<status, plans, integrated>>

\* close_attempt of a failed Attempt, and of a candidate that is rejected.  A run that has
\* FAILED keeps no pending dispatch: until the other Workers have ended, the transaction
\* that gives a task up is refused.
Fail(i) ==
    LET n == tasks[i].failure_count + 1
        left == n < Contract(i).max_attempts
    IN  /\ left \/ Having("RUNNING") \subseteq {i}
        /\ tasks' = [tasks EXCEPT ![i].failure_count = n, ![i].delta = <<>>,
                                  ![i].status = IF left THEN "READY" ELSE "FAILED"]
        /\ status' = IF left THEN status ELSE "FAILED"
        /\ UNCHANGED <<plans, integrated>>

WorkerFails(i) == status = "EXECUTING" /\ tasks[i].status = "RUNNING" /\ Fail(i)

\* _execute_tasks: one integration a tick, of the smallest ID ...
Integrate ==
    /\ status = "EXECUTING"
    /\ \E i \in Having("READY_TO_INTEGRATE") :
          /\ \A j \in Having("READY_TO_INTEGRATE") : i <= j
          /\ \/ /\ InScope(Contract(i), tasks[i].delta)
                /\ tasks' = [tasks EXCEPT ![i].status = "COMPLETED"]
                /\ integrated' = Append(integrated, tasks[i].delta)
                /\ UNCHANGED <<status, plans>>
             \/ Fail(i)

\* ... then the end of the round ...
FinishRound ==
    /\ status = "EXECUTING" /\ Having("COMPLETED") = DOMAIN tasks
    /\ status' = "GLOBAL_VERIFYING"
    /\ UNCHANGED <<plans, tasks, integrated>>

\* Mutant: a dependency that has been started is good enough.
PromotableStarted ==
    {i \in Having("PENDING") : \A j \in Contract(i).depends_on : tasks[j].status # "PENDING"}

\* ... then promote_ready ...
Promotable ==
    {i \in Having("PENDING") : Contract(i).depends_on \subseteq Having("COMPLETED")}

PromoteReady ==
    /\ status = "EXECUTING" /\ Having("READY_TO_INTEGRATE") = {}
    /\ Promotable # {}
    /\ tasks' = [i \in DOMAIN tasks |-> IF i \in Promotable
                                       THEN [tasks[i] EXCEPT !.status = "READY"]
                                       ELSE tasks[i]]
    /\ UNCHANGED <<status, plans, integrated>>

\* ... and at last dispatchable: READY tasks in topological order, each apart from the
\* tasks in flight and from those selected before it.
Apart(i, j) ==
    LET t == Contract(i) u == Contract(j)
    IN  /\ ~ ScopesOverlap(t.path_scope, u.path_scope)
        /\ t.exclusive_resources \cap u.exclusive_resources = {}

\* Those of a set that are before i in the topological order.
Earlier(S, i) ==
    {j \in S : \E n \in DOMAIN Order : Order[n] = i /\ \E m \in 1 .. n - 1 : Order[m] = j}

Dispatchable(S) ==
    \A i \in ToSet(Order) :
        i \in S <=> LET taken == InFlight \cup Earlier(S, i)
                   IN  /\ tasks[i].status = "READY"
                       /\ Cardinality(taken) < max_workers
                       /\ \A j \in taken : Apart(i, j)

Selection == {S \in SUBSET ToSet(Order) : Dispatchable(S)}

\* start_attempt: the base is the integration head.
StartWorkers ==
    /\ status = "EXECUTING" /\ Having("READY_TO_INTEGRATE") = {} /\ Promotable = {}
    /\ \E selected \in Selection \ {{}} :
          tasks' = [i \in DOMAIN tasks |->
                      IF i \in selected
                        THEN [tasks[i] EXCEPT !.status = "RUNNING", !.base = Len(integrated)]
                        ELSE tasks[i]]
    /\ UNCHANGED <<status, plans, integrated>>

\* The Evaluator asks for a repair.
Repair ==
    /\ status = "GLOBAL_VERIFYING" /\ Len(plans) < MaxPlans
    /\ status' = "PLANNING"
    /\ UNCHANGED <<plans, tasks, integrated>>

Next ==
    \/ \E d \in Documents : AcceptPlan(d)
    \/ Integrate \/ FinishRound \/ PromoteReady \/ StartWorkers \/ Repair
    \/ \E i \in DOMAIN tasks : WorkerFails(i) \/ \E p \in Paths : WorkerEnds(i, p)

Spec == Init /\ [][Next]_vars

-----------------------------------------------------------------------------
(***************************************************************************)
(* Properties                                                              *)
(***************************************************************************)
\* Between rounds there is nothing left to do.
RoundIsOver ==
    status \in {"PLANNING", "GLOBAL_VERIFYING"} => Having("COMPLETED") = DOMAIN tasks

\* A change is on record from the audit on, and on the run ref once its task is COMPLETED.
DeltaIsKept ==
    \A i \in DOMAIN tasks :
        /\ tasks[i].status = "READY_TO_INTEGRATE" =>
             tasks[i].delta # <<>> /\ Audited(Contract(i), tasks[i].delta)
        /\ tasks[i].status = "COMPLETED" => tasks[i].delta \in ToSet(integrated)
        /\ tasks[i].status \in {"PENDING", "READY", "RUNNING", "FAILED"} => tasks[i].delta = <<>>

\* Tasks in flight are apart from each other, and from what came after their base.
ReservationsHold ==
    /\ \A i, j \in InFlight : i # j => Apart(i, j)
    /\ \A i \in InFlight :
         /\ tasks[i].base <= Len(integrated)
         /\ \A n \in tasks[i].base + 1 .. Len(integrated) :
              \A s \in Contract(i).path_scope : ~ ScopeContains(s, integrated[n])

DependenciesHold ==
    /\ \A i \in Having("READY") \cup InFlight : Contract(i).depends_on \subseteq Having("COMPLETED")
    /\ \A i \in InFlight : \A j \in Contract(i).depends_on :
         \E n \in 1 .. tasks[i].base : integrated[n] = tasks[j].delta

CriteriaHold ==
    \A n \in DOMAIN plans :
        /\ plans[n].acceptance_criteria = plans[1].acceptance_criteria
        /\ plans[n].acceptance_criteria \subseteq UNION {t.covers : t \in AllTasks(plans)}

\* The inductive invariant: the reservations of dispatchable, the dependencies of
\* promote_ready and the criteria of validate_plan outlive every step.
IInv ==
    /\ TypeOK /\ RoundIsOver /\ DeltaIsKept
    /\ ReservationsHold /\ DependenciesHold /\ CriteriaHold

\* The accepted plans are one graph that the heap empties, and a run goes on only while
\* none of its tasks is given up.
GraphHolds ==
    /\ IsFiniteSet(AllTasks(plans))
    /\ \A t, u \in AllTasks(plans) : t.id = u.id => t = u
    /\ \A t \in AllTasks(plans) : t.depends_on \subseteq Ids(AllTasks(plans))
    /\ 0 \notin ToSet(Order)

NoneGivenUp == status = "EXECUTING" => Having("FAILED") = {}

GateHolds == Resolves(EffectiveGlobalVerification(plans))

\* Inductive, as is GateHolds, together with IInv.
GraphInv == GraphHolds /\ NoneGivenUp

\* The commits a Worker did not see cannot conflict with its own: no path that it
\* changes was changed on the run ref after its base was taken, nor is being changed by
\* another one in flight (scopes_overlap, dispatchable, _validate_scope).
NoStaleWrite ==
    \A i \in InFlight :
        tasks[i].delta # <<>> =>
          /\ \A n \in tasks[i].base + 1 .. Len(integrated) : integrated[n] # tasks[i].delta
          /\ \A j \in InFlight \ {i} : tasks[j].delta # tasks[i].delta

\* A task runs from a head that holds the changes of everything it depends on, whichever
\* plan added it (promote_ready, validate_plan).
BaseHasDependencies ==
    \A i \in InFlight : \A j \in Contract(i).depends_on :
        /\ tasks[j].status = "COMPLETED"
        /\ \E n \in 1 .. tasks[i].base : integrated[n] = tasks[j].delta

\* What global verification and the Evaluator judge is complete: each criterion of the
\* first plan is covered by a task whose change is on the run ref, and no repair plan has
\* traded criteria (_validate_acceptance, validate_plan).
CriteriaAreMet ==
    status = "GLOBAL_VERIFYING" =>
      \A n \in DOMAIN plans :
        /\ plans[n].acceptance_criteria = plans[1].acceptance_criteria
        /\ \A c \in plans[n].acceptance_criteria : \E t \in AllTasks(plans) :
              c \in t.covers /\ tasks[t.id].delta \in ToSet(integrated)

\* The order of tasks is the least of all orders that put dependencies first
\* (_topological_order), whatever the plans the tasks come from.
Before(s, t) == \E n \in DOMAIN s : /\ \A m \in 1 .. n - 1 : s[m] = t[m]
                                    /\ s[n] < t[n]
OrderIsLeast ==
    LET ids == DOMAIN tasks
        order == Order
        sorted == {s \in [1 .. Cardinality(ids) -> ids] :
                     /\ ToSet(s) = ids
                     /\ \A m, n \in DOMAIN s :
                           s[n] \in Contract(s[m]).depends_on => n < m}
    IN  order \in sorted /\ \A s \in sorted \ {order} : Before(order, s)

\* A plan may add to the gate and never takes from it: the commands that verified one
\* round verify the next, in their order, after the required ones
\* (effective_global_verification).
GateOnlyGrows ==
    [][/\ IsPrefix(EffectiveGlobalVerification(plans), EffectiveGlobalVerification(plans'))
       /\ Resolves(EffectiveGlobalVerification(plans'))]_vars

\* A plan that was accepted can be carried out: with no Worker in flight the round is
\* over, or a task can be promoted or started (validate_plan, promote_ready,
\* dispatchable).  Each of these steps happens a bounded number of times.
NeverStuck ==
    status = "EXECUTING" /\ InFlight = {} =>
      Having("COMPLETED") = DOMAIN tasks \/ Promotable # {} \/ Selection \ {{}} # {}

=============================================================================
