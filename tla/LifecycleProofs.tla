-------------------------- MODULE LifecycleProofs ---------------------------
(***************************************************************************)
(* Proofs about the life of a run, for any plans, limits and numbers of    *)
(* crashes, stops and movements of the run ref: what the Controller        *)
(* commits is valid, agents are owned, Workers do not collide, and success *)
(* is earned.                                                              *)
(***************************************************************************)
EXTENDS Lifecycle, SequenceTheorems, FiniteSetTheorems, TLAPS

USE DEF phase, plan, work, ledger, verdicts, runState, memory, requests, agents, world, bounds,
        Open

LEMMA TaskIsFinite == IsFiniteSet(Task) /\ IsFiniteSet(Owner)
<1>1. Order \in Surjection(1 .. Len(Order), Task) /\ Len(Order) \in Nat
  BY OrderAssumption, LenProperties, ElementOfSeq DEF Range, Surjection
<1>2. IsFiniteSet(Task)
  BY <1>1, FS_Interval, FS_Surjection
<1>3. IsFiniteSet(Role)
  <2>1. Role = ({} \cup {"planner"}) \cup {"evaluator"}
    BY DEF Role
  <2> QED
    BY <2>1, FS_EmptySet, FS_AddElement
<1> QED
  BY <1>2, <1>3, FS_Union DEF Owner

\* A set of tasks has one that comes last in the order.
LEMMA LastTask ==
    ASSUME NEW S \in SUBSET Task, S # {}
    PROVE  \E t \in S : Earlier(S, t) = S \ {t}
<1> DEFINE n == Len(Order)
           after(i) == i .. n
           T == {after(i) : i \in {k \in 1 .. n : Order[k] \in S}}
<1>1. n \in Nat /\ Order \in [1 .. n -> Task] /\ DOMAIN Order = 1 .. n
  BY OrderAssumption, LenProperties
<1>2. \A t \in Task : \E k \in 1 .. n : Order[k] = t
  BY <1>1, OrderAssumption DEF Range
<1>3. T \subseteq FiniteSubsetsOf(1 .. n)
  <2>1. \A i \in 1 .. n : IsFiniteSet(after(i)) /\ after(i) \subseteq 1 .. n
    BY <1>1, FS_Interval
  <2> QED
    BY <2>1 DEF FiniteSubsetsOf
<1>4. T # {}
  BY <1>2
<1>5. PICK x \in T : \A y \in T : <<y, x>> \notin StrictSubsetOrdering(1 .. n)
  BY <1>3, <1>4, FS_StrictSubsetOrderingWellFounded, WFMin
<1>6. PICK i \in 1 .. n : Order[i] \in S /\ x = after(i)
  BY <1>5
<1>7. ASSUME NEW k \in 1 .. n, Order[k] \in S, k > i  PROVE FALSE
  <2>1. after(k) \in T /\ after(k) \subseteq 1 .. n /\ after(i) \subseteq 1 .. n
    BY <1>7, <1>1
  <2>2. after(k) \subseteq after(i) /\ i \in after(i) /\ i \notin after(k)
    BY <1>7, <1>1
  <2>3. <<after(k), after(i)>> \in StrictSubsetOrdering(1 .. n)
    BY <2>1, <2>2 DEF StrictSubsetOrdering
  <2> QED
    BY <2>1, <2>3, <1>5, <1>6
<1> HIDE DEF T, n
<1>8. ASSUME NEW u \in S, u # Order[i]
      PROVE  u \in Earlier(S, Order[i])
  <2>1. PICK k \in 1 .. n : Order[k] = u
    BY <1>2
  <2>2. k < i
    BY <2>1, <1>7, <1>8, <1>1
  <2> QED
    BY <2>1, <2>2, <1>1 DEF Earlier
<1>9. Order[i] \notin Earlier(S, Order[i])
  BY <1>1, OrderAssumption DEF Earlier, IsInjective
<1> QED
  BY <1>6, <1>8, <1>9 DEF Earlier

\* The queue that recovery starts from: each owner once.
LEMMA SetToSeqOnce ==
    ASSUME NEW S \in SUBSET Owner
    PROVE  /\ SetToSeq(S) \in Seq(Owner) /\ \A i \in DOMAIN SetToSeq(S) : SetToSeq(S)[i] \in S
           /\ IsInjective(SetToSeq(S))
<1>1. IsFiniteSet(S)
  BY TaskIsFinite, FS_Subset
<1>2. Cardinality(S) \in Nat /\ \E f \in [1 .. Cardinality(S) -> S] : IsInjective(f)
  BY <1>1, FS_CardinalityType DEF ExistsBijection, Bijection, Injection
<1>3. SetToSeq(S) \in [1 .. Cardinality(S) -> S] /\ IsInjective(SetToSeq(S))
  BY <1>2 DEF SetToSeq
<1>4. SetToSeq(S) \in [1 .. Cardinality(S) -> Owner]
  BY <1>3
<1>5. SetToSeq(S) \in Seq(Owner)
  BY <1>2, <1>4, SeqDef
<1> QED
  BY <1>3, <1>5

-----------------------------------------------------------------------------
(***************************************************************************)
(* What steps that leave a part of the state alone keep.                   *)
(***************************************************************************)

\* Nothing in the queue.
LEMMA EmptyQueue ==
    ASSUME queue' = <<>>
    PROVE  QueueMeans'
<1>1. DOMAIN queue' = {}
  BY EmptySeq, LenProperties
<1> QED
  BY <1>1 DEF QueueMeans

LEMMA PlannedAreTasks ==
    ASSUME TypeOK
    PROVE  Planned \subseteq Task
BY LenProperties, PlansAssumption DEF TypeOK, Planned, Task

\* Tasks that leave the slots, and those that move from selected to in flight, keep
\* what the others were given.
LEMMA SlotsShrink ==
    ASSUME IInv, todo' \subseteq In({"READY"})',
           (InFlight \cup todo)' \subseteq InFlight \cup todo
    PROVE  SlotsMean'
<1>1. InFlight \cup todo \subseteq Task
  BY PlannedAreTasks DEF IInv, TypeOK, InFlight, In
<1>2. IsFiniteSet(InFlight \cup todo)
  BY <1>1, TaskIsFinite, FS_Subset
<1>3. Cardinality((InFlight \cup todo)') <= Cardinality(InFlight \cup todo)
  BY <1>2, FS_Subset
<1>4. /\ Cardinality(InFlight \cup todo) \in Nat /\ Cardinality((InFlight \cup todo)') \in Nat
      /\ MaxWorkers \in Nat
  BY <1>2, FS_Subset, FS_CardinalityType, LimitsAssumption
<1>5. Cardinality((InFlight \cup todo)') <= MaxWorkers
  BY <1>3, <1>4 DEF IInv, SlotsMean
<1> QED
  BY <1>5 DEF IInv, SlotsMean

\* Tasks unchanged, nothing selected.
LEMMA SlotsFrame ==
    ASSUME IInv, UNCHANGED <<plan_version, task>>, todo' \subseteq todo
    PROVE  SlotsMean'
<1>1. In({"READY"})' = In({"READY"}) /\ InFlight' = InFlight
  BY DEF In, InFlight, Planned
<1> QED
  BY <1>1, SlotsShrink DEF IInv, SlotsMean

\* A step that commits nothing.
LEMMA RunFrame ==
    ASSUME IInv, UNCHANGED runState
    PROVE  DispatchesMean' /\ StatusMeans' /\ TasksMean' /\ VerdictsMean'
<1>1. DispatchesMean' /\ StatusMeans'
  BY DEF IInv, DispatchesMean, StatusMeans, InPhase, Assigned, Phase
<1>2. TasksMean' /\ VerdictsMean'
  BY DEF IInv, TasksMean, VerdictsMean, Phase, Planned
<1> QED
  BY <1>1, <1>2

\* The process ends, by an exception or a crash, and with it perhaps an agent; one that is
\* open then is on record.
LEMMA ExitKeeps ==
    ASSUME IInv, Exit, UNCHANGED <<runState, requests, refMoved, stops, moves>>,
           crashes' \in 0 .. MaxCrashes, astray' \subseteq Owner,
           agent' \in [Owner -> AgentState],
           \A o \in Owner : agent'[o] \in Open => agent[o] \in Open \/ dispatch[o] # "none"
    PROVE  IInv'
<1>1. TypeOK'
  <2>1. 0 \in 0 .. EvidenceRounds + 1 /\ <<>> \in Seq(Owner)
    BY EmptySeq, LimitsAssumption
  <2> QED
    BY <2>1 DEF IInv, TypeOK, Location, Exit
<1>2. DispatchesMean' /\ StatusMeans' /\ TasksMean' /\ VerdictsMean'
  BY RunFrame
<1>3. PlaceMeans'
  BY DEF PlaceMeans, Exit
<1>4. QueueMeans'
  BY EmptyQueue DEF Exit
<1>5. AgentsMean'
  BY DEF IInv, TypeOK, AgentsMean, Exit
<1>6. SlotsMean'
  BY SlotsFrame DEF Exit
<1> QED
  BY <1>1, <1>2, <1>3, <1>4, <1>5, <1>6 DEF IInv

LEMMA RaiseKeeps ==
    ASSUME IInv, Raise
    PROVE  IInv'
BY ExitKeeps DEF Raise, IInv, TypeOK

\* A step that commits nothing and leaves the queue and the agents alone.
LEMMA PlaceFrame ==
    ASSUME IInv, UNCHANGED <<runState, todo, queue>>,
           pc \notin {"bind", "down", "recover_dispatches"},
           \A o \in Owner : agent'[o] \in Open => agent[o] \in Open,
           TypeOK', PlaceMeans'
    PROVE  IInv'
<1>1. DispatchesMean' /\ StatusMeans' /\ TasksMean' /\ VerdictsMean'
  BY RunFrame
<1>2. QueueMeans'
  BY DEF IInv, TypeOK, QueueMeans, InPhase, Assigned, Phase
<1>3. AgentsMean'
  BY DEF IInv, AgentsMean
<1>4. SlotsMean'
  BY SlotsFrame
<1> QED
  BY <1>1, <1>2, <1>3, <1>4 DEF IInv

-----------------------------------------------------------------------------
(***************************************************************************)
(* The first state, and dispatch.                                          *)
(***************************************************************************)
LEMMA InitHolds == Init => IInv
<1> SUFFICES ASSUME Init  PROVE IInv
  OBVIOUS
<1>1. Planned = {} /\ In({"READY"}) = {} /\ InFlight = {}
  BY PlansAssumption DEF Init, Planned, In, InFlight
<1>2. NoEvaluation \in Evaluation
  BY LimitsAssumption DEF NoEvaluation, Evaluation
<1>3. TypeOK
  <2>1. 0 \in 0 .. Len(Plans) /\ <<>> \in Seq(Owner)
    BY EmptySeq, LenProperties, PlansAssumption
  <2>2. /\ 0 \in 0 .. MaxAttempts /\ 0 \in 0 .. MaxRepair /\ 0 \in 0 .. EvidenceRounds + 1
        /\ 0 \in 0 .. MaxCrashes /\ 0 \in 0 .. MaxStops /\ 0 \in 0 .. MaxMoves
    BY LimitsAssumption, BoundsAssumption
  <2> QED
    BY <1>2, <2>1, <2>2 DEF Init, TypeOK, Location, Active, AgentState
<1>4. DispatchesMean /\ StatusMeans /\ AgentsMean
  BY DEF Init, DispatchesMean, StatusMeans, AgentsMean
<1>5. TasksMean
  BY <1>1, LimitsAssumption DEF Init, TasksMean
<1>6. VerdictsMean /\ PlaceMeans
  BY DEF Init, VerdictsMean, PlaceMeans, Phase
<1>7. QueueMeans
  BY EmptySeq, LenProperties DEF Init, QueueMeans
<1>8. SlotsMean
  BY <1>1, FS_EmptySet, LimitsAssumption DEF Init, SlotsMean
<1> QED
  BY <1>3, <1>4, <1>5, <1>6, <1>7, <1>8 DEF IInv

LEMMA ExecuteKeeps ==
    ASSUME IInv, Execute
    PROVE  IInv'
<1>1. TypeOK'
  BY DEF IInv, TypeOK, Location, Execute
<1>2. DispatchesMean' /\ StatusMeans' /\ TasksMean' /\ VerdictsMean'
  BY DEF IInv, DispatchesMean, StatusMeans, TasksMean, VerdictsMean, InPhase, Assigned,
         Phase, Planned, Execute
<1>3. PlaceMeans' /\ AgentsMean'
  BY DEF IInv, PlaceMeans, AgentsMean, Execute
<1>4. QueueMeans'
  BY EmptyQueue DEF IInv, PlaceMeans, Execute
<1>5. SlotsMean'
  BY SlotsFrame DEF Execute
<1> QED
  BY <1>1, <1>2, <1>3, <1>4, <1>5 DEF IInv

\* The one Attempt of a role goes into the queue.
LEMMA AllocateKeeps ==
    ASSUME IInv, NEW o \in Role, Allocate(o), pc = "tick", dispatch[o] = "none",
           active' = active \cup {o}, status' \in Active, InPhase(o)',
           pending_evaluation = NoEvaluation, meta' \in 0 .. EvidenceRounds + 1,
           \A p \in Owner : dispatch[p] # "none" => InPhase(p)',
           (Phase \in {"GLOBAL_VERIFYING", "EVALUATING", "SUCCEEDED"})'
              => status' = status,
           UNCHANGED <<resume_status, controller, plan, work, dispatch, verdicts, bounds>>,
           resume_status = "NONE", last_error' = last_error
    PROVE  IInv'
<1>0. o \in Owner /\ queue' = <<o>> /\ Len(queue') = 1 /\ queue'[1] = o /\ queue' \in Seq(Owner)
      /\ DOMAIN queue' = {1} /\ queue' # <<>>
  BY DEF Allocate, Owner
<1>1. TypeOK'
  BY <1>0 DEF IInv, TypeOK, Location, Allocate, AgentState
<1>2. DispatchesMean'
  BY DEF IInv, DispatchesMean, Assigned
<1>3. StatusMeans'
  BY DEF IInv, StatusMeans, Active
<1>4. TasksMean'
  BY DEF IInv, TasksMean, Planned
<1>5. VerdictsMean'
  BY DEF IInv, VerdictsMean, Phase, Planned, StatusMeans, Active
<1>6. PlaceMeans'
  BY <1>0 DEF IInv, PlaceMeans, Allocate
<1>7. QueueMeans'
  BY <1>0 DEF IInv, TypeOK, QueueMeans, Allocate, Assigned
<1>8. AgentsMean'
  BY <1>0 DEF IInv, TypeOK, AgentsMean, Allocate
<1>9. SlotsMean'
  BY SlotsFrame DEF Allocate
<1> QED
  BY <1>1, <1>2, <1>3, <1>4, <1>5, <1>6, <1>7, <1>8, <1>9 DEF IInv

LEMMA StartPlannerKeeps ==
    ASSUME IInv, StartPlanner
    PROVE  IInv'
<1>1. CASE "planner" \in active
  BY <1>1, RaiseKeeps DEF StartPlanner
<1>2. CASE "planner" \notin active
  <2>1. resume_status = "NONE" /\ Phase = status
    BY DEF IInv, StatusMeans, StartPlanner, Tick, Phase
  <2>2. \A p \in Owner : dispatch[p] # "none" => p = "planner" /\ status = "REPAIRING"
    BY <2>1 DEF IInv, DispatchesMean, InPhase, StartPlanner, Tick
  <2>3. dispatch["planner"] = "none" /\ pending_evaluation = NoEvaluation
    BY <2>1, <2>2 DEF IInv, VerdictsMean, StartPlanner, Tick, Owner, Role
  <2>4. status' \in {"PLANNING", "REPAIRING"} /\ status' \in Active /\ InPhase("planner")'
    BY <1>2 DEF StartPlanner, Tick, Active, InPhase, Phase
  <2>5. Phase' = status'
    BY <2>4 DEF Phase
  <2> QED
    BY <1>2, <2>1, <2>2, <2>3, <2>4, <2>5, AllocateKeeps
       DEF StartPlanner, Tick, Role, IInv, TypeOK
<1> QED
  BY <1>1, <1>2

LEMMA StartEvaluatorKeeps ==
    ASSUME IInv, StartEvaluator
    PROVE  IInv'
<1>1. resume_status = "NONE" /\ Phase' = Phase /\ Phase = "EVALUATING"
  BY DEF IInv, StatusMeans, StartEvaluator, Tick, Phase
<1>2. NextEvidenceRound \in 0 .. EvidenceRounds + 1
  <2>1. latest_evaluation.evidence_round \in 0 .. EvidenceRounds + 1
    BY DEF IInv, TypeOK, Evaluation
  <2>2. EvidenceRounds \in Nat
    BY LimitsAssumption
  <2>3. ASSUME NEW n \in 0 .. EvidenceRounds + 1
        PROVE  Min({n + 1, EvidenceRounds + 1}) \in 0 .. EvidenceRounds + 1
    BY <2>2, <2>3 DEF Min
  <2> QED
    BY <2>1, <2>2, <2>3 DEF NextEvidenceRound
<1>3. InPhase("evaluator")' /\ \A p \in Owner : dispatch[p] # "none" => InPhase(p)'
  BY <1>1 DEF IInv, DispatchesMean, InPhase
<1> QED
  BY <1>1, <1>2, <1>3, AllocateKeeps DEF StartEvaluator, Tick, Role, Active

\* Only tasks change, and those with a dispatch, in flight, selected or integrated stay.
LEMMA PromoteReadyKeeps ==
    ASSUME IInv, PromoteReady
    PROVE  IInv'
<1>0. \A t \in Task : \/ task'[t] = task[t]
                      \/ task[t] = "PENDING" /\ task'[t] = "READY"
  BY DEF IInv, TypeOK, PromoteReady, Promotable, In
<1>1. TypeOK'
  BY DEF IInv, TypeOK, PromoteReady
<1>2. DispatchesMean'
  BY <1>0 DEF IInv, TypeOK, DispatchesMean, InPhase, Assigned, Phase, PromoteReady, Owner
<1>3. StatusMeans'
  BY DEF IInv, StatusMeans, PromoteReady
<1>4. TasksMean'
  BY <1>0 DEF IInv, TypeOK, TasksMean, Planned, PromoteReady
<1>5. VerdictsMean' /\ PlaceMeans' /\ AgentsMean'
  BY DEF IInv, VerdictsMean, PlaceMeans, AgentsMean, StatusMeans, Phase, PromoteReady, Tick
<1>6. QueueMeans'
  BY EmptyQueue DEF IInv, PlaceMeans, PromoteReady, Tick
<1>7. SlotsMean'
  <2>1. InFlight' \subseteq InFlight /\ todo' = {} /\ todo = {}
    <3>1. Planned' = Planned /\ Planned \subseteq Task
      BY PlannedAreTasks DEF IInv, Planned, PromoteReady
    <3> QED
      BY <1>0, <3>1 DEF IInv, PlaceMeans, InFlight, In, PromoteReady, Tick
  <2> QED
    BY <2>1, SlotsShrink
<1> QED
  BY <1>1, <1>2, <1>3, <1>4, <1>5, <1>6, <1>7 DEF IInv

\* A greedy choice fits: the last task chosen still had a free slot, and of two tasks
\* the later one was compared with the earlier one.
LEMMA DispatchableFits ==
    ASSUME IInv, NEW S \in SUBSET Task, S # {}, Dispatchable(S)
    PROVE  /\ S \subseteq In({"READY"})
           /\ Cardinality(InFlight \cup S) <= MaxWorkers
           /\ \A t, u \in InFlight \cup S : t # u => <<t, u>> \notin Conflict
<1>1. S \subseteq In({"READY"})
  BY DEF Dispatchable
<1>2. PICK t \in S : Earlier(S, t) = S \ {t}
  BY LastTask
<1>3. Cardinality(InFlight \cup S) <= MaxWorkers
  <2> DEFINE taken == InFlight \cup (S \ {t})
  <2>1. Cardinality(taken) < MaxWorkers
    BY <1>2 DEF Dispatchable
  <2>2. IsFiniteSet(taken)
    <3>1. taken \subseteq Task
      BY PlannedAreTasks DEF InFlight, In, IInv
    <3> QED
      BY <3>1, TaskIsFinite, FS_Subset
  <2>3. InFlight \cup S = taken \cup {t}
    OBVIOUS
  <2> HIDE DEF taken
  <2>4. Cardinality(taken) \in Nat /\ MaxWorkers \in Nat
    BY <2>2, FS_CardinalityType, LimitsAssumption
  <2>5. Cardinality(taken \cup {t}) =
          IF t \in taken THEN Cardinality(taken) ELSE Cardinality(taken) + 1
    BY <2>2, FS_AddElement
  <2> QED
    BY <2>1, <2>3, <2>4, <2>5
<1>4. ASSUME NEW u \in S, NEW w \in S, u # w
      PROVE  u \in Earlier(S, w) \/ w \in Earlier(S, u)
  <2>1. PICK m, n \in DOMAIN Order : Order[m] = u /\ Order[n] = w
    BY OrderAssumption DEF Range
  <2>2. m \in Int /\ n \in Int /\ m # n
    BY <1>4, <2>1, LenProperties, OrderAssumption
  <2>3. m < n \/ n < m
    BY <2>2
  <2> QED
    BY <2>1, <2>3 DEF Earlier
<1>5. \A u \in S : \A w \in InFlight \cup Earlier(S, u) :
          <<u, w>> \notin Conflict /\ <<w, u>> \notin Conflict
  BY OrderAssumption DEF Dispatchable
<1>6. \A u, w \in InFlight : u # w => <<u, w>> \notin Conflict
  BY DEF IInv, SlotsMean
<1>7. \A u, w \in InFlight \cup S : u # w => <<u, w>> \notin Conflict
  BY <1>4, <1>5, <1>6
<1> QED
  BY <1>1, <1>3, <1>7

LEMMA StartWorkersKeeps ==
    ASSUME IInv, StartWorkers
    PROVE  IInv'
<1>1. TypeOK'
  BY DEF IInv, TypeOK, Location, StartWorkers
<1>2. DispatchesMean' /\ StatusMeans' /\ TasksMean' /\ VerdictsMean'
  BY RunFrame DEF StartWorkers
<1>3. PlaceMeans'
  BY DEF IInv, PlaceMeans, StartWorkers, Tick
<1>4. QueueMeans'
  BY EmptyQueue DEF IInv, PlaceMeans, StartWorkers, Tick
<1>5. AgentsMean'
  BY DEF IInv, AgentsMean, StartWorkers, Tick
<1>6. SlotsMean'
  <2>1. InFlight' = InFlight /\ In({"READY"})' = In({"READY"})
    BY DEF InFlight, In, Planned, StartWorkers
  <2> QED
    BY <2>1, DispatchableFits DEF SlotsMean, StartWorkers
<1> QED
  BY <1>1, <1>2, <1>3, <1>4, <1>5, <1>6 DEF IInv

LEMMA AllocateWorkerKeeps ==
    ASSUME IInv, AllocateWorker
    PROVE  IInv'
<1>1. PICK t \in todo : /\ task' = [task EXCEPT ![t] = "RUNNING"]
                        /\ agent' = [agent EXCEPT ![t] = "none"]
                        /\ todo' = todo \ {t}
                        /\ queue' = Append(queue, t)
  BY DEF AllocateWorker
<1>2. t \in Task /\ t \in Owner /\ task[t] = "READY" /\ t \in Planned /\ t \notin Role
  BY PlansAssumption DEF IInv, TypeOK, SlotsMean, In, Owner
<1>3. status = "EXECUTING" /\ Phase = "EXECUTING" /\ Phase' = "EXECUTING"
  BY DEF IInv, PlaceMeans, Phase, AllocateWorker
<1>4. \A o \in Owner : o # t => (Assigned(o)' <=> Assigned(o)) /\ agent'[o] = agent[o]
  BY <1>1, <1>2 DEF IInv, TypeOK, Assigned, AllocateWorker, Owner
<1>5. /\ queue' \in Seq(Owner) /\ queue' # <<>> /\ DOMAIN queue = 1 .. Len(queue)
      /\ Len(queue) \in Nat /\ DOMAIN queue' = 1 .. Len(queue) + 1
      /\ \A i \in DOMAIN queue : queue'[i] = queue[i] /\ queue[i] \in Owner
      /\ queue'[Len(queue) + 1] = t
  BY <1>1, <1>2, AppendProperties, LenProperties, ElementOfSeq DEF IInv, TypeOK
<1>6. \A i \in DOMAIN queue : queue[i] # t
  BY <1>2 DEF IInv, QueueMeans, Assigned
<1>7. TypeOK'
  BY <1>1, <1>2, <1>5 DEF IInv, TypeOK, Location, AllocateWorker, AgentState
<1>8. DispatchesMean'
  BY <1>2, <1>3, <1>4 DEF IInv, DispatchesMean, Assigned, InPhase, AllocateWorker
<1>9. StatusMeans'
  BY DEF IInv, StatusMeans, AllocateWorker
<1>10. TasksMean'
  <2>1. Planned' = Planned /\ t \notin head /\ failure_count[t] # MaxAttempts
    BY <1>2 DEF IInv, TasksMean, Planned, AllocateWorker
  <2> QED
    BY <1>1, <1>2, <2>1 DEF IInv, TypeOK, TasksMean, AllocateWorker
<1>11. VerdictsMean'
  BY <1>3 DEF IInv, VerdictsMean, AllocateWorker
<1>12. PlaceMeans'
  BY <1>3, <1>5 DEF IInv, PlaceMeans, Active, AllocateWorker
<1>13. QueueMeans'
  <2>1. /\ InPhase(t)' /\ Assigned(t)' /\ agent'[t] = "none" /\ dispatch'[t] # "bound"
        /\ t # "evaluator"
    BY <1>1, <1>2, <1>3 DEF IInv, TypeOK, DispatchesMean, Assigned, InPhase, Role, AllocateWorker
  <2>2. \A o \in Owner : InPhase(o)' <=> InPhase(o)
    BY <1>3 DEF InPhase
  <2>3. \A i \in DOMAIN queue' : i \in DOMAIN queue \/ i = Len(queue) + 1
    BY <1>5
  <2>4. \A i \in DOMAIN queue : agent[queue[i]] \notin Open
    BY DEF IInv, QueueMeans, AllocateWorker
  <2>5. ASSUME NEW i \in DOMAIN queue'
        PROVE  /\ InPhase(queue[i])' /\ Assigned(queue[i])' /\ dispatch'[queue'[i]] # "bound"
               /\ agent'[queue'[i]] \notin Open
               /\ queue'[i] = "evaluator" => pending_evaluation' = NoEvaluation
    <3>1. CASE i \in DOMAIN queue
      BY <1>4, <1>5, <1>6, <2>2, <2>4, <3>1 DEF IInv, QueueMeans, AllocateWorker, InPhase, Assigned
    <3>2. CASE i = Len(queue) + 1
      BY <1>5, <2>1, <3>2 DEF InPhase, Assigned
    <3> QED
      BY <2>3, <3>1, <3>2
  <2>6. \A i, j \in DOMAIN queue' : queue'[i] = queue'[j] => i = j
    BY <1>5, <1>6, <2>3 DEF IInv, QueueMeans
  <2> QED
    BY <2>5, <2>6 DEF QueueMeans
<1>14. AgentsMean'
  BY <1>1, <1>2, <1>4 DEF IInv, TypeOK, AgentsMean, AllocateWorker
<1>15. SlotsMean'
  <2>1. InFlight' = InFlight \cup {t} /\ todo' \subseteq In({"READY"})'
    <3>1. Planned' = Planned /\ Planned \subseteq Task
      BY PlannedAreTasks DEF IInv, Planned, AllocateWorker
    <3> QED
      BY <1>1, <1>2, <3>1 DEF IInv, TypeOK, SlotsMean, InFlight, In
  <2> QED
    BY <1>1, <2>1, SlotsShrink
<1> QED
  BY <1>7, <1>8, <1>9, <1>10, <1>11, <1>12, <1>13, <1>14, <1>15 DEF IInv

\* The head of the queue, at the places that work on it.
LEMMA HeadOfQueue ==
    ASSUME IInv, pc \in {"intent", "start", "bind"}
    PROVE  /\ Head(queue) \in Owner /\ 1 \in DOMAIN queue /\ queue[1] = Head(queue)
           /\ InPhase(Head(queue)) /\ Assigned(Head(queue)) /\ dispatch[Head(queue)] # "bound"
           /\ Head(queue) = "evaluator" => pending_evaluation = NoEvaluation
           /\ status \in Active /\ status \notin {"PAUSED", "STOPPED"}
<1>1. queue # <<>> /\ queue \in Seq(Owner)
  BY DEF IInv, TypeOK, PlaceMeans
<1>2. Head(queue) \in Owner /\ 1 \in DOMAIN queue /\ queue[1] = Head(queue)
  BY <1>1, HeadTailProperties, LenProperties, EmptySeq
<1> QED
  BY <1>2 DEF IInv, PlaceMeans, QueueMeans, Active

LEMMA PersistIntentKeeps ==
    ASSUME IInv, PersistIntent
    PROVE  IInv'
<1>0. /\ Head(queue) \in Owner /\ InPhase(Head(queue)) /\ Assigned(Head(queue))
      /\ 1 \in DOMAIN queue /\ queue[1] = Head(queue)
      /\ Head(queue) = "evaluator" => pending_evaluation = NoEvaluation
      /\ status \in Active /\ status \notin {"PAUSED", "STOPPED"}
  BY HeadOfQueue DEF PersistIntent
<1>1. TypeOK'
  BY <1>0 DEF IInv, TypeOK, Location, PersistIntent
<1>2. DispatchesMean'
  <2>1. \A o \in Owner : (InPhase(o)' <=> InPhase(o)) /\ (Assigned(o)' <=> Assigned(o))
    BY DEF InPhase, Assigned, Phase, PersistIntent
  <2> QED
    BY <1>0, <2>1 DEF IInv, TypeOK, DispatchesMean, PersistIntent
<1>3. StatusMeans'
  BY <1>0 DEF IInv, StatusMeans, PersistIntent
<1>4. TasksMean'
  BY DEF IInv, TasksMean, Planned, PersistIntent
<1>5. VerdictsMean'
  BY <1>0 DEF IInv, TypeOK, VerdictsMean, Phase, Planned, PersistIntent
<1>6. PlaceMeans'
  BY <1>0 DEF IInv, TypeOK, PlaceMeans, PersistIntent
<1>7. QueueMeans'
  BY DEF IInv, TypeOK, QueueMeans, InPhase, Assigned, Phase, PersistIntent
<1>8. AgentsMean'
  BY <1>0 DEF IInv, TypeOK, AgentsMean, QueueMeans, PersistIntent
<1>9. SlotsMean'
  BY SlotsFrame DEF PersistIntent
<1> QED
  BY <1>1, <1>2, <1>3, <1>4, <1>5, <1>6, <1>7, <1>8, <1>9 DEF IInv

LEMMA StartProviderKeeps ==
    ASSUME IInv, StartProvider
    PROVE  IInv'
<1>0. Head(queue) \in Owner /\ 1 \in DOMAIN queue /\ queue[1] = Head(queue)
  BY HeadOfQueue DEF StartProvider
<1>1. TypeOK'
  <2>1. agent' \in [Owner -> AgentState] /\ astray' \subseteq Owner
    BY <1>0 DEF IInv, TypeOK, StartProvider, AgentState
  <2> QED
    BY <2>1 DEF IInv, TypeOK, Location, StartProvider
<1>2. DispatchesMean' /\ StatusMeans' /\ TasksMean' /\ VerdictsMean'
  BY RunFrame DEF StartProvider
<1>3. PlaceMeans'
  BY DEF IInv, PlaceMeans, StartProvider
<1>4. QueueMeans'
  BY <1>0 DEF IInv, TypeOK, QueueMeans, InPhase, Assigned, Phase, StartProvider
<1>5. AgentsMean'
  BY <1>0 DEF IInv, TypeOK, AgentsMean, PlaceMeans, StartProvider
<1>6. SlotsMean'
  BY SlotsFrame DEF StartProvider
<1> QED
  BY <1>1, <1>2, <1>3, <1>4, <1>5, <1>6 DEF IInv

LEMMA BindHandleKeeps ==
    ASSUME IInv, BindHandle
    PROVE  IInv'
<1>0. /\ Head(queue) \in Owner /\ InPhase(Head(queue)) /\ Assigned(Head(queue))
      /\ 1 \in DOMAIN queue /\ queue[1] = Head(queue)
      /\ Head(queue) = "evaluator" => pending_evaluation = NoEvaluation
      /\ status \in Active /\ status \notin {"PAUSED", "STOPPED"}
      /\ dispatch[Head(queue)] = "intent"
  BY HeadOfQueue DEF IInv, PlaceMeans, BindHandle
<1>1. /\ queue' \in Seq(Owner) /\ Len(queue) \in Nat /\ DOMAIN queue = 1 .. Len(queue)
      /\ DOMAIN queue' = 1 .. Len(queue) - 1
      /\ \A i \in DOMAIN queue' : i + 1 \in DOMAIN queue /\ queue'[i] = queue[i + 1] /\ i + 1 # 1
  BY <1>0, HeadTailProperties, LenProperties, EmptySeq DEF IInv, TypeOK, PlaceMeans, BindHandle
<1>2. TypeOK'
  BY <1>0, <1>1 DEF IInv, TypeOK, Location, BindHandle
<1>3. \A o \in Owner : (InPhase(o)' <=> InPhase(o)) /\ (Assigned(o)' <=> Assigned(o))
  BY DEF InPhase, Assigned, Phase, BindHandle
<1>4. DispatchesMean'
  BY <1>0, <1>3 DEF IInv, TypeOK, DispatchesMean, BindHandle
<1>5. StatusMeans'
  BY <1>0 DEF IInv, StatusMeans, BindHandle
<1>6. TasksMean'
  BY DEF IInv, TasksMean, Planned, BindHandle
<1>7. VerdictsMean'
  BY <1>0 DEF IInv, TypeOK, VerdictsMean, Phase, Planned, BindHandle
<1>8. PlaceMeans'
  BY <1>0 DEF IInv, TypeOK, PlaceMeans, BindHandle
<1>9. QueueMeans'
  <2>1. ASSUME NEW i \in DOMAIN queue'
        PROVE  /\ InPhase(queue[i])' /\ Assigned(queue[i])' /\ dispatch'[queue'[i]] # "bound"
               /\ agent'[queue'[i]] \notin Open
               /\ queue'[i] = "evaluator" => pending_evaluation' = NoEvaluation
    <3>1. /\ queue'[i] = queue[i + 1] /\ i + 1 \in DOMAIN queue /\ i + 1 # 1
          /\ queue[i + 1] \in Owner /\ queue[i + 1] # Head(queue)
      BY <1>0, <1>1, LenProperties, ElementOfSeq DEF IInv, TypeOK, QueueMeans
    <3>2. InPhase(queue[i])' /\ Assigned(queue[i])'
      BY <1>1, <3>1 DEF IInv, QueueMeans, InPhase, Assigned, Phase, BindHandle
    <3> QED
      BY <3>1, <3>2 DEF IInv, TypeOK, QueueMeans, BindHandle
  <2>2. ASSUME NEW i \in DOMAIN queue', NEW j \in DOMAIN queue', queue'[i] = queue'[j]
        PROVE  i = j
    <3>1. i + 1 = j + 1
      BY <1>1, <2>2 DEF IInv, QueueMeans
    <3> QED
      BY <1>1, <3>1
  <2> QED
    BY <2>1, <2>2 DEF QueueMeans
<1>10. AgentsMean'
  BY <1>0 DEF IInv, TypeOK, AgentsMean, BindHandle
<1>11. SlotsMean'
  BY SlotsFrame DEF BindHandle
<1> QED
  BY <1>2, <1>4, <1>5, <1>6, <1>7, <1>8, <1>9, <1>10, <1>11 DEF IInv

-----------------------------------------------------------------------------
(***************************************************************************)
(* Polling.                                                                *)
(***************************************************************************)

\* A dispatch of a role is closed: what the phase becomes has no other.
LEMMA CloseRoleFailureKeeps ==
    ASSUME IInv, NEW o \in Role, CloseRoleFailure(o), pc = "tick",
           status \in Active, dispatch[o] = "bound"
    PROVE  IInv'
<1>0. o \in Owner /\ o \notin Task /\ resume_status = "NONE" /\ Phase = status
      /\ status \notin {"PAUSED", "STOPPED"} /\ agent[o] = "failed"
  BY PlansAssumption DEF IInv, StatusMeans, Phase, Owner, Active, CloseRoleFailure
<1>1. TypeOK'
  BY <1>0 DEF IInv, TypeOK, CloseRoleFailure, Closed, Static, Terminal
<1>2. \A p \in Owner : dispatch[p] # "none" => p = o
  BY <1>0 DEF IInv, DispatchesMean, InPhase, Role, Owner
<1>3. \A p \in Owner : dispatch'[p] = "none"
  BY <1>0, <1>2 DEF IInv, TypeOK, CloseRoleFailure, Closed
<1>4. DispatchesMean' /\ AgentsMean'
  BY <1>0, <1>2, <1>3 DEF IInv, DispatchesMean, AgentsMean, CloseRoleFailure
<1>5. StatusMeans'
  BY <1>0, <1>3 DEF IInv, StatusMeans, CloseRoleFailure
<1>6. TasksMean'
  BY DEF IInv, TasksMean, Planned, CloseRoleFailure
<1>7. pending_evaluation = NoEvaluation
  BY <1>0 DEF IInv, DispatchesMean, InPhase, VerdictsMean, Role
<1>8. VerdictsMean'
  BY <1>0, <1>7 DEF IInv, VerdictsMean, Phase, Planned, CloseRoleFailure
<1>9. PlaceMeans'
  BY DEF IInv, PlaceMeans, CloseRoleFailure
<1>10. QueueMeans'
  BY EmptyQueue DEF IInv, PlaceMeans, CloseRoleFailure
<1>11. SlotsMean'
  BY SlotsFrame DEF CloseRoleFailure
<1> QED
  BY <1>1, <1>4, <1>5, <1>6, <1>8, <1>9, <1>10, <1>11 DEF IInv

\* An accepted plan: its tasks are new, so what was in flight or integrated stays.
LEMMA AcceptPlanKeeps ==
    ASSUME IInv, AcceptPlan, pc = "tick", status \in {"PLANNING", "REPAIRING"},
           dispatch["planner"] = "bound"
    PROVE  IInv'
<1> DEFINE new == Plans[plan_version + 1]
<1>0. resume_status = "NONE" /\ Phase = status /\ Phase' = "EXECUTING"
  BY DEF IInv, StatusMeans, Phase, AcceptPlan
<1>1. \A p \in Owner : dispatch[p] # "none" => p = "planner"
  BY <1>0 DEF IInv, DispatchesMean, InPhase
<1>2. \A p \in Owner : agent[p] \in Open => p = "planner"
  BY <1>1 DEF IInv, AgentsMean
<1>3. \A p \in Owner : dispatch'[p] = "none" /\ agent'[p] \notin Open
  BY <1>1, <1>2 DEF IInv, TypeOK, AcceptPlan, Closed
<1>4. Len(Plans) \in Nat /\ DOMAIN Plans = 1 .. Len(Plans) /\ plan_version \in 0 .. Len(Plans)
      /\ plan_version + 1 \in 1 .. Len(Plans)
  BY LenProperties, PlansAssumption DEF IInv, TypeOK, AcceptPlan
<1>5. Planned' = Planned \cup new /\ new \subseteq Task
  BY <1>4 DEF Planned, AcceptPlan, Task
<1>6. Planned \cap new = {}
  BY <1>4, PlansAssumption DEF Planned
<1> HIDE DEF new
<1>7. \A t \in Task : task'[t] = IF t \in new THEN "PENDING" ELSE task[t]
  BY DEF AcceptPlan, new
<1>8. \A t \in new : task[t] = "UNPLANNED"
  BY <1>5, <1>6 DEF IInv, TasksMean
<1>9. TypeOK'
  <2>1. plan_version' \in 0 .. Len(Plans)
    BY <1>4 DEF AcceptPlan
  <2>2. task' \in [Task -> {"UNPLANNED", "PENDING", "READY", "RUNNING", "VERIFYING",
                           "COMPLETED", "FAILED"}]
    BY DEF IInv, TypeOK, AcceptPlan
  <2>3. dispatch' \in [Owner -> {"none", "intent", "bound"}] /\ active' \subseteq Role
    BY DEF IInv, TypeOK, AcceptPlan, Closed
  <2> QED
    BY <2>1, <2>2, <2>3 DEF IInv, TypeOK, AcceptPlan, Active
<1>10. DispatchesMean' /\ AgentsMean'
  BY <1>3 DEF DispatchesMean, AgentsMean
<1>11. StatusMeans'
  BY <1>0, <1>3 DEF StatusMeans, AcceptPlan
<1>12. TasksMean'
  BY <1>5, <1>6, <1>7, <1>8 DEF IInv, TasksMean, AcceptPlan
<1>13. VerdictsMean'
  BY <1>0 DEF IInv, VerdictsMean, AcceptPlan
<1>14. PlaceMeans'
  BY DEF IInv, PlaceMeans, AcceptPlan
<1>15. QueueMeans'
  BY EmptyQueue DEF IInv, PlaceMeans, AcceptPlan
<1>16. SlotsMean'
  <2>1. InFlight' \subseteq InFlight /\ todo' = {} /\ todo = {}
    BY <1>5, <1>7, PlannedAreTasks DEF IInv, PlaceMeans, InFlight, In, AcceptPlan
  <2> QED
    BY <2>1, SlotsShrink
<1> QED
  BY <1>9, <1>10, <1>11, <1>12, <1>13, <1>14, <1>15, <1>16 DEF IInv

LEMMA PollPlannerKeeps ==
    ASSUME IInv, PollPlanner
    PROVE  IInv'
<1>1. pc = "tick" /\ status \in {"PLANNING", "REPAIRING"} /\ dispatch["planner"] = "bound"
  BY DEF PollPlanner, Tick
<1> QED
  BY <1>1, AcceptPlanKeeps, CloseRoleFailureKeeps, RaiseKeeps DEF PollPlanner, Role, Active

LEMMA PrepareEvaluationKeeps ==
    ASSUME IInv, PrepareEvaluation, pc = "tick", status = "EVALUATING",
           dispatch["evaluator"] = "bound"
    PROVE  IInv'
<1>0. Phase = "EVALUATING" /\ Phase' = "EVALUATING"
  BY DEF Phase, PrepareEvaluation
<1>1. \A p \in Owner : dispatch[p] # "none" => p = "evaluator"
  BY <1>0 DEF IInv, DispatchesMean, InPhase
<1>2. \A p \in Owner : dispatch'[p] = "none" /\ agent'[p] \notin Open
  BY <1>1 DEF IInv, TypeOK, AgentsMean, PrepareEvaluation, Closed, Verdict
<1>3. "evaluator" \in Owner
  BY DEF Owner, Role
<1>4. pending_evaluation' \in Evaluation /\ pending_evaluation'.head = head
  BY DEF IInv, TypeOK, Evaluation, PrepareEvaluation
<1>5. TypeOK'
  BY <1>4 DEF IInv, TypeOK, PrepareEvaluation, Closed
<1>6. DispatchesMean' /\ AgentsMean'
  BY <1>2 DEF DispatchesMean, AgentsMean
<1>7. StatusMeans'
  BY <1>2 DEF IInv, StatusMeans, PrepareEvaluation
<1>8. TasksMean'
  BY DEF IInv, TasksMean, Planned, PrepareEvaluation
<1>9. VerdictsMean'
  BY <1>0, <1>2, <1>3, <1>4 DEF IInv, VerdictsMean, Planned, PrepareEvaluation
<1>10. PlaceMeans'
  BY DEF IInv, PlaceMeans, PrepareEvaluation
<1>11. QueueMeans'
  BY EmptyQueue DEF IInv, PlaceMeans, PrepareEvaluation
<1>12. SlotsMean'
  BY SlotsFrame DEF PrepareEvaluation
<1> QED
  BY <1>5, <1>6, <1>7, <1>8, <1>9, <1>10, <1>11, <1>12 DEF IInv

LEMMA PollEvaluatorKeeps ==
    ASSUME IInv, PollEvaluator
    PROVE  IInv'
<1>1. pc = "tick" /\ status = "EVALUATING" /\ dispatch["evaluator"] = "bound"
  BY DEF PollEvaluator, Tick
<1> QED
  BY <1>1, PrepareEvaluationKeeps, CloseRoleFailureKeeps, RaiseKeeps
     DEF PollEvaluator, Role, Active

(***************************************************************************)
(* Workers.  A task with an Attempt is closed: READY again, VERIFYING,     *)
(* COMPLETED or FAILED.                                                    *)
(***************************************************************************)

\* What an Attempt of t may become, and what the run may become with it.
LEMMA CloseTaskKeeps ==
    ASSUME IInv, NEW t \in Task, NEW v \in {"READY", "VERIFYING", "COMPLETED", "FAILED"},
           task' = [task EXCEPT ![t] = v], task[t] \in {"RUNNING", "VERIFYING"},
           pc \in {"tick", "polling"}, pc' \in {"tick", "polling"},
           Phase = "EXECUTING", Phase' \in {"EXECUTING", "FAILED"},
           dispatch' = [dispatch EXCEPT ![t] = "none"], active' = active,
           dispatch[t] # "none" => agent[t] \notin Open,
           Phase' = "FAILED" => \A o \in Owner : o # t => dispatch[o] = "none",
           TypeOK', (failure_count'[t] = MaxAttempts => v = "FAILED"),
           \A u \in Task : u # t => failure_count'[u] = failure_count[u],
           head' = head \cup (IF v = "COMPLETED" THEN {t} ELSE {}),
           (resume_status' # "NONE") <=> (status' \in {"PAUSED", "STOPPED"}),
           status' # "STOPPED",
           UNCHANGED <<plan, verdicts, memory, world>>
    PROVE  IInv'
<1>0. t \in Owner /\ t \notin Role /\ Role \subseteq Owner
  BY PlansAssumption DEF Owner
<1>1. \A o \in Owner : dispatch'[o] = IF o = t THEN "none" ELSE dispatch[o]
  BY <1>0 DEF IInv, TypeOK
<1>2. \A u \in Task : task'[u] = IF u = t THEN v ELSE task[u]
  BY DEF IInv, TypeOK
<1>3. DispatchesMean'
  BY <1>0, <1>1, <1>2 DEF IInv, DispatchesMean, InPhase, Assigned, Owner
<1>4. StatusMeans'
  BY DEF StatusMeans
<1>5. TasksMean'
  <2>1. Planned' = Planned /\ t \in Planned /\ t \notin head
    BY DEF IInv, TasksMean, Planned
  <2> QED
    BY <1>2, <2>1 DEF IInv, TasksMean
<1>6. VerdictsMean'
  BY DEF IInv, VerdictsMean
<1>7. PlaceMeans'
  BY DEF IInv, PlaceMeans
<1>8. QueueMeans'
  BY EmptyQueue DEF IInv, PlaceMeans
<1>9. AgentsMean'
  BY <1>0, <1>1 DEF IInv, AgentsMean
<1>10. SlotsMean'
  <2>1. Planned' = Planned /\ Planned \subseteq Task
    BY PlannedAreTasks DEF IInv, Planned
  <2>2. InFlight' \subseteq InFlight /\ todo' = {} /\ todo = {}
    BY <1>2, <2>1 DEF IInv, PlaceMeans, InFlight, In
  <2> QED
    BY <2>2, SlotsShrink
<1> QED
  BY <1>3, <1>4, <1>5, <1>6, <1>7, <1>8, <1>9, <1>10 DEF IInv

\* The types of a closed Attempt.
LEMMA CloseTaskType ==
    ASSUME IInv, NEW t \in Task, NEW v \in {"READY", "VERIFYING", "COMPLETED", "FAILED"},
           task' = [task EXCEPT ![t] = v], task[t] \in {"RUNNING", "VERIFYING"},
           pc' \in {"tick", "polling"},
           status' \in Active \cup Static, resume_status' \in Active \cup {"NONE"},
           last_error' \in BOOLEAN,
           dispatch' = [dispatch EXCEPT ![t] = "none"], active' = active,
           \/ failure_count' = failure_count
           \/ failure_count' = [failure_count EXCEPT ![t] = @ + 1],
           head' \subseteq Task,
           UNCHANGED <<controller, plan, verdicts, memory, world, bounds>>
    PROVE  TypeOK'
<1>1. task' \in [Task -> {"UNPLANNED", "PENDING", "READY", "RUNNING", "VERIFYING",
                          "COMPLETED", "FAILED"}]
  BY DEF IInv, TypeOK
<1>2. dispatch' \in [Owner -> {"none", "intent", "bound"}]
  BY DEF IInv, TypeOK
<1>3. failure_count' \in [Task -> 0 .. MaxAttempts]
  <2>1. failure_count[t] \in 0 .. MaxAttempts /\ failure_count[t] # MaxAttempts
    BY DEF IInv, TypeOK, TasksMean
  <2>2. failure_count[t] + 1 \in 0 .. MaxAttempts
    BY <2>1, LimitsAssumption
  <2> QED
    BY <2>2 DEF IInv, TypeOK
<1> QED
  BY <1>1, <1>2, <1>3 DEF IInv, TypeOK, Location

LEMMA PollWorkerKeeps ==
    ASSUME IInv, NEW t \in Task, PollWorker(t)
    PROVE  IInv'
<1>0. t \in Owner /\ t \notin Role
  BY PlansAssumption DEF Owner
<1>1. /\ pc \in {"tick", "polling"} /\ dispatch[t] = "bound" /\ task[t] = "RUNNING"
      /\ Phase = "EXECUTING" /\ failure_count[t] # MaxAttempts
      /\ task \in [Task -> {"UNPLANNED", "PENDING", "READY", "RUNNING", "VERIFYING",
                            "COMPLETED", "FAILED"}]
      /\ failure_count \in [Task -> 0 .. MaxAttempts] /\ MaxAttempts \in Nat
  BY <1>0, LimitsAssumption
     DEF IInv, TypeOK, DispatchesMean, Assigned, InPhase, TasksMean, PollWorker, Tick, Role
<1>2. CASE \/ agent[t] = "failed" /\ FailedRefused(t, Pending \ {t})
           \/ (Uncompleted(t) \/ ResultRefused(t)) /\ Raise
  BY <1>2, RaiseKeeps DEF FailedRefused
<1>3. CASE /\ AcceptResult(t) \/ PauseBlockedWorker(t) \/ FreezeFailedWorker(t)
           /\ Closed(t)
           /\ pc' = "polling"
           /\ UNCHANGED <<controller, plan, head, verdicts, memory, world, bounds>>
  <2>1. dispatch' = [dispatch EXCEPT ![t] = "none"] /\ active' = active
    BY <1>0, <1>3 DEF Closed, IInv, TypeOK
  <2>2. /\ status \in {"EXECUTING", "PAUSED", "STOPPED"}
        /\ (resume_status # "NONE") <=> (status \in {"PAUSED", "STOPPED"})
        /\ status # "STOPPED" /\ status \in Active \cup Static
        /\ resume_status \in Active \cup {"NONE"} /\ last_error \in BOOLEAN
        /\ head \subseteq Task
    BY <1>0, <1>1 DEF IInv, TypeOK, StatusMeans, Phase
  <2>3. CASE AcceptResult(t)
    <3>1. Phase' = "EXECUTING"
      BY <1>1, <2>3 DEF AcceptResult, Phase
    <3>2. TypeOK'
      BY <1>1, <1>3, <2>1, <2>2, <2>3, CloseTaskType DEF AcceptResult
    <3> QED
      BY <1>1, <1>3, <2>1, <2>2, <2>3, <3>1, <3>2, CloseTaskKeeps DEF AcceptResult
  <2>4. CASE PauseBlockedWorker(t)
    <3>1. Phase' = "EXECUTING"
      BY <2>4 DEF PauseBlockedWorker, Phase
    <3>2. TypeOK'
      BY <1>1, <1>3, <2>1, <2>2, <2>4, CloseTaskType
         DEF PauseBlockedWorker, Active, Static, Terminal
    <3> QED
      BY <1>1, <1>3, <2>1, <2>2, <2>4, <3>1, <3>2, CloseTaskKeeps DEF PauseBlockedWorker
  <2>5. CASE FreezeFailedWorker(t)
    <3>1. /\ failure_count' = [failure_count EXCEPT ![t] = @ + 1]
          /\ failure_count'[t] = failure_count[t] + 1
          /\ \A u \in Task : u # t => failure_count'[u] = failure_count[u]
      BY <1>1, <2>5 DEF FreezeFailedWorker
    <3>2. CASE failure_count[t] + 1 < MaxAttempts
      <4>1. /\ task' = [task EXCEPT ![t] = "READY"] /\ agent[t] = "failed"
            /\ UNCHANGED <<status, last_error, resume_status>>
        BY <1>1, <2>5, <3>2 DEF FreezeFailedWorker, CloseFailed
      <4>2. Phase' = "EXECUTING" /\ failure_count'[t] # MaxAttempts
        BY <1>1, <3>1, <3>2, <4>1 DEF Phase
      <4>3. TypeOK'
        BY <1>1, <1>3, <2>1, <2>2, <3>1, <4>1, CloseTaskType
      <4> QED
        BY <1>1, <1>3, <2>1, <2>2, <3>1, <4>1, <4>2, <4>3, CloseTaskKeeps
    <3>3. CASE ~ (failure_count[t] + 1 < MaxAttempts)
      <4>1. /\ task' = [task EXCEPT ![t] = "FAILED"] /\ agent[t] = "failed"
            /\ status' = "FAILED" /\ last_error' = TRUE /\ resume_status' = "NONE"
            /\ Pending \ {t} = {}
        BY <2>5, <3>3 DEF FreezeFailedWorker, CloseFailed
      <4>2. Phase' = "FAILED" /\ \A o \in Owner : o # t => dispatch[o] = "none"
        BY <4>1 DEF Phase, Pending
      <4>3. TypeOK'
        BY <1>1, <1>3, <2>1, <2>2, <3>1, <4>1, CloseTaskType DEF Static, Terminal
      <4> QED
        BY <1>1, <1>3, <2>1, <2>2, <3>1, <4>1, <4>2, <4>3, CloseTaskKeeps
    <3> QED
      BY <3>2, <3>3
  <2> QED
    BY <1>3, <2>3, <2>4, <2>5
<1> QED
  BY <1>2, <1>3 DEF PollWorker

LEMMA PollEndsKeeps ==
    ASSUME IInv, PollEnds
    PROVE  IInv'
<1>1. TypeOK' /\ PlaceMeans'
  BY DEF IInv, TypeOK, PlaceMeans, Location, Phase, PollEnds
<1> QED
  BY <1>1, PlaceFrame DEF PollEnds

\* What an Attempt being verified says about its task.
LEMMA Verifying ==
    ASSUME IInv, NEW t \in Task, Tick("EXECUTING"), task[t] = "VERIFYING"
    PROVE  /\ pc = "tick" /\ Phase = "EXECUTING" /\ status = "EXECUTING"
           /\ resume_status = "NONE"
           /\ dispatch = [dispatch EXCEPT ![t] = "none"] /\ dispatch[t] = "none"
           /\ failure_count[t] # MaxAttempts
           /\ failure_count \in [Task -> 0 .. MaxAttempts] /\ MaxAttempts \in Nat
           /\ last_error \in BOOLEAN /\ head \subseteq Task
<1>1. t \in Owner /\ t \notin Role
  BY PlansAssumption DEF Owner
<1>2. dispatch[t] = "none"
  BY <1>1 DEF IInv, DispatchesMean, Assigned
<1> QED
  BY <1>1, <1>2, LimitsAssumption DEF IInv, TypeOK, StatusMeans, TasksMean, Phase, Tick

LEMMA IntegrateKeeps ==
    ASSUME IInv, NEW t \in Task, Integrate(t)
    PROVE  IInv'
<1>1. /\ pc = "tick" /\ Phase = "EXECUTING" /\ status = "EXECUTING"
      /\ resume_status = "NONE"
      /\ dispatch' = [dispatch EXCEPT ![t] = "none"] /\ dispatch[t] = "none"
      /\ failure_count[t] # MaxAttempts /\ head \subseteq Task
  BY Verifying DEF Integrate
<1>2. Phase' = "EXECUTING" /\ head' \subseteq Task
  BY <1>1 DEF Phase, Integrate
<1>3. TypeOK'
  BY <1>1, <1>2, CloseTaskType DEF Integrate, Active
<1> QED
  BY <1>1, <1>2, <1>3, CloseTaskKeeps DEF Integrate

LEMMA RejectKeeps ==
    ASSUME IInv, NEW t \in Task, Reject(t)
    PROVE  IInv'
<1>1. /\ pc = "tick" /\ Phase = "EXECUTING" /\ status = "EXECUTING"
      /\ resume_status = "NONE" /\ dispatch[t] = "none"
      /\ dispatch = [dispatch EXCEPT ![t] = "none"]
      /\ failure_count[t] # MaxAttempts /\ head \subseteq Task /\ task[t] = "VERIFYING"
      /\ failure_count \in [Task -> 0 .. MaxAttempts] /\ MaxAttempts \in Nat
      /\ last_error \in BOOLEAN
  BY Verifying DEF Reject
<1>2. CASE FailedRefused(t, Pending)
  BY <1>2, RaiseKeeps DEF FailedRefused
<1>3. CASE /\ CloseFailed(t, Pending)
           /\ failure_count' = [failure_count EXCEPT ![t] = @ + 1]
           /\ UNCHANGED <<resume_status, controller, plan, head, ledger, verdicts, pc,
                          memory, world, bounds>>
  <2>1. /\ failure_count'[t] = failure_count[t] + 1
        /\ \A u \in Task : u # t => failure_count'[u] = failure_count[u]
    BY <1>1, <1>3
  <2>2. CASE failure_count[t] + 1 < MaxAttempts
    <3>1. task' = [task EXCEPT ![t] = "READY"] /\ UNCHANGED <<status, last_error>>
      BY <1>1, <1>3, <2>2 DEF CloseFailed
    <3>2. Phase' = "EXECUTING" /\ failure_count'[t] # MaxAttempts
      BY <1>1, <2>1, <2>2, <3>1 DEF Phase
    <3>3. TypeOK'
      BY <1>1, <1>3, <3>1, CloseTaskType DEF Active
    <3> QED
      BY <1>1, <1>3, <2>1, <3>1, <3>2, <3>3, CloseTaskKeeps
  <2>3. CASE ~ (failure_count[t] + 1 < MaxAttempts)
    <3>1. /\ task' = [task EXCEPT ![t] = "FAILED"]
          /\ status' = "FAILED" /\ last_error' = TRUE /\ Pending = {}
      BY <1>3, <2>3 DEF CloseFailed
    <3>2. Phase' = "FAILED" /\ \A o \in Owner : o # t => dispatch[o] = "none"
      BY <3>1 DEF Phase, Pending
    <3>3. TypeOK'
      BY <1>1, <1>3, <3>1, CloseTaskType DEF Static, Terminal
    <3> QED
      BY <1>1, <1>3, <2>1, <3>1, <3>2, <3>3, CloseTaskKeeps
  <2> QED
    BY <2>2, <2>3
<1> QED
  BY <1>2, <1>3 DEF Reject

-----------------------------------------------------------------------------
(***************************************************************************)
(* Verification, evaluation, repair.  Only the status and the verdicts     *)
(* change, at places without a queue.                                      *)
(***************************************************************************)
LEMMA JudgementKeeps ==
    ASSUME IInv, UNCHANGED <<plan_version, work, ledger, memory, world, bounds, controller>>,
           pc \in {"tick", "recover_evaluation", "open_repair", "evidence_pause", "supplemental"},
           status' \in Active \cup Static, resume_status' \in Active \cup {"NONE"},
           last_error' \in BOOLEAN, repair_round' \in 0 .. MaxRepair, pc' \in Location,
           {pending_evaluation', latest_evaluation'} \subseteq Evaluation,
           global_verification' \subseteq SUBSET Task,
           DispatchesMean', StatusMeans', VerdictsMean', PlaceMeans'
    PROVE  IInv'
<1>1. TypeOK'
  BY DEF IInv, TypeOK
<1>2. TasksMean'
  BY DEF IInv, TasksMean, Planned
<1>3. QueueMeans'
  BY EmptyQueue DEF IInv, PlaceMeans
<1>4. AgentsMean'
  BY DEF IInv, AgentsMean
<1>5. SlotsMean'
  BY SlotsFrame
<1> QED
  BY <1>1, <1>2, <1>3, <1>4, <1>5 DEF IInv

LEMMA TasksCompletedKeeps ==
    ASSUME IInv, TasksCompleted
    PROVE  IInv'
<1>0. Phase = "EXECUTING" /\ Phase' = "GLOBAL_VERIFYING" /\ resume_status = "NONE"
  BY DEF IInv, StatusMeans, TasksCompleted, Tick, Phase
<1>1. Planned # {} /\ \A t \in Planned : task[t] = "COMPLETED"
  BY DEF TasksCompleted, AllCompleted, In
<1>2. \A o \in Owner : dispatch[o] = "none"
  BY <1>0, <1>1, PlansAssumption
     DEF IInv, TasksMean, DispatchesMean, InPhase, Assigned, Owner, Role
<1>3. DispatchesMean' /\ StatusMeans'
  BY <1>0, <1>2 DEF DispatchesMean, StatusMeans, TasksCompleted
<1>4. VerdictsMean'
  BY <1>0, <1>1 DEF IInv, VerdictsMean, Planned, TasksCompleted
<1>5. PlaceMeans'
  BY DEF IInv, PlaceMeans, TasksCompleted, Tick
<1> QED
  BY <1>0, <1>3, <1>4, <1>5, JudgementKeeps DEF IInv, TypeOK, Active, TasksCompleted, Tick

\* _pause keeps the phase.
LEMMA PauseKeeps ==
    ASSUME IInv, Pause,
           pc \in {"tick", "recover_evaluation", "evidence_pause", "supplemental"}
    PROVE  IInv'
<1>1. CASE status \notin Active
  BY <1>1, RaiseKeeps DEF Pause
<1>2. CASE status \in Active
  <2>0. /\ status' = "PAUSED" /\ resume_status' = status /\ last_error' = TRUE
        /\ pc' \in {"tick", "pause_after_exit"} /\ status \notin {"PAUSED", "STOPPED"}
        /\ UNCHANGED <<controller, plan, work, ledger, verdicts, memory, world, bounds>>
    BY <1>2 DEF Pause, AfterTick, Active
  <2>1. Phase' = Phase
    BY <2>0 DEF Phase
  <2>2. DispatchesMean'
    BY <2>0, <2>1 DEF IInv, DispatchesMean, InPhase, Assigned
  <2>3. StatusMeans'
    BY <1>2, <2>0 DEF StatusMeans, Active
  <2>4. VerdictsMean'
    BY <2>0, <2>1 DEF IInv, VerdictsMean, Planned
  <2>5. PlaceMeans'
    BY <2>0 DEF IInv, PlaceMeans
  <2> QED
    BY <1>2, <2>0, <2>2, <2>3, <2>4, <2>5, JudgementKeeps DEF IInv, TypeOK, Static, Location
<1> QED
  BY <1>1, <1>2

LEMMA OpenRepairKeeps ==
    ASSUME IInv, OpenRepair, pc \in {"tick", "open_repair"},
           status \in {"GLOBAL_VERIFYING", "REPAIRING"},
           \A o \in Owner : dispatch[o] = "none", pending_evaluation = NoEvaluation
    PROVE  IInv'
<1>0. /\ status' \in {"REPAIRING", "FAILED"} /\ resume_status' = "NONE" /\ last_error' = TRUE
      /\ pc' \in {"tick", "pause_after_exit"} /\ repair_round' \in 0 .. MaxRepair
      /\ UNCHANGED <<controller, plan_version, work, ledger, verdicts, memory, world, bounds>>
  <2>1. repair_round \in 0 .. MaxRepair /\ MaxRepair \in Nat /\ resume_status = "NONE"
    BY LimitsAssumption DEF IInv, TypeOK, StatusMeans
  <2> QED
    BY <2>1 DEF OpenRepair, AfterTick
<1>1. DispatchesMean' /\ StatusMeans'
  BY <1>0 DEF DispatchesMean, StatusMeans
<1>2. VerdictsMean'
  BY <1>0 DEF VerdictsMean, Phase
<1>3. PlaceMeans'
  BY <1>0 DEF IInv, PlaceMeans
<1> QED
  BY <1>0, <1>1, <1>2, <1>3, JudgementKeeps
     DEF IInv, TypeOK, Static, Terminal, Active, Location

LEMMA RunGlobalVerificationKeeps ==
    ASSUME IInv, RunGlobalVerification
    PROVE  IInv'
<1>0. /\ pc = "tick" /\ status = "GLOBAL_VERIFYING" /\ Phase = "GLOBAL_VERIFYING"
      /\ resume_status = "NONE"
  BY DEF IInv, StatusMeans, RunGlobalVerification, Tick, Phase
<1>1. \A o \in Owner : dispatch[o] = "none"
  BY <1>0 DEF IInv, DispatchesMean, InPhase
<1>2. pending_evaluation = NoEvaluation
  BY <1>0 DEF IInv, VerdictsMean
<1>3. CASE Pause
  BY <1>0, <1>3, PauseKeeps
<1>4. CASE OpenRepair
  BY <1>0, <1>1, <1>2, <1>4, OpenRepairKeeps
<1>5. CASE /\ global_verification' = {head}
           /\ status' = "EVALUATING"
           /\ UNCHANGED <<resume_status, last_error, controller, plan, work,
                          ledger, pending_evaluation, latest_evaluation, pc,
                          memory, world, bounds>>
  <2>0. Phase' = "EVALUATING"
    BY <1>5 DEF Phase
  <2>1. DispatchesMean' /\ StatusMeans'
    BY <1>0, <1>1, <1>5 DEF DispatchesMean, StatusMeans
  <2>2. VerdictsMean'
    BY <1>0, <1>2, <1>5, <2>0 DEF IInv, VerdictsMean, Planned
  <2>3. PlaceMeans'
    BY <1>0, <1>5 DEF IInv, PlaceMeans
  <2> QED
    BY <1>0, <1>5, <2>1, <2>2, <2>3, JudgementKeeps DEF IInv, TypeOK, Active
<1> QED
  BY <1>3, <1>4, <1>5 DEF RunGlobalVerification

\* A verdict is persisted: the phase has no dispatch.
LEMMA PersistEvaluationKeeps ==
    ASSUME IInv, pending_evaluation # NoEvaluation, pc \in {"tick", "recover_evaluation"},
           NEW next \in {"SUCCEEDED", "PAUSED", "REPAIRING", "EVALUATING"},
           PersistEvaluation(next),
           next = "SUCCEEDED" => pending_evaluation.verdict = "PASS",
           resume_status' = IF next = "PAUSED" THEN "EVALUATING" ELSE "NONE",
           last_error' \in BOOLEAN,
           pc' \in {"tick", "pause_after_exit"}
             \cup (IF next = "REPAIRING" THEN {"open_repair"} ELSE {})
             \cup (IF next = "EVALUATING" THEN {"evidence_pause", "supplemental"} ELSE {})
    PROVE  IInv'
<1>0. Phase = "EVALUATING" /\ pending_evaluation.head = head /\ dispatch["evaluator"] = "none"
  BY DEF IInv, VerdictsMean
<1>1. \A o \in Owner : dispatch[o] = "none"
  BY <1>0 DEF IInv, DispatchesMean, InPhase
<1>2. /\ status' = next /\ latest_evaluation' = pending_evaluation
      /\ pending_evaluation' = NoEvaluation
      /\ UNCHANGED <<controller, plan, work, ledger, global_verification, memory, world,
                     bounds>>
  BY DEF PersistEvaluation
<1>3. Phase' = IF next = "PAUSED" THEN "EVALUATING" ELSE next
  BY <1>2 DEF Phase
<1>4. DispatchesMean' /\ StatusMeans'
  BY <1>1, <1>2 DEF DispatchesMean, StatusMeans
<1>5. VerdictsMean'
  BY <1>0, <1>2, <1>3 DEF IInv, VerdictsMean, Planned
<1>6. PlaceMeans'
  <2>1. dispatch'["planner"] = "none"
    BY <1>1, <1>2 DEF Owner, Role
  <2> QED
    BY <1>2, <2>1 DEF IInv, PlaceMeans
<1>7. NoEvaluation \in Evaluation
  BY LimitsAssumption DEF NoEvaluation, Evaluation
<1>8. /\ status' \in Active \cup Static /\ resume_status' \in Active \cup {"NONE"}
      /\ pc' \in Location
  BY <1>2 DEF Active, Static, Terminal, Location
<1> QED
  BY <1>2, <1>4, <1>5, <1>6, <1>7, <1>8, JudgementKeeps DEF IInv, TypeOK

LEMMA AcceptEvaluationKeeps ==
    ASSUME IInv, AcceptEvaluation
    PROVE  IInv'
<1>0. /\ pc \in {"tick", "recover_evaluation"} /\ pending_evaluation # NoEvaluation
      /\ AfterTick \in {"tick", "pause_after_exit"} /\ last_error \in BOOLEAN
  BY DEF AcceptEvaluation, Tick, AfterTick, IInv, TypeOK
<1>1. CASE pending_evaluation.verdict = "PASS" /\ AcceptPass
  BY <1>0, <1>1, PauseKeeps, RaiseKeeps, PersistEvaluationKeeps DEF AcceptPass
<1>2. CASE /\ pending_evaluation.verdict = "BLOCKED"
           /\ PersistEvaluation("PAUSED")
           /\ resume_status' = "EVALUATING" /\ last_error' = TRUE
           /\ pc' = AfterTick
  BY <1>0, <1>2, PersistEvaluationKeeps
<1>3. CASE /\ pending_evaluation.verdict = "NEEDS_REPAIR" /\ resume_status = "NONE"
           /\ PersistEvaluation("REPAIRING")
           /\ pc' = "open_repair"
           /\ UNCHANGED <<resume_status, last_error>>
  BY <1>0, <1>3, PersistEvaluationKeeps
<1>4. CASE /\ pending_evaluation.verdict = "UNVERIFIED" /\ resume_status = "NONE"
           /\ PersistEvaluation("EVALUATING")
           /\ \/ /\ pending_evaluation.evidence_round >= EvidenceRounds
                 /\ pc' = "evidence_pause"
              \/ /\ pending_evaluation.evidence_round < EvidenceRounds
                 /\ pc' \in {"supplemental", AfterTick}
           /\ UNCHANGED <<resume_status, last_error>>
  BY <1>0, <1>4, PersistEvaluationKeeps
<1>5. CASE Raise
  BY <1>5, RaiseKeeps
<1> QED
  BY <1>1, <1>2, <1>3, <1>4, <1>5 DEF AcceptEvaluation

LEMMA AfterVerdictKeeps ==
    ASSUME IInv, OpenRepairAfterEvaluation \/ EvidenceExhausted \/ RunSupplemental
    PROVE  IInv'
<1>1. CASE OpenRepairAfterEvaluation
  <2>1. /\ pc = "open_repair" /\ OpenRepair /\ status = "REPAIRING"
        /\ pending_evaluation = NoEvaluation
    BY <1>1 DEF IInv, PlaceMeans, OpenRepairAfterEvaluation
  <2>2. Phase = "REPAIRING" /\ dispatch["planner"] = "none"
    BY <2>1 DEF IInv, PlaceMeans, Phase
  <2>3. \A o \in Owner : dispatch[o] = "none"
    BY <2>2 DEF IInv, DispatchesMean, InPhase
  <2> QED
    BY <2>1, <2>3, OpenRepairKeeps
<1>2. CASE EvidenceExhausted
  BY <1>2, PauseKeeps DEF EvidenceExhausted
<1>3. CASE RunSupplemental
  <2>1. pc = "supplemental"
    BY <1>3 DEF RunSupplemental
  <2>2. CASE Pause
    BY <2>1, <2>2, PauseKeeps
  <2>3. CASE pc' = AfterTick /\ UNCHANGED <<runState, memory, world, bounds>>
    <3>1. TypeOK' /\ PlaceMeans'
      BY <2>1, <2>3 DEF IInv, TypeOK, PlaceMeans, Location, AfterTick
    <3> QED
      BY <2>1, <2>3, <3>1, PlaceFrame
  <2> QED
    BY <1>3, <2>2, <2>3 DEF RunSupplemental
<1> QED
  BY <1>1, <1>2, <1>3

-----------------------------------------------------------------------------
(***************************************************************************)
(* Stopping and recovery.                                                  *)
(***************************************************************************)
LEMMA StopRequestKeeps ==
    ASSUME IInv, IgnoreStop \/ UnlinkStop \/ BeginStop
    PROVE  IInv'
<1>1. pc \in {"tick", "recover_stop", "unlink_stop"}
  BY DEF IgnoreStop, UnlinkStop, BeginStop, Consuming
<1>2. pc' \in {"tick", "restore", "recover_evaluation", "unlink_stop", "stop_agents"}
  BY DEF IgnoreStop, UnlinkStop, BeginStop
<1>3. stop_request' \in {"none", "receipted", stop_request}
      /\ UNCHANGED <<runState, memory, stopper, agents, refMoved, bounds>>
  BY DEF IgnoreStop, UnlinkStop, BeginStop
<1>4. TypeOK'
  BY <1>2, <1>3 DEF IInv, TypeOK, Location
<1>5. pc' = "restore" => status = "STOPPED"
  BY DEF IgnoreStop, UnlinkStop, BeginStop
<1>6. pc' = "stop_agents" => stop_request' = "current"
  BY DEF IgnoreStop, UnlinkStop, BeginStop
<1>7. PlaceMeans'
  BY <1>1, <1>2, <1>3, <1>5, <1>6 DEF IInv, PlaceMeans
<1> QED
  BY <1>1, <1>3, <1>4, <1>7, PlaceFrame

\* The world moves on while the Controller stays where it is.
LEMMA WorldFrame ==
    ASSUME IInv, UNCHANGED <<runState, pc, memory>>,
           \A o \in Owner : agent'[o] \in Open => agent[o] \in Open,
           stop_request' = stop_request \/ stop_request = "none", TypeOK'
    PROVE  IInv'
<1>1. DispatchesMean' /\ StatusMeans' /\ TasksMean' /\ VerdictsMean'
  BY RunFrame
<1>2. PlaceMeans'
  BY DEF IInv, PlaceMeans, Phase
<1>3. QueueMeans'
  <2>1. \A i \in DOMAIN queue : queue[i] \in Owner
    BY LenProperties, ElementOfSeq DEF IInv, TypeOK
  <2> QED
    BY <2>1 DEF IInv, QueueMeans, InPhase, Assigned, Phase
<1>4. AgentsMean'
  BY DEF IInv, AgentsMean
<1>5. SlotsMean'
  BY SlotsFrame
<1> QED
  BY <1>1, <1>2, <1>3, <1>4, <1>5 DEF IInv

LEMMA StopAgentKeeps ==
    ASSUME IInv, NEW o \in Owner, StopAgent(o)
    PROVE  IInv'
<1>1. astray' \subseteq Owner /\ agent[o] \in Open
  BY DEF IInv, TypeOK, StopAgent, Unstopped
<1>2. CASE StopReturns(o)
  <2>1. TypeOK' /\ \A p \in Owner : agent'[p] \in Open => agent[p] \in Open
    BY <1>1, <1>2 DEF IInv, TypeOK, AgentState, StopReturns
  <2> QED
    BY <1>2, <2>1, WorldFrame DEF StopReturns
<1>3. CASE StopRaises(o)
  <2>1. PICK r \in {"stuck", "failed", "lost"} : agent' = [agent EXCEPT ![o] = r]
    BY <1>3 DEF StopRaises
  <2>2. /\ agent' \in [Owner -> AgentState]
        /\ \A p \in Owner : agent'[p] \in Open => agent[p] \in Open
    BY <1>1, <2>1 DEF IInv, TypeOK, AgentState
  <2> QED
    BY <1>1, <1>3, <2>2, ExitKeeps DEF StopRaises, IInv, TypeOK
<1> QED
  BY <1>2, <1>3 DEF StopAgent

\* Every open agent was bound, so all are stopped before the run is STOPPED; the
\* tasks of cancelled dispatches leave their slots.
LEMMA PersistStopKeeps ==
    ASSUME IInv, PersistStop
    PROVE  IInv'
<1>0. pc = "stop_agents"
  BY DEF PersistStop
<1>1. CASE status \notin Active
  BY <1>1, RaiseKeeps DEF PersistStop
<1>2. CASE status \in Active
  <2>0. /\ task' = [t \in Task |-> IF t \in Pending THEN "READY" ELSE task[t]]
        /\ active' = active \ Pending /\ dispatch' = [o \in Owner |-> "none"]
        /\ status' = "STOPPED" /\ resume_status' = status
        /\ controller' = FALSE /\ last_error' = TRUE
        /\ stop_request' = "receipted" /\ stopper' = Outdated(stopper)
        /\ pc' = "unlink_stop"
        /\ UNCHANGED <<plan, failure_count, head, verdicts, memory, agents, refMoved, bounds>>
    BY <1>2 DEF PersistStop
  <2>1. status \notin {"PAUSED", "STOPPED"} /\ Phase' = Phase
    BY <1>2, <2>0 DEF Phase, Active
  <2>2. \A t \in Task : /\ t \in Pending => task[t] = "RUNNING"
                        /\ task'[t] = IF t \in Pending THEN "READY" ELSE task[t]
    BY <2>0, PlansAssumption DEF IInv, DispatchesMean, Assigned, Pending, Owner
  <2>3. TypeOK'
    BY <1>2, <2>0 DEF IInv, TypeOK, Location, Static, Outdated
  <2>4. DispatchesMean'
    BY <2>0 DEF DispatchesMean
  <2>5. StatusMeans'
    BY <1>2, <2>0 DEF StatusMeans, Active
  <2>6. TasksMean'
    BY <2>0, <2>2 DEF IInv, TasksMean, Planned
  <2>7. VerdictsMean'
    <3>1. Planned' = Planned /\ Planned \subseteq Task
      BY <2>0, PlannedAreTasks DEF IInv, Planned
    <3>2. \A t \in Planned : task[t] = "COMPLETED" => task'[t] = "COMPLETED"
      BY <2>2, <3>1
    <3>3. dispatch'["evaluator"] = "none"
      BY <2>0 DEF Owner, Role
    <3> QED
      BY <2>0, <2>1, <3>1, <3>2, <3>3 DEF IInv, VerdictsMean
  <2>8. PlaceMeans'
    BY <1>0, <2>0 DEF IInv, PlaceMeans
  <2>9. QueueMeans'
    BY <1>0, <2>0, EmptyQueue DEF IInv, PlaceMeans
  <2>10. AgentsMean'
    <3>1. ASSUME NEW o \in Owner, agent[o] \in Open  PROVE FALSE
      <4>1. dispatch[o] = "bound"
        BY <1>0, <3>1 DEF IInv, TypeOK, AgentsMean
      <4> QED
        BY <3>1, <4>1 DEF PersistStop, Unstopped
    <3> QED
      BY <2>0, <3>1 DEF AgentsMean
  <2>11. SlotsMean'
    <3>1. Planned' = Planned /\ Planned \subseteq Task
      BY <2>0, PlannedAreTasks DEF IInv, Planned
    <3>2. InFlight' \subseteq InFlight /\ todo' = {} /\ todo = {}
      BY <1>0, <2>0, <2>2, <3>1 DEF IInv, PlaceMeans, InFlight, In
    <3> QED
      BY <3>2, SlotsShrink
  <2> QED
    BY <2>3, <2>4, <2>5, <2>6, <2>7, <2>8, <2>9, <2>10, <2>11 DEF IInv
<1> QED
  BY <1>1, <1>2

LEMMA ResumeKeeps ==
    ASSUME IInv, Resume
    PROVE  IInv'
<1>1. TypeOK' /\ PlaceMeans'
  BY DEF IInv, TypeOK, PlaceMeans, Location, Resume
<1>2. DispatchesMean' /\ StatusMeans' /\ TasksMean' /\ VerdictsMean'
  BY RunFrame DEF Resume
<1>3. QueueMeans'
  BY EmptyQueue DEF IInv, PlaceMeans, Resume
<1>4. AgentsMean'
  BY DEF IInv, AgentsMean, Resume
<1>5. SlotsMean'
  BY SlotsFrame DEF Resume
<1> QED
  BY <1>1, <1>2, <1>3, <1>4, <1>5 DEF IInv

LEMMA BindRecoveredHandleKeeps ==
    ASSUME IInv, NEW o \in Owner, BindRecoveredHandle(o)
    PROVE  IInv'
<1>0. /\ pc = "recover_dispatches" /\ dispatch[o] = "intent"
      /\ \A p \in Owner : dispatch'[p] = IF p = o THEN "bound" ELSE dispatch[p]
  BY DEF IInv, TypeOK, BindRecoveredHandle, Launched
<1>1. TypeOK'
  BY DEF IInv, TypeOK, BindRecoveredHandle
<1>2. DispatchesMean'
  BY <1>0 DEF IInv, DispatchesMean, InPhase, Assigned, Phase, BindRecoveredHandle
<1>3. StatusMeans'
  BY <1>0 DEF IInv, StatusMeans, BindRecoveredHandle
<1>4. TasksMean'
  BY DEF IInv, TasksMean, Planned, BindRecoveredHandle
<1>5. VerdictsMean'
  <2>1. dispatch["evaluator"] = "none" => dispatch'["evaluator"] = "none"
    BY <1>0 DEF Owner, Role
  <2> QED
    BY <2>1 DEF IInv, VerdictsMean, Phase, Planned, BindRecoveredHandle
<1>6. PlaceMeans'
  BY <1>0 DEF IInv, PlaceMeans, BindRecoveredHandle
<1>7. QueueMeans'
  BY <1>0, EmptyQueue DEF IInv, PlaceMeans, BindRecoveredHandle
<1>8. AgentsMean'
  BY <1>0 DEF IInv, AgentsMean, BindRecoveredHandle
<1>9. SlotsMean'
  BY SlotsFrame DEF BindRecoveredHandle
<1> QED
  BY <1>1, <1>2, <1>3, <1>4, <1>5, <1>6, <1>7, <1>8, <1>9 DEF IInv

LEMMA NothingToRecoverKeeps ==
    ASSUME IInv, NothingToRecover
    PROVE  IInv'
<1>1. TypeOK' /\ PlaceMeans'
  BY DEF IInv, TypeOK, PlaceMeans, Location, NothingToRecover
<1>2. DispatchesMean' /\ StatusMeans' /\ TasksMean' /\ VerdictsMean'
  BY RunFrame DEF NothingToRecover
<1>3. QueueMeans'
  BY EmptyQueue DEF IInv, PlaceMeans, NothingToRecover
<1>4. AgentsMean'
  BY DEF IInv, AgentsMean, NothingToRecover, Launched
<1>5. SlotsMean'
  BY SlotsFrame DEF NothingToRecover
<1> QED
  BY <1>1, <1>2, <1>3, <1>4, <1>5 DEF IInv

LEMMA PauseAfterExitKeeps ==
    ASSUME IInv, PauseAfterExit
    PROVE  IInv'
<1>0. pc = "pause_after_exit"
  BY DEF PauseAfterExit
<1>1. CASE status \in Active
  <2>0. /\ status' = "PAUSED" /\ resume_status' = status /\ pc' = "restore"
        /\ controller' = FALSE /\ last_error' = TRUE
        /\ stop_request' = Outdated(stop_request) /\ stopper' = Outdated(stopper)
        /\ UNCHANGED <<plan, work, ledger, verdicts, memory, agents, refMoved, bounds>>
    BY <1>1 DEF PauseAfterExit, NewToken, Active, Terminal
  <2>1. Phase' = Phase /\ status \notin {"PAUSED", "STOPPED"}
    BY <1>1, <2>0 DEF Phase, Active
  <2>2. TypeOK'
    BY <1>1, <2>0 DEF IInv, TypeOK, Location, Static, Outdated
  <2>3. DispatchesMean'
    BY <2>0, <2>1 DEF IInv, DispatchesMean, InPhase, Assigned
  <2>4. StatusMeans'
    BY <1>1, <2>0 DEF StatusMeans, Active
  <2>5. TasksMean'
    BY <2>0 DEF IInv, TasksMean, Planned
  <2>6. VerdictsMean'
    BY <2>0, <2>1 DEF IInv, VerdictsMean, Planned
  <2>7. PlaceMeans'
    BY <1>0, <2>0 DEF IInv, PlaceMeans
  <2>8. QueueMeans'
    BY <1>0, <2>0, EmptyQueue DEF IInv, PlaceMeans
  <2>9. AgentsMean'
    BY <1>0, <2>0 DEF IInv, AgentsMean
  <2>10. SlotsMean'
    BY <2>0, SlotsFrame
  <2> QED
    BY <2>2, <2>3, <2>4, <2>5, <2>6, <2>7, <2>8, <2>9, <2>10 DEF IInv
<1>2. CASE status \in {"PAUSED", "STOPPED"}
  <2>0. pc' = "restore" /\ UNCHANGED <<runState, memory, world, bounds>>
    BY <1>2 DEF PauseAfterExit, Active, Terminal
  <2>1. TypeOK' /\ PlaceMeans'
    BY <1>0, <1>2, <2>0 DEF IInv, TypeOK, PlaceMeans, Location
  <2> QED
    BY <1>0, <2>0, <2>1, PlaceFrame
<1>3. CASE status \in Terminal
  BY <1>3, RaiseKeeps DEF PauseAfterExit, Active, Terminal
<1> QED
  BY <1>1, <1>2, <1>3 DEF PauseAfterExit

\* The phase goes on, and the dispatches without an agent are queued, each once.
LEMMA RestoreKeeps ==
    ASSUME IInv, Restore
    PROVE  IInv'
<1>0. /\ pc = "restore" /\ status \in {"PAUSED", "STOPPED"} /\ resume_status \in Active
      /\ todo = {}
  BY DEF IInv, TypeOK, PlaceMeans, StatusMeans, Restore
<1>1. status' \in Active /\ status' \notin {"PAUSED", "STOPPED"} /\ Phase' = Phase
  BY <1>0 DEF Restore, Phase, Active
<1>2. Unlaunched \in SUBSET Owner
  BY DEF Unlaunched
<1>3. /\ queue' \in Seq(Owner) /\ \A i \in DOMAIN queue' : queue'[i] \in Unlaunched
      /\ \A i, j \in DOMAIN queue' : queue'[i] = queue'[j] => i = j
  BY <1>2, SetToSeqOnce DEF Restore, IsInjective
<1>4. \A o \in Owner : (InPhase(o)' <=> InPhase(o)) /\ (Assigned(o)' <=> Assigned(o))
  BY <1>1 DEF InPhase, Assigned, Restore
<1>5. TypeOK'
  BY <1>0, <1>3 DEF IInv, TypeOK, Location, Restore, NewToken, Outdated
<1>6. DispatchesMean'
  BY <1>4 DEF IInv, DispatchesMean, Restore
<1>7. StatusMeans'
  BY <1>1 DEF StatusMeans, Restore
<1>8. TasksMean'
  BY DEF IInv, TasksMean, Planned, Restore
<1>9. VerdictsMean'
  BY <1>1 DEF IInv, VerdictsMean, Planned, Restore
<1>10. PlaceMeans'
  BY <1>0, <1>1 DEF PlaceMeans, Restore
<1>11. QueueMeans'
  <2>1. \A o \in Unlaunched : /\ o \in Owner /\ dispatch[o] = "intent" /\ agent[o] \notin Open
                              /\ InPhase(o) /\ Assigned(o)
                              /\ o = "evaluator" => pending_evaluation = NoEvaluation
    BY DEF Unlaunched, Launched, IInv, DispatchesMean, VerdictsMean
  <2>2. ASSUME NEW i \in DOMAIN queue'
        PROVE  /\ InPhase(queue[i])' /\ Assigned(queue[i])' /\ dispatch'[queue'[i]] # "bound"
               /\ agent'[queue'[i]] \notin Open
               /\ queue'[i] = "evaluator" => pending_evaluation' = NoEvaluation
    <3>1. queue'[i] \in Unlaunched
      BY <1>3
    <3>2. InPhase(queue[i])' /\ Assigned(queue[i])'
      BY <1>1, <2>1, <3>1 DEF InPhase, Assigned, Restore
    <3> QED
      BY <2>1, <3>1, <3>2 DEF Restore
  <2> QED
    BY <1>3, <2>2 DEF QueueMeans
<1>12. AgentsMean'
  BY <1>0 DEF IInv, AgentsMean, Restore
<1>13. SlotsMean'
  BY SlotsFrame DEF Restore
<1> QED
  BY <1>5, <1>6, <1>7, <1>8, <1>9, <1>10, <1>11, <1>12, <1>13 DEF IInv

-----------------------------------------------------------------------------
(***************************************************************************)
(* The environment.                                                        *)
(***************************************************************************)
LEMMA EnvironmentKeeps ==
    ASSUME IInv, LoadToken \/ RequestStop \/ MoveRef
    PROVE  IInv'
<1>0. CASE LoadToken
  <2>1. stops' \in 0 .. MaxStops
    BY <1>0, BoundsAssumption DEF IInv, TypeOK, LoadToken
  <2>2. TypeOK'
    BY <1>0, <2>1 DEF IInv, TypeOK, LoadToken
  <2> QED
    BY <1>0, <2>2, WorldFrame DEF LoadToken
<1>1. CASE RequestStop
  <2>1. TypeOK'
    BY <1>1 DEF IInv, TypeOK, RequestStop
  <2> QED
    BY <1>1, <2>1, WorldFrame DEF RequestStop
<1>2. CASE MoveRef
  <2>1. moves' \in 0 .. MaxMoves
    BY <1>2, BoundsAssumption DEF IInv, TypeOK, MoveRef
  <2>2. TypeOK'
    BY <1>2, <2>1 DEF IInv, TypeOK, MoveRef
  <2> QED
    BY <1>2, <2>2, WorldFrame DEF MoveRef
<1> QED
  BY <1>0, <1>1, <1>2

LEMMA AgentKeeps ==
    ASSUME IInv, NEW o \in Owner, AgentEnds(o) \/ AgentLost(o) \/ AstrayEnds(o)
    PROVE  IInv'
<1>0. CASE AstrayEnds(o)
  <2>1. TypeOK'
    BY <1>0 DEF IInv, TypeOK, AstrayEnds
  <2> QED
    BY <1>0, <2>1, WorldFrame DEF AstrayEnds
<1>1. CASE AgentEnds(o) \/ AgentLost(o)
  <2>1. PICK r \in {"lost", "failed"} \cup Outcome(o) :
            /\ agent' = [agent EXCEPT ![o] = r] /\ astray' \subseteq Owner
            /\ UNCHANGED <<runState, pc, memory, requests, refMoved, stops, moves>>
    BY <1>1 DEF AgentEnds, AgentLost, IInv, TypeOK
  <2>2. r \in AgentState /\ agent[o] \in Open
    BY <1>1, OutcomeAssumption DEF Outcome, AgentState, AgentEnds, AgentLost
  <2>3. crashes' \in 0 .. MaxCrashes
    BY <1>1, BoundsAssumption DEF IInv, TypeOK, AgentEnds, AgentLost
  <2>4. TypeOK' /\ \A p \in Owner : agent'[p] \in Open => agent[p] \in Open
    BY <2>1, <2>2, <2>3 DEF IInv, TypeOK
  <2> QED
    BY <2>1, <2>4, WorldFrame
<1> QED
  BY <1>0, <1>1

LEMMA CrashKeeps ==
    ASSUME IInv, Crash
    PROVE  IInv'
<1>1. crashes' \in 0 .. MaxCrashes
  BY BoundsAssumption DEF IInv, TypeOK, Crash
<1>2. /\ agent' \in [Owner -> AgentState]
      /\ \A o \in Owner : agent'[o] \in Open => agent[o] \in Open \/ dispatch[o] # "none"
  <2>1. CASE agent' = agent
    BY <2>1 DEF IInv, TypeOK
  <2>2. CASE pc = "start" /\ \E r \in {"forked", "failed", "lost"} :
                                agent' = [agent EXCEPT ![Head(queue)] = r]
    <3>1. Head(queue) \in Owner /\ dispatch[Head(queue)] = "intent"
      BY <2>2, HeadOfQueue DEF IInv, PlaceMeans
    <3> QED
      BY <2>2, <3>1 DEF IInv, TypeOK, AgentState
  <2> QED
    BY <2>1, <2>2 DEF Crash
<1> QED
  BY <1>1, <1>2, ExitKeeps DEF Crash, IInv, TypeOK

-----------------------------------------------------------------------------
\* Every step of every process keeps the invariant.
LEMMA StepKeeps ==
    ASSUME IInv, [Next]_vars
    PROVE  IInv'
<1>1. CASE Dispatching
  BY <1>1, StartPlannerKeeps, StartEvaluatorKeeps, PromoteReadyKeeps, StartWorkersKeeps,
     AllocateWorkerKeeps, PersistIntentKeeps, StartProviderKeeps, BindHandleKeeps
     DEF Dispatching
<1>2. CASE Polling
  BY <1>2, PollPlannerKeeps, PollEvaluatorKeeps, PollEndsKeeps, PollWorkerKeeps DEF Polling
<1>3. CASE \E t \in Task : Closing(t)
  BY <1>3, IntegrateKeeps, RejectKeeps DEF Closing
<1>4. CASE Judging
  BY <1>4, TasksCompletedKeeps, RunGlobalVerificationKeeps, AcceptEvaluationKeeps,
     AfterVerdictKeeps DEF Judging
<1>5. CASE Stopping
  BY <1>5, StopRequestKeeps, StopAgentKeeps, PersistStopKeeps DEF Stopping
<1>6. CASE Recovering
  BY <1>6, NothingToRecoverKeeps, PauseAfterExitKeeps, RestoreKeeps, BindRecoveredHandleKeeps
     DEF Recovering
<1>7. CASE Execute \/ DriveEnds
  BY <1>7, ExecuteKeeps, RaiseKeeps DEF DriveEnds
<1>8. CASE Resume \/ LoadToken \/ RequestStop \/ Crash \/ MoveRef
  BY <1>8, ResumeKeeps, EnvironmentKeeps, CrashKeeps
<1>9. CASE \E o \in Owner : AgentEnds(o) \/ AgentLost(o) \/ AstrayEnds(o)
  BY <1>9, AgentKeeps
<1>10. CASE UNCHANGED vars
  <2>1. TypeOK'
    BY <1>10 DEF IInv, TypeOK, vars
  <2> QED
    BY <1>10, <2>1, WorldFrame DEF vars
<1> QED
  BY <1>1, <1>2, <1>3, <1>4, <1>5, <1>6, <1>7, <1>8, <1>9, <1>10 DEF Next, Controller

\* The inductive invariant: what is dispatched, in flight, verified and judged fits the
\* phase of the run, and what is in the Controller's memory fits what is on disk.
THEOREM RunInvariant == Spec => []IInv
<1>1. Init => IInv
  BY InitHolds
<1>2. IInv /\ [Next]_vars => IInv'
  BY StepKeeps
<1> QED
  BY <1>1, <1>2, PTL DEF Spec

\* Whatever combination of crash, stop and failure a transaction starts from, what it
\* commits passes validate_run_state.
THEOREM RunStateIsValid == Spec => []ValidRunState
<1>1. IInv => ValidRunState
  <2> SUFFICES ASSUME IInv  PROVE ValidRunState
    OBVIOUS
  <2>1. status \in Terminal => Phase = status
    BY DEF Terminal, Phase
  <2>2. status \in Terminal => Pending = {} /\ pending_evaluation = NoEvaluation
    BY <2>1 DEF IInv, DispatchesMean, VerdictsMean, InPhase, Pending, Terminal
  <2>3. \A o \in Pending : IF o \in Role THEN o \in active ELSE task[o] = "RUNNING"
    BY DEF IInv, DispatchesMean, Assigned, Pending
  <2> QED
    BY <2>2, <2>3 DEF IInv, StatusMeans, ValidRunState
<1> QED
  BY <1>1, RunInvariant, PTL

\* No agent is written off before its end is on record, whether it runs, is lost or makes
\* stop raise: its dispatch is pending, and a run that is STOPPED or over has no such agent.
THEOREM AgentsStayOwned == Spec => []AgentsAreOwned
<1>1. IInv => AgentsAreOwned
  <2> SUFFICES ASSUME IInv  PROVE AgentsAreOwned
    OBVIOUS
  <2>1. \A o \in Owner : agent[o] \in Open => o \in Pending
    BY DEF IInv, AgentsMean, Pending
  <2>2. status \in Terminal \cup {"STOPPED"} => Pending = {}
    <3>1. status \in Terminal => Phase = status
      BY DEF Terminal, Phase
    <3> QED
      BY <3>1 DEF IInv, DispatchesMean, StatusMeans, InPhase, Pending, Terminal
  <2> QED
    BY <2>1, <2>2 DEF AgentsAreOwned
<1> QED
  BY <1>1, RunInvariant, PTL

\* At most max_workers Workers, no two of them overlapping, across crashes and resumes.
THEOREM WorkersKeepApart == Spec => []WorkersDoNotCollide
<1>1. IInv => WorkersDoNotCollide
  <2> SUFFICES ASSUME IInv  PROVE WorkersDoNotCollide
    OBVIOUS
  <2>1. InFlight \cup todo \subseteq Task /\ InFlight \subseteq InFlight \cup todo
    BY PlannedAreTasks DEF IInv, TypeOK, InFlight, In
  <2>2. /\ Cardinality(InFlight) <= Cardinality(InFlight \cup todo)
        /\ Cardinality(InFlight) \in Nat /\ Cardinality(InFlight \cup todo) \in Nat
    BY <2>1, TaskIsFinite, FS_Subset, FS_CardinalityType
  <2>3. Cardinality(InFlight) <= MaxWorkers
    BY <2>2, LimitsAssumption DEF IInv, SlotsMean
  <2>4. {t \in Task : agent[t] = "running"} \subseteq InFlight
    <3>1. ASSUME NEW t \in Task, agent[t] = "running"
          PROVE  task[t] = "RUNNING" /\ t \in Planned
      BY <3>1, PlansAssumption
         DEF IInv, AgentsMean, DispatchesMean, Assigned, TasksMean, Owner
    <3> QED
      BY <3>1 DEF InFlight, In
  <2> QED
    BY <2>3, <2>4 DEF IInv, SlotsMean, WorkersDoNotCollide
<1> QED
  BY <1>1, RunInvariant, PTL

\* What the Evaluator judges is the head that was verified, with every task in it.
THEOREM EvaluationsAreFresh == Spec => []EvaluationIsFresh
<1>1. IInv => EvaluationIsFresh
  <2> SUFFICES ASSUME IInv, dispatch["evaluator"] # "none" \/ pending_evaluation # NoEvaluation
               PROVE  /\ AllCompleted /\ global_verification = {head}
                      /\ pending_evaluation # NoEvaluation => pending_evaluation.head = head
    BY DEF EvaluationIsFresh
  <2>1. Phase = "EVALUATING"
    BY PlansAssumption DEF IInv, DispatchesMean, VerdictsMean, InPhase, Owner, Role
  <2> QED
    BY <2>1 DEF IInv, VerdictsMean, AllCompleted, In
<1> QED
  BY <1>1, RunInvariant, PTL

\* A run that is SUCCEEDED has integrated all it planned, and that head was verified and
\* judged PASS.
THEOREM SuccessesAreEarned == Spec => []SuccessIsEarned
<1>1. IInv => SuccessIsEarned
  <2> SUFFICES ASSUME IInv, status = "SUCCEEDED"
               PROVE  /\ AllCompleted /\ head = Planned /\ global_verification = {head}
                      /\ latest_evaluation.verdict = "PASS" /\ latest_evaluation.head = head
    BY DEF SuccessIsEarned
  <2>1. Phase = "SUCCEEDED"
    BY DEF Phase
  <2>2. AllCompleted
    BY <2>1 DEF IInv, VerdictsMean, AllCompleted, In
  <2>3. head = Planned
    BY <2>2, PlannedAreTasks DEF IInv, TypeOK, TasksMean, AllCompleted, In
  <2> QED
    BY <2>1, <2>2, <2>3 DEF IInv, VerdictsMean
<1> QED
  BY <1>1, RunInvariant, PTL

-----------------------------------------------------------------------------
(***************************************************************************)
(* Steps that a run may never take.                                        *)
(***************************************************************************)

\* Only _persist_stop_outcome makes a run STOPPED.
LEMMA StopsTheRun ==
    ASSUME IInv, Next, status' = "STOPPED", status # "STOPPED"
    PROVE  PersistStop
<1>0. status' # status
  OBVIOUS
<1>1. ~ Dispatching
  BY <1>0 DEF Dispatching, StartPlanner, StartEvaluator, PromoteReady, StartWorkers,
     AllocateWorker, PersistIntent, StartProvider, BindHandle, Tick, Raise
<1>2. ~ Polling
  <2>1. \A t \in Task : ~ PollWorker(t)
    BY <1>0 DEF PollWorker, AcceptResult, PauseBlockedWorker, FreezeFailedWorker, CloseFailed,
       FailedRefused, Raise
  <2> QED
    BY <1>0, <2>1 DEF Polling, PollPlanner, PollEvaluator, PollEnds, AcceptPlan, CloseRoleFailure,
       PrepareEvaluation, Raise
<1>3. \A t \in Task : ~ Closing(t)
  BY <1>0 DEF Closing, Integrate, Reject, CloseFailed, FailedRefused, Raise
<1>4. ~ Judging
  BY <1>0 DEF Judging, TasksCompleted, RunGlobalVerification, AcceptEvaluation, AcceptPass,
     PersistEvaluation, OpenRepairAfterEvaluation, OpenRepair, EvidenceExhausted,
     RunSupplemental, Pause, Raise
<1>5. ~ Recovering
  <2>1. ~ Restore
    BY DEF Restore, IInv, TypeOK, Active
  <2> QED
    BY <1>0, <2>1 DEF Recovering, NothingToRecover, PauseAfterExit, BindRecoveredHandle, Raise
<1>6. ~ (Execute \/ DriveEnds \/ Resume \/ LoadToken \/ RequestStop \/ Crash \/ MoveRef)
      /\ \A o \in Owner : ~ AgentEnds(o) /\ ~ AgentLost(o) /\ ~ AstrayEnds(o)
  BY <1>0 DEF Execute, DriveEnds, Resume, LoadToken, RequestStop, Crash, MoveRef, AgentEnds,
     AgentLost, AstrayEnds, Raise
<1>7. Stopping => PersistStop
  BY <1>0 DEF Stopping, IgnoreStop, UnlinkStop, BeginStop, StopAgent, StopReturns, StopRaises
<1> QED
  BY <1>1, <1>2, <1>3, <1>4, <1>5, <1>6, <1>7 DEF Next, Controller

\* A run is stopped by a request that is addressed to its Controller and still has no
\* receipt; the step that stops it writes the receipt.
THEOREM StopsAreAddressed == Spec => StopIsAddressed
<1>1. ASSUME IInv, [Next]_vars
      PROVE  [status' = "STOPPED" /\ status # "STOPPED" =>
                stop_request = "current" /\ stop_request' = "receipted"]_vars
  <2>1. CASE Next /\ status' = "STOPPED" /\ status # "STOPPED"
    <3>1. PersistStop
      BY <1>1, <2>1, StopsTheRun
    <3>2. stop_request = "current" /\ stop_request' = "receipted"
      BY <1>1, <2>1, <3>1 DEF PersistStop, IInv, PlaceMeans, Raise
    <3> QED
      BY <3>2
  <2> QED
    BY <1>1, <2>1
<1> QED
  BY <1>1, RunInvariant, PTL DEF Spec, StopIsAddressed

\* In a terminal run nothing is dispatched, pending or waiting to be judged, so no place
\* of the Controller that commits to the status or the work is reachable.
LEMMA TerminalStays ==
    ASSUME IInv, Next, status \in Terminal
    PROVE  UNCHANGED <<status, plan, work, verdicts>>
<1>0. /\ status \in {"SUCCEEDED", "FAILED"} /\ Phase = status /\ status \notin Active
      /\ \A o \in Owner : dispatch[o] = "none"
      /\ pending_evaluation = NoEvaluation
      /\ pc \notin {"allocate", "intent", "start", "bind", "open_repair", "evidence_pause",
                    "supplemental", "restore"}
  <2>1. status \in {"SUCCEEDED", "FAILED"} /\ Phase = status /\ status \notin Active
    BY DEF Terminal, Phase, Active
  <2> QED
    BY <2>1 DEF IInv, DispatchesMean, InPhase, VerdictsMean, PlaceMeans
<1>1. CASE Dispatching
  BY <1>0, <1>1 DEF Dispatching, StartPlanner, StartEvaluator, PromoteReady, StartWorkers,
     AllocateWorker, PersistIntent, StartProvider, BindHandle, Tick
<1>2. CASE Polling
  <2>1. \A t \in Task : ~ PollWorker(t)
    BY <1>0 DEF PollWorker, Owner
  <2> QED
    BY <1>0, <1>2, <2>1 DEF Polling, PollPlanner, PollEvaluator, PollEnds, Tick
<1>3. \A t \in Task : ~ Closing(t)
  BY <1>0 DEF Closing, Integrate, Reject, Tick
<1>4. ~ Judging
  BY <1>0 DEF Judging, TasksCompleted, RunGlobalVerification, AcceptEvaluation,
     OpenRepairAfterEvaluation, EvidenceExhausted, RunSupplemental, Tick
<1>5. CASE Recovering
  BY <1>0, <1>5 DEF Recovering, NothingToRecover, PauseAfterExit, Restore, BindRecoveredHandle,
     Raise
<1>6. CASE Stopping
  BY <1>0, <1>6 DEF Stopping, IgnoreStop, UnlinkStop, BeginStop, PersistStop, StopAgent,
     StopReturns, StopRaises, Raise
<1>7. CASE \/ Execute \/ DriveEnds \/ Resume \/ LoadToken \/ RequestStop \/ Crash \/ MoveRef
           \/ \E o \in Owner : AgentEnds(o) \/ AgentLost(o) \/ AstrayEnds(o)
  BY <1>7 DEF Execute, DriveEnds, Resume, LoadToken, RequestStop, Crash, MoveRef, AgentEnds,
     AgentLost, AstrayEnds, Raise
<1> QED
  BY <1>1, <1>2, <1>3, <1>4, <1>5, <1>6, <1>7 DEF Next, Controller

\* Whatever requests, restarts and crashes follow, a SUCCEEDED or FAILED run keeps its
\* status, its plan, its integrated work and its verdicts.
THEOREM TerminalsAreFinal == Spec => TerminalIsFinal
<1>1. ASSUME IInv, [Next]_vars
      PROVE  [(status \in Terminal) => UNCHANGED <<status, plan, work, verdicts>>]_vars
  BY <1>1, TerminalStays
<1> QED
  BY <1>1, RunInvariant, PTL DEF Spec, TerminalIsFinal
=============================================================================
