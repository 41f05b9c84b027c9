-------------------------- MODULE SchedulerProofs ---------------------------
(***************************************************************************)
(* Proofs about plans and scopes, for every set of documents and paths and *)
(* every limit: Workers never write what they have not seen, start from    *)
(* what they depend on, and leave no criterion behind; the order of tasks  *)
(* is the least one, a round is never stuck, and the gate only grows.      *)
(***************************************************************************)
EXTENDS Scheduler, SequenceTheorems, FiniteSetTheorems, TLAPS

\* A strict prefix, element by element.
LEMMA StrictPrefix ==
    ASSUME NEW s \in Seq(STRING), NEW t \in Seq(STRING)
    PROVE  IsStrictPrefix(s, t) <=> Len(s) < Len(t) /\ \A n \in 1 .. Len(s) : s[n] = t[n]
<1>1. Len(s) \in Nat /\ Len(t) \in Nat
  BY LenProperties
<1>2. SubSeq(s, 1, Len(s)) = s
  BY <1>1, SubSeqProperties
<1>3. ASSUME Len(s) <= Len(t)
      PROVE  SubSeq(t, 1, Len(s)) = s <=> \A n \in 1 .. Len(s) : s[n] = t[n]
  <2>1. /\ Len(SubSeq(t, 1, Len(s))) = Len(s)
        /\ \A n \in 1 .. Len(s) : SubSeq(t, 1, Len(s))[n] = t[n]
        /\ SubSeq(t, 1, Len(s)) \in Seq(STRING)
    BY <1>1, <1>3, SubSeqProperties, ElementOfSeq
  <2> QED
    BY <2>1, SeqEqual
<1>4. Len(s) = Len(t) /\ (\A n \in 1 .. Len(s) : s[n] = t[n]) => s = t
  BY SeqEqual
<1> QED
  BY <1>1, <1>2, <1>3, <1>4 DEF IsStrictPrefix, IsPrefix

\* Two scopes that contain a common path overlap, whatever their forms.
LEMMA CommonPath ==
    ASSUME NEW l \in Scope, NEW r \in Scope, NEW p \in Seq(STRING),
           ScopeContains(l, p), ScopeContains(r, p)
    PROVE  \/ l.path = r.path
           \/ l.directory /\ PathMatchesScope(r.path, l)
           \/ r.directory /\ PathMatchesScope(l.path, r)
<1>1. l.path \in Seq(STRING) /\ r.path \in Seq(STRING)
      /\ l.directory \in BOOLEAN /\ r.directory \in BOOLEAN
  BY DEF Scope
<1>2. CASE ~ l.directory \/ ~ r.directory
  BY <1>1, <1>2 DEF ScopeContains, PathMatchesScope
<1>3. CASE l.directory /\ r.directory
  <2>1. /\ Len(l.path) < Len(p) /\ \A n \in 1 .. Len(l.path) : l.path[n] = p[n]
        /\ Len(r.path) < Len(p) /\ \A n \in 1 .. Len(r.path) : r.path[n] = p[n]
    BY <1>1, <1>3, StrictPrefix DEF ScopeContains
  <2>2. Len(l.path) \in Nat /\ Len(r.path) \in Nat
    BY <1>1, LenProperties
  <2>3. CASE Len(l.path) = Len(r.path)
    <3>1. \A n \in 1 .. Len(l.path) : l.path[n] = r.path[n]
      BY <2>1, <2>3
    <3> QED
      BY <1>1, <2>3, <3>1, SeqEqual
  <2>4. CASE Len(l.path) < Len(r.path)
    <3>1. \A n \in 1 .. Len(l.path) : l.path[n] = r.path[n]
      BY <2>1, <2>2, <2>4
    <3> QED
      BY <1>1, <1>3, <2>4, <3>1, StrictPrefix DEF PathMatchesScope
  <2>5. CASE Len(r.path) < Len(l.path)
    <3>1. \A n \in 1 .. Len(r.path) : r.path[n] = l.path[n]
      BY <2>1, <2>2, <2>5
    <3> QED
      BY <1>1, <1>3, <2>5, <3>1, StrictPrefix DEF PathMatchesScope
  <2> QED
    BY <2>2, <2>3, <2>4, <2>5
<1> QED
  BY <1>1, <1>2, <1>3

\* Scopes are disjoint in both directions or in none.
LEMMA OverlapSymmetric ==
    ASSUME NEW L, NEW R PROVE ScopesOverlap(L, R) <=> ScopesOverlap(R, L)
BY DEF ScopesOverlap

LEMMA ApartSymmetric ==
    ASSUME NEW i, NEW j PROVE Apart(i, j) <=> Apart(j, i)
BY OverlapSymmetric DEF Apart

\* The contract of a task is the one of a plan that has its ID.
LEMMA ContractTyped ==
    ASSUME TypeOK, NEW i \in DOMAIN tasks
    PROVE  Contract(i) \in AllTasks(plans) /\ Contract(i) \in TaskContract /\ Contract(i).id = i
<1>1. \E t \in AllTasks(plans) : t.id = i
  BY DEF TypeOK, Ids
<1>2. Contract(i) \in AllTasks(plans) /\ Contract(i).id = i
  BY <1>1 DEF Contract
<1>3. \A n \in DOMAIN plans : plans[n] \in PlanDocument
  BY ElementOfSeq, LenProperties DEF TypeOK
<1>4. AllTasks(plans) \subseteq TaskContract
  BY <1>3 DEF AllTasks, PlanDocument
<1> QED
  BY <1>2, <1>4

\* Tasks that are apart cannot both be audited for one path.
LEMMA ApartPaths ==
    ASSUME TypeOK, NEW i \in DOMAIN tasks, NEW j \in DOMAIN tasks, Apart(i, j),
           NEW p \in Seq(STRING),
           NEW l \in Contract(i).path_scope, NEW r \in Contract(j).path_scope,
           ScopeContains(l, p)
    PROVE  ~ ScopeContains(r, p)
<1>1. l \in Scope /\ r \in Scope
  BY ContractTyped DEF TaskContract
<1>2. ~ (\/ l.path = r.path
         \/ l.directory /\ PathMatchesScope(r.path, l)
         \/ r.directory /\ PathMatchesScope(l.path, r))
  BY DEF Apart, ScopesOverlap
<1> QED
  BY <1>1, <1>2, CommonPath

-----------------------------------------------------------------------------
\* What depends on the plans alone stays while they do.
LEMMA PlansFrame ==
    ASSUME plans' = plans
    PROVE  /\ AllTasks(plans') = AllTasks(plans)
           /\ \A i : Contract(i)' = Contract(i)
           /\ \A i, j : Apart(i, j) => Apart(i, j)'
           /\ CriteriaHold => CriteriaHold'
<1>1. AllTasks(plans') = AllTasks(plans)
  OBVIOUS
<1>2. \A i : Contract(i)' = Contract(i)
  BY DEF Contract
<1>3. \A i, j : Apart(i, j) => Apart(i, j)'
  BY <1>2 DEF Apart
<1>4. CriteriaHold => CriteriaHold'
  BY DEF CriteriaHold
<1> QED
  BY <1>1, <1>2, <1>3, <1>4

\* Append keeps what is there and adds one at the end.
LEMMA AppendFacts ==
    ASSUME NEW S, NEW s \in Seq(S), NEW e \in S
    PROVE  /\ Append(s, e) \in Seq(S)
           /\ Len(s) \in Nat /\ Len(Append(s, e)) = Len(s) + 1
           /\ DOMAIN s = 1 .. Len(s) /\ DOMAIN Append(s, e) = 1 .. Len(s) + 1
           /\ \A n \in 1 .. Len(s) : Append(s, e)[n] = s[n]
           /\ Append(s, e)[Len(s) + 1] = e
BY AppendProperties, LenProperties

\* Before the first plan there is nothing.
LEMMA InitHolds == Init => IInv
<1> SUFFICES ASSUME Init PROVE IInv
  OBVIOUS
<1>1. plans = <<>> /\ tasks = <<>> /\ integrated = <<>> /\ status = "PLANNING"
  BY DEF Init
<1>2. AllTasks(plans) = {}
  BY <1>1 DEF AllTasks
<1>3. DOMAIN tasks = {}
  BY <1>1
<1>4. TypeOK
  BY <1>1, <1>2, <1>3 DEF TypeOK, Ids
<1>5. InFlight = {} /\ \A st : Having(st) = {}
  BY <1>3 DEF InFlight, Having
<1> QED
  BY <1>1, <1>3, <1>4, <1>5 DEF IInv, RoundIsOver, DeltaIsKept, ReservationsHold,
     DependenciesHold, CriteriaHold

\* A new plan joins COMPLETED tasks: nothing is in flight, nothing is READY.
LEMMA AcceptPlanStep ==
    ASSUME IInv, NEW d \in Documents, AcceptPlan(d)
    PROVE  IInv'
<1>1. d \in PlanDocument /\ plans \in Seq(PlanDocument)
  BY InputAssumption DEF IInv, TypeOK
<1>2. plans' = Append(plans, d) /\ integrated' = integrated /\ status' = "EXECUTING"
  BY DEF AcceptPlan
<1>3. /\ plans' \in Seq(PlanDocument)
      /\ Len(plans) \in Nat /\ DOMAIN plans = 1 .. Len(plans)
      /\ DOMAIN plans' = 1 .. Len(plans) + 1
      /\ \A n \in 1 .. Len(plans) : plans'[n] = plans[n]
      /\ plans'[Len(plans) + 1] = d
  BY <1>1, <1>2, AppendFacts
<1>4. AllTasks(plans') = AllTasks(plans) \cup d.tasks
  BY <1>3 DEF AllTasks
<1>5. DOMAIN tasks = Ids(AllTasks(plans)) /\ \A i \in DOMAIN tasks : tasks[i] \in TaskState
  BY DEF IInv, TypeOK
<1>6. Ids(AllTasks(plans')) = DOMAIN tasks \cup Ids(d.tasks)
  BY <1>4, <1>5 DEF Ids
<1>7. /\ DOMAIN tasks' = DOMAIN tasks \cup Ids(d.tasks)
      /\ \A i \in DOMAIN tasks' : tasks'[i] = IF i \in DOMAIN tasks THEN tasks[i] ELSE NewTask
  BY DEF AcceptPlan
<1>8. NewTask \in TaskState /\ NewTask.status = "PENDING" /\ NewTask.delta = <<>>
  BY DEF NewTask, TaskState
<1>9. TypeOK'
  <2>1. tasks' = [i \in DOMAIN tasks \cup Ids(d.tasks) |->
                    IF i \in DOMAIN tasks THEN tasks[i] ELSE NewTask]
    BY DEF AcceptPlan
  <2>2. tasks' \in [Ids(AllTasks(plans')) -> TaskState]
    BY <1>5, <1>6, <1>8, <2>1
  <2> QED
    BY <1>2, <1>3, <2>2 DEF TypeOK, IInv
<1>10. \A i \in DOMAIN tasks : tasks[i].status = "COMPLETED"
  BY DEF IInv, RoundIsOver, Having, AcceptPlan
<1>11. \A i \in DOMAIN tasks' : tasks'[i].status \in {"COMPLETED", "PENDING"}
  BY <1>7, <1>8, <1>10
<1>12. InFlight' = {} /\ Having("READY")' = {}
  BY <1>11 DEF InFlight, Having
<1>13. RoundIsOver'
  BY <1>2 DEF RoundIsOver
<1>14. DeltaIsKept'
  BY <1>2, <1>7, <1>8, <1>10, <1>11 DEF IInv, DeltaIsKept
<1>15. CriteriaHold'
  <2>1. /\ plans # <<>> => d.acceptance_criteria = plans[1].acceptance_criteria
        /\ d.acceptance_criteria \subseteq UNION {t.covers : t \in AllTasks(plans) \cup d.tasks}
    BY DEF AcceptPlan, ValidatePlan, ValidateAcceptance
  <2>2. CASE plans = <<>>
    <3>1. DOMAIN plans' = {1} /\ plans'[1] = d
      BY <1>3, <2>2
    <3> QED
      BY <1>4, <2>1, <3>1 DEF CriteriaHold
  <2>3. CASE plans # <<>>
    <3>1. Len(plans) >= 1
      BY <1>1, <1>3, <2>3, EmptySeq
    <3>2. plans'[1] = plans[1]
      BY <1>3, <3>1
    <3>3. ASSUME NEW n \in DOMAIN plans'
          PROVE  plans'[n].acceptance_criteria = plans[1].acceptance_criteria
      <4>1. CASE n \in 1 .. Len(plans)
        BY <1>3, <4>1 DEF IInv, CriteriaHold
      <4>2. CASE n = Len(plans) + 1
        BY <1>3, <2>1, <2>3, <4>2
      <4> QED
        BY <1>3, <4>1, <4>2
    <3>4. plans[1].acceptance_criteria \subseteq UNION {t.covers : t \in AllTasks(plans')}
      BY <1>4, <2>1, <2>3
    <3> QED
      BY <3>2, <3>3, <3>4 DEF CriteriaHold
  <2> QED
    BY <2>2, <2>3
<1>16. ReservationsHold' /\ DependenciesHold'
  BY <1>12 DEF ReservationsHold, DependenciesHold
<1> QED
  BY <1>9, <1>13, <1>14, <1>15, <1>16 DEF IInv

\* A Worker leaves its change, which the audit held to the scope.
LEMMA WorkerEndsStep ==
    ASSUME IInv, NEW i \in DOMAIN tasks, NEW p \in Paths, WorkerEnds(i, p)
    PROVE  IInv'
<1>1. plans' = plans /\ integrated' = integrated /\ status' = status /\ status = "EXECUTING"
  BY DEF WorkerEnds
<1>2. TypeOK /\ tasks \in [Ids(AllTasks(plans)) -> TaskState]
  BY DEF IInv, TypeOK
<1>3. /\ tasks' \in [Ids(AllTasks(plans)) -> TaskState]
      /\ DOMAIN tasks' = DOMAIN tasks
      /\ \A k \in DOMAIN tasks : k # i => tasks'[k] = tasks[k]
      /\ tasks'[i].status = "READY_TO_INTEGRATE" /\ tasks'[i].delta = p
      /\ tasks'[i].base = tasks[i].base
      /\ tasks[i].status = "RUNNING"
  BY <1>2 DEF WorkerEnds, TaskState
<1>4. TypeOK'
  BY <1>1, <1>2, <1>3 DEF TypeOK
<1>5. /\ InFlight' = InFlight /\ i \in InFlight
      /\ Having("COMPLETED")' = Having("COMPLETED") /\ Having("READY")' = Having("READY")
  BY <1>3 DEF InFlight, Having
<1>6. \A k : Contract(k)' = Contract(k)
  BY <1>1, PlansFrame
<1>7. RoundIsOver'
  BY <1>1 DEF RoundIsOver
<1>8. DeltaIsKept'
  <2>1. p # <<>> /\ Audited(Contract(i), p)
    BY InputAssumption DEF WorkerEnds
  <2>2. \A k, q : Audited(Contract(k), q) => Audited(Contract(k)', q)
    BY <1>6
  <2> QED
    BY <1>1, <1>3, <2>1, <2>2 DEF IInv, DeltaIsKept
<1>9. ReservationsHold'
  <2>1. \A k, j \in InFlight : k # j => Apart(k, j)'
    BY <1>1, PlansFrame DEF IInv, ReservationsHold
  <2>2. \A k \in InFlight : tasks'[k].base = tasks[k].base
    BY <1>3 DEF InFlight
  <2> QED
    BY <1>1, <1>5, <1>6, <2>1, <2>2 DEF IInv, ReservationsHold
<1>10. DependenciesHold'
  <2>1. \A k \in InFlight : tasks'[k].base = tasks[k].base
    BY <1>3 DEF InFlight
  <2>2. \A j \in Having("COMPLETED") : tasks'[j].delta = tasks[j].delta
    BY <1>3 DEF Having
  <2> QED
    BY <1>1, <1>5, <1>6, <2>1, <2>2 DEF IInv, DependenciesHold
<1>11. CriteriaHold'
  BY <1>1, PlansFrame DEF IInv
<1> QED
  BY <1>4, <1>7, <1>8, <1>9, <1>10, <1>11 DEF IInv

\* A task that fails gives up its change and its reservation.
LEMMA FailStep ==
    ASSUME IInv, NEW i \in InFlight, status = "EXECUTING", Fail(i)
    PROVE  IInv'
<1>1. plans' = plans /\ integrated' = integrated /\ status' \in {"EXECUTING", "FAILED"}
  BY DEF Fail
<1>2. TypeOK /\ tasks \in [Ids(AllTasks(plans)) -> TaskState] /\ i \in DOMAIN tasks
  BY DEF IInv, TypeOK, InFlight
<1>3. /\ tasks' \in [Ids(AllTasks(plans)) -> TaskState]
      /\ DOMAIN tasks' = DOMAIN tasks
      /\ \A k \in DOMAIN tasks : k # i => tasks'[k] = tasks[k]
      /\ tasks'[i].status \in {"READY", "FAILED"} /\ tasks'[i].delta = <<>>
  <2>1. PICK st \in {"READY", "FAILED"} :
          tasks' = [tasks EXCEPT ![i].failure_count = tasks[i].failure_count + 1,
                                 ![i].delta = <<>>, ![i].status = st]
    BY DEF Fail
  <2>2. tasks[i] \in TaskState /\ tasks[i].failure_count \in Nat
    BY <1>2 DEF TaskState
  <2>3. tasks'[i] = [tasks[i] EXCEPT !.failure_count = tasks[i].failure_count + 1,
                                     !.delta = <<>>, !.status = st]
    BY <1>2, <2>1
  <2>4. PICK e \in Paths \cup {<<>>} : e = <<>>
    OBVIOUS
  <2>5. PICK f \in Nat : f = tasks[i].failure_count + 1
    BY <2>2
  <2>6. tasks'[i] = [tasks[i] EXCEPT !.failure_count = f, !.delta = e, !.status = st]
    BY <2>3, <2>4, <2>5
  <2>7. tasks'[i] \in TaskState /\ tasks'[i].status = st /\ tasks'[i].delta = e
    BY <2>2, <2>6 DEF TaskState
  <2> QED
    BY <1>2, <2>1, <2>4, <2>7
<1>4. TypeOK'
  BY <1>1, <1>2, <1>3 DEF TypeOK
<1>5. /\ InFlight' = InFlight \ {i}
      /\ Having("COMPLETED")' = Having("COMPLETED")
      /\ Having("READY")' \subseteq Having("READY") \cup {i}
  BY <1>3 DEF InFlight, Having
<1>6. \A k : Contract(k)' = Contract(k)
  BY <1>1, PlansFrame
<1>7. RoundIsOver'
  BY <1>1 DEF RoundIsOver
<1>8. DeltaIsKept'
  <2>1. \A k, q : Audited(Contract(k), q) => Audited(Contract(k)', q)
    BY <1>6
  <2> QED
    BY <1>1, <1>3, <2>1 DEF IInv, DeltaIsKept
<1>9. ReservationsHold'
  <2>1. \A k, j \in InFlight : k # j => Apart(k, j)'
    BY <1>1, PlansFrame DEF IInv, ReservationsHold
  <2>2. \A k \in InFlight \ {i} : tasks'[k].base = tasks[k].base
    BY <1>3 DEF InFlight
  <2> QED
    BY <1>1, <1>5, <1>6, <2>1, <2>2 DEF IInv, ReservationsHold
<1>10. DependenciesHold'
  <2>1. \A k \in InFlight \ {i} : tasks'[k].base = tasks[k].base
    BY <1>3 DEF InFlight
  <2>2. \A j \in Having("COMPLETED") : tasks'[j].delta = tasks[j].delta
    BY <1>3 DEF Having, InFlight
  <2> QED
    BY <1>1, <1>5, <1>6, <2>1, <2>2 DEF IInv, DependenciesHold
<1>11. CriteriaHold'
  BY <1>1, PlansFrame DEF IInv
<1> QED
  BY <1>4, <1>7, <1>8, <1>9, <1>10, <1>11 DEF IInv

\* A change that is integrated is outside the scopes of all that stay in flight.
LEMMA IntegrateStep ==
    ASSUME IInv, NEW i \in Having("READY_TO_INTEGRATE"),
           tasks' = [tasks EXCEPT ![i].status = "COMPLETED"],
           integrated' = Append(integrated, tasks[i].delta),
           status = "EXECUTING", UNCHANGED <<status, plans>>
    PROVE  IInv'
<1>1. plans' = plans /\ status' = "EXECUTING"
  OBVIOUS
<1>2. /\ TypeOK /\ tasks \in [Ids(AllTasks(plans)) -> TaskState] /\ i \in DOMAIN tasks
      /\ tasks[i].status = "READY_TO_INTEGRATE" /\ i \in InFlight
  BY DEF IInv, TypeOK, Having, InFlight
<1>3. /\ tasks' \in [Ids(AllTasks(plans)) -> TaskState]
      /\ DOMAIN tasks' = DOMAIN tasks
      /\ \A k \in DOMAIN tasks : k # i => tasks'[k] = tasks[k]
      /\ \A k \in DOMAIN tasks : tasks'[k].delta = tasks[k].delta
      /\ tasks'[i].status = "COMPLETED"
  BY <1>2 DEF TaskState
<1>4. /\ tasks[i].delta \in Paths /\ tasks[i].delta \in Seq(STRING)
      /\ \E s \in Contract(i).path_scope : ScopeContains(s, tasks[i].delta)
  BY <1>2, InputAssumption DEF IInv, DeltaIsKept, Audited, TaskState
<1>5. /\ integrated \in Seq(Paths) /\ integrated' \in Seq(Paths)
      /\ Len(integrated) \in Nat /\ Len(integrated') = Len(integrated) + 1
      /\ DOMAIN integrated = 1 .. Len(integrated)
      /\ DOMAIN integrated' = 1 .. Len(integrated) + 1
      /\ \A n \in 1 .. Len(integrated) : integrated'[n] = integrated[n]
      /\ integrated'[Len(integrated) + 1] = tasks[i].delta
  BY <1>2, <1>4, AppendFacts DEF TypeOK
<1>6. TypeOK'
  BY <1>1, <1>2, <1>3, <1>5 DEF TypeOK
<1>7. /\ InFlight' = InFlight \ {i}
      /\ Having("COMPLETED")' = Having("COMPLETED") \cup {i}
      /\ Having("READY")' = Having("READY")
  BY <1>2, <1>3 DEF InFlight, Having
<1>8. \A k : Contract(k)' = Contract(k)
  BY <1>1, PlansFrame
<1>9. RoundIsOver'
  BY <1>1 DEF RoundIsOver
<1>10. DeltaIsKept'
  <2>1. \A k, q : Audited(Contract(k), q) => Audited(Contract(k)', q)
    BY <1>8
  <2>2. ToSet(integrated) \subseteq ToSet(integrated') /\ tasks[i].delta \in ToSet(integrated')
    BY <1>5 DEF ToSet
  <2> QED
    BY <1>2, <1>3, <2>1, <2>2 DEF IInv, DeltaIsKept
<1>11. \A k \in InFlight : tasks[k].base \in Nat /\ (k # i => tasks'[k].base = tasks[k].base)
  BY <1>2, <1>3 DEF InFlight, TaskState
<1>12. ReservationsHold'
  <2>1. \A k, j \in InFlight : k # j => Apart(k, j)'
    BY <1>1, PlansFrame DEF IInv, ReservationsHold
  <2>2. ASSUME NEW k \in InFlight \ {i},
               NEW n \in tasks[k].base + 1 .. Len(integrated) + 1,
               NEW s \in Contract(k).path_scope
        PROVE  ~ ScopeContains(s, integrated'[n])
    <3>1. CASE n = Len(integrated) + 1
      <4>1. Apart(i, k) /\ k \in DOMAIN tasks
        BY <1>2 DEF IInv, ReservationsHold, InFlight
      <4>2. PICK l \in Contract(i).path_scope : ScopeContains(l, tasks[i].delta)
        BY <1>4
      <4> QED
        BY <1>2, <1>4, <1>5, <3>1, <4>1, <4>2, ApartPaths
    <3>2. CASE n # Len(integrated) + 1
      <4>1. n \in tasks[k].base + 1 .. Len(integrated) /\ n \in 1 .. Len(integrated)
        BY <1>5, <1>11, <3>2
      <4> QED
        BY <1>5, <4>1 DEF IInv, ReservationsHold
    <3> QED
      BY <3>1, <3>2
  <2>3. \A k \in InFlight : tasks[k].base <= Len(integrated) + 1
    BY <1>5, <1>11 DEF IInv, ReservationsHold
  <2> QED
    BY <1>5, <1>7, <1>8, <1>11, <2>1, <2>2, <2>3 DEF ReservationsHold
<1>13. DependenciesHold'
  <2>1. \A k \in InFlight : tasks[k].base <= Len(integrated)
    BY DEF IInv, ReservationsHold
  <2>2. ASSUME NEW k \in InFlight \ {i}, NEW j \in Contract(k).depends_on
        PROVE  \E n \in 1 .. tasks[k].base : integrated'[n] = tasks'[j].delta
    <3>1. PICK n \in 1 .. tasks[k].base : integrated[n] = tasks[j].delta
      BY DEF IInv, DependenciesHold
    <3>2. j \in DOMAIN tasks
      BY DEF IInv, DependenciesHold, Having
    <3>3. integrated'[n] = integrated[n]
      BY <1>5, <1>11, <2>1, <3>1
    <3> QED
      BY <1>3, <3>1, <3>2, <3>3
  <2>3. \A k \in Having("READY")' \cup InFlight' :
          Contract(k)'.depends_on \subseteq Having("COMPLETED")'
    BY <1>7, <1>8 DEF IInv, DependenciesHold
  <2>4. ASSUME NEW k \in InFlight', NEW j \in Contract(k)'.depends_on
        PROVE  \E n \in 1 .. tasks'[k].base : integrated'[n] = tasks'[j].delta
    <3>1. k \in InFlight \ {i} /\ tasks'[k].base = tasks[k].base
      BY <1>7, <1>11
    <3>2. j \in Contract(k).depends_on
      BY <1>8
    <3> QED
      BY <2>2, <3>1, <3>2
  <2> QED
    BY <2>3, <2>4 DEF DependenciesHold
<1>14. CriteriaHold'
  BY <1>1, PlansFrame DEF IInv
<1> QED
  BY <1>6, <1>9, <1>10, <1>12, <1>13, <1>14 DEF IInv

\* A promoted task has its dependencies on the run ref.
LEMMA PromoteReadyStep ==
    ASSUME IInv, PromoteReady
    PROVE  IInv'
<1>1. plans' = plans /\ integrated' = integrated /\ status' = status /\ status = "EXECUTING"
  BY DEF PromoteReady
<1>2. TypeOK /\ tasks \in [Ids(AllTasks(plans)) -> TaskState]
  BY DEF IInv, TypeOK
<1>3. \A i \in Promotable : i \in DOMAIN tasks /\ tasks[i].status = "PENDING"
                           /\ Contract(i).depends_on \subseteq Having("COMPLETED")
  BY DEF Promotable, Having
<1>4. /\ tasks' \in [Ids(AllTasks(plans)) -> TaskState]
      /\ DOMAIN tasks' = DOMAIN tasks
      /\ \A k \in DOMAIN tasks : k \notin Promotable => tasks'[k] = tasks[k]
      /\ \A k \in DOMAIN tasks : /\ tasks'[k].delta = tasks[k].delta
                                 /\ tasks'[k].base = tasks[k].base
      /\ \A k \in Promotable : tasks'[k].status = "READY"
  <2>1. ASSUME NEW k \in DOMAIN tasks
        PROVE  LET e == [tasks[k] EXCEPT !.status = "READY"]
               IN  /\ e \in TaskState /\ e.delta = tasks[k].delta /\ e.base = tasks[k].base
                   /\ e.status = "READY"
    BY <1>2 DEF TaskState
  <2> QED
    BY <1>2, <1>3, <2>1 DEF PromoteReady
<1>5. TypeOK'
  BY <1>1, <1>2, <1>4 DEF TypeOK
<1>6. /\ InFlight' = InFlight
      /\ Having("COMPLETED")' = Having("COMPLETED")
      /\ Having("READY")' = Having("READY") \cup Promotable
  BY <1>3, <1>4 DEF InFlight, Having
<1>7. \A k : Contract(k)' = Contract(k)
  BY <1>1, PlansFrame
<1>8. RoundIsOver'
  BY <1>1 DEF RoundIsOver
<1>9. DeltaIsKept'
  <2>1. \A k, q : Audited(Contract(k), q) => Audited(Contract(k)', q)
    BY <1>7
  <2>2. \A k \in Promotable : tasks[k].delta = <<>>
    BY <1>3 DEF IInv, DeltaIsKept
  <2> QED
    BY <1>1, <1>3, <1>4, <2>1, <2>2 DEF IInv, DeltaIsKept
<1>10. \A k \in InFlight : tasks'[k].base = tasks[k].base
  BY <1>4 DEF InFlight
<1>11. ReservationsHold'
  <2>1. \A k, j \in InFlight : k # j => Apart(k, j)'
    BY <1>1, PlansFrame DEF IInv, ReservationsHold
  <2> QED
    BY <1>1, <1>6, <1>7, <1>10, <2>1 DEF IInv, ReservationsHold
<1>12. DependenciesHold'
  <2>1. \A j \in Having("COMPLETED") : tasks'[j].delta = tasks[j].delta
    BY <1>4 DEF Having
  <2> QED
    BY <1>1, <1>3, <1>6, <1>7, <1>10, <2>1 DEF IInv, DependenciesHold
<1>13. CriteriaHold'
  BY <1>1, PlansFrame DEF IInv
<1> QED
  BY <1>5, <1>8, <1>9, <1>11, <1>12, <1>13 DEF IInv

\* Two of a selection are apart: one comes before the other.
LEMMA SelectionApart ==
    ASSUME NEW S \in Selection, NEW i \in S, NEW j \in S \cup InFlight, i # j
    PROVE  Apart(i, j) /\ tasks[i].status = "READY"
<1>1. S \subseteq ToSet(Order) /\ Dispatchable(S)
  BY DEF Selection
<1>2. \A k \in S : /\ tasks[k].status = "READY"
                   /\ \A l \in InFlight \cup Earlier(S, k) : Apart(k, l)
  BY <1>1 DEF Dispatchable
<1>3. CASE j \in InFlight
  BY <1>2, <1>3
<1>4. CASE j \in S
  <2>1. DOMAIN Order = 1 .. Cardinality(Ids(AllTasks(plans)))
    BY DEF Order, TopologicalOrder
  <2>2. PICK m \in DOMAIN Order : Order[m] = i
    BY <1>1 DEF ToSet
  <2>3. PICK n \in DOMAIN Order : Order[n] = j
    BY <1>1, <1>4 DEF ToSet
  <2>4. m \in Int /\ n \in Int /\ m >= 1 /\ n >= 1 /\ m # n
    BY <2>1, <2>2, <2>3
  <2>5. CASE n < m
    <3>1. n \in 1 .. m - 1
      BY <2>4, <2>5
    <3>2. j \in Earlier(S, i)
      BY <1>4, <2>2, <2>3, <3>1 DEF Earlier
    <3> QED
      BY <1>2, <3>2
  <2>6. CASE m < n
    <3>1. m \in 1 .. n - 1
      BY <2>4, <2>6
    <3>2. i \in Earlier(S, j)
      BY <2>2, <2>3, <3>1 DEF Earlier
    <3> QED
      BY <1>2, <1>4, <3>2, ApartSymmetric
  <2> QED
    BY <2>4, <2>5, <2>6
<1> QED
  BY <1>3, <1>4

\* A Worker that starts is apart from all in flight and has seen every change.
LEMMA StartWorkersStep ==
    ASSUME IInv, StartWorkers
    PROVE  IInv'
<1>1. plans' = plans /\ integrated' = integrated /\ status' = status /\ status = "EXECUTING"
  BY DEF StartWorkers
<1>2. TypeOK /\ tasks \in [Ids(AllTasks(plans)) -> TaskState]
      /\ integrated \in Seq(Paths) /\ Len(integrated) \in Nat
      /\ DOMAIN integrated = 1 .. Len(integrated)
  BY LenProperties DEF IInv, TypeOK
<1>3. PICK S \in Selection :
        tasks' = [i \in DOMAIN tasks |->
                    IF i \in S
                      THEN [tasks[i] EXCEPT !.status = "RUNNING", !.base = Len(integrated)]
                      ELSE tasks[i]]
  BY DEF StartWorkers
<1>4. \A k \in S : tasks[k].status = "READY"
  BY DEF Selection, Dispatchable
<1>5. /\ tasks' \in [Ids(AllTasks(plans)) -> TaskState]
      /\ DOMAIN tasks' = DOMAIN tasks
      /\ \A k \in DOMAIN tasks : k \notin S => tasks'[k] = tasks[k]
      /\ \A k \in DOMAIN tasks : tasks'[k].delta = tasks[k].delta
      /\ \A k \in DOMAIN tasks : k \in S => /\ tasks'[k].status = "RUNNING"
                                            /\ tasks'[k].base = Len(integrated)
  <2>1. ASSUME NEW k \in DOMAIN tasks
        PROVE  LET e == [tasks[k] EXCEPT !.status = "RUNNING", !.base = Len(integrated)]
               IN  /\ e \in TaskState /\ e.delta = tasks[k].delta
                   /\ e.base = Len(integrated) /\ e.status = "RUNNING"
    BY <1>2 DEF TaskState
  <2> QED
    BY <1>2, <1>3, <2>1
<1>6. TypeOK'
  BY <1>1, <1>2, <1>5 DEF TypeOK
<1>7. /\ InFlight' = InFlight \cup (S \cap DOMAIN tasks)
      /\ InFlight \cap S = {}
      /\ Having("COMPLETED")' = Having("COMPLETED")
      /\ Having("READY")' \subseteq Having("READY")
      /\ S \cap DOMAIN tasks \subseteq Having("READY")
  BY <1>4, <1>5 DEF InFlight, Having
<1>8. \A k : Contract(k)' = Contract(k)
  BY <1>1, PlansFrame
<1>9. RoundIsOver'
  BY <1>1 DEF RoundIsOver
<1>10. DeltaIsKept'
  <2>1. \A k, q : Audited(Contract(k), q) => Audited(Contract(k)', q)
    BY <1>8
  <2>2. \A k \in DOMAIN tasks : k \in S => tasks[k].delta = <<>>
    BY <1>4 DEF IInv, DeltaIsKept
  <2> QED
    BY <1>1, <1>4, <1>5, <2>1, <2>2 DEF IInv, DeltaIsKept
<1>11. \A k \in InFlight : k \in DOMAIN tasks /\ tasks'[k].base = tasks[k].base
  BY <1>5, <1>7 DEF InFlight
<1>12. ReservationsHold'
  <2>1. ASSUME NEW k \in InFlight', NEW j \in InFlight', k # j
        PROVE  Apart(k, j)
    <3>1. CASE k \in S
      BY <1>7, <2>1, <3>1, SelectionApart
    <3>2. CASE j \in S
      BY <1>7, <2>1, <3>2, SelectionApart, ApartSymmetric
    <3>3. CASE k \in InFlight /\ j \in InFlight
      BY <2>1, <3>3 DEF IInv, ReservationsHold
    <3> QED
      BY <1>7, <3>1, <3>2, <3>3
  <2>2. ASSUME NEW k \in InFlight'
        PROVE  /\ tasks'[k].base <= Len(integrated)
               /\ \A n \in tasks'[k].base + 1 .. Len(integrated) :
                    \A s \in Contract(k).path_scope : ~ ScopeContains(s, integrated[n])
    <3>1. CASE k \in InFlight
      BY <1>11, <3>1 DEF IInv, ReservationsHold
    <3>2. CASE k \in S /\ k \in DOMAIN tasks
      BY <1>2, <1>5, <3>2
    <3> QED
      BY <1>7, <3>1, <3>2
  <2>3. \A k, j \in InFlight' : k # j => Apart(k, j)'
    BY <1>1, <2>1, PlansFrame
  <2> QED
    BY <1>1, <1>8, <2>2, <2>3 DEF ReservationsHold
<1>13. DependenciesHold'
  <2>1. \A j \in Having("COMPLETED") : /\ tasks'[j].delta = tasks[j].delta
                                       /\ tasks[j].delta \in ToSet(integrated)
    BY <1>5 DEF Having, IInv, DeltaIsKept
  <2>2. \A k \in Having("READY") \cup InFlight : Contract(k).depends_on \subseteq Having("COMPLETED")
    BY DEF IInv, DependenciesHold
  <2>3. ASSUME NEW k \in InFlight', NEW j \in Contract(k).depends_on
        PROVE  \E n \in 1 .. tasks'[k].base : integrated[n] = tasks'[j].delta
    <3>1. j \in Having("COMPLETED")
      BY <1>7, <2>2
    <3>2. CASE k \in InFlight
      BY <1>11, <2>1, <3>1, <3>2 DEF IInv, DependenciesHold
    <3>3. CASE k \in S /\ k \in DOMAIN tasks
      BY <1>2, <1>5, <2>1, <3>1, <3>3 DEF ToSet
    <3> QED
      BY <1>7, <3>2, <3>3
  <2>4. \A k \in Having("READY")' \cup InFlight' : Contract(k).depends_on \subseteq Having("COMPLETED")
    BY <1>7, <2>2
  <2> QED
    BY <1>1, <1>7, <1>8, <2>3, <2>4 DEF DependenciesHold
<1>14. CriteriaHold'
  BY <1>1, PlansFrame DEF IInv
<1> QED
  BY <1>6, <1>9, <1>10, <1>12, <1>13, <1>14 DEF IInv

\* A step that moves the status alone.
LEMMA PhaseStep ==
    ASSUME IInv, plans' = plans, tasks' = tasks, integrated' = integrated,
           status' \in {"PLANNING", "EXECUTING", "GLOBAL_VERIFYING", "FAILED"}, RoundIsOver'
    PROVE  IInv'
<1>1. TypeOK'
  BY DEF IInv, TypeOK
<1>2. /\ \A k : Contract(k)' = Contract(k)
      /\ CriteriaHold'
      /\ \A k, j : Apart(k, j) => Apart(k, j)'
  BY PlansFrame DEF IInv
<1>3. InFlight' = InFlight /\ \A st : Having(st)' = Having(st)
  BY DEF InFlight, Having
<1>4. DeltaIsKept'
  <2>1. \A k, q : Audited(Contract(k), q) => Audited(Contract(k)', q)
    BY <1>2
  <2> QED
    BY <2>1 DEF IInv, DeltaIsKept
<1>5. ReservationsHold' /\ DependenciesHold'
  BY <1>2, <1>3 DEF IInv, ReservationsHold, DependenciesHold
<1> QED
  BY <1>1, <1>2, <1>4, <1>5 DEF IInv

\* IInv is inductive (every action of the Scheduler and its Workers).
LEMMA StepKeepsIInv == ASSUME IInv, [Next]_vars PROVE IInv'
<1>1. CASE \E d \in Documents : AcceptPlan(d)
  BY <1>1, AcceptPlanStep
<1>2. CASE Integrate
  <2>1. PICK i \in Having("READY_TO_INTEGRATE") :
          \/ /\ tasks' = [tasks EXCEPT ![i].status = "COMPLETED"]
             /\ integrated' = Append(integrated, tasks[i].delta)
             /\ UNCHANGED <<status, plans>>
          \/ Fail(i)
    BY <1>2 DEF Integrate
  <2>2. status = "EXECUTING" /\ i \in InFlight
    BY <1>2 DEF Integrate, Having, InFlight
  <2>3. CASE Fail(i)
    BY <2>2, <2>3, FailStep
  <2>4. CASE /\ tasks' = [tasks EXCEPT ![i].status = "COMPLETED"]
             /\ integrated' = Append(integrated, tasks[i].delta)
             /\ UNCHANGED <<status, plans>>
    BY <2>2, <2>4, IntegrateStep
  <2> QED
    BY <2>1, <2>3, <2>4
<1>3. CASE FinishRound
  <2>1. /\ plans' = plans /\ tasks' = tasks /\ integrated' = integrated
        /\ status' = "GLOBAL_VERIFYING"
    BY <1>3 DEF FinishRound
  <2>2. RoundIsOver'
    BY <1>3, <2>1 DEF FinishRound, RoundIsOver, Having
  <2> QED
    BY <2>1, <2>2, PhaseStep
<1>4. CASE PromoteReady
  BY <1>4, PromoteReadyStep
<1>5. CASE StartWorkers
  BY <1>5, StartWorkersStep
<1>6. CASE Repair
  <2>1. /\ plans' = plans /\ tasks' = tasks /\ integrated' = integrated
        /\ status = "GLOBAL_VERIFYING" /\ status' = "PLANNING"
    BY <1>6 DEF Repair
  <2>2. RoundIsOver'
    BY <2>1 DEF IInv, RoundIsOver, Having
  <2> QED
    BY <2>1, <2>2, PhaseStep
<1>7. CASE \E i \in DOMAIN tasks : WorkerFails(i)
  <2>1. PICK i \in DOMAIN tasks : WorkerFails(i)
    BY <1>7
  <2>2. i \in InFlight /\ status = "EXECUTING" /\ Fail(i)
    BY <2>1 DEF WorkerFails, InFlight
  <2> QED
    BY <2>2, FailStep
<1>8. CASE \E i \in DOMAIN tasks : \E p \in Paths : WorkerEnds(i, p)
  BY <1>8, WorkerEndsStep
<1>9. CASE UNCHANGED vars
  <2>1. plans' = plans /\ tasks' = tasks /\ integrated' = integrated /\ status' = status
    BY <1>9 DEF vars
  <2>2. RoundIsOver' /\ status' \in {"PLANNING", "EXECUTING", "GLOBAL_VERIFYING", "FAILED"}
    BY <2>1 DEF IInv, TypeOK, RoundIsOver, Having
  <2> QED
    BY <2>1, <2>2, PhaseStep
<1>10. ASSUME Next
       PROVE  \/ \E d \in Documents : AcceptPlan(d)
              \/ Integrate \/ FinishRound \/ PromoteReady \/ StartWorkers \/ Repair
              \/ \E i \in DOMAIN tasks : WorkerFails(i)
              \/ \E i \in DOMAIN tasks : \E p \in Paths : WorkerEnds(i, p)
  BY <1>10, Zenon DEF Next
<1> QED
  BY <1>1, <1>2, <1>3, <1>4, <1>5, <1>6, <1>7, <1>8, <1>9, <1>10

\* The invariant holds of every run (validate_plan, promote_ready, dispatchable).
THEOREM SchedulerInvariant == Spec => []IInv
<1>1. Init => IInv
  BY InitHolds
<1>2. IInv /\ [Next]_vars => IInv'
  BY StepKeepsIInv
<1> QED
  BY <1>1, <1>2, PTL DEF Spec

\* No Worker writes a path that changed after its base, or that another one in flight
\* writes, for every form and nesting of scopes (scopes_overlap, dispatchable,
\* _validate_scope).
THEOREM ScopesKeepWorkersApart == Spec => []NoStaleWrite
<1>1. ASSUME IInv PROVE NoStaleWrite
  <2> SUFFICES ASSUME NEW i \in InFlight, tasks[i].delta # <<>>
               PROVE  /\ \A n \in tasks[i].base + 1 .. Len(integrated) :
                           integrated[n] # tasks[i].delta
                      /\ \A j \in InFlight \ {i} : tasks[j].delta # tasks[i].delta
    BY DEF NoStaleWrite
  <2>1. TypeOK /\ i \in DOMAIN tasks /\ tasks[i] \in TaskState
    BY <1>1 DEF IInv, TypeOK, InFlight
  <2>2. \A k \in InFlight : /\ k \in DOMAIN tasks
                            /\ tasks[k].delta # <<>> => Audited(Contract(k), tasks[k].delta)
    BY <1>1 DEF IInv, DeltaIsKept, InFlight
  <2>3. PICK l \in Contract(i).path_scope : ScopeContains(l, tasks[i].delta)
    BY <2>2 DEF Audited
  <2>4. tasks[i].delta \in Seq(STRING)
    BY <2>1, InputAssumption DEF TaskState
  <2>5. \A n \in tasks[i].base + 1 .. Len(integrated) : integrated[n] # tasks[i].delta
    BY <1>1, <2>3 DEF IInv, ReservationsHold
  <2>6. ASSUME NEW j \in InFlight \ {i}, tasks[j].delta = tasks[i].delta PROVE FALSE
    <3>1. Apart(i, j) /\ j \in DOMAIN tasks
      BY <1>1 DEF IInv, ReservationsHold, InFlight
    <3>2. PICK r \in Contract(j).path_scope : ScopeContains(r, tasks[i].delta)
      BY <2>2, <2>6 DEF Audited
    <3> QED
      BY <2>1, <2>3, <2>4, <3>1, <3>2, ApartPaths
  <2> QED
    BY <2>5, <2>6
<1> QED
  BY <1>1, SchedulerInvariant, PTL

\* A task in flight started from a head that holds what it depends on, across plans
\* (promote_ready, start_attempt).
THEOREM DependenciesComeFirst == Spec => []BaseHasDependencies
<1>1. ASSUME IInv PROVE BaseHasDependencies
  BY <1>1 DEF IInv, DependenciesHold, BaseHasDependencies, Having
<1> QED
  BY <1>1, SchedulerInvariant, PTL

\* When the Evaluator is asked, each criterion of the first plan has its task on the run
\* ref, after any number of repair plans (validate_plan, _validate_acceptance).
THEOREM NoCriterionIsLost == Spec => []CriteriaAreMet
<1>1. ASSUME IInv PROVE CriteriaAreMet
  <2> SUFFICES ASSUME status = "GLOBAL_VERIFYING", NEW n \in DOMAIN plans
               PROVE  /\ plans[n].acceptance_criteria = plans[1].acceptance_criteria
                      /\ \A c \in plans[n].acceptance_criteria : \E t \in AllTasks(plans) :
                            c \in t.covers /\ tasks[t.id].delta \in ToSet(integrated)
    BY DEF CriteriaAreMet
  <2>1. \A t \in AllTasks(plans) : t.id \in DOMAIN tasks
    BY <1>1 DEF IInv, TypeOK, Ids
  <2>2. \A i \in DOMAIN tasks : tasks[i].delta \in ToSet(integrated)
    BY <1>1 DEF IInv, RoundIsOver, Having, DeltaIsKept
  <2> QED
    BY <1>1, <2>1, <2>2 DEF IInv, CriteriaHold
<1> QED
  BY <1>1, SchedulerInvariant, PTL

-----------------------------------------------------------------------------
(***************************************************************************)
(* The order of tasks.  Induction over numbers goes by the least of a set. *)
(***************************************************************************)
\* A set of numbers has a least one.
LEMMA LeastNumber ==
    ASSUME NEW S \in SUBSET Nat, S # {}
    PROVE  \E n \in S : \A m \in S : n <= m
<1> DEFINE to(n) == 0 .. n
           T == {to(n) : n \in S}
<1>1. T \subseteq FiniteSubsetsOf(Nat)
  <2>1. \A n \in S : IsFiniteSet(to(n)) /\ to(n) \subseteq Nat
    BY FS_Interval
  <2> QED
    BY <2>1 DEF FiniteSubsetsOf
<1>2. PICK x \in T : \A y \in T : <<y, x>> \notin StrictSubsetOrdering(Nat)
  <2>1. T # {}
    OBVIOUS
  <2> QED
    BY <1>1, <2>1, FS_StrictSubsetOrderingWellFounded, WFMin
<1>3. PICK n \in S : x = to(n)
  BY <1>2
<1>4. ASSUME NEW m \in S, m < n  PROVE FALSE
  <2>1. to(m) \subseteq to(n) /\ n \in to(n) /\ n \notin to(m) /\ to(m) \in T
    BY <1>4
  <2>2. <<to(m), to(n)>> \in StrictSubsetOrdering(Nat)
    BY <2>1 DEF StrictSubsetOrdering
  <2> QED
    BY <1>2, <1>3, <2>1, <2>2
<1> QED
  BY <1>4

\* Induction up to a number, for a set of numbers.
LEMMA CountUp ==
    ASSUME NEW n \in Nat, NEW G, 0 \in G, \A k \in 1 .. n : k - 1 \in G => k \in G
    PROVE  0 .. n \subseteq G
<1> DEFINE Bad == {k \in 0 .. n : k \notin G}
<1>1. ASSUME Bad # {} PROVE FALSE
  <2>1. Bad \in SUBSET Nat
    OBVIOUS
  <2>2. PICK k \in Bad : \A m \in Bad : k <= m
    <3> HIDE DEF Bad
    <3> QED
      BY <1>1, <2>1, LeastNumber
  <2>3. k \in 0 .. n /\ k \notin G /\ k # 0
    BY <2>2
  <2>4. k \in 1 .. n /\ k - 1 \in 0 .. n /\ k - 1 < k
    BY <2>3
  <2>5. k - 1 \in G
    BY <2>2, <2>4
  <2> QED
    BY <2>3, <2>4, <2>5
<1> QED
  BY <1>1

\* Pop takes the least of what may be popped, or says that there is none.
LEMMA PopIsLeast ==
    ASSUME NEW ts \in SUBSET TaskContract, NEW done
    PROVE  /\ Pop(ts, done) \in Nat
           /\ Pop(ts, done) # 0 => /\ Pop(ts, done) \in Poppable(ts, done)
                                   /\ \A i \in Poppable(ts, done) : Pop(ts, done) <= i
<1>1. Poppable(ts, done) \subseteq Nat
  BY DEF Poppable, TaskContract
<1>2. CASE Poppable(ts, done) = {}
  BY <1>2 DEF Pop
<1>3. CASE Poppable(ts, done) # {}
  <2>1. \E n \in Poppable(ts, done) : \A m \in Poppable(ts, done) : n <= m
    BY <1>1, <1>3, LeastNumber
  <2>2. /\ Min(Poppable(ts, done)) \in Poppable(ts, done)
        /\ \A i \in Poppable(ts, done) : Min(Poppable(ts, done)) <= i
    BY <2>1 DEF Min
  <2> QED
    BY <1>1, <1>3, <2>2 DEF Pop
<1> QED
  BY <1>2, <1>3

\* The recursion of _topological_order has a solution: a least length without one would
\* have a solution one shorter, and the next pop extends it.
LEMMA PopsExist ==
    ASSUME NEW ts \in SUBSET TaskContract, NEW N \in Nat
    PROVE  \E f \in [1 .. N -> Nat] :
             \A n \in 1 .. N : f[n] = Pop(ts, {f[m] : m \in 1 .. n - 1})
<1> DEFINE Good(k) == \E f \in [1 .. k -> Nat] :
                        \A n \in 1 .. k : f[n] = Pop(ts, {f[m] : m \in 1 .. n - 1})
           Bad == {k \in Nat : ~ Good(k)}
<1>1. ASSUME Bad # {} PROVE FALSE
  <2>1. PICK k \in Bad : \A m \in Bad : k <= m
    <3> HIDE DEF Good
    <3> QED
    BY <1>1, LeastNumber
  <2>2. k # 0
    <3>1. ASSUME k = 0 PROVE Good(k)
      <4> DEFINE e == [n \in 1 .. 0 |-> 0]
      <4>1. e \in [1 .. k -> Nat] /\ \A n \in 1 .. k : e[n] = Pop(ts, {e[m] : m \in 1 .. n - 1})
        BY <3>1
      <4> HIDE DEF e
      <4> QED
        BY <4>1
    <3> QED
      BY <2>1, <3>1
  <2>3. Good(k - 1)
    <3> HIDE DEF Good
    <3> QED
      BY <2>1, <2>2
  <2>4. PICK f \in [1 .. k - 1 -> Nat] :
          \A n \in 1 .. k - 1 : f[n] = Pop(ts, {f[m] : m \in 1 .. n - 1})
    BY <2>3
  <2> DEFINE g == [n \in 1 .. k |-> IF n = k THEN Pop(ts, {f[m] : m \in 1 .. k - 1}) ELSE f[n]]
  <2>5. k \in Nat \ {0}
    BY <2>1, <2>2
  <2>6. g \in [1 .. k -> Nat]
    <3>1. Pop(ts, {f[m] : m \in 1 .. k - 1}) \in Nat
      BY PopIsLeast
    <3> QED
      BY <2>4, <2>5, <3>1
  <2>7. /\ g[k] = Pop(ts, {f[m] : m \in 1 .. k - 1})
        /\ \A n \in 1 .. k - 1 : g[n] = f[n]
    BY <2>5
  <2> HIDE DEF g
  <2>8. ASSUME NEW n \in 1 .. k PROVE g[n] = Pop(ts, {g[m] : m \in 1 .. n - 1})
    <3>1. {g[m] : m \in 1 .. n - 1} = {f[m] : m \in 1 .. n - 1}
      <4>1. \A m \in 1 .. n - 1 : g[m] = f[m]
        BY <2>5, <2>7
      <4> QED
        BY <4>1
    <3>2. CASE n = k
      BY <2>7, <3>1, <3>2
    <3>3. CASE n # k
      <4>1. n \in 1 .. k - 1
        BY <2>5, <3>3
      <4>2. f[n] = Pop(ts, {f[m] : m \in 1 .. n - 1})
        BY <2>4, <4>1
      <4>3. g[n] = f[n]
        BY <2>7, <4>1
      <4> QED
        BY <3>1, <4>2, <4>3
    <3> QED
      BY <3>2, <3>3
  <2>9. Good(k)
    BY <2>6, <2>8
  <2> QED
    BY <2>1, <2>9
<1>2. Good(N)
  BY <1>1
<1> QED
  BY <1>2

\* _topological_order, pop by pop.
LEMMA OrderPops ==
    ASSUME NEW ts \in SUBSET TaskContract, NEW N \in Nat, N = Cardinality(Ids(ts))
    PROVE  /\ TopologicalOrder(ts) \in [1 .. N -> Nat]
           /\ \A n \in 1 .. N : TopologicalOrder(ts)[n] =
                Pop(ts, {TopologicalOrder(ts)[m] : m \in 1 .. n - 1})
<1> DEFINE pop == CHOOSE f : f = [n \in 1 .. Cardinality(Ids(ts)) |->
                                    Pop(ts, {f[m] : m \in 1 .. n - 1})]
<1>1. \E f : f = [n \in 1 .. Cardinality(Ids(ts)) |-> Pop(ts, {f[m] : m \in 1 .. n - 1})]
  <2>1. PICK f \in [1 .. N -> Nat] :
          \A n \in 1 .. N : f[n] = Pop(ts, {f[m] : m \in 1 .. n - 1})
    BY PopsExist
  <2>2. f = [n \in 1 .. N |-> Pop(ts, {f[m] : m \in 1 .. n - 1})]
    BY <2>1
  <2> QED
    BY <2>2
<1>2. pop = [n \in 1 .. Cardinality(Ids(ts)) |-> Pop(ts, {pop[m] : m \in 1 .. n - 1})]
  BY <1>1, Zenon
<1>3. TopologicalOrder(ts) = [n \in 1 .. Cardinality(Ids(ts)) |-> pop[n]]
  BY Zenon DEF TopologicalOrder
<1> HIDE DEF pop
<1>4. TopologicalOrder(ts) = pop
  BY <1>2, <1>3
<1>5. \A n \in 1 .. N : Pop(ts, {pop[m] : m \in 1 .. n - 1}) \in Nat
  BY PopIsLeast
<1>6. pop \in [1 .. N -> Nat]
  BY <1>2, <1>5
<1>7. \A n \in 1 .. N : pop[n] = Pop(ts, {pop[m] : m \in 1 .. n - 1})
  BY <1>2
<1> QED
  BY <1>4, <1>6, <1>7

\* A list of IDs, each once, each after what it depends on and each the least that may
\* come there.
Lists(o, ts) ==
    /\ IsFiniteSet(Ids(ts)) /\ Cardinality(Ids(ts)) \in Nat
    /\ o \in [1 .. Cardinality(Ids(ts)) -> Ids(ts)] /\ ToSet(o) = Ids(ts)
    /\ \A n \in DOMAIN o : \A m \in 1 .. n - 1 : o[m] # o[n]
    /\ \A n \in DOMAIN o : /\ o[n] \in Nat
                           /\ o[n] \in Poppable(ts, {o[m] : m \in 1 .. n - 1})
                           /\ \A i \in Poppable(ts, {o[m] : m \in 1 .. n - 1}) : o[n] <= i

\* _topological_order does, when the heap is never empty too early.
LEMMA OrderLists ==
    ASSUME NEW ts \in SUBSET TaskContract, IsFiniteSet(ts), NEW o, o = TopologicalOrder(ts),
           0 \notin ToSet(o)
    PROVE  Lists(o, ts)
<1> DEFINE I == Ids(ts)
           N == Cardinality(I)
           before(n) == {o[m] : m \in 1 .. n - 1}
<1>1. IsFiniteSet(I) /\ N \in Nat
  <2> DEFINE f == [t \in ts |-> t.id]
  <2>1. f \in Surjection(ts, I)
    BY DEF Surjection, Ids
  <2>2. IsFiniteSet(I)
    BY <2>1, FS_Surjection
  <2> QED
    BY <2>2, FS_CardinalityType
<1>2. o \in [1 .. N -> Nat] /\ \A n \in 1 .. N : o[n] = Pop(ts, before(n))
  BY <1>1, OrderPops
<1>3. \A n \in 1 .. N : o[n] # 0
  BY <1>2 DEF ToSet
<1>4. ASSUME NEW n \in 1 .. N
      PROVE  /\ o[n] \in Nat /\ o[n] \in Poppable(ts, before(n))
             /\ \A i \in Poppable(ts, before(n)) : o[n] <= i
  BY <1>2, <1>3, PopIsLeast
<1>5. ASSUME NEW n \in 1 .. N PROVE o[n] \in I /\ \A m \in 1 .. n - 1 : o[m] # o[n]
  <2>1. o[n] \in Poppable(ts, before(n))
    BY <1>4
  <2> QED
    BY <2>1 DEF Poppable, Ids
<1>6. o \in Injection(1 .. N, I)
  <2>1. o \in [1 .. N -> I]
    BY <1>2, <1>5
  <2>2. ASSUME NEW a \in 1 .. N, NEW b \in 1 .. N, a # b PROVE o[a] # o[b]
    <3>1. CASE a < b
      <4>1. a \in 1 .. b - 1
        BY <1>1, <3>1
      <4> QED
        BY <1>5, <4>1
    <3>2. CASE b < a
      <4>1. b \in 1 .. a - 1
        BY <1>1, <3>2
      <4> QED
        BY <1>5, <4>1
    <3> QED
      BY <1>1, <2>2, <3>1, <3>2
  <2> QED
    BY <2>1, <2>2 DEF Injection, IsInjective
<1>7. ToSet(o) = I
  <2>1. IsFiniteSet(1 .. N) /\ Cardinality(1 .. N) = N
    BY <1>1, FS_Interval
  <2>2. o \in Surjection(1 .. N, I)
    BY <1>1, <1>6, <2>1, FS_Injection
  <2>3. \A i \in I : \E n \in 1 .. N : o[n] = i
    BY <2>2 DEF Surjection
  <2>4. DOMAIN o = 1 .. N /\ \A n \in 1 .. N : o[n] \in I
    BY <1>2, <1>5
  <2> HIDE DEF I, N
  <2> QED
    BY <2>3, <2>4 DEF ToSet
<1> QED
  BY <1>1, <1>2, <1>4, <1>5, <1>6, <1>7 DEF Lists, Injection

-----------------------------------------------------------------------------
\* What the graph of the plans says of tasks and of their order.
LEMMA GraphFacts ==
    ASSUME TypeOK, GraphHolds
    PROVE  /\ AllTasks(plans) \in SUBSET TaskContract
           /\ DOMAIN tasks = Ids(AllTasks(plans)) /\ IsFiniteSet(DOMAIN tasks)
           /\ Cardinality(DOMAIN tasks) \in Nat
           /\ Order \in [1 .. Cardinality(DOMAIN tasks) -> DOMAIN tasks]
           /\ DOMAIN Order = 1 .. Cardinality(DOMAIN tasks) /\ ToSet(Order) = DOMAIN tasks
           /\ \A n \in DOMAIN Order : \A m \in 1 .. n - 1 : Order[m] # Order[n]
           /\ \A n \in DOMAIN Order : \A j \in Contract(Order[n]).depends_on :
                \E m \in 1 .. n - 1 : Order[m] = j
           /\ \A i \in DOMAIN tasks : /\ i \in Nat
                                      /\ Contract(i).depends_on \subseteq DOMAIN tasks
           /\ \A n \in DOMAIN Order, i \in DOMAIN tasks :
                (\A m \in 1 .. n - 1 : Order[m] # i)
                  /\ (\A j \in Contract(i).depends_on : \E m \in 1 .. n - 1 : Order[m] = j)
                => Order[n] <= i
<1> DEFINE all == AllTasks(plans)
           before(n) == {Order[m] : m \in 1 .. n - 1}
<1>1. all \in SUBSET TaskContract
  <2>1. \A n \in DOMAIN plans : plans[n] \in PlanDocument
    BY ElementOfSeq, LenProperties DEF TypeOK
  <2> QED
    BY <2>1 DEF AllTasks, PlanDocument
<1>2. DOMAIN tasks = Ids(all)
  BY DEF TypeOK
<1>3. IsFiniteSet(all) /\ 0 \notin ToSet(Order) /\ Order = TopologicalOrder(all)
  BY DEF GraphHolds, Order
<1>4. /\ IsFiniteSet(Ids(all)) /\ Cardinality(Ids(all)) \in Nat
      /\ Order \in [1 .. Cardinality(Ids(all)) -> Ids(all)] /\ ToSet(Order) = Ids(all)
      /\ \A n \in DOMAIN Order : \A m \in 1 .. n - 1 : Order[m] # Order[n]
      /\ \A n \in DOMAIN Order : /\ Order[n] \in Nat
                                 /\ Order[n] \in Poppable(all, before(n))
                                 /\ \A i \in Poppable(all, before(n)) : Order[n] <= i
  <2>1. Lists(Order, all)
    BY <1>1, <1>3, OrderLists
  <2> QED
    BY <2>1, Zenon DEF Lists
<1>5. \A i \in DOMAIN tasks : /\ i \in Nat /\ Contract(i) \in all /\ Contract(i).id = i
                              /\ Contract(i).depends_on \subseteq DOMAIN tasks
  BY <1>1, <1>2, ContractTyped DEF GraphHolds, TaskContract
<1>6. ASSUME NEW n \in DOMAIN Order, NEW j \in Contract(Order[n]).depends_on
      PROVE  \E m \in 1 .. n - 1 : Order[m] = j
  <2>1. PICK t \in all : t.id = Order[n] /\ t.depends_on \cap Ids(all) \subseteq before(n)
    BY <1>4 DEF Poppable
  <2>2. Order[n] \in DOMAIN tasks
    BY <1>2, <1>4 DEF ToSet
  <2>3. t = Contract(Order[n])
    BY <1>5, <2>1, <2>2 DEF GraphHolds
  <2> QED
    BY <1>2, <1>5, <2>1, <2>2, <2>3
<1>7. ASSUME NEW n \in DOMAIN Order, NEW i \in DOMAIN tasks,
             \A m \in 1 .. n - 1 : Order[m] # i,
             \A j \in Contract(i).depends_on : \E m \in 1 .. n - 1 : Order[m] = j
      PROVE  Order[n] <= i
  <2>1. i \in Poppable(all, before(n))
    BY <1>5, <1>7 DEF Poppable
  <2> QED
    BY <1>4, <2>1
<1> QED
  BY <1>1, <1>2, <1>4, <1>5, <1>6, <1>7

\* A list of all IDs as long as there are IDs has none of them twice.
LEMMA NoneTwice ==
    ASSUME NEW S, IsFiniteSet(S), NEW s \in [1 .. Cardinality(S) -> S], ToSet(s) = S,
           NEW m \in DOMAIN s, NEW n \in DOMAIN s, s[m] = s[n]
    PROVE  m = n
<1>1. Cardinality(S) \in Nat
  BY FS_CardinalityType
<1>2. IsFiniteSet(1 .. Cardinality(S)) /\ Cardinality(1 .. Cardinality(S)) = Cardinality(S)
  BY <1>1, FS_Interval
<1>3. s \in Surjection(1 .. Cardinality(S), S)
  BY DEF Surjection, ToSet
<1>4. s \in Injection(1 .. Cardinality(S), S)
  BY <1>2, <1>3, FS_SurjSameCardinalityImpliesInj
<1> QED
  BY <1>4 DEF Injection, IsInjective

\* The first place where an order that puts dependencies first differs from Order holds
\* something larger there: the heap had both to choose from.
LEMMA GraphIsSorted == ASSUME TypeOK, GraphHolds PROVE OrderIsLeast
<1> DEFINE ids == DOMAIN tasks
           sorted == {s \in [1 .. Cardinality(ids) -> ids] :
                        /\ ToSet(s) = ids
                        /\ \A m, n \in DOMAIN s :
                              s[n] \in Contract(s[m]).depends_on => n < m}
<1>0. /\ Cardinality(ids) \in Nat /\ IsFiniteSet(ids)
      /\ DOMAIN Order = 1 .. Cardinality(ids)
      /\ Order \in [1 .. Cardinality(ids) -> ids] /\ ToSet(Order) = ids
      /\ \A i \in ids : i \in Nat /\ Contract(i).depends_on \subseteq ids
  BY GraphFacts
<1>1. Order \in sorted
  <2>1. ASSUME NEW m \in DOMAIN Order, NEW n \in DOMAIN Order,
               Order[n] \in Contract(Order[m]).depends_on
        PROVE  n < m
    <3>1. PICK k \in 1 .. m - 1 : Order[k] = Order[n]
      BY <2>1, GraphFacts
    <3>2. k \in DOMAIN Order /\ k < m
      BY <1>0, <2>1
    <3>3. k = n
      BY <1>0, <2>1, <3>1, <3>2, NoneTwice
    <3> QED
      BY <3>2, <3>3
  <2> QED
    BY <1>0, <2>1
<1>2. ASSUME NEW s \in sorted, s # Order PROVE Before(Order, s)
  <2> DEFINE D == {n \in 1 .. Cardinality(ids) : s[n] # Order[n]}
  <2>1. s \in [1 .. Cardinality(ids) -> ids] /\ ToSet(s) = ids
        /\ \A m, n \in DOMAIN s : s[n] \in Contract(s[m]).depends_on => n < m
    OBVIOUS
  <2>2. D # {}
    BY <1>0, <1>2, <2>1
  <2>3. PICK n \in D : \A m \in D : n <= m
    <3>1. D \in SUBSET Nat
      BY <1>0
    <3> HIDE DEF D
    <3> QED
      BY <2>2, <3>1, LeastNumber
  <2>4. n \in 1 .. Cardinality(ids) /\ s[n] # Order[n]
    BY <2>3
  <2>5. \A m \in 1 .. n - 1 : m \in 1 .. Cardinality(ids) /\ m < n /\ Order[m] = s[m]
    BY <1>0, <2>3
  <2> HIDE DEF D, sorted
  <2>6. s[n] \in ids /\ Order[n] \in ids
    BY <1>0, <2>1, <2>4
  <2>7. ASSUME NEW m \in 1 .. n - 1 PROVE Order[m] # s[n]
    <3>1. m \in DOMAIN s /\ n \in DOMAIN s /\ m # n
      BY <1>0, <2>1, <2>4, <2>5
    <3>2. s[m] # s[n]
      BY <1>0, <2>1, <3>1, NoneTwice
    <3> QED
      BY <2>5, <3>2
  <2>8. ASSUME NEW j \in Contract(s[n]).depends_on PROVE \E m \in 1 .. n - 1 : Order[m] = j
    <3>1. PICK k \in 1 .. Cardinality(ids) : s[k] = j
      BY <1>0, <2>1, <2>6 DEF ToSet
    <3>2. k < n
      BY <2>1, <2>4, <3>1
    <3>3. k \in 1 .. n - 1
      BY <1>0, <2>4, <3>2
    <3> QED
      BY <2>5, <3>1, <3>3
  <2>9. Order[n] <= s[n]
    BY <1>0, <2>4, <2>6, <2>7, <2>8, GraphFacts
  <2> QED
    BY <1>0, <2>4, <2>5, <2>6, <2>9 DEF Before
<1> QED
  BY <1>1, <1>2, Zenon DEF OrderIsLeast

\* An accepted plan joins the graph of those before it (validate_plan).
LEMMA AcceptedGraph ==
    ASSUME IInv, GraphInv, NEW d \in Documents, AcceptPlan(d)
    PROVE  GraphInv'
<1>1. d \in PlanDocument /\ plans \in Seq(PlanDocument) /\ IsFiniteSet(d.tasks)
  BY InputAssumption DEF IInv, TypeOK
<1>2. plans' = Append(plans, d) /\ ValidatePlan(d, plans)
  BY DEF AcceptPlan
<1>3. /\ DOMAIN plans = 1 .. Len(plans) /\ DOMAIN plans' = 1 .. Len(plans) + 1
      /\ Len(plans) \in Nat
      /\ \A n \in 1 .. Len(plans) : plans'[n] = plans[n]
      /\ plans'[Len(plans) + 1] = d
  BY <1>1, <1>2, AppendFacts
<1>4. AllTasks(plans') = AllTasks(plans) \cup d.tasks
  BY <1>3 DEF AllTasks
<1>5. IsFiniteSet(AllTasks(plans'))
  <2>1. IsFiniteSet(AllTasks(plans))
    BY DEF GraphInv, GraphHolds
  <2>2. IsFiniteSet(AllTasks(plans) \cup d.tasks)
    BY <1>1, <2>1, FS_Union
  <2> QED
    BY <1>4, <2>2
<1>6. \A t, u \in d.tasks : t.id = u.id => t = u
  <2> DEFINE f == [t \in d.tasks |-> t.id]
  <2>1. f \in Surjection(d.tasks, Ids(d.tasks))
    BY DEF Surjection, Ids
  <2>2. Cardinality(Ids(d.tasks)) = Cardinality(d.tasks)
    BY <1>2 DEF ValidatePlan
  <2>3. f \in Injection(d.tasks, Ids(d.tasks))
    BY <1>1, <2>1, <2>2, FS_Surjection
  <2> QED
    BY <2>3 DEF Injection, IsInjective
<1>7. \A t, u \in AllTasks(plans') : t.id = u.id => t = u
  <2>1. Ids(d.tasks) \cap Ids(AllTasks(plans)) = {}
    BY <1>2 DEF ValidatePlan
  <2> QED
    BY <1>4, <1>6, <2>1 DEF GraphInv, GraphHolds, Ids
<1>8. \A t \in AllTasks(plans') : t.depends_on \subseteq Ids(AllTasks(plans'))
  <2>1. \A t \in d.tasks : t.depends_on \subseteq Ids(AllTasks(plans'))
    BY <1>2, <1>4 DEF ValidatePlan, ValidateTask
  <2>2. \A t \in AllTasks(plans) : t.depends_on \subseteq Ids(AllTasks(plans))
    BY DEF GraphInv, GraphHolds
  <2>3. Ids(AllTasks(plans)) \subseteq Ids(AllTasks(plans'))
    BY <1>4 DEF Ids
  <2> QED
    BY <1>4, <2>1, <2>2, <2>3
<1>9. 0 \notin ToSet(Order')
  BY <1>2, <1>4 DEF ValidatePlan, Order
<1>10. NoneGivenUp'
  <2>1. \A i \in DOMAIN tasks : tasks[i].status = "COMPLETED"
    BY DEF IInv, RoundIsOver, Having, AcceptPlan
  <2>2. \A i \in DOMAIN tasks' : tasks'[i].status \in {"COMPLETED", "PENDING"}
    BY <2>1 DEF AcceptPlan, NewTask
  <2> QED
    BY <2>2 DEF NoneGivenUp, Having
<1> QED
  BY <1>5, <1>7, <1>8, <1>9, <1>10 DEF GraphInv, GraphHolds

\* A task that is given up ends the run; no other step gives one up.
LEMMA GraphStep == ASSUME IInv, GraphInv, [Next]_vars PROVE GraphInv'
<1>0. tasks \in [Ids(AllTasks(plans)) -> TaskState]
  BY DEF IInv, TypeOK
<1>1. CASE \E d \in Documents : AcceptPlan(d)
  BY <1>1, AcceptedGraph
<1>2. ASSUME plans' = plans PROVE GraphHolds'
  <2>1. AllTasks(plans') = AllTasks(plans) /\ Order' = Order
    BY <1>2 DEF Order
  <2> QED
    BY <2>1 DEF GraphInv, GraphHolds
<1>3. ASSUME NEW i \in DOMAIN tasks, status = "EXECUTING", Fail(i) PROVE GraphInv'
  <2>1. plans' = plans
    BY <1>3 DEF Fail
  <2>2. CASE tasks[i].failure_count + 1 < Contract(i).max_attempts
    <3>1. tasks' = [tasks EXCEPT ![i].failure_count = tasks[i].failure_count + 1,
                                 ![i].delta = <<>>, ![i].status = "READY"]
      BY <1>3, <2>2 DEF Fail
    <3>2. \A k \in DOMAIN tasks' : k \in DOMAIN tasks
            /\ (tasks'[k].status = "FAILED" => tasks[k].status = "FAILED")
      BY <1>0, <3>1 DEF TaskState
    <3> QED
      BY <1>2, <1>3, <2>1, <3>2 DEF GraphInv, NoneGivenUp, Having
  <2>3. CASE ~ (tasks[i].failure_count + 1 < Contract(i).max_attempts)
    <3>1. status' = "FAILED"
      BY <1>3, <2>3 DEF Fail
    <3> QED
      BY <1>2, <2>1, <3>1 DEF GraphInv, NoneGivenUp
  <2> QED
    BY <2>2, <2>3
<1>4. ASSUME plans' = plans, status' = "EXECUTING" => status = "EXECUTING",
             \A k \in DOMAIN tasks' : k \in DOMAIN tasks
               /\ (tasks'[k].status = "FAILED" => tasks[k].status = "FAILED")
      PROVE  GraphInv'
  BY <1>2, <1>4 DEF GraphInv, NoneGivenUp, Having
<1>5. CASE Integrate
  <2>1. PICK i \in Having("READY_TO_INTEGRATE") :
          \/ /\ tasks' = [tasks EXCEPT ![i].status = "COMPLETED"]
             /\ UNCHANGED <<status, plans>>
          \/ Fail(i)
    BY <1>5 DEF Integrate
  <2>2. status = "EXECUTING" /\ i \in DOMAIN tasks
    BY <1>5 DEF Integrate, Having
  <2>3. CASE tasks' = [tasks EXCEPT ![i].status = "COMPLETED"] /\ UNCHANGED <<status, plans>>
    <3>1. \A k \in DOMAIN tasks' : k \in DOMAIN tasks
            /\ (tasks'[k].status = "FAILED" => tasks[k].status = "FAILED")
      BY <1>0, <2>3 DEF TaskState
    <3> QED
      BY <1>4, <2>3, <3>1
  <2> QED
    BY <1>3, <2>1, <2>2, <2>3
<1>6. CASE FinishRound \/ Repair \/ UNCHANGED vars
  <2>1. plans' = plans /\ tasks' = tasks /\ (status' = "EXECUTING" => status = "EXECUTING")
    BY <1>6 DEF FinishRound, Repair, vars
  <2> QED
    BY <1>4, <2>1
<1>7. CASE PromoteReady
  <2>1. \A k \in DOMAIN tasks' : k \in DOMAIN tasks
            /\ (tasks'[k].status = "FAILED" => tasks[k].status = "FAILED")
    BY <1>0, <1>7 DEF PromoteReady, TaskState
  <2> QED
    BY <1>4, <1>7, <2>1 DEF PromoteReady
<1>8. CASE StartWorkers
  <2>1. PICK S : tasks' = [i \in DOMAIN tasks |->
                   IF i \in S
                     THEN [tasks[i] EXCEPT !.status = "RUNNING", !.base = Len(integrated)]
                     ELSE tasks[i]]
    BY <1>8 DEF StartWorkers
  <2>2. \A k \in DOMAIN tasks' : k \in DOMAIN tasks
            /\ (tasks'[k].status = "FAILED" => tasks[k].status = "FAILED")
    BY <1>0, <2>1 DEF TaskState
  <2> QED
    BY <1>4, <1>8, <2>2 DEF StartWorkers
<1>9. CASE \E i \in DOMAIN tasks : WorkerFails(i)
  BY <1>3, <1>9 DEF WorkerFails
<1>10. CASE \E i \in DOMAIN tasks : \E p \in Paths : WorkerEnds(i, p)
  <2>1. PICK i \in DOMAIN tasks, p \in Paths : WorkerEnds(i, p)
    BY <1>10
  <2>2. \A k \in DOMAIN tasks' : k \in DOMAIN tasks
            /\ (tasks'[k].status = "FAILED" => tasks[k].status = "FAILED")
    BY <1>0, <2>1 DEF WorkerEnds, TaskState
  <2> QED
    BY <1>4, <2>1, <2>2 DEF WorkerEnds
<1>11. ASSUME Next
       PROVE  \/ \E d \in Documents : AcceptPlan(d)
              \/ Integrate \/ FinishRound \/ PromoteReady \/ StartWorkers \/ Repair
              \/ \E i \in DOMAIN tasks : WorkerFails(i)
              \/ \E i \in DOMAIN tasks : \E p \in Paths : WorkerEnds(i, p)
  BY <1>11, Zenon DEF Next
<1> QED
  BY <1>1, <1>5, <1>6, <1>7, <1>8, <1>9, <1>10, <1>11

\* The accepted plans are one acyclic graph of unique IDs and known dependencies, and no
\* task is given up while the run goes on (validate_plan, close_attempt).
THEOREM PlansAreOneGraph == Spec => []GraphInv
<1>1. Init => GraphInv
  <2> SUFFICES ASSUME Init PROVE GraphInv
    OBVIOUS
  <2>1. plans = <<>> /\ AllTasks(plans) = {} /\ status = "PLANNING"
    BY DEF Init, AllTasks
  <2>2. Ids(AllTasks(plans)) = {}
    BY <2>1 DEF Ids
  <2>3. DOMAIN Order = 1 .. 0
    BY <2>2, FS_EmptySet DEF Order, TopologicalOrder
  <2>4. 0 \notin ToSet(Order)
    BY <2>3 DEF ToSet
  <2> QED
    BY <2>1, <2>4, FS_EmptySet DEF GraphInv, GraphHolds, NoneGivenUp
<1>2. IInv /\ GraphInv /\ [Next]_vars => GraphInv'
  BY GraphStep
<1> QED
  BY <1>1, <1>2, SchedulerInvariant, PTL DEF Spec

\* The order is the least of all that put dependencies first, for every graph of tasks
\* (_topological_order).
THEOREM OrderIsAlwaysLeast == Spec => []OrderIsLeast
<1>1. IInv /\ GraphInv => OrderIsLeast
  BY GraphIsSorted DEF IInv, GraphInv
<1> QED
  BY <1>1, PlansAreOneGraph, SchedulerInvariant, PTL

-----------------------------------------------------------------------------
\* dispatchable takes a task, given those it took before.
Fits(S, i) ==
    LET taken == InFlight \cup Earlier(S, i)
    IN  /\ tasks[i].status = "READY"
        /\ Cardinality(taken) < max_workers
        /\ \A j \in taken : Apart(i, j)

\* A task later in the order does not matter to those up to it.
LEMMA LaterDoesNotMatter ==
    ASSUME TypeOK, GraphHolds, NEW S, NEW k \in DOMAIN Order, NEW m \in 1 .. k
    PROVE  Fits(S \cup {Order[k]}, Order[m]) <=> Fits(S, Order[m])
<1>1. /\ DOMAIN Order = 1 .. Cardinality(DOMAIN tasks) /\ Cardinality(DOMAIN tasks) \in Nat
      /\ IsFiniteSet(DOMAIN tasks) /\ ToSet(Order) = DOMAIN tasks
      /\ Order \in [1 .. Cardinality(DOMAIN tasks) -> DOMAIN tasks]
  BY GraphFacts
<1>2. ASSUME NEW n \in DOMAIN Order, Order[n] = Order[m], NEW l \in 1 .. n - 1
      PROVE  Order[l] # Order[k]
  <2>1. m \in DOMAIN Order /\ l \in DOMAIN Order
    BY <1>1, <1>2
  <2>2. n = m
    BY <1>1, <1>2, <2>1, NoneTwice
  <2>3. l # k
    BY <1>1, <1>2, <2>2
  <2> QED
    BY <1>1, <2>1, <2>3, NoneTwice
<1>3. Earlier(S \cup {Order[k]}, Order[m]) = Earlier(S, Order[m])
  BY <1>2 DEF Earlier
<1> QED
  BY <1>3 DEF Fits

\* dispatchable has an answer: a shortest part of the order for which it has none would
\* have one for the part before, and the last task fits it or does not.
LEMMA SelectionExists == ASSUME TypeOK, GraphHolds PROVE Selection # {}
<1> DEFINE Good(k) == \E S \in SUBSET DOMAIN tasks :
                        \A m \in 1 .. k : Order[m] \in S <=> Fits(S, Order[m])
           C == Cardinality(DOMAIN tasks)
           Bad == {k \in 0 .. C : ~ Good(k)}
<1>1. /\ DOMAIN Order = 1 .. C /\ C \in Nat /\ ToSet(Order) = DOMAIN tasks
      /\ Order \in [1 .. C -> DOMAIN tasks] /\ IsFiniteSet(DOMAIN tasks)
  BY GraphFacts
<1>2. ASSUME Bad # {} PROVE FALSE
  <2>1. PICK k \in Bad : \A m \in Bad : k <= m
    <3>1. Bad \in SUBSET Nat
      BY <1>1
    <3> HIDE DEF Bad
    <3> QED
      BY <1>2, <3>1, LeastNumber
  <2>2. k \in 0 .. C /\ ~ Good(k)
    OBVIOUS
  <2>3. ASSUME k = 0 PROVE FALSE
    <3>1. {} \in SUBSET DOMAIN tasks /\ \A m \in 1 .. k : Order[m] \in {} <=> Fits({}, Order[m])
      BY <2>3
    <3>2. Good(k)
      BY <3>1
    <3> QED
      BY <2>2, <3>2
  <2>4. Good(k - 1)
    <3>1. k - 1 \in 0 .. C /\ k - 1 < k
      BY <1>1, <2>2, <2>3
    <3> HIDE DEF Good
    <3> QED
      BY <2>1, <3>1
  <2>5. k \in DOMAIN Order /\ Order[k] \in DOMAIN tasks
    BY <1>1, <2>2, <2>3
  <2>6. PICK S \in SUBSET DOMAIN tasks :
          \A m \in 1 .. k - 1 : Order[m] \in S <=> Fits(S, Order[m])
    BY <2>4
  <2>7. \A m \in 1 .. k : Fits(S, Order[m]) <=> Fits(S \ {Order[k]}, Order[m])
    <3> DEFINE T == S \ {Order[k]}
    <3>1. \A m \in 1 .. k : Fits(T \cup {Order[k]}, Order[m]) <=> Fits(T, Order[m])
      BY <2>5, LaterDoesNotMatter
    <3>2. CASE Order[k] \in S
      <4>1. T \cup {Order[k]} = S
        BY <3>2
      <4> QED
        BY <3>1, <4>1
    <3>3. CASE Order[k] \notin S
      <4>1. T = S
        BY <3>3
      <4> QED
        BY <4>1
    <3> QED
      BY <3>2, <3>3
  <2>8. \A m \in 1 .. k - 1 : m \in 1 .. k /\ Order[m] # Order[k]
    BY <1>1, <2>5, GraphFacts
  <2>9. CASE Fits(S, Order[k])
    <3> DEFINE U == S \cup {Order[k]}
    <3>1. \A m \in 1 .. k : Fits(U, Order[m]) <=> Fits(S, Order[m])
      BY <2>5, LaterDoesNotMatter
    <3>2. ASSUME NEW m \in 1 .. k PROVE Order[m] \in U <=> Fits(U, Order[m])
      <4>1. CASE m = k
        BY <2>9, <3>1, <4>1
      <4>2. CASE m \in 1 .. k - 1
        BY <2>6, <2>8, <3>1, <4>2
      <4> QED
        BY <1>1, <2>5, <4>1, <4>2
    <3>3. U \in SUBSET DOMAIN tasks
      BY <2>5, <2>6
    <3> QED
      BY <2>2, <3>2, <3>3
  <2>10. CASE ~ Fits(S, Order[k])
    <3> DEFINE U == S \ {Order[k]}
    <3>1. ASSUME NEW m \in 1 .. k PROVE Order[m] \in U <=> Fits(U, Order[m])
      <4>1. CASE m = k
        BY <2>7, <2>10, <4>1
      <4>2. CASE m \in 1 .. k - 1
        BY <2>6, <2>7, <2>8, <4>2
      <4> QED
        BY <1>1, <2>5, <4>1, <4>2
    <3>2. U \in SUBSET DOMAIN tasks
      BY <2>6
    <3> QED
      BY <2>2, <3>1, <3>2
  <2> QED
    BY <2>9, <2>10
<1>3. Good(C)
  <2> HIDE DEF Good
  <2> QED
    BY <1>1, <1>2
<1>4. PICK S \in SUBSET DOMAIN tasks : \A m \in 1 .. C : Order[m] \in S <=> Fits(S, Order[m])
  BY <1>3
<1>5. \A i \in ToSet(Order) : i \in S <=> Fits(S, i)
  BY <1>1, <1>4 DEF ToSet
<1>6. Dispatchable(S)
  BY <1>5 DEF Dispatchable, Fits
<1> QED
  BY <1>1, <1>6 DEF Selection

\* The first READY task of the order starts; when there is none, the first PENDING one
\* has all it depends on before it, COMPLETED.
LEMMA GraphNeverStuck == ASSUME IInv, GraphInv PROVE NeverStuck
<1> SUFFICES ASSUME status = "EXECUTING", InFlight = {}, Having("COMPLETED") # DOMAIN tasks
             PROVE  Promotable # {} \/ Selection \ {{}} # {}
  BY DEF NeverStuck
<1>1. TypeOK /\ GraphHolds /\ Having("FAILED") = {}
  BY DEF IInv, GraphInv, NoneGivenUp
<1>2. /\ DOMAIN Order = 1 .. Cardinality(DOMAIN tasks) /\ Cardinality(DOMAIN tasks) \in Nat
      /\ ToSet(Order) = DOMAIN tasks /\ Order \in [DOMAIN Order -> DOMAIN tasks]
      /\ \A n \in DOMAIN Order : \A j \in Contract(Order[n]).depends_on :
           \E m \in 1 .. n - 1 : Order[m] = j
  BY <1>1, GraphFacts
<1>3. \A i \in DOMAIN tasks : tasks[i].status \in {"PENDING", "READY", "COMPLETED"}
  BY <1>1 DEF TypeOK, TaskState, InFlight, Having
<1> DEFINE R == {n \in DOMAIN Order : tasks[Order[n]].status = "READY"}
           P == {n \in DOMAIN Order : tasks[Order[n]].status = "PENDING"}
<1>4. R \in SUBSET Nat /\ P \in SUBSET Nat
  BY <1>2
<1>5. CASE R # {}
  <2>1. PICK n \in R : \A m \in R : n <= m
    BY <1>4, <1>5, LeastNumber
  <2>2. PICK S \in Selection : TRUE
    BY <1>1, SelectionExists
  <2>3. Dispatchable(S) /\ S \in SUBSET ToSet(Order)
    BY <2>2 DEF Selection
  <2>4. n \in DOMAIN Order /\ tasks[Order[n]].status = "READY" /\ Order[n] \in ToSet(Order)
    BY <2>1 DEF ToSet
  <2>5. \A j \in S : tasks[j].status = "READY"
    BY <2>3 DEF Dispatchable
  <2>6. ASSUME NEW j \in Earlier(S, Order[n]) PROVE FALSE
    <3>1. PICK a \in DOMAIN Order : Order[a] = Order[n] /\ \E m \in 1 .. a - 1 : Order[m] = j
      BY <2>6 DEF Earlier
    <3>2. a = n
      BY <1>1, <1>2, <2>4, <3>1, GraphFacts, NoneTwice
    <3>3. PICK m \in 1 .. n - 1 : Order[m] = j
      BY <3>1, <3>2
    <3>4. j \in S
      BY <2>6 DEF Earlier
    <3>5. m \in R /\ m < n
      BY <1>2, <2>4, <2>5, <3>3, <3>4
    <3> QED
      BY <1>4, <2>1, <3>5
  <2>7. InFlight \cup Earlier(S, Order[n]) = {}
    BY <2>6
  <2>8. Cardinality(InFlight \cup Earlier(S, Order[n])) < max_workers
    <3>1. Cardinality({}) = 0 /\ max_workers \in Nat /\ max_workers # 0
      BY FS_EmptySet, ConfigAssumption
    <3> QED
      BY <2>7, <3>1
  <2>9. Order[n] \in S
    BY <2>3, <2>4, <2>7, <2>8 DEF Dispatchable
  <2> QED
    BY <2>2, <2>9
<1>6. CASE R = {}
  <2>1. P # {}
    <3>1. PICK i \in DOMAIN tasks : tasks[i].status # "COMPLETED"
      BY DEF Having
    <3>2. PICK n \in DOMAIN Order : Order[n] = i
      BY <1>2 DEF ToSet
    <3> QED
      BY <1>3, <1>6, <3>1, <3>2
  <2>2. PICK n \in P : \A m \in P : n <= m
    BY <1>4, <2>1, LeastNumber
  <2>3. ASSUME NEW j \in Contract(Order[n]).depends_on PROVE j \in Having("COMPLETED")
    <3>1. PICK m \in 1 .. n - 1 : Order[m] = j
      BY <1>2, <2>2
    <3>2. m \in DOMAIN Order /\ m < n /\ Order[m] \in DOMAIN tasks
      BY <1>2, <2>2
    <3>3. m \notin P /\ m \notin R
      BY <1>4, <1>6, <2>2, <3>2
    <3> QED
      BY <1>3, <3>1, <3>2, <3>3 DEF Having
  <2>4. Order[n] \in Promotable
    BY <1>2, <2>2, <2>3 DEF Promotable, Having
  <2> QED
    BY <2>4
<1> QED
  BY <1>5, <1>6

\* An accepted plan is never stuck: with no Worker in flight the round is over, or a task
\* can be promoted or started, whatever graph the plans make, however scopes overlap and
\* however few Workers there may be (validate_plan, promote_ready, dispatchable).
THEOREM PlansAreNeverStuck == Spec => []NeverStuck
<1>1. IInv /\ GraphInv => NeverStuck
  BY GraphNeverStuck
<1> QED
  BY <1>1, PlansAreOneGraph, SchedulerInvariant, PTL

-----------------------------------------------------------------------------
(***************************************************************************)
(* The gate of global verification                                         *)
(***************************************************************************)
\* A recursion over the numbers up to n has a solution.
Solves(f, n, b, step) == f[0] = b /\ \A k \in 1 .. n : f[k] = step[k][f[k - 1]]

LEMMA Recursion ==
    ASSUME NEW V, NEW n \in Nat, NEW b \in V, NEW step \in [1 .. n -> [V -> V]]
    PROVE  \E f \in [0 .. n -> V] : Solves(f, n, b, step)
<1> DEFINE Good(m) == \E f \in [0 .. m -> V] : Solves(f, m, b, step)
           G == {m \in 0 .. n : Good(m)}
<1>1. Good(0)
  <2> DEFINE f == [k \in 0 .. 0 |-> b]
  <2>1. f \in [0 .. 0 -> V] /\ Solves(f, 0, b, step)
    BY DEF Solves
  <2> HIDE DEF f
  <2> QED
    BY <2>1
<1>2. ASSUME NEW m \in 1 .. n, Good(m - 1) PROVE Good(m)
  <2>1. PICK f \in [0 .. m - 1 -> V] : Solves(f, m - 1, b, step)
    BY <1>2
  <2> DEFINE g == [k \in 0 .. m |-> IF k = m THEN step[m][f[m - 1]] ELSE f[k]]
  <2>2. m - 1 \in 0 .. m - 1 /\ f[m - 1] \in V
    BY <2>1
  <2>3. step[m][f[m - 1]] \in V
    BY <2>2
  <2>4. g \in [0 .. m -> V]
    BY <2>1, <2>3
  <2>5. g[m] = step[m][f[m - 1]] /\ \A k \in 0 .. m - 1 : g[k] = f[k]
    OBVIOUS
  <2> HIDE DEF g
  <2>6. ASSUME NEW k \in 1 .. m PROVE g[k] = step[k][g[k - 1]]
    <3>1. k - 1 \in 0 .. m - 1
      OBVIOUS
    <3>2. CASE k = m
      BY <2>5, <3>1, <3>2
    <3>3. CASE k # m
      <4>1. k \in 1 .. m - 1
        BY <3>3
      <4> QED
        BY <2>1, <2>5, <3>1, <4>1 DEF Solves
    <3> QED
      BY <3>2, <3>3
  <2>7. Solves(g, m, b, step)
    <3>1. g[0] = b
      BY <2>1, <2>5 DEF Solves
    <3> QED
      BY <2>6, <3>1 DEF Solves
  <2> QED
    BY <2>4, <2>7
<1> HIDE DEF Good
<1>3. 0 \in G /\ \A m \in 1 .. n : m - 1 \in G => m \in G
  BY <1>1, <1>2
<1>4. 0 .. n \subseteq G
  <2> HIDE DEF G
  <2> QED
    BY <1>3, CountUp
<1>5. Good(n)
  BY <1>4
<1> QED
  BY <1>5 DEF Good

\* What dict.fromkeys does with one more entry.
LEMMA KeepFacts ==
    ASSUME NEW V, NEW s \in Seq(V), NEW c \in V
    PROVE  /\ Keep(s, c) \in Seq(V) /\ Len(s) <= Len(Keep(s, c))
           /\ \A n \in 1 .. Len(s) : Keep(s, c)[n] = s[n]
           /\ IsInjective(s) => IsInjective(Keep(s, c))
<1>1. CASE c \in ToSet(s)
  BY <1>1, LenProperties DEF Keep
<1>2. CASE c \notin ToSet(s)
  <2>1. Keep(s, c) = Append(s, c)
    BY <1>2 DEF Keep
  <2>2. /\ Append(s, c) \in Seq(V)
        /\ Len(s) \in Nat /\ Len(Append(s, c)) = Len(s) + 1
        /\ DOMAIN s = 1 .. Len(s) /\ DOMAIN Append(s, c) = 1 .. Len(s) + 1
        /\ \A n \in 1 .. Len(s) : Append(s, c)[n] = s[n]
        /\ Append(s, c)[Len(s) + 1] = c
    BY AppendFacts
  <2>3. \A n \in 1 .. Len(s) : s[n] # c
    BY <1>2, <2>2 DEF ToSet
  <2>4. ASSUME IsInjective(s) PROVE IsInjective(Append(s, c))
    <3> SUFFICES ASSUME NEW a \in 1 .. Len(s) + 1, NEW b \in 1 .. Len(s) + 1,
                        Append(s, c)[a] = Append(s, c)[b]
                 PROVE  a = b
      BY <2>2 DEF IsInjective
    <3>1. CASE a \in 1 .. Len(s) /\ b \in 1 .. Len(s)
      BY <2>2, <2>4, <3>1 DEF IsInjective
    <3>2. CASE a = Len(s) + 1 /\ b \in 1 .. Len(s)
      BY <2>2, <2>3, <3>2
    <3>3. CASE b = Len(s) + 1 /\ a \in 1 .. Len(s)
      BY <2>2, <2>3, <3>3
    <3> QED
      BY <2>2, <3>1, <3>2, <3>3
  <2> QED
    BY <2>1, <2>2, <2>4
<1> QED
  BY <1>1, <1>2

\* A merge keeps what is there, in its place, and brings in nothing twice.
LEMMA MergeFacts ==
    ASSUME NEW V, NEW s \in Seq(V), NEW t \in Seq(V)
    PROVE  /\ Merge(s, t) \in Seq(V) /\ Len(s) <= Len(Merge(s, t))
           /\ \A n \in 1 .. Len(s) : Merge(s, t)[n] = s[n]
           /\ IsInjective(s) => IsInjective(Merge(s, t))
<1> DEFINE N == Len(t)
           step == [k \in 1 .. N |-> [v \in Seq(V) |-> Keep(v, t[k])]]
           keys == CHOOSE f : f = [n \in 0 .. Len(t) |->
                                     IF n = 0 THEN s ELSE Keep(f[n - 1], t[n])]
<1>1. N \in Nat /\ Len(s) \in Nat /\ \A k \in 1 .. N : t[k] \in V
  BY LenProperties, ElementOfSeq
<1>2. step \in [1 .. N -> [Seq(V) -> Seq(V)]]
  BY <1>1, KeepFacts
<1>3. PICK f \in [0 .. N -> Seq(V)] : Solves(f, N, s, step)
  <2> HIDE DEF step, N
  <2> QED
    BY <1>1, <1>2, Recursion
<1>4. f[0] = s /\ \A k \in 1 .. N : f[k] = Keep(f[k - 1], t[k])
  <2>1. \A k \in 1 .. N : f[k - 1] \in Seq(V)
    BY <1>1, <1>3
  <2> QED
    BY <1>1, <1>3, <2>1 DEF Solves
<1>5. f = [n \in 0 .. Len(t) |-> IF n = 0 THEN s ELSE Keep(f[n - 1], t[n])]
  BY <1>1, <1>3, <1>4
<1>6. keys = [n \in 0 .. Len(t) |-> IF n = 0 THEN s ELSE Keep(keys[n - 1], t[n])]
  BY <1>5, Zenon
<1>7. Merge(s, t) = keys[Len(t)]
  BY Zenon DEF Merge
<1> HIDE DEF keys, step
<1>8. keys[0] = s /\ \A k \in 1 .. N : keys[k] = Keep(keys[k - 1], t[k])
  BY <1>1, <1>6
<1> DEFINE Fine(v) == /\ v \in Seq(V) /\ Len(s) <= Len(v)
                      /\ \A n \in 1 .. Len(s) : v[n] = s[n]
                      /\ IsInjective(s) => IsInjective(v)
           G == {k \in 0 .. N : Fine(keys[k])}
<1>9. 0 \in G
  BY <1>1, <1>8
<1>10. ASSUME NEW k \in 1 .. N, k - 1 \in G PROVE k \in G
  <2>1. Fine(keys[k - 1])
    BY <1>10
  <2> DEFINE v == keys[k - 1]
  <2>2. /\ Keep(v, t[k]) \in Seq(V) /\ Len(v) <= Len(Keep(v, t[k]))
        /\ \A n \in 1 .. Len(v) : Keep(v, t[k])[n] = v[n]
        /\ IsInjective(v) => IsInjective(Keep(v, t[k]))
    BY <1>1, <2>1, KeepFacts
  <2>3. Len(v) \in Nat /\ Len(Keep(v, t[k])) \in Nat
    BY <2>1, <2>2, LenProperties
  <2>4. Fine(Keep(v, t[k]))
    BY <1>1, <2>1, <2>2, <2>3
  <2> QED
    BY <1>8, <2>4
<1>11. N \in G
  <2>1. 0 .. N \subseteq G
    <3> HIDE DEF G
    <3> QED
      BY <1>1, <1>9, <1>10, CountUp
  <2> QED
    BY <1>1, <2>1
<1> QED
  BY <1>7, <1>11

\* The gate of a run, plan by plan.
IsGate(f, ps) ==
    /\ f[0] = required_command_ids
    /\ \A k \in 1 .. Len(ps) : f[k] = Merge(f[k - 1], ps[k].global_verification)
    /\ EffectiveGlobalVerification(ps) = f[Len(ps)]

Commands == Catalog \cup STRING

LEMMA GateExists ==
    ASSUME NEW ps \in Seq(PlanDocument)
    PROVE  \E f \in [0 .. Len(ps) -> Seq(Commands)] : IsGate(f, ps)
<1> DEFINE N == Len(ps)
           more(k) == ps[k].global_verification
           step == [k \in 1 .. N |-> [v \in Seq(Commands) |-> Merge(v, more(k))]]
           gate == CHOOSE f : f = [n \in 0 .. Len(ps) |->
                      IF n = 0 THEN required_command_ids
                      ELSE Merge(f[n - 1], ps[n].global_verification)]
<1>1. N \in Nat /\ \A k \in 1 .. N : more(k) \in Seq(Commands)
  <2>1. \A k \in 1 .. N : ps[k] \in PlanDocument
    BY ElementOfSeq
  <2>2. \A k \in 1 .. N : more(k) \in Seq(STRING)
    BY <2>1 DEF PlanDocument
  <2> QED
    BY <2>2, LenProperties, SeqMonotonic DEF Commands
<1>2. required_command_ids \in Seq(Commands)
  BY ConfigAssumption, SeqMonotonic DEF Commands
<1>3. step \in [1 .. N -> [Seq(Commands) -> Seq(Commands)]]
  <2>1. \A k \in 1 .. N : \A v \in Seq(Commands) : Merge(v, more(k)) \in Seq(Commands)
    BY <1>1, MergeFacts
  <2> QED
    BY <2>1
<1>4. PICK f \in [0 .. N -> Seq(Commands)] :
        Solves(f, N, required_command_ids, step)
  <2> HIDE DEF step, N
  <2> QED
    BY <1>1, <1>2, <1>3, Recursion
<1>5. f[0] = required_command_ids /\ \A k \in 1 .. N : f[k] = Merge(f[k - 1], more(k))
  <2>1. \A k \in 1 .. N : k - 1 \in 0 .. N
    BY <1>1
  <2>2. \A k \in 1 .. N : f[k - 1] \in Seq(Commands)
    <3> HIDE DEF N
    <3> QED
      BY <1>4, <2>1
  <2> QED
    BY <1>1, <1>4, <2>2 DEF Solves
<1>6. f = [n \in 0 .. Len(ps) |-> IF n = 0 THEN required_command_ids
                                 ELSE Merge(f[n - 1], ps[n].global_verification)]
  BY <1>1, <1>4, <1>5
<1>7. gate = [n \in 0 .. Len(ps) |-> IF n = 0 THEN required_command_ids
                                    ELSE Merge(gate[n - 1], ps[n].global_verification)]
  BY <1>6, Zenon
<1>8. EffectiveGlobalVerification(ps) = gate[Len(ps)]
  BY Zenon DEF EffectiveGlobalVerification
<1> HIDE DEF gate, step
<1>9. gate[0] = required_command_ids /\ \A k \in 1 .. N : gate[k] = Merge(gate[k - 1], more(k))
  BY <1>1, <1>7
<1>10. \A k \in 0 .. N : gate[k] \in Seq(Commands)
  <2> DEFINE G == {k \in 0 .. N : gate[k] \in Seq(Commands)}
  <2>1. 0 \in G
    BY <1>1, <1>2, <1>9
  <2>2. ASSUME NEW k \in 1 .. N, k - 1 \in G PROVE k \in G
    <3>1. gate[k - 1] \in Seq(Commands) /\ more(k) \in Seq(Commands)
      BY <1>1, <2>2
    <3>2. Merge(gate[k - 1], more(k)) \in Seq(Commands)
      BY <3>1, MergeFacts
    <3> QED
      BY <1>1, <1>9, <3>2
  <2>3. 0 .. N \subseteq G
    <3> HIDE DEF G
    <3> QED
      BY <1>1, <2>1, <2>2, CountUp
  <2> QED
    BY <2>3
<1>11. gate \in [0 .. N -> Seq(Commands)]
  BY <1>7, <1>10
<1> QED
  BY <1>8, <1>9, <1>11 DEF IsGate

\* One more plan is merged into the gate of the plans before it.
LEMMA GateExtends ==
    ASSUME NEW ps \in Seq(PlanDocument), NEW d \in PlanDocument
    PROVE  EffectiveGlobalVerification(Append(ps, d)) =
             Merge(EffectiveGlobalVerification(ps), d.global_verification)
<1> DEFINE N == Len(ps)
           qs == Append(ps, d)
<1>1. /\ qs \in Seq(PlanDocument) /\ N \in Nat /\ Len(qs) = N + 1
      /\ \A n \in 1 .. N : qs[n] = ps[n]
      /\ qs[N + 1] = d
  BY AppendFacts
<1> HIDE DEF qs, N
<1>2. PICK f : IsGate(f, ps)
  BY GateExists
<1>3. PICK g : IsGate(g, qs)
  BY <1>1, GateExists
<1>4. /\ f[0] = required_command_ids
      /\ \A k \in 1 .. N : f[k] = Merge(f[k - 1], ps[k].global_verification)
      /\ EffectiveGlobalVerification(ps) = f[N]
  BY <1>2 DEF IsGate, N
<1>5. /\ g[0] = required_command_ids
      /\ \A k \in 1 .. N + 1 : g[k] = Merge(g[k - 1], qs[k].global_verification)
      /\ EffectiveGlobalVerification(qs) = g[N + 1]
  BY <1>1, <1>3 DEF IsGate
<1> DEFINE G == {k \in 0 .. N : f[k] = g[k]}
<1>6. 0 \in G
  BY <1>1, <1>4, <1>5
<1>7. ASSUME NEW k \in 1 .. N, k - 1 \in G PROVE k \in G
  <2>1. f[k - 1] = g[k - 1] /\ qs[k] = ps[k] /\ k \in 1 .. N + 1 /\ k \in 0 .. N
    BY <1>1, <1>7
  <2>2. f[k] = Merge(f[k - 1], ps[k].global_verification)
    BY <1>4
  <2>3. g[k] = Merge(g[k - 1], qs[k].global_verification)
    BY <1>5, <2>1
  <2> QED
    BY <2>1, <2>2, <2>3
<1>8. 0 .. N \subseteq G
  <2> HIDE DEF G
  <2> QED
    BY <1>1, <1>6, <1>7, CountUp
<1>9. f[N] = g[N]
  BY <1>1, <1>8
<1>10. N + 1 \in 1 .. N + 1 /\ N + 1 - 1 = N
  BY <1>1
<1>11. g[N + 1] = Merge(g[N], d.global_verification)
  BY <1>1, <1>5, <1>10
<1> QED
  BY <1>4, <1>5, <1>9, <1>11 DEF qs

\* A sequence is one of its elements.
LEMMA Narrow ==
    ASSUME NEW V, NEW W, NEW s \in Seq(V), ToSet(s) \subseteq W
    PROVE  s \in Seq(W)
<1>1. Len(s) \in Nat /\ DOMAIN s = 1 .. Len(s) /\ s \in [1 .. Len(s) -> V]
  BY LenProperties
<1>2. \A n \in 1 .. Len(s) : s[n] \in W
  BY <1>1 DEF ToSet
<1>3. s \in [1 .. Len(s) -> W]
  BY <1>1, <1>2
<1> QED
  BY <1>1, <1>3, SeqDef

\* Merging what resolves with what resolves keeps the first as a prefix, and resolves.
LEMMA MergeResolves ==
    ASSUME NEW s \in Seq(Commands), NEW t \in Seq(Commands), Resolves(s), Resolves(t)
    PROVE  IsPrefix(s, Merge(s, t)) /\ Resolves(Merge(s, t))
<1>1. s \in Seq(Catalog) /\ t \in Seq(Catalog)
  BY Narrow DEF Resolves
<1>2. /\ Merge(s, t) \in Seq(Catalog) /\ Len(s) <= Len(Merge(s, t))
      /\ \A n \in 1 .. Len(s) : Merge(s, t)[n] = s[n]
      /\ IsInjective(Merge(s, t))
  BY <1>1, MergeFacts DEF Resolves
<1> DEFINE m == Merge(s, t)
<1> HIDE DEF m
<1>3. /\ Len(s) \in Nat /\ Len(m) \in Nat /\ DOMAIN m = 1 .. Len(m)
      /\ \A n \in 1 .. Len(s) : s[n] \in Catalog
      /\ \A n \in 1 .. Len(m) : m[n] \in Catalog
  BY <1>1, <1>2, LenProperties, ElementOfSeq DEF m
<1>4. ToSet(m) \subseteq Catalog
  BY <1>3 DEF ToSet
<1>5. SubSeq(s, 1, Len(s)) = SubSeq(m, 1, Len(s))
  <2> DEFINE a == SubSeq(s, 1, Len(s))
             b == SubSeq(m, 1, Len(s))
  <2>1. /\ a \in Seq(Catalog) /\ Len(a) = Len(s)
        /\ \A n \in 1 .. Len(s) : a[n] = s[n]
    BY <1>3, SubSeqProperties
  <2>2. \A n \in 1 .. Len(s) : m[n] = s[n]
    BY <1>2 DEF m
  <2>3. /\ b \in Seq(Catalog) /\ Len(b) = Len(s)
        /\ \A n \in 1 .. Len(s) : b[n] = m[n]
    BY <1>3, <2>2, SubSeqProperties
  <2>4. \A n \in 1 .. Len(a) : a[n] = b[n]
    BY <2>1, <2>2, <2>3
  <2> HIDE DEF a, b
  <2>5. a = b
    BY <2>1, <2>3, <2>4, SeqEqual
  <2> QED
    BY <2>5 DEF a, b
<1> QED
  BY <1>2, <1>4, <1>5 DEF IsPrefix, Resolves, m

\* What a step does to the gate.
LEMMA GateStep ==
    ASSUME IInv, GateHolds, [Next]_vars
    PROVE  /\ IsPrefix(EffectiveGlobalVerification(plans), EffectiveGlobalVerification(plans'))
           /\ Resolves(EffectiveGlobalVerification(plans'))
<1> DEFINE old == EffectiveGlobalVerification(plans)
<1>1. plans \in Seq(PlanDocument)
  BY DEF IInv, TypeOK
<1>2. old \in Seq(Commands) /\ Resolves(old)
  <2>1. PICK f \in [0 .. Len(plans) -> Seq(Commands)] : IsGate(f, plans)
    BY <1>1, GateExists
  <2>2. Len(plans) \in 0 .. Len(plans)
    BY <1>1, LenProperties
  <2>3. old = f[Len(plans)]
    BY <2>1 DEF IsGate
  <2> QED
    BY <2>1, <2>2, <2>3 DEF GateHolds
<1>3. CASE plans' = plans
  BY <1>2, <1>3 DEF IsPrefix
<1>4. ASSUME NEW d \in Documents, AcceptPlan(d)
      PROVE  /\ IsPrefix(old, EffectiveGlobalVerification(plans'))
             /\ Resolves(EffectiveGlobalVerification(plans'))
  <2>1. d \in PlanDocument
    BY InputAssumption
  <2>2. plans' = Append(plans, d) /\ Resolves(d.global_verification)
    BY <1>4 DEF AcceptPlan, ValidatePlan
  <2>3. d.global_verification \in Seq(STRING)
    BY <2>1 DEF PlanDocument
  <2>4. d.global_verification \in Seq(Commands)
    BY <2>3, SeqMonotonic DEF Commands
  <2>5. EffectiveGlobalVerification(plans') = Merge(old, d.global_verification)
    BY <1>1, <2>1, <2>2, GateExtends
  <2> HIDE DEF old
  <2> QED
    BY <1>2, <2>2, <2>4, <2>5, MergeResolves
<1>5. plans' = plans \/ \E d \in Documents : AcceptPlan(d)
  BY DEF Next, vars, Integrate, FinishRound, PromoteReady, StartWorkers, Repair, WorkerFails,
     WorkerEnds, Fail
<1> QED
  BY <1>3, <1>4, <1>5

\* No plan takes a command from the gate, and every gate resolves, for every catalog and
\* every sequence of plans (effective_global_verification).
THEOREM GateNeverShrinks == Spec => GateOnlyGrows
<1>1. Init => GateHolds
  <2> SUFFICES ASSUME Init PROVE GateHolds
    OBVIOUS
  <2>1. plans = <<>> /\ plans \in Seq(PlanDocument) /\ Len(plans) = 0
    BY DEF Init
  <2>2. PICK f : IsGate(f, plans)
    BY <2>1, GateExists
  <2>3. EffectiveGlobalVerification(plans) = required_command_ids
    BY <2>1, <2>2 DEF IsGate
  <2>4. required_command_ids \in Seq(Catalog) /\ IsInjective(required_command_ids)
    BY ConfigAssumption
  <2>5. ToSet(required_command_ids) \subseteq Catalog
    BY <2>4, LenProperties, ElementOfSeq DEF ToSet
  <2> QED
    BY <2>3, <2>4, <2>5 DEF GateHolds, Resolves
<1>2. IInv /\ GateHolds /\ [Next]_vars => GateHolds'
  BY GateStep DEF GateHolds
<1>3. IInv /\ GateHolds /\ [Next]_vars =>
        [/\ IsPrefix(EffectiveGlobalVerification(plans), EffectiveGlobalVerification(plans'))
         /\ Resolves(EffectiveGlobalVerification(plans'))]_vars
  BY GateStep
<1> QED
  BY <1>1, <1>2, <1>3, SchedulerInvariant, PTL DEF Spec, GateOnlyGrows

=============================================================================
