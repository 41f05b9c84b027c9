---------------------------- MODULE MCLifecycle ----------------------------
(***************************************************************************)
(* Instances of Lifecycle for TLC.                                         *)
(***************************************************************************)
EXTENDS LifecycleClaims

\* Three Workers of one plan, T1 and T2 overlap and T3 needs T1, and one of a repair plan.
TeamPlans == <<{"T1", "T2", "T3"}, {"T4"}>>
TeamOrder == <<"T1", "T2", "T3", "T4">>
TeamDependsOn == [t \in {"T1", "T2", "T3", "T4"} |-> IF t = "T3" THEN {"T1"} ELSE {}]
TeamConflict == {<<"T1", "T2">>, <<"T2", "T1">>}

\* Two independent Workers.
PairPlans == <<{"T1", "T2"}>>
PairOrder == <<"T1", "T2">>
PairDependsOn == [t \in {"T1", "T2"} |-> {}]

\* A plan of two tasks and one repair plan, whose task needs one of them.
LivePlans == <<{"T1", "T2"}, {"T3"}>>
LiveOrder == <<"T1", "T2", "T3">>
LiveDependsOn == [t \in {"T1", "T2", "T3"} |-> IF t = "T3" THEN {"T1"} ELSE {}]
=============================================================================
