------------------------- MODULE VerificationProofs -------------------------
(***************************************************************************)
(* Proofs about the verification gate, for any number of commands, calls   *)
(* and movements: a pass is earned.                                        *)
(***************************************************************************)
EXTENDS Verification, SequenceTheorems, TLAPS

USE CommandsAssumption, BoundsAssumption DEF Operation, Command

LEMMA InitHolds == Init => IInv
BY EmptySeq DEF Init, IInv, TypeOK, OperationMeans, EvidenceMeans, PassedIsOver

\* One process of one operation changes.
LEMMA Update ==
    ASSUME NEW S, NEW f \in [Operation -> [Command -> S]], NEW o \in Operation,
           NEW i \in Command, NEW v \in S
    PROVE  /\ [f EXCEPT ![o][i] = v] \in [Operation -> [Command -> S]]
           /\ \A q \in Operation, j \in Command :
                [f EXCEPT ![o][i] = v][q][j] = IF q = o /\ j = i THEN v ELSE f[q][j]
<1>1. f[o] \in [Command -> S] /\ [f[o] EXCEPT ![i] = v] \in [Command -> S]
  OBVIOUS
<1> QED
  BY <1>1

\* What only reads or changes processes and refs keeps the invariant when it starts no
\* command anew and types are kept.
LEMMA ProcessFrame ==
    ASSUME IInv, TypeOK',
           UNCHANGED <<status, global_verification, pc, operation, index, evidence>>,
           \A o \in Operation, i \in Command : Over(o, i) => Over(o, i)'
    PROVE  IInv'
<1>1. OperationMeans'
  BY DEF IInv, OperationMeans
<1>2. ASSUME NEW i \in DOMAIN evidence, ~ evidence[i].timed_out /\ evidence[i].exit_code = "0"
      PROVE  Over(operation, i)'
  <2>1. Len(evidence) \in 0 .. Commands
    BY DEF IInv, TypeOK, EvidenceMeans
  <2>2. i \in Command
    BY <2>1, LenProperties DEF IInv, TypeOK
  <2>3. pc # "idle"
    BY <2>2, LenProperties DEF IInv, TypeOK, EvidenceMeans
  <2> QED
    BY <1>2, <2>2, <2>3 DEF IInv, TypeOK, OperationMeans, EvidenceMeans
<1>3. EvidenceMeans'
  BY <1>2 DEF IInv, EvidenceMeans
<1>4. PassedIsOver'
  BY DEF IInv, TypeOK, PassedIsOver
<1> QED
  BY <1>1, <1>3, <1>4 DEF IInv

\* A process that is over neither runs nor forks.
LEMMA ProcessStep ==
    ASSUME IInv, NEW o \in Operation, NEW i \in Command,
           LeaderForks(o, i) \/ ProcessEnds(o, i) \/ ProcessWrites(o, i)
    PROVE  IInv'
<1> DEFINE L == {"none", "running", "0", "other"}
           D == {"none", "running", "holding"}
<1>0. leader \in [Operation -> [Command -> L]] /\ descendant \in [Operation -> [Command -> D]]
  BY DEF IInv, TypeOK
<1>a. PICK l \in L, d \in D :
        /\ leader' = [leader EXCEPT ![o][i] = l] \/ leader' = leader
        /\ descendant' = [descendant EXCEPT ![o][i] = d] \/ descendant' = descendant
        /\ leader' # leader => leader[o][i] = "running"
        /\ descendant' # descendant => leader[o][i] = "running" \/ d = "none"
  BY <1>0 DEF LeaderForks, ProcessEnds, ProcessWrites, processes
<1>b. /\ leader' \in [Operation -> [Command -> L]] /\ descendant' \in [Operation -> [Command -> D]]
      /\ \A q \in Operation, j \in Command :
           /\ leader'[q][j] = leader[q][j] \/ (q = o /\ j = i /\ leader[o][i] = "running")
           /\ \/ descendant'[q][j] = descendant[q][j] \/ descendant'[q][j] = "none"
              \/ q = o /\ j = i /\ leader[o][i] = "running"
  <2>1. /\ leader' \in [Operation -> [Command -> L]]
        /\ \A q \in Operation, j \in Command :
             leader'[q][j] = leader[q][j] \/ (q = o /\ j = i /\ leader[o][i] = "running")
    <3>1. CASE leader' = leader
      BY <1>0, <3>1
    <3>2. CASE leader' = [leader EXCEPT ![o][i] = l] /\ leader' # leader
      BY ONLY <1>0, <1>a, <3>2, Update
    <3> QED
      BY <1>a, <3>1, <3>2
  <2>2. /\ descendant' \in [Operation -> [Command -> D]]
        /\ \A q \in Operation, j \in Command :
             \/ descendant'[q][j] = descendant[q][j] \/ descendant'[q][j] = "none"
             \/ q = o /\ j = i /\ leader[o][i] = "running"
    <3>1. CASE descendant' = descendant
      BY <1>0, <3>1
    <3>2. CASE descendant' = [descendant EXCEPT ![o][i] = d] /\ descendant' # descendant
      BY ONLY <1>0, <1>a, <3>2, Update
    <3> QED
      BY <1>a, <3>1, <3>2
  <2> QED
    BY <2>1, <2>2
<1>1. TypeOK'
  BY <1>b DEF IInv, TypeOK, LeaderForks, ProcessEnds, ProcessWrites
<1>2. \A q \in Operation, j \in Command : Over(q, j) => Over(q, j)'
  BY <1>b DEF Over
<1>3. UNCHANGED <<status, global_verification, pc, operation, index, evidence>>
  BY DEF LeaderForks, ProcessEnds, ProcessWrites
<1> QED
  BY <1>1, <1>2, <1>3, ProcessFrame

\* An operation that is cut short leaves no evidence: it raises, pauses or dies.
LEMMA CutShort ==
    ASSUME IInv, pc' = "idle", index' = 1, evidence' = <<>>,
           status' = status \/ (status' = "PAUSED" /\ status = "GLOBAL_VERIFYING"),
           UNCHANGED <<global_verification, operation, processes>>
    PROVE  IInv'
<1>1. TypeOK'
  BY EmptySeq DEF IInv, TypeOK, processes
<1>2. OperationMeans' /\ EvidenceMeans' /\ PassedIsOver'
  BY EmptySeq DEF IInv, TypeOK, OperationMeans, EvidenceMeans, PassedIsOver, Over, processes
<1> QED
  BY <1>1, <1>2 DEF IInv

LEMMA BeginStep == ASSUME IInv, Begin PROVE IInv'
<1>1. CASE ref_moved /\ Pause /\ UNCHANGED operation
  BY <1>1, CutShort DEF Begin, Pause
<1>2. CASE /\ operation' = operation + 1 /\ pc' = "prepare"
           /\ UNCHANGED <<status, index, evidence>>
  <2>1. global_verification = 0
    BY DEF Begin, IInv, OperationMeans
  <2> QED
    BY <1>2, <2>1, LenProperties
    DEF Begin, IInv, TypeOK, OperationMeans, EvidenceMeans, PassedIsOver, Over, processes
<1> QED
  BY <1>1, <1>2 DEF Begin

LEMMA PrepareStep == ASSUME IInv, Prepare PROVE IInv'
<1>1. CASE Pause
  BY <1>1, CutShort DEF Prepare, Pause, IInv, OperationMeans
<1>2. CASE pc' = "start" /\ UNCHANGED <<status, index, evidence>>
  BY <1>2, LenProperties
  DEF Prepare, IInv, TypeOK, OperationMeans, EvidenceMeans, PassedIsOver, Over, processes
<1> QED
  BY <1>1, <1>2 DEF Prepare

\* The command that starts has no evidence yet.
LEMMA StartCommandStep == ASSUME IInv, StartCommand PROVE IInv'
<1>1. CASE Pause /\ UNCHANGED leader
  BY <1>1, CutShort DEF StartCommand, Pause, IInv, OperationMeans, processes
<1>2. CASE /\ leader' = [leader EXCEPT ![operation][index] = "running"]
           /\ pc' = "communicate" /\ UNCHANGED <<status, index, evidence>>
  <2>1. global_verification = 0 /\ operation \in Operation
    BY DEF StartCommand, IInv, TypeOK, OperationMeans
  <2>2. TypeOK'
    BY <1>2, <2>1 DEF StartCommand, IInv, TypeOK
  <2>3. \A i \in DOMAIN evidence : i \in Command /\ i # index
    BY LenProperties DEF StartCommand, IInv, TypeOK, EvidenceMeans
  <2>4. \A i \in DOMAIN evidence : Over(operation, i) => Over(operation, i)'
    BY <1>2, <2>1, <2>3 DEF StartCommand, IInv, TypeOK, Over
  <2>5. EvidenceMeans'
    BY <1>2, <2>4 DEF StartCommand, IInv, EvidenceMeans
  <2> QED
    BY <1>2, <2>1, <2>2, <2>5 DEF StartCommand, IInv, OperationMeans, PassedIsOver
<1> QED
  BY <1>1, <1>2 DEF StartCommand

\* Only a leader that ended by itself with 0, and whose pipe is at its end, gives good
\* evidence.
LEMMA CommunicatedStep == ASSUME IInv, Communicated PROVE IInv'
<1> DEFINE e == IF pc = "communicate"
                  THEN [timed_out |-> FALSE, exit_code |-> leader[operation][index]]
                  ELSE [timed_out |-> TRUE, exit_code |-> "None"]
           E == [timed_out : BOOLEAN, exit_code : {"none", "0", "other", "None"}]
<1>1. global_verification = 0 /\ operation \in Operation /\ index \in Command
  BY DEF Communicated, IInv, TypeOK, OperationMeans
<1>2. evidence \in Seq(E) /\ Len(evidence) = index - 1
  BY DEF Communicated, IInv, TypeOK, EvidenceMeans
<1>3. e \in E
  BY <1>1 DEF Communicated, IInv, TypeOK, AtEnd
<1>4. evidence' = Append(evidence, e)
  BY DEF Communicated
<1> HIDE DEF e
<1>5. /\ evidence' \in Seq(E) /\ Len(evidence') = index
      /\ \A i \in 1 .. index - 1 : evidence'[i] = evidence[i]
      /\ evidence'[index] = e
  BY <1>1, <1>2, <1>3, <1>4, AppendProperties
<1>6. DOMAIN evidence' = 1 .. index /\ DOMAIN evidence = 1 .. index - 1
  BY <1>1, <1>2, <1>5, LenProperties
<1>7. TypeOK'
  BY <1>1, <1>5 DEF Communicated, IInv, TypeOK, processes
<1>8. ~ e.timed_out /\ e.exit_code = "0" => Over(operation, index)
  BY DEF e, Communicated, AtEnd, Over
<1>9. EvidenceMeans'
  <2>1. \A i \in DOMAIN evidence' :
           ~ evidence'[i].timed_out /\ evidence'[i].exit_code = "0" => Over(operation, i)'
    BY <1>1, <1>5, <1>6, <1>8 DEF Communicated, IInv, EvidenceMeans, Over, processes
  <2> QED
    BY <1>1, <1>5, <2>1 DEF Communicated, EvidenceMeans
<1> QED
  BY <1>1, <1>7, <1>9 DEF Communicated, IInv, OperationMeans, PassedIsOver

\* A command that is signalled is not over, or nothing happens to it.
LEMMA SignalStep == ASSUME IInv, TimeoutExpired \/ GraceExpired PROVE IInv'
<1>1. global_verification = 0 /\ operation \in Operation /\ index \in Command
  BY DEF TimeoutExpired, GraceExpired, IInv, TypeOK, OperationMeans
<1> DEFINE L == {"none", "running", "0", "other"}
           D == {"none", "running", "holding"}
<1>a. leader \in [Operation -> [Command -> L]] /\ descendant \in [Operation -> [Command -> D]]
  BY DEF IInv, TypeOK
<1>b. \/ UNCHANGED processes
      \/ \E l \in L, d \in D : /\ leader' = [leader EXCEPT ![operation][index] = l]
                              /\ descendant' = [descendant EXCEPT ![operation][index] = d]
  <2>1. "running" \in L /\ "other" \in L /\ "none" \in D /\ descendant[operation][index] \in D
    BY <1>1, <1>a
  <2> HIDE DEF L, D
  <2> QED
    BY <2>1 DEF TimeoutExpired, GraceExpired, SignalGroup
<1>c. /\ leader' \in [Operation -> [Command -> L]] /\ descendant' \in [Operation -> [Command -> D]]
      /\ \A j \in Command : j # index => /\ leader'[operation][j] = leader[operation][j]
                                      /\ descendant'[operation][j] = descendant[operation][j]
  <2>1. CASE UNCHANGED processes
    BY <1>a, <2>1 DEF processes
  <2>2. ASSUME NEW l \in L, NEW d \in D,
               leader' = [leader EXCEPT ![operation][index] = l],
               descendant' = [descendant EXCEPT ![operation][index] = d]
        PROVE  <1>c
    <3> HIDE DEF L, D
    <3>1. /\ leader' \in [Operation -> [Command -> L]]
          /\ \A j \in Command : j # index => leader'[operation][j] = leader[operation][j]
      BY <1>1, <1>a, <2>2, Update
    <3>2. /\ descendant' \in [Operation -> [Command -> D]]
          /\ \A j \in Command : j # index => descendant'[operation][j] = descendant[operation][j]
      BY <1>1, <1>a, <2>2, Update
    <3> QED
      BY <3>1, <3>2
  <2> QED
    BY <1>b, <2>1, <2>2
<1>2. TypeOK'
  BY <1>c DEF TimeoutExpired, GraceExpired, IInv, TypeOK
<1>3. \A i \in Command : i # index /\ Over(operation, i) => Over(operation, i)'
  BY <1>c DEF TimeoutExpired, GraceExpired, Over
<1>4. \A i \in DOMAIN evidence : i \in Command /\ i # index
  BY LenProperties DEF TimeoutExpired, GraceExpired, IInv, TypeOK, EvidenceMeans
<1>5. EvidenceMeans'
  BY <1>3, <1>4 DEF TimeoutExpired, GraceExpired, IInv, EvidenceMeans
<1> QED
  BY <1>1, <1>2, <1>5 DEF TimeoutExpired, GraceExpired, IInv, OperationMeans, PassedIsOver

LEMMA AuditStep == ASSUME IInv, Audit PROVE IInv'
<1>1. CASE pc' = "judge" /\ UNCHANGED <<status, index, evidence>>
  BY <1>1, LenProperties
  DEF Audit, IInv, TypeOK, OperationMeans, EvidenceMeans, PassedIsOver, Over, processes
<1>2. CASE Raise
  BY <1>2, CutShort DEF Audit, Raise
<1> QED
  BY <1>1, <1>2 DEF Audit

\* All evidence is good and there is one for every command.
LEMMA JudgeStep == ASSUME IInv, Judge PROVE IInv'
<1>1. global_verification = 0 /\ operation \in Operation /\ status = "GLOBAL_VERIFYING"
  BY DEF Judge, IInv, TypeOK, OperationMeans
<1>2. CASE ref_moved /\ Pause /\ UNCHANGED global_verification
  BY <1>1, <1>2, CutShort DEF Judge, Pause
<1>3. CASE /\ status' = IF Passed THEN "EVALUATING" ELSE "REPAIRING"
           /\ global_verification' = IF Passed THEN operation ELSE global_verification
           /\ pc' = "idle" /\ index' = 1 /\ evidence' = <<>>
  <2>1. DOMAIN evidence = Command
    BY LenProperties DEF Judge, IInv, TypeOK, EvidenceMeans
  <2>2. Passed => \A i \in Command : Over(operation, i)
    BY <2>1 DEF Passed, IInv, EvidenceMeans
  <2>3. TypeOK' /\ EvidenceMeans'
    BY <1>1, <1>3, EmptySeq DEF Judge, IInv, TypeOK, EvidenceMeans, processes
  <2>4. OperationMeans' /\ PassedIsOver'
    BY <1>1, <1>3, <2>2 DEF Judge, OperationMeans, PassedIsOver, Over, processes
  <2> QED
    BY <2>3, <2>4 DEF IInv
<1> QED
  BY <1>2, <1>3 DEF Judge

LEMMA StepKeepsIInv == ASSUME IInv, [Next]_vars PROVE IInv'
<1>1. CASE Crash
  BY <1>1, CutShort DEF Crash, Raise
<1>2. CASE OperatorMoves
  <2>1. TypeOK' /\ (\A o, i : Over(o, i) => Over(o, i)')
    BY <1>2 DEF OperatorMoves, IInv, TypeOK, Over, processes
  <2> QED
    BY <1>2, <2>1, ProcessFrame DEF OperatorMoves
<1>3. CASE UNCHANGED vars
  <2>1. TypeOK' /\ (\A o, i : Over(o, i) => Over(o, i)')
    BY <1>3 DEF vars, IInv, TypeOK, Over, processes
  <2> QED
    BY <1>3, <2>1, ProcessFrame DEF vars
<1>4. CASE Controller
  BY <1>4, BeginStep, PrepareStep, StartCommandStep, CommunicatedStep, SignalStep, AuditStep,
     JudgeStep DEF Controller
<1> QED
  BY <1>1, <1>2, <1>3, <1>4, ProcessStep DEF Next

-----------------------------------------------------------------------------
\* Evidence and processes agree in every reachable state.
THEOREM GateInvariant == Spec => []IInv
<1>1. Init => IInv
  BY InitHolds
<1>2. IInv /\ [Next]_vars => IInv'
  BY StepKeepsIInv
<1> QED
  BY <1>1, <1>2, PTL DEF Spec

\* A round is handed to the Evaluator only when every command of the last call ended by
\* itself with 0 and its output was read to the end.
THEOREM PassesAreEarned == Spec => []PassIsEarned
<1>1. IInv => PassIsEarned
  BY DEF IInv, OperationMeans, PassedIsOver, Over, PassIsEarned
<1> QED
  BY <1>1, GateInvariant, PTL

=============================================================================
