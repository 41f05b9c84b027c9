---------------------------- MODULE Verification ----------------------------
(***************************************************************************)
(* The verification gate, in the tick that verifies a round globally.  The *)
(* Controller runs the commands one after the other in a new worktree,     *)
(* each as the leader of a process group; it reads their output through a  *)
(* pipe that a descendant may hold longer than the leader lives.  HEAD and *)
(* worktree, and the protected Git state of the product repository, must   *)
(* be the same after the commands as before them.                          *)
(*                                                                         *)
(* A Controller that dies or raises leaves the processes of its operation  *)
(* behind; `vibe resume` verifies again, in another worktree.              *)
(***************************************************************************)
EXTENDS Integers, Sequences

CONSTANTS
    Commands,        \* number of commands of the gate
    MaxOperations,   \* bound: calls of the gate
    MaxMoves         \* bound: changes of refs, by the operator or a command

ASSUME CommandsAssumption == Commands \in Nat \ {0}
ASSUME BoundsAssumption == MaxOperations \in Nat \ {0} /\ MaxMoves \in Nat

Operation == 1 .. MaxOperations
Command == 1 .. Commands

VARIABLES
    status,               \* of the run
    global_verification,  \* the operation whose manifest passed, or 0
    ref_moved,            \* the run ref is not the integration head
    protected,            \* version of the protected Git state
    worktree,             \* each operation's: 0 is what was checked out
    leader,               \* processes of each operation and command
    descendant,           \* one more of the group: it holds the pipe, or not
    \* the Controller
    pc, operation, index,
    before,               \* protected Git state of the first audit
    evidence              \* of each command: whether it timed out, and its exit code

processes == <<leader, descendant>>
vars == <<status, global_verification, ref_moved, protected, worktree, processes, pc,
          operation, index, before, evidence>>

Init ==
    /\ status = "GLOBAL_VERIFYING" /\ global_verification = 0
    /\ ref_moved = FALSE /\ protected = 0
    /\ worktree = [o \in Operation |-> 0]
    /\ leader = [o \in Operation |-> [i \in Command |-> "none"]]
    /\ descendant = [o \in Operation |-> [i \in Command |-> "none"]]
    /\ pc = "idle" /\ operation = 0 /\ index = 1 /\ before = 0 /\ evidence = <<>>

-----------------------------------------------------------------------------
(***************************************************************************)
(* Processes                                                               *)
(***************************************************************************)
LeaderForks(o, i) ==
    /\ leader[o][i] = "running" /\ descendant[o][i] = "none"
    /\ \E d \in {"running", "holding"} : descendant' = [descendant EXCEPT ![o][i] = d]
    /\ UNCHANGED <<status, global_verification, ref_moved, protected, worktree, leader, pc,
                   operation, index, before, evidence>>

ProcessEnds(o, i) ==
    /\ \/ /\ leader[o][i] = "running"
          /\ \E c \in {"0", "other"} : leader' = [leader EXCEPT ![o][i] = c]
          /\ UNCHANGED descendant
       \/ /\ descendant[o][i] \in {"running", "holding"}
          /\ descendant' = [descendant EXCEPT ![o][i] = "none"]
          /\ UNCHANGED leader
    /\ UNCHANGED <<status, global_verification, ref_moved, protected, worktree, pc,
                   operation, index, before, evidence>>

\* A command changes its worktree, or undoes it, or a ref of the product repository.
ProcessWrites(o, i) ==
    /\ leader[o][i] = "running" \/ descendant[o][i] \in {"running", "holding"}
    /\ \/ /\ worktree' = [worktree EXCEPT ![o] = 1 - @]
          /\ UNCHANGED protected
       \/ /\ protected < MaxMoves
          /\ protected' = protected + 1
          /\ UNCHANGED worktree
    /\ UNCHANGED <<status, global_verification, ref_moved, processes, pc, operation, index,
                   before, evidence>>

\* killpg; a process may ignore SIGTERM.
SignalGroup(o, i, survivors) ==
    \E l \in {"other", survivors[1]}, d \in {"none", survivors[2]} :
       /\ leader' = [leader EXCEPT ![o][i] = l]
       /\ descendant' = [descendant EXCEPT ![o][i] = d]

\* The leader has ended and the pipe is at its end.
AtEnd == leader[operation][index] # "running" /\ descendant[operation][index] # "holding"

-----------------------------------------------------------------------------
(***************************************************************************)
(* The Controller                                                          *)
(***************************************************************************)
\* _pause: nothing of the operation is kept.
Pause ==
    /\ status' = "PAUSED" /\ pc' = "idle"
    /\ index' = 1 /\ evidence' = <<>>

Raise ==
    /\ pc' = "idle" /\ index' = 1 /\ evidence' = <<>>
    /\ UNCHANGED status

Begin ==
    /\ pc = "idle" /\ status = "GLOBAL_VERIFYING" /\ operation < MaxOperations
    /\ \/ ref_moved /\ Pause /\ UNCHANGED operation
       \/ /\ ~ ref_moved
          /\ operation' = operation + 1 /\ pc' = "prepare"
          /\ UNCHANGED <<status, index, evidence>>
    /\ UNCHANGED <<global_verification, ref_moved, protected, worktree, processes, before>>

\* Every command is looked up before the first one runs: VerificationEnvironmentError
\* pauses the run.
Prepare ==
    /\ pc = "prepare"
    /\ \/ Pause /\ UNCHANGED before
       \/ /\ before' = protected
          /\ pc' = "start"
          /\ UNCHANGED <<status, index, evidence>>
    /\ UNCHANGED <<global_verification, ref_moved, protected, worktree, processes, operation>>

StartCommand ==
    /\ pc = "start"
    /\ \/ Pause /\ UNCHANGED leader
       \/ /\ leader' = [leader EXCEPT ![operation][index] = "running"]
          /\ pc' = "communicate"
          /\ UNCHANGED <<status, index, evidence>>
    /\ UNCHANGED <<global_verification, ref_moved, protected, worktree, descendant, operation,
                   before>>

\* _run_command: communicate returns ...
Communicated ==
    /\ pc \in {"communicate", "terminated", "killed"} /\ AtEnd
    /\ evidence' = Append(evidence,
         IF pc = "communicate" THEN [timed_out |-> FALSE, exit_code |-> leader[operation][index]]
                               ELSE [timed_out |-> TRUE, exit_code |-> "None"])
    /\ pc' = IF index = Commands THEN "audit" ELSE "start"
    /\ index' = IF index = Commands THEN index ELSE index + 1
    /\ UNCHANGED <<status, global_verification, ref_moved, protected, worktree, processes,
                   operation, before>>

\* ... or its timeout expires.  A group whose leader has ended is not signalled.
TimeoutExpired ==
    /\ pc = "communicate" /\ ~ AtEnd
    /\ IF leader[operation][index] = "running"
         THEN SignalGroup(operation, index,
                          <<"running", descendant[operation][index]>>)
         ELSE UNCHANGED processes
    /\ pc' = "terminated"
    /\ UNCHANGED <<status, global_verification, ref_moved, protected, worktree, operation,
                   index, before, evidence>>

\* Mutant: SIGTERM is taken to be enough.
GraceExpiredQuietly ==
    /\ pc = "terminated" /\ ~ AtEnd
    /\ pc' = "killed"
    /\ UNCHANGED <<status, global_verification, ref_moved, protected, worktree, processes,
                   operation, index, before, evidence>>

\* After two seconds.  The last communicate has no timeout.
GraceExpired ==
    /\ pc = "terminated" /\ ~ AtEnd
    /\ IF leader[operation][index] = "running"
         THEN SignalGroup(operation, index, <<"other", "none">>)
         ELSE UNCHANGED processes
    /\ pc' = "killed"
    /\ UNCHANGED <<status, global_verification, ref_moved, protected, worktree, operation,
                   index, before, evidence>>

\* The second audit.  What differs raises ContractError, which nobody catches.
Audit ==
    /\ pc = "audit"
    /\ IF worktree[operation] = 0 /\ protected = before
         THEN pc' = "judge" /\ UNCHANGED <<status, index, evidence>>
         ELSE Raise
    /\ UNCHANGED <<global_verification, ref_moved, protected, worktree, processes, operation,
                   before>>

\* Mutant: the last command decides.
PassedLast == evidence[Len(evidence)].exit_code = "0"

Passed == \A i \in DOMAIN evidence : ~ evidence[i].timed_out /\ evidence[i].exit_code = "0"

Judge ==
    /\ pc = "judge"
    /\ \/ ref_moved /\ Pause /\ UNCHANGED global_verification
       \/ /\ ~ ref_moved
          /\ status' = IF Passed THEN "EVALUATING" ELSE "REPAIRING"
          /\ global_verification' = IF Passed THEN operation ELSE global_verification
          /\ pc' = "idle" /\ index' = 1 /\ evidence' = <<>>
    /\ UNCHANGED <<ref_moved, protected, worktree, processes, operation, before>>

Controller ==
    \/ Begin \/ Prepare \/ StartCommand \/ Communicated \/ TimeoutExpired \/ GraceExpired
    \/ Audit \/ Judge

Crash ==
    /\ pc # "idle" /\ Raise
    /\ UNCHANGED <<global_verification, ref_moved, protected, worktree, processes, operation,
                   before>>

\* The operator commits, or moves the run ref.
OperatorMoves ==
    /\ \/ protected < MaxMoves /\ protected' = protected + 1 /\ UNCHANGED ref_moved
       \/ MaxMoves > 0 /\ ref_moved' = TRUE /\ UNCHANGED protected
    /\ UNCHANGED <<status, global_verification, worktree, processes, pc, operation, index,
                   before, evidence>>

Next ==
    \/ Controller \/ Crash \/ OperatorMoves
    \/ \E o \in Operation, i \in Command :
          LeaderForks(o, i) \/ ProcessEnds(o, i) \/ ProcessWrites(o, i)

\* A Controller that lives goes on, and timeouts expire.  Nothing is assumed of a command.
Spec == Init /\ [][Next]_vars /\ WF_vars(Controller)

-----------------------------------------------------------------------------
(***************************************************************************)
(* Properties                                                              *)
(***************************************************************************)
\* A round that is handed to the Evaluator passed every command: each leader ended by
\* itself with 0, and its output was read to the end, although commands hang, are killed,
\* leave descendants behind or change what they verify, and although earlier calls of the
\* gate were cut short (run, _run_command).
PassIsEarned ==
    /\ status = "EVALUATING" => global_verification = operation
    /\ global_verification # 0 =>
         \A i \in Command : /\ leader[global_verification][i] = "0"
                            /\ descendant[global_verification][i] # "holding"

TypeOK ==
    /\ status \in {"GLOBAL_VERIFYING", "PAUSED", "EVALUATING", "REPAIRING"}
    /\ {global_verification, operation} \subseteq 0 .. MaxOperations
    /\ leader \in [Operation -> [Command -> {"none", "running", "0", "other"}]]
    /\ descendant \in [Operation -> [Command -> {"none", "running", "holding"}]]
    /\ pc \in {"idle", "prepare", "start", "communicate", "terminated", "killed", "audit",
               "judge"}
    /\ index \in Command
    /\ evidence \in Seq([timed_out : BOOLEAN, exit_code : {"none", "0", "other", "None"}])

\* The command is over: its leader ended with 0 and nobody holds its pipe, and as only a
\* leader forks nobody ever will.
Over(o, i) == leader[o][i] = "0" /\ descendant[o][i] # "holding"

\* The Controller works on the operation it began last, and none of those before passed.
OperationMeans ==
    /\ pc # "idle" => status = "GLOBAL_VERIFYING" /\ operation # 0
    /\ status = "EVALUATING" => global_verification # 0
    /\ global_verification # 0 => status = "EVALUATING" /\ global_verification = operation

\* Evidence is in the order of the commands, one for each that was run, and good evidence
\* is about a command that is over.
EvidenceMeans ==
    /\ Len(evidence) = CASE pc \in {"idle", "prepare"} -> 0
                         [] pc \in {"audit", "judge"}  -> Commands
                         [] OTHER                      -> index - 1
    /\ pc \in {"idle", "prepare"} => index = 1
    /\ \A i \in DOMAIN evidence :
         ~ evidence[i].timed_out /\ evidence[i].exit_code = "0" => Over(operation, i)

PassedIsOver ==
    global_verification # 0 => \A i \in Command : Over(global_verification, i)

\* The inductive invariant: what Judge reads is true of the processes of its operation.
IInv == TypeOK /\ OperationMeans /\ EvidenceMeans /\ PassedIsOver

\* A command that neither ends nor obeys SIGTERM does not hold up the Controller: the gate
\* ends, unless a descendant keeps the pipe after the leader has ended, for then nothing is
\* signalled and nothing times out (_run_command, _terminate_group, _kill_group).
Orphaned == leader[operation][index] # "running" /\ descendant[operation][index] = "holding"
GateEnds == pc = "communicate" ~> pc \in {"audit", "start", "idle"} \/ Orphaned

=============================================================================
