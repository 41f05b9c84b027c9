---------------------------- MODULE Integration ----------------------------
(***************************************************************************)
(* How a finished Worker Attempt becomes part of the run's integration     *)
(* ref: the source-commit transaction of controller.py (prepared marker,   *)
(* compare-and-swap of the reserved task ref, completion) followed by the  *)
(* candidate transaction of integrator.py (candidate verification,         *)
(* pending_integration marker, compare-and-swap of the run ref,            *)
(* completion), with the recovery that `vibe resume` performs after a      *)
(* crash between any two of these steps, and with somebody else moving     *)
(* the refs.                                                               *)
(*                                                                         *)
(* A commit is the sequence of patches that lead to it from base_sha; the  *)
(* empty sequence is base_sha itself.  A patch names the Attempt that made *)
(* it; ForeignPatch is a commit that no Attempt made.                      *)
(***************************************************************************)
EXTENDS Integers, Sequences

CONSTANTS
    Task,         \* task IDs; their order as integers is the sorted() order
    MaxAttempts,  \* max_attempts of every task contract
    Delta,        \* what a Worker may leave behind: subset of {"clean", "refused"}
    MaxMoves,     \* bound: external movements of a ref
    MaxCrashes    \* bound: crashes of the Controller process

ASSUME TaskAssumption == Task \subseteq Nat \ {0}
ASSUME LimitAssumption == MaxAttempts \in Nat \ {0}
ASSUME DeltaAssumption == Delta \subseteq {"clean", "refused"}
ASSUME BoundAssumption == MaxMoves \in Nat /\ MaxCrashes \in Nat

VARIABLES
    \* state.json
    status,        \* run status, as far as this component changes it
    resume_status, \* status to return to, "NONE" for null
    head,          \* repository.integration_head
    task,          \* task status; "VERIFYING" is RUNNING with a VERIFYING Attempt
    attempt_no,    \* number of the last Attempt of a task
    failure_count, \* failed Attempts of a task
    base,          \* active_attempt.task_base_sha
    source,        \* pending_source_commit
    pending,       \* pending_integration
    evidence,      \* heads in the marker's ref-moved evidence artifact, at most one
    \* Git
    runRef,        \* refs/heads/vibe/run-<run>
    taskRef,       \* the reserved ref of the task's current Attempt
    delta,         \* the edits the Worker left in its worktree
    \* the Controller process
    pc, ret, candidate,
    \* history and bounds
    verified,      \* commits with a passed verification manifest
    held,          \* every commit the run ref ever pointed to
    moves, crashes

durable == <<status, resume_status, head, task, attempt_no, failure_count,
             base, source, pending, evidence>>
git     == <<runRef, taskRef, delta, held>>
process == <<pc, ret, candidate>>
bounds  == <<moves, crashes>>
vars    == <<durable, git, process, verified, bounds>>

-----------------------------------------------------------------------------
Patch == [task : Task \cup {0}, attempt : Nat]
Commit == Seq(Patch)
ForeignPatch == [task |-> 0, attempt |-> 0]
BaseCommit == <<>>

Marker == [task : Task \cup {0}, expected : Commit, candidate : Commit]
NoMarker == [task |-> 0, expected |-> BaseCommit, candidate |-> BaseCommit]

TaskStatus == {"READY", "RUNNING", "VERIFYING", "READY_TO_INTEGRATE",
               "INTEGRATING", "COMPLETED", "FAILED"}

Location == {"tick", "source_cas", "source_complete", "persist_pending",
             "apply_cas", "complete_state", "recover_source",
             "recover_integration", "pause_after_exit", "restore", "down"}

TypeOK ==
    /\ status \in {"EXECUTING", "PAUSED", "FAILED", "GLOBAL_VERIFYING"}
    /\ resume_status \in {"NONE", "EXECUTING"}
    /\ head \in Commit
    /\ task \in [Task -> TaskStatus]
    /\ attempt_no \in [Task -> Nat]
    /\ failure_count \in [Task -> 0 .. MaxAttempts]
    /\ base \in [Task -> Commit]
    /\ source \in Marker
    /\ pending \in Marker
    /\ evidence \subseteq Commit
    /\ runRef \in Commit
    /\ taskRef \in [Task -> Commit]
    /\ delta \in [Task -> {"clean", "refused"}]
    /\ pc \in Location
    /\ ret \in {"tick", "recover_integration", "pause_after_exit"}
    /\ candidate \in Marker
    /\ verified \subseteq Commit
    /\ held \subseteq Commit
    /\ moves \in 0 .. MaxMoves
    /\ crashes \in 0 .. MaxCrashes

Init ==
    /\ status = "EXECUTING" /\ resume_status = "NONE"
    /\ head = BaseCommit
    /\ task = [t \in Task |-> "READY"]
    /\ attempt_no = [t \in Task |-> 0]
    /\ failure_count = [t \in Task |-> 0]
    /\ base = [t \in Task |-> BaseCommit]
    /\ source = NoMarker /\ pending = NoMarker /\ evidence = {}
    /\ runRef = BaseCommit
    /\ taskRef = [t \in Task |-> BaseCommit]
    /\ delta = [t \in Task |-> "clean"]
    /\ pc = "tick" /\ ret = "tick" /\ candidate = NoMarker
    /\ verified = {} /\ held = {BaseCommit}
    /\ moves = 0 /\ crashes = 0

-----------------------------------------------------------------------------
(***************************************************************************)
(* One tick of _execute_tasks.  Its branches are tried in this order, and  *)
(* within a branch the task with the smallest ID comes first.              *)
(***************************************************************************)
Tick == pc = "tick" /\ status = "EXECUTING"
Unmarked == source = NoMarker /\ pending = NoMarker

InStatus(s) == {t \in Task : task[t] = s}
IsFirst(t, S) == t \in S /\ \A u \in S : t <= u

PatchOf(t) == [task |-> t, attempt |-> attempt_no[t]]
SourceCommit(t) == Append(base[t], PatchOf(t))

\* The process raises or returns; what it held in memory is gone.
Exit == pc' = "down" /\ ret' = "tick" /\ candidate' = NoMarker

(***************************************************************************)
(* Closing a failed Attempt makes the task READY for another one, or, once *)
(* failure_count reaches max_attempts, makes the task and the run FAILED.  *)
(* validate_run_state refuses a FAILED run that keeps pending dispatches,  *)
(* so while another Worker runs the transaction raises instead.            *)
(***************************************************************************)
CloseFailed(t) ==
    \/ /\ failure_count[t] + 1 < MaxAttempts
       /\ failure_count' = [failure_count EXCEPT ![t] = @ + 1]
       /\ task' = [task EXCEPT ![t] = "READY"]
       /\ UNCHANGED <<status, process>>
    \/ /\ failure_count[t] + 1 >= MaxAttempts
       /\ InStatus("RUNNING") \subseteq {t}
       /\ failure_count' = [failure_count EXCEPT ![t] = @ + 1]
       /\ task' = [task EXCEPT ![t] = "FAILED"]
       /\ status' = "FAILED"
       /\ UNCHANGED process
    \/ /\ failure_count[t] + 1 >= MaxAttempts
       /\ ~ (InStatus("RUNNING") \subseteq {t})
       /\ Exit
       /\ UNCHANGED <<failure_count, task, status>>

(***************************************************************************)
(* _start_workers allocates the Attempt on the current integration_head    *)
(* and creates its reserved ref there; the Worker then runs on its own.    *)
(* The dispatch in between is the subject of the Lifecycle module.         *)
(***************************************************************************)
StartAttempt(t) ==
    /\ Tick /\ Unmarked
    /\ InStatus("VERIFYING") = {} /\ InStatus("READY_TO_INTEGRATE") = {}
    /\ task[t] = "READY" /\ failure_count[t] < MaxAttempts
    /\ task' = [task EXCEPT ![t] = "RUNNING"]
    /\ attempt_no' = [attempt_no EXCEPT ![t] = @ + 1]
    /\ base' = [base EXCEPT ![t] = head]
    /\ taskRef' = [taskRef EXCEPT ![t] = head]
    /\ UNCHANGED <<status, resume_status, head, failure_count, source, pending,
                   evidence, runRef, delta, held, process, verified, bounds>>

\* _poll_workers accepts a Worker result: the Attempt becomes VERIFYING.
AcceptResult(t, d) ==
    /\ Tick /\ Unmarked
    /\ task[t] = "RUNNING"
    /\ task' = [task EXCEPT ![t] = "VERIFYING"]
    /\ delta' = [delta EXCEPT ![t] = d]
    /\ UNCHANGED <<status, resume_status, head, attempt_no, failure_count, base,
                   source, pending, evidence, runRef, taskRef, held, process,
                   verified, bounds>>

\* _poll_workers sees the Provider fail: _freeze_failed_worker.
FreezeFailedWorker(t) ==
    /\ Tick /\ Unmarked
    /\ task[t] = "RUNNING"
    /\ CloseFailed(t)
    /\ UNCHANGED <<resume_status, head, attempt_no, base, source, pending, evidence,
                   git, verified, bounds>>

-----------------------------------------------------------------------------
(***************************************************************************)
(* Source commit of a VERIFYING Attempt: prepare_source_commit audits the  *)
(* worktree and raises on a refused delta or a moved task ref; otherwise   *)
(* the marker is persisted, the task ref swapped and the marker completed. *)
(***************************************************************************)
Auditable(t) == delta[t] = "clean" /\ taskRef[t] = base[t]

PrepareSource(t) ==
    /\ Tick /\ Unmarked
    /\ IsFirst(t, InStatus("VERIFYING"))
    /\ \/ /\ Auditable(t)
          /\ source' = [task |-> t, expected |-> base[t],
                        candidate |-> SourceCommit(t)]
          /\ pc' = "source_cas" /\ ret' = "tick"
          /\ UNCHANGED candidate
       \/ /\ ~ Auditable(t)
          /\ Exit
          /\ UNCHANGED source
    /\ UNCHANGED <<status, resume_status, head, task, attempt_no, failure_count,
                   base, pending, evidence, git, verified, bounds>>

\* apply_source_commit_cas: git update-ref <task ref> <candidate> <base>.
ApplySourceCas ==
    /\ pc = "source_cas"
    /\ \/ /\ taskRef[source.task] = source.expected
          /\ taskRef' = [taskRef EXCEPT ![source.task] = source.candidate]
          /\ pc' = "source_complete"
          /\ UNCHANGED <<ret, candidate>>
       \/ /\ taskRef[source.task] # source.expected
          /\ Exit
          /\ UNCHANGED taskRef
    /\ UNCHANGED <<durable, runRef, delta, held, verified, bounds>>

\* Mutant: the completed marker is not cleared.
KeepSourceMarker ==
    /\ pc = "source_complete"
    /\ task' = [task EXCEPT ![source.task] = "READY_TO_INTEGRATE"]
    /\ pc' = ret
    /\ UNCHANGED <<status, resume_status, head, attempt_no, failure_count, base,
                   source, pending, evidence, git, ret, candidate, verified,
                   bounds>>

CompleteSourceMarker ==
    /\ pc = "source_complete"
    /\ task' = [task EXCEPT ![source.task] = "READY_TO_INTEGRATE"]
    /\ source' = NoMarker
    /\ pc' = ret
    /\ UNCHANGED <<status, resume_status, head, attempt_no, failure_count, base,
                   pending, evidence, git, ret, candidate, verified, bounds>>

-----------------------------------------------------------------------------
(***************************************************************************)
(* Integrator.prepare rejects a moved run ref, a conflicting cherry-pick,  *)
(* a delta outside the scope and a failed verification; the Controller     *)
(* then closes the Attempt as failed.  A candidate that passes exists in   *)
(* memory only until _persist_pending.                                     *)
(***************************************************************************)
RejectCandidate(t) ==
    /\ Tick /\ Unmarked
    /\ InStatus("VERIFYING") = {}
    /\ IsFirst(t, InStatus("READY_TO_INTEGRATE"))
    /\ CloseFailed(t)
    /\ UNCHANGED <<resume_status, head, attempt_no, base, source, pending, evidence,
                   git, verified, bounds>>

\* _verify_source_audit: the task ref still is the commit that was audited.
SourceIntact(t) == taskRef[t] = SourceCommit(t)

\* Mutant: the candidate is built on whatever the run ref points to.
PrepareCandidateOnMovedRef(t) ==
    /\ Tick /\ Unmarked
    /\ InStatus("VERIFYING") = {}
    /\ IsFirst(t, InStatus("READY_TO_INTEGRATE"))
    /\ SourceIntact(t)
    /\ candidate' = [task |-> t, expected |-> runRef,
                     candidate |-> Append(runRef, PatchOf(t))]
    /\ verified' = verified \cup {candidate'.candidate}
    /\ pc' = "persist_pending"
    /\ UNCHANGED <<durable, git, ret, bounds>>

PrepareCandidate(t) ==
    /\ Tick /\ Unmarked
    /\ InStatus("VERIFYING") = {}
    /\ IsFirst(t, InStatus("READY_TO_INTEGRATE"))
    /\ SourceIntact(t)
    /\ runRef = head
    /\ candidate' = [task |-> t, expected |-> head,
                     candidate |-> Append(head, PatchOf(t))]
    /\ verified' = verified \cup {candidate'.candidate}
    /\ pc' = "persist_pending"
    /\ UNCHANGED <<durable, git, ret, bounds>>

\* Mutant: the state is completed before the ref is swapped.
PersistPendingAndComplete ==
    /\ pc = "persist_pending"
    /\ pending' = candidate
    /\ task' = [task EXCEPT ![candidate.task] = "INTEGRATING"]
    /\ candidate' = NoMarker /\ evidence' = {}
    /\ pc' = "complete_state" /\ ret' = "tick"
    /\ UNCHANGED <<status, resume_status, head, attempt_no, failure_count, base,
                   source, git, verified, bounds>>

PersistPending ==
    /\ pc = "persist_pending"
    /\ pending' = candidate
    /\ task' = [task EXCEPT ![candidate.task] = "INTEGRATING"]
    /\ candidate' = NoMarker /\ evidence' = {}
    /\ pc' = "apply_cas" /\ ret' = "tick"
    /\ UNCHANGED <<status, resume_status, head, attempt_no, failure_count, base,
                   source, git, verified, bounds>>

\* Mutant: update-ref without the expected old value.
ForceRunRef ==
    /\ pc = "apply_cas"
    /\ runRef' = pending.candidate
    /\ held' = held \cup {pending.candidate}
    /\ pc' = "complete_state"
    /\ UNCHANGED <<durable, taskRef, delta, ret, candidate, verified, bounds>>

\* apply_cas: git update-ref <run ref> <candidate> <expected>.
ApplyCas ==
    /\ pc = "apply_cas"
    /\ \/ /\ runRef = pending.expected
          /\ runRef' = pending.candidate
          /\ held' = held \cup {pending.candidate}
          /\ pc' = "complete_state"
          /\ UNCHANGED <<ret, candidate>>
       \/ /\ runRef # pending.expected
          /\ Exit
          /\ UNCHANGED <<runRef, held>>
    /\ UNCHANGED <<durable, taskRef, delta, verified, bounds>>

\* Mutant: the head on record is what the ref points to by now.
CompleteStateFromRef ==
    /\ pc = "complete_state"
    /\ head' = runRef
    /\ task' = [task EXCEPT ![pending.task] = "COMPLETED"]
    /\ pending' = NoMarker
    /\ pc' = ret
    /\ UNCHANGED <<status, resume_status, attempt_no, failure_count, base, source,
                   evidence, git, ret, candidate, verified, bounds>>

CompleteState ==
    /\ pc = "complete_state"
    /\ head' = pending.candidate
    /\ task' = [task EXCEPT ![pending.task] = "COMPLETED"]
    /\ pending' = NoMarker
    /\ pc' = ret
    /\ UNCHANGED <<status, resume_status, attempt_no, failure_count, base, source,
                   evidence, git, ret, candidate, verified, bounds>>

\* Every task is COMPLETED: the run leaves this component.
AllCompleted ==
    /\ Tick /\ Unmarked
    /\ Task # {} /\ InStatus("COMPLETED") = Task
    /\ status' = "GLOBAL_VERIFYING"
    /\ UNCHANGED <<resume_status, head, task, attempt_no, failure_count, base,
                   source, pending, evidence, git, process, verified, bounds>>

-----------------------------------------------------------------------------
(***************************************************************************)
(* Recovery.  A marker found in state.json is reconciled either by the     *)
(* recovery of `vibe resume` (pc "recover_...") or by the next tick.       *)
(***************************************************************************)
Reconciling(here) == pc = here \/ Tick

\* What follows a finished reconciliation.
After(next) == IF pc = "tick" THEN "tick" ELSE next

(***************************************************************************)
(* Pausing for a moved ref records the current status as resume_status.    *)
(* validate_run_state refuses PAUSED there, so the transaction of a run    *)
(* that is already PAUSED raises instead.  In a tick the drive loop ends.  *)
(***************************************************************************)
PauseForMovedRef(next) ==
    \/ /\ status = "EXECUTING"
       /\ status' = "PAUSED" /\ resume_status' = status
       /\ \/ pc = "tick" /\ Exit
          \/ pc # "tick" /\ pc' = next /\ UNCHANGED <<ret, candidate>>
    \/ /\ status # "EXECUTING"
       /\ Exit
       /\ UNCHANGED <<status, resume_status>>

\* Mutant: a marker whose swap is still to be done counts as done.
AssumeSourceSwapped ==
    /\ Reconciling("recover_source") /\ source # NoMarker
    /\ pc' = "source_complete" /\ ret' = After("recover_integration")
    /\ UNCHANGED <<durable, git, candidate, verified, bounds>>

\* _reconcile_source_commit with the classification of classify_source_cas.
ReconcileSource ==
    /\ Reconciling("recover_source") /\ source # NoMarker
    /\ \/ /\ taskRef[source.task] = source.expected
          /\ pc' = "source_cas" /\ ret' = After("recover_integration")
          /\ UNCHANGED <<status, resume_status, candidate>>
       \/ /\ taskRef[source.task] = source.candidate
          /\ pc' = "source_complete" /\ ret' = After("recover_integration")
          /\ UNCHANGED <<status, resume_status, candidate>>
       \/ /\ taskRef[source.task] \notin {source.expected, source.candidate}
          /\ PauseForMovedRef("recover_integration")
    /\ UNCHANGED <<head, task, attempt_no, failure_count, base, source, pending,
                   evidence, git, verified, bounds>>

\* Mutant: only an unswapped marker is recovered, a swapped one pauses the run.
RecoverUnswappedOnly ==
    /\ Reconciling("recover_integration") /\ pending # NoMarker
    /\ \/ /\ runRef = pending.expected
          /\ pc' = "apply_cas" /\ ret' = After("pause_after_exit")
          /\ UNCHANGED <<status, resume_status, candidate>>
       \/ /\ runRef # pending.expected
          /\ PauseForMovedRef("pause_after_exit")
    /\ UNCHANGED <<head, task, attempt_no, failure_count, base, source, pending,
                   evidence, git, verified, bounds>>

(***************************************************************************)
(* Integrator.recover with classify_recovery and _verify_pending.  Pausing *)
(* publishes the moved head under a path named after the marker; another   *)
(* head cannot be published there, so a second movement raises.            *)
(***************************************************************************)
RecoverIntegration ==
    /\ Reconciling("recover_integration") /\ pending # NoMarker
    /\ \/ /\ runRef = pending.expected
          /\ pending.candidate \in verified
          /\ pc' = "apply_cas" /\ ret' = After("pause_after_exit")
          /\ UNCHANGED <<status, resume_status, evidence, candidate>>
       \/ /\ runRef = pending.candidate
          /\ pending.candidate \in verified
          /\ pc' = "complete_state" /\ ret' = After("pause_after_exit")
          /\ UNCHANGED <<status, resume_status, evidence, candidate>>
       \/ /\ runRef \notin {pending.expected, pending.candidate}
          /\ \/ /\ evidence \subseteq {runRef}
                /\ PauseForMovedRef("pause_after_exit")
                /\ evidence' = IF status = "EXECUTING" THEN {runRef} ELSE evidence
             \/ /\ ~ (evidence \subseteq {runRef})
                /\ Exit
                /\ UNCHANGED <<status, resume_status, evidence>>
    /\ UNCHANGED <<head, task, attempt_no, failure_count, base, source, pending,
                   git, verified, bounds>>

\* `vibe resume` takes the run lock and enters _recover_locked.
Resume ==
    /\ pc = "down" /\ status \in {"EXECUTING", "PAUSED"}
    /\ pc' = "recover_source"
    /\ UNCHANGED <<durable, git, ret, candidate, verified, bounds>>

NothingToRecover ==
    /\ \/ pc = "recover_source" /\ source = NoMarker /\ pc' = "recover_integration"
       \/ pc = "recover_integration" /\ pending = NoMarker /\ pc' = "pause_after_exit"
    /\ UNCHANGED <<durable, git, ret, candidate, verified, bounds>>

\* A run whose Controller vanished is PAUSED first ...
PauseAfterExit ==
    /\ pc = "pause_after_exit"
    /\ \/ /\ status = "EXECUTING"
          /\ status' = "PAUSED" /\ resume_status' = status
       \/ /\ status # "EXECUTING"
          /\ UNCHANGED <<status, resume_status>>
    /\ pc' = "restore"
    /\ UNCHANGED <<head, task, attempt_no, failure_count, base, source, pending,
                   evidence, git, ret, candidate, verified, bounds>>

\* ... and then continued: _restore_and_register_controller.
Restore ==
    /\ pc = "restore" /\ resume_status # "NONE"
    /\ status' = resume_status /\ resume_status' = "NONE"
    /\ pc' = "tick" /\ ret' = "tick"
    /\ UNCHANGED <<head, task, attempt_no, failure_count, base, source, pending,
                   evidence, git, candidate, verified, bounds>>

-----------------------------------------------------------------------------
Crash ==
    /\ pc # "down" /\ crashes < MaxCrashes
    /\ crashes' = crashes + 1
    /\ Exit
    /\ UNCHANGED <<durable, git, verified, moves>>

\* Somebody else commits on top of the run ref or resets it to an ancestor.
MoveRunRef ==
    /\ moves < MaxMoves
    /\ moves' = moves + 1
    /\ \/ runRef' = Append(runRef, ForeignPatch)
       \/ \E n \in 0 .. Len(runRef) - 1 : runRef' = SubSeq(runRef, 1, n)
    /\ held' = held \cup {runRef'}
    /\ UNCHANGED <<durable, taskRef, delta, process, verified, crashes>>

\* Somebody else commits on a reserved task ref.
MoveTaskRef(t) ==
    /\ moves < MaxMoves /\ task[t] \in {"RUNNING", "VERIFYING", "READY_TO_INTEGRATE"}
    /\ moves' = moves + 1
    /\ taskRef' = [taskRef EXCEPT ![t] = Append(@, ForeignPatch)]
    /\ UNCHANGED <<durable, runRef, delta, held, process, verified, crashes>>

TickStep(t) ==
    \/ StartAttempt(t) \/ FreezeFailedWorker(t)
    \/ \E d \in Delta : AcceptResult(t, d)
    \/ PrepareSource(t) \/ RejectCandidate(t) \/ PrepareCandidate(t)

Transaction ==
    \/ ApplySourceCas \/ CompleteSourceMarker
    \/ PersistPending \/ ApplyCas \/ CompleteState \/ AllCompleted

Recovery ==
    \/ ReconcileSource \/ RecoverIntegration \/ NothingToRecover
    \/ PauseAfterExit \/ Restore

Environment == Crash \/ MoveRunRef \/ \E t \in Task : MoveTaskRef(t)

Next ==
    \/ \E t \in Task : TickStep(t)
    \/ Transaction \/ Resume \/ Recovery \/ Environment

Spec == Init /\ [][Next]_vars

(***************************************************************************)
(* Fairness: a live Controller keeps executing, and the operator answers   *)
(* an exited one with `vibe resume`.  Nothing is assumed of the Workers    *)
(* and of other users of the repository.                                   *)
(***************************************************************************)
FairSpec ==
    /\ Spec
    /\ WF_vars(Transaction) /\ WF_vars(Recovery) /\ WF_vars(Resume)
    /\ \A t \in Task : WF_vars(PrepareSource(t) \/ PrepareCandidate(t))

-----------------------------------------------------------------------------
(***************************************************************************)
(* Properties.                                                             *)
(***************************************************************************)

\* integration_head holds exactly one patch of every COMPLETED task, the one of
\* its last Attempt, and nothing else: whatever the crash and whoever moved the
\* refs, no task is integrated twice, lost, or mixed with foreign commits.
ExactlyOnce ==
    /\ \A i \in 1 .. Len(head) :
          /\ head[i].task \in InStatus("COMPLETED")
          /\ head[i] = PatchOf(head[i].task)
          /\ \A j \in 1 .. Len(head) : head[i].task = head[j].task => i = j
    /\ \A t \in InStatus("COMPLETED") : \E i \in 1 .. Len(head) : head[i].task = t

\* state.json never gets ahead of Git: the recorded integration_head is a commit
\* that the run ref really pointed to (completion follows the swap, never a wish).
HeadWasHeld == head \in held

\* As long as nobody else moves a ref, the markers and the refs decide together
\* where an interrupted transaction stopped: classify_recovery and
\* classify_source_cas never meet a third value, and without a marker the refs
\* are where state.json says.
RefsFollowMarkers ==
    moves = 0 =>
      /\ IF pending = NoMarker THEN runRef = head
         ELSE runRef \in {pending.expected, pending.candidate}
      /\ \A t \in Task :
           /\ task[t] = "READY_TO_INTEGRATE" => taskRef[t] = SourceCommit(t)
           /\ task[t] \in {"RUNNING", "VERIFYING"} /\ source.task # t =>
                taskRef[t] = base[t]
           /\ source.task = t => taskRef[t] \in {source.expected, source.candidate}

\* The Controller changes the run ref only from the integration_head on record to
\* the candidate of the pending_integration marker, one verified patch further:
\* a ref moved by somebody else is never overwritten.
NoForcedUpdate ==
    [][runRef' # runRef /\ moves' = moves =>
         /\ runRef = head
         /\ pending # NoMarker /\ runRef' = pending.candidate
         /\ runRef' \in verified
         /\ runRef' = Append(head, PatchOf(pending.task))]_vars

\* A prepared integration is always brought to an end: the Controller, or the
\* recovery after its crashes, completes the marker unless somebody else moves refs.
MarkerResolved == (pending # NoMarker) ~> (pending = NoMarker \/ moves > 0)

-----------------------------------------------------------------------------
(***************************************************************************)
(* The inductive invariant behind these properties: what each marker and   *)
(* each location of the Controller stands for.                             *)
(***************************************************************************)
Appended(m) ==
    /\ m.task \in Task
    /\ m.expected = head
    /\ m.candidate = Append(head, PatchOf(m.task))
    /\ m.candidate \in verified

\* Only a task that is not FAILED has Attempts left.
AttemptsLeft == \A t \in Task : task[t] # "FAILED" => failure_count[t] < MaxAttempts

\* A pending_integration marker and an INTEGRATING task are the same thing, and
\* the marker's candidate extends the head on record.
PendingMeans ==
    /\ \A t \in Task : task[t] = "INTEGRATING" <=> pending.task = t
    /\ pending # NoMarker => Appended(pending)

\* A pending_source_commit marker belongs to a VERIFYING Attempt.
SourceMeans ==
    source # NoMarker =>
      /\ source.task \in Task /\ task[source.task] = "VERIFYING"
      /\ source.expected = base[source.task]
      /\ source.candidate = SourceCommit(source.task)
      /\ pending = NoMarker

LocationMeans ==
    /\ pc \in {"source_cas", "source_complete"} => source # NoMarker
    /\ pc \in {"apply_cas", "complete_state"} => pending # NoMarker
    /\ pc = "complete_state" => pending.candidate \in held
    /\ pc = "persist_pending" =>
         Unmarked /\ Appended(candidate) /\ task[candidate.task] = "READY_TO_INTEGRATE"
    /\ moves = 0 /\ pc = "complete_state" => runRef = pending.candidate
    /\ moves = 0 /\ pc = "source_complete" =>
         taskRef[source.task] = source.candidate

\* The conjunction that every step of the specification preserves: it ties the
\* markers, the refs, the task states and the Controller's place together.
IInv ==
    /\ TypeOK /\ AttemptsLeft
    /\ PendingMeans /\ SourceMeans /\ LocationMeans
    /\ ExactlyOnce /\ HeadWasHeld /\ runRef \in held /\ RefsFollowMarkers

-----------------------------------------------------------------------------
(***************************************************************************)
(* The pipeline implements a write-ahead log over the run ref.             *)
(***************************************************************************)
WriteAheadLog ==
    INSTANCE IntegrationLog
    WITH log <- head, ref <- runRef, seen <- held,
         intent <- IF pending = NoMarker THEN head ELSE pending.candidate

ImplementsLog == WriteAheadLog!Spec
=============================================================================
