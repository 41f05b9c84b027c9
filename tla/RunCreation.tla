---------------------------- MODULE RunCreation ----------------------------
(***************************************************************************)
(* Controller.create_run and Controller.execute: `vibe run` invocations    *)
(* that share run-allocation.lock, find or allocate a run, publish its     *)
(* intent, ref, state and receipt, and then drive it under the run lock.   *)
(* Any of them is killed at any point and may be invoked again.            *)
(*                                                                         *)
(* A request stands for its creation fingerprint: goal, config, repository *)
(* and base.  config.json is published with the intent: no step reads it   *)
(* before the state binds both.  The run's head moves with its ref         *)
(* (Integration.tla has the steps in between).                             *)
(***************************************************************************)
EXTENDS Integers, FiniteSets

CONSTANTS
    Process,      \* invocations of `vibe`
    Request,      \* creation fingerprints
    MaxRunId,     \* run IDs of a day: 999 in the code
    Requirement,  \* Schema 3 requirements, by number
    Version,      \* contents of a requirement's tree
    None,         \* nobody, nothing
    MaxCalls,     \* bound: commands given
    MaxKills      \* bound: killed processes

ASSUME RequirementAssumption == Requirement \subseteq Nat /\ IsFiniteSet(Requirement)
ASSUME RunBoundsAssumption == {MaxRunId, MaxCalls, MaxKills} \subseteq Nat
ASSUME NoRequestAssumption ==
    None \notin Process \cup Request \cup Requirement \cup Version

VARIABLES
    \* locks
    allocator,    \* holder of run-allocation.lock
    lock,         \* holder of each run's controller.lock
    \* .vibe-coding/runs and the refs of the runs
    dirs,         \* run directories
    intent,       \* creation.intent.json: whose run it is
    ref,          \* refs/heads/vibe/run-<id>
    status,       \* state.json
    receipt,      \* creation.receipt.json
    \* .vibe-coding/migrations/reservations
    reservation,  \* each file
    reserved,     \* the run IDs in it
    \* each process
    pc, request,
    rid,          \* the run it works on
    calls, kills

runs  == <<dirs, intent, ref, status, receipt>>
bounds == <<calls, kills>>
local == <<pc, request, rid>>
rcVars == <<allocator, lock, runs, reservation, reserved, local, bounds>>

-----------------------------------------------------------------------------
RunId == 1 .. MaxRunId
\* `vibe migrate` takes one requirement or all; a batch is what they hold.
Selection == {{r} : r \in Requirement} \cup {Requirement}
Batch == UNION {[S -> Version] : S \in Selection}
\* `vibe migrate` raises where there is no requirement, and the intent of a run tells a
\* request from an import.
ASSUME SelectionAssumption == Requirement # {} /\ Version # {}
ASSUME IntentAssumption ==
    /\ Request \cap (Batch \X Requirement) = {}
    /\ None \notin RunId \cup Batch \cup (Batch \X Requirement)

FileState == {"absent", "torn", "whole"}
Bound == {"absent", "orphan", "bound"}

Lowest(S) == CHOOSE i \in S : \A j \in S : i <= j

Init ==
    /\ allocator = None /\ lock = [i \in RunId |-> None]
    /\ dirs = {} /\ intent = [i \in RunId |-> None]
    /\ ref = [i \in RunId |-> "none"] /\ status = [i \in RunId |-> "none"]
    /\ receipt = [i \in RunId |-> "absent"]
    /\ reservation = [b \in Batch |-> "absent"]
    /\ reserved = [b \in Batch |-> None]
    /\ pc = [p \in Process |-> "idle"] /\ request = [p \in Process |-> None]
    /\ rid = [p \in Process |-> None] /\ calls = 0 /\ kills = 0

\* Somebody gives a command.
Call(p) == pc[p] = "idle" /\ calls < MaxCalls /\ calls' = calls + 1

At(p, from) == pc[p] = from
Goto(p, to) == pc' = [pc EXCEPT ![p] = to]

\* flock: dropped by the context managers, by an exception and by a death.
Free(p) ==
    /\ allocator' = IF allocator = p THEN None ELSE allocator
    /\ lock' = [i \in RunId |-> IF lock[i] = p THEN None ELSE lock[i]]

\* The call ends: it returned or raised.
Leave(p) ==
    /\ Free(p) /\ Goto(p, "idle")
    /\ request' = [request EXCEPT ![p] = None]
    /\ rid' = [rid EXCEPT ![p] = None]

-----------------------------------------------------------------------------
(* Allocation of run IDs.  A reservation that does not parse ends every    *)
(* allocation.  Of the refs, _allocate_run_id is shown none under          *)
(* refs/heads/vibe/, so that only directories and reservations count.      *)

Readable == \A b \in Batch : reservation[b] # "torn"
ReservedIds ==
    {i \in RunId : \E b \in Batch : /\ reservation[b] = "whole"
                                    /\ \E r \in DOMAIN b : reserved[b][r] = i}
\* Mutant: the reservations of migrations are not looked at.
UnusedDirectories == RunId \ dirs
Unused == RunId \ (dirs \cup ReservedIds)

Matches(g) == {i \in RunId : intent[i] = g}
Pristine(i) == status[i] \in {"none", "CREATED"}

-----------------------------------------------------------------------------
(* create_run                                                              *)

BeginRun(p, g) ==
    /\ Call(p) /\ allocator = None
    /\ allocator' = p /\ request' = [request EXCEPT ![p] = g]
    /\ Goto(p, "match")
    /\ UNCHANGED <<lock, runs, reservation, reserved, rid, kills>>

\* Mutant: a creation that has no state yet is not continued.
ChosenCreated(g) ==
    LET open == {i \in Matches(g) : status[i] = "CREATED"}
    IN  IF open # {} THEN Lowest(open)
        ELSE IF Readable /\ Unused # {} THEN Lowest(Unused)
        ELSE None

\* The one run of this fingerprint, if it is still pristine; or a new one.
Chosen(g) ==
    LET open == {i \in Matches(g) : Pristine(i)}
    IN  IF Cardinality(Matches(g)) > 1 THEN None
        ELSE IF open # {} THEN Lowest(open)
        ELSE IF Readable /\ Unused # {} THEN Lowest(Unused)
        ELSE None

ChooseRun(p) ==
    /\ At(p, "match") /\ Chosen(request[p]) # None
    /\ rid' = [rid EXCEPT ![p] = Chosen(request[p])]
    /\ Goto(p, "enter")
    /\ UNCHANGED <<allocator, lock, runs, reservation, reserved, request, bounds>>

\* Several runs of this fingerprint, no run ID left, an unreadable reservation.
RefuseRun(p) ==
    /\ At(p, "match") /\ Chosen(request[p]) = None /\ Leave(p)
    /\ UNCHANGED <<runs, reservation, reserved, bounds>>

\* The allocator stays locked while a Controller still holds the run.
EnterRun(p) ==
    /\ At(p, "enter") /\ lock[rid[p]] = None
    /\ lock' = [lock EXCEPT ![rid[p]] = p]
    /\ dirs' = dirs \cup {rid[p]} /\ Goto(p, "intent")
    /\ UNCHANGED <<allocator, intent, ref, status, receipt, reservation,
                   reserved, request, rid, bounds>>

PublishIntent(p) ==
    /\ At(p, "intent")
    /\ intent' = [intent EXCEPT ![rid[p]] = request[p]] /\ Goto(p, "ref")
    /\ UNCHANGED <<allocator, lock, dirs, ref, status, receipt, reservation,
                   reserved, request, rid, bounds>>

\* A ref that an identical invocation has driven on meanwhile is refused.
CreateRef(p) ==
    /\ At(p, "ref")
    /\ \/ /\ ref[rid[p]] # "moved"
          /\ ref' = [ref EXCEPT ![rid[p]] = "base"] /\ Goto(p, "state")
          /\ UNCHANGED <<allocator, lock, request, rid>>
       \/ ref[rid[p]] = "moved" /\ Leave(p) /\ UNCHANGED ref
    /\ UNCHANGED <<dirs, intent, status, receipt, reservation, reserved, bounds>>

CreateState(p) ==
    /\ At(p, "state")
    /\ status' = [status EXCEPT ![rid[p]] = IF @ = "none" THEN "CREATED" ELSE @]
    /\ Goto(p, "receipt")
    /\ UNCHANGED <<allocator, lock, dirs, intent, ref, receipt, reservation,
                   reserved, request, rid, bounds>>

\* Mutant: a receipt that exists is taken to be bound.
PublishReceiptOnce(p) ==
    /\ At(p, "receipt")
    /\ \/ /\ receipt[rid[p]] # "absent" /\ Goto(p, "return") /\ UNCHANGED receipt
       \/ /\ receipt[rid[p]] = "absent" /\ Goto(p, "bind")
          /\ receipt' = [receipt EXCEPT ![rid[p]] = "orphan"]
    /\ UNCHANGED <<allocator, lock, dirs, intent, ref, status, reservation,
                   reserved, request, rid, bounds>>

\* The receipt carries the time: one that a killed invocation published and
\* did not bind never equals that of the retry.
PublishReceipt(p) ==
    /\ At(p, "receipt")
    /\ \/ /\ receipt[rid[p]] = "bound" /\ Goto(p, "return")
          /\ UNCHANGED <<allocator, lock, receipt, request, rid>>
       \/ /\ receipt[rid[p]] = "absent" /\ Goto(p, "bind")
          /\ receipt' = [receipt EXCEPT ![rid[p]] = "orphan"]
          /\ UNCHANGED <<allocator, lock, request, rid>>
       \/ receipt[rid[p]] = "orphan" /\ Leave(p) /\ UNCHANGED receipt
    /\ UNCHANGED <<dirs, intent, ref, status, reservation, reserved, bounds>>

BindReceipt(p) ==
    /\ At(p, "bind")
    /\ receipt' = [receipt EXCEPT ![rid[p]] = "bound"] /\ Goto(p, "return")
    /\ UNCHANGED <<allocator, lock, dirs, intent, ref, status, reservation,
                   reserved, request, rid, bounds>>

\* Mutant: the run lock is kept for execute, which takes it again.
ReturnRunLocked(p) ==
    /\ At(p, "return") /\ allocator' = None /\ Goto(p, "execute")
    /\ UNCHANGED <<lock, runs, reservation, reserved, request, rid, bounds>>
ReturnRun(p) ==
    /\ At(p, "return") /\ Free(p) /\ Goto(p, "execute")
    /\ UNCHANGED <<runs, reservation, reserved, request, rid, bounds>>

-----------------------------------------------------------------------------
(* execute: whoever was given the run registers as its Controller.         *)

Execute(p) ==
    /\ At(p, "execute") /\ lock[rid[p]] = None
    /\ lock' = [lock EXCEPT ![rid[p]] = p]
    /\ status' = [status EXCEPT ![rid[p]] = "DRIVEN"] /\ Goto(p, "drive")
    /\ UNCHANGED <<allocator, dirs, intent, ref, receipt, reservation, reserved,
                   request, rid, bounds>>

\* The Controller ends; some task may have been integrated.
Drive(p) ==
    /\ At(p, "drive") /\ Leave(p)
    /\ ref' \in {ref, [ref EXCEPT ![rid[p]] = "moved"]}
    /\ UNCHANGED <<dirs, intent, status, receipt, reservation, reserved, bounds>>

-----------------------------------------------------------------------------
RunStep(p) ==
    \/ ChooseRun(p) \/ RefuseRun(p) \/ EnterRun(p) \/ PublishIntent(p)
    \/ CreateRef(p) \/ CreateState(p) \/ PublishReceipt(p) \/ BindReceipt(p)
    \/ ReturnRun(p) \/ Execute(p) \/ Drive(p)
=============================================================================
