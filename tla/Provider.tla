------------------------------ MODULE Provider ------------------------------
(***************************************************************************)
(* One Attempt and the processes behind it.  Provider.start forks a        *)
(* wrapper, the wrapper forks a supervisor that blocks on a pipe, and the  *)
(* supervisor runs Codex once the Controller has written the activation    *)
(* byte.  The processes speak to the Controller through files only:        *)
(* launch.json, stdout.log and stderr.log, result.json, exit.json.         *)
(*                                                                         *)
(* A Controller that dies leaves them running.  The next one finds the     *)
(* intent or the handle in state.json and goes on from the files and from  *)
(* the identities of processes, which the kernel may have given to others. *)
(*                                                                         *)
(* A launch is one call of Popen in start; there is more than one when a   *)
(* Controller ended before a launch receipt was there.                     *)
(***************************************************************************)
EXTENDS Integers, Sequences, FiniteSets

CONSTANTS
    MaxLaunches,    \* bound: wrappers forked for the Attempt
    MaxCrashes,     \* bound: deaths of a Controller
    MaxKills,       \* bound: wrappers and supervisors killed by the machine
    MaxStops        \* bound: `vibe stop` requests

ASSUME LaunchesAssumption == MaxLaunches \in Nat \ {0}
ASSUME BoundsAssumption == {MaxCrashes, MaxKills, MaxStops} \subseteq Nat

Launch == 1 .. MaxLaunches

VARIABLES
    \* state.json and control/
    dispatch,       \* the entry of pending_dispatches, and how it was closed
    handle,         \* its provider_handle: the launch, or 0
    stop_request,   \* control/stop.request exists
    \* files of the Attempt
    launch,         \* launch.json: the launch it identifies, or 0
    outputs,        \* stdout.log and stderr.log exist
    temporary,      \* the file Codex writes its last message to exists
    result,         \* result.json: the launch whose agent wrote it, or 0
    exit,           \* exit.json
    \* processes of each launch
    wrapper, supervisor, agent,
    returncode,     \* of the supervisor
    pipe,           \* activation pipe: open, one (byte written), eof
    timed_out, stop_requested, exit_code, \* locals of the wrapper
    \* the Controller
    pc,
    parent,         \* the launches whose wrapper is a child of this Controller
    signals,        \* processes it has still to terminate
    status,         \* what poll returned
    \* bounds
    crashes, kills, stops

state    == <<dispatch, handle, stop_request>>
files    == <<launch, outputs, temporary, result, exit>>
procs    == <<wrapper, supervisor, agent, returncode, stop_requested>>
locals   == <<timed_out, exit_code>>
memory   == <<parent, signals, status>>
bounds   == <<crashes, kills, stops>>
vars     == <<state, files, procs, locals, pipe, pc, memory, bounds>>

-----------------------------------------------------------------------------
NoExit == [handle |-> 0, exit_code |-> 0, timed_out |-> FALSE,
           result_published |-> FALSE, stop_requested |-> FALSE, stop_forced |-> FALSE]
Receipt == [handle : Launch, exit_code : {0, 1, 70, 124, 125, 137, 143},
            timed_out : BOOLEAN, result_published : BOOLEAN,
            stop_requested : BOOLEAN, stop_forced : BOOLEAN]

Closed == {"accepted", "failed", "cancelled"}

\* Places of a wrapper: SIGTERM ends it until its handler is installed.
Unguarded  == {"spawn", "publish", "handler"}
Guarded    == {"watch", "kill", "decide", "unlink", "result", "exit", "done"}
Working    == {"blocked", "opening", "running"}       \* places of a supervisor
Dead       == {"zombie", "gone", "reused", "signalled"}

SIGTERM == 15
SIGKILL == 9

Target == [kind : {"child", "wrapper", "local"}, of : Launch]

TypeOK ==
    /\ dispatch \in {"none", "intent", "bound"} \cup Closed
    /\ handle \in 0 .. MaxLaunches /\ stop_request \in BOOLEAN
    /\ launch \in 0 .. MaxLaunches /\ result \in 0 .. MaxLaunches
    /\ outputs \in BOOLEAN /\ temporary \in BOOLEAN
    /\ exit \in Receipt \cup {NoExit}
    /\ wrapper \in [Launch -> {"none"} \cup Unguarded \cup Guarded \cup Dead]
    /\ supervisor \in [Launch -> {"none"} \cup Working \cup Dead]
    /\ agent \in [Launch -> {"none", "running", "ok", "failed", "killed"}]
    /\ returncode \in [Launch -> {0, 1, 70, 125, -9, -15}]
    /\ pipe \in [Launch -> {"open", "one", "eof"}]
    /\ timed_out \in [Launch -> BOOLEAN] /\ stop_requested \in [Launch -> BOOLEAN]
    /\ exit_code \in [Launch -> {0, 1, 70, 124, 125, 137, 143}]
    /\ pc \in {"dispatch", "start", "await", "activate", "bind", "drive", "poll",
               "complete", "close", "stop", "grace", "terminate", "kill", "absent",
               "cancel", "recover", "down"}
    /\ parent \subseteq Launch /\ signals \in Seq(Target)
    /\ status \in {"RUNNING", "SUCCEEDED", "FAILED"}
    /\ crashes \in 0 .. MaxCrashes /\ kills \in 0 .. MaxKills /\ stops \in 0 .. MaxStops

Init ==
    /\ dispatch = "none" /\ handle = 0 /\ stop_request = FALSE
    /\ launch = 0 /\ result = 0 /\ outputs = FALSE /\ temporary = FALSE
    /\ exit = NoExit
    /\ wrapper = [l \in Launch |-> "none"] /\ supervisor = [l \in Launch |-> "none"]
    /\ agent = [l \in Launch |-> "none"] /\ returncode = [l \in Launch |-> 0]
    /\ pipe = [l \in Launch |-> "open"]
    /\ timed_out = [l \in Launch |-> FALSE] /\ stop_requested = [l \in Launch |-> FALSE]
    /\ exit_code = [l \in Launch |-> 0]
    /\ pc = "dispatch" /\ parent = {} /\ signals = <<>> /\ status = "RUNNING"
    /\ crashes = 0 /\ kills = 0 /\ stops = 0

-----------------------------------------------------------------------------
(***************************************************************************)
(* Processes.  One that ended is a zombie, with its identity intact, until *)
(* its parent reaps it; init reaps at once what has lost its parent.  Then *)
(* its pid may be given to a stranger ("reused").                          *)
(***************************************************************************)
\* Mutant: the start identity of a process is not compared.
InspectPid(p) == IF p = "gone" THEN "ABSENT" ELSE "MATCHING_LIVE"

\* inspect_process
Inspect(p) ==
    CASE p = "gone"                    -> "ABSENT"
      [] p \in {"reused", "signalled"} -> "IDENTITY_MISMATCH"
      [] OTHER                         -> "MATCHING_LIVE"

SupervisorDies(l, code) ==
    /\ supervisor' = [supervisor EXCEPT ![l] =
                        IF wrapper[l] \in Dead THEN "gone" ELSE "zombie"]
    /\ returncode' = [returncode EXCEPT ![l] = code]

WrapperDies(l) ==
    /\ wrapper' = [wrapper EXCEPT ![l] = IF l \in parent THEN "zombie" ELSE "gone"]
    /\ supervisor' = [supervisor EXCEPT ![l] = IF @ = "zombie" THEN "gone" ELSE @]

\* killpg of the supervisor's group, which Codex belongs to.  Codex may survive SIGTERM.
SignalGroup(l, signal) ==
    /\ CASE supervisor[l] \in Working -> SupervisorDies(l, -signal)
         [] supervisor[l] = "reused"  ->
                /\ supervisor' = [supervisor EXCEPT ![l] = "signalled"]
                /\ UNCHANGED returncode
         [] OTHER -> UNCHANGED <<supervisor, returncode>>
    /\ \E a \in IF signal = SIGTERM THEN {agent[l], "killed"} ELSE {"killed"} :
           agent' = [agent EXCEPT ![l] = IF @ = "running" THEN a ELSE @]

SignalChild(l, signal) ==
    /\ SignalGroup(l, signal)
    /\ UNCHANGED <<wrapper, stop_requested>>

\* killpg of the wrapper's group.  stop_handler notes SIGTERM and passes it on.
SignalWrapper(l, signal) ==
    \/ /\ wrapper[l] \in Guarded /\ signal = SIGTERM
       /\ IF Inspect(supervisor[l]) = "MATCHING_LIVE"
            THEN SignalGroup(l, SIGTERM)
            ELSE UNCHANGED <<supervisor, agent, returncode>>
       /\ stop_requested' = [stop_requested EXCEPT ![l] = TRUE]
       /\ UNCHANGED wrapper
    \/ /\ wrapper[l] \in Unguarded \/ (wrapper[l] \in Guarded /\ signal = SIGKILL)
       /\ WrapperDies(l)
       /\ UNCHANGED <<agent, returncode, stop_requested>>
    \/ /\ wrapper[l] \in Dead
       /\ wrapper' = [wrapper EXCEPT ![l] = IF @ = "reused" THEN "signalled" ELSE @]
       /\ UNCHANGED <<supervisor, agent, returncode, stop_requested>>

\* _reap_local: a wrapper that outlives its second of patience is left alone.
ReapLocal ==
    wrapper' = [l \in Launch |->
                  IF l \in parent /\ wrapper[l] = "zombie" THEN "gone" ELSE wrapper[l]]

-----------------------------------------------------------------------------
(***************************************************************************)
(* The wrapper.                                                            *)
(***************************************************************************)
SpawnSupervisor(l) ==
    /\ wrapper[l] = "spawn"
    /\ wrapper' = [wrapper EXCEPT ![l] = "publish"]
    /\ supervisor' = [supervisor EXCEPT ![l] = "blocked"]
    /\ UNCHANGED <<state, files, agent, returncode, stop_requested, locals, pipe, pc,
                   memory, bounds>>

\* publish_immutable_at raises for a second wrapper, whose identities differ.
PublishLaunch(l) ==
    /\ wrapper[l] = "publish"
    /\ \/ /\ launch = 0
          /\ launch' = l
          /\ wrapper' = [wrapper EXCEPT ![l] = "handler"]
          /\ UNCHANGED supervisor
       \/ /\ launch # 0
          /\ WrapperDies(l)
          /\ UNCHANGED launch
    /\ UNCHANGED <<state, outputs, temporary, result, exit, agent, returncode,
                   stop_requested, locals, pipe, pc, memory, bounds>>

InstallHandler(l) ==
    /\ wrapper[l] = "handler"
    /\ wrapper' = [wrapper EXCEPT ![l] = "watch"]
    /\ UNCHANGED <<state, files, supervisor, agent, returncode, stop_requested, locals,
                   pipe, pc, memory, bounds>>

\* child.poll() or child.wait() reaps the supervisor.
ReapChild(l) ==
    /\ wrapper[l] = "watch" /\ supervisor[l] = "zombie"
    /\ wrapper' = [wrapper EXCEPT ![l] = "decide"]
    /\ supervisor' = [supervisor EXCEPT ![l] = "gone"]
    /\ UNCHANGED <<state, files, agent, returncode, stop_requested, locals, pipe, pc,
                   memory, bounds>>

\* The deadline: SIGTERM to the group ...
TimeOut(l) ==
    /\ wrapper[l] = "watch" /\ supervisor[l] \in Working /\ ~ timed_out[l]
    /\ timed_out' = [timed_out EXCEPT ![l] = TRUE]
    /\ SignalGroup(l, SIGTERM)
    /\ wrapper' = [wrapper EXCEPT ![l] = "kill"]
    /\ UNCHANGED <<state, files, stop_requested, exit_code, pipe, pc, memory, bounds>>

\* Mutant: a supervisor that obeyed SIGTERM is taken for the whole group.
KillGroupOfLiving(l) ==
    /\ wrapper[l] = "kill"
    /\ wrapper' = [wrapper EXCEPT ![l] = "watch"]
    /\ IF supervisor[l] \in Working THEN SignalGroup(l, SIGKILL)
                                    ELSE UNCHANGED <<supervisor, agent, returncode>>
    /\ UNCHANGED <<state, files, stop_requested, locals, pipe, pc, memory, bounds>>

\* ... and SIGKILL, for the supervisor is a zombie that still looks alive.
KillGroup(l) ==
    /\ wrapper[l] = "kill"
    /\ wrapper' = [wrapper EXCEPT ![l] = "watch"]
    /\ SignalGroup(l, SIGKILL)
    /\ UNCHANGED <<state, files, stop_requested, locals, pipe, pc, memory, bounds>>

Decide(l) ==
    /\ wrapper[l] = "decide"
    /\ exit_code' = [exit_code EXCEPT ![l] =
                       CASE timed_out[l]       -> 124
                         [] stop_requested[l]  -> 143
                         [] returncode[l] >= 0 -> returncode[l]
                         [] OTHER              -> 128 - returncode[l]]
    /\ wrapper' = [wrapper EXCEPT ![l] = "unlink"]
    /\ UNCHANGED <<state, files, supervisor, agent, returncode, stop_requested,
                   timed_out, pipe, pc, memory, bounds>>

\* What is no success has no result ...
Lacking(l) == timed_out[l] \/ stop_requested[l] \/ exit_code[l] # 0

Unlink(l) ==
    /\ wrapper[l] = "unlink"
    /\ temporary' = (temporary /\ ~ Lacking(l))
    /\ result' = IF Lacking(l) THEN 0 ELSE result
    /\ wrapper' = [wrapper EXCEPT ![l] = "result"]
    /\ UNCHANGED <<state, launch, outputs, exit, supervisor, agent, returncode,
                   stop_requested, locals, pipe, pc, memory, bounds>>

\* ... and what has no result is no success.  A SIGTERM may arrive before this, with the
\* result still there, and after it, while the outputs are created and fsynced.
FindResult(l) ==
    /\ wrapper[l] = "result"
    /\ exit_code' = [exit_code EXCEPT ![l] =
                       IF @ = 0 /\ (Lacking(l) \/ result = 0) THEN 70 ELSE @]
    /\ outputs' = TRUE
    /\ wrapper' = [wrapper EXCEPT ![l] = "exit"]
    /\ UNCHANGED <<state, launch, temporary, result, exit, supervisor, agent, returncode,
                   stop_requested, timed_out, pipe, pc, memory, bounds>>

\* A receipt that is there stays.  The wrapper lives on when its own appears ...
PublishExit(l) ==
    /\ wrapper[l] = "exit"
    /\ exit' = IF exit # NoExit THEN exit
               ELSE [handle |-> l, exit_code |-> exit_code[l], timed_out |-> timed_out[l],
                     result_published |-> exit_code[l] = 0,
                     stop_requested |-> stop_requested[l], stop_forced |-> FALSE]
    /\ wrapper' = [wrapper EXCEPT ![l] = "done"]
    /\ UNCHANGED <<state, launch, outputs, temporary, result, supervisor, agent, returncode,
                   stop_requested, locals, pipe, pc, memory, bounds>>

\* ... until _main returns.
WrapperEnds(l) ==
    /\ wrapper[l] = "done"
    /\ WrapperDies(l)
    /\ UNCHANGED <<state, files, agent, returncode, stop_requested, locals, pipe, pc,
                   memory, bounds>>

Wrapper(l) ==
    \/ SpawnSupervisor(l) \/ PublishLaunch(l) \/ InstallHandler(l)
    \/ ReapChild(l) \/ TimeOut(l) \/ KillGroup(l)
    \/ Decide(l) \/ Unlink(l) \/ FindResult(l) \/ PublishExit(l) \/ WrapperEnds(l)

-----------------------------------------------------------------------------
(***************************************************************************)
(* The supervisor, and Codex.                                              *)
(***************************************************************************)
\* Mutant: the end of the pipe activates too.
ReadActivationOrEnd(l) ==
    /\ supervisor[l] = "blocked" /\ pipe[l] # "open"
    /\ supervisor' = [supervisor EXCEPT ![l] = "opening"]
    /\ UNCHANGED <<state, files, wrapper, agent, stop_requested, returncode, locals,
                   pipe, pc, memory, bounds>>

ReadActivation(l) ==
    /\ supervisor[l] = "blocked"
    /\ \/ /\ pipe[l] = "one"
          /\ supervisor' = [supervisor EXCEPT ![l] = "opening"]
          /\ UNCHANGED returncode
       \/ pipe[l] = "eof" /\ SupervisorDies(l, 125)
    /\ UNCHANGED <<state, files, wrapper, agent, stop_requested, locals, pipe, pc,
                   memory, bounds>>

\* _open_output_exclusive raises if a file is there; Codex may fail to start.
RunCodex(l) ==
    /\ supervisor[l] = "opening"
    /\ temporary' = FALSE
    /\ \/ outputs /\ SupervisorDies(l, 1) /\ UNCHANGED <<agent, outputs>>
       \/ /\ ~ outputs /\ outputs' = TRUE
          /\ \/ /\ supervisor' = [supervisor EXCEPT ![l] = "running"]
                /\ agent' = [agent EXCEPT ![l] = "running"]
                /\ UNCHANGED returncode
             \/ SupervisorDies(l, 70) /\ UNCHANGED agent
    /\ UNCHANGED <<state, launch, result, exit, wrapper, stop_requested, locals, pipe, pc,
                   memory, bounds>>

\* _atomic_publish_result raises without a last message, and over another result.
Publishable == temporary /\ result = 0

\* Mutant: the exit code of Codex is not looked at.
CollectCodexAnyway(l) ==
    /\ supervisor[l] = "running" /\ agent[l] # "running"
    /\ IF Publishable
         THEN SupervisorDies(l, 0) /\ result' = l
         ELSE SupervisorDies(l, 70) /\ UNCHANGED result
    /\ temporary' = FALSE
    /\ UNCHANGED <<state, launch, outputs, exit, wrapper, agent, stop_requested, locals,
                   pipe, pc, memory, bounds>>

CollectCodex(l) ==
    /\ supervisor[l] = "running" /\ agent[l] # "running"
    /\ \/ /\ agent[l] = "ok" /\ Publishable
          /\ SupervisorDies(l, 0)
          /\ result' = l /\ temporary' = FALSE
       \/ /\ agent[l] = "ok" /\ ~ Publishable
          /\ SupervisorDies(l, 70)
          /\ UNCHANGED <<result, temporary>>
       \/ /\ agent[l] # "ok"
          /\ SupervisorDies(l, 1)
          /\ temporary' = FALSE
          /\ UNCHANGED result
    /\ UNCHANGED <<state, launch, outputs, exit, wrapper, agent, stop_requested, locals,
                   pipe, pc, memory, bounds>>

Supervisor(l) == ReadActivation(l) \/ RunCodex(l) \/ CollectCodex(l)

\* Codex ends by itself, with or without a last message, its supervisor alive or not.
AgentEnds(l) ==
    /\ agent[l] = "running"
    /\ agent' \in {[agent EXCEPT ![l] = "ok"], [agent EXCEPT ![l] = "failed"]}
    /\ temporary' \in {temporary, TRUE}
    /\ UNCHANGED <<state, launch, outputs, result, exit, wrapper, supervisor, returncode,
                   stop_requested, locals, pipe, pc, memory, bounds>>

-----------------------------------------------------------------------------
(***************************************************************************)
(* The Controller: DispatchLedger.dispatch and Provider.start.             *)
(***************************************************************************)
\* The process ends, by an exception or otherwise: its ends of pipes are closed and
\* init inherits its children.
Exit ==
    /\ pc' = "down" /\ parent' = {} /\ signals' = <<>> /\ status' = "RUNNING"
    /\ ReapLocal
    /\ pipe' = [l \in Launch |-> IF wrapper[l] # "none" /\ pipe[l] = "open" THEN "eof"
                                                                          ELSE pipe[l]]
Raise ==
    /\ Exit
    /\ UNCHANGED <<state, files, supervisor, agent, returncode, stop_requested, locals,
                   bounds>>

PersistIntent ==
    /\ pc = "dispatch"
    /\ dispatch' = "intent" /\ pc' = "start"
    /\ UNCHANGED <<handle, stop_request, files, procs, locals, pipe, memory, bounds>>

\* The launch start is about, the last one.
Current == Cardinality({l \in Launch : wrapper[l] # "none"})

\* _validate_request: the Attempt has no output yet.
Fresh == launch = 0 /\ ~ outputs /\ result = 0 /\ exit = NoExit

ForkWrapper ==
    /\ pc = "start"
    /\ \/ /\ Fresh /\ Current < MaxLaunches
          /\ wrapper' = [wrapper EXCEPT ![Current + 1] = "spawn"]
          /\ parent' = parent \cup {Current + 1}
          /\ pc' = "await"
          /\ UNCHANGED <<state, files, supervisor, agent, returncode, stop_requested,
                         locals, pipe, signals, status, bounds>>
       \/ ~ Fresh /\ Raise

\* The way out of start: the activation pipe is closed first.
FailStart(targets) ==
    /\ pipe' = [pipe EXCEPT ![Current] = "eof"]
    /\ signals' = targets \o <<[kind |-> "local", of |-> Current]>>
    /\ pc' = "terminate"
    /\ UNCHANGED <<state, files, procs, locals, parent, status, bounds>>

AwaitLaunch ==
    /\ pc = "await"
    /\ \/ /\ launch # 0
          /\ pc' = "activate"
          /\ UNCHANGED <<state, files, procs, locals, pipe, memory, bounds>>
       \/ launch = 0 /\ FailStart(<<>>)   \* the wrapper ended, or five seconds are over

\* The processes that a handle names.
Child(h) == [kind |-> "child", of |-> h]
Parent(h) == [kind |-> "wrapper", of |-> h]
InspectHandle(h) == <<Inspect(wrapper[h]), Inspect(supervisor[h])>>

\* Somebody holds the read end of the pipe.
Readable(l) == wrapper[l] = "spawn" \/ supervisor[l] = "blocked"

\* The identities on record are alive, which need not be those of this launch.
Activate ==
    /\ pc = "activate"
    /\ IF InspectHandle(launch) = <<"MATCHING_LIVE", "MATCHING_LIVE">> /\ Readable(Current)
         THEN /\ pipe' = [pipe EXCEPT ![Current] = "one"]
              /\ pc' = "bind"
              /\ UNCHANGED <<state, files, procs, locals, memory, bounds>>
         ELSE FailStart(<<Child(launch), Parent(launch)>>)

\* bind_matching_handle
BindHandle ==
    /\ pc = "bind"
    /\ dispatch' = "bound" /\ handle' = launch /\ pc' = "drive"
    /\ UNCHANGED <<stop_request, files, procs, locals, pipe, memory, bounds>>

-----------------------------------------------------------------------------
(***************************************************************************)
(* The Controller: Provider.poll, and the end of the dispatch.             *)
(***************************************************************************)
\* parse_exit_receipt
Possible(r) ==
    /\ r.stop_forced => r.stop_requested
    /\ r.timed_out => r.exit_code = 124
    /\ r.stop_requested => ~ r.timed_out /\ r.exit_code # 0
    /\ r.result_published = (r.exit_code = 0 /\ ~ r.timed_out /\ ~ r.stop_requested)

\* _optional_completion, when it finds a receipt; the Controller goes on at next.
Completed(next, polled) ==
    /\ exit # NoExit
    /\ \/ /\ Possible(exit)
          /\ ReapLocal
          /\ pc' = next /\ status' = polled
          /\ UNCHANGED <<state, files, supervisor, agent, returncode, stop_requested,
                         locals, pipe, parent, signals, bounds>>
       \/ ~ Possible(exit) /\ Raise

\* poll reads exit.json first ...
PollReceipt ==
    /\ pc = "drive" /\ dispatch = "bound" /\ ~ stop_request
    /\ \/ Completed("complete", IF exit.exit_code = 0 THEN "SUCCEEDED" ELSE "FAILED")
       \/ /\ exit = NoExit
          /\ pc' = "poll"
          /\ UNCHANGED <<state, files, procs, locals, pipe, memory, bounds>>

\* ... and then looks for the processes.
PollProcesses ==
    /\ pc = "poll"
    /\ IF /\ Inspect(wrapper[handle]) = "MATCHING_LIVE"
          /\ Inspect(supervisor[handle]) # "IDENTITY_MISMATCH"
         THEN pc' = "drive" /\ UNCHANGED status
         ELSE pc' = "complete" /\ status' = "FAILED"
    /\ UNCHANGED <<state, files, procs, locals, pipe, parent, signals, bounds>>

\* bind_completion; the files it binds are immutable, so that a replay binds the same.
Completable ==
    /\ outputs /\ exit # NoExit
    /\ Possible(exit)
    /\ exit.result_published <=> result # 0

BindCompletion ==
    /\ pc = "complete"
    /\ \/ /\ Completable
          /\ pc' = "close"
          /\ UNCHANGED <<state, files, procs, locals, pipe, memory, bounds>>
       \/ ~ Completable /\ Raise

\* accept_current_result, or the Attempt is frozen as failed.
CloseDispatch ==
    /\ pc = "close"
    /\ dispatch' = IF status = "SUCCEEDED" THEN "accepted" ELSE "failed"
    /\ pc' = "drive" /\ status' = "RUNNING"
    /\ UNCHANGED <<handle, stop_request, files, procs, locals, pipe, parent, signals,
                   bounds>>

-----------------------------------------------------------------------------
(***************************************************************************)
(* The Controller: Provider.stop.                                          *)
(***************************************************************************)
ConsumeStop ==
    /\ pc = "drive" /\ dispatch = "bound" /\ stop_request
    /\ pc' = "stop"
    /\ UNCHANGED <<state, files, procs, locals, pipe, memory, bounds>>

StopWrapper ==
    /\ pc = "stop"
    /\ \/ Completed("cancel", "RUNNING")
       \/ /\ exit = NoExit
          /\ IF "IDENTITY_MISMATCH" \in {InspectHandle(handle)[i] : i \in 1 .. 2}
               THEN Raise
               ELSE /\ IF Inspect(wrapper[handle]) = "MATCHING_LIVE"
                         THEN SignalWrapper(handle, SIGTERM)
                         ELSE UNCHANGED procs
                    /\ pc' = "grace"
                    /\ UNCHANGED <<state, files, locals, pipe, memory, bounds>>

AwaitExit ==
    /\ pc = "grace"
    /\ \/ Completed("cancel", "RUNNING")
       \/ /\ exit = NoExit
          /\ signals' = <<Child(handle), Parent(handle)>>
          /\ pc' = "terminate"
          /\ UNCHANGED <<state, files, procs, locals, pipe, parent, status, bounds>>

(***************************************************************************)
(* _terminate_identity and _terminate_local_process, for start and stop:   *)
(* SIGTERM, then SIGKILL if the process is still there after the grace.    *)
(***************************************************************************)
Process(t) == IF t.kind = "child" THEN supervisor[t.of] ELSE wrapper[t.of]
Signal(t, signal) ==
    IF t.kind = "child" THEN SignalChild(t.of, signal) ELSE SignalWrapper(t.of, signal)

\* start ends with an exception, stop goes on.
NextTarget ==
    /\ signals' = Tail(signals)
    /\ pc' = IF Tail(signals) = <<>> THEN "absent" ELSE "terminate"
    /\ UNCHANGED <<state, files, locals, pipe, parent, status, bounds>>

TerminateTarget ==
    LET t == Head(signals)
    IN  /\ pc = "terminate" /\ t.kind # "local"
        /\ \/ /\ Inspect(Process(t)) = "MATCHING_LIVE"
              /\ Signal(t, SIGTERM)
              /\ pc' = "kill"
              /\ UNCHANGED <<state, files, locals, pipe, memory, bounds>>
           \/ /\ Inspect(Process(t)) = "ABSENT"
              /\ NextTarget
              /\ UNCHANGED procs
           \/ /\ Inspect(Process(t)) = "IDENTITY_MISMATCH"
              /\ IF \E i \in DOMAIN signals : signals[i].kind = "local"
                   THEN /\ signals' = <<signals[Len(signals)]>>
                        /\ UNCHANGED <<state, files, procs, locals, pipe, pc, parent,
                                       status, bounds>>
                   ELSE Raise

KillTarget ==
    LET t == Head(signals)
    IN  /\ pc = "kill" /\ t.kind # "local"
        /\ IF Inspect(Process(t)) = "MATCHING_LIVE" THEN Signal(t, SIGKILL)
                                                    ELSE UNCHANGED procs
        /\ NextTarget

\* The wrapper that start forked; process.poll() and process.wait() reap it.
TerminateLocal ==
    LET l == Head(signals).of
    IN  /\ pc \in {"terminate", "kill"} /\ Head(signals).kind = "local"
        /\ \/ wrapper[l] \in Dead /\ Raise
           \/ /\ wrapper[l] \notin Dead /\ pc = "terminate"
              /\ SignalWrapper(l, SIGTERM)
              /\ pc' = "kill"
              /\ UNCHANGED <<state, files, locals, pipe, memory, bounds>>
           \/ /\ wrapper[l] \notin Dead /\ pc = "kill"
              /\ SignalWrapper(l, SIGKILL)
              /\ UNCHANGED <<state, files, locals, pipe, pc, memory, bounds>>

Forced ==
    [handle |-> handle, exit_code |-> 137, timed_out |-> FALSE,
     result_published |-> FALSE, stop_requested |-> TRUE, stop_forced |-> TRUE]

\* Mutant: the forced receipt replaces a file that is there.
ForceExitOver ==
    /\ pc = "absent"
    /\ ReapLocal
    /\ exit' = Forced
    /\ pc' = "cancel"
    /\ UNCHANGED <<state, launch, outputs, temporary, result, supervisor, agent,
                   returncode, stop_requested, locals, pipe, memory, bounds>>

\* Mutant: a forced stop leaves no receipt.
ForceNoExit ==
    /\ pc = "absent"
    /\ ReapLocal
    /\ pc' = "cancel"
    /\ UNCHANGED <<state, files, supervisor, agent, returncode, stop_requested, locals,
                   pipe, memory, bounds>>

\* Both groups must be absent.  A receipt of the wrapper that is there by now makes
\* publish_immutable_at raise StateConflictError, which is no ContractError.
ForceExit ==
    /\ pc = "absent"
    /\ LET reaped == IF wrapper[handle] = "zombie" /\ handle \in parent THEN "gone"
                                                                       ELSE wrapper[handle]
       IN  IF Inspect(reaped) = "ABSENT" /\ Inspect(supervisor[handle]) = "ABSENT"
                /\ exit = NoExit
             THEN /\ ReapLocal
                  /\ exit' = Forced
                  /\ pc' = "cancel"
                  /\ UNCHANGED <<state, launch, outputs, temporary, result, supervisor,
                                 agent, returncode, stop_requested, locals, pipe, memory,
                                 bounds>>
             ELSE Raise

\* _persist_stop_outcome: the run is STOPPED and its Controller ends.
CancelDispatch ==
    /\ pc = "cancel"
    /\ dispatch' = "cancelled" /\ stop_request' = FALSE
    /\ Exit
    /\ UNCHANGED <<handle, files, supervisor, agent, returncode, stop_requested, locals,
                   bounds>>

-----------------------------------------------------------------------------
(***************************************************************************)
(* `vibe resume`: _recover_dispatches, the stop request, the drive loop.   *)
(***************************************************************************)
Resume ==
    /\ pc = "down" /\ dispatch \in {"intent", "bound"}
    /\ pc' = "recover"
    /\ UNCHANGED <<state, files, procs, locals, pipe, memory, bounds>>

BindRecoveredHandle ==
    /\ pc = "recover" /\ dispatch = "intent" /\ launch # 0
    /\ dispatch' = "bound" /\ handle' = launch
    /\ UNCHANGED <<stop_request, files, procs, locals, pipe, pc, memory, bounds>>

Recovered ==
    /\ pc = "recover" /\ (dispatch = "bound" \/ launch = 0)
    /\ pc' = CASE dispatch = "bound" -> "drive"
               [] stop_request       -> "cancel"
               [] OTHER              -> "start"
    /\ UNCHANGED <<state, files, procs, locals, pipe, memory, bounds>>

Controller ==
    \/ PersistIntent \/ ForkWrapper \/ AwaitLaunch \/ Activate \/ BindHandle
    \/ PollReceipt \/ PollProcesses \/ BindCompletion \/ CloseDispatch
    \/ ConsumeStop \/ StopWrapper \/ AwaitExit \/ TerminateTarget \/ KillTarget
    \/ TerminateLocal \/ ForceExit \/ CancelDispatch
    \/ Resume \/ BindRecoveredHandle \/ Recovered

-----------------------------------------------------------------------------
(***************************************************************************)
(* The operator and the machine.                                           *)
(***************************************************************************)
RequestStop ==
    /\ dispatch \in {"intent", "bound"} /\ pc # "down"
    /\ ~ stop_request /\ stops < MaxStops
    /\ stop_request' = TRUE /\ stops' = stops + 1
    /\ UNCHANGED <<dispatch, handle, files, procs, locals, pipe, pc, memory, crashes,
                   kills>>

Crash ==
    /\ pc # "down" /\ crashes < MaxCrashes
    /\ crashes' = crashes + 1
    /\ Exit
    /\ UNCHANGED <<state, files, supervisor, agent, returncode, stop_requested, locals,
                   kills, stops>>

KillWrapper(l) ==
    /\ wrapper[l] \in Unguarded \cup Guarded
    /\ WrapperDies(l)
    /\ UNCHANGED <<agent, returncode, stop_requested>>

KillSupervisor(l) ==
    /\ supervisor[l] \in Working
    /\ SupervisorDies(l, -SIGKILL)
    /\ UNCHANGED <<wrapper, agent, stop_requested>>

Kill(l) ==
    /\ kills < MaxKills
    /\ kills' = kills + 1
    /\ KillWrapper(l) \/ KillSupervisor(l)
    /\ UNCHANGED <<state, files, locals, pipe, pc, memory, crashes, stops>>

\* The kernel gives a free pid to a stranger; only the pids on record matter.  It does not
\* do so in the moment between the inspection of a process and the signal to it.
ReusePid(l) ==
    /\ l = launch
    /\ \/ /\ wrapper[l] = "gone"
          /\ wrapper' = [wrapper EXCEPT ![l] = "reused"]
          /\ UNCHANGED supervisor
       \/ /\ supervisor[l] = "gone"
          /\ supervisor' = [supervisor EXCEPT ![l] = "reused"]
          /\ UNCHANGED wrapper
    /\ UNCHANGED <<state, files, agent, returncode, stop_requested, locals, pipe, pc,
                   memory, bounds>>

Next ==
    \/ Controller
    \/ \E l \in Launch : Wrapper(l) \/ Supervisor(l) \/ AgentEnds(l)
    \/ RequestStop \/ Crash
    \/ \E l \in Launch : Kill(l) \/ ReusePid(l)

(***************************************************************************)
(* The kernel runs every process, a deadline passes, and the operator      *)
(* answers the end of a Controller with `vibe resume`.  Nothing is assumed *)
(* of Codex: it may hang.                                                  *)
(***************************************************************************)
Fairness ==
    /\ WF_vars(Controller)
    /\ \A l \in Launch : WF_vars(Wrapper(l)) /\ WF_vars(Supervisor(l))

Spec == Init /\ [][Next]_vars /\ Fairness

-----------------------------------------------------------------------------
(***************************************************************************)
(* Properties                                                              *)
(***************************************************************************)
\* At most one supervisor of an Attempt is ever activated, however often start was
\* called for it, and none before a launch receipt is there (codex_cli.py start,
\* _supervisor, _recover_dispatches).
Activated == {l \in Launch : \/ pipe[l] = "one"
                             \/ supervisor[l] \in {"opening", "running"}
                             \/ agent[l] # "none"}
OneActivation ==
    /\ Cardinality(Activated) <= 1
    /\ Activated # {} => launch # 0

\* A pid that was recycled while the Controller looked away, between two polls, in the
\* grace of a stop, or before a recovery, is never signalled, by no path of start, stop or
\* the wrapper (inspect_process, _terminate_identity).
StrangersAreSafe ==
    \A l \in Launch : wrapper[l] # "signalled" /\ supervisor[l] # "signalled"

\* An accepted result was written by an agent that ended well, the one its handle
\* names, and its receipt says so (_supervisor, _wrapper, poll, bind_completion).
AcceptedIsReal ==
    dispatch = "accepted" =>
      /\ handle = launch /\ exit.handle = handle /\ result = handle
      /\ agent[handle] = "ok" /\ exit.exit_code = 0

\* A receipt ends what it speaks of, whoever published it, the wrapper or a forced stop:
\* its supervisor has ended, and after a timeout so has Codex, even one that ignores
\* SIGTERM.  The wrapper may live on for a moment (_wrapper, _terminate_identity, stop).
ReceiptMeansEnded ==
    exit # NoExit => /\ supervisor[exit.handle] \in Dead
                     /\ exit.timed_out => agent[exit.handle] # "running"

\* An exit receipt is never replaced, and a result it promises stays: a wrapper and a
\* forced stop may both want to write it (publish_immutable_at, _wrapper, stop).
ReceiptIsFinal ==
    [][exit # NoExit => /\ exit' = exit
                        /\ exit.result_published => result' = result]_vars

\* Once its handle is bound, a wrapper that watches brings the Attempt to a receipt, its
\* own or that of a forced stop, although Codex may hang and Controllers may die, unless
\* the machine kills a process or recycles a pid (_wrapper's deadline, stop, the durable
\* stop request).
Reused == \E l \in Launch : {wrapper[l], supervisor[l]} \cap {"reused", "signalled"} # {}
ReceiptAppears ==
    dispatch = "bound" /\ wrapper[handle] = "watch"
      ~> exit # NoExit \/ kills > 0 \/ Reused

(***************************************************************************)
(* The inductive invariant.                                                *)
(***************************************************************************)
\* A wrapper and its supervisor.  A wrapper does not lose sight of the one it has not
\* reaped, and goes past its launch receipt only if that names it.
PairsMean ==
    \A l \in Launch :
        /\ wrapper[l] \in {"none", "spawn"} => supervisor[l] = "none"
        /\ wrapper[l] \in {"publish", "handler", "watch", "kill"} =>
             supervisor[l] \in Working \cup {"zombie"}
        /\ wrapper[l] \in {"decide", "unlink", "result", "exit", "done"} =>
             supervisor[l] \in Dead
        /\ wrapper[l] \in {"handler"} \cup Guarded => launch = l
        /\ wrapper[l] # "signalled" /\ supervisor[l] # "signalled"

\* Launches are numbered in the order they are made.
LaunchesMean == \A l, m \in Launch : l < m /\ wrapper[m] # "none" => wrapper[l] # "none"

\* One activation byte is written at most, after a launch receipt; what runs was activated.
ActivationMeans ==
    /\ \A l, m \in Launch : pipe[l] = "one" /\ pipe[m] = "one" => l = m
    /\ \A l \in Launch :
         /\ pipe[l] = "one" => launch # 0
         /\ supervisor[l] \in {"opening", "running"} \/ agent[l] # "none" => pipe[l] = "one"
         /\ supervisor[l] \in {"none", "blocked", "opening"} => agent[l] = "none"

\* What a success is made of, from the agent to the locals of the wrapper.
ResultMeans ==
    /\ result # 0 => agent[result] = "ok"
    /\ \A l \in Launch :
         /\ supervisor[l] \in Dead /\ returncode[l] = 0 => agent[l] = "ok"
         /\ wrapper[l] \in {"unlink", "result", "exit"} /\ exit_code[l] = 0 => returncode[l] = 0
         /\ wrapper[l] = "exit" /\ exit_code[l] = 0 => result # 0

\* After the deadline Codex is only alive until the wrapper has sent SIGKILL.
TimeoutMeans ==
    \A l \in Launch :
        timed_out[l] =>
          /\ supervisor[l] \in Dead /\ wrapper[l] \in Guarded \cup Dead
          /\ wrapper[l] \in Guarded \ {"kill"} => agent[l] # "running"

ReceiptMeans ==
    exit # NoExit =>
      /\ exit.handle = launch /\ exit.result_published = (exit.exit_code = 0)
      /\ wrapper[launch] \in Dead \cup {"done"} /\ supervisor[launch] \in Dead
      /\ exit.timed_out => agent[launch] # "running"
      /\ exit.exit_code = 0 => result = launch

\* The dispatch, and what each place of the Controller relies on.
PlaceMeans ==
    /\ dispatch \in {"bound", "accepted", "failed"} => handle = launch /\ launch # 0
    /\ status = "SUCCEEDED" \/ dispatch = "accepted" => exit # NoExit /\ exit.exit_code = 0
    /\ pc \in {"dispatch", "start", "await", "activate"} => \A l \in Launch : pipe[l] # "one"
    /\ pc \in {"await", "activate"} => \E l \in Launch : wrapper[l] # "none"
    /\ pc \in {"activate", "bind"} => launch # 0
    /\ pc \in {"start", "await", "activate", "bind"} => dispatch = "intent"
    /\ pc \in {"poll", "complete", "close", "stop", "grace", "absent"} => dispatch = "bound"
    /\ pc \in {"terminate", "kill", "cancel", "recover"} => dispatch \in {"intent", "bound"}

\* The processes that start and stop have still to terminate: start ends with its own
\* wrapper, stop knows only those of the handle.
SignalsMean ==
    pc \in {"terminate", "kill"} =>
      /\ signals # <<>>
      /\ dispatch = "intent" => signals[Len(signals)].kind = "local"
      /\ dispatch = "bound" => \A i \in DOMAIN signals : signals[i].kind # "local"

ProcessesMean ==
    PairsMean /\ LaunchesMean /\ ActivationMeans /\ ResultMeans /\ TimeoutMeans /\ ReceiptMeans

IInv == TypeOK /\ ProcessesMean /\ PlaceMeans /\ SignalsMean

\* Claim, refuted by a run of its own: a run is STOPPED only when the agent of its Attempt
\* has ended (stop, _wrapper's stop_handler).
StoppedMeansStopped ==
    dispatch = "cancelled" => \A l \in Launch : agent[l] # "running"

=============================================================================
