--------------------------- MODULE ProviderProofs ---------------------------
(***************************************************************************)
(* Proofs about an Attempt and the processes behind it, for any number of  *)
(* launches, crashes, kills and stops: one activation, no stranger hurt,   *)
(* and receipts that mean what they say.                                   *)
(***************************************************************************)
EXTENDS Provider, SequenceTheorems, FiniteSetTheorems, TLAPS

USE DEF state, files, procs, locals, memory, bounds

\* A set of launches has a last one.
LEMMA LastLaunch ==
    ASSUME NEW S \in SUBSET Launch, S # {}
    PROVE  \E n \in S : \A l \in S : l <= n
<1> DEFINE from(l) == l .. MaxLaunches
           T == {from(l) : l \in S}
<1>1. MaxLaunches \in Nat /\ \A l \in S : l \in 1 .. MaxLaunches
  BY LaunchesAssumption DEF Launch
<1>2. T \subseteq FiniteSubsetsOf(Launch)
  <2>1. \A l \in S : IsFiniteSet(from(l)) /\ from(l) \subseteq Launch
    BY <1>1, FS_Interval DEF Launch
  <2> QED
    BY <2>1 DEF FiniteSubsetsOf
<1>3. PICK x \in T : \A y \in T : <<y, x>> \notin StrictSubsetOrdering(Launch)
  <2>1. T # {}
    OBVIOUS
  <2> QED
    BY <1>2, <2>1, FS_StrictSubsetOrderingWellFounded, WFMin
<1>4. PICK n \in S : x = from(n)
  BY <1>3
<1>5. ASSUME NEW l \in S, l > n  PROVE FALSE
  <2>1. from(l) \subseteq Launch /\ from(n) \subseteq Launch /\ from(l) \in T
    BY <1>1 DEF Launch
  <2>2. from(l) \subseteq from(n) /\ n \in from(n) /\ n \notin from(l)
    BY <1>1, <1>5
  <2>3. <<from(l), from(n)>> \in StrictSubsetOrdering(Launch)
    BY <2>1, <2>2 DEF StrictSubsetOrdering
  <2> QED
    BY <1>3, <1>4, <2>1, <2>3
<1> QED
  BY <1>1, <1>5

\* Current counts the launches, which are the first ones.
LEMMA CurrentCounts ==
    ASSUME LaunchesMean
    PROVE  /\ Current \in 0 .. MaxLaunches
           /\ \A l \in Launch : wrapper[l] # "none" <=> l <= Current
<1> DEFINE S == {l \in Launch : wrapper[l] # "none"}
<1>1. MaxLaunches \in Nat /\ \A l \in Launch : l \in 1 .. MaxLaunches
  BY LaunchesAssumption DEF Launch
<1>2. CASE S = {}
  <2>1. Current = 0
    BY <1>2, FS_EmptySet DEF Current
  <2> QED
    BY <1>1, <1>2, <2>1
<1>3. CASE S # {}
  <2>1. PICK n \in S : \A l \in S : l <= n
    BY <1>3, LastLaunch
  <2>2. S = 1 .. n /\ n \in 1 .. MaxLaunches
    BY <1>1, <2>1 DEF LaunchesMean, Launch
  <2>3. Current = n
    <3>1. n \in Int /\ ~ (1 > n)
      BY <1>1, <2>2
    <3>2. Cardinality(1 .. n) = n
      BY <3>1, FS_Interval
    <3> QED
      BY <2>2, <3>2 DEF Current
  <2> QED
    BY <1>1, <2>1, <2>2, <2>3
<1> QED
  BY <1>2, <1>3

-----------------------------------------------------------------------------
(***************************************************************************)
(* Deaths: what signals, crashes and the end of a parent do to processes.  *)
(* None comes back, and a supervisor that is signalled does not succeed.   *)
(***************************************************************************)
ProcessTypes ==
    /\ wrapper \in [Launch -> {"none"} \cup Unguarded \cup Guarded \cup Dead]
    /\ supervisor \in [Launch -> {"none"} \cup Working \cup Dead]
    /\ agent \in [Launch -> {"none", "running", "ok", "failed", "killed"}]
    /\ returncode \in [Launch -> {0, 1, 70, 125, -9, -15}]
    /\ stop_requested \in [Launch -> BOOLEAN]

Deaths ==
    /\ ProcessTypes'
    /\ \A l \in Launch :
         /\ \/ wrapper'[l] = wrapper[l]
            \/ wrapper[l] # "none" /\ wrapper'[l] \in {"zombie", "gone"}
         /\ \/ supervisor'[l] = supervisor[l]
            \/ supervisor[l] \in Working \cup {"zombie"} /\ supervisor'[l] = "zombie"
            \/ supervisor[l] \in Working \cup {"zombie"} /\ supervisor'[l] = "gone"
               /\ wrapper'[l] \in Dead
         /\ supervisor[l] \in Dead => returncode'[l] = returncode[l]
         /\ supervisor[l] \in Working /\ supervisor'[l] \in Dead => returncode'[l] # 0
         /\ agent'[l] = agent[l] \/ (agent[l] = "running" /\ agent'[l] = "killed")

LEMMA Classes ==
    /\ Unguarded = {"spawn", "publish", "handler"}
    /\ Guarded = {"watch", "kill", "decide", "unlink", "result", "exit", "done"}
    /\ Working = {"blocked", "opening", "running"}
    /\ Dead = {"zombie", "gone", "reused", "signalled"}
BY DEF Unguarded, Guarded, Working, Dead

LEMMA DeathsKeep ==
    ASSUME IInv, Deaths, UNCHANGED <<launch, result, exit, timed_out, exit_code>>,
           \A l \in Launch : pipe'[l] = "one" <=> pipe[l] = "one"
    PROVE  ProcessesMean'
<1>1. PairsMean'
  BY Classes DEF IInv, ProcessesMean, PairsMean, Deaths
<1>2. LaunchesMean'
  BY Classes DEF IInv, ProcessesMean, LaunchesMean, Deaths
<1>3. ActivationMeans'
  BY Classes DEF IInv, ProcessesMean, ActivationMeans, Deaths
<1>4. ResultMeans'
  <2>1. result # 0 => agent'[result] = "ok"
    BY DEF IInv, TypeOK, ProcessesMean, ResultMeans, Deaths, Launch
  <2>2. ASSUME NEW l \in Launch
        PROVE  /\ supervisor'[l] \in Dead /\ returncode'[l] = 0 => agent'[l] = "ok"
               /\ wrapper'[l] \in {"unlink", "result", "exit"} /\ exit_code[l] = 0 =>
                    returncode'[l] = 0
               /\ wrapper'[l] = "exit" /\ exit_code[l] = 0 => result # 0
    BY Classes DEF IInv, ProcessesMean, PairsMean, ResultMeans, Deaths
  <2> QED
    BY <2>1, <2>2 DEF ResultMeans
<1>5. TimeoutMeans'
  BY Classes DEF IInv, ProcessesMean, TimeoutMeans, Deaths
<1>6. ReceiptMeans'
  <2>1. exit # NoExit => launch \in Launch
    BY DEF IInv, TypeOK, Receipt, ProcessesMean, ReceiptMeans
  <2> QED
    BY <2>1, Classes DEF IInv, ProcessesMean, ReceiptMeans, Deaths
<1> QED
  BY <1>1, <1>2, <1>3, <1>4, <1>5, <1>6 DEF ProcessesMean

\* Nothing happens to the processes.
LEMMA NoDeaths ==
    ASSUME TypeOK, UNCHANGED procs
    PROVE  Deaths
BY Classes DEF TypeOK, Deaths, ProcessTypes

LEMMA SupervisorDeath ==
    ASSUME TypeOK, NEW l \in Launch, NEW code \in {1, 70, 125, -9, -15},
           SupervisorDies(l, code), supervisor[l] \in Working,
           UNCHANGED <<wrapper, agent, stop_requested>>
    PROVE  Deaths
BY Classes DEF TypeOK, Deaths, ProcessTypes, SupervisorDies

LEMMA WrapperDeath ==
    ASSUME TypeOK, NEW l \in Launch, WrapperDies(l), wrapper[l] # "none",
           UNCHANGED <<agent, returncode, stop_requested>>
    PROVE  Deaths
BY Classes DEF TypeOK, Deaths, ProcessTypes, WrapperDies

LEMMA ReapDeath ==
    ASSUME TypeOK, ReapLocal, UNCHANGED <<supervisor, agent, returncode, stop_requested>>
    PROVE  Deaths
BY Classes DEF TypeOK, Deaths, ProcessTypes, ReapLocal

\* A signal to the group of a supervisor that is no stranger.
LEMMA GroupDeath ==
    ASSUME TypeOK, NEW l \in Launch, NEW signal \in {SIGTERM, SIGKILL}, SignalGroup(l, signal),
           supervisor[l] # "reused", stop_requested' \in [Launch -> BOOLEAN], UNCHANGED wrapper
    PROVE  Deaths /\ (signal = SIGKILL => agent'[l] # "running")
           /\ (supervisor[l] \in Working => supervisor'[l] \in Dead)
<1>0. PICK a \in IF signal = SIGTERM THEN {agent[l], "killed"} ELSE {"killed"} :
          agent' = [agent EXCEPT ![l] = IF @ = "running" THEN a ELSE @]
  BY DEF SignalGroup
<1>1. a \in {agent[l], "killed"} /\ (signal = SIGKILL => a = "killed")
  BY <1>0 DEF SIGTERM, SIGKILL
<1>2. agent' \in [Launch -> {"none", "running", "ok", "failed", "killed"}]
      /\ (signal = SIGKILL => agent'[l] # "running")
      /\ \A m \in Launch : agent'[m] = agent[m] \/ (agent[m] = "running" /\ agent'[m] = "killed")
  BY <1>0, <1>1 DEF TypeOK
<1>3. CASE supervisor[l] \in Working
  <2>1. SupervisorDies(l, -signal)
    BY <1>3 DEF SignalGroup
  <2>2. -signal \in {-9, -15}
    BY DEF SIGTERM, SIGKILL
  <2> QED
    BY <1>2, <1>3, <2>1, <2>2, Classes DEF TypeOK, Deaths, ProcessTypes, SupervisorDies
<1>4. CASE supervisor[l] \notin Working
  <2>1. UNCHANGED <<supervisor, returncode>>
    BY <1>4, Classes DEF SignalGroup
  <2> QED
    BY <1>2, <1>4, <2>1, Classes DEF TypeOK, Deaths, ProcessTypes
<1> QED
  BY <1>3, <1>4

\* The wrapper's group is signalled only while the wrapper lives or is a zombie.
LEMMA SignalWrapperDeath ==
    ASSUME TypeOK, NEW l \in Launch, NEW signal \in {SIGTERM, SIGKILL},
           SignalWrapper(l, signal), wrapper[l] \notin {"none", "reused"}
    PROVE  Deaths
<1>1. CASE /\ wrapper[l] \in Guarded /\ signal = SIGTERM
           /\ IF Inspect(supervisor[l]) = "MATCHING_LIVE"
                THEN SignalGroup(l, SIGTERM)
                ELSE UNCHANGED <<supervisor, agent, returncode>>
           /\ stop_requested' = [stop_requested EXCEPT ![l] = TRUE]
           /\ UNCHANGED wrapper
  <2>1. stop_requested' \in [Launch -> BOOLEAN]
    BY <1>1 DEF TypeOK
  <2>2. CASE Inspect(supervisor[l]) = "MATCHING_LIVE"
    BY <1>1, <2>1, <2>2, GroupDeath DEF Inspect
  <2>3. CASE Inspect(supervisor[l]) # "MATCHING_LIVE"
    BY <1>1, <2>1, <2>3, Classes DEF TypeOK, Deaths, ProcessTypes
  <2> QED
    BY <2>2, <2>3
<1>2. CASE WrapperDies(l) /\ UNCHANGED <<agent, returncode, stop_requested>>
  BY <1>2, WrapperDeath
<1>3. CASE /\ wrapper' = [wrapper EXCEPT ![l] = IF @ = "reused" THEN "signalled" ELSE @]
           /\ UNCHANGED <<supervisor, agent, returncode, stop_requested>>
  <2>1. UNCHANGED procs
    BY <1>3 DEF TypeOK
  <2> QED
    BY <2>1, NoDeaths
<1> QED
  BY <1>1, <1>2, <1>3 DEF SignalWrapper

\* A target of start or stop that has the identity on record.
LEMMA SignalDeath ==
    ASSUME TypeOK, NEW t \in Target, NEW signal \in {SIGTERM, SIGKILL}, Signal(t, signal),
           Inspect(Process(t)) = "MATCHING_LIVE"
    PROVE  Deaths
<1>1. t.of \in Launch
  BY DEF Target
<1>2. CASE t.kind = "child"
  <2>1. supervisor[t.of] # "reused"
    BY <1>2 DEF Inspect, Process
  <2> QED
    BY <1>1, <1>2, <2>1, GroupDeath DEF Signal, SignalChild, TypeOK
<1>3. CASE t.kind # "child"
  <2>1. SignalWrapper(t.of, signal) /\ wrapper[t.of] # "reused"
    BY <1>3 DEF Inspect, Process, Signal
  <2>2. wrapper[t.of] # "none"
    BY <2>1, Classes DEF SignalWrapper
  <2> QED
    BY <1>1, <2>1, <2>2, SignalWrapperDeath
<1> QED
  BY <1>2, <1>3

-----------------------------------------------------------------------------
(***************************************************************************)
(* Frames: what is left to show of a step of the Controller, and of a step *)
(* of anything else.                                                       *)
(***************************************************************************)
MemoryTypes ==
    /\ dispatch \in {"none", "intent", "bound"} \cup Closed
    /\ handle \in 0 .. MaxLaunches /\ stop_request \in BOOLEAN
    /\ pc \in {"dispatch", "start", "await", "activate", "bind", "drive", "poll",
               "complete", "close", "stop", "grace", "terminate", "kill", "absent",
               "cancel", "recover", "down"}
    /\ parent \subseteq Launch /\ signals \in Seq(Target)
    /\ status \in {"RUNNING", "SUCCEEDED", "FAILED"}
    /\ pipe \in [Launch -> {"open", "one", "eof"}]

LEMMA MemoryHasTypes ==
    ASSUME IInv
    PROVE  MemoryTypes
BY DEF IInv, TypeOK, MemoryTypes

\* The Controller writes no file of the Attempt, unless it forces an exit.
LEMMA ControllerKeeps ==
    ASSUME IInv, Deaths, UNCHANGED <<files, locals>>, MemoryTypes',
           \A l \in Launch : pipe'[l] = "one" <=> pipe[l] = "one",
           crashes' \in 0 .. MaxCrashes, UNCHANGED <<kills, stops>>,
           PlaceMeans', SignalsMean'
    PROVE  IInv'
<1>1. ProcessesMean'
  BY DeathsKeep
<1>2. TypeOK'
  BY DEF IInv, TypeOK, MemoryTypes, Deaths, ProcessTypes
<1> QED
  BY <1>1, <1>2 DEF IInv

\* The others see nothing of the Controller but the pipe.
LEMMA OthersKeep ==
    ASSUME IInv, UNCHANGED <<dispatch, handle, pipe, pc, signals, status>>,
           launch' = launch \/ launch = 0, exit' = exit \/ exit = NoExit,
           \A l \in Launch : wrapper[l] # "none" => wrapper'[l] # "none"
    PROVE  PlaceMeans' /\ SignalsMean'
<1>1. launch # 0 => launch' = launch
  OBVIOUS
<1>2. exit # NoExit => exit' = exit
  OBVIOUS
<1>3. PlaceMeans'
  <2>1. dispatch \in {"bound", "accepted", "failed"} => handle = launch' /\ launch' # 0
    BY <1>1 DEF IInv, PlaceMeans
  <2>2. status = "SUCCEEDED" \/ dispatch = "accepted" => exit' # NoExit /\ exit'.exit_code = 0
    BY <1>2 DEF IInv, PlaceMeans
  <2>3. pc \in {"await", "activate"} => \E l \in Launch : wrapper'[l] # "none"
    BY DEF IInv, PlaceMeans
  <2>4. pc \in {"activate", "bind"} => launch' # 0
    BY <1>1 DEF IInv, PlaceMeans
  <2> QED
    BY <2>1, <2>2, <2>3, <2>4 DEF IInv, PlaceMeans
<1>4. SignalsMean'
  BY DEF IInv, SignalsMean
<1> QED
  BY <1>3, <1>4

-----------------------------------------------------------------------------
(***************************************************************************)
(* Initially, and when a Controller ends.                                  *)
(***************************************************************************)
LEMMA InitHolds == Init => IInv
<1> SUFFICES ASSUME Init PROVE IInv
  OBVIOUS
<1>1. MaxLaunches \in Nat /\ MaxCrashes \in Nat /\ MaxKills \in Nat /\ MaxStops \in Nat
  BY LaunchesAssumption, BoundsAssumption
<1>2. /\ 0 \in 0 .. MaxLaunches /\ 0 \in 0 .. MaxCrashes
      /\ 0 \in 0 .. MaxKills /\ 0 \in 0 .. MaxStops
  BY <1>1
<1>3. TypeOK
  <2>1. signals \in Seq(Target) /\ parent \subseteq Launch
    BY DEF Init
  <2> QED
    BY <1>2, <2>1 DEF Init, TypeOK
<1>4. ProcessesMean
  BY Classes DEF Init, ProcessesMean, PairsMean, LaunchesMean, ActivationMeans, ResultMeans,
                 TimeoutMeans, ReceiptMeans
<1>5. PlaceMeans /\ SignalsMean
  BY DEF Init, PlaceMeans, SignalsMean
<1> QED
  BY <1>3, <1>4, <1>5 DEF IInv

LEMMA ExitKeeps ==
    ASSUME IInv, Exit, dispatch' \in {dispatch, "cancelled"}, stop_request' \in BOOLEAN,
           crashes' \in 0 .. MaxCrashes,
           UNCHANGED <<handle, files, supervisor, agent, returncode, stop_requested, locals,
                       kills, stops>>
    PROVE  IInv'
<1>1. Deaths
  BY ReapDeath DEF IInv, Exit
<1>2. /\ pipe' \in [Launch -> {"open", "one", "eof"}]
      /\ \A l \in Launch : pipe'[l] = "one" <=> pipe[l] = "one"
  BY MemoryHasTypes DEF MemoryTypes, Exit
<1>3. MemoryTypes'
  <2>1. <<>> \in Seq(Target)
    OBVIOUS
  <2> QED
    BY <1>2, <2>1, MemoryHasTypes DEF MemoryTypes, Exit, Closed
<1>4. PlaceMeans' /\ SignalsMean'
  BY DEF IInv, PlaceMeans, SignalsMean, Exit
<1> QED
  BY <1>1, <1>2, <1>3, <1>4, ControllerKeeps

LEMMA RaiseKeeps == IInv /\ Raise => IInv'
<1> SUFFICES ASSUME IInv, Raise PROVE IInv'
  OBVIOUS
<1>1. /\ dispatch' \in {dispatch, "cancelled"} /\ stop_request' \in BOOLEAN
      /\ crashes' \in 0 .. MaxCrashes
  BY DEF IInv, TypeOK, Raise
<1> QED
  BY <1>1, ExitKeeps DEF Raise

LEMMA CancelKeeps == IInv /\ CancelDispatch => IInv'
<1> SUFFICES ASSUME IInv, CancelDispatch PROVE IInv'
  OBVIOUS
<1>1. /\ dispatch' \in {dispatch, "cancelled"} /\ stop_request' \in BOOLEAN
      /\ crashes' \in 0 .. MaxCrashes
  BY DEF IInv, TypeOK, CancelDispatch
<1> QED
  BY <1>1, ExitKeeps DEF CancelDispatch

LEMMA CrashKeeps == IInv /\ Crash => IInv'
<1> SUFFICES ASSUME IInv, Crash PROVE IInv'
  OBVIOUS
<1>1. crashes' \in 0 .. MaxCrashes
  BY BoundsAssumption DEF IInv, TypeOK, Crash
<1>2. dispatch' \in {dispatch, "cancelled"} /\ stop_request' \in BOOLEAN
  BY DEF IInv, TypeOK, Crash
<1> QED
  BY <1>1, <1>2, ExitKeeps DEF Crash

\* A step of the Controller that changes nothing but its place and the dispatch.
LEMMA StepKeeps ==
    ASSUME IInv, UNCHANGED <<files, procs, locals, pipe, bounds>>, MemoryTypes', PlaceMeans',
           SignalsMean'
    PROVE  IInv'
<1>1. Deaths /\ crashes' \in 0 .. MaxCrashes
  BY NoDeaths DEF IInv, TypeOK
<1>2. \A l \in Launch : pipe'[l] = "one" <=> pipe[l] = "one"
  OBVIOUS
<1> QED
  BY <1>1, <1>2, ControllerKeeps

-----------------------------------------------------------------------------
(***************************************************************************)
(* The Controller: start.                                                  *)
(***************************************************************************)
LEMMA PersistIntentKeeps == IInv /\ PersistIntent => IInv'
<1> SUFFICES ASSUME IInv, PersistIntent PROVE IInv'
  OBVIOUS
<1>1. MemoryTypes'
  BY MemoryHasTypes DEF MemoryTypes, PersistIntent
<1>2. PlaceMeans' /\ SignalsMean'
  BY DEF IInv, PlaceMeans, SignalsMean, PersistIntent
<1> QED
  BY <1>1, <1>2, StepKeeps DEF PersistIntent

LEMMA ForkKeeps == IInv /\ ForkWrapper => IInv'
<1> SUFFICES ASSUME IInv, ForkWrapper PROVE IInv'
  OBVIOUS
<1>1. CASE Raise
  BY <1>1, RaiseKeeps
<1>2. CASE ~ Raise
  <2> DEFINE n == Current + 1
  <2>1. /\ pc = "start" /\ Fresh /\ wrapper' = [wrapper EXCEPT ![n] = "spawn"]
        /\ parent' = parent \cup {n} /\ pc' = "await" /\ Current < MaxLaunches
        /\ UNCHANGED <<state, files, supervisor, agent, returncode, stop_requested, locals,
                       pipe, signals, status, bounds>>
    BY <1>2 DEF ForkWrapper
  <2>2. /\ Current \in 0 .. MaxLaunches
        /\ \A l \in Launch : wrapper[l] # "none" <=> l <= Current
    BY CurrentCounts DEF IInv, ProcessesMean
  <2>3. n \in Launch /\ wrapper[n] = "none" /\ \A l \in Launch : l < n => wrapper[l] # "none"
    BY <2>1, <2>2, LaunchesAssumption DEF Launch
  <2>4. /\ wrapper' \in [Launch -> {"none"} \cup Unguarded \cup Guarded \cup Dead]
        /\ wrapper'[n] = "spawn" /\ \A l \in Launch \ {n} : wrapper'[l] = wrapper[l]
    BY <2>1, <2>3, Classes DEF IInv, TypeOK
  <2> HIDE DEF n
  <2>5. TypeOK'
    BY <2>1, <2>3, <2>4 DEF IInv, TypeOK
  <2>6. PairsMean'
    BY <2>1, <2>3, <2>4, Classes DEF IInv, ProcessesMean, PairsMean
  <2>7. LaunchesMean'
    BY <2>3, <2>4 DEF IInv, ProcessesMean, LaunchesMean
  <2>8. ActivationMeans'
    BY <2>1 DEF IInv, ProcessesMean, ActivationMeans
  <2>9. ResultMeans' /\ ReceiptMeans'
    BY <2>1, <2>4 DEF IInv, ProcessesMean, ResultMeans, ReceiptMeans, Fresh
  <2>10. TimeoutMeans'
    <3>1. ~ timed_out[n]
      BY <2>3, Classes DEF IInv, ProcessesMean, TimeoutMeans
    <3> QED
      BY <2>1, <2>4, <3>1 DEF IInv, ProcessesMean, TimeoutMeans
  <2>11. PlaceMeans' /\ SignalsMean'
    BY <2>1, <2>3, <2>4 DEF IInv, PlaceMeans, SignalsMean
  <2> QED
    BY <2>5, <2>6, <2>7, <2>8, <2>9, <2>10, <2>11 DEF IInv, ProcessesMean
<1> QED
  BY <1>1, <1>2

\* start is about a launch that was made.
LEMMA CurrentIsLaunch ==
    ASSUME IInv, pc \in {"await", "activate"}
    PROVE  Current \in Launch /\ wrapper[Current] # "none"
<1>1. PICK l \in Launch : wrapper[l] # "none"
  BY DEF IInv, PlaceMeans
<1>2. /\ Current \in 0 .. MaxLaunches
      /\ \A m \in Launch : wrapper[m] # "none" <=> m <= Current
  BY CurrentCounts DEF IInv, ProcessesMean
<1> QED
  BY <1>1, <1>2, LaunchesAssumption DEF Launch

LEMMA FailStartKeeps ==
    ASSUME IInv, NEW targets \in Seq(Target), pc \in {"await", "activate"}, FailStart(targets)
    PROVE  IInv'
<1> DEFINE last == [kind |-> "local", of |-> Current]
<1>1. Current \in Launch
  BY CurrentIsLaunch
<1>2. last \in Target
  BY <1>1 DEF Target
<1>3. /\ signals' \in Seq(Target) /\ signals' # <<>>
      /\ signals'[Len(signals')] = last
  BY <1>2 DEF FailStart
<1>4. /\ pipe' \in [Launch -> {"open", "one", "eof"}]
      /\ \A l \in Launch : pipe'[l] = "one" <=> pipe[l] = "one"
  BY <1>1, MemoryHasTypes DEF IInv, PlaceMeans, MemoryTypes, FailStart
<1>5. MemoryTypes'
  BY <1>3, <1>4, MemoryHasTypes DEF MemoryTypes, FailStart
<1>6. last.kind = "local"
  OBVIOUS
<1>7. PlaceMeans' /\ SignalsMean'
  <2> HIDE DEF last
  <2> QED
    BY <1>3, <1>6 DEF IInv, PlaceMeans, SignalsMean, FailStart
<1>8. Deaths /\ crashes' \in 0 .. MaxCrashes
  BY NoDeaths DEF IInv, TypeOK, FailStart
<1> QED
  BY <1>4, <1>5, <1>7, <1>8, ControllerKeeps DEF FailStart

LEMMA AwaitLaunchKeeps == IInv /\ AwaitLaunch => IInv'
<1> SUFFICES ASSUME IInv, AwaitLaunch PROVE IInv'
  OBVIOUS
<1>1. CASE FailStart(<<>>)
  <2>1. <<>> \in Seq(Target)
    OBVIOUS
  <2> QED
    BY <1>1, <2>1, FailStartKeeps DEF AwaitLaunch
<1>2. CASE ~ FailStart(<<>>)
  <2>1. /\ pc = "await" /\ launch # 0 /\ pc' = "activate"
        /\ UNCHANGED <<state, files, procs, locals, pipe, memory, bounds>>
    BY <1>2 DEF AwaitLaunch
  <2>2. MemoryTypes'
    BY <2>1, MemoryHasTypes DEF MemoryTypes
  <2>3. PlaceMeans' /\ SignalsMean'
    BY <2>1 DEF IInv, PlaceMeans, SignalsMean
  <2> QED
    BY <2>1, <2>2, <2>3, StepKeeps
<1> QED
  BY <1>1, <1>2

\* The byte is written once: no pipe has one while start runs.
LEMMA ActivateKeeps == IInv /\ Activate => IInv'
<1> SUFFICES ASSUME IInv, Activate PROVE IInv'
  OBVIOUS
<1>1. launch \in Launch
  BY DEF IInv, TypeOK, PlaceMeans, Activate, Launch
<1>2. CASE FailStart(<<Child(launch), Parent(launch)>>)
  <2>1. <<Child(launch), Parent(launch)>> \in Seq(Target)
    BY <1>1 DEF Child, Parent, Target
  <2> QED
    BY <1>2, <2>1, FailStartKeeps DEF Activate
<1>3. CASE ~ FailStart(<<Child(launch), Parent(launch)>>)
  <2>1. /\ pc = "activate" /\ pipe' = [pipe EXCEPT ![Current] = "one"] /\ pc' = "bind"
        /\ UNCHANGED <<state, files, procs, locals, memory, bounds>>
    BY <1>3 DEF Activate
  <2>2. PICK n \in Launch : n = Current
    BY <2>1, CurrentIsLaunch
  <2>3. /\ pipe' \in [Launch -> {"open", "one", "eof"}]
        /\ pipe'[n] = "one" /\ \A l \in Launch \ {n} : pipe'[l] # "one"
    BY <2>1, <2>2 DEF IInv, TypeOK, PlaceMeans
  <2>4. \A l \in Launch : pipe[l] # "one"
    BY <2>1 DEF IInv, PlaceMeans
  <2>5. TypeOK'
    BY <2>1, <2>3 DEF IInv, TypeOK
  <2>6. PairsMean' /\ LaunchesMean' /\ ResultMeans' /\ TimeoutMeans' /\ ReceiptMeans'
    BY <2>1 DEF IInv, ProcessesMean, PairsMean, LaunchesMean, ResultMeans, TimeoutMeans,
                ReceiptMeans
  <2>7. ActivationMeans'
    BY <1>1, <2>1, <2>3, <2>4, LaunchesAssumption DEF IInv, ProcessesMean, ActivationMeans, Launch
  <2>8. PlaceMeans' /\ SignalsMean'
    BY <2>1 DEF IInv, PlaceMeans, SignalsMean
  <2> QED
    BY <2>5, <2>6, <2>7, <2>8 DEF IInv, ProcessesMean
<1> QED
  BY <1>2, <1>3

LEMMA BindKeeps == IInv /\ (BindHandle \/ BindRecoveredHandle) => IInv'
<1> SUFFICES ASSUME IInv, BindHandle \/ BindRecoveredHandle PROVE IInv'
  OBVIOUS
<1>1. /\ launch # 0 /\ dispatch = "intent" /\ dispatch' = "bound" /\ handle' = launch
      /\ pc' \in {"drive", "recover"}
      /\ UNCHANGED <<stop_request, files, procs, locals, pipe, memory, bounds>>
  BY DEF IInv, PlaceMeans, BindHandle, BindRecoveredHandle
<1>2. MemoryTypes'
  BY <1>1, MemoryHasTypes DEF IInv, TypeOK, MemoryTypes
<1>3. PlaceMeans' /\ SignalsMean'
  BY <1>1 DEF IInv, PlaceMeans, SignalsMean
<1> QED
  BY <1>1, <1>2, <1>3, StepKeeps

-----------------------------------------------------------------------------
(***************************************************************************)
(* The Controller: poll, the end of the dispatch, and resume.              *)
(***************************************************************************)
LEMMA CompletedKeeps ==
    ASSUME IInv, NEW next \in {"complete", "cancel"},
           NEW polled \in {"RUNNING", "SUCCEEDED", "FAILED"},
           Completed(next, polled), dispatch = "bound", polled = "SUCCEEDED" => exit.exit_code = 0
    PROVE  IInv'
<1>1. CASE Raise
  BY <1>1, RaiseKeeps
<1>2. CASE ~ Raise
  <2>1. /\ exit # NoExit /\ ReapLocal /\ pc' = next /\ status' = polled
        /\ UNCHANGED <<state, files, supervisor, agent, returncode, stop_requested,
                       locals, pipe, parent, signals, bounds>>
    BY <1>2 DEF Completed
  <2>2. Deaths /\ crashes' \in 0 .. MaxCrashes
    BY <2>1, ReapDeath DEF IInv, TypeOK
  <2>3. MemoryTypes'
    BY <2>1, MemoryHasTypes DEF MemoryTypes
  <2>4. PlaceMeans' /\ SignalsMean'
    BY <2>1 DEF IInv, PlaceMeans, SignalsMean
  <2> QED
    BY <2>1, <2>2, <2>3, <2>4, ControllerKeeps
<1> QED
  BY <1>1, <1>2

LEMMA PollReceiptKeeps == IInv /\ PollReceipt => IInv'
<1> SUFFICES ASSUME IInv, PollReceipt PROVE IInv'
  OBVIOUS
<1> DEFINE polled == IF exit.exit_code = 0 THEN "SUCCEEDED" ELSE "FAILED"
<1>1. CASE Completed("complete", polled)
  BY <1>1, CompletedKeeps DEF PollReceipt
<1>2. CASE ~ Completed("complete", polled)
  <2>1. /\ dispatch = "bound" /\ pc' = "poll"
        /\ UNCHANGED <<state, files, procs, locals, pipe, memory, bounds>>
    BY <1>2 DEF PollReceipt
  <2>2. MemoryTypes'
    BY <2>1, MemoryHasTypes DEF MemoryTypes
  <2>3. PlaceMeans' /\ SignalsMean'
    BY <2>1 DEF IInv, PlaceMeans, SignalsMean
  <2> QED
    BY <2>1, <2>2, <2>3, StepKeeps
<1> QED
  BY <1>1, <1>2

LEMMA PollProcessesKeeps == IInv /\ PollProcesses => IInv'
<1> SUFFICES ASSUME IInv, PollProcesses PROVE IInv'
  OBVIOUS
<1>1. /\ pc = "poll" /\ pc' \in {"drive", "complete"} /\ status' \in {status, "FAILED"}
      /\ UNCHANGED <<state, files, procs, locals, pipe, parent, signals, bounds>>
  BY DEF PollProcesses
<1>2. MemoryTypes'
  BY <1>1, MemoryHasTypes DEF MemoryTypes
<1>3. PlaceMeans' /\ SignalsMean'
  BY <1>1 DEF IInv, PlaceMeans, SignalsMean
<1> QED
  BY <1>1, <1>2, <1>3, StepKeeps

LEMMA BindCompletionKeeps == IInv /\ BindCompletion => IInv'
<1> SUFFICES ASSUME IInv, BindCompletion PROVE IInv'
  OBVIOUS
<1>1. CASE Raise
  BY <1>1, RaiseKeeps
<1>2. CASE ~ Raise
  <2>1. /\ pc = "complete" /\ pc' = "close"
        /\ UNCHANGED <<state, files, procs, locals, pipe, memory, bounds>>
    BY <1>2 DEF BindCompletion
  <2>2. MemoryTypes'
    BY <2>1, MemoryHasTypes DEF MemoryTypes
  <2>3. PlaceMeans' /\ SignalsMean'
    BY <2>1 DEF IInv, PlaceMeans, SignalsMean
  <2> QED
    BY <2>1, <2>2, <2>3, StepKeeps
<1> QED
  BY <1>1, <1>2

LEMMA CloseKeeps == IInv /\ CloseDispatch => IInv'
<1> SUFFICES ASSUME IInv, CloseDispatch PROVE IInv'
  OBVIOUS
<1>1. MemoryTypes'
  BY MemoryHasTypes DEF MemoryTypes, CloseDispatch, Closed
<1>2. PlaceMeans' /\ SignalsMean'
  BY DEF IInv, PlaceMeans, SignalsMean, CloseDispatch
<1> QED
  BY <1>1, <1>2, StepKeeps DEF CloseDispatch

\* No byte was written for an intent without a launch receipt, so that start may run again.
LEMMA ResumeKeeps == IInv /\ (Resume \/ Recovered) => IInv'
<1> SUFFICES ASSUME IInv, Resume \/ Recovered PROVE IInv'
  OBVIOUS
<1>1. UNCHANGED <<state, files, procs, locals, pipe, memory, bounds>>
  BY DEF Resume, Recovered
<1>2. CASE Resume
  <2>1. MemoryTypes'
    BY <1>1, <1>2, MemoryHasTypes DEF MemoryTypes, Resume
  <2>2. PlaceMeans' /\ SignalsMean'
    BY <1>2 DEF IInv, PlaceMeans, SignalsMean, Resume
  <2> QED
    BY <1>1, <2>1, <2>2, StepKeeps
<1>3. CASE Recovered
  <2>1. /\ pc' \in {"drive", "cancel", "start"}
        /\ pc' = "start" => dispatch # "bound" /\ launch = 0
    BY <1>3 DEF Recovered
  <2>2. pc = "recover"
    BY <1>3 DEF Recovered
  <2>3. pc' = "start" => \A l \in Launch : pipe[l] # "one"
    BY <2>1 DEF IInv, ProcessesMean, ActivationMeans
  <2>4. MemoryTypes'
    BY <1>1, <2>1, MemoryHasTypes DEF MemoryTypes
  <2>5. PlaceMeans' /\ SignalsMean'
    BY <1>1, <2>1, <2>2, <2>3 DEF IInv, PlaceMeans, SignalsMean
  <2> QED
    BY <1>1, <2>4, <2>5, StepKeeps
<1> QED
  BY <1>2, <1>3

-----------------------------------------------------------------------------
(***************************************************************************)
(* The Controller: stop, and the termination of what start began.          *)
(***************************************************************************)
\* A bound handle names a launch that was made.
LEMMA HandleIsLaunch ==
    ASSUME IInv, dispatch = "bound"
    PROVE  handle \in Launch /\ handle = launch
<1>1. handle = launch /\ launch # 0 /\ launch \in 0 .. MaxLaunches
  BY DEF IInv, TypeOK, PlaceMeans
<1> QED
  BY <1>1, LaunchesAssumption DEF Launch

LEMMA ConsumeStopKeeps == IInv /\ ConsumeStop => IInv'
<1> SUFFICES ASSUME IInv, ConsumeStop PROVE IInv'
  OBVIOUS
<1>1. MemoryTypes'
  BY MemoryHasTypes DEF MemoryTypes, ConsumeStop
<1>2. PlaceMeans' /\ SignalsMean'
  BY DEF IInv, PlaceMeans, SignalsMean, ConsumeStop
<1> QED
  BY <1>1, <1>2, StepKeeps DEF ConsumeStop

\* A signal that start or stop sends, while the targets stay.
LEMMA SignalKeeps ==
    ASSUME IInv, Deaths, UNCHANGED <<state, files, locals, pipe, memory, bounds>>,
           \/ pc = "stop" /\ pc' = "grace"
           \/ pc \in {"terminate", "kill"} /\ pc' = "kill"
    PROVE  IInv'
<1>1. MemoryTypes' /\ crashes' \in 0 .. MaxCrashes
  BY MemoryHasTypes DEF MemoryTypes, IInv, TypeOK
<1>2. PlaceMeans' /\ SignalsMean'
  BY DEF IInv, PlaceMeans, SignalsMean
<1>3. \A l \in Launch : pipe'[l] = "one" <=> pipe[l] = "one"
  OBVIOUS
<1> QED
  BY <1>1, <1>2, <1>3, ControllerKeeps

LEMMA StopWrapperKeeps == IInv /\ StopWrapper => IInv'
<1> SUFFICES ASSUME IInv, StopWrapper PROVE IInv'
  OBVIOUS
<1>1. dispatch = "bound" /\ pc = "stop"
  BY DEF IInv, PlaceMeans, StopWrapper
<1>2. CASE Completed("cancel", "RUNNING")
  BY <1>1, <1>2, CompletedKeeps
<1>3. CASE Raise
  BY <1>3, RaiseKeeps
<1>4. CASE ~ Completed("cancel", "RUNNING") /\ ~ Raise
  <2>1. /\ pc' = "grace" /\ UNCHANGED <<state, files, locals, pipe, memory, bounds>>
        /\ IF Inspect(wrapper[handle]) = "MATCHING_LIVE"
             THEN SignalWrapper(handle, SIGTERM)
             ELSE UNCHANGED procs
    BY <1>4 DEF StopWrapper
  <2>2. CASE Inspect(wrapper[handle]) = "MATCHING_LIVE"
    <3>1. handle \in Launch /\ wrapper[handle] # "reused" /\ SignalWrapper(handle, SIGTERM)
      BY <1>1, <2>1, <2>2, HandleIsLaunch DEF Inspect
    <3>2. wrapper[handle] # "none"
      BY <3>1, Classes DEF SignalWrapper
    <3>3. Deaths
      BY <3>1, <3>2, SignalWrapperDeath DEF IInv
    <3> QED
      BY <1>1, <2>1, <3>3, SignalKeeps
  <2>3. CASE Inspect(wrapper[handle]) # "MATCHING_LIVE"
    <3>1. Deaths
      BY <2>1, <2>3, NoDeaths DEF IInv
    <3> QED
      BY <1>1, <2>1, <3>1, SignalKeeps
  <2> QED
    BY <2>2, <2>3
<1> QED
  BY <1>2, <1>3, <1>4

LEMMA AwaitExitKeeps == IInv /\ AwaitExit => IInv'
<1> SUFFICES ASSUME IInv, AwaitExit PROVE IInv'
  OBVIOUS
<1>1. dispatch = "bound" /\ pc = "grace"
  BY DEF IInv, PlaceMeans, AwaitExit
<1>2. CASE Completed("cancel", "RUNNING")
  BY <1>1, <1>2, CompletedKeeps
<1>3. CASE ~ Completed("cancel", "RUNNING")
  <2>1. /\ signals' = <<Child(handle), Parent(handle)>> /\ pc' = "terminate"
        /\ UNCHANGED <<state, files, procs, locals, pipe, parent, status, bounds>>
    BY <1>3 DEF AwaitExit
  <2>2. Child(handle) \in Target /\ Parent(handle) \in Target
    BY <1>1, HandleIsLaunch DEF Child, Parent, Target
  <2>3. signals' \in Seq(Target) /\ signals' # <<>>
    BY <2>1, <2>2
  <2>4. \A i \in DOMAIN signals' : signals'[i].kind # "local"
    BY <2>1 DEF Child, Parent
  <2>5. MemoryTypes'
    BY <2>1, <2>3, MemoryHasTypes DEF MemoryTypes
  <2>6. PlaceMeans' /\ SignalsMean'
    BY <1>1, <2>1, <2>3, <2>4 DEF IInv, PlaceMeans, SignalsMean
  <2> QED
    BY <2>1, <2>5, <2>6, StepKeeps
<1> QED
  BY <1>2, <1>3

\* The next target.  The targets of start end with its own wrapper, so that it never gets
\* past them.
LEMMA NextTargetKeeps ==
    ASSUME IInv, pc \in {"terminate", "kill"}, Head(signals).kind # "local", NextTarget, Deaths
    PROVE  IInv'
<1>1. signals \in Seq(Target) /\ signals # <<>>
  BY DEF IInv, TypeOK, SignalsMean
<1>2. signals' = Tail(signals) /\ signals' \in Seq(Target) /\ Len(signals') = Len(signals) - 1
      /\ Len(signals) \in Nat /\ Len(signals) >= 1
      /\ \A i \in 1 .. Len(signals') : signals'[i] = signals[i + 1]
  BY <1>1, HeadTailProperties DEF NextTarget
<1>3. dispatch \in {"intent", "bound"}
  BY DEF IInv, PlaceMeans
<1>4. dispatch = "intent" => signals' # <<>> /\ signals'[Len(signals')].kind = "local"
  <2> SUFFICES ASSUME dispatch = "intent"
               PROVE  signals' # <<>> /\ signals'[Len(signals')].kind = "local"
    OBVIOUS
  <2>1. signals[Len(signals)].kind = "local" /\ Head(signals) = signals[1]
    BY <1>1 DEF IInv, SignalsMean
  <2>2. Len(signals) # 1
    BY <2>1
  <2>3. Len(signals') \in 1 .. Len(signals') /\ Len(signals') + 1 = Len(signals)
    BY <1>2, <2>2
  <2>4. signals'[Len(signals')] = signals[Len(signals)]
    BY <1>2, <2>3
  <2>5. signals' # <<>>
    BY <2>3
  <2> QED
    BY <2>1, <2>4, <2>5
<1>5. dispatch = "bound" => \A i \in DOMAIN signals' : signals'[i].kind # "local"
  <2>1. DOMAIN signals' = 1 .. Len(signals') /\ DOMAIN signals = 1 .. Len(signals)
    BY <1>1, <1>2
  <2>2. \A i \in 1 .. Len(signals') : i + 1 \in 1 .. Len(signals)
    BY <1>2
  <2> QED
    BY <1>2, <2>1, <2>2 DEF IInv, SignalsMean
<1>6. /\ UNCHANGED <<state, files, locals, pipe, parent, status, bounds>>
      /\ pc' = IF signals' = <<>> THEN "absent" ELSE "terminate"
  BY DEF NextTarget
<1>7. MemoryTypes' /\ crashes' \in 0 .. MaxCrashes
  BY <1>2, <1>6, MemoryHasTypes DEF MemoryTypes, IInv, TypeOK
<1>8. PlaceMeans' /\ SignalsMean'
  BY <1>3, <1>4, <1>5, <1>6 DEF IInv, PlaceMeans, SignalsMean
<1>9. \A l \in Launch : pipe'[l] = "one" <=> pipe[l] = "one"
  BY <1>6
<1> QED
  BY <1>6, <1>7, <1>8, <1>9, ControllerKeeps

LEMMA HeadIsTarget ==
    ASSUME IInv, pc \in {"terminate", "kill"}
    PROVE  /\ Head(signals) \in Target /\ Head(signals).of \in Launch
           /\ Len(signals) \in DOMAIN signals
<1>1. signals \in Seq(Target) /\ signals # <<>>
  BY DEF IInv, TypeOK, SignalsMean
<1>2. Head(signals) \in Target /\ Len(signals) \in DOMAIN signals
  BY <1>1
<1> QED
  BY <1>2 DEF Target

LEMMA TerminateKeeps == IInv /\ TerminateTarget => IInv'
<1> SUFFICES ASSUME IInv, TerminateTarget PROVE IInv'
  OBVIOUS
<1> DEFINE t == Head(signals)
<1>1. pc = "terminate" /\ t.kind # "local" /\ t \in Target /\ Len(signals) \in DOMAIN signals
  BY HeadIsTarget DEF TerminateTarget
<1>2. CASE /\ Inspect(Process(t)) = "MATCHING_LIVE" /\ Signal(t, SIGTERM) /\ pc' = "kill"
           /\ UNCHANGED <<state, files, locals, pipe, memory, bounds>>
  <2>1. Deaths
    BY <1>1, <1>2, SignalDeath DEF IInv
  <2> QED
    BY <1>1, <1>2, <2>1, SignalKeeps
<1>3. CASE NextTarget /\ UNCHANGED procs
  <2>1. Deaths
    BY <1>3, NoDeaths DEF IInv
  <2> QED
    BY <1>1, <1>3, <2>1, NextTargetKeeps
<1>4. CASE /\ \E i \in DOMAIN signals : signals[i].kind = "local"
           /\ signals' = <<signals[Len(signals)]>>
           /\ UNCHANGED <<state, files, procs, locals, pipe, pc, parent, status, bounds>>
  <2>1. dispatch = "intent"
    BY <1>1, <1>4 DEF IInv, PlaceMeans, SignalsMean
  <2>2. signals[Len(signals)] \in Target /\ signals[Len(signals)].kind = "local"
    BY <1>1, <2>1 DEF IInv, TypeOK, SignalsMean
  <2>3. signals' \in Seq(Target) /\ signals' # <<>> /\ signals'[Len(signals')].kind = "local"
    BY <1>4, <2>2
  <2>4. MemoryTypes'
    BY <1>4, <2>3, MemoryHasTypes DEF MemoryTypes
  <2>5. PlaceMeans' /\ SignalsMean'
    BY <1>4, <2>1, <2>3 DEF IInv, PlaceMeans, SignalsMean
  <2> QED
    BY <1>4, <2>4, <2>5, StepKeeps
<1>5. CASE Raise
  BY <1>5, RaiseKeeps
<1> QED
  BY <1>2, <1>3, <1>4, <1>5 DEF TerminateTarget

LEMMA KillTargetKeeps == IInv /\ KillTarget => IInv'
<1> SUFFICES ASSUME IInv, KillTarget PROVE IInv'
  OBVIOUS
<1> DEFINE t == Head(signals)
<1>1. pc = "kill" /\ t.kind # "local" /\ t \in Target /\ NextTarget
  BY HeadIsTarget DEF KillTarget
<1>2. Deaths
  <2>1. CASE Inspect(Process(t)) = "MATCHING_LIVE"
    <3>1. Signal(t, SIGKILL)
      BY <2>1 DEF KillTarget
    <3> QED
      BY <1>1, <2>1, <3>1, SignalDeath DEF IInv
  <2>2. CASE Inspect(Process(t)) # "MATCHING_LIVE"
    <3>1. UNCHANGED procs
      BY <2>2 DEF KillTarget
    <3> QED
      BY <3>1, NoDeaths DEF IInv
  <2> QED
    BY <2>1, <2>2
<1> QED
  BY <1>1, <1>2, NextTargetKeeps

LEMMA TerminateLocalKeeps == IInv /\ TerminateLocal => IInv'
<1> SUFFICES ASSUME IInv, TerminateLocal PROVE IInv'
  OBVIOUS
<1> DEFINE l == Head(signals).of
<1>1. pc \in {"terminate", "kill"} /\ l \in Launch
  BY HeadIsTarget DEF TerminateLocal
<1>2. CASE Raise
  BY <1>2, RaiseKeeps
<1>3. CASE ~ Raise
  <2>1. PICK signal \in {SIGTERM, SIGKILL} : SignalWrapper(l, signal)
    BY <1>3 DEF TerminateLocal
  <2>2. /\ wrapper[l] \notin Dead /\ pc' = "kill"
        /\ UNCHANGED <<state, files, locals, pipe, memory, bounds>>
    BY <1>3 DEF TerminateLocal
  <2>3. wrapper[l] \notin {"none", "reused"}
    BY <2>1, <2>2, Classes DEF SignalWrapper
  <2>4. Deaths
    BY <1>1, <2>1, <2>3, SignalWrapperDeath DEF IInv
  <2> QED
    BY <1>1, <2>2, <2>4, SignalKeeps
<1> QED
  BY <1>2, <1>3

\* The exit that stop writes itself, once both processes are gone.
LEMMA ForceExitKeeps == IInv /\ ForceExit => IInv'
<1> SUFFICES ASSUME IInv, ForceExit PROVE IInv'
  OBVIOUS
<1>1. dispatch = "bound" /\ pc = "absent"
  BY DEF IInv, PlaceMeans, ForceExit
<1>2. handle \in Launch /\ handle = launch
  BY <1>1, HandleIsLaunch
<1>3. CASE Raise
  BY <1>3, RaiseKeeps
<1>4. CASE ~ Raise
  <2> DEFINE reaped == IF wrapper[handle] = "zombie" /\ handle \in parent THEN "gone"
                                                                       ELSE wrapper[handle]
  <2>1. /\ Inspect(reaped) = "ABSENT" /\ Inspect(supervisor[handle]) = "ABSENT"
        /\ exit = NoExit /\ ReapLocal /\ exit' = Forced /\ pc' = "cancel"
        /\ UNCHANGED <<state, launch, outputs, temporary, result, supervisor, agent,
                       returncode, stop_requested, locals, pipe, memory, bounds>>
    BY <1>4 DEF ForceExit
  <2>2. reaped = "gone" /\ supervisor[handle] = "gone"
    BY <2>1 DEF Inspect
  <2>3. Deaths
    BY <2>1, ReapDeath DEF IInv
  <2>4. wrapper'[handle] = "gone"
    BY <1>2, <2>1, <2>2 DEF ReapLocal
  <2>5. exit' \in Receipt /\ exit' # NoExit /\ exit'.handle = launch /\ exit'.exit_code = 137
        /\ exit'.timed_out = FALSE /\ exit'.result_published = FALSE
    BY <1>2, <2>1 DEF Forced, Receipt, NoExit
  <2>11. exit'.result_published = (exit'.exit_code = 0)
    <3>1. exit'.exit_code # 0
      BY <2>5
    <3> QED
      BY <2>5, <3>1
  <2>6. TypeOK'
    BY <2>1, <2>3, <2>5 DEF IInv, TypeOK, Deaths, ProcessTypes
  <2>7. PairsMean' /\ LaunchesMean' /\ ActivationMeans' /\ TimeoutMeans'
    BY <2>1, <2>3, Classes DEF IInv, ProcessesMean, PairsMean, LaunchesMean, ActivationMeans,
                               TimeoutMeans, Deaths
  <2>8. ResultMeans'
    BY <2>1, <2>3, Classes DEF IInv, ProcessesMean, ResultMeans, Deaths
  <2>9. ReceiptMeans'
    <3>1. launch' = handle /\ supervisor'[handle] = "gone" /\ wrapper'[handle] = "gone"
      BY <1>2, <2>1, <2>2, <2>4
    <3> QED
      BY <1>2, <2>1, <2>5, <2>11, <3>1, Classes DEF ReceiptMeans
  <2>10. PlaceMeans' /\ SignalsMean'
    BY <1>1, <2>1 DEF IInv, PlaceMeans, SignalsMean
  <2> QED
    BY <2>6, <2>7, <2>8, <2>9, <2>10 DEF IInv, ProcessesMean
<1> QED
  BY <1>3, <1>4

-----------------------------------------------------------------------------
(***************************************************************************)
(* The wrapper.                                                            *)
(***************************************************************************)
\* A step that is a death for the rest of the system, and changes no file the invariant
\* speaks of.
LEMMA DeathStepKeeps ==
    ASSUME IInv, Deaths, UNCHANGED <<state, launch, result, exit, locals, pipe, pc, memory>>,
           outputs' \in BOOLEAN, temporary' \in BOOLEAN,
           crashes' \in 0 .. MaxCrashes, kills' \in 0 .. MaxKills, stops' \in 0 .. MaxStops
    PROVE  IInv'
<1>1. ProcessesMean'
  <2>1. \A l \in Launch : pipe'[l] = "one" <=> pipe[l] = "one"
    OBVIOUS
  <2> QED
    BY <2>1, DeathsKeep
<1>2. PlaceMeans' /\ SignalsMean'
  <2>1. \A l \in Launch : wrapper[l] # "none" => wrapper'[l] # "none"
    BY Classes DEF Deaths
  <2> QED
    BY <2>1, OthersKeep
<1>3. TypeOK'
  BY DEF IInv, TypeOK, Deaths, ProcessTypes
<1> QED
  BY <1>1, <1>2, <1>3 DEF IInv

LEMMA SpawnKeeps ==
    ASSUME IInv, NEW l \in Launch, SpawnSupervisor(l)
    PROVE  IInv'
<1>1. /\ wrapper' \in [Launch -> {"none"} \cup Unguarded \cup Guarded \cup Dead]
      /\ supervisor' \in [Launch -> {"none"} \cup Working \cup Dead]
      /\ wrapper'[l] = "publish" /\ \A m \in Launch \ {l} : wrapper'[m] = wrapper[m]
      /\ supervisor'[l] = "blocked" /\ \A m \in Launch \ {l} : supervisor'[m] = supervisor[m]
  BY Classes DEF IInv, TypeOK, SpawnSupervisor
<1>2. wrapper[l] = "spawn" /\ supervisor[l] = "none"
  BY DEF IInv, ProcessesMean, PairsMean, SpawnSupervisor
<1>3. UNCHANGED <<state, files, agent, returncode, stop_requested, locals, pipe, pc, memory,
                  bounds>>
  BY DEF SpawnSupervisor
<1>4. TypeOK'
  BY <1>1, <1>3 DEF IInv, TypeOK
<1>5. PairsMean' /\ LaunchesMean' /\ TimeoutMeans'
  BY <1>1, <1>2, <1>3, Classes DEF IInv, ProcessesMean, PairsMean, LaunchesMean, TimeoutMeans
<1>6. ActivationMeans' /\ ResultMeans'
  BY <1>1, <1>2, <1>3, Classes DEF IInv, ProcessesMean, ActivationMeans, ResultMeans
<1>7. ReceiptMeans'
  <2>1. exit # NoExit => launch \in Launch /\ launch # l
    BY <1>2, Classes DEF IInv, TypeOK, Receipt, ProcessesMean, ReceiptMeans
  <2> QED
    BY <1>1, <1>3, <2>1 DEF IInv, ProcessesMean, ReceiptMeans
<1>8. PlaceMeans' /\ SignalsMean'
  BY <1>1, <1>3, OthersKeep
<1> QED
  BY <1>4, <1>5, <1>6, <1>7, <1>8 DEF IInv, ProcessesMean

\* A wrapper that goes on, its supervisor as it was.
LEMMA WrapperStepKeeps ==
    ASSUME IInv, NEW l \in Launch,
           \/ wrapper[l] = "publish" /\ launch = 0 /\ launch' = l
              /\ wrapper' = [wrapper EXCEPT ![l] = "handler"]
           \/ wrapper[l] = "handler" /\ launch' = launch
              /\ wrapper' = [wrapper EXCEPT ![l] = "watch"],
           UNCHANGED <<state, outputs, temporary, result, exit, supervisor, agent, returncode,
                       stop_requested, locals, pipe, pc, memory, bounds>>
    PROVE  IInv'
<1>1. /\ wrapper' \in [Launch -> {"none"} \cup Unguarded \cup Guarded \cup Dead]
      /\ wrapper'[l] \in {"handler", "watch"}
      /\ \A m \in Launch \ {l} : wrapper'[m] = wrapper[m]
      /\ wrapper[l] \in {"publish", "handler"}
  BY Classes DEF IInv, TypeOK
<1>2. launch' = l /\ (launch = 0 \/ launch = l) /\ l # 0
  BY Classes DEF IInv, ProcessesMean, PairsMean, Launch
<1>3. TypeOK'
  <2>1. launch' \in 0 .. MaxLaunches
    BY <1>2, LaunchesAssumption DEF Launch
  <2> QED
    BY <1>1, <2>1 DEF IInv, TypeOK
<1>4. PairsMean' /\ LaunchesMean'
  BY <1>1, <1>2, Classes DEF IInv, ProcessesMean, PairsMean, LaunchesMean, Launch
<1>5. ActivationMeans' /\ ResultMeans'
  BY <1>1, <1>2 DEF IInv, ProcessesMean, ActivationMeans, ResultMeans
<1>6. TimeoutMeans'
  <2>1. timed_out[l] => wrapper[l] \in Guarded \cup Dead /\ supervisor[l] \in Dead
    BY DEF IInv, ProcessesMean, TimeoutMeans
  <2>2. ~ timed_out[l]
    BY <1>1, <2>1, Classes
  <2> QED
    BY <1>1, <2>2 DEF IInv, ProcessesMean, TimeoutMeans
<1>7. exit = NoExit
  <2>1. exit # NoExit => launch \in Launch /\ launch = l
    BY <1>2 DEF IInv, TypeOK, Receipt, ProcessesMean, ReceiptMeans, Launch
  <2> QED
    BY <1>1, <2>1, Classes DEF IInv, ProcessesMean, ReceiptMeans
<1>8. ReceiptMeans'
  BY <1>7 DEF ReceiptMeans
<1>9. PlaceMeans' /\ SignalsMean'
  BY <1>1, OthersKeep
<1> QED
  BY <1>3, <1>4, <1>5, <1>6, <1>8, <1>9 DEF IInv, ProcessesMean

LEMMA PublishLaunchKeeps ==
    ASSUME IInv, NEW l \in Launch, PublishLaunch(l) \/ InstallHandler(l)
    PROVE  IInv'
<1>1. CASE WrapperDies(l) /\ PublishLaunch(l) /\ UNCHANGED launch
  <2>1. Deaths
    BY <1>1, WrapperDeath DEF IInv, PublishLaunch
  <2>2. UNCHANGED <<state, files, locals, pipe, pc, memory, bounds>>
    BY <1>1 DEF PublishLaunch
  <2> QED
    BY <2>1, <2>2, DeathStepKeeps DEF IInv, TypeOK
<1>2. CASE ~ (WrapperDies(l) /\ PublishLaunch(l) /\ UNCHANGED launch)
  BY <1>2, WrapperStepKeeps DEF PublishLaunch, InstallHandler
<1> QED
  BY <1>1, <1>2

LEMMA ReapChildKeeps ==
    ASSUME IInv, NEW l \in Launch, ReapChild(l)
    PROVE  IInv'
<1>1. /\ wrapper' \in [Launch -> {"none"} \cup Unguarded \cup Guarded \cup Dead]
      /\ supervisor' \in [Launch -> {"none"} \cup Working \cup Dead]
      /\ wrapper'[l] = "decide" /\ \A m \in Launch \ {l} : wrapper'[m] = wrapper[m]
      /\ supervisor'[l] = "gone" /\ \A m \in Launch \ {l} : supervisor'[m] = supervisor[m]
      /\ wrapper[l] = "watch" /\ supervisor[l] = "zombie"
  BY Classes DEF IInv, TypeOK, ReapChild
<1>2. UNCHANGED <<state, files, agent, returncode, stop_requested, locals, pipe, pc, memory,
                  bounds>>
  BY DEF ReapChild
<1>3. TypeOK'
  BY <1>1, <1>2 DEF IInv, TypeOK
<1>4. PairsMean' /\ LaunchesMean' /\ TimeoutMeans'
  BY <1>1, <1>2, Classes DEF IInv, ProcessesMean, PairsMean, LaunchesMean, TimeoutMeans
<1>5. ActivationMeans' /\ ResultMeans'
  BY <1>1, <1>2, Classes DEF IInv, ProcessesMean, ActivationMeans, ResultMeans
<1>6. ReceiptMeans'
  <2>1. exit # NoExit => launch \in Launch /\ launch # l
    BY <1>1, Classes DEF IInv, TypeOK, Receipt, ProcessesMean, ReceiptMeans
  <2> QED
    BY <1>1, <1>2, <2>1 DEF IInv, ProcessesMean, ReceiptMeans
<1>7. PlaceMeans' /\ SignalsMean'
  BY <1>1, <1>2, OthersKeep
<1> QED
  BY <1>3, <1>4, <1>5, <1>6, <1>7 DEF IInv, ProcessesMean

\* What the group's signals do between "watch" and "kill".
LEMMA WatchStepKeeps ==
    ASSUME IInv, NEW l \in Launch, wrapper[l] \in {"watch", "kill"},
           NEW signal \in {SIGTERM, SIGKILL}, SignalGroup(l, signal),
           NEW to \in {"watch", "kill"}, wrapper' = [wrapper EXCEPT ![l] = to],
           \/ to = "kill" /\ supervisor[l] \in Working
              /\ timed_out' = [timed_out EXCEPT ![l] = TRUE]
           \/ signal = SIGKILL /\ timed_out' = timed_out,
           UNCHANGED <<state, files, stop_requested, exit_code, pipe, pc, memory, bounds>>
    PROVE  IInv'
<1>1. /\ wrapper' \in [Launch -> {"none"} \cup Unguarded \cup Guarded \cup Dead]
      /\ wrapper'[l] = to /\ \A m \in Launch \ {l} : wrapper'[m] = wrapper[m]
      /\ timed_out' \in [Launch -> BOOLEAN]
      /\ \A m \in Launch \ {l} : timed_out'[m] = timed_out[m]
  <2>1. CASE timed_out' = [timed_out EXCEPT ![l] = TRUE]
    BY <2>1, Classes DEF IInv, TypeOK
  <2>2. CASE timed_out' = timed_out
    BY <2>2, Classes DEF IInv, TypeOK
  <2> QED
    BY <2>1, <2>2
<1>2. supervisor[l] \in Working \cup {"zombie"}
  BY DEF IInv, ProcessesMean, PairsMean
<1>3. PICK a \in {agent[l], "killed"} :
        /\ agent' = [agent EXCEPT ![l] = IF @ = "running" THEN a ELSE @]
        /\ signal = SIGKILL => a = "killed"
  <2>1. SIGKILL # SIGTERM
    BY DEF SIGTERM, SIGKILL
  <2>2. PICK a \in IF signal = SIGTERM THEN {agent[l], "killed"} ELSE {"killed"} :
          agent' = [agent EXCEPT ![l] = IF @ = "running" THEN a ELSE @]
    BY DEF SignalGroup
  <2> QED
    BY <2>1, <2>2
<1>4. /\ agent' \in [Launch -> {"none", "running", "ok", "failed", "killed"}]
      /\ signal = SIGKILL => agent'[l] # "running"
      /\ \A m \in Launch : agent'[m] = agent[m] \/ (agent[m] = "running" /\ agent'[m] = "killed")
  BY <1>3 DEF IInv, TypeOK
<1>5. /\ supervisor' \in [Launch -> {"none"} \cup Working \cup Dead]
      /\ returncode' \in [Launch -> {0, 1, 70, 125, -9, -15}]
      /\ supervisor'[l] = "zombie" /\ (supervisor[l] \in Working => returncode'[l] # 0)
      /\ supervisor[l] \notin Working => returncode'[l] = returncode[l]
      /\ \A m \in Launch \ {l} : supervisor'[m] = supervisor[m] /\ returncode'[m] = returncode[m]
  <2>1. CASE supervisor[l] \in Working
    <3>1. SupervisorDies(l, -signal)
      BY <1>2, <2>1, Classes DEF SignalGroup
    <3>2. -signal \in {-9, -15}
      BY DEF SIGTERM, SIGKILL
    <3> QED
      BY <2>1, <3>1, <3>2, Classes DEF IInv, TypeOK, SupervisorDies
  <2>2. CASE supervisor[l] \notin Working
    <3>1. UNCHANGED <<supervisor, returncode>>
      BY <1>2, <2>2, Classes DEF SignalGroup
    <3> QED
      BY <1>2, <2>2, <3>1, Classes DEF IInv, TypeOK
  <2> QED
    BY <2>1, <2>2
<1>6. TypeOK'
  BY <1>1, <1>4, <1>5 DEF IInv, TypeOK
<1>7. PairsMean' /\ LaunchesMean'
  BY <1>1, <1>2, <1>5, Classes DEF IInv, ProcessesMean, PairsMean, LaunchesMean
<1>8. ActivationMeans'
  BY <1>2, <1>4, <1>5, Classes DEF IInv, ProcessesMean, ActivationMeans
<1>9. ResultMeans'
  <2>1. result # 0 => agent'[result] = "ok"
    BY <1>4 DEF IInv, TypeOK, ProcessesMean, ResultMeans, Launch
  <2>2. ASSUME NEW m \in Launch
        PROVE  /\ supervisor'[m] \in Dead /\ returncode'[m] = 0 => agent'[m] = "ok"
               /\ wrapper'[m] \in {"unlink", "result", "exit"} /\ exit_code[m] = 0 =>
                    returncode'[m] = 0
               /\ wrapper'[m] = "exit" /\ exit_code[m] = 0 => result # 0
    BY <1>1, <1>2, <1>4, <1>5, Classes DEF IInv, ProcessesMean, ResultMeans
  <2> QED
    BY <2>1, <2>2 DEF ResultMeans
<1>10. TimeoutMeans'
  <2>1. ASSUME NEW m \in Launch, timed_out'[m]
        PROVE  /\ supervisor'[m] \in Dead /\ wrapper'[m] \in Guarded \cup Dead
               /\ wrapper'[m] \in Guarded \ {"kill"} => agent'[m] # "running"
    <3>1. CASE m = l
      BY <1>1, <1>4, <1>5, <3>1, Classes
    <3>2. CASE m # l
      BY <1>1, <1>4, <1>5, <2>1, <3>2 DEF IInv, ProcessesMean, TimeoutMeans
    <3> QED
      BY <3>1, <3>2
  <2> QED
    BY <2>1 DEF TimeoutMeans
<1>11. ReceiptMeans'
  <2>1. exit # NoExit => launch \in Launch /\ launch # l
    BY Classes DEF IInv, TypeOK, Receipt, ProcessesMean, ReceiptMeans
  <2> QED
    BY <1>1, <1>4, <1>5, <2>1 DEF IInv, ProcessesMean, ReceiptMeans
<1>12. PlaceMeans' /\ SignalsMean'
  BY <1>1, OthersKeep
<1> QED
  BY <1>6, <1>7, <1>8, <1>9, <1>10, <1>11, <1>12 DEF IInv, ProcessesMean

LEMMA TimeOutKeeps ==
    ASSUME IInv, NEW l \in Launch, TimeOut(l) \/ KillGroup(l)
    PROVE  IInv'
<1>1. CASE TimeOut(l)
  BY <1>1, WatchStepKeeps DEF TimeOut
<1>2. CASE KillGroup(l)
  BY <1>2, WatchStepKeeps DEF KillGroup
<1> QED
  BY <1>1, <1>2

\* The wrapper that decides is the one on record, and nothing was published for it.
LEMMA WrapperOnRecord ==
    ASSUME IInv, NEW l \in Launch, wrapper[l] \in Guarded \ {"done"}
    PROVE  launch = l /\ exit = NoExit
BY Classes DEF IInv, ProcessesMean, PairsMean, ReceiptMeans

LEMMA DecideKeeps ==
    ASSUME IInv, NEW l \in Launch, Decide(l)
    PROVE  IInv'
<1> DEFINE code == CASE timed_out[l]       -> 124
                     [] stop_requested[l]  -> 143
                     [] returncode[l] >= 0 -> returncode[l]
                     [] OTHER              -> 128 - returncode[l]
<1>1. returncode[l] \in {0, 1, 70, 125, -9, -15}
  BY DEF IInv, TypeOK
<1>2. code \in {0, 1, 70, 124, 125, 137, 143} /\ (code = 0 => returncode[l] = 0)
  BY <1>1
<1>3. /\ wrapper[l] = "decide" /\ exit_code' = [exit_code EXCEPT ![l] = code]
      /\ wrapper' = [wrapper EXCEPT ![l] = "unlink"]
      /\ UNCHANGED <<state, files, supervisor, agent, returncode, stop_requested,
                     timed_out, pipe, pc, memory, bounds>>
  BY DEF Decide
<1> HIDE DEF code
<1>4. /\ wrapper' \in [Launch -> {"none"} \cup Unguarded \cup Guarded \cup Dead]
      /\ exit_code' \in [Launch -> {0, 1, 70, 124, 125, 137, 143}]
      /\ wrapper'[l] = "unlink" /\ \A m \in Launch \ {l} : wrapper'[m] = wrapper[m]
      /\ exit_code'[l] = code /\ \A m \in Launch \ {l} : exit_code'[m] = exit_code[m]
  BY <1>2, <1>3, Classes DEF IInv, TypeOK
<1>5. TypeOK'
  BY <1>3, <1>4 DEF IInv, TypeOK
<1>6. PairsMean' /\ LaunchesMean' /\ ActivationMeans' /\ TimeoutMeans'
  BY <1>3, <1>4, Classes DEF IInv, ProcessesMean, PairsMean, LaunchesMean, ActivationMeans,
                             TimeoutMeans
<1>7. ResultMeans'
  BY <1>2, <1>3, <1>4 DEF IInv, ProcessesMean, ResultMeans
<1>8. ReceiptMeans'
  BY <1>3, WrapperOnRecord, Classes DEF ReceiptMeans
<1>9. PlaceMeans' /\ SignalsMean'
  BY <1>3, <1>4, OthersKeep
<1> QED
  BY <1>5, <1>6, <1>7, <1>8, <1>9 DEF IInv, ProcessesMean

LEMMA UnlinkKeeps ==
    ASSUME IInv, NEW l \in Launch, Unlink(l)
    PROVE  IInv'
<1>1. wrapper[l] = "unlink" /\ launch = l /\ exit = NoExit
  BY WrapperOnRecord, Classes DEF Unlink
<1>2. /\ wrapper' = [wrapper EXCEPT ![l] = "result"]
      /\ UNCHANGED <<state, launch, outputs, exit, supervisor, agent, returncode,
                     stop_requested, locals, pipe, pc, memory, bounds>>
  BY DEF Unlink
<1>3. result' \in {0, result} /\ temporary' \in BOOLEAN
  BY DEF Unlink, IInv, TypeOK
<1>4. /\ wrapper' \in [Launch -> {"none"} \cup Unguarded \cup Guarded \cup Dead]
      /\ wrapper'[l] = "result" /\ \A m \in Launch \ {l} : wrapper'[m] = wrapper[m]
  BY <1>2, Classes DEF IInv, TypeOK
<1>5. TypeOK'
  <2>1. result' \in 0 .. MaxLaunches
    BY <1>3, LaunchesAssumption DEF IInv, TypeOK
  <2> QED
    BY <1>2, <1>3, <1>4, <2>1 DEF IInv, TypeOK
<1>6. PairsMean' /\ LaunchesMean' /\ ActivationMeans' /\ TimeoutMeans'
  BY <1>1, <1>2, <1>4, Classes DEF IInv, ProcessesMean, PairsMean, LaunchesMean, ActivationMeans,
                                   TimeoutMeans
<1>7. ResultMeans'
  <2>1. \A m \in Launch \ {l} : wrapper[m] \notin {"unlink", "result", "exit"}
    BY <1>1, WrapperOnRecord, Classes
  <2> QED
    BY <1>1, <1>2, <1>3, <1>4, <2>1 DEF IInv, ProcessesMean, ResultMeans
<1>8. ReceiptMeans'
  BY <1>1, <1>2 DEF ReceiptMeans
<1>9. PlaceMeans' /\ SignalsMean'
  BY <1>2, <1>4, OthersKeep
<1> QED
  BY <1>5, <1>6, <1>7, <1>8, <1>9 DEF IInv, ProcessesMean

LEMMA FindResultKeeps ==
    ASSUME IInv, NEW l \in Launch, FindResult(l)
    PROVE  IInv'
<1>1. wrapper[l] = "result" /\ launch = l /\ exit = NoExit
  BY WrapperOnRecord, Classes DEF FindResult
<1>2. /\ wrapper' = [wrapper EXCEPT ![l] = "exit"] /\ outputs' = TRUE
      /\ UNCHANGED <<state, launch, temporary, result, exit, supervisor, agent, returncode,
                     stop_requested, timed_out, pipe, pc, memory, bounds>>
  BY DEF FindResult
<1>3. PICK c \in {0, 1, 70, 124, 125, 137, 143} :
        /\ exit_code' = [exit_code EXCEPT ![l] = c]
        /\ c = 0 => exit_code[l] = 0 /\ result # 0
  <2> DEFINE c == IF exit_code[l] = 0 /\ (Lacking(l) \/ result = 0) THEN 70 ELSE exit_code[l]
  <2>1. c \in {0, 1, 70, 124, 125, 137, 143} /\ exit_code' = [exit_code EXCEPT ![l] = c]
    BY DEF FindResult, IInv, TypeOK
  <2>2. c = 0 => exit_code[l] = 0 /\ result # 0
    OBVIOUS
  <2> HIDE DEF c
  <2> QED
    BY <2>1, <2>2
<1>4. /\ wrapper' \in [Launch -> {"none"} \cup Unguarded \cup Guarded \cup Dead]
      /\ exit_code' \in [Launch -> {0, 1, 70, 124, 125, 137, 143}]
      /\ wrapper'[l] = "exit" /\ \A m \in Launch \ {l} : wrapper'[m] = wrapper[m]
      /\ exit_code'[l] = c /\ \A m \in Launch \ {l} : exit_code'[m] = exit_code[m]
  BY <1>2, <1>3, Classes DEF IInv, TypeOK
<1>5. TypeOK'
  BY <1>2, <1>4 DEF IInv, TypeOK
<1>6. PairsMean' /\ LaunchesMean' /\ ActivationMeans' /\ TimeoutMeans'
  BY <1>1, <1>2, <1>4, Classes DEF IInv, ProcessesMean, PairsMean, LaunchesMean, ActivationMeans,
                                   TimeoutMeans
<1>7. ResultMeans'
  BY <1>1, <1>2, <1>3, <1>4 DEF IInv, ProcessesMean, ResultMeans
<1>8. ReceiptMeans'
  BY <1>1, <1>2 DEF ReceiptMeans
<1>9. PlaceMeans' /\ SignalsMean'
  BY <1>2, <1>4, OthersKeep
<1> QED
  BY <1>5, <1>6, <1>7, <1>8, <1>9 DEF IInv, ProcessesMean

\* A success is the result of the one agent that was activated.
LEMMA PublishExitKeeps ==
    ASSUME IInv, NEW l \in Launch, PublishExit(l)
    PROVE  IInv'
<1>1. wrapper[l] = "exit" /\ launch = l /\ exit = NoExit
  BY WrapperOnRecord, Classes DEF PublishExit
<1>2. /\ wrapper' = [wrapper EXCEPT ![l] = "done"]
      /\ UNCHANGED <<state, launch, outputs, temporary, result, supervisor, agent, returncode,
                     stop_requested, locals, pipe, pc, memory, bounds>>
  BY DEF PublishExit
<1>3. /\ wrapper' \in [Launch -> {"none"} \cup Unguarded \cup Guarded \cup Dead]
      /\ wrapper'[l] = "done" /\ \A m \in Launch \ {l} : wrapper'[m] = wrapper[m]
  BY <1>2, Classes DEF IInv, TypeOK
<1>4. supervisor[l] \in Dead
  BY <1>1 DEF IInv, ProcessesMean, PairsMean
<1>5. /\ exit' \in Receipt /\ exit' # NoExit /\ exit'.handle = l
      /\ exit'.exit_code = exit_code[l] /\ exit'.timed_out = timed_out[l]
      /\ exit'.result_published = (exit'.exit_code = 0)
  BY <1>1, LaunchesAssumption DEF PublishExit, Receipt, NoExit, IInv, TypeOK, Launch
<1>6. exit_code[l] = 0 => result = l
  <2> SUFFICES ASSUME exit_code[l] = 0 PROVE result = l
    OBVIOUS
  <2>1. result # 0 /\ returncode[l] = 0
    BY <1>1 DEF IInv, ProcessesMean, ResultMeans
  <2>2. agent[l] = "ok" /\ agent[result] = "ok" /\ result \in Launch
    BY <1>4, <2>1 DEF IInv, TypeOK, ProcessesMean, ResultMeans, Launch
  <2>3. pipe[l] = "one" /\ pipe[result] = "one"
    BY <2>2 DEF IInv, ProcessesMean, ActivationMeans
  <2> QED
    BY <2>2, <2>3 DEF IInv, ProcessesMean, ActivationMeans
<1>7. timed_out[l] => agent[l] # "running"
  BY <1>1, Classes DEF IInv, ProcessesMean, TimeoutMeans
<1>8. TypeOK'
  BY <1>2, <1>3, <1>5 DEF IInv, TypeOK
<1>9. PairsMean' /\ LaunchesMean' /\ ActivationMeans' /\ TimeoutMeans'
  BY <1>1, <1>2, <1>3, Classes DEF IInv, ProcessesMean, PairsMean, LaunchesMean,
                                   ActivationMeans, TimeoutMeans
<1>10. ResultMeans'
  BY <1>2, <1>3, Classes DEF IInv, ProcessesMean, ResultMeans
<1>11. ReceiptMeans'
  BY <1>1, <1>2, <1>3, <1>4, <1>5, <1>6, <1>7 DEF ReceiptMeans
<1>12. PlaceMeans' /\ SignalsMean'
  BY <1>1, <1>2, <1>3, OthersKeep
<1> QED
  BY <1>8, <1>9, <1>10, <1>11, <1>12 DEF IInv, ProcessesMean

LEMMA WrapperEndsKeeps ==
    ASSUME IInv, NEW l \in Launch, WrapperEnds(l)
    PROVE  IInv'
<1>1. wrapper[l] = "done" /\ WrapperDies(l)
      /\ UNCHANGED <<state, files, agent, returncode, stop_requested, locals, pipe, pc,
                     memory, bounds>>
  BY DEF WrapperEnds
<1>2. Deaths
  BY <1>1, WrapperDeath DEF IInv
<1>3. ProcessesMean'
  BY <1>1, <1>2, DeathsKeep
<1>4. TypeOK'
  BY <1>1, <1>2 DEF IInv, TypeOK, Deaths, ProcessTypes
<1>5. PlaceMeans' /\ SignalsMean'
  <2>1. \A m \in Launch : wrapper[m] # "none" => wrapper'[m] # "none"
    BY <1>2, Classes DEF Deaths
  <2> QED
    BY <1>1, <2>1, OthersKeep
<1> QED
  BY <1>3, <1>4, <1>5 DEF IInv

-----------------------------------------------------------------------------
(***************************************************************************)
(* The supervisor, Codex, the operator and the machine.                    *)
(***************************************************************************)
LEMMA ReadActivationKeeps ==
    ASSUME IInv, NEW l \in Launch, ReadActivation(l)
    PROVE  IInv'
<1>1. /\ supervisor[l] = "blocked"
      /\ UNCHANGED <<state, files, wrapper, agent, stop_requested, locals, pipe, pc, memory,
                     bounds>>
  BY DEF ReadActivation
<1>2. CASE SupervisorDies(l, 125)
  <2>1. Deaths
    BY <1>1, <1>2, SupervisorDeath, Classes DEF IInv
  <2> QED
    BY <1>1, <2>1, DeathStepKeeps DEF IInv, TypeOK
<1>3. CASE ~ SupervisorDies(l, 125)
  <2>1. /\ pipe[l] = "one" /\ supervisor' = [supervisor EXCEPT ![l] = "opening"]
        /\ UNCHANGED returncode
    BY <1>3 DEF ReadActivation
  <2>2. /\ supervisor' \in [Launch -> {"none"} \cup Working \cup Dead]
        /\ supervisor'[l] = "opening" /\ \A m \in Launch \ {l} : supervisor'[m] = supervisor[m]
    BY <2>1, Classes DEF IInv, TypeOK
  <2>3. TypeOK'
    BY <1>1, <2>1, <2>2 DEF IInv, TypeOK
  <2>4. PairsMean' /\ LaunchesMean' /\ TimeoutMeans'
    BY <1>1, <2>2, Classes DEF IInv, ProcessesMean, PairsMean, LaunchesMean, TimeoutMeans
  <2>5. ActivationMeans' /\ ResultMeans'
    BY <1>1, <2>1, <2>2, Classes DEF IInv, ProcessesMean, ActivationMeans, ResultMeans
  <2>6. ReceiptMeans'
    <3>1. exit # NoExit => launch \in Launch /\ launch # l
      BY <1>1, Classes DEF IInv, TypeOK, Receipt, ProcessesMean, ReceiptMeans
    <3> QED
      BY <1>1, <2>2, <3>1 DEF IInv, ProcessesMean, ReceiptMeans
  <2>7. PlaceMeans' /\ SignalsMean'
    BY <1>1, OthersKeep
  <2> QED
    BY <2>3, <2>4, <2>5, <2>6, <2>7 DEF IInv, ProcessesMean
<1> QED
  BY <1>2, <1>3

LEMMA RunCodexKeeps ==
    ASSUME IInv, NEW l \in Launch, RunCodex(l)
    PROVE  IInv'
<1>1. /\ supervisor[l] = "opening" /\ temporary' \in BOOLEAN /\ outputs' \in BOOLEAN
      /\ UNCHANGED <<state, launch, result, exit, wrapper, stop_requested, locals, pipe, pc,
                     memory, bounds>>
  BY DEF RunCodex, IInv, TypeOK
<1>2. CASE (SupervisorDies(l, 1) \/ SupervisorDies(l, 70)) /\ UNCHANGED agent
  <2>1. Deaths
    BY <1>1, <1>2, SupervisorDeath, Classes DEF IInv
  <2> QED
    BY <1>1, <2>1, DeathStepKeeps DEF IInv, TypeOK
<1>3. CASE /\ supervisor' = [supervisor EXCEPT ![l] = "running"]
           /\ agent' = [agent EXCEPT ![l] = "running"]
           /\ UNCHANGED returncode
  <2>1. /\ supervisor' \in [Launch -> {"none"} \cup Working \cup Dead]
        /\ supervisor'[l] = "running" /\ \A m \in Launch \ {l} : supervisor'[m] = supervisor[m]
        /\ agent' \in [Launch -> {"none", "running", "ok", "failed", "killed"}]
        /\ agent'[l] = "running" /\ \A m \in Launch \ {l} : agent'[m] = agent[m]
    BY <1>3, Classes DEF IInv, TypeOK
  <2>2. pipe[l] = "one" /\ agent[l] = "none"
    BY <1>1 DEF IInv, ProcessesMean, ActivationMeans
  <2>3. TypeOK'
    BY <1>1, <1>3, <2>1 DEF IInv, TypeOK
  <2>4. PairsMean' /\ LaunchesMean'
    BY <1>1, <2>1, Classes DEF IInv, ProcessesMean, PairsMean, LaunchesMean
  <2>5. ActivationMeans'
    BY <1>1, <2>1, <2>2, Classes DEF IInv, ProcessesMean, ActivationMeans
  <2>6. ResultMeans'
    <3>1. result # 0 => result \in Launch /\ result # l
      BY <2>2 DEF IInv, TypeOK, ProcessesMean, ResultMeans, Launch
    <3> QED
      BY <1>1, <1>3, <2>1, <3>1, Classes DEF IInv, ProcessesMean, ResultMeans
  <2>7. TimeoutMeans'
    <3>1. ~ timed_out[l]
      BY <1>1, Classes DEF IInv, ProcessesMean, TimeoutMeans
    <3> QED
      BY <1>1, <2>1, <3>1 DEF IInv, ProcessesMean, TimeoutMeans
  <2>8. ReceiptMeans'
    <3>1. exit # NoExit => launch \in Launch /\ launch # l
      BY <1>1, Classes DEF IInv, TypeOK, Receipt, ProcessesMean, ReceiptMeans
    <3> QED
      BY <1>1, <2>1, <3>1 DEF IInv, ProcessesMean, ReceiptMeans
  <2>9. PlaceMeans' /\ SignalsMean'
    BY <1>1, OthersKeep
  <2> QED
    BY <2>3, <2>4, <2>5, <2>6, <2>7, <2>8, <2>9 DEF IInv, ProcessesMean
<1> QED
  BY <1>2, <1>3 DEF RunCodex

\* A result is published by the agent that ended well, before any receipt promises one.
LEMMA CollectKeeps ==
    ASSUME IInv, NEW l \in Launch, CollectCodex(l)
    PROVE  IInv'
<1>1. /\ supervisor[l] = "running" /\ temporary' \in BOOLEAN
      /\ UNCHANGED <<state, launch, outputs, exit, wrapper, agent, stop_requested, locals, pipe,
                     pc, memory, bounds>>
  BY DEF CollectCodex, IInv, TypeOK
<1>2. CASE (SupervisorDies(l, 1) \/ SupervisorDies(l, 70)) /\ UNCHANGED result
  <2>1. Deaths
    BY <1>1, <1>2, SupervisorDeath, Classes DEF IInv
  <2> QED
    BY <1>1, <1>2, <2>1, DeathStepKeeps DEF IInv, TypeOK
<1>3. CASE agent[l] = "ok" /\ Publishable /\ SupervisorDies(l, 0) /\ result' = l
  <2>1. result = 0 /\ result' = l
    BY <1>3 DEF Publishable
  <2>2. /\ supervisor' \in [Launch -> {"none"} \cup Working \cup Dead]
        /\ returncode' \in [Launch -> {0, 1, 70, 125, -9, -15}]
        /\ supervisor'[l] = IF wrapper[l] \in Dead THEN "gone" ELSE "zombie"
        /\ returncode'[l] = 0
        /\ \A m \in Launch \ {l} : /\ supervisor'[m] = supervisor[m]
                                   /\ returncode'[m] = returncode[m]
    BY <1>3, Classes DEF IInv, TypeOK, SupervisorDies
  <2>3. TypeOK'
    <3>1. result' \in 0 .. MaxLaunches
      BY <2>1, LaunchesAssumption DEF Launch
    <3> QED
      BY <1>1, <2>2, <3>1 DEF IInv, TypeOK
  <2>4. PairsMean' /\ LaunchesMean' /\ TimeoutMeans'
    BY <1>1, <2>2, Classes DEF IInv, ProcessesMean, PairsMean, LaunchesMean, TimeoutMeans
  <2>5. ActivationMeans'
    BY <1>1, <2>2, Classes DEF IInv, ProcessesMean, ActivationMeans
  <2>6. ResultMeans'
    <3>1. l # 0
      BY DEF Launch
    <3> QED
      BY <1>1, <1>3, <2>1, <2>2, <3>1, Classes DEF IInv, ProcessesMean, PairsMean, ResultMeans
  <2>7. ReceiptMeans'
    <3>1. exit # NoExit => launch \in Launch /\ launch # l /\ launch # 0
      BY <1>1, Classes DEF IInv, TypeOK, Receipt, ProcessesMean, ReceiptMeans, Launch
    <3> QED
      BY <1>1, <2>1, <2>2, <3>1 DEF IInv, ProcessesMean, ReceiptMeans
  <2>8. PlaceMeans' /\ SignalsMean'
    BY <1>1, OthersKeep
  <2> QED
    BY <2>3, <2>4, <2>5, <2>6, <2>7, <2>8 DEF IInv, ProcessesMean
<1> QED
  BY <1>2, <1>3 DEF CollectCodex

LEMMA AgentEndsKeeps ==
    ASSUME IInv, NEW l \in Launch, AgentEnds(l)
    PROVE  IInv'
<1>1. /\ agent[l] = "running" /\ temporary' \in BOOLEAN
      /\ UNCHANGED <<state, launch, outputs, result, exit, wrapper, supervisor, returncode,
                     stop_requested, locals, pipe, pc, memory, bounds>>
  BY DEF AgentEnds, IInv, TypeOK
<1>2. /\ agent' \in [Launch -> {"none", "running", "ok", "failed", "killed"}]
      /\ agent'[l] \in {"ok", "failed"} /\ \A m \in Launch \ {l} : agent'[m] = agent[m]
  BY DEF AgentEnds, IInv, TypeOK
<1>3. TypeOK'
  BY <1>1, <1>2 DEF IInv, TypeOK
<1>4. PairsMean' /\ LaunchesMean' /\ ActivationMeans'
  BY <1>1, <1>2 DEF IInv, ProcessesMean, PairsMean, LaunchesMean, ActivationMeans
<1>5. ResultMeans'
  <2>1. result # 0 => result \in Launch /\ result # l
    BY <1>1 DEF IInv, TypeOK, ProcessesMean, ResultMeans, Launch
  <2> QED
    BY <1>1, <1>2, <2>1 DEF IInv, ProcessesMean, ResultMeans
<1>6. TimeoutMeans'
  BY <1>1, <1>2 DEF IInv, ProcessesMean, TimeoutMeans
<1>7. ReceiptMeans'
  <2>1. exit # NoExit => launch \in Launch
    BY DEF IInv, TypeOK, Receipt, ProcessesMean, ReceiptMeans
  <2> QED
    BY <1>1, <1>2, <2>1 DEF IInv, ProcessesMean, ReceiptMeans
<1>8. PlaceMeans' /\ SignalsMean'
  BY <1>1, OthersKeep
<1> QED
  BY <1>3, <1>4, <1>5, <1>6, <1>7, <1>8 DEF IInv, ProcessesMean

LEMMA RequestStopKeeps == IInv /\ RequestStop => IInv'
<1> SUFFICES ASSUME IInv, RequestStop PROVE IInv'
  OBVIOUS
<1>1. UNCHANGED <<dispatch, handle, files, procs, locals, pipe, pc, memory, crashes, kills>>
  BY DEF RequestStop
<1>2. stops' \in 0 .. MaxStops
  BY BoundsAssumption DEF IInv, TypeOK, RequestStop
<1>3. TypeOK'
  BY <1>1, <1>2 DEF IInv, TypeOK, RequestStop
<1>4. ProcessesMean'
  BY <1>1 DEF IInv, ProcessesMean, PairsMean, LaunchesMean, ActivationMeans, ResultMeans,
              TimeoutMeans, ReceiptMeans
<1>5. PlaceMeans' /\ SignalsMean'
  BY <1>1, OthersKeep
<1> QED
  BY <1>3, <1>4, <1>5 DEF IInv

LEMMA KillKeeps ==
    ASSUME IInv, NEW l \in Launch, Kill(l)
    PROVE  IInv'
<1>1. UNCHANGED <<state, files, locals, pipe, pc, memory, crashes, stops>>
  BY DEF Kill
<1>2. kills' \in 0 .. MaxKills
  BY BoundsAssumption DEF IInv, TypeOK, Kill
<1>3. Deaths
  <2>1. CASE KillWrapper(l)
    BY <2>1, WrapperDeath, Classes DEF IInv, KillWrapper
  <2>2. CASE KillSupervisor(l)
    <3>1. -SIGKILL \in {1, 70, 125, -9, -15}
      BY DEF SIGKILL
    <3> QED
      BY <2>2, <3>1, SupervisorDeath DEF IInv, KillSupervisor
  <2> QED
    BY <2>1, <2>2 DEF Kill
<1> QED
  BY <1>1, <1>2, <1>3, DeathStepKeeps DEF IInv, TypeOK

LEMMA ReusePidKeeps ==
    ASSUME IInv, NEW l \in Launch, ReusePid(l)
    PROVE  IInv'
<1>1. UNCHANGED <<state, files, agent, returncode, stop_requested, locals, pipe, pc, memory,
                  bounds>>
  BY DEF ReusePid
<1>2. /\ wrapper' \in [Launch -> {"none"} \cup Unguarded \cup Guarded \cup Dead]
      /\ supervisor' \in [Launch -> {"none"} \cup Working \cup Dead]
      /\ \A m \in Launch : /\ \/ wrapper'[m] = wrapper[m]
                              \/ wrapper[m] = "gone" /\ wrapper'[m] = "reused"
                           /\ \/ supervisor'[m] = supervisor[m]
                              \/ supervisor[m] = "gone" /\ supervisor'[m] = "reused"
  BY Classes DEF IInv, TypeOK, ReusePid
<1>3. TypeOK'
  BY <1>1, <1>2 DEF IInv, TypeOK
<1>4. PairsMean' /\ LaunchesMean' /\ ActivationMeans'
  BY <1>1, <1>2, Classes DEF IInv, ProcessesMean, PairsMean, LaunchesMean, ActivationMeans
<1>5. ResultMeans' /\ TimeoutMeans'
  BY <1>1, <1>2, Classes DEF IInv, ProcessesMean, ResultMeans, TimeoutMeans
<1>6. ReceiptMeans'
  <2>1. exit # NoExit => launch \in Launch
    BY DEF IInv, TypeOK, Receipt, ProcessesMean, ReceiptMeans
  <2> QED
    BY <1>1, <1>2, <2>1, Classes DEF IInv, ProcessesMean, ReceiptMeans
<1>7. PlaceMeans' /\ SignalsMean'
  BY <1>1, <1>2, OthersKeep
<1> QED
  BY <1>3, <1>4, <1>5, <1>6, <1>7 DEF IInv, ProcessesMean

-----------------------------------------------------------------------------
(***************************************************************************)
(* Every step keeps the invariant.                                         *)
(***************************************************************************)
LEMMA NextKeeps == IInv /\ [Next]_vars => IInv'
<1> SUFFICES ASSUME IInv, [Next]_vars PROVE IInv'
  OBVIOUS
<1>1. CASE Controller
  BY <1>1, PersistIntentKeeps, ForkKeeps, AwaitLaunchKeeps, ActivateKeeps, BindKeeps,
     PollReceiptKeeps, PollProcessesKeeps, BindCompletionKeeps, CloseKeeps, ConsumeStopKeeps,
     StopWrapperKeeps, AwaitExitKeeps, TerminateKeeps, KillTargetKeeps, TerminateLocalKeeps,
     ForceExitKeeps, CancelKeeps, ResumeKeeps DEF Controller
<1>2. ASSUME NEW l \in Launch, Wrapper(l)  PROVE IInv'
  BY <1>2, SpawnKeeps, PublishLaunchKeeps, ReapChildKeeps, TimeOutKeeps, DecideKeeps,
     UnlinkKeeps, FindResultKeeps, PublishExitKeeps, WrapperEndsKeeps DEF Wrapper
<1>3. ASSUME NEW l \in Launch, Supervisor(l)  PROVE IInv'
  BY <1>3, ReadActivationKeeps, RunCodexKeeps, CollectKeeps DEF Supervisor
<1>4. ASSUME NEW l \in Launch, AgentEnds(l) \/ Kill(l) \/ ReusePid(l)  PROVE IInv'
  BY <1>4, AgentEndsKeeps, KillKeeps, ReusePidKeeps
<1>5. CASE RequestStop \/ Crash
  BY <1>5, RequestStopKeeps, CrashKeeps
<1>6. CASE UNCHANGED vars
  <2>1. UNCHANGED <<files, procs, locals, pipe, bounds>> /\ MemoryTypes'
    BY <1>6, MemoryHasTypes DEF vars, MemoryTypes
  <2>2. PlaceMeans' /\ SignalsMean'
    BY <1>6 DEF vars, IInv, PlaceMeans, SignalsMean
  <2> QED
    BY <2>1, <2>2, StepKeeps
<1> QED
  BY <1>1, <1>2, <1>3, <1>4, <1>5, <1>6 DEF Next

\* The invariant holds of every Attempt, whatever is killed, crashes or is stopped.
THEOREM AttemptInvariant == Spec => []IInv
<1>1. Init => IInv
  BY InitHolds
<1>2. IInv /\ [Next]_vars => IInv'
  BY NextKeeps
<1> QED
  BY <1>1, <1>2, PTL DEF Spec

-----------------------------------------------------------------------------
(***************************************************************************)
(* What follows from it.                                                   *)
(***************************************************************************)
\* However often a Controller dies in start and the next one calls it again, one supervisor
\* at most runs Codex for an Attempt, and a launch receipt names the processes by then
\* (start, _supervisor, _recover_dispatches).
THEOREM CodexRunsOnce == Spec => []OneActivation
<1>1. IInv => OneActivation
  <2> SUFFICES ASSUME IInv PROVE OneActivation
    OBVIOUS
  <2>1. \A l \in Activated : l \in Launch /\ pipe[l] = "one"
    BY DEF Activated, IInv, ProcessesMean, ActivationMeans
  <2>2. Activated # {} => launch # 0
    BY <2>1 DEF IInv, ProcessesMean, ActivationMeans
  <2>3. CASE Activated = {}
    BY <2>2, <2>3, FS_EmptySet DEF OneActivation
  <2>4. CASE Activated # {}
    <3>1. PICK l \in Activated : TRUE
      BY <2>4
    <3>2. Activated = {l}
      BY <2>1, <3>1 DEF IInv, ProcessesMean, ActivationMeans
    <3>3. Cardinality(Activated) = 1
      BY <3>2, FS_Singleton
    <3> QED
      BY <2>2, <3>3 DEF OneActivation
  <2> QED
    BY <2>3, <2>4
<1> QED
  BY <1>1, AttemptInvariant, PTL

\* No stranger that was given a recycled pid is ever signalled (inspect_process,
\* _terminate_identity, stop).
THEOREM StrangersStaySafe == Spec => []StrangersAreSafe
<1>1. IInv => StrangersAreSafe
  BY DEF IInv, ProcessesMean, PairsMean, StrangersAreSafe
<1> QED
  BY <1>1, AttemptInvariant, PTL

\* What the run accepts was written by the agent its handle names, which ended well
\* (_supervisor, _wrapper, poll, bind_completion).
THEOREM AcceptedResultsAreReal == Spec => []AcceptedIsReal
<1>1. IInv => AcceptedIsReal
  <2> SUFFICES ASSUME IInv, dispatch = "accepted"
               PROVE  /\ handle = launch /\ exit.handle = handle /\ result = handle
                      /\ agent[handle] = "ok" /\ exit.exit_code = 0
    BY DEF AcceptedIsReal
  <2>1. handle = launch /\ launch # 0 /\ exit # NoExit /\ exit.exit_code = 0
    BY DEF IInv, PlaceMeans
  <2>2. exit.handle = launch /\ result = launch
    BY <2>1 DEF IInv, ProcessesMean, ReceiptMeans
  <2> QED
    BY <2>1, <2>2 DEF IInv, ProcessesMean, ResultMeans
<1> QED
  BY <1>1, AttemptInvariant, PTL

\* A receipt, the wrapper's or that of a forced stop, is there only when what it speaks of
\* has ended (_wrapper, stop).
THEOREM ReceiptsMeanEnded == Spec => []ReceiptMeansEnded
<1>1. IInv => ReceiptMeansEnded
  BY DEF IInv, ProcessesMean, ReceiptMeans, ReceiptMeansEnded
<1> QED
  BY <1>1, AttemptInvariant, PTL

\* Nobody replaces a receipt, and the result a receipt promises stays (publish_immutable_at).
THEOREM ReceiptsAreFinal == Spec => ReceiptIsFinal
<1>1. IInv /\ [Next]_vars =>
        [exit # NoExit => /\ exit' = exit
                          /\ exit.result_published => result' = result]_vars
  <2> SUFFICES ASSUME IInv, [Next]_vars, exit # NoExit
               PROVE  exit' = exit /\ (exit.result_published => result' = result)
    OBVIOUS
  <2>1. CASE UNCHANGED vars
    BY <2>1 DEF vars
  <2>2. CASE Controller
    BY <2>2 DEF Controller, PersistIntent, ForkWrapper, Fresh, AwaitLaunch, Activate, FailStart,
       BindHandle, PollReceipt, PollProcesses, BindCompletion, CloseDispatch, ConsumeStop,
       StopWrapper, AwaitExit, TerminateTarget, KillTarget, NextTarget, TerminateLocal,
       ForceExit, CancelDispatch, Resume, BindRecoveredHandle, Recovered, Completed, Raise
  <2>3. ASSUME NEW l \in Launch, Wrapper(l)
        PROVE  exit' = exit /\ (exit.result_published => result' = result)
    <3>1. wrapper[l] \notin Guarded \ {"done"}
      BY WrapperOnRecord
    <3> QED
      BY <2>3, <3>1, Classes DEF Wrapper, SpawnSupervisor, PublishLaunch, InstallHandler,
         ReapChild, TimeOut, KillGroup, Decide, Unlink, FindResult, PublishExit, WrapperEnds
  <2>4. ASSUME NEW l \in Launch, Supervisor(l)
        PROVE  exit' = exit /\ (exit.result_published => result' = result)
    <3>1. exit.result_published => result # 0
      <4>1. /\ exit.result_published = (exit.exit_code = 0)
            /\ exit.exit_code = 0 => result = launch
        BY DEF IInv, ProcessesMean, ReceiptMeans
      <4>2. exit.handle \in Launch /\ exit.handle = launch
        BY DEF IInv, TypeOK, Receipt, ProcessesMean, ReceiptMeans
      <4>3. launch # 0
        BY <4>2 DEF Launch
      <4> QED
        BY <4>1, <4>3
    <3> QED
      BY <2>4, <3>1 DEF Supervisor, ReadActivation, RunCodex, CollectCodex, Publishable
  <2>5. ASSUME NEW l \in Launch, AgentEnds(l) \/ Kill(l) \/ ReusePid(l)
        PROVE  exit' = exit /\ (exit.result_published => result' = result)
    BY <2>5 DEF AgentEnds, Kill, ReusePid
  <2>6. CASE RequestStop \/ Crash
    BY <2>6 DEF RequestStop, Crash
  <2> QED
    BY <2>1, <2>2, <2>3, <2>4, <2>5, <2>6 DEF Next
<1> QED
  BY <1>1, AttemptInvariant, PTL DEF Spec, ReceiptIsFinal

=============================================================================
