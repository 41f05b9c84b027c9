------------------------- MODULE IntegrationProofs -------------------------
(***************************************************************************)
(* Proofs about the integration pipeline, for every set of tasks, every    *)
(* Attempt limit and any number of crashes and external ref movements.     *)
(***************************************************************************)
EXTENDS Integration, SequenceTheorems, TLAPS

\* What Append does to a commit: one more patch, the others where they were.
LEMMA CommitFacts ==
    ASSUME NEW c \in Commit, NEW p \in Patch
    PROVE  /\ Append(c, p) \in Commit
           /\ Len(Append(c, p)) = Len(c) + 1
           /\ \A i \in 1 .. Len(c) : Append(c, p)[i] = c[i]
           /\ Append(c, p)[Len(c) + 1] = p
           /\ Len(c) \in Nat
BY AppendProperties, LenProperties DEF Commit

\* An ancestor of a commit (where MoveRunRef may reset the ref) is a commit.
LEMMA PrefixIsCommit ==
    ASSUME NEW c \in Commit, NEW n \in 0 .. Len(c) - 1
    PROVE  SubSeq(c, 1, n) \in Commit
<1>1. Len(c) \in Nat /\ n \in Nat /\ n <= Len(c)
  BY LenProperties DEF Commit
<1>2. \A i \in 1 .. n : c[i] \in Patch
  BY <1>1, ElementOfSeq DEF Commit
<1> QED
  BY <1>1, <1>2, SubSeqProperties DEF Commit

\* base_sha, the absent marker and a foreign commit have their types.
LEMMA ConstantsTyped ==
    /\ BaseCommit \in Commit /\ NoMarker \in Marker /\ ForeignPatch \in Patch
BY DEF BaseCommit, Commit, NoMarker, Marker, ForeignPatch, Patch

\* The patch of an Attempt is a patch.
LEMMA PatchTyped == ASSUME TypeOK, NEW t \in Task PROVE PatchOf(t) \in Patch
BY DEF TypeOK, PatchOf, Patch

\* ExactlyOnce survives every step that keeps integration_head, the set of
\* COMPLETED tasks and the Attempt numbers of those tasks.
LEMMA OnceFrame ==
    ASSUME TypeOK, ExactlyOnce, head' = head,
           \A t \in Task : task[t] = "COMPLETED" <=> task'[t] = "COMPLETED",
           \A t \in Task : task[t] = "COMPLETED" => attempt_no'[t] = attempt_no[t]
    PROVE  ExactlyOnce'
<1>1. InStatus("COMPLETED")' = InStatus("COMPLETED")
  BY DEF InStatus
<1>2. \A t \in InStatus("COMPLETED") : PatchOf(t)' = PatchOf(t)
  BY DEF InStatus, PatchOf
<1> QED
  BY <1>1, <1>2 DEF ExactlyOnce

\* The initial state satisfies the inductive invariant.
LEMMA Start == Init => IInv
<1> SUFFICES ASSUME Init PROVE IInv
  OBVIOUS
<1>1. TypeOK
  BY ConstantsTyped, LimitAssumption, BoundAssumption
     DEF Init, TypeOK, TaskStatus, Location
<1>2. Len(head) = 0
  BY DEF Init, BaseCommit
<1>3. ExactlyOnce
  BY <1>2 DEF Init, ExactlyOnce, InStatus
<1> QED
  BY <1>1, <1>3, TaskAssumption, LimitAssumption
     DEF Init, IInv, AttemptsLeft, PendingMeans, SourceMeans, LocationMeans,
         HeadWasHeld, RefsFollowMarkers, NoMarker, BaseCommit

\* Every step preserves the inductive invariant: one step per action, and under
\* it one per conjunct that the action touches.
LEMMA Step == IInv /\ [Next]_vars => IInv'
<1> SUFFICES ASSUME IInv, [Next]_vars PROVE IInv'
  OBVIOUS
<1> USE TaskAssumption DEF durable, git, process, bounds, Tick, Unmarked
<1>1. ASSUME NEW t \in Task, StartAttempt(t) PROVE IInv'
  <2>1. TypeOK'
    BY <1>1, ConstantsTyped DEF IInv, TypeOK, StartAttempt, InStatus,
       Marker, TaskStatus, Location
  <2>2. AttemptsLeft'
    BY <1>1, ConstantsTyped DEF IInv, TypeOK, StartAttempt, InStatus,
       AttemptsLeft
  <2>3. PendingMeans'
    BY <1>1, ConstantsTyped DEF IInv, TypeOK, StartAttempt, InStatus,
       PendingMeans, Appended, PatchOf, NoMarker
  <2>4. ExactlyOnce'
    BY <1>1, OnceFrame DEF IInv, TypeOK, StartAttempt, InStatus,
       PendingMeans, SourceMeans, LocationMeans
  <2>5. RefsFollowMarkers'
    BY <1>1, ConstantsTyped DEF IInv, TypeOK, StartAttempt, InStatus,
       RefsFollowMarkers, SourceCommit, PatchOf, NoMarker, PendingMeans,
       SourceMeans
  <2>6. (SourceMeans /\ LocationMeans /\ HeadWasHeld /\ runRef \in held)'
    BY <1>1, ConstantsTyped DEF IInv, TypeOK, StartAttempt, InStatus,
       SourceMeans, SourceCommit, PatchOf, NoMarker, LocationMeans,
       Appended, HeadWasHeld
  <2> QED
    BY <2>1, <2>2, <2>3, <2>4, <2>5, <2>6 DEF IInv
<1>2. ASSUME NEW t \in Task, FreezeFailedWorker(t) PROVE IInv'
  <2>1. TypeOK'
    BY <1>2, ConstantsTyped, LimitAssumption DEF IInv, TypeOK,
       FreezeFailedWorker, CloseFailed, Exit, InStatus, Marker, TaskStatus,
       Location, AttemptsLeft
  <2>2. AttemptsLeft'
    BY <1>2, ConstantsTyped, LimitAssumption DEF IInv, TypeOK,
       FreezeFailedWorker, CloseFailed, Exit, InStatus, AttemptsLeft
  <2>3. PendingMeans'
    BY <1>2, ConstantsTyped DEF IInv, TypeOK, FreezeFailedWorker,
       CloseFailed, Exit, InStatus, PendingMeans, Appended, PatchOf,
       NoMarker
  <2>4. ExactlyOnce'
    BY <1>2, OnceFrame DEF IInv, TypeOK, FreezeFailedWorker, CloseFailed,
       Exit, InStatus, PendingMeans, SourceMeans, LocationMeans
  <2>5. RefsFollowMarkers'
    BY <1>2, ConstantsTyped DEF IInv, TypeOK, FreezeFailedWorker,
       CloseFailed, Exit, InStatus, RefsFollowMarkers, SourceCommit,
       PatchOf, NoMarker
  <2>6. (SourceMeans /\ LocationMeans /\ HeadWasHeld /\ runRef \in held)'
    BY <1>2, ConstantsTyped DEF IInv, TypeOK, FreezeFailedWorker,
       CloseFailed, Exit, InStatus, SourceMeans, SourceCommit, PatchOf,
       NoMarker, LocationMeans, Appended, HeadWasHeld
  <2> QED
    BY <2>1, <2>2, <2>3, <2>4, <2>5, <2>6 DEF IInv
<1>3. ASSUME NEW t \in Task, NEW d \in Delta, AcceptResult(t, d) PROVE IInv'
  <2>1. TypeOK'
    BY <1>3, ConstantsTyped, DeltaAssumption DEF IInv, TypeOK, AcceptResult,
       Marker, TaskStatus, Location
  <2>2. AttemptsLeft'
    BY <1>3, ConstantsTyped DEF IInv, TypeOK, AcceptResult, AttemptsLeft
  <2>3. PendingMeans'
    BY <1>3, ConstantsTyped DEF IInv, TypeOK, AcceptResult, PendingMeans,
       Appended, PatchOf, NoMarker
  <2>4. ExactlyOnce'
    BY <1>3, OnceFrame DEF IInv, TypeOK, AcceptResult, PendingMeans,
       SourceMeans, LocationMeans
  <2>5. RefsFollowMarkers'
    BY <1>3, ConstantsTyped DEF IInv, TypeOK, AcceptResult,
       RefsFollowMarkers, SourceCommit, PatchOf, NoMarker
  <2>6. (SourceMeans /\ LocationMeans /\ HeadWasHeld /\ runRef \in held)'
    BY <1>3, ConstantsTyped DEF IInv, TypeOK, AcceptResult, SourceMeans,
       SourceCommit, PatchOf, NoMarker, LocationMeans, Appended, HeadWasHeld
  <2> QED
    BY <2>1, <2>2, <2>3, <2>4, <2>5, <2>6 DEF IInv
<1>4. ASSUME NEW t \in Task, PrepareSource(t) PROVE IInv'
  <2>1. SourceCommit(t) \in Commit
    BY PatchTyped, CommitFacts DEF IInv, TypeOK, SourceCommit
  <2>2. source' \in Marker
    BY <1>4, <2>1, ConstantsTyped DEF IInv, TypeOK, PrepareSource, Auditable, Marker
  <2>3. TypeOK'
    BY <1>4, <2>1, <2>2, ConstantsTyped DEF IInv, TypeOK, PrepareSource, Auditable,
       Exit, IsFirst, InStatus, Marker, TaskStatus, Location
  <2>4. SourceMeans'
    BY <1>4, <2>1, <2>2, ConstantsTyped DEF IInv, TypeOK, PrepareSource, Auditable,
       Exit, IsFirst, InStatus, SourceMeans, SourceCommit, PatchOf, NoMarker
  <2>5. LocationMeans'
    BY <1>4, <2>1, <2>2, ConstantsTyped DEF IInv, TypeOK, PrepareSource, Auditable,
       Exit, IsFirst, InStatus, LocationMeans, Appended, PatchOf, NoMarker
  <2>6. RefsFollowMarkers'
    <3>1. /\ UNCHANGED <<runRef, head, pending, moves, task, taskRef, base,
                       attempt_no>>
          /\ source = NoMarker
      BY <1>4 DEF PrepareSource, Auditable
    <3>2. source' = NoMarker \/ (source'.task = t /\ source'.expected = taskRef[t])
      BY <1>4 DEF PrepareSource, Auditable
    <3>3. \A u \in Task : SourceCommit(u)' = SourceCommit(u) /\ source.task # u
      BY <3>1 DEF SourceCommit, PatchOf, NoMarker
    <3> QED
      BY <3>1, <3>2, <3>3 DEF IInv, RefsFollowMarkers, NoMarker
  <2>7. (AttemptsLeft /\ PendingMeans /\ ExactlyOnce /\ HeadWasHeld /\
         runRef \in held)'
    BY <1>4, <2>1, <2>2, ConstantsTyped DEF IInv, TypeOK, PrepareSource, Auditable,
       Exit, IsFirst, InStatus, AttemptsLeft, PendingMeans, Appended,
       PatchOf, NoMarker, ExactlyOnce, HeadWasHeld
  <2> QED
    BY <2>3, <2>4, <2>5, <2>6, <2>7 DEF IInv
<1>5. ASSUME NEW t \in Task, RejectCandidate(t) PROVE IInv'
  <2>1. TypeOK'
    BY <1>5, ConstantsTyped, LimitAssumption DEF IInv, TypeOK,
       RejectCandidate, CloseFailed, Exit, IsFirst, InStatus, Marker,
       TaskStatus, Location, AttemptsLeft
  <2>2. AttemptsLeft'
    BY <1>5, ConstantsTyped, LimitAssumption DEF IInv, TypeOK,
       RejectCandidate, CloseFailed, Exit, IsFirst, InStatus, AttemptsLeft
  <2>3. PendingMeans'
    BY <1>5, ConstantsTyped DEF IInv, TypeOK, RejectCandidate, CloseFailed,
       Exit, IsFirst, InStatus, PendingMeans, Appended, PatchOf, NoMarker
  <2>4. ExactlyOnce'
    BY <1>5, OnceFrame DEF IInv, TypeOK, RejectCandidate, CloseFailed, Exit,
       IsFirst, InStatus, PendingMeans, SourceMeans, LocationMeans
  <2>5. RefsFollowMarkers'
    BY <1>5, ConstantsTyped DEF IInv, TypeOK, RejectCandidate, CloseFailed,
       Exit, IsFirst, InStatus, RefsFollowMarkers, SourceCommit, PatchOf,
       NoMarker
  <2>6. (SourceMeans /\ LocationMeans /\ HeadWasHeld /\ runRef \in held)'
    BY <1>5, ConstantsTyped DEF IInv, TypeOK, RejectCandidate, CloseFailed,
       Exit, IsFirst, InStatus, SourceMeans, SourceCommit, PatchOf,
       NoMarker, LocationMeans, Appended, HeadWasHeld
  <2> QED
    BY <2>1, <2>2, <2>3, <2>4, <2>5, <2>6 DEF IInv
<1>6. ASSUME NEW t \in Task, PrepareCandidate(t) PROVE IInv'
  <2>1. Append(head, PatchOf(t)) \in Commit
    BY PatchTyped, CommitFacts DEF IInv, TypeOK
  <2>2. candidate' \in Marker
    BY <1>6, <2>1, ConstantsTyped DEF IInv, TypeOK, PrepareCandidate, SourceIntact, Marker
  <2>3. TypeOK'
    BY <1>6, <2>1, <2>2, ConstantsTyped DEF IInv, TypeOK, PrepareCandidate, SourceIntact,
       IsFirst, InStatus, Marker, TaskStatus, Location
  <2>4. LocationMeans'
    BY <1>6, <2>1, <2>2, ConstantsTyped DEF IInv, TypeOK, PrepareCandidate, SourceIntact,
       IsFirst, InStatus, LocationMeans, Appended, PatchOf, NoMarker
  <2>5. ExactlyOnce'
    BY <1>6, OnceFrame DEF IInv, TypeOK, PrepareCandidate, SourceIntact, IsFirst,
       InStatus, PendingMeans, SourceMeans, LocationMeans
  <2>6. RefsFollowMarkers'
    BY <1>6, <2>1, <2>2, ConstantsTyped DEF IInv, TypeOK, PrepareCandidate, SourceIntact,
       IsFirst, InStatus, RefsFollowMarkers, SourceCommit, PatchOf, NoMarker
  <2>7. (AttemptsLeft /\ PendingMeans /\ SourceMeans /\ HeadWasHeld /\
         runRef \in held)'
    BY <1>6, <2>1, <2>2, ConstantsTyped DEF IInv, TypeOK, PrepareCandidate, SourceIntact,
       IsFirst, InStatus, AttemptsLeft, PendingMeans, Appended, PatchOf,
       NoMarker, SourceMeans, SourceCommit, HeadWasHeld
  <2> QED
    BY <2>3, <2>4, <2>5, <2>6, <2>7 DEF IInv
<1>7. CASE ApplySourceCas
  <2>1. TypeOK'
    BY <1>7, ConstantsTyped DEF IInv, TypeOK, ApplySourceCas, Exit, Marker,
       TaskStatus, Location, SourceMeans, LocationMeans
  <2>2. LocationMeans'
    BY <1>7, ConstantsTyped DEF IInv, TypeOK, ApplySourceCas, Exit,
       LocationMeans, Appended, PatchOf, NoMarker, SourceMeans
  <2>3. RefsFollowMarkers'
    BY <1>7, ConstantsTyped DEF IInv, TypeOK, ApplySourceCas, Exit,
       RefsFollowMarkers, SourceCommit, PatchOf, NoMarker, SourceMeans,
       LocationMeans
  <2>4. (AttemptsLeft /\ PendingMeans /\ SourceMeans /\ ExactlyOnce /\
         HeadWasHeld /\ runRef \in held)'
    BY <1>7, ConstantsTyped DEF IInv, TypeOK, ApplySourceCas, Exit,
       AttemptsLeft, PendingMeans, Appended, PatchOf, NoMarker, SourceMeans,
       SourceCommit, ExactlyOnce, InStatus, HeadWasHeld
  <2> QED
    BY <2>1, <2>2, <2>3, <2>4 DEF IInv
<1>8. CASE CompleteSourceMarker
  <2>1. TypeOK'
    BY <1>8, ConstantsTyped DEF IInv, TypeOK, CompleteSourceMarker, Marker,
       TaskStatus, Location
  <2>2. AttemptsLeft'
    BY <1>8, ConstantsTyped DEF IInv, TypeOK, CompleteSourceMarker,
       AttemptsLeft, SourceMeans, LocationMeans
  <2>3. PendingMeans'
    BY <1>8, ConstantsTyped DEF IInv, TypeOK, CompleteSourceMarker,
       PendingMeans, Appended, PatchOf, NoMarker, SourceMeans, LocationMeans
  <2>4. SourceMeans'
    BY <1>8, ConstantsTyped DEF IInv, TypeOK, CompleteSourceMarker,
       SourceMeans, SourceCommit, PatchOf, NoMarker
  <2>5. LocationMeans'
    BY <1>8, ConstantsTyped DEF IInv, TypeOK, CompleteSourceMarker,
       LocationMeans, Appended, PatchOf, NoMarker, SourceMeans
  <2>6. ExactlyOnce'
    BY <1>8, OnceFrame DEF IInv, TypeOK, CompleteSourceMarker, PendingMeans,
       SourceMeans, LocationMeans
  <2>7. RefsFollowMarkers'
    BY <1>8, ConstantsTyped DEF IInv, TypeOK, CompleteSourceMarker,
       RefsFollowMarkers, SourceCommit, PatchOf, NoMarker, SourceMeans,
       LocationMeans
  <2>8. (HeadWasHeld /\ runRef \in held)'
    BY <1>8, ConstantsTyped DEF IInv, TypeOK, CompleteSourceMarker,
       HeadWasHeld
  <2> QED
    BY <2>1, <2>2, <2>3, <2>4, <2>5, <2>6, <2>7, <2>8 DEF IInv
<1>9. CASE PersistPending
  <2>1. TypeOK'
    BY <1>9, ConstantsTyped DEF IInv, TypeOK, PersistPending, Marker,
       TaskStatus, Location, LocationMeans, Appended, SourceMeans,
       PendingMeans
  <2>2. AttemptsLeft'
    BY <1>9, ConstantsTyped DEF IInv, TypeOK, PersistPending, AttemptsLeft,
       LocationMeans, Appended, SourceMeans, PendingMeans
  <2>3. PendingMeans'
    BY <1>9, ConstantsTyped DEF IInv, TypeOK, PersistPending, PendingMeans,
       Appended, PatchOf, NoMarker, LocationMeans, SourceMeans
  <2>4. SourceMeans'
    BY <1>9, ConstantsTyped DEF IInv, TypeOK, PersistPending, SourceMeans,
       SourceCommit, PatchOf, NoMarker, LocationMeans, Appended,
       PendingMeans
  <2>5. LocationMeans'
    BY <1>9, ConstantsTyped DEF IInv, TypeOK, PersistPending, LocationMeans,
       Appended, PatchOf, NoMarker, SourceMeans, PendingMeans
  <2>6. ExactlyOnce'
    BY <1>9, OnceFrame DEF IInv, TypeOK, PersistPending, PendingMeans,
       SourceMeans, LocationMeans
  <2>7. RefsFollowMarkers'
    BY <1>9, ConstantsTyped DEF IInv, TypeOK, PersistPending,
       RefsFollowMarkers, SourceCommit, PatchOf, NoMarker, LocationMeans,
       Appended, SourceMeans, PendingMeans
  <2>8. (HeadWasHeld /\ runRef \in held)'
    BY <1>9, ConstantsTyped DEF IInv, TypeOK, PersistPending, HeadWasHeld
  <2> QED
    BY <2>1, <2>2, <2>3, <2>4, <2>5, <2>6, <2>7, <2>8 DEF IInv
<1>10. CASE ApplyCas
  <2>1. TypeOK'
    BY <1>10, ConstantsTyped DEF IInv, TypeOK, ApplyCas, Exit, Marker,
       TaskStatus, Location, LocationMeans, PendingMeans
  <2>2. LocationMeans'
    BY <1>10, ConstantsTyped DEF IInv, TypeOK, ApplyCas, Exit,
       LocationMeans, Appended, PatchOf, NoMarker, PendingMeans
  <2>3. (HeadWasHeld /\ runRef \in held)'
    BY <1>10, ConstantsTyped DEF IInv, TypeOK, ApplyCas, Exit, HeadWasHeld,
       LocationMeans, PendingMeans
  <2>4. RefsFollowMarkers'
    BY <1>10, ConstantsTyped DEF IInv, TypeOK, ApplyCas, Exit,
       RefsFollowMarkers, SourceCommit, PatchOf, NoMarker, LocationMeans,
       PendingMeans
  <2>5. (AttemptsLeft /\ PendingMeans /\ SourceMeans /\ ExactlyOnce)'
    BY <1>10, ConstantsTyped DEF IInv, TypeOK, ApplyCas, Exit, AttemptsLeft,
       PendingMeans, Appended, PatchOf, NoMarker, SourceMeans, SourceCommit,
       ExactlyOnce, InStatus
  <2> QED
    BY <2>1, <2>2, <2>3, <2>4, <2>5 DEF IInv
<1>11. CASE CompleteState
  <2>1. TypeOK'
    BY <1>11, ConstantsTyped DEF IInv, TypeOK, CompleteState, Marker,
       TaskStatus, Location, LocationMeans, PendingMeans, Appended,
       SourceMeans, NoMarker, PatchOf
  <2>2. AttemptsLeft'
    BY <1>11, ConstantsTyped DEF IInv, TypeOK, CompleteState, AttemptsLeft,
       LocationMeans, PendingMeans, Appended, SourceMeans, NoMarker, PatchOf
  <2>3. PendingMeans'
    BY <1>11, ConstantsTyped DEF IInv, TypeOK, CompleteState, PendingMeans,
       Appended, PatchOf, NoMarker, LocationMeans, SourceMeans
  <2>4. SourceMeans'
    BY <1>11, ConstantsTyped DEF IInv, TypeOK, CompleteState, SourceMeans,
       SourceCommit, PatchOf, NoMarker, LocationMeans, PendingMeans,
       Appended
  <2>5. LocationMeans'
    BY <1>11, ConstantsTyped DEF IInv, TypeOK, CompleteState, LocationMeans,
       Appended, PatchOf, NoMarker, PendingMeans, SourceMeans
  <2>6. ExactlyOnce'
    <3>1. /\ pending.task \in Task /\ head' = Append(head, PatchOf(pending.task))
          /\ task[pending.task] = "INTEGRATING"
          /\ attempt_no' = attempt_no
      BY <1>11 DEF IInv, TypeOK, CompleteState, LocationMeans, PendingMeans,
         Appended
    <3>2. /\ Len(head') = Len(head) + 1 /\ Len(head) \in Nat
          /\ \A i \in 1 .. Len(head) : head'[i] = head[i]
          /\ head'[Len(head) + 1] = PatchOf(pending.task)
          /\ head'[Len(head) + 1].task = pending.task
      BY <3>1, PatchTyped, CommitFacts DEF IInv, TypeOK, PatchOf
    <3>3. /\ InStatus("COMPLETED")' = InStatus("COMPLETED") \cup {pending.task}
          /\ pending.task \notin InStatus("COMPLETED")
      BY <1>11, <3>1 DEF IInv, TypeOK, CompleteState, InStatus
    <3>4. ASSUME NEW i \in 1 .. Len(head')
          PROVE  /\ head'[i].task \in InStatus("COMPLETED")'
                 /\ head'[i] = PatchOf(head'[i].task)
                 /\ \A j \in 1 .. Len(head') :
                      head'[i].task = head'[j].task => i = j
      <4>1. CASE i = Len(head) + 1
        <5>1. \A j \in 1 .. Len(head) : head'[j].task # pending.task
          BY <3>2, <3>3 DEF IInv, ExactlyOnce
        <5> QED
          BY <3>2, <3>3, <4>1, <5>1
      <4>2. CASE i \in 1 .. Len(head)
        <5>1. /\ head[i].task \in InStatus("COMPLETED")
              /\ head[i] = PatchOf(head[i].task)
              /\ \A j \in 1 .. Len(head) : head[i].task = head[j].task => i = j
          BY <4>2 DEF IInv, ExactlyOnce
        <5> QED
          BY <3>2, <3>3, <4>2, <5>1
      <4> QED
        BY <3>2, <4>1, <4>2
    <3>5. ASSUME NEW t \in InStatus("COMPLETED")'
          PROVE  \E i \in 1 .. Len(head') : head'[i].task = t
      <4>1. CASE t = pending.task
        BY <3>2, <4>1
      <4>2. CASE t \in InStatus("COMPLETED")
        BY <3>2, <4>2 DEF IInv, ExactlyOnce
      <4> QED
        BY <3>3, <4>1, <4>2
    <3> QED
      BY <3>1, <3>4, <3>5 DEF ExactlyOnce, PatchOf
  <2>7. (HeadWasHeld /\ runRef \in held)'
    BY <1>11, ConstantsTyped DEF IInv, TypeOK, CompleteState, HeadWasHeld,
       LocationMeans, PendingMeans, Appended, SourceMeans, NoMarker, PatchOf
  <2>8. RefsFollowMarkers'
    BY <1>11, ConstantsTyped DEF IInv, TypeOK, CompleteState,
       RefsFollowMarkers, SourceCommit, PatchOf, NoMarker, LocationMeans,
       PendingMeans, Appended, SourceMeans
  <2> QED
    BY <2>1, <2>2, <2>3, <2>4, <2>5, <2>6, <2>7, <2>8 DEF IInv
<1>12. CASE AllCompleted
  BY <1>12, ConstantsTyped DEF IInv, TypeOK, AllCompleted, Marker,
     TaskStatus, Location, AttemptsLeft, PendingMeans, Appended, PatchOf,
     NoMarker, SourceMeans, SourceCommit, LocationMeans, ExactlyOnce,
     InStatus, HeadWasHeld, RefsFollowMarkers
<1>13. CASE ReconcileSource
  <2>1. TypeOK'
    BY <1>13, ConstantsTyped DEF IInv, TypeOK, ReconcileSource, Reconciling,
       After, PauseForMovedRef, Exit, Marker, TaskStatus, Location
  <2>2. LocationMeans'
    BY <1>13, ConstantsTyped DEF IInv, TypeOK, ReconcileSource, Reconciling,
       After, PauseForMovedRef, Exit, LocationMeans, Appended, PatchOf,
       NoMarker, SourceMeans, RefsFollowMarkers
  <2>3. RefsFollowMarkers'
    BY <1>13, ConstantsTyped DEF IInv, TypeOK, ReconcileSource, Reconciling,
       After, PauseForMovedRef, Exit, RefsFollowMarkers, SourceCommit,
       PatchOf, NoMarker, SourceMeans, LocationMeans
  <2>4. (AttemptsLeft /\ PendingMeans /\ SourceMeans /\ ExactlyOnce /\
         HeadWasHeld /\ runRef \in held)'
    BY <1>13, ConstantsTyped DEF IInv, TypeOK, ReconcileSource, Reconciling,
       After, PauseForMovedRef, Exit, AttemptsLeft, PendingMeans, Appended,
       PatchOf, NoMarker, SourceMeans, SourceCommit, ExactlyOnce, InStatus,
       HeadWasHeld
  <2> QED
    BY <2>1, <2>2, <2>3, <2>4 DEF IInv
<1>14. CASE RecoverIntegration
  <2>1. TypeOK'
    BY <1>14, ConstantsTyped DEF IInv, TypeOK, RecoverIntegration,
       Reconciling, After, PauseForMovedRef, Exit, Marker, TaskStatus,
       Location
  <2>2. LocationMeans'
    BY <1>14, ConstantsTyped DEF IInv, TypeOK, RecoverIntegration,
       Reconciling, After, PauseForMovedRef, Exit, LocationMeans, Appended,
       PatchOf, NoMarker, PendingMeans, RefsFollowMarkers, HeadWasHeld
  <2>3. RefsFollowMarkers'
    BY <1>14, ConstantsTyped DEF IInv, TypeOK, RecoverIntegration,
       Reconciling, After, PauseForMovedRef, Exit, RefsFollowMarkers,
       SourceCommit, PatchOf, NoMarker
  <2>4. (AttemptsLeft /\ PendingMeans /\ SourceMeans /\ ExactlyOnce /\
         HeadWasHeld /\ runRef \in held)'
    BY <1>14, ConstantsTyped DEF IInv, TypeOK, RecoverIntegration,
       Reconciling, After, PauseForMovedRef, Exit, AttemptsLeft,
       PendingMeans, Appended, PatchOf, NoMarker, SourceMeans, SourceCommit,
       ExactlyOnce, InStatus, HeadWasHeld
  <2> QED
    BY <2>1, <2>2, <2>3, <2>4 DEF IInv
<1>15. CASE NothingToRecover
  <2>1. TypeOK'
    BY <1>15, ConstantsTyped DEF IInv, TypeOK, NothingToRecover, Marker,
       TaskStatus, Location
  <2>2. LocationMeans'
    BY <1>15, ConstantsTyped DEF IInv, TypeOK, NothingToRecover,
       LocationMeans, Appended, PatchOf, NoMarker
  <2>3. (AttemptsLeft /\ PendingMeans /\ SourceMeans /\ ExactlyOnce /\
         HeadWasHeld /\ runRef \in held /\ RefsFollowMarkers)'
    BY <1>15, ConstantsTyped DEF IInv, TypeOK, NothingToRecover,
       AttemptsLeft, PendingMeans, Appended, PatchOf, NoMarker, SourceMeans,
       SourceCommit, ExactlyOnce, InStatus, HeadWasHeld, RefsFollowMarkers
  <2> QED
    BY <2>1, <2>2, <2>3 DEF IInv
<1>16. CASE PauseAfterExit
  <2>1. TypeOK'
    BY <1>16, ConstantsTyped DEF IInv, TypeOK, PauseAfterExit, Marker,
       TaskStatus, Location
  <2>2. LocationMeans'
    BY <1>16, ConstantsTyped DEF IInv, TypeOK, PauseAfterExit,
       LocationMeans, Appended, PatchOf, NoMarker
  <2>3. (AttemptsLeft /\ PendingMeans /\ SourceMeans /\ ExactlyOnce /\
         HeadWasHeld /\ runRef \in held /\ RefsFollowMarkers)'
    BY <1>16, ConstantsTyped DEF IInv, TypeOK, PauseAfterExit, AttemptsLeft,
       PendingMeans, Appended, PatchOf, NoMarker, SourceMeans, SourceCommit,
       ExactlyOnce, InStatus, HeadWasHeld, RefsFollowMarkers
  <2> QED
    BY <2>1, <2>2, <2>3 DEF IInv
<1>17. CASE Restore
  <2>1. TypeOK'
    BY <1>17, ConstantsTyped DEF IInv, TypeOK, Restore, Marker, TaskStatus,
       Location
  <2>2. LocationMeans'
    BY <1>17, ConstantsTyped DEF IInv, TypeOK, Restore, LocationMeans,
       Appended, PatchOf, NoMarker
  <2>3. (AttemptsLeft /\ PendingMeans /\ SourceMeans /\ ExactlyOnce /\
         HeadWasHeld /\ runRef \in held /\ RefsFollowMarkers)'
    BY <1>17, ConstantsTyped DEF IInv, TypeOK, Restore, AttemptsLeft,
       PendingMeans, Appended, PatchOf, NoMarker, SourceMeans, SourceCommit,
       ExactlyOnce, InStatus, HeadWasHeld, RefsFollowMarkers
  <2> QED
    BY <2>1, <2>2, <2>3 DEF IInv
<1>18. CASE Resume
  <2>1. TypeOK'
    BY <1>18, ConstantsTyped DEF IInv, TypeOK, Resume, Marker, TaskStatus,
       Location
  <2>2. LocationMeans'
    BY <1>18, ConstantsTyped DEF IInv, TypeOK, Resume, LocationMeans,
       Appended, PatchOf, NoMarker
  <2>3. (AttemptsLeft /\ PendingMeans /\ SourceMeans /\ ExactlyOnce /\
         HeadWasHeld /\ runRef \in held /\ RefsFollowMarkers)'
    BY <1>18, ConstantsTyped DEF IInv, TypeOK, Resume, AttemptsLeft,
       PendingMeans, Appended, PatchOf, NoMarker, SourceMeans, SourceCommit,
       ExactlyOnce, InStatus, HeadWasHeld, RefsFollowMarkers
  <2> QED
    BY <2>1, <2>2, <2>3 DEF IInv
<1>19. CASE Crash
  <2>1. TypeOK'
    BY <1>19, ConstantsTyped, BoundAssumption DEF IInv, TypeOK, Crash, Exit,
       Marker, TaskStatus, Location
  <2>2. LocationMeans'
    BY <1>19, ConstantsTyped DEF IInv, TypeOK, Crash, Exit, LocationMeans,
       Appended, PatchOf, NoMarker
  <2>3. (AttemptsLeft /\ PendingMeans /\ SourceMeans /\ ExactlyOnce /\
         HeadWasHeld /\ runRef \in held /\ RefsFollowMarkers)'
    BY <1>19, ConstantsTyped DEF IInv, TypeOK, Crash, Exit, AttemptsLeft,
       PendingMeans, Appended, PatchOf, NoMarker, SourceMeans, SourceCommit,
       ExactlyOnce, InStatus, HeadWasHeld, RefsFollowMarkers
  <2> QED
    BY <2>1, <2>2, <2>3 DEF IInv
<1>20. CASE MoveRunRef
  <2>1. runRef' \in Commit
    BY <1>20, ConstantsTyped, CommitFacts, PrefixIsCommit DEF IInv, TypeOK,
       MoveRunRef
  <2>2. TypeOK'
    BY <1>20, <2>1, ConstantsTyped, BoundAssumption DEF IInv, TypeOK,
       MoveRunRef, Marker, TaskStatus, Location
  <2>3. LocationMeans'
    BY <1>20, <2>1, ConstantsTyped, BoundAssumption DEF IInv, TypeOK,
       MoveRunRef, LocationMeans, Appended, PatchOf, NoMarker
  <2>4. (HeadWasHeld /\ runRef \in held)'
    BY <1>20, <2>1, ConstantsTyped DEF IInv, TypeOK, MoveRunRef, HeadWasHeld
  <2>5. RefsFollowMarkers'
    BY <1>20, <2>1, ConstantsTyped, BoundAssumption DEF IInv, TypeOK,
       MoveRunRef, RefsFollowMarkers, SourceCommit, PatchOf, NoMarker
  <2>6. (AttemptsLeft /\ PendingMeans /\ SourceMeans /\ ExactlyOnce)'
    BY <1>20, <2>1, ConstantsTyped DEF IInv, TypeOK, MoveRunRef,
       AttemptsLeft, PendingMeans, Appended, PatchOf, NoMarker, SourceMeans,
       SourceCommit, ExactlyOnce, InStatus
  <2> QED
    BY <2>2, <2>3, <2>4, <2>5, <2>6 DEF IInv
<1>21. ASSUME NEW t \in Task, MoveTaskRef(t) PROVE IInv'
  <2>1. Append(taskRef[t], ForeignPatch) \in Commit
    BY ConstantsTyped, CommitFacts DEF IInv, TypeOK
  <2>2. TypeOK'
    BY <1>21, <2>1, ConstantsTyped, BoundAssumption DEF IInv, TypeOK,
       MoveTaskRef, Marker, TaskStatus, Location
  <2>3. LocationMeans'
    BY <1>21, <2>1, ConstantsTyped, BoundAssumption DEF IInv, TypeOK,
       MoveTaskRef, LocationMeans, Appended, PatchOf, NoMarker
  <2>4. RefsFollowMarkers'
    BY <1>21, <2>1, ConstantsTyped, BoundAssumption DEF IInv, TypeOK,
       MoveTaskRef, RefsFollowMarkers, SourceCommit, PatchOf, NoMarker
  <2>5. (AttemptsLeft /\ PendingMeans /\ SourceMeans /\ ExactlyOnce /\
         HeadWasHeld /\ runRef \in held)'
    BY <1>21, <2>1, ConstantsTyped DEF IInv, TypeOK, MoveTaskRef,
       AttemptsLeft, PendingMeans, Appended, PatchOf, NoMarker, SourceMeans,
       SourceCommit, ExactlyOnce, InStatus, HeadWasHeld
  <2> QED
    BY <2>2, <2>3, <2>4, <2>5 DEF IInv
<1>22. CASE UNCHANGED vars
  <2>1. ExactlyOnce'
    BY <1>22, OnceFrame DEF IInv, vars
  <2>2. TypeOK'
    BY <1>22 DEF IInv, TypeOK, vars
  <2>3. (AttemptsLeft /\ PendingMeans /\ SourceMeans /\ LocationMeans)'
    BY <1>22 DEF IInv, AttemptsLeft, PendingMeans, SourceMeans, LocationMeans,
       Appended, PatchOf, SourceCommit, vars
  <2>4. (HeadWasHeld /\ runRef \in held /\ RefsFollowMarkers)'
    BY <1>22 DEF IInv, HeadWasHeld, RefsFollowMarkers, PatchOf, SourceCommit, vars
  <2> QED
    BY <2>1, <2>2, <2>3, <2>4 DEF IInv
<1>23. QED
  BY <1>1, <1>2, <1>3, <1>4, <1>5, <1>6, <1>7, <1>8, <1>9, <1>10, <1>11,
     <1>12, <1>13, <1>14, <1>15, <1>16, <1>17, <1>18, <1>19, <1>20, <1>21,
     <1>22 DEF Next, TickStep, Transaction, Recovery, Environment

\* The inductive invariant holds in every reachable state.
THEOREM Invariance == Spec => []IInv
BY Start, Step, PTL DEF Spec

\* Every variable of state.json, of Git and of the Controller process keeps its
\* type; in particular failure_count never passes max_attempts, and a paused run
\* always has a status to return to.
THEOREM TypeCorrect == Spec => []TypeOK
<1>1. IInv => TypeOK
  BY DEF IInv
<1> QED
  BY <1>1, Invariance, PTL

\* integration_head contains exactly one patch of every COMPLETED task and nothing
\* else, for any number of tasks, retries, crashes and foreign ref movements.
THEOREM IntegratedExactlyOnce == Spec => []ExactlyOnce
<1>1. IInv => ExactlyOnce
  BY DEF IInv
<1> QED
  BY <1>1, Invariance, PTL

\* _complete_state never records a head that the run ref did not point to.
THEOREM RecordedHeadWasPublished == Spec => []HeadWasHeld
<1>1. IInv => HeadWasHeld
  BY DEF IInv
<1> QED
  BY <1>1, Invariance, PTL

\* Until somebody else moves a ref, the prepared markers and the Git refs decide
\* how an interrupted transaction is continued.
THEOREM MarkersDecideRecovery == Spec => []RefsFollowMarkers
<1>1. IInv => RefsFollowMarkers
  BY DEF IInv
<1> QED
  BY <1>1, Invariance, PTL

\* The only step of the Controller that changes the run ref is apply_cas, and it
\* advances the recorded head by the one verified patch of the marker.
THEOREM RunRefNeverForced == Spec => NoForcedUpdate
<1> DEFINE A == runRef' # runRef /\ moves' = moves =>
                  /\ runRef = head
                  /\ pending # NoMarker /\ runRef' = pending.candidate
                  /\ runRef' \in verified
                  /\ runRef' = Append(head, PatchOf(pending.task))
<1>1. IInv /\ [Next]_vars => [A]_vars
  <2> SUFFICES ASSUME IInv, Next, runRef' # runRef, moves' = moves
               PROVE  /\ runRef = head
                      /\ pending # NoMarker /\ runRef' = pending.candidate
                      /\ runRef' \in verified
                      /\ runRef' = Append(head, PatchOf(pending.task))
    OBVIOUS
  <2>1. ApplyCas /\ runRef = pending.expected /\ runRef' = pending.candidate
    <3> USE DEF durable, git, process, bounds
    <3>1. moves \in Nat
      BY BoundAssumption DEF IInv, TypeOK
    <3>2. ~ MoveRunRef
      BY <3>1 DEF MoveRunRef
    <3>3. ApplyCas
      BY <3>2 DEF Next, TickStep, Transaction, Recovery, Environment,
         StartAttempt, FreezeFailedWorker, AcceptResult, PrepareSource, Auditable,
         RejectCandidate, PrepareCandidate, SourceIntact, ApplySourceCas,
         CompleteSourceMarker, PersistPending, CompleteState, AllCompleted,
         ReconcileSource, RecoverIntegration, NothingToRecover,
         PauseAfterExit, Restore, Resume, Crash, MoveTaskRef
    <3> QED
      BY <3>3 DEF ApplyCas
  <2>2. pending # NoMarker /\ Appended(pending)
    BY <2>1 DEF IInv, ApplyCas, LocationMeans, PendingMeans
  <2> QED
    BY <2>1, <2>2 DEF Appended
<1> QED
  BY <1>1, Invariance, PTL DEF Spec, NoForcedUpdate

-----------------------------------------------------------------------------
(***************************************************************************)
(* The refinement: PersistPending announces, ApplyCas publishes and        *)
(* CompleteState records; MoveRunRef moves the ref; everything else        *)
(* stutters.                                                               *)
(***************************************************************************)

\* A marker whose candidate appends the patch of a task that is not COMPLETED
\* announces one fresh entry of the log.
LEMMA FreshEntry ==
    ASSUME IInv, NEW m, Appended(m), task[m.task] # "COMPLETED"
    PROVE  /\ WriteAheadLog!ExtendsByFreshTask(m.candidate, head)
           /\ m.candidate # head
<1>1. /\ Len(m.candidate) = Len(head) + 1 /\ Len(head) \in Nat
      /\ \A i \in 1 .. Len(head) : m.candidate[i] = head[i]
      /\ m.candidate[Len(head) + 1].task = m.task
      /\ m.task \in Task
  BY PatchTyped, CommitFacts DEF IInv, TypeOK, Appended, PatchOf
<1>2. \A i \in 1 .. Len(head) : head[i].task # m.task
  BY DEF IInv, ExactlyOnce, InStatus
<1>3. m.candidate # head
  BY <1>1
<1> QED
  BY <1>1, <1>2, <1>3 DEF WriteAheadLog!ExtendsByFreshTask

\* Every step of the pipeline is a step of the write-ahead log or a stutter.
LEMMA StepRefines ==
    ASSUME IInv, IInv', [Next]_vars
    PROVE  [WriteAheadLog!Next]_<<head, IF pending = NoMarker THEN head
                                        ELSE pending.candidate, runRef, held>>
<1> DEFINE intent == IF pending = NoMarker THEN head ELSE pending.candidate
<1> USE TaskAssumption DEF durable, git, process, bounds
<1>1. CASE PersistPending
  <2>1. /\ pending = NoMarker /\ Appended(candidate)
        /\ task[candidate.task] # "COMPLETED" /\ candidate # NoMarker
    BY <1>1 DEF IInv, PersistPending, LocationMeans, Unmarked, Appended, NoMarker
  <2>2. WriteAheadLog!ExtendsByFreshTask(candidate.candidate, head)
    BY <2>1, FreshEntry
  <2>3. /\ intent = head /\ intent' = candidate.candidate
        /\ UNCHANGED <<head, runRef, held>>
    BY <1>1, <2>1 DEF PersistPending
  <2>4. WriteAheadLog!Announce
    BY <2>2, <2>3 DEF WriteAheadLog!Announce
  <2> QED
    BY <2>4 DEF WriteAheadLog!Next
<1>2. CASE ApplyCas
  <2>1. pending # NoMarker /\ Appended(pending)
        /\ task[pending.task] # "COMPLETED"
    BY <1>2 DEF IInv, ApplyCas, LocationMeans, PendingMeans, Appended
  <2>2. pending.candidate # head
    BY <2>1, FreshEntry
  <2>3. CASE runRef = pending.expected
    <3>1. WriteAheadLog!Publish
      BY <1>2, <2>1, <2>2, <2>3 DEF ApplyCas, WriteAheadLog!Publish, Appended,
         IInv, TypeOK, Location
    <3> QED
      BY <3>1 DEF WriteAheadLog!Next
  <2>4. CASE runRef # pending.expected
    BY <1>2, <2>4 DEF ApplyCas
  <2> QED
    BY <2>3, <2>4
<1>3. CASE CompleteState
  <2>1. /\ pending # NoMarker /\ Appended(pending)
        /\ task[pending.task] # "COMPLETED" /\ pending.candidate \in held
    BY <1>3 DEF IInv, CompleteState, LocationMeans, PendingMeans, Appended
  <2>2. pending.candidate # head
    BY <2>1, FreshEntry
  <2>3. WriteAheadLog!Record
    BY <1>3, <2>1, <2>2 DEF CompleteState, WriteAheadLog!Record
  <2> QED
    BY <2>3 DEF WriteAheadLog!Next
<1>4. CASE MoveRunRef
  <2>1. WriteAheadLog!MoveRef
    BY <1>4 DEF MoveRunRef, WriteAheadLog!MoveRef
  <2> QED
    BY <2>1 DEF WriteAheadLog!Next
<1>5. CASE UNCHANGED <<head, pending, runRef, held>>
  BY <1>5
<1>6. \/ PersistPending \/ ApplyCas \/ CompleteState \/ MoveRunRef
      \/ UNCHANGED <<head, pending, runRef, held>>
  BY DEF vars, Next, TickStep, Transaction, Recovery, Environment,
     StartAttempt, FreezeFailedWorker, AcceptResult, PrepareSource, Auditable,
     RejectCandidate, PrepareCandidate, SourceIntact, ApplySourceCas, CompleteSourceMarker,
     AllCompleted, ReconcileSource, RecoverIntegration, NothingToRecover,
     PauseAfterExit, Restore, Resume, Crash, MoveTaskRef
<1> QED
  BY <1>1, <1>2, <1>3, <1>4, <1>5, <1>6

\* The source-commit and integration transactions, with their crashes and
\* recoveries, implement the write-ahead log over the run ref.
THEOREM PipelineIsWriteAheadLog == Spec => ImplementsLog
<1>1. Init => WriteAheadLog!Init
  BY DEF Init, WriteAheadLog!Init, BaseCommit
<1>2. IInv /\ IInv' /\ [Next]_vars =>
        [WriteAheadLog!Next]_<<head, IF pending = NoMarker THEN head
                                     ELSE pending.candidate, runRef, held>>
  BY StepRefines
<1> QED
  BY <1>1, <1>2, Invariance, PTL DEF Spec, ImplementsLog, WriteAheadLog!Spec
=============================================================================
