-------------------------- MODULE StateStoreProofs --------------------------
(***************************************************************************)
(* StateStore for any number of processes, paths and contents: IInv is     *)
(* inductive, and every step is a step of StateRegister.                   *)
(***************************************************************************)
EXTENDS StateStore, TLAPS

\* Typing of the constants the records are made of.
LEMMA InitialTyped == InitialState \in State /\ NoArtifacts \in [Path -> Content]
  BY DEF InitialState, State, Content, NoArtifacts

\* The index that transact builds, entry by entry.
LEMMA BindFacts ==
    ASSUME NEW index \in [Path -> Content], NEW artifacts \in [Path -> Content]
    PROVE  /\ Bind(index, artifacts) \in [Path -> Content]
           /\ \A q \in Path : Bind(index, artifacts)[q] =
                IF artifacts[q] = None THEN index[q] ELSE artifacts[q]
  BY DEF Bind, Content

\* Every artifact has its directory.
LEMMA PathsInDirectories == \A q \in Path : DirectoryOf(q) \in Directory
  BY DEF Path, DirectoryOf

\* While a process is active every other one is idle: controller.lock.
LEMMA OthersIdle ==
    ASSUME LockMeans, NEW p \in Process, pc[p] # "idle"
    PROVE  \A r \in Process : r # p => pc[r] = "idle"
  BY DEF LockMeans

\* Forgetting the processes P empties their local state and leaves the others'.
LEMMA ForgetFacts ==
    ASSUME TypeOK, NEW P \in SUBSET Process, Forget(P)
    PROVE  /\ lock' = None
           /\ pc' \in [Process -> Location] /\ known' \in [Process -> Nat]
           /\ want' \in [Process -> [Path -> Content]]
           /\ todo' \in [Process -> SUBSET Path]
           /\ item' \in [Process -> Path \cup {None}]
           /\ next' \in [Process -> State]
           /\ \A p \in P : pc'[p] = "idle"
           /\ \A p \in Process \ P : pc'[p] = pc[p]
  BY InitialTyped DEF TypeOK, Forget, Location

\* When the lock's holder is forgotten, nobody is active any more.
LEMMA ForgetQuiets ==
    ASSUME TypeOK, NEW P \in SUBSET Process, Forget(P),
           \A r \in Process \ P : pc[r] = "idle"
    PROVE  LockMeans' /\ TransactionMeans'
  <1>1. \A r \in Process : pc'[r] = "idle"
    BY ForgetFacts
  <1>2. LockMeans'
    BY <1>1 DEF LockMeans
  <1>3. TransactionMeans'
    BY <1>1 DEF TransactionMeans, Transaction, Working
  <1> QED
    BY <1>2, <1>3

\* What the inductive invariant says of the run directory, its readers and the
\* acknowledged revision.
RunDirectory ==
    /\ state \in durable /\ \A s \in durable : s.revision <= state.revision
    /\ BoundArtifactsExist /\ SnapshotIsWhole /\ AcknowledgedSurvives

\* A step that writes nothing keeps it.
LEMMA RunDirectoryKept ==
    ASSUME RunDirectory, UNCHANGED <<store, view, acked>>, torn \subseteq torn'
    PROVE  RunDirectory'
  BY DEF RunDirectory, store, BoundArtifactsExist, SnapshotIsWhole,
         AcknowledgedSurvives, Bound, Durable, Intact

LEMMA IInvParts ==
    IInv <=> TypeOK /\ LockMeans /\ TransactionMeans /\ DirectoriesMean /\ RunDirectory
  BY DEF IInv, RunDirectory

\* A step that makes no directory, and is none of a process that is making one, leaves
\* no new one without a durable entry.
LEMMA DirectoriesKept ==
    ASSUME DirectoriesMean, UNCHANGED dir, torn \subseteq torn',
           \A r \in Process : pc[r] = "sync_parent" => DirectoryOf(item[r]) \in torn'
    PROVE  DirectoriesMean'
  BY DEF DirectoriesMean

LEMMA Start == Init => IInv
  <1> SUFFICES ASSUME Init PROVE IInv
    OBVIOUS
  <1>1. TypeOK
    BY InitialTyped, BoundsAssumption DEF Init, TypeOK, Location, State, Content
  <1>2. \A q \in Path : InitialState.index[q] = None
    BY DEF InitialState, NoArtifacts
  <1>3. InitialState.revision = 0
    BY DEF InitialState
  <1>4. BoundArtifactsExist /\ SnapshotIsWhole /\ DirectoriesMean
    BY <1>2 DEF Init, BoundArtifactsExist, SnapshotIsWhole, Bound, Durable, Intact,
                DirectoriesMean
  <1>5. AcknowledgedSurvives /\ state \in durable
        /\ \A s \in durable : s.revision <= state.revision
    BY <1>3 DEF Init, AcknowledgedSurvives
  <1>6. LockMeans /\ TransactionMeans
    BY DEF Init, LockMeans, TransactionMeans, Transaction, Working
  <1> QED
    BY <1>1, <1>4, <1>5, <1>6 DEF IInv

\* A process that leaves the lock, in any way, takes its transaction with it, and
\* leaves a directory it has not synced the parent of behind as torn.
LEMMA ReleasePreserves ==
    ASSUME IInv, NEW p \in Process, pc[p] # "idle", Forget({p}),
           UNCHANGED <<store, view, acked>>, faults' \in 0 .. MaxFaults,
           torn \subseteq torn', torn' \subseteq Directory,
           pc[p] = "sync_parent" => DirectoryOf(item[p]) \in torn'
    PROVE  IInv'
  <1> USE IInvParts
  <1>1. {p} \in SUBSET Process /\ \A r \in Process \ {p} : pc[r] = "idle"
    BY OthersIdle
  <1>2. TypeOK'
    BY <1>1, ForgetFacts DEF TypeOK, store
  <1>3. LockMeans' /\ TransactionMeans'
    BY <1>1, ForgetQuiets
  <1>4. DirectoriesMean'
    BY <1>1, DirectoriesKept DEF store
  <1>5. RunDirectory'
    BY RunDirectoryKept
  <1> QED
    BY <1>2, <1>3, <1>4, <1>5 DEF IInv, RunDirectory

LEMMA AcquirePreserves ==
    ASSUME IInv, NEW p \in Process, Acquire(p)
    PROVE  IInv'
  <1> USE DEF Acquire
  <1>0. TypeOK /\ LockMeans /\ DirectoriesMean /\ RunDirectory
    BY IInvParts
  <1>1. \A r \in Process : pc[r] = "idle"
    BY <1>0, NoneAssumption DEF LockMeans
  <1>2. TypeOK'
    BY <1>0 DEF TypeOK, Location, State, store
  <1>3. LockMeans'
    BY <1>0, <1>1 DEF LockMeans, TypeOK
  <1>4. TransactionMeans'
    <2> SUFFICES ASSUME NEW r \in Process PROVE Transaction(r)'
      BY DEF TransactionMeans
    <2>1. pc'[r] \in {"idle", "held"} /\ (pc'[r] = "held" => r = p)
      BY <1>0, <1>1 DEF TypeOK
    <2>2. known'[p] = state'.revision
      BY <1>0 DEF TypeOK, store
    <2> QED
      BY <2>1, <2>2 DEF Transaction, Working
  <1>5. DirectoriesMean'
    BY <1>0, <1>1, DirectoriesKept DEF store
  <1>6. RunDirectory'
    BY <1>0, RunDirectoryKept
  <1> QED
    BY <1>2, <1>3, <1>4, <1>5, <1>6 DEF IInv, RunDirectory

LEMMA BeginPreserves ==
    ASSUME IInv, NEW p \in Process, NEW artifacts \in Artifacts, Begin(p, artifacts)
    PROVE  IInv'
  <1> USE DEF Begin, Artifacts
  <1>0. TypeOK /\ LockMeans /\ TransactionMeans /\ DirectoriesMean
        /\ RunDirectory
    BY IInvParts
  <1>1. \A r \in Process : r # p => pc[r] = "idle"
    BY <1>0, OthersIdle
  <1>2. /\ state.revision \in Nat /\ state.index \in [Path -> Content]
        /\ known[p] \in Nat /\ known[p] = state.revision
    BY <1>0 DEF TypeOK, State
  <1> DEFINE new == [revision |-> known[p] + 1, index |-> Bind(state.index, artifacts)]
  <1>3. new \in State
    BY <1>2, BindFacts DEF State
  <1>4. TypeOK'
    <2>1. next' \in [Process -> State]
      BY <1>0, <1>3 DEF TypeOK
    <2>2. want' \in [Process -> [Path -> Content]]
      BY <1>0 DEF TypeOK
    <2>3. todo' \in [Process -> SUBSET Path]
      BY <1>0 DEF TypeOK
    <2>4. pc' \in [Process -> Location]
      BY <1>0 DEF TypeOK, Location
    <2> QED
      BY <1>0, <2>1, <2>2, <2>3, <2>4 DEF TypeOK, store
  <1>5. LockMeans'
    BY <1>0, <1>1 DEF LockMeans, TypeOK
  <1>6. TransactionMeans'
    <2> SUFFICES ASSUME NEW r \in Process PROVE Transaction(r)'
      BY DEF TransactionMeans
    <2>1. CASE r # p
      <3>1. pc'[r] = "idle"
        BY <1>0, <1>1, <2>1 DEF TypeOK
      <3> QED
        BY <3>1 DEF Transaction, Working
    <2>2. CASE r = p
      <3>1. /\ next'[p] = new /\ want'[p] = artifacts
            /\ todo'[p] = {q \in Path : artifacts[q] # None}
            /\ pc'[p] = IF todo'[p] = {} THEN "replace" ELSE "publish"
        BY <1>0 DEF TypeOK
      <3>2. UNCHANGED <<state, file, fragile>>
        BY DEF store
      <3>3. new.revision = state.revision + 1 /\ new.index = Bind(state.index, artifacts)
        BY <1>2
      <3>4. \A q \in Path : new.index[q] =
              IF artifacts[q] = None THEN state.index[q] ELSE artifacts[q]
        BY <1>2, <3>3, BindFacts
      <3>5. \A q \in Path : state.index[q] # None => new.index[q] = state.index[q]
        BY <3>4 DEF IndexConflict
      <3>6. Register!Successor(state', next'[p])
        BY <3>1, <3>2, <3>3, <3>5 DEF Register!Successor
      <3> HIDE DEF new
      <3> QED
        BY <2>2, <3>1, <3>2, <3>4, <3>6 DEF Transaction, Working
    <2> QED
      BY <2>1, <2>2
  <1>7. DirectoriesMean'
    BY <1>0, <1>1, DirectoriesKept DEF store
  <1>8. RunDirectory'
    BY <1>0, RunDirectoryKept
  <1> QED
    BY <1>4, <1>5, <1>6, <1>7, <1>8 DEF IInv, RunDirectory

\* What the steps on directories preserve of a transaction in progress: durable
\* directories stay durable.
LEMMA MakingDirectories ==
    ASSUME IInv, NEW p \in Process, pc[p] \in Working,
           UNCHANGED <<state, durable, file, fragile, want, todo, next, view, acked, torn>>,
           \A d \in Directory : dir[d] = "durable" => dir'[d] = "durable",
           pc' = [pc EXCEPT ![p] = pc'[p]], pc'[p] \in {"sync_parent", "link"},
           item'[p] \in todo[p]
    PROVE  TransactionMeans' /\ RunDirectory'
  <1>0. TypeOK /\ LockMeans /\ TransactionMeans /\ RunDirectory
    BY IInvParts
  <1>1. \A r \in Process : r # p => pc'[r] = "idle"
    BY <1>0, OthersIdle DEF Working, TypeOK
  <1>2. \A q \in Path : Settled(q) => Settled(q)'
    BY PathsInDirectories DEF Settled, Intact
  <1>3. Transaction(p)'
    <2>1. Transaction(p)
      BY <1>0 DEF TransactionMeans
    <2>2. \A q \in Path \ todo[p] :
            want[p][q] # None => file[q] = want[p][q] /\ q \notin fragile /\ Settled(q)
      BY <2>1 DEF Transaction
    <2> QED
      BY <1>2, <2>1, <2>2 DEF Transaction, Working, Register!Successor
  <1>4. TransactionMeans'
    BY <1>1, <1>3 DEF TransactionMeans, Transaction, Working
  <1>5. \A s : (Bound(s) => Bound(s)') /\ (Durable(s) => Durable(s)')
    BY PathsInDirectories DEF Bound, Durable, Intact
  <1>6. RunDirectory'
    BY <1>0, <1>5
       DEF RunDirectory, BoundArtifactsExist, SnapshotIsWhole, AcknowledgedSurvives
  <1> QED
    BY <1>4, <1>6

LEMMA MakeDirectoryPreserves ==
    ASSUME IInv, NEW p \in Process, NEW q \in Path, MakeDirectory(p, q)
    PROVE  IInv'
  <1> USE DEF MakeDirectory
  <1>0. TypeOK /\ LockMeans /\ DirectoriesMean /\ DirectoryOf(q) \in Directory
    BY IInvParts, PathsInDirectories
  <1>1. \A r \in Process : r # p => pc[r] = "idle"
    BY <1>0, OthersIdle
  <1>2. /\ dir'[DirectoryOf(q)] = "made"
        /\ \A d \in Directory : d # DirectoryOf(q) => dir'[d] = dir[d]
        /\ pc'[p] = "sync_parent" /\ item'[p] = q
    BY <1>0 DEF TypeOK
  <1>3. TypeOK'
    BY <1>0 DEF TypeOK, Location
  <1>4. LockMeans'
    BY <1>0, <1>1 DEF LockMeans, TypeOK
  <1>5. TransactionMeans' /\ RunDirectory'
    BY <1>2, MakingDirectories DEF Working
  <1>6. DirectoriesMean'
    BY <1>0, <1>1, <1>2 DEF DirectoriesMean
  <1> QED
    BY <1>3, <1>4, <1>5, <1>6 DEF IInv, RunDirectory

LEMMA SyncParentPreserves ==
    ASSUME IInv, NEW p \in Process, SyncParent(p)
    PROVE  IInv'
  <1> USE DEF SyncParent
  <1>0. TypeOK /\ LockMeans /\ TransactionMeans
    BY IInvParts
  <1>1. \A r \in Process : r # p => pc[r] = "idle"
    BY <1>0, OthersIdle
  <1>2. /\ \A d \in Directory : dir'[d] # "made"
        /\ \A d \in Directory : dir[d] = "durable" => dir'[d] = "durable"
        /\ pc'[p] = "link" /\ item'[p] \in todo[p]
    BY <1>0 DEF TypeOK, TransactionMeans, Transaction
  <1>3. TypeOK'
    BY <1>0 DEF TypeOK, Location
  <1>4. LockMeans'
    BY <1>0, <1>1 DEF LockMeans, TypeOK
  <1>5. TransactionMeans' /\ RunDirectory'
    BY <1>2, MakingDirectories DEF Working
  <1>6. DirectoriesMean'
    BY <1>2 DEF DirectoriesMean
  <1> QED
    BY <1>3, <1>4, <1>5, <1>6 DEF IInv, RunDirectory

LEMMA PublishPreserves ==
    ASSUME IInv, NEW p \in Process, NEW q \in Path, PublishArtifact(p, q)
    PROVE  IInv'
  <1> USE DEF PublishArtifact, Opened
  <1>0. TypeOK /\ LockMeans /\ TransactionMeans /\ DirectoriesMean /\ RunDirectory
    BY IInvParts
  <1>1. pc[p] \in {"publish", "link"} /\ \A r \in Process : r # p => pc[r] = "idle"
    BY <1>0, OthersIdle
  <1>2. Transaction(p) /\ q \in todo[p]
    BY <1>0 DEF TransactionMeans
  <1>3. /\ file' \in [Path -> Content] /\ file'[q] = want[p][q]
        /\ \A x \in Path : x # q => file'[x] = file[x]
        /\ fragile' \in SUBSET Path
        /\ \A x \in Path : x # q => (x \in fragile' <=> x \in fragile)
        /\ file[q] # None => file' = file /\ fragile' = fragile
    BY <1>0 DEF TypeOK
  <1>4. TypeOK'
    BY <1>0, <1>3 DEF TypeOK, Location
  <1>5. LockMeans'
    BY <1>0, <1>1 DEF LockMeans, TypeOK
  <1>6. Settled(q)
    <2>1. DirectoryOf(q) \in Directory /\ dir[DirectoryOf(q)] \in {"made", "durable"}
      BY <1>0, PathsInDirectories DEF TypeOK
    <2> QED
      BY <1>0, <1>1, <2>1 DEF DirectoriesMean, Settled, Intact
  <1>7. TransactionMeans'
    <2> SUFFICES ASSUME NEW r \in Process PROVE Transaction(r)'
      BY DEF TransactionMeans
    <2>1. CASE r # p
      <3>1. pc'[r] = "idle"
        BY <1>0, <1>1, <2>1 DEF TypeOK
      <3> QED
        BY <3>1 DEF Transaction, Working
    <2>2. CASE r = p
      <3>1. pc'[p] = "sync" /\ item'[p] = q
        BY <1>0 DEF TypeOK
      <3>2. \A x \in Path \ todo[p] : x # q
        BY <1>2
      <3>3. \A x \in Path : Settled(x)' <=> Settled(x)
        BY DEF Settled, Intact
      <3>4. \A x \in Path \ todo[p] :
              want[p][x] # None => file'[x] = want[p][x] /\ x \notin fragile' /\ Settled(x)'
        BY <1>1, <1>2, <1>3, <3>2, <3>3 DEF Transaction, Working
      <3> QED
        BY <1>1, <1>2, <1>3, <1>6, <2>2, <3>1, <3>3, <3>4
           DEF Transaction, Working, Register!Successor
    <2> QED
      BY <2>1, <2>2
  <1>8. DirectoriesMean'
    BY <1>0, <1>1, DirectoriesKept
  <1>9. \A s : Bound(s) => Bound(s)'
    <2> SUFFICES ASSUME NEW s, Bound(s), NEW x \in Intact, s.index[x] # None
                 PROVE  file'[x] = s.index[x]
      BY DEF Bound, Intact
    <2>1. file[x] = s.index[x] /\ x \in Path
      BY DEF Bound, Intact
    <2> QED
      BY <1>3, <2>1
  <1>10. \A s : Bound(s) /\ Durable(s) => Durable(s)'
    <2> SUFFICES ASSUME NEW s, Bound(s), Durable(s), NEW x \in Intact, s.index[x] # None
                 PROVE  x \notin fragile' /\ dir'[DirectoryOf(x)] = "durable"
      BY DEF Durable, Intact
    <2>1. /\ file[x] = s.index[x] /\ x \notin fragile /\ x \in Path
          /\ dir[DirectoryOf(x)] = "durable"
      BY DEF Bound, Durable, Intact
    <2> QED
      BY <1>3, <2>1
  <1>11. RunDirectory'
    BY <1>0, <1>9, <1>10
       DEF RunDirectory, BoundArtifactsExist, SnapshotIsWhole, AcknowledgedSurvives
  <1> QED
    BY <1>4, <1>5, <1>7, <1>8, <1>11 DEF IInv, RunDirectory

LEMMA SyncArtifactPreserves ==
    ASSUME IInv, NEW p \in Process, SyncArtifact(p)
    PROVE  IInv'
  <1> USE DEF SyncArtifact
  <1>0. TypeOK /\ LockMeans /\ TransactionMeans /\ DirectoriesMean /\ RunDirectory
    BY IInvParts
  <1>1. \A r \in Process : r # p => pc[r] = "idle"
    BY <1>0, OthersIdle
  <1>2. Transaction(p)
    BY <1>0 DEF TransactionMeans
  <1>3. /\ todo'[p] = todo[p] \ {item[p]}
        /\ pc'[p] = IF todo'[p] = {} THEN "replace" ELSE "publish"
        /\ fragile' \subseteq fragile /\ item[p] \notin fragile'
    BY <1>0 DEF TypeOK
  <1>4. TypeOK'
    BY <1>0 DEF TypeOK, Location
  <1>5. LockMeans'
    BY <1>0, <1>1 DEF LockMeans, TypeOK
  <1>6. TransactionMeans'
    <2> SUFFICES ASSUME NEW r \in Process PROVE Transaction(r)'
      BY DEF TransactionMeans
    <2>1. CASE r # p
      <3>1. pc'[r] = "idle"
        BY <1>0, <1>1, <2>1 DEF TypeOK
      <3> QED
        BY <3>1 DEF Transaction, Working
    <2>2. CASE r = p
      <3>0. \A x \in Path : Settled(x)' <=> Settled(x)
        BY DEF Settled, Intact
      <3>1. \A x \in Path \ todo'[p] :
              want[p][x] # None => file[x] = want[p][x] /\ x \notin fragile' /\ Settled(x)'
        BY <1>2, <1>3, <3>0 DEF Transaction, Working
      <3>2. \A x \in todo'[p] : want[p][x] # None
        BY <1>2, <1>3 DEF Transaction, Working
      <3> QED
        BY <1>2, <1>3, <2>2, <3>1, <3>2 DEF Transaction, Working, Register!Successor
    <2> QED
      BY <2>1, <2>2
  <1>7. DirectoriesMean'
    BY <1>0, <1>1, DirectoriesKept
  <1>8. RunDirectory'
    BY <1>0, <1>3 DEF RunDirectory, BoundArtifactsExist, SnapshotIsWhole,
                AcknowledgedSurvives, Bound, Durable, Intact
  <1> QED
    BY <1>4, <1>5, <1>6, <1>7, <1>8 DEF IInv, RunDirectory

\* What transact is about to commit is a successor whose artifacts all exist.
LEMMA ReadyToReplace ==
    ASSUME IInv, NEW p \in Process, pc[p] = "replace"
    PROVE  /\ Register!Successor(state, next[p])
           /\ Bound(next[p]) /\ Durable(next[p])
           /\ next[p] \in State /\ next[p].revision = state.revision + 1
           /\ state.revision \in Nat
  <1>0. TypeOK /\ Transaction(p) /\ BoundArtifactsExist
    BY DEF IInv, TransactionMeans
  <1>1. Register!Successor(state, next[p]) /\ next[p].revision = state.revision + 1
    BY <1>0 DEF Transaction, Working, Register!Successor
  <1>2. \A q \in Intact : next[p].index[q] # None =>
          /\ file[q] = next[p].index[q] /\ q \notin fragile
          /\ dir[DirectoryOf(q)] = "durable"
    <2> SUFFICES ASSUME NEW q \in Intact, next[p].index[q] # None
                 PROVE  /\ file[q] = next[p].index[q] /\ q \notin fragile
                        /\ dir[DirectoryOf(q)] = "durable"
      OBVIOUS
    <2>1. q \notin todo[p] /\ q \in Path
      BY <1>0 DEF Transaction, Intact
    <2>2. CASE want[p][q] = None
      BY <1>0, <2>1, <2>2 DEF Transaction, Working, BoundArtifactsExist, Bound, Durable
    <2>3. CASE want[p][q] # None
      BY <1>0, <2>1, <2>3 DEF Transaction, Working, Settled
    <2> QED
      BY <2>2, <2>3
  <1> QED
    BY <1>0, <1>1, <1>2 DEF Bound, Durable, TypeOK, State

LEMMA ReplacePreserves ==
    ASSUME IInv, NEW p \in Process, ReplaceState(p)
    PROVE  IInv'
  <1> USE DEF ReplaceState
  <1>0. TypeOK /\ LockMeans /\ TransactionMeans /\ DirectoriesMean
        /\ RunDirectory
    BY IInvParts
  <1>1. \A r \in Process : r # p => pc[r] = "idle"
    BY <1>0, OthersIdle
  <1>2. /\ Bound(next[p]) /\ Durable(next[p])
        /\ next[p] \in State /\ next[p].revision = state.revision + 1
        /\ state.revision \in Nat
    BY ReadyToReplace
  <1>3. TypeOK'
    BY <1>0, <1>2 DEF TypeOK, Location
  <1>4. LockMeans'
    BY <1>0, <1>1 DEF LockMeans, TypeOK
  <1>5. TransactionMeans'
    <2>1. \A r \in Process : pc'[r] \in {"idle", "sync_state"}
      BY <1>0, <1>1 DEF TypeOK
    <2> QED
      BY <2>1 DEF TransactionMeans, Transaction, Working
  <1>6. /\ \A s : (Bound(s)' <=> Bound(s)) /\ (Durable(s)' <=> Durable(s))
        /\ DirectoriesMean'
    BY <1>0, <1>1, DirectoriesKept DEF Bound, Durable, Intact
  <1>7. \A s \in durable : s.revision \in Nat
    BY <1>0 DEF TypeOK, State
  <1>8. acked \in Nat /\ acked <= state.revision
    BY <1>0 DEF TypeOK, RunDirectory, AcknowledgedSurvives, State
  <1>9. (state \in durable /\ \A s \in durable : s.revision <= state.revision)'
    BY <1>0, <1>2, <1>7 DEF RunDirectory
  <1>10. BoundArtifactsExist' /\ SnapshotIsWhole'
    BY <1>0, <1>2, <1>6 DEF RunDirectory, BoundArtifactsExist, SnapshotIsWhole
  <1>11. AcknowledgedSurvives'
    BY <1>0, <1>2, <1>8 DEF RunDirectory, AcknowledgedSurvives
  <1> QED
    BY <1>3, <1>4, <1>5, <1>6, <1>9, <1>10, <1>11 DEF IInv

LEMMA SyncStatePreserves ==
    ASSUME IInv, NEW p \in Process, SyncState(p)
    PROVE  IInv'
  <1> USE DEF SyncState
  <1>0. TypeOK /\ LockMeans /\ TransactionMeans /\ DirectoriesMean
        /\ RunDirectory
    BY IInvParts
  <1>1. \A r \in Process : r # p => pc[r] = "idle"
    BY <1>0, OthersIdle
  <1>2. state.revision \in Nat
    BY <1>0 DEF TypeOK, State
  <1>3. TypeOK'
    BY <1>0, <1>2 DEF TypeOK, Location
  <1>4. LockMeans'
    BY <1>0, <1>1 DEF LockMeans, TypeOK
  <1>5. TransactionMeans'
    <2>1. \A r \in Process : pc'[r] \in {"idle", "held"} /\ (pc'[r] = "held" => r = p)
      BY <1>0, <1>1 DEF TypeOK
    <2>2. known'[p] = state'.revision
      BY <1>0 DEF TypeOK
    <2> QED
      BY <2>1, <2>2 DEF TransactionMeans, Transaction, Working
  <1>6. RunDirectory'
    BY <1>0, <1>2 DEF RunDirectory, BoundArtifactsExist, SnapshotIsWhole,
                      AcknowledgedSurvives, Bound, Durable, Intact
  <1>7. DirectoriesMean'
    BY <1>0, <1>1, DirectoriesKept
  <1> QED
    BY <1>3, <1>4, <1>5, <1>6, <1>7 DEF IInv, RunDirectory

LEMMA LoadPreserves ==
    ASSUME IInv, LoadSnapshot
    PROVE  IInv'
  <1> USE DEF LoadSnapshot, store, local
  <1>0. TypeOK /\ LockMeans /\ TransactionMeans /\ DirectoriesMean
        /\ RunDirectory
    BY IInvParts
  <1>1. TypeOK' /\ LockMeans'
    BY <1>0 DEF TypeOK, LockMeans
  <1>2. TransactionMeans' /\ DirectoriesMean'
    BY <1>0 DEF TransactionMeans, Transaction, Settled, Intact, DirectoriesMean,
                Register!Successor
  <1>3. RunDirectory'
    BY <1>0 DEF RunDirectory, BoundArtifactsExist, SnapshotIsWhole,
                AcknowledgedSurvives, Bound, Durable, Intact
  <1> QED
    BY <1>1, <1>2, <1>3 DEF IInv, RunDirectory

\* A power loss takes only names that no fsync covered, and no state that state.json
\* may hold afterwards binds one of those.
LEMMA PowerLossPreserves ==
    ASSUME IInv, PowerLoss
    PROVE  IInv'
  <1>0. TypeOK /\ LockMeans /\ TransactionMeans /\ DirectoriesMean
        /\ RunDirectory
    BY IInvParts
  <1>1. PICK s \in durable : state' = s /\ durable' = {s}
    BY DEF PowerLoss
  <1>2. PICK lost \in SUBSET fragile, gone \in SUBSET {d \in Directory : dir[d] = "made"} :
          /\ file' = [q \in Path |-> IF q \in lost \/ DirectoryOf(q) \in gone THEN None
                                    ELSE file[q]]
          /\ dir' = [d \in Directory |-> IF d \in gone THEN "none"
                                         ELSE IF dir[d] = "made" THEN "durable" ELSE dir[d]]
    BY DEF PowerLoss
  <1>3. /\ faults < MaxFaults /\ faults' = faults + 1 /\ fragile' = {}
        /\ Forget(Process) /\ view' = InitialState /\ acked' = acked /\ torn' = torn
    BY DEF PowerLoss
  <1>4. s \in State /\ s.revision \in Nat
    BY <1>0 DEF TypeOK, State
  <1>5. TypeOK'
    <2>1. /\ file' \in [Path -> Content]
          /\ dir' \in [Directory -> {"none", "made", "durable"}]
      BY <1>0, <1>2 DEF TypeOK, Content
    <2>2. faults' \in 0 .. MaxFaults
      BY <1>0, <1>3, BoundsAssumption DEF TypeOK
    <2> QED
      BY <1>0, <1>1, <1>3, <1>4, <2>1, <2>2, ForgetFacts, InitialTyped DEF TypeOK
  <1>6. LockMeans' /\ TransactionMeans'
    BY <1>0, <1>3, ForgetQuiets
  <1>7. Bound(s)' /\ Durable(s)'
    <2>1. Bound(s) /\ Durable(s)
      BY <1>0 DEF RunDirectory, BoundArtifactsExist
    <2>2. \A q \in Intact :
            s.index[q] # None => file'[q] = file[q] /\ dir'[DirectoryOf(q)] = "durable"
      BY <1>2, <2>1, PathsInDirectories DEF Durable, Intact
    <2> QED
      BY <1>3, <2>1, <2>2 DEF Bound, Durable, Intact
  <1>8. BoundArtifactsExist'
    BY <1>1, <1>7 DEF BoundArtifactsExist
  <1>9. SnapshotIsWhole'
    BY <1>3 DEF SnapshotIsWhole, Bound, Intact, InitialState, NoArtifacts
  <1>10. AcknowledgedSurvives'
    BY <1>0, <1>1, <1>3 DEF RunDirectory, AcknowledgedSurvives
  <1>11. (state \in durable /\ \A t \in durable : t.revision <= state.revision)'
    BY <1>1, <1>4
  <1>12. DirectoriesMean'
    BY <1>2 DEF DirectoriesMean
  <1> QED
    BY <1>5, <1>6, <1>8, <1>9, <1>10, <1>11, <1>12 DEF IInv

LEMMA Preserved == IInv /\ [Next]_vars => IInv'
  <1> SUFFICES ASSUME IInv, [Next]_vars PROVE IInv'
    OBVIOUS
  <1>0. faults \in 0 .. MaxFaults /\ torn \subseteq Directory
    BY DEF IInv, TypeOK
  <1>1. ASSUME NEW p \in Process, Step(p) PROVE IInv'
    <2>1. CASE Acquire(p)
      BY <2>1, AcquirePreserves
    <2>2. CASE LeaveLock(p)
      BY <1>0, <2>2, ReleasePreserves DEF LeaveLock, Release
    <2>3. ASSUME NEW artifacts \in Artifacts, Begin(p, artifacts) PROVE IInv'
      BY <2>3, BeginPreserves
    <2>4. ASSUME NEW artifacts \in Artifacts, Refuse(p, artifacts) PROVE IInv'
      BY <1>0, <2>4, ReleasePreserves DEF Refuse, Release
    <2>5. ASSUME NEW q \in Path, PublishArtifact(p, q) PROVE IInv'
      BY <2>5, PublishPreserves
    <2>6. ASSUME NEW q \in Path, PublishConflict(p, q) PROVE IInv'
      BY <1>0, <2>6, ReleasePreserves DEF PublishConflict, Opened, Release
    <2>7. CASE SyncArtifact(p)
      BY <2>7, SyncArtifactPreserves
    <2>8. CASE ReplaceState(p)
      BY <2>8, ReplacePreserves
    <2>9. CASE SyncState(p)
      BY <2>9, SyncStatePreserves
    <2>10. ASSUME NEW q \in Path, MakeDirectory(p, q) PROVE IInv'
      BY <2>10, MakeDirectoryPreserves
    <2>11. CASE SyncParent(p)
      BY <2>11, SyncParentPreserves
    <2> QED
      BY <1>1, <2>1, <2>2, <2>3, <2>4, <2>5, <2>6, <2>7, <2>8, <2>9, <2>10, <2>11 DEF Step
  <1>2. ASSUME NEW p \in Process, Kill(p) PROVE IInv'
    <2>1. faults' \in 0 .. MaxFaults
      BY <1>0, <1>2, BoundsAssumption DEF Kill
    <2>2. pc[p] = "sync_parent" => DirectoryOf(item[p]) \in Directory
      BY PathsInDirectories DEF IInv, TypeOK, TransactionMeans, Transaction
    <2>3. /\ torn \subseteq torn' /\ torn' \subseteq Directory
          /\ pc[p] = "sync_parent" => DirectoryOf(item[p]) \in torn'
      BY <1>0, <1>2, <2>2 DEF Kill
    <2> QED
      BY <1>2, <2>1, <2>3, ReleasePreserves DEF Kill
  <1>3. CASE LoadSnapshot
    BY <1>3, LoadPreserves
  <1>4. CASE PowerLoss
    BY <1>4, PowerLossPreserves
  <1>5. CASE UNCHANGED vars
    BY <1>5 DEF vars, store, local, IInv, TypeOK, LockMeans, TransactionMeans,
       Transaction, Settled, DirectoriesMean, Register!Successor, BoundArtifactsExist, SnapshotIsWhole,
       AcknowledgedSurvives, Bound, Durable, Intact
  <1> QED
    BY <1>1, <1>2, <1>3, <1>4, <1>5 DEF Next

\* transact, the lock and the recovery after kills and power losses keep the lock,
\* the transaction in progress and the run directory consistent.
THEOREM Invariance == Spec => []IInv
  <1> QED
    BY Start, Preserved, PTL DEF Spec

\* Every artifact that state.json binds, now or after a power loss, is there with the
\* bytes it was bound with, unless its directory is one that a killed process made and
\* did not sync: transact syncs artifacts before it replaces state.json.
THEOREM BoundArtifacts == Spec => []BoundArtifactsExist
  <1>1. IInv => BoundArtifactsExist
    BY DEF IInv
  <1> QED
    BY <1>1, Invariance, PTL

\* load without the lock, as `vibe status` does it, finds the artifacts of the state
\* it read however many transactions overtake it.
THEOREM SnapshotsAreWhole == Spec => []SnapshotIsWhole
  <1>1. IInv => SnapshotIsWhole
    BY DEF IInv
  <1> QED
    BY <1>1, Invariance, PTL

\* A power loss never undoes a transaction that returned to the Controller.
THEOREM AcknowledgedIsDurable == Spec => []AcknowledgedSurvives
  <1>1. IInv => AcknowledgedSurvives
    BY DEF IInv
  <1> QED
    BY <1>1, Invariance, PTL

\* Competing Controllers, kills and power losses included, StateStore is one register:
\* replacing state.json is Commit, syncing its directory Settle, the rest stutters.
THEOREM StoreIsRegister == Spec => ImplementsRegister
  <1>1. Init => Register!Init
    BY DEF Init, Register!Init
  <1>2. IInv /\ [Next]_vars => [Register!Next]_<<state, durable>>
    <2> SUFFICES ASSUME IInv, [Next]_vars
                 PROVE  Register!Next \/ UNCHANGED <<state, durable>>
      OBVIOUS
    <2> USE DEF Register!Next
    <2>1. ASSUME NEW p \in Process, Step(p)
          PROVE  Register!Next \/ UNCHANGED <<state, durable>>
      <3>1. CASE ReplaceState(p)
        <4>1. Register!Successor(state, next[p])
          BY <3>1, ReadyToReplace DEF ReplaceState
        <4>2. state' = next[p] /\ durable' = durable \cup {next[p]}
          BY <3>1 DEF ReplaceState
        <4>3. Register!Commit
          BY <4>1, <4>2 DEF Register!Commit
        <4> QED
          BY <4>3
      <3>2. CASE SyncState(p)
        BY <3>2 DEF SyncState, Register!Settle
      <3>3. ASSUME ~ ReplaceState(p), ~ SyncState(p) PROVE UNCHANGED <<state, durable>>
        BY <2>1, <3>3 DEF Step, Acquire, LeaveLock, Begin, Refuse, MakeDirectory,
           SyncParent, PublishArtifact, PublishConflict, SyncArtifact, Release, store
      <3> QED
        BY <3>1, <3>2, <3>3
    <2>2. ASSUME NEW p \in Process, Kill(p) PROVE UNCHANGED <<state, durable>>
      BY <2>2 DEF Kill, store
    <2>3. CASE LoadSnapshot
      BY <2>3 DEF LoadSnapshot, store
    <2>4. CASE PowerLoss
      BY <2>4 DEF PowerLoss, Register!PowerLoss
    <2>5. CASE UNCHANGED vars
      BY <2>5 DEF vars, store
    <2> QED
      BY <2>1, <2>2, <2>3, <2>4, <2>5 DEF Next
  <1> QED
    BY <1>1, <1>2, Invariance, PTL DEF Spec, ImplementsRegister, Register!Spec
=============================================================================
