----------------------------- MODULE StateStore -----------------------------
(***************************************************************************)
(* state_store.py: the run lock, and the transaction that publishes        *)
(* immutable artifacts and then replaces state.json, against processes     *)
(* that are killed at any point and against a power loss that takes away   *)
(* every directory entry no fsync has made durable.                        *)
(*                                                                         *)
(* A state is its revision and its artifact_index; a body stands for its   *)
(* digest as well.  File contents are fsynced before they get their name,  *)
(* so that only names can be lost: those of artifacts, and those of the    *)
(* directories they are in.  The directories modelled are the siblings in  *)
(* one parent below the run directory, tasks/<id>/attempts for example.    *)
(***************************************************************************)
EXTENDS Integers, FiniteSets

CONSTANTS
    Process,      \* `vibe run` and `vibe resume` invocations
    Directory, Name, Body, \* directories, and the artifacts' names and contents
    None,         \* no process, no content
    MaxRevision,  \* bound: transactions
    MaxFaults     \* bound: kills and power losses

Path == Directory \X Name
DirectoryOf(q) == q[1]

ASSUME NoneAssumption == None \notin Process \cup Body \cup Path
ASSUME BoundsAssumption == MaxRevision \in Nat /\ MaxFaults \in Nat

VARIABLES
    \* the run directory
    state,    \* state.json
    durable,  \* what state.json may hold after a power loss
    file,     \* the artifact of each path
    fragile,  \* artifacts whose directory entry is not fsynced
    dir,      \* each directory: none, made, or durable (its parent is fsynced)
    lock,     \* holder of controller.lock
    \* each process
    pc,
    known,    \* the revision it last saw: expected_revision
    want,     \* artifacts of its transaction
    todo,     \* those still to be published
    item,     \* the one it is publishing
    next,     \* the state to commit
    \* an unlocked reader: `vibe status`, `vibe stop`
    view,
    \* history and bounds
    acked,    \* last revision a transaction returned
    torn,     \* directories made by a process that was killed before the fsync
    faults

store   == <<state, durable, file, fragile, dir>>
local   == <<pc, known, want, todo, item, next>>
vars    == <<store, lock, local, view, acked, torn, faults>>

-----------------------------------------------------------------------------
Content == Body \cup {None}
State == [revision : Nat, index : [Path -> Content]]
NoArtifacts == [q \in Path |-> None]
InitialState == [revision |-> 0, index |-> NoArtifacts]
Location == {"idle", "held", "publish", "sync_parent", "link", "sync", "replace",
             "sync_state"}

TypeOK ==
    /\ state \in State /\ durable \subseteq State
    /\ file \in [Path -> Content] /\ fragile \subseteq Path
    /\ dir \in [Directory -> {"none", "made", "durable"}] /\ torn \subseteq Directory
    /\ lock \in Process \cup {None}
    /\ pc \in [Process -> Location]
    /\ known \in [Process -> Nat]
    /\ want \in [Process -> [Path -> Content]]
    /\ todo \in [Process -> SUBSET Path]
    /\ item \in [Process -> Path \cup {None}]
    /\ next \in [Process -> State]
    /\ view \in State
    /\ acked \in Nat /\ faults \in 0 .. MaxFaults

Init ==
    /\ state = InitialState /\ durable = {InitialState}
    /\ file = NoArtifacts /\ fragile = {}
    /\ dir = [d \in Directory |-> "none"] /\ torn = {}
    /\ lock = None
    /\ pc = [p \in Process |-> "idle"]
    /\ known = [p \in Process |-> 0]
    /\ want = [p \in Process |-> NoArtifacts]
    /\ todo = [p \in Process |-> {}]
    /\ item = [p \in Process |-> None]
    /\ next = [p \in Process |-> InitialState]
    /\ view = InitialState
    /\ acked = 0 /\ faults = 0

-----------------------------------------------------------------------------
\* Mutant: the lock file is opened but not locked.
AcquireShared(p) ==
    /\ pc[p] = "idle"
    /\ lock' = p
    /\ pc' = [pc EXCEPT ![p] = "held"]
    /\ known' = [known EXCEPT ![p] = state.revision]
    /\ UNCHANGED <<store, want, todo, item, next, view, acked, torn, faults>>

\* load finds every artifact that state.json binds; it raises otherwise.
Loadable == \A q \in Path : state.index[q] # None => file[q] = state.index[q]

\* store.lock() and the first load; one that raises leaves everything as it is.
Acquire(p) ==
    /\ pc[p] = "idle" /\ lock = None /\ Loadable
    /\ lock' = p
    /\ pc' = [pc EXCEPT ![p] = "held"]
    /\ known' = [known EXCEPT ![p] = state.revision]
    /\ UNCHANGED <<store, want, todo, item, next, view, acked, torn, faults>>

\* The process is outside the with-block of the lock, or gone.
Forget(P) ==
    /\ lock' = None
    /\ pc' = [p \in Process |-> IF p \in P THEN "idle" ELSE pc[p]]
    /\ known' = [p \in Process |-> IF p \in P THEN 0 ELSE known[p]]
    /\ want' = [p \in Process |-> IF p \in P THEN NoArtifacts ELSE want[p]]
    /\ todo' = [p \in Process |-> IF p \in P THEN {} ELSE todo[p]]
    /\ item' = [p \in Process |-> IF p \in P THEN None ELSE item[p]]
    /\ next' = [p \in Process |-> IF p \in P THEN InitialState ELSE next[p]]

\* The end of the with-block, or an exception that leaves it.
Release(p) == Forget({p}) /\ UNCHANGED <<store, view, acked, torn, faults>>

LeaveLock(p) == pc[p] = "held" /\ Release(p)

\* The index of the new state: every artifact of the transaction is added to it.
Bind(index, artifacts) ==
    [q \in Path |-> IF artifacts[q] = None THEN index[q] ELSE artifacts[q]]

IndexConflict(artifacts) ==
    \E q \in Path : artifacts[q] # None /\ state.index[q] \notin {None, artifacts[q]}

\* The first half of transact: load, checks, mutation, validation, nothing written yet.
Begin(p, artifacts) ==
    /\ pc[p] = "held" /\ state.revision < MaxRevision /\ Loadable
    /\ known[p] = state.revision /\ ~ IndexConflict(artifacts)
    /\ next' = [next EXCEPT ![p] = [revision |-> known[p] + 1,
                                    index |-> Bind(state.index, artifacts)]]
    /\ want' = [want EXCEPT ![p] = artifacts]
    /\ todo' = [todo EXCEPT ![p] = {q \in Path : artifacts[q] # None}]
    /\ pc' = [pc EXCEPT ![p] = IF todo'[p] = {} THEN "replace" ELSE "publish"]
    /\ UNCHANGED <<store, lock, known, item, view, acked, torn, faults>>

\* "immutable artifact already exists with different bytes", from the index.
Refuse(p, artifacts) ==
    /\ pc[p] = "held" /\ IndexConflict(artifacts)
    /\ Release(p)

\* open_directory_chain: the artifact's directory is opened if it exists, whoever made
\* it, and made otherwise ...
MakeDirectory(p, q) ==
    /\ pc[p] = "publish" /\ q \in todo[p]
    /\ dir[DirectoryOf(q)] = "none"
    /\ dir' = [dir EXCEPT ![DirectoryOf(q)] = "made"]
    /\ item' = [item EXCEPT ![p] = q]
    /\ pc' = [pc EXCEPT ![p] = "sync_parent"]
    /\ UNCHANGED <<state, durable, file, fragile, lock, known, want, todo, next, view,
                   acked, torn, faults>>

\* Mutant: the parent of a new directory is not fsynced.
SyncNoParent(p) ==
    /\ pc[p] = "sync_parent"
    /\ pc' = [pc EXCEPT ![p] = "link"]
    /\ UNCHANGED <<store, lock, known, want, todo, item, next, view, acked, torn, faults>>

\* ... and then its parent is fsynced, with every sibling in it.
SyncParent(p) ==
    /\ pc[p] = "sync_parent"
    /\ dir' = [d \in Directory |-> IF dir[d] = "made" THEN "durable" ELSE dir[d]]
    /\ pc' = [pc EXCEPT ![p] = "link"]
    /\ UNCHANGED <<state, durable, file, fragile, lock, known, want, todo, item, next,
                   view, acked, torn, faults>>

\* _open_artifact_parent has returned for the artifact at q.
Opened(p, q) ==
    /\ q \in todo[p] /\ dir[DirectoryOf(q)] # "none"
    /\ pc[p] = "publish" \/ (pc[p] = "link" /\ q = item[p])

\* Mutant: an existing artifact is overwritten.
OverwriteArtifact(p, q) ==
    /\ Opened(p, q)
    /\ file' = [file EXCEPT ![q] = want[p][q]]
    /\ fragile' = fragile \cup {q}
    /\ item' = [item EXCEPT ![p] = q]
    /\ pc' = [pc EXCEPT ![p] = "sync"]
    /\ UNCHANGED <<state, durable, dir, lock, known, want, todo, next, view, acked, torn,
                   faults>>

\* publish_immutable_at: link the synced temporary; an existing name must hold the
\* same bytes.
PublishArtifact(p, q) ==
    /\ Opened(p, q)
    /\ \/ /\ file[q] = None
          /\ file' = [file EXCEPT ![q] = want[p][q]]
          /\ fragile' = fragile \cup {q}
       \/ /\ file[q] = want[p][q]
          /\ UNCHANGED <<file, fragile>>
    /\ item' = [item EXCEPT ![p] = q]
    /\ pc' = [pc EXCEPT ![p] = "sync"]
    /\ UNCHANGED <<state, durable, dir, lock, known, want, todo, next, view, acked, torn,
                   faults>>

PublishConflict(p, q) ==
    /\ Opened(p, q)
    /\ file[q] \notin {None, want[p][q]}
    /\ Release(p)

\* fsync of the artifact's directory, for an artifact that existed as well: its entries
\* are durable in it, which says nothing of the directory's own entry.
SyncArtifact(p) ==
    /\ pc[p] = "sync"
    /\ fragile' = {q \in fragile : DirectoryOf(q) # DirectoryOf(item[p])}
    /\ todo' = [todo EXCEPT ![p] = @ \ {item[p]}]
    /\ pc' = [pc EXCEPT ![p] = IF todo'[p] = {} THEN "replace" ELSE "publish"]
    /\ UNCHANGED <<state, durable, file, dir, lock, known, want, item, next, view, acked,
                   torn, faults>>

\* replace_mutable_at: rename of the synced temporary over state.json ...
ReplaceState(p) ==
    /\ pc[p] = "replace"
    /\ state' = next[p]
    /\ durable' = durable \cup {next[p]}
    /\ pc' = [pc EXCEPT ![p] = "sync_state"]
    /\ UNCHANGED <<file, fragile, dir, lock, known, want, todo, item, next, view, acked,
                   torn, faults>>

\* Mutant: transact returns before the run directory is synced.
ReturnUnsynced(p) ==
    /\ pc[p] = "sync_state"
    /\ known' = [known EXCEPT ![p] = state.revision]
    /\ acked' = state.revision
    /\ pc' = [pc EXCEPT ![p] = "held"]
    /\ UNCHANGED <<store, lock, want, todo, item, next, view, torn, faults>>

\* ... and fsync of the run directory; transact returns.
SyncState(p) ==
    /\ pc[p] = "sync_state"
    /\ durable' = {state}
    /\ known' = [known EXCEPT ![p] = state.revision]
    /\ acked' = state.revision
    /\ pc' = [pc EXCEPT ![p] = "held"]
    /\ UNCHANGED <<state, file, fragile, dir, lock, want, todo, item, next, view, torn,
                   faults>>

\* load without the lock; its second half, reading the artifacts, may come later.
LoadSnapshot ==
    /\ view' = state
    /\ UNCHANGED <<store, lock, local, acked, torn, faults>>

-----------------------------------------------------------------------------
\* The kernel drops the lock of a killed process.
Kill(p) ==
    /\ pc[p] # "idle" /\ faults < MaxFaults
    /\ faults' = faults + 1
    /\ torn' = IF pc[p] = "sync_parent" THEN torn \cup {DirectoryOf(item[p])} ELSE torn
    /\ Forget({p})
    /\ UNCHANGED <<store, view, acked>>

\* A directory goes with everything in it; what is left is on the disk.
PowerLoss ==
    /\ faults < MaxFaults
    /\ faults' = faults + 1
    /\ \E s \in durable : state' = s /\ durable' = {s}
    /\ \E lost \in SUBSET fragile, gone \in SUBSET {d \in Directory : dir[d] = "made"} :
         /\ file' = [q \in Path |-> IF q \in lost \/ DirectoryOf(q) \in gone THEN None
                                   ELSE file[q]]
         /\ dir' = [d \in Directory |-> IF d \in gone THEN "none"
                                        ELSE IF dir[d] = "made" THEN "durable" ELSE dir[d]]
    /\ fragile' = {}
    /\ Forget(Process)
    /\ view' = InitialState
    /\ UNCHANGED <<acked, torn>>

Artifacts == [Path -> Content]

Step(p) ==
    \/ Acquire(p) \/ LeaveLock(p)
    \/ \E artifacts \in Artifacts : Begin(p, artifacts) \/ Refuse(p, artifacts)
    \/ \E q \in Path :
         MakeDirectory(p, q) \/ PublishArtifact(p, q) \/ PublishConflict(p, q)
    \/ SyncParent(p) \/ SyncArtifact(p) \/ ReplaceState(p) \/ SyncState(p)

Next ==
    \/ \E p \in Process : Step(p) \/ Kill(p)
    \/ LoadSnapshot \/ PowerLoss

Spec == Init /\ [][Next]_vars

-----------------------------------------------------------------------------
(***************************************************************************)
(* Properties.                                                             *)
(***************************************************************************)
Intact == {q \in Path : DirectoryOf(q) \notin torn}
Bound(s) == \A q \in Intact : s.index[q] # None => file[q] = s.index[q]
Durable(s) ==
    \A q \in Intact :
        s.index[q] # None => q \notin fragile /\ dir[DirectoryOf(q)] = "durable"

\* Whatever state.json holds, or may hold after a power loss, every artifact it
\* binds exists with the bytes it was bound with, and durably so, its directory
\* included: transact publishes and syncs before it replaces, and nothing is ever
\* overwritten.  The exception is a directory whose maker was killed between mkdir and
\* the fsync of the parent.
BoundArtifactsExist ==
    \A s \in {state} \cup durable : Bound(s) /\ Durable(s)

\* "Write artifacts before state, fsync files and parent directories": a power loss never
\* takes an artifact that state.json binds.  A directory that a killed process left
\* behind is opened by the next one, and nobody fsyncs its parent.
PowerLossKeepsArtifacts == Loadable

\* A reader without the lock may read state.json, be overtaken by any number of
\* transactions, and still find the artifacts of the state it read.
SnapshotIsWhole == Bound(view)

\* A transaction that returned is never lost, not even to a power loss.
AcknowledgedSurvives == \A s \in durable : s.revision >= acked

\* The lock and the revision make transactions of competing processes one
\* sequence: no update is lost, none is applied to a state it was not made for.
Register == INSTANCE StateRegister WITH current <- state, possible <- durable
ImplementsRegister == Register!Spec

-----------------------------------------------------------------------------
(***************************************************************************)
(* The inductive invariant: what a process in the middle of a transaction  *)
(* may rely on.                                                            *)
(***************************************************************************)
Working == {"publish", "sync_parent", "link", "sync", "replace"}

\* Only the holder of the lock is active.
LockMeans == \A p \in Process : pc[p] # "idle" => lock = p

\* The directory of q is durable, or torn.
Settled(q) == q \in Intact => dir[DirectoryOf(q)] = "durable"

\* A directory that exists without a durable entry is torn, or being made.
DirectoriesMean ==
    \A d \in Directory :
        dir[d] = "made" =>
          \/ d \in torn
          \/ \E p \in Process : pc[p] = "sync_parent" /\ DirectoryOf(item[p]) = d

\* The state to commit succeeds the current one, and what is no longer to do is
\* published and durable.
Transaction(p) ==
    /\ pc[p] \in Working =>
         /\ Register!Successor(state, next[p])
         /\ \A q \in Path :
              next[p].index[q] = IF want[p][q] = None THEN state.index[q]
                                 ELSE want[p][q]
         /\ \A q \in todo[p] : want[p][q] # None
         /\ \A q \in Path \ todo[p] :
              want[p][q] # None => file[q] = want[p][q] /\ q \notin fragile /\ Settled(q)
    /\ pc[p] \in {"sync_parent", "link", "sync"} => item[p] \in todo[p]
    /\ pc[p] = "sync" => file[item[p]] = want[p][item[p]] /\ Settled(item[p])
    /\ pc[p] = "replace" => todo[p] = {}
    /\ pc[p] = "held" => known[p] = state.revision

TransactionMeans == \A p \in Process : Transaction(p)

\* Every step preserves this conjunction: the lock, the transaction in progress
\* and the directory fit together.
IInv ==
    /\ TypeOK /\ LockMeans /\ TransactionMeans /\ DirectoriesMean
    /\ state \in durable /\ \A s \in durable : s.revision <= state.revision
    /\ BoundArtifactsExist /\ SnapshotIsWhole /\ AcknowledgedSurvives
=============================================================================
