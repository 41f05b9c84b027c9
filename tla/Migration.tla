----------------------------- MODULE Migration -----------------------------
(***************************************************************************)
(* migrate_schema3 beside `vibe run`: a batch of Schema 3 requirements is  *)
(* reserved, staged, prepared, installed as backups and imported runs,     *)
(* claimed, completed and finalized under migration.lock and               *)
(* run-allocation.lock, and `vibe resume --replan` drives what was         *)
(* imported.  A process is killed at any point, a requirement's tree is    *)
(* edited at any point, and every command may be given again.              *)
(*                                                                         *)
(* A version stands for the hash of a tree and for the base the import is  *)
(* bound to.  _publish_immutable creates a file and then writes it: torn   *)
(* in between.  Config and workspace are the same in every invocation.     *)
(***************************************************************************)
EXTENDS RunCreation

CONSTANTS
    ReadOnly,  \* requirements that were ACCEPTED or DEGRADED
    MaxEdits   \* bound: edits of the requirements

ASSUME MigrationAssumption == ReadOnly \subseteq Requirement /\ MaxEdits \in Nat

VARIABLES
    migrating,   \* holder of migration.lock
    source,      \* .vibe-coding/requirements
    \* .vibe-coding/migrations/<batch> and schema3-backups/<batch>
    prepared, completed,  \* prepared.json, completed.json
    staged, backup,       \* the trees, by requirement
    \* .vibe-coding/migrations/index
    claim,       \* each requirement's file
    claimed,     \* the batch in it
    \* the imported runs
    completion,  \* migration-completion.json
    \* each process
    batch,
    entries,     \* the run of each requirement
    todo,        \* requirements the current loop has left
    edits

mine    == <<request, rid, batch, entries>>
batches == <<prepared, completed, staged, backup, claim, claimed>>
ids     == <<reservation, reserved>>
locks   == <<allocator, lock, migrating>>
world   == <<source, bounds, edits>>
mgVars  == <<migrating, source, batches, completion, batch, entries, todo, edits>>
vars    == <<rcVars, mgVars>>

-----------------------------------------------------------------------------
FirstVersion == CHOOSE v \in Version : TRUE
NoEntries == [r \in {} |-> 0]
NoBatch == [r \in {} |-> None]

MigrationInit ==
    /\ Init
    /\ migrating = None
    /\ source = [r \in Requirement |-> FirstVersion]
    /\ prepared = [b \in Batch |-> "absent"]
    /\ completed = [b \in Batch |-> "absent"]
    /\ staged = [b \in Batch |-> [r \in DOMAIN b |-> "absent"]]
    /\ backup = [b \in Batch |-> [r \in DOMAIN b |-> "absent"]]
    /\ claim = [r \in Requirement |-> "absent"]
    /\ claimed = [r \in Requirement |-> None]
    /\ completion = [i \in RunId |-> "absent"]
    /\ batch = [p \in Process |-> NoBatch]
    /\ entries = [p \in Process |-> NoEntries]
    /\ todo = [p \in Process |-> {}] /\ edits = 0

MappedStatus(r) == IF r \in ReadOnly THEN "READ_ONLY" ELSE "PAUSED"

Selected(p) == DOMAIN batch[p]
Current(p) == Lowest(todo[p])
Unedited(p, r) == source[r] = batch[p][r]
RunOf(p) == entries[p][Current(p)]

Stay(p, to) == Goto(p, to) /\ UNCHANGED todo
\* The loop over the batch, in the order of the requirements.
Advance(p, again, after) ==
    IF todo[p] = {Current(p)}
    THEN Goto(p, after) /\ todo' = [todo EXCEPT ![p] = Selected(p)]
    ELSE Goto(p, again) /\ todo' = [todo EXCEPT ![p] = @ \ {Current(p)}]

\* The call raises or has returned, or its process is killed.
Abandon(p) ==
    /\ Leave(p) /\ migrating' = IF migrating = p THEN None ELSE migrating
    /\ batch' = [batch EXCEPT ![p] = NoBatch]
    /\ entries' = [entries EXCEPT ![p] = NoEntries]
    /\ todo' = [todo EXCEPT ![p] = {}]
    /\ UNCHANGED <<runs, ids, source, batches, completion, edits>>

\* The locks are dropped and the entries handed out.
Answer(p, e) ==
    /\ Free(p) /\ migrating' = None /\ Stay(p, "answer")
    /\ entries' = [entries EXCEPT ![p] = e]
    /\ UNCHANGED <<runs, ids, request, rid, world, batches, completion, batch>>

-----------------------------------------------------------------------------
(* Before the allocator: replay of a finished batch, validation.           *)

BeginMigrate(p, S) ==
    /\ Call(p) /\ migrating = None
    /\ migrating' = p /\ Goto(p, "replay")
    /\ batch' = [batch EXCEPT ![p] = [r \in S |-> source[r]]]
    /\ todo' = [todo EXCEPT ![p] = S]
    /\ UNCHANGED <<allocator, lock, runs, ids, request, rid, source, kills, edits,
                   batches, completion, entries>>

Claimed(S) == {r \in S : claim[r] # "absent"}
ClaimConflict(p) ==
    \E r \in Claimed(Selected(p)) :
        claim[r] = "torn" \/ claimed[r][r] # batch[p][r]
ClaimEntries(S) == [r \in S |-> reserved[claimed[r]][r]]

\* _verify_completed_entry compares the status only: an import that is still
\* MIGRATION_INSTALLING is PAUSED, and one that was driven may be.
\* Mutant: a run that is still being installed passes for any status.
MayVerifyAny(b, r, i) ==
    /\ backup[b][r] = "whole" /\ ref[i] = "base"
    /\ status[i] \in {MappedStatus(r), "INSTALLING", "DRIVEN"}
MayVerify(b, r, i) ==
    /\ backup[b][r] = "whole" /\ ref[i] = "base"
    /\ \/ status[i] = MappedStatus(r)
       \/ status[i] \in {"INSTALLING", "DRIVEN"} /\ MappedStatus(r) = "PAUSED"
MayFail(b, r, i) == ~MayVerify(b, r, i) \/ status[i] = "DRIVEN"

ClaimsVerify(S) == \A r \in S : MayVerify(claimed[r], r, ClaimEntries(S)[r])
ClaimsFail(S) == \E r \in S : MayFail(claimed[r], r, ClaimEntries(S)[r])

Replay(p) ==
    /\ At(p, "replay") /\ ~ClaimConflict(p)
    /\ Claimed(Selected(p)) = Selected(p) /\ ClaimsVerify(Selected(p))
    /\ Answer(p, ClaimEntries(Selected(p)))

NoReplay(p) ==
    /\ At(p, "replay") /\ ~ClaimConflict(p)
    /\ Claimed(Selected(p)) = Selected(p) => ClaimsFail(Selected(p))
    /\ Stay(p, "validate")
    /\ UNCHANGED <<locks, runs, ids, mine, world, batches, completion>>

Valid(p) ==
    /\ \A r \in Selected(p) : Unedited(p, r)
    /\ prepared[batch[p]] # "torn"
    /\ \A r \in Claimed(Selected(p)) : claimed[r] = batch[p]

Validate(p) ==
    /\ At(p, "validate") /\ Valid(p) /\ Stay(p, "allocate")
    /\ UNCHANGED <<locks, runs, ids, mine, world, batches, completion>>

LockAllocator(p) ==
    /\ At(p, "allocate") /\ allocator = None
    /\ allocator' = p /\ Stay(p, "reserve")
    /\ UNCHANGED <<migrating, lock, runs, ids, mine, world, batches, completion>>

-----------------------------------------------------------------------------
(* Reservation, staging, prepared.json.                                    *)

Room(p) == Readable /\ Cardinality(Unused) >= Cardinality(Selected(p))

\* The n-th requirement gets the n-th unused run ID.
Allocation(S) ==
    [r \in S |-> CHOOSE i \in Unused :
                    Cardinality({j \in Unused : j < i}) =
                    Cardinality({q \in S : q < r})]

Reserve(p) ==
    /\ At(p, "reserve") /\ reservation[batch[p]] = "absent" /\ Room(p)
    /\ reservation' = [reservation EXCEPT ![batch[p]] = "torn"]
    /\ reserved' = [reserved EXCEPT ![batch[p]] = Allocation(Selected(p))]
    /\ entries' = [entries EXCEPT ![p] = Allocation(Selected(p))]
    /\ Stay(p, "write reservation")
    /\ UNCHANGED <<locks, runs, request, rid, batch, world, batches, completion>>

WriteReservation(p) ==
    /\ At(p, "write reservation")
    /\ reservation' = [reservation EXCEPT ![batch[p]] = "whole"]
    /\ Stay(p, "stage")
    /\ UNCHANGED <<locks, runs, reserved, mine, world, batches, completion>>

ReuseReservation(p) ==
    /\ At(p, "reserve") /\ reservation[batch[p]] = "whole"
    /\ entries' = [entries EXCEPT ![p] = reserved[batch[p]]]
    /\ Stay(p, "stage")
    /\ UNCHANGED <<locks, runs, ids, request, rid, batch, world, batches, completion>>

\* _copy_tree_exact fills the staging directory entry by entry.
Stage(p) ==
    /\ At(p, "stage") /\ Unedited(p, Current(p))
    /\ CASE staged[batch[p]][Current(p)] = "absent" ->
              /\ staged' = [staged EXCEPT ![batch[p]][Current(p)] = "torn"]
              /\ Stay(p, "copy")
         [] staged[batch[p]][Current(p)] = "whole" ->
              Advance(p, "stage", "prepare") /\ UNCHANGED staged
         [] OTHER -> FALSE
    /\ UNCHANGED <<locks, runs, ids, mine, world, prepared, completed, backup,
                   claim, claimed, completion>>

CopyTree(p) ==
    /\ At(p, "copy") /\ Unedited(p, Current(p))
    /\ staged' = [staged EXCEPT ![batch[p]][Current(p)] = "whole"]
    /\ Advance(p, "stage", "prepare")
    /\ UNCHANGED <<locks, runs, ids, mine, world, prepared, completed, backup,
                   claim, claimed, completion>>

Prepare(p) ==
    /\ At(p, "prepare")
    /\ IF prepared[batch[p]] = "whole" THEN Stay(p, "install") /\ UNCHANGED prepared
       ELSE /\ prepared' = [prepared EXCEPT ![batch[p]] = "torn"]
            /\ Stay(p, "write prepared")
    /\ UNCHANGED <<locks, runs, ids, mine, world, completed, staged, backup,
                   claim, claimed, completion>>

WritePrepared(p) ==
    /\ At(p, "write prepared")
    /\ prepared' = [prepared EXCEPT ![batch[p]] = "whole"] /\ Stay(p, "install")
    /\ UNCHANGED <<locks, runs, ids, mine, world, completed, staged, backup,
                   claim, claimed, completion>>

-----------------------------------------------------------------------------
(* Backups and imported runs.                                              *)

\* os.replace of the staged tree, unless the backup is there.
Install(p) ==
    /\ At(p, "install") /\ Unedited(p, Current(p)) /\ Stay(p, "import")
    /\ LET b == batch[p]
           r == Current(p)
       IN  IF backup[b][r] = "whole" THEN UNCHANGED <<staged, backup>>
           ELSE /\ backup' = [backup EXCEPT ![b][r] = staged[b][r]]
                /\ staged' = [staged EXCEPT ![b][r] = "absent"]
    /\ UNCHANGED <<locks, runs, ids, mine, world, prepared, completed, claim,
                   claimed, completion>>

EnterImport(p) ==
    /\ At(p, "import") /\ lock[RunOf(p)] = None
    /\ lock' = [lock EXCEPT ![RunOf(p)] = p] /\ dirs' = dirs \cup {RunOf(p)}
    /\ Stay(p, IF status[RunOf(p)] = "none" THEN "import ref" ELSE "import receipt")
    /\ UNCHANGED <<allocator, migrating, intent, ref, status, receipt, ids, mine,
                   world, batches, completion>>

ImportRef(p) ==
    /\ At(p, "import ref")
    /\ ref' = [ref EXCEPT ![RunOf(p)] = "base"] /\ Stay(p, "import intent")
    /\ UNCHANGED <<locks, dirs, intent, status, receipt, ids, mine, world,
                   batches, completion>>

\* creation.intent.json, config.json and legacy-import.json.
ImportIntent(p) ==
    /\ At(p, "import intent")
    /\ intent' = [intent EXCEPT ![RunOf(p)] = <<batch[p], Current(p)>>]
    /\ Stay(p, "import state")
    /\ UNCHANGED <<locks, dirs, ref, status, receipt, ids, mine, world, batches,
                   completion>>

ImportState(p) ==
    /\ At(p, "import state")
    /\ status' = [status EXCEPT ![RunOf(p)] = "INSTALLING"]
    /\ Stay(p, "import receipt")
    /\ UNCHANGED <<locks, dirs, intent, ref, receipt, ids, mine, world, batches,
                   completion>>

\* The receipt carries the time of prepared.json: a retry finds its own.
ImportReceipt(p) ==
    /\ At(p, "import receipt")
    /\ receipt' = [receipt EXCEPT ![RunOf(p)] = IF @ = "bound" THEN @ ELSE "orphan"]
    /\ Stay(p, "import bind")
    /\ UNCHANGED <<locks, dirs, intent, ref, status, ids, mine, world, batches,
                   completion>>

\* Mutant: imported runs are finalized before the batch is claimed.
ImportAndFinalize(p) ==
    /\ At(p, "import bind")
    /\ receipt' = [receipt EXCEPT ![RunOf(p)] = "bound"]
    /\ lock' = [lock EXCEPT ![RunOf(p)] = None]
    /\ Advance(p, "install", "finalize")
    /\ UNCHANGED <<allocator, migrating, dirs, intent, ref, status, ids, mine,
                   world, batches, completion>>

ImportBind(p) ==
    /\ At(p, "import bind")
    /\ receipt' = [receipt EXCEPT ![RunOf(p)] = "bound"]
    /\ lock' = [lock EXCEPT ![RunOf(p)] = None]
    /\ Advance(p, "install", "claim")
    /\ UNCHANGED <<allocator, migrating, dirs, intent, ref, status, ids, mine,
                   world, batches, completion>>

-----------------------------------------------------------------------------
(* Claims, completed.json, finalization.                                   *)

Claim(p) ==
    /\ At(p, "claim")
    /\ IF claim[Current(p)] = "whole"
       THEN Advance(p, "claim", "complete") /\ UNCHANGED <<claim, claimed>>
       ELSE /\ claim' = [claim EXCEPT ![Current(p)] = "torn"]
            /\ claimed' = [claimed EXCEPT ![Current(p)] = batch[p]]
            /\ Stay(p, "write claim")
    /\ UNCHANGED <<locks, runs, ids, mine, world, prepared, completed, staged,
                   backup, completion>>

WriteClaim(p) ==
    /\ At(p, "write claim")
    /\ claim' = [claim EXCEPT ![Current(p)] = "whole"]
    /\ Advance(p, "claim", "complete")
    /\ UNCHANGED <<locks, runs, ids, mine, world, prepared, completed, staged,
                   backup, claimed, completion>>

Complete(p) ==
    /\ At(p, "complete")
    /\ CASE completed[batch[p]] = "absent" ->
              /\ completed' = [completed EXCEPT ![batch[p]] = "torn"]
              /\ Stay(p, "write completed")
         [] completed[batch[p]] = "whole" ->
              Stay(p, "finalize") /\ UNCHANGED completed
         [] OTHER -> FALSE
    /\ UNCHANGED <<locks, runs, ids, mine, world, prepared, staged, backup,
                   claim, claimed, completion>>

WriteCompleted(p) ==
    /\ At(p, "write completed")
    /\ completed' = [completed EXCEPT ![batch[p]] = "whole"] /\ Stay(p, "finalize")
    /\ UNCHANGED <<locks, runs, ids, mine, world, prepared, staged, backup,
                   claim, claimed, completion>>

AlreadyFinal(p) ==
    /\ At(p, "finalize") /\ lock[RunOf(p)] = None
    /\ status[RunOf(p)] = MappedStatus(Current(p))
    /\ Advance(p, "finalize", "verify")
    /\ UNCHANGED <<locks, runs, ids, mine, world, batches, completion>>

\* migration-completion.json carries the time of this invocation.
Finalize(p) ==
    /\ At(p, "finalize") /\ lock[RunOf(p)] = None
    /\ status[RunOf(p)] = "INSTALLING" /\ completion[RunOf(p)] = "absent"
    /\ completion' = [completion EXCEPT ![RunOf(p)] = "orphan"]
    /\ lock' = [lock EXCEPT ![RunOf(p)] = p] /\ Stay(p, "map")
    /\ UNCHANGED <<allocator, migrating, runs, ids, mine, world, batches>>

MapStatus(p) ==
    /\ At(p, "map")
    /\ completion' = [completion EXCEPT ![RunOf(p)] = "bound"]
    /\ status' = [status EXCEPT ![RunOf(p)] = MappedStatus(Current(p))]
    /\ lock' = [lock EXCEPT ![RunOf(p)] = None]
    /\ Advance(p, "finalize", "verify")
    /\ UNCHANGED <<allocator, migrating, dirs, intent, ref, receipt, ids, mine,
                   world, batches>>

Verify(p) ==
    /\ At(p, "verify")
    /\ \A r \in Selected(p) : MayVerify(batch[p], r, entries[p][r])
    /\ Answer(p, entries[p])

-----------------------------------------------------------------------------
(* Where migrate_schema3 raises.                                           *)

Refused(p) ==
    \/ At(p, "replay") /\ ClaimConflict(p)
    \/ At(p, "validate") /\ ~Valid(p)
    \/ /\ At(p, "reserve")
       /\ reservation[batch[p]] = "torn" \/ (reservation[batch[p]] = "absent" /\ ~Room(p))
    \/ /\ At(p, "stage")
       /\ ~Unedited(p, Current(p)) \/ staged[batch[p]][Current(p)] = "torn"
    \/ At(p, "copy") /\ ~Unedited(p, Current(p))
    \/ At(p, "install") /\ ~Unedited(p, Current(p))
    \/ At(p, "complete") /\ completed[batch[p]] = "torn"
    \/ /\ At(p, "finalize") /\ lock[RunOf(p)] = None
       /\ status[RunOf(p)] # MappedStatus(Current(p))
       /\ status[RunOf(p)] = "INSTALLING" => completion[RunOf(p)] # "absent"
    \/ /\ At(p, "verify")
       /\ \E r \in Selected(p) : MayFail(batch[p], r, entries[p][r])

Raise(p) == Refused(p) /\ Abandon(p) /\ UNCHANGED bounds
Return(p) == At(p, "answer") /\ Abandon(p) /\ UNCHANGED bounds

-----------------------------------------------------------------------------
\* vibe resume --replan
Replan(p, i) ==
    /\ Call(p) /\ lock[i] = None
    /\ status[i] = "PAUSED" /\ ref[i] = "base" /\ completion[i] = "bound"
    /\ lock' = [lock EXCEPT ![i] = p] /\ rid' = [rid EXCEPT ![p] = i]
    /\ status' = [status EXCEPT ![i] = "DRIVEN"] /\ Goto(p, "drive")
    /\ UNCHANGED <<allocator, dirs, intent, ref, receipt, ids, request, kills, mgVars>>

\* Somebody edits a requirement, or binds the import to another base.
Edit(r, v) ==
    /\ edits < MaxEdits /\ source[r] # v
    /\ source' = [source EXCEPT ![r] = v] /\ edits' = edits + 1
    /\ UNCHANGED <<rcVars, migrating, batches, completion, batch, entries, todo>>

\* A process is killed wherever it is.
Kill(p) ==
    /\ ~At(p, "idle") /\ kills < MaxKills /\ kills' = kills + 1
    /\ Abandon(p) /\ UNCHANGED calls

-----------------------------------------------------------------------------
MigrateStep(p) ==
    \/ Replay(p) \/ NoReplay(p) \/ Validate(p) \/ LockAllocator(p)
    \/ Reserve(p) \/ WriteReservation(p) \/ ReuseReservation(p)
    \/ Stage(p) \/ CopyTree(p) \/ Prepare(p) \/ WritePrepared(p) \/ Install(p)
    \/ EnterImport(p) \/ ImportRef(p) \/ ImportIntent(p) \/ ImportState(p)
    \/ ImportReceipt(p) \/ ImportBind(p) \/ Claim(p) \/ WriteClaim(p)
    \/ Complete(p) \/ WriteCompleted(p) \/ AlreadyFinal(p) \/ Finalize(p)
    \/ MapStatus(p) \/ Verify(p) \/ Raise(p) \/ Return(p)

Step(p) == (RunStep(p) /\ UNCHANGED mgVars) \/ MigrateStep(p)

Next ==
    \/ \E p \in Process :
        \/ Step(p) \/ Kill(p)
        \/ \E g \in Request : BeginRun(p, g) /\ UNCHANGED mgVars
        \/ \E S \in Selection : BeginMigrate(p, S)
        \/ \E i \in RunId : Replan(p, i)
    \/ \E r \in Requirement, v \in Version : Edit(r, v)

Spec == MigrationInit /\ [][Next]_vars

(* Commands go on to their end and locks are granted.  How long a Controller drives its
   run is its own affair: nothing is assumed of Drive. *)
FairSpec == Spec /\ \A p \in Process : WF_vars(~At(p, "drive") /\ Step(p))

-----------------------------------------------------------------------------
\* Places: of create_run, all of them under run-allocation.lock; of migrate_schema3 under
\* migration.lock, and then under both; the ones in a loop over the batch.
Creating  == {"match", "enter", "intent", "ref", "state", "receipt", "bind", "return"}
Importing == {"import ref", "import intent", "import state", "import receipt", "import bind"}
Closing   == {"complete", "write completed", "finalize", "map", "verify"}
Looping   == {"stage", "copy", "install", "import", "claim", "write claim", "finalize", "map"}
                \cup Importing
Allocated == {"reserve", "write reservation", "prepare", "write prepared"} \cup Looping
                \cup Closing
Migrating == {"replay", "validate", "allocate"} \cup Allocated

TypeOK ==
    /\ allocator \in Process \cup {None} /\ migrating \in Process \cup {None}
    /\ lock \in [RunId -> Process \cup {None}] /\ dirs \subseteq RunId
    /\ intent \in [RunId -> Request \cup (Batch \X Requirement) \cup {None}]
    /\ ref \in [RunId -> {"none", "base", "moved"}]
    /\ status \in [RunId -> {"none", "CREATED", "INSTALLING", "PAUSED", "READ_ONLY", "DRIVEN"}]
    /\ receipt \in [RunId -> Bound] /\ completion \in [RunId -> Bound]
    /\ reservation \in [Batch -> FileState] /\ prepared \in [Batch -> FileState]
    /\ completed \in [Batch -> FileState]
    /\ DOMAIN reserved = Batch /\ DOMAIN staged = Batch /\ DOMAIN backup = Batch
    /\ \A b \in Batch :
         /\ staged[b] \in [DOMAIN b -> FileState] /\ backup[b] \in [DOMAIN b -> FileState]
         /\ reservation[b] # "absent" => reserved[b] \in [DOMAIN b -> RunId]
    /\ claim \in [Requirement -> FileState] /\ claimed \in [Requirement -> Batch \cup {None}]
    /\ source \in [Requirement -> Version]
    /\ pc \in [Process -> {"idle", "execute", "drive", "answer"} \cup Creating \cup Migrating]
    /\ request \in [Process -> Request \cup {None}] /\ rid \in [Process -> RunId \cup {None}]
    /\ DOMAIN batch = Process /\ DOMAIN entries = Process
    /\ todo \in [Process -> SUBSET Requirement]
    /\ calls \in 0 .. MaxCalls /\ kills \in 0 .. MaxKills /\ edits \in 0 .. MaxEdits

(* A run ID has one owner: no two entries of the reservations on disk share
   an ID, and a reserved run carries no intent but that of its import, although
   `vibe run` allocates between the reservation of a killed batch and its
   retry (_allocate_run_id, _allocate_run_ids). *)
ReservedIdIsKept ==
    \A b, c \in Batch :
        reservation[b] = "whole" /\ reservation[c] = "whole" =>
        \A r \in DOMAIN b, q \in DOMAIN c :
            /\ reserved[b][r] = reserved[c][q] => b = c /\ r = q
            /\ intent[reserved[b][r]] \in {None, <<b, r>>}

(* The same request never has two unstarted runs, however many invocations
   were killed on the way and retried (create_run, _matching_creation_runs). *)
OneOpenCreation ==
    \A g \in Request : Cardinality({i \in Matches(g) : Pristine(i)}) <= 1

(* create_run returns a run of this request that is complete on disk: intent,
   ref, state and bound receipt, whichever invocations wrote which of them. *)
ReturnedRunIsWhole ==
    \A p \in Process :
        At(p, "execute") =>
            /\ intent[rid[p]] = request[p] /\ receipt[rid[p]] = "bound"
            /\ status[rid[p]] # "none" /\ ref[rid[p]] # "none"

(* An import that can be resumed, or was accepted as read-only, is the one its
   requirement's claim names, and its whole batch is claimed, backed up and
   completed: a requirement never has two usable imports, although a batch
   that was killed leaves runs behind (_finalize_imported_run). *)
FinalizedIsClaimed ==
    \A i \in RunId, b \in Batch :
        \A r \in DOMAIN b :
            intent[i] = <<b, r>> /\ status[i] \notin {"none", "INSTALLING"} =>
                /\ completed[b] = "whole" /\ reserved[b][r] = i
                /\ \A q \in DOMAIN b : /\ claim[q] = "whole" /\ claimed[q] = b
                                       /\ backup[b][q] = "whole"

(* Whatever was killed before and whoever asks again, the answer for a
   requirement is the run its claim names, and that run, its ref, its receipt
   and the backup of the claimed tree are there (migrate_schema3).  That the run
   is finalized as well is AnswerIsFinalized. *)
AnswerIsInstalled ==
    \A p \in Process :
        At(p, "answer") =>
            \A r \in Selected(p) :
                LET i == entries[p][r]
                IN  /\ claim[r] = "whole" /\ reserved[claimed[r]][r] = i
                    /\ claimed[r][r] = batch[p][r] /\ backup[claimed[r]][r] = "whole"
                    /\ status[i] \notin {"none", "CREATED"} /\ ref[i] # "none"
                    /\ receipt[i] = "bound"

(* "The batch is considered fully returned only when every selected run is
   finalized": no answer names a run that is still being installed. *)
AnswerIsFinalized ==
    \A p \in Process :
        At(p, "answer") => \A r \in Selected(p) : status[entries[p][r]] # "INSTALLING"

(* What holds instead.  A killed invocation's claims are answered early, with a
   run that nobody has finalized, only for a requirement that goes on as PAUSED
   and only after the whole batch of its claim was imported
   (_verify_completed_entry compares the status only). *)
EarlyAnswerIsPaused ==
    \A p \in Process :
        At(p, "answer") =>
            \A r \in Selected(p) :
                status[entries[p][r]] = "INSTALLING" =>
                    /\ r \notin ReadOnly
                    /\ \A q \in DOMAIN claimed[r] :
                         LET i == reserved[claimed[r]][q]
                         IN  /\ intent[i] = <<claimed[r], q>> /\ receipt[i] = "bound"
                             /\ backup[claimed[r]][q] = "whole"

(* So what a caller of migrate_schema3 may rely on, whatever was killed before: the
   claimed runs are installed, and one that is answered early goes on as PAUSED and
   belongs to a batch that was imported as a whole. *)
AnswerIsSound == AnswerIsInstalled /\ EarlyAnswerIsPaused

(***************************************************************************)
(* The inductive invariant.                                                *)
(***************************************************************************)
LocksMean ==
    \A p \in Process : /\ pc[p] \in Creating \cup Allocated => allocator = p
                       /\ pc[p] \in Migrating => migrating = p

\* What is written first is there when what is written later is.
RunsMean ==
    \A i \in RunId : /\ i \notin dirs => intent[i] = None
                     /\ status[i] # "none" => intent[i] # None /\ ref[i] # "none"
                     /\ status[i] = "CREATED" => intent[i] \in Request

\* ReservedIdIsKept, for a reservation that is still being written too.
OwnersMean ==
    \A b, c \in Batch :
        reservation[b] # "absent" /\ reservation[c] # "absent" =>
        \A r \in DOMAIN b, q \in DOMAIN c :
            /\ reserved[b][r] = reserved[c][q] => b = c /\ r = q
            /\ intent[reserved[b][r]] \in {None, <<b, r>>}

OpenMeans ==
    \A i, j \in RunId :
        intent[i] \in Request /\ intent[i] = intent[j] /\ Pristine(i) /\ Pristine(j) => i = j

\* The requirement's backup and imported run are whole.
Installed(b, r) ==
    /\ reservation[b] = "whole" /\ backup[b][r] = "whole"
    /\ ~ Pristine(reserved[b][r]) /\ ref[reserved[b][r]] # "none"
    /\ receipt[reserved[b][r]] = "bound"

\* A requirement is claimed after the whole batch was imported.
ClaimsMean ==
    \A r \in Requirement :
        claim[r] # "absent" =>
          /\ claimed[r] \in Batch /\ r \in DOMAIN claimed[r]
          /\ \A q \in DOMAIN claimed[r] : Installed(claimed[r], q)

\* Nothing goes back to MIGRATION_INSTALLING.
AnswersMean ==
    \A p \in Process :
        At(p, "answer") =>
            \A r \in Selected(p) : status[entries[p][r]] = "INSTALLING" => r \notin ReadOnly

\* What each place of create_run relies on: the run it found or was given is nobody else's,
\* and what it wrote before is there.
CreationMeans(p) ==
    /\ pc[p] \in Creating \cup {"execute"} => request[p] \in Request
    /\ pc[p] \in (Creating \ {"match"}) \cup {"execute", "drive"} => rid[p] \in RunId
    /\ pc[p] \in {"enter", "intent"} =>
         /\ \/ intent[rid[p]] = request[p]
            \/ /\ intent[rid[p]] = None
               /\ \A b \in Batch : \A r \in DOMAIN b :
                    reservation[b] # "absent" => reserved[b][r] # rid[p]
         /\ \A i \in RunId : intent[i] = request[p] /\ Pristine(i) => i = rid[p]
    /\ pc[p] = "intent" => rid[p] \in dirs
    /\ pc[p] \in {"ref", "state", "receipt", "bind", "return", "execute"} =>
         intent[rid[p]] = request[p]
    /\ pc[p] \in {"state", "receipt", "bind", "return", "execute"} => ref[rid[p]] # "none"
    /\ pc[p] \in {"receipt", "bind", "return", "execute"} => status[rid[p]] # "none"
    /\ pc[p] \in {"return", "execute"} => receipt[rid[p]] = "bound"

\* The batch, its loop and its reservation, at each place of migrate_schema3.
SelectionMeans(p) ==
    /\ pc[p] \in Migrating \cup {"answer"} => batch[p] \in Batch
    /\ pc[p] \in Migrating => todo[p] \subseteq Selected(p) /\ todo[p] # {}
    /\ pc[p] \in Migrating \ Looping => todo[p] = Selected(p)
    /\ pc[p] \in {"allocate"} \cup Allocated =>
         \A r \in Selected(p) : claim[r] # "absent" => claimed[r] = batch[p]
    /\ pc[p] \in Allocated \ {"reserve"} =>
         reservation[batch[p]] # "absent" /\ entries[p] = reserved[batch[p]]
    /\ pc[p] \in Allocated \ {"reserve", "write reservation"} =>
         reservation[batch[p]] = "whole"

\* What each loop has done, and what the one before it left.
LoopsMean(p) ==
    /\ pc[p] \in {"stage", "copy"} =>
         \A r \in Selected(p) \ todo[p] : staged[batch[p]][r] = "whole"
    /\ pc[p] \in {"prepare", "write prepared", "install"} =>
         \A r \in todo[p] : staged[batch[p]][r] = "whole"
    /\ pc[p] \in {"import"} \cup Importing =>
         \A r \in todo[p] \ {Current(p)} : staged[batch[p]][r] = "whole"
    /\ pc[p] \in {"install", "import"} \cup Importing =>
         \A r \in Selected(p) \ todo[p] : Installed(batch[p], r)
    /\ pc[p] \in {"claim", "write claim"} \cup Closing =>
         \A r \in Selected(p) : Installed(batch[p], r)
    /\ pc[p] \in {"claim", "write claim"} =>
         \A r \in Selected(p) \ todo[p] : claim[r] = "whole"
    /\ pc[p] = "write claim" => claim[Current(p)] # "absent"
    /\ pc[p] \in Closing => \A r \in Selected(p) : claim[r] = "whole"
    /\ pc[p] \in {"finalize", "map", "verify"} => completed[batch[p]] = "whole"

\* The run that is being imported.
ImportMeans(p) ==
    /\ pc[p] \in {"import"} \cup Importing => backup[batch[p]][Current(p)] = "whole"
    /\ pc[p] \in Importing => RunOf(p) \in dirs
    /\ pc[p] \in Importing \ {"import ref"} => ref[RunOf(p)] # "none"
    /\ pc[p] \in {"import ref", "import intent", "import state"} => status[RunOf(p)] = "none"
    /\ pc[p] = "import state" => intent[RunOf(p)] = <<batch[p], Current(p)>>
    /\ pc[p] \in {"import receipt", "import bind"} => ~ Pristine(RunOf(p))

IInv ==
    /\ TypeOK /\ LocksMean /\ RunsMean /\ OwnersMean /\ OpenMeans /\ ClaimsMean
    /\ FinalizedIsClaimed /\ AnswerIsInstalled /\ AnswersMean
    /\ \A p \in Process : /\ CreationMeans(p) /\ SelectionMeans(p)
                          /\ LoopsMean(p) /\ ImportMeans(p)

(* The run whose lock a process waits for with run-allocation.lock in its hands. *)
AwaitedBy(p) == IF At(p, "enter") THEN {rid[p]}
                ELSE IF pc[p] \in {"import", "finalize"} THEN {RunOf(p)} ELSE {}

(* run-allocation.lock becomes free again and again, or is kept by somebody who waits for
   the Controller that is driving the very run: migration.lock, run-allocation.lock and the
   run locks are taken in one order, and whoever waits for another lock gets it. *)
AllocatorIsFreed ==
    []<>(\/ allocator = None
         \/ \E i \in AwaitedBy(allocator), q \in Process : lock[i] = q /\ At(q, "drive"))
=============================================================================
