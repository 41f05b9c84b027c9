--------------------------- MODULE MigrationProofs ---------------------------
(***************************************************************************)
(* Proofs about run creation and migration, for any number of processes,   *)
(* requests, requirements, run IDs, calls, kills and edits.                *)
(***************************************************************************)
EXTENDS Migration, FiniteSetTheorems, TLAPS

USE DEF runs, bounds, local, rcVars, mine, batches, ids, locks, world, mgVars

-----------------------------------------------------------------------------
(***************************************************************************)
(* Numbers: the lowest of a set, and the allocation of run IDs by rank.    *)
(***************************************************************************)
LEMMA LowestIsLeast ==
    ASSUME NEW S \in SUBSET Nat, S # {}
    PROVE  Lowest(S) \in S /\ \A m \in S : Lowest(S) <= m
<1> DEFINE to(n) == 0 .. n
           T == {to(n) : n \in S}
<1>1. T \subseteq FiniteSubsetsOf(Nat)
  <2>1. \A n \in S : IsFiniteSet(to(n)) /\ to(n) \subseteq Nat
    BY FS_Interval
  <2> QED
    BY <2>1 DEF FiniteSubsetsOf
<1>2. PICK x \in T : \A y \in T : <<y, x>> \notin StrictSubsetOrdering(Nat)
  <2>1. T # {}
    OBVIOUS
  <2> QED
    BY <1>1, <2>1, FS_StrictSubsetOrderingWellFounded, WFMin
<1>3. PICK n \in S : x = to(n)
  BY <1>2
<1>4. ASSUME NEW m \in S, m < n  PROVE FALSE
  <2>1. to(m) \subseteq to(n) /\ n \in to(n) /\ n \notin to(m) /\ to(m) \in T
    BY <1>4
  <2>2. <<to(m), to(n)>> \in StrictSubsetOrdering(Nat)
    BY <2>1 DEF StrictSubsetOrdering
  <2> QED
    BY <1>2, <1>3, <2>1, <2>2
<1>5. \A m \in S : n <= m
  BY <1>4
<1> QED
  BY <1>5 DEF Lowest

\* The number of elements below.
Rank(U, i) == Cardinality({j \in U : j < i})

LEMMA RankGrows ==
    ASSUME NEW U \in SUBSET Nat, IsFiniteSet(U), NEW i \in U, NEW k \in Nat, i < k
    PROVE  Rank(U, i) \in Nat /\ Rank(U, k) \in Nat /\ Rank(U, i) < Rank(U, k)
<1> DEFINE below(n) == {j \in U : j < n}
<1>1. below(i) \subseteq U /\ below(k) \subseteq U
  OBVIOUS
<1>2. IsFiniteSet(below(i)) /\ IsFiniteSet(below(k))
  BY <1>1, FS_Subset
<1>3. Cardinality(below(i)) \in Nat /\ Cardinality(below(k)) \in Nat
  BY <1>2, FS_CardinalityType
<1>4. below(i) \subseteq below(k) /\ i \in below(k) /\ i \notin below(i)
  <2>1. i \in Nat /\ \A j \in U : j \in Nat
    OBVIOUS
  <2>2. \A j \in U : j < i => j < k
    BY <2>1
  <2>3. below(i) \subseteq below(k)
    BY <2>2
  <2>4. i \in below(k)
    OBVIOUS
  <2>5. ~ (i < i)
    BY <2>1
  <2> QED
    BY <2>3, <2>4, <2>5
<1>5. Cardinality(below(i)) <= Cardinality(below(k))
  BY <1>2, <1>4, FS_Subset
<1>6. Cardinality(below(i)) # Cardinality(below(k))
  BY <1>2, <1>4, FS_Subset
<1> QED
  BY <1>3, <1>5, <1>6 DEF Rank

LEMMA RankIsBelow ==
    ASSUME NEW U \in SUBSET Nat, IsFiniteSet(U), NEW i \in U
    PROVE  Rank(U, i) \in 0 .. Cardinality(U) - 1
<1> DEFINE below == {j \in U : j < i}
<1>1. below \subseteq U /\ i \notin below
  OBVIOUS
<1>2. /\ IsFiniteSet(below)
      /\ Cardinality(below) <= Cardinality(U) /\ Cardinality(below) # Cardinality(U)
  BY <1>1, FS_Subset
<1>3. Cardinality(below) \in Nat /\ Cardinality(U) \in Nat
  BY <1>2, FS_CardinalityType
<1> QED
  BY <1>2, <1>3 DEF Rank

\* Every rank below the size of the set is that of one of its elements.
LEMMA RanksAreTaken ==
    ASSUME NEW U \in SUBSET Nat, IsFiniteSet(U), NEW k \in 0 .. Cardinality(U) - 1
    PROVE  \E i \in U : Rank(U, i) = k
<1> DEFINE n == Cardinality(U)
           T == 0 .. n - 1
           f == [i \in U |-> Rank(U, i)]
<1>1. n \in Nat /\ n - 1 \in Int /\ n > 0
  BY FS_CardinalityType
<1>2. IsFiniteSet(T) /\ Cardinality(T) = n
  BY <1>1, FS_Interval
<1>3. f \in [U -> T]
  BY RankIsBelow
<1>4. \A i, j \in U : f[i] = f[j] => i = j
  <2> SUFFICES ASSUME NEW i \in U, NEW j \in U, i < j  PROVE f[i] # f[j]
    OBVIOUS
  <2> QED
    BY RankGrows
<1>5. f \in Injection(U, T)
  BY <1>3, <1>4 DEF Injection, IsInjective
<1>6. f \in Surjection(U, T)
  BY <1>2, <1>5, FS_Injection
<1> QED
  BY <1>6 DEF Surjection

\* The IDs allocated to the requirements of a batch are different unused ones.
LEMMA AllocationFits ==
    ASSUME NEW S \in SUBSET Nat, IsFiniteSet(S), Unused \in SUBSET Nat, IsFiniteSet(Unused),
           Cardinality(Unused) >= Cardinality(S)
    PROVE  /\ Allocation(S) \in [S -> Unused]
           /\ \A r, q \in S : Allocation(S)[r] = Allocation(S)[q] => r = q
<1>1. Cardinality(S) \in Nat /\ Cardinality(Unused) \in Nat
  BY FS_CardinalityType
<1>2. ASSUME NEW r \in S
      PROVE  Allocation(S)[r] \in Unused /\ Rank(Unused, Allocation(S)[r]) = Rank(S, r)
  <2>1. Rank(S, r) \in 0 .. Cardinality(S) - 1
    BY RankIsBelow
  <2>2. Rank(S, r) \in 0 .. Cardinality(Unused) - 1
    BY <1>1, <2>1
  <2>3. \E i \in Unused : Rank(Unused, i) = Rank(S, r)
    BY <2>2, RanksAreTaken
  <2>4. Allocation(S)[r] = CHOOSE i \in Unused : Rank(Unused, i) = Rank(S, r)
    BY DEF Allocation, Rank
  <2> QED
    BY <2>3, <2>4
<1>3. Allocation(S) \in [S -> Unused]
  <2>1. Allocation(S) = [r \in S |-> Allocation(S)[r]]
    BY DEF Allocation
  <2> QED
    BY <1>2, <2>1
<1>4. ASSUME NEW r \in S, NEW q \in S, r < q  PROVE Allocation(S)[r] # Allocation(S)[q]
  <2>1. Rank(S, r) # Rank(S, q)
    BY <1>4, RankGrows
  <2> QED
    BY <1>2, <2>1
<1>5. \A r, q \in S : Allocation(S)[r] = Allocation(S)[q] => r = q
  <2> SUFFICES ASSUME NEW r \in S, NEW q \in S, r # q
               PROVE  Allocation(S)[r] # Allocation(S)[q]
    OBVIOUS
  <2>1. CASE r < q
    BY <1>4, <2>1
  <2>2. CASE q < r
    BY <1>4, <2>2
  <2> QED
    BY <2>1, <2>2
<1> QED
  BY <1>3, <1>5

LEMMA BatchDomain ==
    ASSUME NEW b \in Batch
    PROVE  /\ DOMAIN b \in Selection /\ DOMAIN b \in SUBSET Requirement /\ DOMAIN b # {}
           /\ DOMAIN b \in SUBSET Nat /\ IsFiniteSet(DOMAIN b)
<1>1. PICK S \in Selection : b \in [S -> Version]
  BY DEF Batch
<1>2. S \in SUBSET Requirement /\ S # {} /\ DOMAIN b = S
  BY <1>1, SelectionAssumption DEF Selection
<1> QED
  BY <1>1, <1>2, RequirementAssumption, FS_Subset

-----------------------------------------------------------------------------
(***************************************************************************)
(* Frames.  What was written stays written, and what is not yet safe from  *)
(* others is under a lock: a step of one process keeps what every other    *)
(* relies on.                                                              *)
(***************************************************************************)
LEMMA Places ==
    /\ Creating = {"match", "enter", "intent", "ref", "state", "receipt", "bind", "return"}
    /\ Importing = {"import ref", "import intent", "import state", "import receipt", "import bind"}
    /\ Closing = {"complete", "write completed", "finalize", "map", "verify"}
    /\ Looping = {"stage", "copy", "install", "import", "claim", "write claim", "finalize", "map",
                  "import ref", "import intent", "import state", "import receipt", "import bind"}
    /\ Allocated = {"reserve", "write reservation", "prepare", "write prepared", "stage", "copy",
                    "install", "import", "claim", "write claim", "finalize", "map", "import ref",
                    "import intent", "import state", "import receipt", "import bind", "complete",
                    "write completed", "verify"}
    /\ Migrating = {"replay", "validate", "allocate"} \cup Allocated
BY DEF Creating, Importing, Closing, Looping, Allocated, Migrating

AnswerMeans(p) ==
    At(p, "answer") =>
        \A r \in Selected(p) :
            LET i == entries[p][r]
            IN  /\ claim[r] = "whole" /\ reserved[claimed[r]][r] = i
                /\ claimed[r][r] = batch[p][r] /\ backup[claimed[r]][r] = "whole"
                /\ status[i] \notin {"none", "CREATED"} /\ ref[i] # "none"
                /\ receipt[i] = "bound"
                /\ status[i] = "INSTALLING" => r \notin ReadOnly

\* What a process relies on.
Own(p) ==
    /\ pc[p] \in Creating \cup Allocated => allocator = p
    /\ pc[p] \in Migrating => migrating = p
    /\ AnswerMeans(p) /\ CreationMeans(p) /\ SelectionMeans(p) /\ LoopsMean(p) /\ ImportMeans(p)

\* What is on the disk.
Disk == RunsMean /\ OwnersMean /\ OpenMeans /\ ClaimsMean /\ FinalizedIsClaimed

LEMMA Parts == IInv <=> TypeOK /\ Disk /\ \A p \in Process : Own(p)
BY DEF IInv, Disk, Own, LocksMean, AnswerIsInstalled, AnswersMean, AnswerMeans

\* What no step undoes.
Grows ==
    /\ dirs \subseteq dirs'
    /\ \A i \in RunId :
         /\ intent[i] # None => intent'[i] = intent[i]
         /\ ref[i] # "none" => ref'[i] # "none"
         /\ status[i] # "none" => status'[i] # "none"
         /\ status[i] \notin {"none", "CREATED"} => status'[i] \notin {"none", "CREATED"}
         /\ status[i] \notin {"none", "CREATED", "INSTALLING"} => status'[i] # "INSTALLING"
         /\ receipt[i] = "bound" => receipt'[i] = "bound"
    /\ \A b \in Batch :
         /\ reservation[b] # "absent" => reservation'[b] # "absent" /\ reserved'[b] = reserved[b]
         /\ reservation[b] = "whole" => reservation'[b] = "whole"
         /\ completed[b] = "whole" => completed'[b] = "whole"
         /\ \A r \in DOMAIN b : backup[b][r] = "whole" => backup'[b][r] = "whole"
    /\ \A r \in Requirement :
         claim[r] = "whole" => claim'[r] = "whole" /\ claimed'[r] = claimed[r]

\* A step of p, seen by the others.
Frame(p) ==
    /\ \A q \in Process \ {p} :
         /\ pc'[q] = pc[q] /\ request'[q] = request[q] /\ rid'[q] = rid[q]
         /\ batch'[q] = batch[q] /\ entries'[q] = entries[q] /\ todo'[q] = todo[q]
    /\ allocator' = allocator \/ allocator \in {p, None}
    /\ migrating' = migrating \/ migrating \in {p, None}
    /\ \/ allocator = p
       \/ /\ UNCHANGED <<intent, reservation, reserved>>
          /\ \A i \in RunId : status[i] = "none" => status'[i] = "none"
    /\ migrating = p \/ UNCHANGED <<staged, claim, claimed>>

\* An installed requirement stays installed.
LEMMA InstalledStays ==
    ASSUME TypeOK, Grows, NEW b \in Batch, NEW r \in DOMAIN b, Installed(b, r)
    PROVE  Installed(b, r)' /\ reserved'[b] = reserved[b] /\ reserved[b][r] \in RunId
<1>1. reservation[b] = "whole" /\ reserved[b] \in [DOMAIN b -> RunId]
  BY DEF Installed, TypeOK
<1>2. reserved'[b] = reserved[b] /\ reserved[b][r] \in RunId
  BY <1>1 DEF Grows
<1> QED
  BY <1>1, <1>2 DEF Installed, Pristine, Grows

LEMMA ClaimsStay ==
    ASSUME IInv, Grows, NEW r \in Requirement, claim[r] = "whole"
    PROVE  /\ claim'[r] = "whole" /\ claimed'[r] = claimed[r] /\ claimed[r] \in Batch
           /\ r \in DOMAIN claimed[r] /\ Installed(claimed[r], r) /\ Installed(claimed[r], r)'
           /\ reserved'[claimed[r]] = reserved[claimed[r]]
           /\ reserved[claimed[r]][r] \in RunId
<1>1. claimed[r] \in Batch /\ r \in DOMAIN claimed[r] /\ Installed(claimed[r], r)
  BY DEF IInv, ClaimsMean
<1>2. claim'[r] = "whole" /\ claimed'[r] = claimed[r]
  BY DEF Grows
<1> QED
  BY <1>1, <1>2, InstalledStays DEF IInv

LEMMA OthersKeep ==
    ASSUME IInv, Grows, NEW p \in Process, Frame(p), NEW q \in Process \ {p}
    PROVE  Own(q)'
<1>0. TypeOK /\ Own(q) /\ None \notin Process /\ q \in Process
  BY Parts, NoRequestAssumption
<1>1. /\ pc'[q] = pc[q] /\ request'[q] = request[q] /\ rid'[q] = rid[q]
      /\ batch'[q] = batch[q] /\ entries'[q] = entries[q] /\ todo'[q] = todo[q]
      /\ Selected(q)' = Selected(q) /\ Current(q)' = Current(q) /\ RunOf(q)' = RunOf(q)
  BY DEF Frame, Selected, Current, RunOf
<1>2. allocator = q =>
        /\ allocator' = q /\ UNCHANGED <<intent, reservation, reserved>>
        /\ \A i \in RunId : status[i] = "none" => status'[i] = "none"
  BY <1>0 DEF Frame
<1>3. migrating = q => migrating' = q /\ UNCHANGED <<staged, claim, claimed>>
  BY <1>0 DEF Frame
<1>4. /\ pc'[q] \in Creating \cup Allocated => allocator' = q
      /\ pc'[q] \in Migrating => migrating' = q
  BY <1>0, <1>1, <1>2, <1>3 DEF Own
<1>5. pc[q] \in Migrating \cup {"answer"} =>
        /\ batch[q] \in Batch /\ Selected(q) \in SUBSET Requirement /\ Selected(q) # {}
        /\ Selected(q) = DOMAIN batch[q]
  BY <1>0, BatchDomain DEF Own, SelectionMeans, Selected
<1>6. AnswerMeans(q)'
  <2> SUFFICES ASSUME pc[q] = "answer", NEW r \in Selected(q)
               PROVE  LET i == entries'[q][r]
                      IN  /\ claim'[r] = "whole" /\ reserved'[claimed'[r]][r] = i
                          /\ claimed'[r][r] = batch'[q][r] /\ backup'[claimed'[r]][r] = "whole"
                          /\ status'[i] \notin {"none", "CREATED"} /\ ref'[i] # "none"
                          /\ receipt'[i] = "bound"
                          /\ status'[i] = "INSTALLING" => r \notin ReadOnly
    BY <1>1 DEF AnswerMeans, At
  <2>1. /\ r \in Requirement /\ claim[r] = "whole" /\ reserved[claimed[r]][r] = entries[q][r]
        /\ claimed[r][r] = batch[q][r]
        /\ status[entries[q][r]] \notin {"none", "CREATED"}
        /\ status[entries[q][r]] = "INSTALLING" => r \notin ReadOnly
    BY <1>0, <1>5 DEF Own, AnswerMeans, At
  <2>2. /\ claim'[r] = "whole" /\ claimed'[r] = claimed[r] /\ Installed(claimed[r], r)'
        /\ reserved'[claimed[r]] = reserved[claimed[r]] /\ entries[q][r] \in RunId
    BY <2>1, ClaimsStay
  <2>3. status'[entries[q][r]] = "INSTALLING" => r \notin ReadOnly
    BY <2>1, <2>2 DEF Grows
  <2> QED
    BY <1>1, <2>1, <2>2, <2>3 DEF Installed, Pristine
<1>7. CreationMeans(q)'
  <2>1. CreationMeans(q)
    BY <1>0 DEF Own
  <2>2. pc[q] \in {"enter", "intent"} => UNCHANGED <<intent, reservation, reserved>>
    BY <1>0, <1>2, Places DEF Own
  <2>3. pc[q] \in {"enter", "intent"} =>
          \A i \in RunId : Pristine(i)' => Pristine(i)
    BY <1>0 DEF Grows, Pristine, TypeOK
  <2>4. pc[q] \in {"enter", "intent"} =>
          /\ \/ intent'[rid'[q]] = request'[q]
             \/ /\ intent'[rid'[q]] = None
                /\ \A b \in Batch : \A r \in DOMAIN b :
                     reservation'[b] # "absent" => reserved'[b][r] # rid'[q]
          /\ \A i \in RunId : intent'[i] = request'[q] /\ Pristine(i)' => i = rid'[q]
    BY <1>1, <2>1, <2>2, <2>3 DEF CreationMeans
  <2>5. /\ pc[q] \in Creating \cup {"execute"} => request[q] \in Request
        /\ pc[q] \in (Creating \ {"match"}) \cup {"execute", "drive"} => rid[q] \in RunId
    BY <2>1 DEF CreationMeans
  <2>6. pc[q] = "intent" => rid[q] \in dirs'
    BY <2>1 DEF CreationMeans, Grows
  <2>7. pc[q] \in {"ref", "state", "receipt", "bind", "return", "execute"} =>
          request[q] \in Request /\ rid[q] \in RunId /\ intent'[rid[q]] = request[q]
    <3>1. pc[q] \in {"ref", "state", "receipt", "bind", "return", "execute"} =>
            request[q] \in Request /\ rid[q] \in RunId /\ intent[rid[q]] = request[q]
      BY <2>1, <2>5, Places DEF CreationMeans
    <3> QED
      BY <3>1, NoRequestAssumption DEF Grows
  <2>8. pc[q] \in {"state", "receipt", "bind", "return", "execute"} => ref'[rid[q]] # "none"
    BY <2>1, <2>7 DEF CreationMeans, Grows
  <2>9. pc[q] \in {"receipt", "bind", "return", "execute"} => status'[rid[q]] # "none"
    BY <2>1, <2>7 DEF CreationMeans, Grows
  <2>10. pc[q] \in {"return", "execute"} => receipt'[rid[q]] = "bound"
    BY <2>1, <2>7 DEF CreationMeans, Grows
  <2> QED
    BY <1>1, <2>4, <2>5, <2>6, <2>7, <2>8, <2>9, <2>10 DEF CreationMeans
<1>8. SelectionMeans(q)'
  <2>1. SelectionMeans(q)
    BY <1>0 DEF Own
  <2>2. pc[q] \in {"allocate"} \cup Allocated =>
          \A r \in Selected(q) : claim'[r] # "absent" => claimed'[r] = batch[q]
    <3>1. pc[q] \in {"allocate"} \cup Allocated => UNCHANGED <<staged, claim, claimed>>
      BY <1>0, <1>3, Places DEF Own
    <3> QED
      BY <2>1, <3>1 DEF SelectionMeans
  <2>3. pc[q] \in Allocated => pc[q] \in Migrating \cup {"answer"}
    BY Places
  <2>4. pc[q] \in Allocated \ {"reserve"} =>
          reservation'[batch[q]] # "absent" /\ entries[q] = reserved'[batch[q]]
    BY <1>5, <2>1, <2>3 DEF SelectionMeans, Grows
  <2>5. pc[q] \in Allocated \ {"reserve", "write reservation"} =>
          reservation'[batch[q]] = "whole"
    BY <1>5, <2>1, <2>3 DEF SelectionMeans, Grows
  <2>6. /\ pc[q] \in Migrating \cup {"answer"} => batch[q] \in Batch
        /\ pc[q] \in Migrating => todo[q] \subseteq Selected(q) /\ todo[q] # {}
        /\ pc[q] \in Migrating \ Looping => todo[q] = Selected(q)
    BY <2>1 DEF SelectionMeans
  <2> QED
    BY <1>1, <2>2, <2>4, <2>5, <2>6 DEF SelectionMeans
<1>9. pc[q] \in Allocated => allocator = q /\ migrating = q
  BY <1>0, Places DEF Own
<1>10. LoopsMean(q)'
  <2>1. LoopsMean(q) /\ SelectionMeans(q)
    BY <1>0 DEF Own
  <2>2. ASSUME pc[q] \in Allocated
        PROVE  /\ UNCHANGED <<staged, claim, claimed>>
               /\ \A r \in Selected(q) : Installed(batch[q], r) => Installed(batch[q], r)'
    <3>1. UNCHANGED <<staged, claim, claimed>>
      BY <1>3, <1>9, <2>2
    <3>2. batch[q] \in Batch /\ Selected(q) = DOMAIN batch[q]
      BY <1>5, <2>2, Places
    <3> QED
      BY <1>0, <1>1, <3>1, <3>2, InstalledStays
  <2>3. pc[q] \in {"stage", "copy", "prepare", "write prepared", "install", "import", "claim",
                   "write claim"} \cup Importing \cup Closing => pc[q] \in Allocated
    BY Places
  <2>4. pc[q] \in {"finalize", "map", "verify"} => completed'[batch[q]] = "whole"
    <3>1. pc[q] \in {"finalize", "map", "verify"} => pc[q] \in Migrating \cup {"answer"}
      BY Places
    <3> QED
      BY <1>5, <2>1, <3>1 DEF LoopsMean, Grows
  <2>6. ASSUME pc[q] \in {"stage", "copy", "prepare", "write prepared", "install", "import",
                          "claim", "write claim"} \cup Importing \cup Closing
        PROVE  LoopsMean(q)'
    <3>1. pc[q] \in Allocated
      BY <2>3, <2>6
    <3>2. \A r \in Selected(q) : Installed(batch[q], r) => Installed(batch[q], r)'
      BY <1>1, <2>2, <3>1 DEF Installed
    <3>3. UNCHANGED <<staged, claim, claimed>>
      BY <2>2, <3>1
    <3>4. todo[q] \subseteq Selected(q)
      BY <2>1, <3>1, Places DEF SelectionMeans
    <3> QED
      BY <1>1, <2>1, <2>4, <3>2, <3>3, <3>4 DEF LoopsMean
  <2>7. CASE pc[q] \notin {"stage", "copy", "prepare", "write prepared", "install", "import",
                          "claim", "write claim"} \cup Importing \cup Closing
    BY <1>1, <2>7, Places DEF LoopsMean
  <2> QED
    BY <2>6, <2>7
<1>11. ImportMeans(q)'
  <2>1. pc[q] \in {"import"} \cup Importing =>
          Current(q) \in DOMAIN batch[q] /\ RunOf(q) \in RunId /\ batch[q] \in Batch
    <3> SUFFICES ASSUME pc[q] \in {"import"} \cup Importing
                 PROVE  Current(q) \in DOMAIN batch[q] /\ RunOf(q) \in RunId
      BY <1>5, Places
    <3>1. todo[q] \in SUBSET Nat /\ todo[q] # {} /\ todo[q] \subseteq Selected(q)
      BY <1>0, <1>5, RequirementAssumption, Places DEF Own, SelectionMeans
    <3>2. Current(q) \in todo[q]
      BY <3>1, LowestIsLeast DEF Current
    <3>3. entries[q] = reserved[batch[q]] /\ reservation[batch[q]] # "absent" /\ batch[q] \in Batch
      BY <1>0, <1>5, Places DEF Own, SelectionMeans
    <3> QED
      BY <1>0, <1>5, <3>1, <3>2, <3>3, Places DEF RunOf, TypeOK
  <2>2. ImportMeans(q)
    BY <1>0 DEF Own
  <2>3. CASE pc[q] \in {"import"} \cup Importing
    <3>1. batch[q] \in Batch /\ Current(q) \in DOMAIN batch[q] /\ RunOf(q) \in RunId
      BY <2>1, <2>3
    <3>2. backup'[batch[q]][Current(q)] = "whole"
      BY <2>2, <2>3, <3>1 DEF ImportMeans, Grows
    <3>3. /\ pc[q] \in Importing => RunOf(q) \in dirs'
          /\ pc[q] \in Importing \ {"import ref"} => ref'[RunOf(q)] # "none"
      BY <2>2, <3>1 DEF ImportMeans, Grows
    <3>4. pc[q] = "import state" => intent'[RunOf(q)] = <<batch[q], Current(q)>>
      BY <1>2, <1>9, <2>2, Places DEF ImportMeans
    <3>5. pc[q] \in {"import receipt", "import bind"} => ~ Pristine(RunOf(q))'
      BY <1>1, <2>2, <3>1 DEF ImportMeans, Grows, Pristine
    <3>6. pc[q] \in {"import ref", "import intent", "import state"} => status'[RunOf(q)] = "none"
      BY <1>2, <1>9, <2>2, <3>1, Places DEF ImportMeans
    <3> QED
      BY <1>1, <3>2, <3>3, <3>4, <3>5, <3>6 DEF ImportMeans
  <2>4. CASE pc[q] \notin {"import"} \cup Importing
    BY <1>1, <2>4, Places DEF ImportMeans
  <2> QED
    BY <2>3, <2>4
<1> QED
  BY <1>4, <1>6, <1>7, <1>8, <1>10, <1>11 DEF Own

\* A step of p keeps the invariant, if it keeps the disk in order and p's own places.
LEMMA StepKeeps ==
    ASSUME IInv, NEW p \in Process, TypeOK', Grows, Frame(p), Disk', Own(p)'
    PROVE  IInv'
<1>1. ASSUME NEW q \in Process  PROVE Own(q)'
  BY OthersKeep
<1>2. (TypeOK /\ Disk /\ \A q \in Process : Own(q))'
  BY <1>1
<1>3. (IInv <=> TypeOK /\ Disk /\ \A q \in Process : Own(q))'
  BY DEF IInv, Disk, Own, LocksMean, AnswerIsInstalled, AnswersMean, AnswerMeans
<1> QED
  BY <1>2, <1>3

-----------------------------------------------------------------------------
(***************************************************************************)
(* Steps that leave the disk as it is, and steps that only add to runs.    *)
(***************************************************************************)
diskVars == <<runs, ids, completed, backup, claim, claimed>>

LEMMA QuietDisk ==
    ASSUME IInv, UNCHANGED diskVars
    PROVE  Grows /\ Disk'
<1>1. Grows
  BY DEF diskVars, Grows
<1>2. RunsMean'
  BY DEF diskVars, IInv, RunsMean
<1>3. OwnersMean'
  BY DEF diskVars, IInv, OwnersMean
<1>4. OpenMeans'
  BY DEF diskVars, IInv, OpenMeans, Pristine
<1>5. ClaimsMean'
  BY DEF diskVars, IInv, ClaimsMean, Installed, Pristine
<1>6. FinalizedIsClaimed'
  BY DEF diskVars, IInv, FinalizedIsClaimed
<1> QED
  BY <1>1, <1>2, <1>3, <1>4, <1>5, <1>6 DEF Disk

LEMMA QuietStep ==
    ASSUME IInv, NEW p \in Process, TypeOK', UNCHANGED diskVars, Frame(p), Own(p)'
    PROVE  IInv'
BY QuietDisk, StepKeeps

\* The claims name what was installed: nothing that is added takes it away.
LEMMA ClaimsKept ==
    ASSUME IInv, Grows, UNCHANGED <<claim, claimed>>
    PROVE  ClaimsMean'
<1> SUFFICES ASSUME NEW r \in Requirement, claim[r] # "absent"
             PROVE  /\ claimed[r] \in Batch /\ r \in DOMAIN claimed[r]
                    /\ \A q \in DOMAIN claimed[r] : Installed(claimed[r], q)'
  BY DEF ClaimsMean
<1>1. /\ claimed[r] \in Batch /\ r \in DOMAIN claimed[r]
      /\ \A q \in DOMAIN claimed[r] : Installed(claimed[r], q)
  BY DEF IInv, ClaimsMean
<1> QED
  BY <1>1, InstalledStays DEF IInv

LEMMA GrowingDisk ==
    ASSUME IInv, Grows, UNCHANGED <<intent, ids, claim, claimed>>, RunsMean',
           \A i \in RunId : Pristine(i)' => Pristine(i),
           \A i \in RunId : \/ status'[i] \in {"none", "INSTALLING"}
                            \/ status[i] \notin {"none", "INSTALLING"}
                            \/ intent[i] \in Request
    PROVE  Disk'
<1>1. OwnersMean'
  BY DEF IInv, OwnersMean
<1>2. OpenMeans'
  BY DEF IInv, OpenMeans
<1>3. ClaimsMean'
  BY ClaimsKept
<1>4. FinalizedIsClaimed'
  <2> SUFFICES ASSUME NEW i \in RunId, NEW b \in Batch, NEW r \in DOMAIN b,
                      intent[i] = <<b, r>>, status'[i] \notin {"none", "INSTALLING"}
               PROVE  /\ completed'[b] = "whole" /\ reserved[b][r] = i
                      /\ \A q \in DOMAIN b : /\ claim[q] = "whole" /\ claimed[q] = b
                                             /\ backup'[b][q] = "whole"
    BY DEF FinalizedIsClaimed
  <2>1. <<b, r>> \in Batch \X Requirement
    BY BatchDomain
  <2>2. intent[i] \notin Request
    BY <2>1, IntentAssumption
  <2>3. status[i] \notin {"none", "INSTALLING"}
    BY <2>2
  <2> QED
    BY <2>3 DEF IInv, FinalizedIsClaimed, Grows
<1> QED
  BY <1>1, <1>2, <1>3, <1>4 DEF Disk

-----------------------------------------------------------------------------
(***************************************************************************)
(* A process's own places.                                                 *)
(***************************************************************************)
LEMMA RunPlace ==
    ASSUME NEW p \in Process, pc'[p] \in {"idle", "execute", "drive"} \cup Creating,
           pc'[p] \in Creating => allocator' = p, CreationMeans(p)'
    PROVE  Own(p)'
<1>1. pc'[p] \notin Migrating \cup {"answer"} /\ pc'[p] \notin Allocated
  BY Places
<1>2. AnswerMeans(p)'
  BY <1>1 DEF AnswerMeans, At
<1>3. SelectionMeans(p)'
  BY <1>1, Places DEF SelectionMeans
<1>4. LoopsMean(p)'
  BY <1>1, Places DEF LoopsMean
<1>5. ImportMeans(p)'
  BY <1>1, Places DEF ImportMeans
<1> QED
  BY <1>1, <1>2, <1>3, <1>4, <1>5 DEF Own

LEMMA IdlePlace ==
    ASSUME NEW p \in Process, pc'[p] = "idle"
    PROVE  Own(p)'
<1>1. CreationMeans(p)'
  BY Places DEF CreationMeans
<1> QED
  BY <1>1, RunPlace, Places

LEMMA MigratePlace ==
    ASSUME NEW p \in Process, pc'[p] \in Migrating, migrating' = p,
           pc'[p] \in Allocated => allocator' = p,
           SelectionMeans(p)', LoopsMean(p)', ImportMeans(p)'
    PROVE  Own(p)'
<1>1. pc'[p] \notin {"idle", "execute", "drive", "answer"} \cup Creating
  BY Places
<1>2. AnswerMeans(p)'
  BY <1>1 DEF AnswerMeans, At
<1>3. CreationMeans(p)'
  BY <1>1, Places DEF CreationMeans
<1> QED
  BY <1>1, <1>2, <1>3 DEF Own

\* The batch of a process in migrate_schema3, and the requirement its loop is at.
LEMMA LoopFacts ==
    ASSUME IInv, NEW p \in Process, pc[p] \in Migrating
    PROVE  /\ migrating = p
           /\ pc[p] \in Allocated => allocator = p
           /\ batch[p] \in Batch /\ Selected(p) = DOMAIN batch[p]
           /\ Selected(p) \in SUBSET Requirement /\ todo[p] \subseteq Selected(p)
           /\ Current(p) \in todo[p]
           /\ SelectionMeans(p) /\ LoopsMean(p) /\ ImportMeans(p)
<1>1. TypeOK /\ Own(p)
  BY Parts
<1>2. SelectionMeans(p) /\ LoopsMean(p) /\ ImportMeans(p) /\ migrating = p
  BY <1>1 DEF Own
<1>3. pc[p] \in Allocated => allocator = p
  BY <1>1 DEF Own
<1>4. batch[p] \in Batch /\ todo[p] \subseteq Selected(p) /\ todo[p] # {}
  BY <1>2 DEF SelectionMeans
<1>5. Selected(p) = DOMAIN batch[p] /\ Selected(p) \in SUBSET Requirement
      /\ Selected(p) \in SUBSET Nat
  BY <1>4, BatchDomain DEF Selected
<1>6. Current(p) \in todo[p]
  <2>1. todo[p] \in SUBSET Nat
    BY <1>4, <1>5
  <2> QED
    BY <1>4, <2>1, LowestIsLeast DEF Current
<1> QED
  BY <1>2, <1>3, <1>4, <1>5, <1>6

LEMMA ImportFacts ==
    ASSUME IInv, NEW p \in Process, pc[p] \in Allocated \ {"reserve"}
    PROVE  /\ reservation[batch[p]] # "absent" /\ entries[p] = reserved[batch[p]]
           /\ reserved[batch[p]] \in [DOMAIN batch[p] -> RunId]
           /\ RunOf(p) = reserved[batch[p]][Current(p)] /\ RunOf(p) \in RunId
<1>1. pc[p] \in Migrating
  BY Places
<1>2. /\ batch[p] \in Batch /\ Current(p) \in DOMAIN batch[p]
      /\ SelectionMeans(p)
  BY <1>1, LoopFacts
<1>3. reservation[batch[p]] # "absent" /\ entries[p] = reserved[batch[p]]
  BY <1>2 DEF SelectionMeans
<1>4. reserved[batch[p]] \in [DOMAIN batch[p] -> RunId]
  BY <1>2, <1>3 DEF IInv, TypeOK
<1> QED
  BY <1>2, <1>3, <1>4 DEF RunOf

\* A loop over the batch goes on with what is left, or is over.
LEMMA Advancing ==
    ASSUME IInv, NEW p \in Process, pc[p] \in Migrating, NEW again, NEW after,
           Advance(p, again, after)
    PROVE  /\ \A q \in Process \ {p} : pc'[q] = pc[q] /\ todo'[q] = todo[q]
           /\ pc' = [pc EXCEPT ![p] = pc'[p]] /\ todo' \in [Process -> SUBSET Requirement]
           /\ \/ /\ pc'[p] = after /\ todo'[p] = Selected(p) /\ todo[p] = {Current(p)}
              \/ /\ pc'[p] = again /\ todo'[p] = todo[p] \ {Current(p)} /\ todo'[p] # {}
<1>1. /\ Current(p) \in todo[p] /\ Selected(p) \in SUBSET Requirement
      /\ todo[p] \subseteq Selected(p)
  BY LoopFacts
<1>2. /\ DOMAIN pc = Process /\ todo \in [Process -> SUBSET Requirement]
      /\ pc = [q \in Process |-> pc[q]]
  BY DEF IInv, TypeOK
<1>3. CASE todo[p] = {Current(p)}
  BY <1>1, <1>2, <1>3 DEF Advance, Goto
<1>4. CASE todo[p] # {Current(p)}
  BY <1>1, <1>2, <1>4 DEF Advance, Goto
<1> QED
  BY <1>3, <1>4

-----------------------------------------------------------------------------
(***************************************************************************)
(* create_run and execute.                                                 *)
(***************************************************************************)
\* A call that ends leaves its place and its locks.
LEMMA LeavingRun ==
    ASSUME IInv, NEW p \in Process, Leave(p),
           UNCHANGED <<dirs, intent, status, ids, bounds, mgVars>>,
           ref' \in [RunId -> {"none", "base", "moved"}], receipt' \in [RunId -> Bound]
    PROVE  TypeOK' /\ Frame(p) /\ Own(p)'
<1>1. TypeOK
  BY DEF IInv
<1>2. TypeOK'
  BY <1>1 DEF TypeOK, Leave, Free, Goto
<1>3. Frame(p)
  BY <1>1 DEF TypeOK, Leave, Free, Goto, Frame
<1>4. pc'[p] = "idle"
  BY <1>1 DEF TypeOK, Leave, Goto
<1> QED
  BY <1>2, <1>3, <1>4, IdlePlace

LEMMA BeginRunKeeps ==
    ASSUME IInv, NEW p \in Process, NEW g \in Request, BeginRun(p, g), UNCHANGED mgVars
    PROVE  IInv'
<1>1. TypeOK
  BY DEF IInv
<1>2. TypeOK'
  <2>1. calls' \in 0 .. MaxCalls
    BY <1>1, RunBoundsAssumption DEF TypeOK, BeginRun, Call
  <2> QED
    BY <1>1, <2>1, Places DEF TypeOK, BeginRun, Goto
<1>3. Frame(p)
  BY <1>1 DEF TypeOK, BeginRun, Goto, Frame
<1>4. pc'[p] = "match" /\ allocator' = p /\ request'[p] = g
  BY <1>1 DEF TypeOK, BeginRun, Goto
<1>5. Own(p)'
  BY <1>4, RunPlace, Places DEF CreationMeans
<1>6. UNCHANGED diskVars
  BY DEF BeginRun, diskVars
<1> QED
  BY <1>2, <1>3, <1>5, <1>6, QuietStep

\* The run that create_run chooses is the only pristine one of its request, or an unused one.
LEMMA ChosenIsFree ==
    ASSUME IInv, NEW g \in Request, Chosen(g) # None
    PROVE  /\ Chosen(g) \in RunId
           /\ \/ intent[Chosen(g)] = g
              \/ /\ intent[Chosen(g)] = None
                 /\ \A b \in Batch : \A r \in DOMAIN b :
                      reservation[b] # "absent" => reserved[b][r] # Chosen(g)
           /\ \A i \in RunId : intent[i] = g /\ Pristine(i) => i = Chosen(g)
<1> DEFINE open == {i \in Matches(g) : Pristine(i)}
<1>1. open \in SUBSET RunId /\ \A i \in RunId : i \in open <=> intent[i] = g /\ Pristine(i)
  BY DEF Matches
<1>2. RunId \in SUBSET Nat
  BY RunBoundsAssumption DEF RunId
<1>3. ~ (Cardinality(Matches(g)) > 1)
  BY DEF Chosen
<1>4. CASE open # {}
  <2>1. Lowest(open) \in open
    BY <1>1, <1>2, <1>4, LowestIsLeast
  <2>2. Chosen(g) = Lowest(open)
    BY <1>3, <1>4 DEF Chosen
  <2> HIDE DEF open
  <2> QED
    BY <1>1, <2>1, <2>2 DEF IInv, OpenMeans
<1>5. CASE open = {}
  <2>1. Readable /\ Unused # {} /\ Chosen(g) = Lowest(Unused)
    BY <1>3, <1>5 DEF Chosen
  <2>2. Unused \in SUBSET Nat
    BY <1>2 DEF Unused
  <2>3. Chosen(g) \in Unused
    BY <2>1, <2>2, LowestIsLeast
  <2>4. Chosen(g) \in RunId /\ Chosen(g) \notin dirs /\ Chosen(g) \notin ReservedIds
    BY <2>3 DEF Unused
  <2>5. intent[Chosen(g)] = None
    BY <2>4 DEF IInv, RunsMean
  <2>6. ASSUME NEW b \in Batch, NEW r \in DOMAIN b, reservation[b] # "absent"
        PROVE  reserved[b][r] # Chosen(g)
    <3>1. reservation[b] = "whole"
      BY <2>1, <2>6 DEF Readable, IInv, TypeOK, FileState
    <3> QED
      BY <2>4, <3>1 DEF ReservedIds
  <2> HIDE DEF open
  <2> QED
    BY <1>1, <1>5, <2>4, <2>5, <2>6
<1> QED
  BY <1>4, <1>5

LEMMA ChooseRunKeeps ==
    ASSUME IInv, NEW p \in Process, ChooseRun(p), UNCHANGED mgVars
    PROVE  IInv'
<1>1. TypeOK /\ Own(p)
  BY Parts
<1>2. pc[p] = "match" /\ request[p] \in Request /\ allocator = p
  BY <1>1, Places DEF ChooseRun, At, Own, CreationMeans
<1>3. Chosen(request[p]) # None
  BY DEF ChooseRun
<1>4. Chosen(request[p]) \in RunId
  BY <1>2, <1>3, ChosenIsFree
<1>5. TypeOK'
  BY <1>1, <1>4, Places DEF TypeOK, ChooseRun, Goto
<1>6. Frame(p)
  BY <1>1 DEF TypeOK, ChooseRun, Goto, Frame
<1>7. UNCHANGED diskVars
  BY DEF ChooseRun, diskVars
<1>8. /\ pc'[p] = "enter" /\ allocator' = p /\ request'[p] = request[p]
      /\ rid'[p] = Chosen(request[p]) /\ UNCHANGED <<intent, status, ids>>
  BY <1>1, <1>2 DEF TypeOK, ChooseRun, Goto
<1>9. CreationMeans(p)'
  <2>1. \A i \in RunId : Pristine(i)' = Pristine(i)
    BY <1>8 DEF Pristine
  <2> HIDE DEF ids
  <2>2. /\ \/ intent'[rid'[p]] = request'[p]
           \/ /\ intent'[rid'[p]] = None
              /\ \A b \in Batch : \A r \in DOMAIN b :
                   reservation'[b] # "absent" => reserved'[b][r] # rid'[p]
        /\ \A i \in RunId : intent'[i] = request'[p] /\ Pristine(i)' => i = rid'[p]
    BY <1>2, <1>3, <1>8, <2>1, ChosenIsFree DEF ids
  <2> QED
    BY <1>2, <1>4, <1>8, <2>2, Places DEF CreationMeans
<1>10. Own(p)'
  BY <1>8, <1>9, RunPlace, Places
<1> QED
  BY <1>5, <1>6, <1>7, <1>10, QuietStep

LEMMA RefuseRunKeeps ==
    ASSUME IInv, NEW p \in Process, RefuseRun(p), UNCHANGED mgVars
    PROVE  IInv'
<1>1. UNCHANGED diskVars /\ UNCHANGED bounds /\ Leave(p)
  BY DEF RefuseRun, diskVars
<1>2. TypeOK' /\ Frame(p) /\ Own(p)'
  BY <1>1, LeavingRun DEF diskVars, IInv, TypeOK
<1> QED
  BY <1>1, <1>2, QuietStep

\* What create_run relies on after its choice.
LEMMA CreationFacts ==
    ASSUME IInv, NEW p \in Process, pc[p] \in Creating \ {"match"}
    PROVE  TypeOK /\ allocator = p /\ CreationMeans(p) /\ rid[p] \in RunId /\ request[p] \in Request
<1>1. TypeOK /\ Own(p)
  BY Parts
<1>2. CreationMeans(p) /\ allocator = p
  BY <1>1 DEF Own
<1> QED
  BY <1>1, <1>2 DEF CreationMeans

LEMMA EnterRunKeeps ==
    ASSUME IInv, NEW p \in Process, EnterRun(p), UNCHANGED mgVars
    PROVE  IInv'
<1>1. pc[p] = "enter" /\ pc[p] \in Creating \ {"match"}
  BY Places DEF EnterRun, At
<1>2. /\ TypeOK /\ allocator = p /\ CreationMeans(p) /\ rid[p] \in RunId
      /\ request[p] \in Request
  BY <1>1, CreationFacts
<1>3. TypeOK'
  BY <1>2, Places DEF TypeOK, EnterRun, Goto
<1>4. Frame(p)
  BY <1>2 DEF TypeOK, EnterRun, Goto, Frame
<1>5. Grows
  BY DEF EnterRun, Grows
<1>6. Disk'
  <2>1. RunsMean'
    BY DEF EnterRun, RunsMean, IInv
  <2>2. \A i \in RunId : Pristine(i)' => Pristine(i)
    BY DEF EnterRun, Pristine
  <2>3. UNCHANGED <<intent, ids, claim, claimed, status>>
    BY DEF EnterRun
  <2> QED
    BY <1>5, <2>1, <2>2, <2>3, GrowingDisk
<1>7. /\ pc'[p] = "intent" /\ rid[p] \in dirs'
      /\ UNCHANGED <<intent, status, ids, request, rid, allocator>>
  BY <1>2 DEF TypeOK, EnterRun, Goto
<1>8. CreationMeans(p)'
  BY <1>1, <1>2, <1>7, Places DEF CreationMeans, Pristine
<1>9. Own(p)'
  BY <1>2, <1>7, <1>8, RunPlace, Places
<1> QED
  BY <1>3, <1>4, <1>5, <1>6, <1>9, StepKeeps

LEMMA PublishIntentKeeps ==
    ASSUME IInv, NEW p \in Process, PublishIntent(p), UNCHANGED mgVars
    PROVE  IInv'
<1>1. pc[p] = "intent" /\ pc[p] \in Creating \ {"match"}
  BY Places DEF PublishIntent, At
<1>2. /\ TypeOK /\ allocator = p /\ CreationMeans(p) /\ rid[p] \in RunId
      /\ request[p] \in Request
  BY <1>1, CreationFacts
<1>3. /\ \/ intent[rid[p]] = request[p]
         \/ /\ intent[rid[p]] = None
            /\ \A b \in Batch : \A r \in DOMAIN b :
                 reservation[b] # "absent" => reserved[b][r] # rid[p]
      /\ \A i \in RunId : intent[i] = request[p] /\ Pristine(i) => i = rid[p]
      /\ rid[p] \in dirs
  BY <1>1, <1>2 DEF CreationMeans
<1>4. TypeOK'
  BY <1>2, Places DEF TypeOK, PublishIntent, Goto
<1>5. Frame(p)
  BY <1>2 DEF TypeOK, PublishIntent, Goto, Frame
<1>6. /\ UNCHANGED <<dirs, ref, status, receipt, ids, claim, claimed, completed, backup>>
      /\ intent'[rid[p]] = request[p] /\ \A i \in RunId \ {rid[p]} : intent'[i] = intent[i]
  BY <1>2 DEF TypeOK, PublishIntent
<1>7. Grows
  BY <1>3, <1>6 DEF Grows
<1>8. \A i \in RunId : Pristine(i)' = Pristine(i)
  BY <1>6 DEF Pristine
<1>9. Disk'
  <2>1. RunsMean'
    BY <1>2, <1>3, <1>6, NoRequestAssumption DEF RunsMean, IInv
  <2>2. OwnersMean'
    <3> SUFFICES ASSUME NEW b \in Batch, NEW c \in Batch, reservation[b] # "absent",
                        reservation[c] # "absent", NEW r \in DOMAIN b, NEW q \in DOMAIN c
                 PROVE  /\ reserved[b][r] = reserved[c][q] => b = c /\ r = q
                        /\ intent'[reserved[b][r]] \in {None, <<b, r>>}
      BY <1>6 DEF OwnersMean
    <3>1. /\ reserved[b][r] = reserved[c][q] => b = c /\ r = q
          /\ intent[reserved[b][r]] \in {None, <<b, r>>} /\ reserved[b][r] \in RunId
      BY DEF IInv, OwnersMean, TypeOK
    <3>2. <<b, r>> \in Batch \X Requirement
      BY BatchDomain
    <3>3. request[p] # None /\ request[p] # <<b, r>>
      BY <1>2, <3>2, IntentAssumption, NoRequestAssumption
    <3>4. reserved[b][r] # rid[p]
      BY <1>3, <3>1, <3>3
    <3> QED
      BY <1>6, <3>1, <3>4
  <2>3. OpenMeans'
    BY <1>2, <1>3, <1>6, <1>8 DEF IInv, OpenMeans
  <2>4. ClaimsMean'
    BY <1>6, <1>7, ClaimsKept
  <2>5. FinalizedIsClaimed'
    <3> SUFFICES ASSUME NEW i \in RunId, NEW b \in Batch, NEW r \in DOMAIN b,
                        intent'[i] = <<b, r>>, status[i] \notin {"none", "INSTALLING"}
                 PROVE  /\ completed[b] = "whole" /\ reserved[b][r] = i
                        /\ \A q \in DOMAIN b : /\ claim[q] = "whole" /\ claimed[q] = b
                                               /\ backup[b][q] = "whole"
      BY <1>6 DEF FinalizedIsClaimed
    <3>1. <<b, r>> \in Batch \X Requirement
      BY BatchDomain
    <3>2. intent[i] = <<b, r>>
      BY <1>2, <1>6, <3>1, IntentAssumption
    <3> QED
      BY <3>2 DEF IInv, FinalizedIsClaimed
  <2> QED
    BY <2>1, <2>2, <2>3, <2>4, <2>5 DEF Disk
<1>10. pc'[p] = "ref" /\ UNCHANGED <<request, rid, allocator>>
  BY <1>2 DEF TypeOK, PublishIntent, Goto
<1>11. CreationMeans(p)'
  BY <1>2, <1>6, <1>10, Places DEF CreationMeans
<1>12. Own(p)'
  BY <1>2, <1>10, <1>11, RunPlace, Places
<1> QED
  BY <1>4, <1>5, <1>7, <1>9, <1>12, StepKeeps

LEMMA CreateRefKeeps ==
    ASSUME IInv, NEW p \in Process, CreateRef(p), UNCHANGED mgVars
    PROVE  IInv'
<1>1. pc[p] = "ref" /\ pc[p] \in Creating \ {"match"}
  BY Places DEF CreateRef, At
<1>2. /\ TypeOK /\ allocator = p /\ CreationMeans(p) /\ rid[p] \in RunId
      /\ request[p] \in Request
  BY <1>1, CreationFacts
<1>3. CASE ref[rid[p]] = "moved" /\ Leave(p) /\ UNCHANGED ref
  <2>1. UNCHANGED diskVars /\ UNCHANGED bounds
    BY <1>3 DEF CreateRef, diskVars
  <2>2. TypeOK' /\ Frame(p) /\ Own(p)'
    BY <1>2, <1>3, <2>1, LeavingRun DEF diskVars, TypeOK
  <2> QED
    BY <2>1, <2>2, QuietStep
<1>4. CASE /\ ref[rid[p]] # "moved"
           /\ ref' = [ref EXCEPT ![rid[p]] = "base"] /\ Goto(p, "state")
           /\ UNCHANGED <<allocator, lock, request, rid>>
  <2>1. TypeOK'
    BY <1>2, <1>4, Places DEF TypeOK, CreateRef, Goto
  <2>2. Frame(p)
    BY <1>2, <1>4 DEF TypeOK, CreateRef, Goto, Frame
  <2>3. /\ UNCHANGED <<dirs, intent, status, receipt, ids, claim, claimed, completed, backup>>
        /\ ref'[rid[p]] = "base" /\ \A i \in RunId \ {rid[p]} : ref'[i] = ref[i]
    BY <1>2, <1>4 DEF TypeOK, CreateRef
  <2>4. Grows
    BY <2>3 DEF Grows
  <2>5. RunsMean'
    BY <2>3 DEF IInv, RunsMean
  <2>6. Disk'
    BY <2>3, <2>4, <2>5, GrowingDisk DEF Pristine
  <2>7. pc'[p] = "state" /\ UNCHANGED <<request, rid, allocator>>
    BY <1>2, <1>4 DEF TypeOK, Goto
  <2>8. CreationMeans(p)'
    BY <1>1, <1>2, <2>3, <2>7, Places DEF CreationMeans
  <2>9. Own(p)'
    BY <1>2, <2>7, <2>8, RunPlace, Places
  <2> QED
    BY <2>1, <2>2, <2>4, <2>6, <2>9, StepKeeps
<1> QED
  BY <1>3, <1>4 DEF CreateRef

LEMMA CreateStateKeeps ==
    ASSUME IInv, NEW p \in Process, CreateState(p), UNCHANGED mgVars
    PROVE  IInv'
<1>1. pc[p] = "state" /\ pc[p] \in Creating \ {"match"}
  BY Places DEF CreateState, At
<1>2. /\ TypeOK /\ allocator = p /\ CreationMeans(p) /\ rid[p] \in RunId
      /\ request[p] \in Request
  BY <1>1, CreationFacts
<1>3. intent[rid[p]] = request[p] /\ ref[rid[p]] # "none"
  BY <1>1, <1>2 DEF CreationMeans
<1>4. TypeOK'
  BY <1>2, Places DEF TypeOK, CreateState, Goto
<1>5. Frame(p)
  BY <1>2 DEF TypeOK, CreateState, Goto, Frame
<1>6. /\ UNCHANGED <<dirs, intent, ref, receipt, ids, claim, claimed, completed, backup>>
      /\ status'[rid[p]] = IF status[rid[p]] = "none" THEN "CREATED" ELSE status[rid[p]]
      /\ \A i \in RunId \ {rid[p]} : status'[i] = status[i]
  BY <1>2 DEF TypeOK, CreateState
<1>7. Grows
  BY <1>6 DEF Grows
<1>8. RunsMean'
  BY <1>2, <1>3, <1>6, NoRequestAssumption DEF IInv, RunsMean
<1>9. Disk'
  <2>1. \A i \in RunId : Pristine(i)' => Pristine(i)
    BY <1>6 DEF Pristine
  <2> QED
    BY <1>2, <1>3, <1>6, <1>7, <1>8, <2>1, GrowingDisk
<1>10. pc'[p] = "receipt" /\ UNCHANGED <<request, rid, allocator>>
  BY <1>2 DEF TypeOK, CreateState, Goto
<1>11. CreationMeans(p)'
  BY <1>1, <1>2, <1>3, <1>6, <1>10, Places DEF CreationMeans
<1>12. Own(p)'
  BY <1>2, <1>10, <1>11, RunPlace, Places
<1> QED
  BY <1>4, <1>5, <1>7, <1>9, <1>12, StepKeeps

\* A step of create_run that publishes or binds the receipt.
LEMMA ReceiptStep ==
    ASSUME IInv, NEW p \in Process, NEW to \in {"bind", "return"},
           pc[p] \in {"receipt", "bind"}, Goto(p, to),
           receipt' \in [RunId -> Bound], receipt[rid[p]] # "bound" \/ UNCHANGED receipt,
           \A i \in RunId \ {rid[p]} : receipt'[i] = receipt[i],
           to = "return" => receipt'[rid[p]] = "bound",
           UNCHANGED <<allocator, lock, dirs, intent, ref, status, ids, request, rid, bounds,
                       mgVars>>
    PROVE  IInv'
<1>1. pc[p] \in Creating \ {"match"}
  BY Places
<1>2. /\ TypeOK /\ allocator = p /\ CreationMeans(p) /\ rid[p] \in RunId
      /\ request[p] \in Request
  BY <1>1, CreationFacts
<1>3. TypeOK'
  BY <1>2, Places DEF TypeOK, Goto
<1>4. Frame(p)
  BY <1>2 DEF TypeOK, Goto, Frame
<1>5. Grows
  BY <1>2 DEF Grows
<1>6. Disk'
  <2>1. RunsMean'
    BY DEF IInv, RunsMean
  <2> QED
    BY <1>5, <2>1, GrowingDisk DEF Pristine
<1>7. pc'[p] = to
  BY <1>2 DEF TypeOK, Goto
<1>8. CreationMeans(p)'
  BY <1>2, <1>7, Places DEF CreationMeans
<1>9. Own(p)'
  BY <1>2, <1>7, <1>8, RunPlace, Places
<1> QED
  BY <1>3, <1>4, <1>5, <1>6, <1>9, StepKeeps

LEMMA PublishReceiptKeeps ==
    ASSUME IInv, NEW p \in Process, PublishReceipt(p), UNCHANGED mgVars
    PROVE  IInv'
<1>1. pc[p] = "receipt" /\ pc[p] \in Creating \ {"match"}
  BY Places DEF PublishReceipt, At
<1>2. TypeOK /\ rid[p] \in RunId
  BY <1>1, CreationFacts
<1>3. CASE receipt[rid[p]] = "bound" /\ Goto(p, "return")
           /\ UNCHANGED <<allocator, lock, receipt, request, rid>>
  BY <1>1, <1>2, <1>3, ReceiptStep DEF PublishReceipt, TypeOK
<1>4. CASE receipt[rid[p]] = "absent" /\ Goto(p, "bind")
           /\ receipt' = [receipt EXCEPT ![rid[p]] = "orphan"]
           /\ UNCHANGED <<allocator, lock, request, rid>>
  <2>1. receipt' \in [RunId -> Bound]
    BY <1>2, <1>4 DEF TypeOK, Bound
  <2>2. \A i \in RunId \ {rid[p]} : receipt'[i] = receipt[i]
    BY <1>2, <1>4 DEF TypeOK
  <2> QED
    BY <1>1, <1>4, <2>1, <2>2, ReceiptStep DEF PublishReceipt
<1>5. CASE receipt[rid[p]] = "orphan" /\ Leave(p) /\ UNCHANGED receipt
  <2>1. UNCHANGED diskVars /\ UNCHANGED bounds
    BY <1>5 DEF PublishReceipt, diskVars
  <2>2. TypeOK' /\ Frame(p) /\ Own(p)'
    BY <1>2, <1>5, <2>1, LeavingRun DEF diskVars, TypeOK
  <2> QED
    BY <2>1, <2>2, QuietStep
<1> QED
  BY <1>3, <1>4, <1>5 DEF PublishReceipt

LEMMA BindReceiptKeeps ==
    ASSUME IInv, NEW p \in Process, BindReceipt(p), UNCHANGED mgVars
    PROVE  IInv'
<1>1. pc[p] = "bind" /\ pc[p] \in Creating \ {"match"}
  BY Places DEF BindReceipt, At
<1>2. TypeOK /\ rid[p] \in RunId
  BY <1>1, CreationFacts
<1>3. receipt' \in [RunId -> Bound] /\ receipt'[rid[p]] = "bound"
  BY <1>2 DEF TypeOK, Bound, BindReceipt
<1>4. \A i \in RunId \ {rid[p]} : receipt'[i] = receipt[i]
  BY <1>2 DEF TypeOK, BindReceipt
<1>5. receipt[rid[p]] # "bound" \/ UNCHANGED receipt
  BY <1>2 DEF TypeOK, BindReceipt
<1> QED
  BY <1>1, <1>3, <1>4, <1>5, ReceiptStep DEF BindReceipt

LEMMA ReturnRunKeeps ==
    ASSUME IInv, NEW p \in Process, ReturnRun(p), UNCHANGED mgVars
    PROVE  IInv'
<1>1. pc[p] = "return" /\ pc[p] \in Creating \ {"match"}
  BY Places DEF ReturnRun, At
<1>2. /\ TypeOK /\ allocator = p /\ CreationMeans(p) /\ rid[p] \in RunId
      /\ request[p] \in Request
  BY <1>1, CreationFacts
<1>3. TypeOK'
  BY <1>2, Places DEF TypeOK, ReturnRun, Free, Goto
<1>4. Frame(p)
  BY <1>2 DEF TypeOK, ReturnRun, Free, Goto, Frame
<1>5. UNCHANGED diskVars
  BY DEF ReturnRun, diskVars
<1>6. pc'[p] = "execute" /\ UNCHANGED <<request, rid>>
  BY <1>2 DEF TypeOK, ReturnRun, Goto
<1>7. CreationMeans(p)'
  BY <1>1, <1>2, <1>5, <1>6, Places DEF CreationMeans, diskVars
<1>8. Own(p)'
  BY <1>6, <1>7, RunPlace, Places
<1> QED
  BY <1>3, <1>4, <1>5, <1>8, QuietStep

\* A Controller starts to drive a run.
LEMMA DriveStep ==
    ASSUME IInv, NEW p \in Process, NEW i \in RunId, pc[p] \in {"idle", "execute"},
           status[i] # "none", intent[i] \in Request \/ status[i] = "PAUSED",
           status' = [status EXCEPT ![i] = "DRIVEN"], lock' = [lock EXCEPT ![i] = p],
           Goto(p, "drive"), rid' = [rid EXCEPT ![p] = i], calls' \in 0 .. MaxCalls,
           UNCHANGED <<allocator, dirs, intent, ref, receipt, ids, request, kills, mgVars>>
    PROVE  IInv'
<1>1. TypeOK
  BY DEF IInv
<1>2. TypeOK'
  BY <1>1, Places DEF TypeOK, Goto
<1>4. status'[i] = "DRIVEN" /\ \A j \in RunId \ {i} : status'[j] = status[j]
  BY <1>1 DEF TypeOK
<1>3. Frame(p)
  BY <1>1, <1>4 DEF TypeOK, Goto, Frame
<1>5. Grows
  BY <1>4 DEF Grows
<1>6. RunsMean'
  BY <1>4 DEF IInv, RunsMean
<1>7. Disk'
  <2>1. \A j \in RunId : Pristine(j)' => Pristine(j)
    BY <1>4 DEF Pristine
  <2> QED
    BY <1>4, <1>5, <1>6, <2>1, GrowingDisk
<1>8. pc'[p] = "drive" /\ rid'[p] = i
  BY <1>1 DEF TypeOK, Goto
<1>9. Own(p)'
  BY <1>8, RunPlace, Places DEF CreationMeans
<1> QED
  BY <1>2, <1>3, <1>5, <1>7, <1>9, StepKeeps

LEMMA ExecuteKeeps ==
    ASSUME IInv, NEW p \in Process, Execute(p), UNCHANGED mgVars
    PROVE  IInv'
<1>1. TypeOK /\ Own(p) /\ pc[p] = "execute"
  BY Parts DEF Execute, At
<1>2. /\ rid[p] \in RunId /\ request[p] \in Request
      /\ intent[rid[p]] = request[p] /\ status[rid[p]] # "none"
  BY <1>1 DEF Own, CreationMeans
<1>3. rid' = [rid EXCEPT ![p] = rid[p]] /\ calls' \in 0 .. MaxCalls
  BY <1>1 DEF TypeOK, Execute
<1> QED
  BY <1>1, <1>2, <1>3, DriveStep DEF Execute

LEMMA ReplanKeeps ==
    ASSUME IInv, NEW p \in Process, NEW i \in RunId, Replan(p, i)
    PROVE  IInv'
<1>1. calls' \in 0 .. MaxCalls /\ pc[p] = "idle"
  BY RunBoundsAssumption DEF Replan, Call, IInv, TypeOK
<1> QED
  BY <1>1, DriveStep DEF Replan

LEMMA DriveKeeps ==
    ASSUME IInv, NEW p \in Process, Drive(p), UNCHANGED mgVars
    PROVE  IInv'
<1>1. TypeOK /\ Own(p) /\ pc[p] = "drive"
  BY Parts DEF Drive, At
<1>2. rid[p] \in RunId
  BY <1>1 DEF Own, CreationMeans
<1>3. ref' \in [RunId -> {"none", "base", "moved"}]
  BY <1>1, <1>2 DEF TypeOK, Drive
<1>4. TypeOK' /\ Frame(p) /\ Own(p)'
  BY <1>1, <1>3, LeavingRun DEF TypeOK, Drive
<1>5. \A i \in RunId : ref[i] # "none" => ref'[i] # "none"
  BY <1>1, <1>2 DEF TypeOK, Drive
<1>6. Grows
  BY <1>5 DEF Grows, Drive
<1>7. RunsMean'
  BY <1>5 DEF IInv, RunsMean, Drive
<1>8. Disk'
  BY <1>6, <1>7, GrowingDisk DEF Drive, Pristine
<1> QED
  BY <1>4, <1>6, <1>8, StepKeeps

-----------------------------------------------------------------------------
(***************************************************************************)
(* migrate_schema3: where it begins and ends.                              *)
(***************************************************************************)
LEMMA AbandonKeeps ==
    ASSUME IInv, NEW p \in Process, Abandon(p), UNCHANGED calls, kills' \in 0 .. MaxKills
    PROVE  IInv'
<1>1. TypeOK
  BY DEF IInv
<1>2. TypeOK'
  BY <1>1 DEF TypeOK, Abandon, Leave, Free, Goto
<1>3. Frame(p)
  BY <1>1 DEF TypeOK, Abandon, Leave, Free, Goto, Frame
<1>4. pc'[p] = "idle"
  BY <1>1 DEF TypeOK, Abandon, Leave, Goto
<1>5. UNCHANGED diskVars
  BY DEF Abandon, diskVars
<1> QED
  BY <1>2, <1>3, <1>4, <1>5, IdlePlace, QuietStep

LEMMA EndsKeep ==
    ASSUME IInv, NEW p \in Process, Raise(p) \/ Return(p) \/ Kill(p)
    PROVE  IInv'
<1>1. kills' \in 0 .. MaxKills
  BY RunBoundsAssumption DEF Raise, Return, Kill, IInv, TypeOK
<1> QED
  BY <1>1, AbandonKeeps DEF Raise, Return, Kill

LEMMA EditKeeps ==
    ASSUME IInv, NEW r \in Requirement, NEW v \in Version, Edit(r, v)
    PROVE  IInv'
<1>1. TypeOK
  BY DEF IInv
<1>2. TypeOK'
  <2>1. edits' \in 0 .. MaxEdits
    BY <1>1, MigrationAssumption DEF TypeOK, Edit
  <2> QED
    BY <1>1, <2>1 DEF TypeOK, Edit
<1>3. UNCHANGED diskVars
  BY DEF Edit, diskVars
<1>4. Disk'
  BY <1>3, QuietDisk
<1>5. ASSUME NEW p \in Process  PROVE Own(p)'
  <2>1. Own(p)
    BY Parts
  <2>2. AnswerMeans(p)'
    BY <2>1 DEF Own, AnswerMeans, Edit, At, Selected
  <2>3. CreationMeans(p)'
    BY <2>1 DEF Own, CreationMeans, Edit, Pristine
  <2>4. SelectionMeans(p)'
    BY <2>1 DEF Own, SelectionMeans, Edit, Selected
  <2>5. LoopsMean(p)'
    BY <2>1 DEF Own, LoopsMean, Edit, Selected, Current, Installed, Pristine
  <2>6. ImportMeans(p)'
    BY <2>1 DEF Own, ImportMeans, Edit, Current, RunOf, Pristine
  <2> QED
    BY <2>1, <2>2, <2>3, <2>4, <2>5, <2>6 DEF Own, Edit
<1>6. (IInv <=> TypeOK /\ Disk /\ \A q \in Process : Own(q))'
  BY DEF IInv, Disk, Own, LocksMean, AnswerIsInstalled, AnswersMean, AnswerMeans
<1> QED
  BY <1>2, <1>4, <1>5, <1>6

LEMMA BeginMigrateKeeps ==
    ASSUME IInv, NEW p \in Process, NEW S \in Selection, BeginMigrate(p, S)
    PROVE  IInv'
<1>1. TypeOK
  BY DEF IInv
<1>2. S \in SUBSET Requirement /\ S # {}
  BY SelectionAssumption DEF Selection
<1>3. TypeOK'
  <2>1. calls' \in 0 .. MaxCalls
    BY <1>1, RunBoundsAssumption DEF TypeOK, BeginMigrate, Call
  <2> QED
    BY <1>1, <1>2, <2>1, Places DEF TypeOK, BeginMigrate, Goto
<1>4. Frame(p)
  BY <1>1 DEF TypeOK, BeginMigrate, Goto, Frame
<1>5. UNCHANGED diskVars
  BY DEF BeginMigrate, diskVars
<1>6. /\ pc'[p] = "replay" /\ migrating' = p /\ todo'[p] = S
      /\ batch'[p] = [r \in S |-> source[r]]
  BY <1>1 DEF TypeOK, BeginMigrate, Goto
<1>7. batch'[p] \in Batch /\ Selected(p)' = S
  BY <1>1, <1>2, <1>6 DEF Batch, TypeOK, Selected
<1>8. SelectionMeans(p)'
  BY <1>2, <1>6, <1>7, Places DEF SelectionMeans
<1>9. LoopsMean(p)' /\ ImportMeans(p)'
  BY <1>6, Places DEF LoopsMean, ImportMeans
<1>10. Own(p)'
  BY <1>6, <1>8, <1>9, MigratePlace, Places
<1> QED
  BY <1>3, <1>4, <1>5, <1>10, QuietStep

\* From a place that is not in a loop to the next, the batch is the same and whole.
LEMMA SelectionStays ==
    ASSUME IInv, NEW p \in Process, pc[p] \in Migrating, pc'[p] \in Migrating,
           batch'[p] = batch[p], todo'[p] \subseteq Selected(p), todo'[p] # {},
           pc'[p] \in Migrating \ Looping => todo'[p] = Selected(p),
           pc'[p] \in {"allocate"} \cup Allocated =>
             \A r \in Selected(p) : claim'[r] # "absent" => claimed'[r] = batch[p],
           pc'[p] \in Allocated \ {"reserve"} =>
             reservation'[batch[p]] # "absent" /\ entries'[p] = reserved'[batch[p]],
           pc'[p] \in Allocated \ {"reserve", "write reservation"} =>
             reservation'[batch[p]] = "whole"
    PROVE  SelectionMeans(p)' /\ Selected(p)' = Selected(p)
<1>1. batch[p] \in Batch
  BY LoopFacts
<1>2. Selected(p)' = Selected(p)
  BY DEF Selected
<1> QED
  BY <1>1, <1>2 DEF SelectionMeans

\* Until the reservation there is nothing more to rely on.
LEMMA EarlyPlace ==
    ASSUME NEW p \in Process, pc'[p] \in {"replay", "validate", "allocate", "reserve",
                                         "write reservation"}
    PROVE  LoopsMean(p)' /\ ImportMeans(p)'
BY Places DEF LoopsMean, ImportMeans

LEMMA NoReplayKeeps ==
    ASSUME IInv, NEW p \in Process, NoReplay(p)
    PROVE  IInv'
<1>1. TypeOK /\ pc[p] = "replay" /\ pc[p] \in Migrating
  BY Places DEF IInv, NoReplay, At
<1>2. migrating = p /\ SelectionMeans(p) /\ todo[p] \subseteq Selected(p) /\ Current(p) \in todo[p]
  BY <1>1, LoopFacts
<1>3. TypeOK'
  BY <1>1, Places DEF TypeOK, NoReplay, Stay, Goto
<1>4. Frame(p)
  BY <1>1 DEF TypeOK, NoReplay, Stay, Goto, Frame
<1>5. UNCHANGED diskVars
  BY DEF NoReplay, diskVars
<1>6. pc'[p] = "validate" /\ UNCHANGED <<todo, batch, migrating>>
  BY <1>1 DEF TypeOK, NoReplay, Stay, Goto
<1>7. SelectionMeans(p)'
  <2>1. todo[p] = Selected(p)
    BY <1>1, <1>2, Places DEF SelectionMeans
  <2> QED
    BY <1>1, <1>2, <1>6, <2>1, SelectionStays, Places
<1>8. Own(p)'
  BY <1>2, <1>6, <1>7, EarlyPlace, MigratePlace, Places
<1> QED
  BY <1>3, <1>4, <1>5, <1>8, QuietStep

LEMMA ValidateKeeps ==
    ASSUME IInv, NEW p \in Process, Validate(p)
    PROVE  IInv'
<1>1. TypeOK /\ pc[p] = "validate" /\ pc[p] \in Migrating
  BY Places DEF IInv, Validate, At
<1>2. migrating = p /\ SelectionMeans(p) /\ todo[p] \subseteq Selected(p) /\ Current(p) \in todo[p]
  BY <1>1, LoopFacts
<1>3. TypeOK'
  BY <1>1, Places DEF TypeOK, Validate, Stay, Goto
<1>4. Frame(p)
  BY <1>1 DEF TypeOK, Validate, Stay, Goto, Frame
<1>5. UNCHANGED diskVars
  BY DEF Validate, diskVars
<1>6. pc'[p] = "allocate" /\ UNCHANGED <<todo, batch, migrating, claim, claimed>>
  BY <1>1 DEF TypeOK, Validate, Stay, Goto
<1>7. SelectionMeans(p)'
  <2>1. todo[p] = Selected(p)
    BY <1>1, <1>2, Places DEF SelectionMeans
  <2>2. \A r \in Selected(p) : claim[r] # "absent" => claimed[r] = batch[p]
    BY DEF Validate, Valid, Claimed
  <2> QED
    BY <1>1, <1>2, <1>6, <2>1, <2>2, SelectionStays, Places
<1>8. Own(p)'
  BY <1>2, <1>6, <1>7, EarlyPlace, MigratePlace, Places
<1> QED
  BY <1>3, <1>4, <1>5, <1>8, QuietStep

LEMMA LockAllocatorKeeps ==
    ASSUME IInv, NEW p \in Process, LockAllocator(p)
    PROVE  IInv'
<1>1. TypeOK /\ pc[p] = "allocate" /\ pc[p] \in Migrating
  BY Places DEF IInv, LockAllocator, At
<1>2. migrating = p /\ SelectionMeans(p) /\ todo[p] \subseteq Selected(p) /\ Current(p) \in todo[p]
  BY <1>1, LoopFacts
<1>3. TypeOK'
  BY <1>1, Places DEF TypeOK, LockAllocator, Stay, Goto
<1>4. Frame(p)
  BY <1>1 DEF TypeOK, LockAllocator, Stay, Goto, Frame
<1>5. UNCHANGED diskVars
  BY DEF LockAllocator, diskVars
<1>6. /\ pc'[p] = "reserve" /\ allocator' = p
      /\ UNCHANGED <<todo, batch, migrating, claim, claimed>>
  BY <1>1 DEF TypeOK, LockAllocator, Stay, Goto
<1>7. SelectionMeans(p)'
  <2>1. /\ todo[p] = Selected(p)
        /\ \A r \in Selected(p) : claim[r] # "absent" => claimed[r] = batch[p]
    BY <1>1, <1>2, Places DEF SelectionMeans
  <2> QED
    BY <1>1, <1>2, <1>6, <2>1, SelectionStays, Places
<1>8. Own(p)'
  BY <1>2, <1>6, <1>7, EarlyPlace, MigratePlace, Places
<1> QED
  BY <1>3, <1>4, <1>5, <1>8, QuietStep

\* The locks are dropped and the entries handed out.
LEMMA AnswerKeeps ==
    ASSUME IInv, NEW p \in Process, pc[p] \in Migrating,
           NEW e, Answer(p, e),
           \A r \in Selected(p) :
             /\ claim[r] = "whole" /\ reserved[claimed[r]][r] = e[r]
             /\ claimed[r][r] = batch[p][r]
             /\ status[e[r]] = "INSTALLING" => r \notin ReadOnly
    PROVE  IInv'
<1>1. TypeOK
  BY DEF IInv
<1>2. batch[p] \in Batch /\ Selected(p) \in SUBSET Requirement /\ migrating = p
  BY LoopFacts
<1>3. TypeOK'
  BY <1>1 DEF TypeOK, Answer, Free, Stay, Goto
<1>4. Frame(p)
  BY <1>1, <1>2 DEF TypeOK, Answer, Free, Stay, Goto, Frame
<1>5. UNCHANGED diskVars
  BY DEF Answer, diskVars
<1>6. /\ pc'[p] = "answer" /\ entries'[p] = e /\ batch'[p] = batch[p]
      /\ Selected(p)' = Selected(p)
  BY <1>1 DEF TypeOK, Answer, Stay, Goto, Selected
<1>7. AnswerMeans(p)'
  <2> SUFFICES ASSUME NEW r \in Selected(p)
               PROVE  /\ claim'[r] = "whole" /\ reserved'[claimed'[r]][r] = e[r]
                      /\ claimed'[r][r] = batch[p][r] /\ backup'[claimed'[r]][r] = "whole"
                      /\ status'[e[r]] \notin {"none", "CREATED"} /\ ref'[e[r]] # "none"
                      /\ receipt'[e[r]] = "bound"
                      /\ status'[e[r]] = "INSTALLING" => r \notin ReadOnly
    BY <1>6 DEF AnswerMeans, At
  <2>1. Installed(claimed[r], r) /\ reserved[claimed[r]][r] = e[r]
    BY <1>2 DEF IInv, ClaimsMean
  <2> QED
    BY <1>5, <2>1 DEF Installed, Pristine, diskVars
<1>8. Own(p)'
  <2>1. pc'[p] \notin Creating \cup Migrating \cup {"execute", "drive"} /\ pc'[p] \notin Allocated
    BY <1>6, Places
  <2>2. CreationMeans(p)'
    BY <1>6, <2>1, Places DEF CreationMeans
  <2>3. SelectionMeans(p)'
    BY <1>2, <1>6, <2>1, Places DEF SelectionMeans
  <2>4. LoopsMean(p)' /\ ImportMeans(p)'
    BY <1>6, Places DEF LoopsMean, ImportMeans
  <2> QED
    BY <1>7, <2>1, <2>2, <2>3, <2>4 DEF Own
<1> QED
  BY <1>3, <1>4, <1>5, <1>8, QuietStep

LEMMA ReplayKeeps ==
    ASSUME IInv, NEW p \in Process, Replay(p)
    PROVE  IInv'
<1>1. TypeOK /\ pc[p] = "replay" /\ pc[p] \in Migrating
  BY Places DEF IInv, Replay, At
<1>2. Selected(p) \in SUBSET Requirement
  BY <1>1, LoopFacts
<1> DEFINE e == ClaimEntries(Selected(p))
<1>3. Answer(p, e)
  BY DEF Replay
<1>4. ASSUME NEW r \in Selected(p)
      PROVE  /\ claim[r] = "whole" /\ reserved[claimed[r]][r] = e[r]
             /\ claimed[r][r] = batch[p][r]
             /\ status[e[r]] = "INSTALLING" => r \notin ReadOnly
  <2>1. r \in Claimed(Selected(p)) /\ claim[r] # "torn" /\ claimed[r][r] = batch[p][r]
    BY DEF Replay, ClaimConflict
  <2>2. claim[r] = "whole"
    BY <1>1, <1>2, <2>1 DEF Claimed, TypeOK, FileState
  <2>3. e[r] = reserved[claimed[r]][r]
    BY DEF ClaimEntries
  <2>4. MayVerify(claimed[r], r, e[r])
    BY DEF Replay, ClaimsVerify
  <2> QED
    BY <2>1, <2>2, <2>3, <2>4 DEF MayVerify, MappedStatus
<1> HIDE DEF e
<1> QED
  BY <1>1, <1>3, <1>4, AnswerKeeps

LEMMA VerifyKeeps ==
    ASSUME IInv, NEW p \in Process, Verify(p)
    PROVE  IInv'
<1>1. pc[p] = "verify" /\ pc[p] \in Migrating /\ pc[p] \in Closing
      /\ pc[p] \in Allocated \ {"reserve"}
  BY Places DEF Verify, At
<1>2. SelectionMeans(p) /\ LoopsMean(p) /\ entries[p] = reserved[batch[p]]
  BY <1>1, LoopFacts, ImportFacts
<1>3. Answer(p, entries[p])
  BY DEF Verify
<1>4. ASSUME NEW r \in Selected(p)
      PROVE  /\ claim[r] = "whole" /\ claimed[r] = batch[p]
             /\ status[entries[p][r]] = "INSTALLING" => r \notin ReadOnly
  <2>1. MayVerify(batch[p], r, entries[p][r])
    BY DEF Verify
  <2> QED
    BY <1>1, <1>2, <2>1 DEF SelectionMeans, LoopsMean, MayVerify, MappedStatus
<1> QED
  BY <1>1, <1>2, <1>3, <1>4, AnswerKeeps

-----------------------------------------------------------------------------
(***************************************************************************)
(* Reservation, staging, prepared.json.                                    *)
(***************************************************************************)
\* A step under both locks that keeps the batch: what it changes of p's place.
LEMMA LoopFrame ==
    ASSUME IInv, NEW p \in Process, pc[p] \in Allocated,
           pc' = [pc EXCEPT ![p] = pc'[p]], pc'[p] \in Migrating,
           \A q \in Process \ {p} : todo'[q] = todo[q],
           \A q \in Process \ {p} : entries'[q] = entries[q],
           UNCHANGED <<request, rid, batch, allocator, migrating>>
    PROVE  /\ Frame(p) /\ allocator' = p /\ migrating' = p
           /\ pc' \in [Process -> {"idle", "execute", "drive", "answer"} \cup Creating
                                    \cup Migrating]
<1>1. TypeOK
  BY DEF IInv
<1>2. allocator = p /\ migrating = p
  <2>1. pc[p] \in Migrating
    BY Places
  <2> QED
    BY <2>1, LoopFacts
<1>3. pc' \in [Process -> {"idle", "execute", "drive", "answer"} \cup Creating \cup Migrating]
  BY <1>1 DEF TypeOK
<1>4. \A q \in Process \ {p} : pc'[q] = pc[q]
  BY <1>1 DEF TypeOK
<1> QED
  BY <1>2, <1>3, <1>4 DEF Frame

LEMMA Staying ==
    ASSUME IInv, NEW p \in Process, NEW to, Stay(p, to)
    PROVE  /\ pc' = [pc EXCEPT ![p] = pc'[p]] /\ pc'[p] = to
           /\ todo' = todo /\ todo' \in [Process -> SUBSET Requirement]
           /\ Current(p)' = Current(p)
BY DEF IInv, TypeOK, Stay, Goto, Current

\* What is installed stays installed.
LEMMA InstalledKept ==
    ASSUME IInv, Grows, NEW p \in Process, pc[p] \in Migrating, batch'[p] = batch[p]
    PROVE  \A r \in Selected(p) : Installed(batch[p], r) => Installed(batch[p], r)'
<1>1. batch[p] \in Batch /\ Selected(p) = DOMAIN batch[p]
  BY LoopFacts
<1> QED
  BY <1>1, InstalledStays DEF IInv

LEMMA ReserveKeeps ==
    ASSUME IInv, NEW p \in Process, Reserve(p)
    PROVE  IInv'
<1>1. TypeOK /\ pc[p] = "reserve" /\ pc[p] \in Migrating /\ pc[p] \in Allocated
  BY Places DEF IInv, Reserve, At
<1> DEFINE b == batch[p]
           S == Selected(p)
           A == Allocation(S)
<1>2. /\ b \in Batch /\ S = DOMAIN b /\ S \in SUBSET Requirement
      /\ todo[p] \subseteq S /\ Current(p) \in todo[p] /\ SelectionMeans(p)
  BY <1>1, LoopFacts
<1>3. /\ A \in [S -> Unused] /\ \A r, q \in S : A[r] = A[q] => r = q
      /\ \A c \in Batch : reservation[c] # "torn"
  <2>1. S \in SUBSET Nat /\ IsFiniteSet(S)
    BY <1>2, BatchDomain
  <2>2. RunId \in SUBSET Nat /\ IsFiniteSet(RunId)
    BY RunBoundsAssumption, FS_Interval DEF RunId
  <2>3. Unused \in SUBSET RunId
    BY DEF Unused
  <2>4. Unused \in SUBSET Nat /\ IsFiniteSet(Unused)
    BY <2>2, <2>3, FS_Subset
  <2>5. Cardinality(Unused) >= Cardinality(S) /\ Readable
    BY DEF Reserve, Room
  <2> QED
    BY <2>1, <2>4, <2>5, AllocationFits DEF Readable
<1>4. \A i \in Unused : i \in RunId /\ i \notin dirs /\ i \notin ReservedIds
  BY DEF Unused
<1>5. /\ reservation[b] = "absent"
      /\ reservation' = [reservation EXCEPT ![b] = "torn"]
      /\ reserved' = [reserved EXCEPT ![b] = A] /\ entries' = [entries EXCEPT ![p] = A]
      /\ Stay(p, "write reservation")
      /\ UNCHANGED <<locks, runs, request, rid, batch, world, batches, completion>>
  BY DEF Reserve
<1> HIDE DEF A
<1>6. /\ pc' = [pc EXCEPT ![p] = pc'[p]] /\ pc'[p] = "write reservation"
      /\ todo' = todo /\ todo' \in [Process -> SUBSET Requirement]
  BY <1>5, Staying
<1>7. /\ reservation'[b] = "torn" /\ reserved'[b] = A /\ entries'[p] = A
      /\ \A c \in Batch \ {b} : reservation'[c] = reservation[c] /\ reserved'[c] = reserved[c]
      /\ \A q \in Process \ {p} : entries'[q] = entries[q]
      /\ reservation' \in [Batch -> FileState] /\ DOMAIN reserved' = Batch
      /\ DOMAIN entries' = Process
  BY <1>1, <1>2, <1>5 DEF TypeOK, FileState
<1>8. /\ Frame(p) /\ allocator' = p /\ migrating' = p
      /\ pc' \in [Process -> {"idle", "execute", "drive", "answer"} \cup Creating \cup Migrating]
  BY <1>1, <1>5, <1>6, <1>7, LoopFrame, Places
<1>9. A \in [S -> RunId]
  BY <1>3, <1>4
<1>10. TypeOK'
  <2>1. \A c \in Batch : reservation'[c] # "absent" => reserved'[c] \in [DOMAIN c -> RunId]
    BY <1>1, <1>2, <1>7, <1>9 DEF TypeOK
  <2> HIDE DEF b, S
  <2> QED
    BY <1>1, <1>5, <1>6, <1>7, <1>8, <2>1 DEF TypeOK
<1>11. Grows
  BY <1>5, <1>7 DEF Grows
<1>12. Disk'
  <2>0. UNCHANGED <<intent, status, completed, claim, claimed, backup>>
    BY <1>5
  <2>1. RunsMean'
    BY <1>5 DEF IInv, RunsMean
  <2>2. OpenMeans'
    BY <1>5 DEF IInv, OpenMeans, Pristine
  <2>3. ClaimsMean'
    BY <1>5, <1>11, ClaimsKept
  <2>4. FinalizedIsClaimed'
    <3> SUFFICES ASSUME NEW i \in RunId, NEW c \in Batch, NEW r \in DOMAIN c,
                        intent[i] = <<c, r>>, status[i] \notin {"none", "INSTALLING"}
                 PROVE  /\ completed[c] = "whole" /\ reserved'[c][r] = i
                        /\ \A q \in DOMAIN c : /\ claim[q] = "whole" /\ claimed[q] = c
                                               /\ backup[c][q] = "whole"
      BY <2>0 DEF FinalizedIsClaimed
    <3>1. /\ completed[c] = "whole" /\ reserved[c][r] = i
          /\ \A q \in DOMAIN c : /\ claim[q] = "whole" /\ claimed[q] = c
                                 /\ backup[c][q] = "whole"
      BY DEF IInv, FinalizedIsClaimed
    <3>2. r \in Requirement
      BY BatchDomain
    <3>3. Installed(c, r)
      BY <3>1, <3>2 DEF IInv, ClaimsMean
    <3>4. c # b
      BY <1>5, <3>3 DEF Installed
    <3> QED
      BY <1>7, <3>1, <3>4
  <2>5. OwnersMean'
    <3>1. ASSUME NEW c \in Batch \ {b}, reservation[c] # "absent", NEW q \in DOMAIN c,
                 NEW r \in S
          PROVE  reserved[c][q] # A[r]
      <4>1. reservation[c] = "whole" /\ reserved[c][q] \in RunId
        BY <1>1, <1>3, <3>1 DEF TypeOK, FileState
      <4>2. reserved[c][q] \in ReservedIds
        BY <4>1 DEF ReservedIds
      <4> QED
        BY <1>3, <1>4, <4>2
    <3>2. \A r \in S : intent[A[r]] = None
      BY <1>3, <1>4 DEF IInv, RunsMean
    <3> SUFFICES ASSUME NEW c \in Batch, NEW d \in Batch, reservation'[c] # "absent",
                        reservation'[d] # "absent", NEW r \in DOMAIN c, NEW q \in DOMAIN d
                 PROVE  /\ reserved'[c][r] = reserved'[d][q] => c = d /\ r = q
                        /\ intent[reserved'[c][r]] \in {None, <<c, r>>}
      BY <2>0 DEF OwnersMean
    <3>3. CASE c # b /\ d # b
      BY <1>7, <3>3 DEF IInv, OwnersMean
    <3>4. CASE c = b /\ d # b
      BY <1>2, <1>7, <3>1, <3>2, <3>4
    <3>5. CASE c # b /\ d = b
      <4>1. intent[reserved[c][r]] \in {None, <<c, r>>}
        BY <1>7, <3>5 DEF IInv, OwnersMean
      <4> QED
        BY <1>2, <1>7, <3>1, <3>5, <4>1
    <3>6. CASE c = b /\ d = b
      BY <1>2, <1>3, <1>7, <3>2, <3>6
    <3> QED
      BY <3>3, <3>4, <3>5, <3>6
  <2> QED
    BY <2>1, <2>2, <2>3, <2>4, <2>5 DEF Disk
<1>13. SelectionMeans(p)'
  <2>1. /\ todo[p] = S
        /\ \A r \in S : claim[r] # "absent" => claimed[r] = b
    BY <1>1, <1>2, Places DEF SelectionMeans
  <2>2. UNCHANGED <<batch, claim, claimed>>
    BY <1>5
  <2> QED
    BY <1>1, <1>2, <1>6, <1>7, <2>1, <2>2, SelectionStays, Places
<1>14. Own(p)'
  BY <1>6, <1>8, <1>13, EarlyPlace, MigratePlace, Places
<1> QED
  BY <1>8, <1>10, <1>11, <1>12, <1>14, StepKeeps

\* The staging loop has done nothing yet.
LEMMA StagePlace ==
    ASSUME NEW p \in Process, pc'[p] = "stage", todo'[p] = Selected(p)'
    PROVE  LoopsMean(p)' /\ ImportMeans(p)'
BY Places DEF LoopsMean, ImportMeans

LEMMA WriteReservationKeeps ==
    ASSUME IInv, NEW p \in Process, WriteReservation(p)
    PROVE  IInv'
<1>1. TypeOK /\ pc[p] = "write reservation" /\ pc[p] \in Migrating
      /\ pc[p] \in Allocated \ {"reserve"}
  BY Places DEF IInv, WriteReservation, At
<1> DEFINE b == batch[p]
           S == Selected(p)
<1>2. /\ b \in Batch /\ S = DOMAIN b /\ S \in SUBSET Requirement
      /\ todo[p] \subseteq S /\ Current(p) \in todo[p] /\ SelectionMeans(p)
  BY <1>1, LoopFacts
<1>3. /\ reservation[b] # "absent" /\ entries[p] = reserved[b]
      /\ reserved[b] \in [DOMAIN b -> RunId]
  BY <1>1, ImportFacts
<1>4. /\ reservation' = [reservation EXCEPT ![b] = "whole"] /\ Stay(p, "stage")
      /\ UNCHANGED <<locks, runs, reserved, mine, world, batches, completion>>
  BY DEF WriteReservation
<1>5. /\ pc' = [pc EXCEPT ![p] = pc'[p]] /\ pc'[p] = "stage"
      /\ todo' = todo /\ todo' \in [Process -> SUBSET Requirement]
  BY <1>4, Staying
<1>6. /\ reservation'[b] = "whole" /\ reservation' \in [Batch -> FileState]
      /\ \A c \in Batch \ {b} : reservation'[c] = reservation[c]
  BY <1>1, <1>2, <1>4 DEF TypeOK, FileState
<1>7. /\ Frame(p) /\ allocator' = p /\ migrating' = p
      /\ pc' \in [Process -> {"idle", "execute", "drive", "answer"} \cup Creating \cup Migrating]
  BY <1>1, <1>4, <1>5, LoopFrame, Places
<1>8. TypeOK'
  <2>1. \A c \in Batch : reservation'[c] # "absent" => reserved'[c] \in [DOMAIN c -> RunId]
    BY <1>1, <1>3, <1>4, <1>6 DEF TypeOK
  <2> HIDE DEF b, S
  <2> QED
    BY <1>1, <1>4, <1>5, <1>6, <1>7, <2>1 DEF TypeOK
<1>9. \A c \in Batch : reservation'[c] # "absent" <=> reservation[c] # "absent"
  BY <1>3, <1>6
<1>10. Grows
  BY <1>4, <1>6 DEF Grows
<1>11. Disk'
  <2>1. RunsMean'
    BY <1>4 DEF IInv, RunsMean
  <2>2. OpenMeans'
    BY <1>4 DEF IInv, OpenMeans, Pristine
  <2>3. ClaimsMean'
    BY <1>4, <1>10, ClaimsKept
  <2>4. FinalizedIsClaimed'
    BY <1>4 DEF IInv, FinalizedIsClaimed
  <2>5. OwnersMean'
    BY <1>4, <1>9 DEF IInv, OwnersMean
  <2> QED
    BY <2>1, <2>2, <2>3, <2>4, <2>5 DEF Disk
<1>12. todo[p] = S /\ \A r \in S : claim[r] # "absent" => claimed[r] = b
  BY <1>1, <1>2, Places DEF SelectionMeans
<1>13. SelectionMeans(p)' /\ Selected(p)' = S
  <2>1. UNCHANGED <<batch, claim, claimed, entries, reserved>>
    BY <1>4
  <2> QED
    BY <1>1, <1>2, <1>3, <1>5, <1>6, <1>12, <2>1, SelectionStays, Places
<1>14. Own(p)'
  BY <1>5, <1>7, <1>12, <1>13, StagePlace, MigratePlace, Places
<1> QED
  BY <1>7, <1>8, <1>10, <1>11, <1>14, StepKeeps

LEMMA ReuseReservationKeeps ==
    ASSUME IInv, NEW p \in Process, ReuseReservation(p)
    PROVE  IInv'
<1>1. TypeOK /\ pc[p] = "reserve" /\ pc[p] \in Migrating /\ pc[p] \in Allocated
  BY Places DEF IInv, ReuseReservation, At
<1> DEFINE b == batch[p]
           S == Selected(p)
<1>2. /\ b \in Batch /\ S = DOMAIN b /\ S \in SUBSET Requirement
      /\ todo[p] \subseteq S /\ Current(p) \in todo[p] /\ SelectionMeans(p)
  BY <1>1, LoopFacts
<1>3. /\ reservation[b] = "whole" /\ entries' = [entries EXCEPT ![p] = reserved[b]]
      /\ Stay(p, "stage")
      /\ UNCHANGED <<locks, runs, ids, request, rid, batch, world, batches, completion>>
  BY DEF ReuseReservation
<1>4. /\ pc' = [pc EXCEPT ![p] = pc'[p]] /\ pc'[p] = "stage"
      /\ todo' = todo /\ todo' \in [Process -> SUBSET Requirement]
  BY <1>3, Staying
<1>5. /\ entries'[p] = reserved[b] /\ DOMAIN entries' = Process
      /\ \A q \in Process \ {p} : entries'[q] = entries[q]
  BY <1>1, <1>3 DEF TypeOK
<1>6. /\ Frame(p) /\ allocator' = p /\ migrating' = p
      /\ pc' \in [Process -> {"idle", "execute", "drive", "answer"} \cup Creating \cup Migrating]
  BY <1>1, <1>3, <1>4, <1>5, LoopFrame, Places
<1>7. TypeOK'
  BY <1>1, <1>3, <1>4, <1>5, <1>6 DEF TypeOK
<1>8. UNCHANGED diskVars
  BY <1>3 DEF diskVars
<1>9. todo[p] = S /\ \A r \in S : claim[r] # "absent" => claimed[r] = b
  BY <1>1, <1>2, Places DEF SelectionMeans
<1>10. SelectionMeans(p)' /\ Selected(p)' = S
  <2>1. UNCHANGED <<batch, claim, claimed, reserved, reservation>>
    BY <1>3
  <2> QED
    BY <1>1, <1>2, <1>3, <1>4, <1>5, <1>9, <2>1, SelectionStays, Places
<1>11. Own(p)'
  BY <1>4, <1>6, <1>9, <1>10, StagePlace, MigratePlace, Places
<1> QED
  BY <1>6, <1>7, <1>8, <1>11, QuietStep

\* The trees of a batch: one of them changes.
LEMMA TreeUpdate ==
    ASSUME NEW t, DOMAIN t = Batch, \A c \in Batch : t[c] \in [DOMAIN c -> FileState],
           NEW b \in Batch, NEW r \in DOMAIN b, NEW v \in FileState,
           NEW u, u = [t EXCEPT ![b][r] = v]
    PROVE  /\ DOMAIN u = Batch /\ \A c \in Batch : u[c] \in [DOMAIN c -> FileState]
           /\ u[b][r] = v /\ \A q \in DOMAIN b \ {r} : u[b][q] = t[b][q]
           /\ \A c \in Batch \ {b} : u[c] = t[c]
<1>1. u[b] = [t[b] EXCEPT ![r] = v] /\ DOMAIN u = Batch /\ \A c \in Batch \ {b} : u[c] = t[c]
  OBVIOUS
<1>2. u[b] \in [DOMAIN b -> FileState]
  BY <1>1
<1> QED
  BY <1>1, <1>2

\* A step under both locks, after the reservation.
LEMMA LoopStep ==
    ASSUME IInv, NEW p \in Process, pc[p] \in Allocated \ {"reserve", "write reservation"},
           pc' = [pc EXCEPT ![p] = pc'[p]],
           pc'[p] \in Allocated \ {"reserve", "write reservation"},
           \A q \in Process \ {p} : todo'[q] = todo[q],
           todo'[p] \subseteq Selected(p), todo'[p] # {},
           pc'[p] \in Migrating \ Looping => todo'[p] = Selected(p),
           UNCHANGED <<mine, ids, allocator, migrating>>,
           \A r \in Selected(p) : claim'[r] # "absent" => claimed'[r] = batch[p]
    PROVE  /\ Frame(p) /\ allocator' = p /\ migrating' = p
           /\ pc' \in [Process -> {"idle", "execute", "drive", "answer"} \cup Creating
                                    \cup Migrating]
           /\ SelectionMeans(p)' /\ Selected(p)' = Selected(p)
<1>1. /\ pc[p] \in Migrating /\ pc'[p] \in Migrating /\ pc[p] \in Allocated
      /\ pc[p] \in Allocated \ {"reserve"}
  BY Places
<1>2. /\ Frame(p) /\ allocator' = p /\ migrating' = p
      /\ pc' \in [Process -> {"idle", "execute", "drive", "answer"} \cup Creating
                               \cup Migrating]
  BY <1>1, LoopFrame
<1>3. SelectionMeans(p)
  BY <1>1, LoopFacts
<1>4. /\ reservation[batch[p]] = "whole"
      /\ reservation[batch[p]] # "absent" /\ entries[p] = reserved[batch[p]]
  BY <1>1, <1>3, ImportFacts DEF SelectionMeans
<1>5. UNCHANGED <<batch, entries, reservation, reserved>>
  OBVIOUS
<1>6. SelectionMeans(p)' /\ Selected(p)' = Selected(p)
  BY <1>1, <1>4, <1>5, SelectionStays
<1> QED
  BY <1>2, <1>6

\* What LoopStep needs, from Stay and from Advance.
LEMMA StayStep ==
    ASSUME IInv, NEW p \in Process, pc[p] \in Allocated \ {"reserve", "write reservation"},
           NEW to \in Allocated \ {"reserve", "write reservation"}, Stay(p, to),
           to \in Migrating \ Looping => pc[p] \in Migrating \ Looping,
           UNCHANGED <<mine, ids, allocator, migrating>>,
           \A r \in Selected(p) : claim'[r] # "absent" => claimed'[r] = batch[p]
    PROVE  /\ Frame(p) /\ allocator' = p /\ migrating' = p
           /\ pc' \in [Process -> {"idle", "execute", "drive", "answer"} \cup Creating
                                    \cup Migrating]
           /\ SelectionMeans(p)' /\ Selected(p)' = Selected(p)
           /\ pc'[p] = to /\ Current(p)' = Current(p) /\ RunOf(p)' = RunOf(p)
           /\ todo' = todo /\ todo' \in [Process -> SUBSET Requirement]
<1>1. /\ pc' = [pc EXCEPT ![p] = pc'[p]] /\ pc'[p] = to /\ Current(p)' = Current(p)
      /\ todo' = todo /\ todo' \in [Process -> SUBSET Requirement]
  BY Staying
<1>2. pc[p] \in Migrating
  BY Places
<1>3. SelectionMeans(p) /\ todo[p] \subseteq Selected(p) /\ Current(p) \in todo[p]
  BY <1>2, LoopFacts
<1>4. to \in Migrating \ Looping => todo[p] = Selected(p)
  BY <1>3 DEF SelectionMeans
<1>5. RunOf(p)' = RunOf(p)
  BY <1>1 DEF RunOf
<1> QED
  BY <1>1, <1>3, <1>4, <1>5, LoopStep

LEMMA AdvanceStep ==
    ASSUME IInv, NEW p \in Process, pc[p] \in Allocated \ {"reserve", "write reservation"},
           NEW again \in Looping, NEW after \in Allocated \ {"reserve", "write reservation"},
           Advance(p, again, after), UNCHANGED <<mine, ids, allocator, migrating>>,
           \A r \in Selected(p) : claim'[r] # "absent" => claimed'[r] = batch[p]
    PROVE  /\ Frame(p) /\ allocator' = p /\ migrating' = p
           /\ pc' \in [Process -> {"idle", "execute", "drive", "answer"} \cup Creating
                                    \cup Migrating]
           /\ SelectionMeans(p)' /\ Selected(p)' = Selected(p)
           /\ todo' \in [Process -> SUBSET Requirement]
           /\ \/ /\ pc'[p] = after /\ todo'[p] = Selected(p)
                 /\ \A r \in Selected(p) : r \notin todo[p] \/ r = Current(p)
              \/ /\ pc'[p] = again /\ todo'[p] = todo[p] \ {Current(p)}
                 /\ \A r \in Selected(p) : r \in todo'[p] \/ r \notin todo[p] \/ r = Current(p)
<1>1. pc[p] \in Migrating /\ again \notin Migrating \ Looping
      /\ again \in Allocated \ {"reserve", "write reservation"}
  BY Places
<1>2. todo[p] \subseteq Selected(p) /\ Current(p) \in todo[p]
  BY <1>1, LoopFacts
<1>3. /\ \A q \in Process \ {p} : pc'[q] = pc[q] /\ todo'[q] = todo[q]
      /\ pc' = [pc EXCEPT ![p] = pc'[p]] /\ todo' \in [Process -> SUBSET Requirement]
      /\ \/ /\ pc'[p] = after /\ todo'[p] = Selected(p) /\ todo[p] = {Current(p)}
         \/ /\ pc'[p] = again /\ todo'[p] = todo[p] \ {Current(p)} /\ todo'[p] # {}
  BY <1>1, Advancing
<1>4. /\ todo'[p] \subseteq Selected(p) /\ todo'[p] # {}
      /\ pc'[p] \in Migrating \ Looping => todo'[p] = Selected(p)
      /\ pc'[p] \in Allocated \ {"reserve", "write reservation"}
  BY <1>1, <1>2, <1>3
<1>5. /\ Frame(p) /\ allocator' = p /\ migrating' = p
      /\ pc' \in [Process -> {"idle", "execute", "drive", "answer"} \cup Creating
                               \cup Migrating]
      /\ SelectionMeans(p)' /\ Selected(p)' = Selected(p)
  BY <1>3, <1>4, LoopStep
<1> QED
  BY <1>3, <1>5

\* What is known at every such place.
LEMMA BatchFacts ==
    ASSUME IInv, NEW p \in Process, pc[p] \in Allocated \ {"reserve", "write reservation"}
    PROVE  /\ TypeOK /\ pc[p] \in Migrating /\ migrating = p /\ allocator = p
           /\ batch[p] \in Batch /\ Selected(p) = DOMAIN batch[p]
           /\ Selected(p) \in SUBSET Requirement /\ todo[p] \subseteq Selected(p)
           /\ Current(p) \in todo[p] /\ Current(p) \in DOMAIN batch[p]
           /\ LoopsMean(p) /\ ImportMeans(p) /\ reservation[batch[p]] = "whole"
           /\ RunOf(p) = reserved[batch[p]][Current(p)] /\ RunOf(p) \in RunId
           /\ \A r \in Selected(p) : claim[r] # "absent" => claimed[r] = batch[p]
<1>1. pc[p] \in Migrating /\ pc[p] \in Allocated /\ pc[p] \in Allocated \ {"reserve"}
  BY Places
<1>2. /\ migrating = p /\ allocator = p /\ batch[p] \in Batch /\ Selected(p) = DOMAIN batch[p]
      /\ Selected(p) \in SUBSET Requirement /\ todo[p] \subseteq Selected(p)
      /\ Current(p) \in todo[p] /\ SelectionMeans(p) /\ LoopsMean(p) /\ ImportMeans(p)
  BY <1>1, LoopFacts
<1>3. RunOf(p) = reserved[batch[p]][Current(p)] /\ RunOf(p) \in RunId
  BY <1>1, ImportFacts
<1>4. /\ reservation[batch[p]] = "whole"
      /\ \A r \in Selected(p) : claim[r] # "absent" => claimed[r] = batch[p]
  BY <1>1, <1>2 DEF SelectionMeans
<1> QED
  BY <1>1, <1>2, <1>3, <1>4 DEF IInv

LEMMA StageKeeps ==
    ASSUME IInv, NEW p \in Process, Stage(p)
    PROVE  IInv'
<1>1. pc[p] = "stage" /\ pc[p] \in Allocated \ {"reserve", "write reservation"}
  BY Places DEF Stage, At
<1> DEFINE b == batch[p]
           r == Current(p)
<1>2. /\ TypeOK /\ b \in Batch /\ Selected(p) = DOMAIN b /\ r \in DOMAIN b
      /\ todo[p] \subseteq Selected(p) /\ r \in todo[p] /\ LoopsMean(p)
      /\ \A q \in Selected(p) : claim[q] # "absent" => claimed[q] = batch[p]
  BY <1>1, BatchFacts
<1>3. /\ UNCHANGED <<locks, runs, ids, mine, world, prepared, completed, backup,
                     claim, claimed, completion>>
      /\ UNCHANGED diskVars
  BY DEF Stage, diskVars
<1>4. UNCHANGED batch
  BY <1>3
<1>5. \A q \in Selected(p) \ todo[p] : staged[b][q] = "whole"
  BY <1>1, <1>2 DEF LoopsMean
<1>6. CASE staged[b][r] = "absent"
  <2>1. staged' = [staged EXCEPT ![b][r] = "torn"] /\ Stay(p, "copy")
    BY <1>6 DEF Stage
  <2>2. /\ Frame(p) /\ allocator' = p /\ migrating' = p
        /\ pc' \in [Process -> {"idle", "execute", "drive", "answer"} \cup Creating \cup Migrating]
        /\ SelectionMeans(p)' /\ Selected(p)' = Selected(p)
        /\ pc'[p] = "copy" /\ todo' = todo /\ todo' \in [Process -> SUBSET Requirement]
    BY <1>1, <1>2, <1>3, <2>1, StayStep, Places
  <2>3. /\ DOMAIN staged' = Batch /\ \A c \in Batch : staged'[c] \in [DOMAIN c -> FileState]
        /\ \A q \in DOMAIN b \ {r} : staged'[b][q] = staged[b][q]
    BY <1>2, <2>1, TreeUpdate DEF TypeOK, FileState
  <2>4. TypeOK'
    BY <1>2, <1>3, <2>2, <2>3 DEF TypeOK
  <2>5. LoopsMean(p)' /\ ImportMeans(p)'
    BY <1>2, <1>4, <1>5, <2>2, <2>3, Places DEF LoopsMean, ImportMeans
  <2>6. Own(p)'
    BY <2>2, <2>5, MigratePlace, Places
  <2> QED
    BY <1>3, <2>2, <2>4, <2>6, QuietStep
<1>7. CASE staged[b][r] = "whole"
  <2>1. Advance(p, "stage", "prepare") /\ UNCHANGED staged
    BY <1>7 DEF Stage
  <2>2. /\ Frame(p) /\ allocator' = p /\ migrating' = p
        /\ pc' \in [Process -> {"idle", "execute", "drive", "answer"} \cup Creating \cup Migrating]
        /\ SelectionMeans(p)' /\ Selected(p)' = Selected(p)
        /\ todo' \in [Process -> SUBSET Requirement]
        /\ \/ /\ pc'[p] = "prepare" /\ todo'[p] = Selected(p)
              /\ \A q \in Selected(p) : q \notin todo[p] \/ q = r
           \/ /\ pc'[p] = "stage" /\ todo'[p] = todo[p] \ {r}
              /\ \A q \in Selected(p) : q \in todo'[p] \/ q \notin todo[p] \/ q = r
    BY <1>1, <1>2, <1>3, <2>1, AdvanceStep, Places
  <2>3. TypeOK'
    BY <1>2, <1>3, <2>1, <2>2 DEF TypeOK
  <2>4. LoopsMean(p)' /\ ImportMeans(p)'
    BY <1>2, <1>4, <1>5, <1>7, <2>1, <2>2, Places DEF LoopsMean, ImportMeans
  <2>5. Own(p)'
    BY <2>2, <2>4, MigratePlace, Places
  <2> QED
    BY <1>3, <2>2, <2>3, <2>5, QuietStep
<1>8. staged[b][r] \in {"absent", "whole"}
  BY DEF Stage
<1> QED
  BY <1>6, <1>7, <1>8

LEMMA CopyTreeKeeps ==
    ASSUME IInv, NEW p \in Process, CopyTree(p)
    PROVE  IInv'
<1>1. pc[p] = "copy" /\ pc[p] \in Allocated \ {"reserve", "write reservation"}
  BY Places DEF CopyTree, At
<1> DEFINE b == batch[p]
           r == Current(p)
<1>2. /\ TypeOK /\ b \in Batch /\ Selected(p) = DOMAIN b /\ r \in DOMAIN b
      /\ todo[p] \subseteq Selected(p) /\ r \in todo[p] /\ LoopsMean(p)
      /\ \A q \in Selected(p) : claim[q] # "absent" => claimed[q] = batch[p]
  BY <1>1, BatchFacts
<1>3. /\ UNCHANGED <<locks, runs, ids, mine, world, prepared, completed, backup,
                     claim, claimed, completion>>
      /\ UNCHANGED diskVars
      /\ staged' = [staged EXCEPT ![b][r] = "whole"] /\ Advance(p, "stage", "prepare")
  BY DEF CopyTree, diskVars
<1>4. UNCHANGED batch
  BY <1>3
<1>5. \A q \in Selected(p) \ todo[p] : staged[b][q] = "whole"
  BY <1>1, <1>2 DEF LoopsMean
<1>6. /\ Frame(p) /\ allocator' = p /\ migrating' = p
      /\ pc' \in [Process -> {"idle", "execute", "drive", "answer"} \cup Creating \cup Migrating]
      /\ SelectionMeans(p)' /\ Selected(p)' = Selected(p)
      /\ todo' \in [Process -> SUBSET Requirement]
      /\ \/ /\ pc'[p] = "prepare" /\ todo'[p] = Selected(p)
            /\ \A q \in Selected(p) : q \notin todo[p] \/ q = r
         \/ /\ pc'[p] = "stage" /\ todo'[p] = todo[p] \ {r}
            /\ \A q \in Selected(p) : q \in todo'[p] \/ q \notin todo[p] \/ q = r
  BY <1>1, <1>2, <1>3, AdvanceStep, Places
<1>7. /\ DOMAIN staged' = Batch /\ \A c \in Batch : staged'[c] \in [DOMAIN c -> FileState]
      /\ staged'[b][r] = "whole" /\ \A q \in DOMAIN b \ {r} : staged'[b][q] = staged[b][q]
  BY <1>2, <1>3, TreeUpdate DEF TypeOK, FileState
<1>8. TypeOK'
  BY <1>2, <1>3, <1>6, <1>7 DEF TypeOK
<1>9. \A q \in Selected(p) : q \notin todo[p] \/ q = r => staged'[b][q] = "whole"
  BY <1>2, <1>5, <1>7
<1>10. LoopsMean(p)' /\ ImportMeans(p)'
  BY <1>2, <1>4, <1>6, <1>9, Places DEF LoopsMean, ImportMeans
<1>11. Own(p)'
  BY <1>6, <1>10, MigratePlace, Places
<1> QED
  BY <1>3, <1>6, <1>8, <1>11, QuietStep

LEMMA PrepareKeeps ==
    ASSUME IInv, NEW p \in Process, Prepare(p) \/ WritePrepared(p)
    PROVE  IInv'
<1>1. pc[p] \in {"prepare", "write prepared"}
      /\ pc[p] \in Allocated \ {"reserve", "write reservation"}
  BY Places DEF Prepare, WritePrepared, At
<1>2. /\ TypeOK /\ batch[p] \in Batch /\ Selected(p) = DOMAIN batch[p] /\ LoopsMean(p)
      /\ todo[p] \subseteq Selected(p)
      /\ \A q \in Selected(p) : claim[q] # "absent" => claimed[q] = batch[p]
  BY <1>1, BatchFacts
<1>3. /\ UNCHANGED <<locks, runs, ids, mine, world, completed, staged, backup,
                     claim, claimed, completion>>
      /\ UNCHANGED diskVars
  BY DEF Prepare, WritePrepared, diskVars
<1>4. PICK to \in {"write prepared", "install"} : Stay(p, to)
  BY DEF Prepare, WritePrepared
<1>5. prepared' \in [Batch -> FileState]
  BY <1>2 DEF Prepare, WritePrepared, TypeOK, FileState
<1>6. /\ Frame(p) /\ allocator' = p /\ migrating' = p
      /\ pc' \in [Process -> {"idle", "execute", "drive", "answer"} \cup Creating \cup Migrating]
      /\ SelectionMeans(p)' /\ Selected(p)' = Selected(p)
      /\ pc'[p] = to /\ todo' = todo /\ todo' \in [Process -> SUBSET Requirement]
  BY <1>1, <1>2, <1>3, <1>4, StayStep, Places
<1>7. TypeOK'
  BY <1>2, <1>3, <1>5, <1>6 DEF TypeOK
<1>8. LoopsMean(p)' /\ ImportMeans(p)'
  <2>1. todo[p] = Selected(p)
    <3>1. SelectionMeans(p)
      BY <1>1, LoopFacts, Places
    <3> QED
      BY <1>1, <3>1, Places DEF SelectionMeans
  <2>2. \A r \in todo[p] : staged[batch[p]][r] = "whole"
    BY <1>1, <1>2 DEF LoopsMean
  <2>3. UNCHANGED <<batch, staged>>
    BY <1>3
  <2> QED
    BY <1>4, <1>6, <2>1, <2>2, <2>3, Places DEF LoopsMean, ImportMeans
<1>9. Own(p)'
  BY <1>4, <1>6, <1>8, MigratePlace, Places
<1> QED
  BY <1>3, <1>6, <1>7, <1>9, QuietStep

-----------------------------------------------------------------------------
(***************************************************************************)
(* Backups and imported runs.                                              *)
(***************************************************************************)
LEMMA InstallKeeps ==
    ASSUME IInv, NEW p \in Process, Install(p)
    PROVE  IInv'
<1>1. pc[p] = "install" /\ pc[p] \in Allocated \ {"reserve", "write reservation"}
  BY Places DEF Install, At
<1> DEFINE b == batch[p]
           r == Current(p)
<1>2. /\ TypeOK /\ b \in Batch /\ Selected(p) = DOMAIN b /\ r \in DOMAIN b
      /\ todo[p] \subseteq Selected(p) /\ r \in todo[p] /\ LoopsMean(p) /\ pc[p] \in Migrating
      /\ \A q \in Selected(p) : claim[q] # "absent" => claimed[q] = batch[p]
  BY <1>1, BatchFacts
<1>3. /\ UNCHANGED <<locks, runs, ids, mine, world, prepared, completed, claim,
                     claimed, completion>>
      /\ Stay(p, "import")
  BY DEF Install
<1>4. /\ \A q \in todo[p] : staged[b][q] = "whole"
      /\ \A q \in Selected(p) \ todo[p] : Installed(b, q)
  BY <1>1, <1>2 DEF LoopsMean
<1>5. /\ Frame(p) /\ allocator' = p /\ migrating' = p
      /\ pc' \in [Process -> {"idle", "execute", "drive", "answer"} \cup Creating \cup Migrating]
      /\ SelectionMeans(p)' /\ Selected(p)' = Selected(p) /\ r' = r
      /\ pc'[p] = "import" /\ todo' = todo /\ todo' \in [Process -> SUBSET Requirement]
  BY <1>1, <1>2, <1>3, StayStep, Places
<1>6. /\ DOMAIN staged' = Batch /\ \A c \in Batch : staged'[c] \in [DOMAIN c -> FileState]
      /\ DOMAIN backup' = Batch /\ \A c \in Batch : backup'[c] \in [DOMAIN c -> FileState]
      /\ \A q \in DOMAIN b \ {r} : staged'[b][q] = staged[b][q]
      /\ backup'[b][r] = "whole"
      /\ \A c \in Batch : \A q \in DOMAIN c : backup[c][q] = "whole" => backup'[c][q] = "whole"
  <2>1. CASE backup[b][r] = "whole"
    <3>1. UNCHANGED <<staged, backup>>
      BY <2>1 DEF Install
    <3> QED
      BY <1>2, <2>1, <3>1 DEF TypeOK
  <2>2. CASE backup[b][r] # "whole"
    <3>1. /\ backup' = [backup EXCEPT ![b][r] = "whole"]
          /\ staged' = [staged EXCEPT ![b][r] = "absent"]
      BY <1>2, <1>4, <2>2 DEF Install
    <3>2. /\ DOMAIN staged' = Batch /\ \A c \in Batch : staged'[c] \in [DOMAIN c -> FileState]
          /\ \A q \in DOMAIN b \ {r} : staged'[b][q] = staged[b][q]
      BY <1>2, <3>1, TreeUpdate DEF TypeOK, FileState
    <3>3. /\ DOMAIN backup' = Batch /\ \A c \in Batch : backup'[c] \in [DOMAIN c -> FileState]
          /\ backup'[b][r] = "whole" /\ \A q \in DOMAIN b \ {r} : backup'[b][q] = backup[b][q]
          /\ \A c \in Batch \ {b} : backup'[c] = backup[c]
      BY <1>2, <3>1, TreeUpdate DEF TypeOK, FileState
    <3> HIDE DEF b, r
    <3> QED
      BY <3>2, <3>3
  <2> QED
    BY <2>1, <2>2
<1>7. TypeOK'
  <2> HIDE DEF b, r
  <2> QED
    BY <1>2, <1>3, <1>5, <1>6 DEF TypeOK
<1>8. Grows
  BY <1>3, <1>6 DEF Grows
<1>9. Disk'
  <2>1. RunsMean'
    BY <1>3 DEF IInv, RunsMean
  <2>2. UNCHANGED <<intent, ids, claim, claimed, status>>
    BY <1>3
  <2> QED
    BY <1>8, <2>1, <2>2, GrowingDisk DEF Pristine
<1>10. \A q \in Selected(p) \ todo[p] : Installed(b, q)'
  BY <1>2, <1>3, <1>4, <1>8, InstalledKept
<1>11. UNCHANGED batch
  BY <1>3
<1>12. LoopsMean(p)'
  BY <1>2, <1>4, <1>5, <1>6, <1>10, <1>11, Places DEF LoopsMean
<1>13. ImportMeans(p)'
  BY <1>5, <1>6, <1>11, Places DEF ImportMeans
<1>14. Own(p)'
  BY <1>5, <1>12, <1>13, MigratePlace, Places
<1> QED
  BY <1>5, <1>7, <1>8, <1>9, <1>14, StepKeeps

\* A step of _install_imported_run that goes on with the same run.
LEMMA ImportStep ==
    ASSUME IInv, NEW p \in Process, pc[p] \in {"import"} \cup Importing,
           NEW to \in Importing, Stay(p, to), Grows, Disk', ImportMeans(p)',
           lock' \in [RunId -> Process \cup {None}], dirs' \in SUBSET RunId,
           intent' \in [RunId -> Request \cup (Batch \X Requirement) \cup {None}],
           ref' \in [RunId -> {"none", "base", "moved"}],
           status' \in [RunId -> {"none", "CREATED", "INSTALLING", "PAUSED", "READ_ONLY",
                                  "DRIVEN"}],
           receipt' \in [RunId -> Bound],
           UNCHANGED <<allocator, migrating, ids, mine, world, batches, completion>>
    PROVE  IInv'
<1>1. /\ pc[p] \in Allocated \ {"reserve", "write reservation"}
      /\ to \in Allocated \ {"reserve", "write reservation"} /\ to \notin Migrating \ Looping
  BY Places
<1>2. /\ TypeOK /\ pc[p] \in Migrating /\ LoopsMean(p) /\ todo[p] \subseteq Selected(p)
      /\ \A q \in Selected(p) : claim[q] # "absent" => claimed[q] = batch[p]
  BY <1>1, BatchFacts
<1>3. UNCHANGED <<claim, claimed, batch, staged>>
  OBVIOUS
<1>4. /\ Frame(p) /\ allocator' = p /\ migrating' = p
      /\ pc' \in [Process -> {"idle", "execute", "drive", "answer"} \cup Creating \cup Migrating]
      /\ SelectionMeans(p)' /\ Selected(p)' = Selected(p) /\ Current(p)' = Current(p)
      /\ pc'[p] = to /\ todo' = todo /\ todo' \in [Process -> SUBSET Requirement]
  BY <1>1, <1>2, <1>3, StayStep
<1>5. TypeOK'
  BY <1>2, <1>4 DEF TypeOK
<1>6. /\ \A r \in todo[p] \ {Current(p)} : staged[batch[p]][r] = "whole"
      /\ \A r \in Selected(p) \ todo[p] : Installed(batch[p], r)
  BY <1>2, Places DEF LoopsMean
<1>7. \A r \in Selected(p) \ todo[p] : Installed(batch[p], r)'
  BY <1>2, <1>3, <1>6, InstalledKept
<1>8. LoopsMean(p)'
  BY <1>3, <1>4, <1>6, <1>7, Places DEF LoopsMean
<1>9. Own(p)'
  BY <1>4, <1>8, MigratePlace, Places
<1> QED
  BY <1>4, <1>5, <1>9, StepKeeps

\* The run that is imported is the one reserved for it, and carries no other intent.
LEMMA ImportOwner ==
    ASSUME IInv, NEW p \in Process, pc[p] \in Allocated \ {"reserve", "write reservation"}
    PROVE  /\ intent[RunOf(p)] \in {None, <<batch[p], Current(p)>>}
           /\ intent[RunOf(p)] \notin Request /\ status[RunOf(p)] # "CREATED"
           /\ <<batch[p], Current(p)>> \in Batch \X Requirement
<1>1. /\ batch[p] \in Batch /\ Current(p) \in DOMAIN batch[p]
      /\ reservation[batch[p]] = "whole" /\ RunOf(p) = reserved[batch[p]][Current(p)]
      /\ RunOf(p) \in RunId
  BY BatchFacts
<1>2. intent[RunOf(p)] \in {None, <<batch[p], Current(p)>>}
  BY <1>1 DEF IInv, OwnersMean
<1>3. <<batch[p], Current(p)>> \in Batch \X Requirement
  BY <1>1, BatchDomain
<1>4. intent[RunOf(p)] \notin Request
  BY <1>2, <1>3, IntentAssumption, NoRequestAssumption
<1>5. status[RunOf(p)] # "CREATED"
  BY <1>1, <1>4 DEF IInv, RunsMean
<1> QED
  BY <1>2, <1>3, <1>4, <1>5

LEMMA EnterImportKeeps ==
    ASSUME IInv, NEW p \in Process, EnterImport(p)
    PROVE  IInv'
<1>1. pc[p] = "import" /\ pc[p] \in Allocated \ {"reserve", "write reservation"}
  BY Places DEF EnterImport, At
<1> DEFINE i == RunOf(p)
<1>2. TypeOK /\ i \in RunId /\ ImportMeans(p)
  BY <1>1, BatchFacts
<1>3. status[i] # "CREATED"
  BY <1>1, ImportOwner
<1>4. PICK to \in {"import ref", "import receipt"} :
        Stay(p, to) /\ (to = "import ref" <=> status[i] = "none")
  BY DEF EnterImport
<1>5. /\ lock' = [lock EXCEPT ![i] = p] /\ dirs' = dirs \cup {i}
      /\ UNCHANGED <<allocator, migrating, intent, ref, status, receipt, ids, mine,
                     world, batches, completion>>
  BY DEF EnterImport
<1>6. pc'[p] = to /\ Current(p)' = Current(p) /\ i' = i /\ UNCHANGED batch
  BY <1>4, <1>5, Staying DEF RunOf
<1>7. Grows
  BY <1>5 DEF Grows
<1>8. Disk'
  <2>1. RunsMean'
    BY <1>5 DEF IInv, RunsMean
  <2>2. UNCHANGED <<intent, ids, claim, claimed, status>>
    BY <1>5
  <2> QED
    BY <1>7, <2>1, <2>2, GrowingDisk DEF Pristine
<1>9. ImportMeans(p)'
  <2>1. backup[batch[p]][Current(p)] = "whole"
    BY <1>1, <1>2 DEF ImportMeans
  <2>2. status[i] # "none" => ref[i] # "none" /\ ~ Pristine(i)
    BY <1>2, <1>3 DEF IInv, RunsMean, Pristine
  <2>3. UNCHANGED <<backup, ref, status>> /\ i \in dirs'
    BY <1>5
  <2> HIDE DEF i
  <2>4. ~ Pristine(i) => ~ Pristine(i)'
    BY <1>6, <2>3 DEF Pristine
  <2> QED
    BY <1>4, <1>6, <2>1, <2>2, <2>3, <2>4, Places DEF ImportMeans, i
<1>10. lock' \in [RunId -> Process \cup {None}] /\ dirs' \in SUBSET RunId
  BY <1>2, <1>5 DEF TypeOK
<1>11. to \in Importing
  BY <1>4, Places
<1>12. /\ intent' = intent /\ ref' = ref /\ status' = status /\ receipt' = receipt
       /\ UNCHANGED <<allocator, migrating, ids, mine, world, batches, completion>>
  BY <1>5
<1> QED
  BY <1>1, <1>2, <1>4, <1>7, <1>8, <1>9, <1>10, <1>11, <1>12, ImportStep DEF TypeOK

LEMMA ImportRefKeeps ==
    ASSUME IInv, NEW p \in Process, ImportRef(p)
    PROVE  IInv'
<1>1. pc[p] = "import ref" /\ pc[p] \in Allocated \ {"reserve", "write reservation"}
      /\ pc[p] \in Importing /\ "import intent" \in Importing
  BY Places DEF ImportRef, At
<1> DEFINE i == RunOf(p)
<1>2. TypeOK /\ i \in RunId /\ ImportMeans(p)
  BY <1>1, BatchFacts
<1>3. /\ ref' = [ref EXCEPT ![i] = "base"] /\ Stay(p, "import intent")
      /\ UNCHANGED <<locks, dirs, intent, status, receipt, ids, mine, world,
                     batches, completion>>
  BY DEF ImportRef
<1>4. pc'[p] = "import intent" /\ Current(p)' = Current(p) /\ i' = i /\ UNCHANGED batch
  BY <1>3, Staying DEF RunOf
<1>5. /\ ref' \in [RunId -> {"none", "base", "moved"}] /\ ref'[i] = "base"
      /\ \A j \in RunId \ {i} : ref'[j] = ref[j]
  BY <1>2, <1>3 DEF TypeOK
<1>6. Grows
  BY <1>2, <1>3, <1>5 DEF Grows
<1>7. Disk'
  <2>1. RunsMean'
    BY <1>2, <1>3, <1>5 DEF IInv, RunsMean
  <2>2. UNCHANGED <<intent, ids, claim, claimed, status>>
    BY <1>3
  <2> QED
    BY <1>6, <2>1, <2>2, GrowingDisk DEF Pristine
<1>8. ImportMeans(p)'
  <2>1. backup[batch[p]][Current(p)] = "whole" /\ i \in dirs /\ status[i] = "none"
    BY <1>1, <1>2 DEF ImportMeans
  <2>2. UNCHANGED <<backup, dirs, status>>
    BY <1>3
  <2> QED
    BY <1>4, <1>5, <2>1, <2>2, Places DEF ImportMeans
<1>9. /\ lock' = lock /\ dirs' = dirs /\ intent' = intent /\ status' = status
      /\ receipt' = receipt
      /\ UNCHANGED <<allocator, migrating, ids, mine, world, batches, completion>>
  BY <1>3
<1>10. /\ lock' \in [RunId -> Process \cup {None}]
      /\ dirs' \in SUBSET RunId
      /\ intent' \in [RunId -> Request \cup (Batch \X Requirement) \cup {None}]
      /\ status' \in [RunId -> {"none", "CREATED", "INSTALLING", "PAUSED", "READ_ONLY",
                                "DRIVEN"}]
      /\ receipt' \in [RunId -> Bound]
  BY <1>2, <1>9 DEF TypeOK
<1>11. Stay(p, "import intent") /\ pc[p] \in {"import"} \cup Importing
  BY <1>1, <1>3
<1> QED
  BY <1>1, <1>5, <1>6, <1>7, <1>8, <1>9, <1>10, <1>11, ImportStep

LEMMA ImportIntentKeeps ==
    ASSUME IInv, NEW p \in Process, ImportIntent(p)
    PROVE  IInv'
<1>1. pc[p] = "import intent" /\ pc[p] \in Allocated \ {"reserve", "write reservation"}
      /\ pc[p] \in Importing /\ "import state" \in Importing
  BY Places DEF ImportIntent, At
<1> DEFINE i == RunOf(p)
           w == <<batch[p], Current(p)>>
<1>2. /\ TypeOK /\ i \in RunId /\ ImportMeans(p) /\ batch[p] \in Batch
      /\ Current(p) \in DOMAIN batch[p] /\ reservation[batch[p]] = "whole"
      /\ i = reserved[batch[p]][Current(p)]
  BY <1>1, BatchFacts
<1>3. /\ intent[i] \in {None, w} /\ status[i] # "CREATED" /\ w \in Batch \X Requirement
  BY <1>1, ImportOwner
<1>4. /\ intent' = [intent EXCEPT ![i] = w] /\ Stay(p, "import state")
      /\ UNCHANGED <<locks, dirs, ref, status, receipt, ids, mine, world, batches,
                     completion>>
  BY DEF ImportIntent
<1>5. pc'[p] = "import state" /\ Current(p)' = Current(p) /\ i' = i /\ UNCHANGED batch
  BY <1>4, Staying DEF RunOf
<1> HIDE DEF i, w
<1>6. /\ intent' \in [RunId -> Request \cup (Batch \X Requirement) \cup {None}]
      /\ intent'[i] = w /\ \A j \in RunId \ {i} : intent'[j] = intent[j]
  BY <1>2, <1>3, <1>4 DEF TypeOK
<1>7. Grows
  BY <1>3, <1>4, <1>6 DEF Grows
<1>8. /\ i \in dirs /\ backup[batch[p]][Current(p)] = "whole" /\ ref[i] # "none"
      /\ status[i] = "none"
  BY <1>1, <1>2, Places DEF ImportMeans, i
<1>9. w # None /\ w \notin Request
  BY <1>3, IntentAssumption
<1>10. Disk'
  <2>0. UNCHANGED <<dirs, ref, status, ids, claim, claimed, completed, backup>>
    BY <1>4
  <2>1. RunsMean'
    BY <1>3, <1>6, <1>8, <1>9, <2>0 DEF IInv, RunsMean
  <2>2. OwnersMean'
    <3> SUFFICES ASSUME NEW b \in Batch, NEW c \in Batch, reservation[b] # "absent",
                        reservation[c] # "absent", NEW r \in DOMAIN b, NEW q \in DOMAIN c
                 PROVE  /\ reserved[b][r] = reserved[c][q] => b = c /\ r = q
                        /\ intent'[reserved[b][r]] \in {None, <<b, r>>}
      BY <2>0 DEF OwnersMean
    <3>1. /\ reserved[b][r] = reserved[c][q] => b = c /\ r = q
          /\ intent[reserved[b][r]] \in {None, <<b, r>>} /\ reserved[b][r] \in RunId
      BY DEF IInv, OwnersMean, TypeOK
    <3>2. reserved[b][r] = i => b = batch[p] /\ r = Current(p)
      BY <1>2 DEF IInv, OwnersMean
    <3> QED
      BY <1>6, <3>1, <3>2 DEF w
  <2>3. OpenMeans'
    <3>1. \A j \in RunId : Pristine(j)' = Pristine(j)
      BY <2>0 DEF Pristine
    <3> QED
      BY <1>6, <1>9, <3>1 DEF IInv, OpenMeans
  <2>4. ClaimsMean'
    BY <1>7, <2>0, ClaimsKept
  <2>5. FinalizedIsClaimed'
    <3> SUFFICES ASSUME NEW j \in RunId, NEW b \in Batch, NEW r \in DOMAIN b,
                        intent'[j] = <<b, r>>, status[j] \notin {"none", "INSTALLING"}
                 PROVE  /\ completed[b] = "whole" /\ reserved[b][r] = j
                        /\ \A q \in DOMAIN b : /\ claim[q] = "whole" /\ claimed[q] = b
                                               /\ backup[b][q] = "whole"
      BY <2>0 DEF FinalizedIsClaimed
    <3>1. intent[j] # None
      BY DEF IInv, RunsMean
    <3>2. intent[j] = <<b, r>>
      BY <1>3, <1>6, <3>1
    <3> QED
      BY <3>2 DEF IInv, FinalizedIsClaimed
  <2> QED
    BY <2>1, <2>2, <2>3, <2>4, <2>5 DEF Disk
<1>11. ImportMeans(p)'
  <2>1. UNCHANGED <<backup, dirs, ref, status>>
    BY <1>4
  <2> QED
    BY <1>5, <1>6, <1>8, <2>1, Places DEF ImportMeans, i, w
<1>12. /\ lock' = lock /\ dirs' = dirs /\ ref' = ref /\ status' = status /\ receipt' = receipt
       /\ UNCHANGED <<allocator, migrating, ids, mine, world, batches, completion>>
  BY <1>4
<1>13. /\ lock' \in [RunId -> Process \cup {None}]
      /\ dirs' \in SUBSET RunId
      /\ ref' \in [RunId -> {"none", "base", "moved"}]
      /\ status' \in [RunId -> {"none", "CREATED", "INSTALLING", "PAUSED", "READ_ONLY",
                                "DRIVEN"}]
      /\ receipt' \in [RunId -> Bound]
  BY <1>2, <1>12 DEF TypeOK
<1>14. Stay(p, "import state") /\ pc[p] \in {"import"} \cup Importing
  BY <1>1, <1>4
<1> QED
  BY <1>1, <1>6, <1>7, <1>10, <1>11, <1>12, <1>13, <1>14, ImportStep

LEMMA ImportStateKeeps ==
    ASSUME IInv, NEW p \in Process, ImportState(p)
    PROVE  IInv'
<1>1. pc[p] = "import state" /\ pc[p] \in Allocated \ {"reserve", "write reservation"}
      /\ pc[p] \in Importing /\ "import receipt" \in Importing
  BY Places DEF ImportState, At
<1> DEFINE i == RunOf(p)
<1>2. TypeOK /\ i \in RunId /\ ImportMeans(p)
  BY <1>1, BatchFacts
<1>3. /\ intent[i] # None /\ ref[i] # "none" /\ i \in dirs /\ status[i] = "none"
      /\ backup[batch[p]][Current(p)] = "whole"
  <2>1. <<batch[p], Current(p)>> \in Batch \X Requirement
    BY <1>1, ImportOwner
  <2>2. <<batch[p], Current(p)>> # None
    BY <2>1, IntentAssumption
  <2> QED
    BY <1>1, <1>2, <2>2, Places DEF ImportMeans
<1>4. /\ status' = [status EXCEPT ![i] = "INSTALLING"] /\ Stay(p, "import receipt")
      /\ UNCHANGED <<locks, dirs, intent, ref, receipt, ids, mine, world, batches,
                     completion>>
  BY DEF ImportState
<1>5. pc'[p] = "import receipt" /\ Current(p)' = Current(p) /\ i' = i /\ UNCHANGED batch
  BY <1>4, Staying DEF RunOf
<1> HIDE DEF i
<1>6. /\ status' \in [RunId -> {"none", "CREATED", "INSTALLING", "PAUSED", "READ_ONLY",
                                "DRIVEN"}]
      /\ status'[i] = "INSTALLING" /\ \A j \in RunId \ {i} : status'[j] = status[j]
  BY <1>2, <1>4 DEF TypeOK
<1>7. Grows
  BY <1>3, <1>4, <1>6 DEF Grows
<1>8. Disk'
  <2>1. RunsMean'
    BY <1>3, <1>4, <1>6 DEF IInv, RunsMean
  <2>2. UNCHANGED <<intent, ids, claim, claimed>>
    BY <1>4
  <2>3. /\ \A j \in RunId : Pristine(j)' => Pristine(j)
        /\ \A j \in RunId : \/ status'[j] \in {"none", "INSTALLING"}
                            \/ status[j] \notin {"none", "INSTALLING"}
    BY <1>6 DEF Pristine
  <2> QED
    BY <1>7, <2>1, <2>2, <2>3, GrowingDisk
<1>9. ImportMeans(p)'
  <2>1. UNCHANGED <<backup, dirs, ref>>
    BY <1>4
  <2> QED
    BY <1>3, <1>5, <1>6, <2>1, Places DEF ImportMeans, i, Pristine
<1>10. /\ lock' = lock /\ dirs' = dirs /\ ref' = ref /\ intent' = intent /\ receipt' = receipt
       /\ UNCHANGED <<allocator, migrating, ids, mine, world, batches, completion>>
  BY <1>4
<1>11. /\ lock' \in [RunId -> Process \cup {None}]
      /\ dirs' \in SUBSET RunId
      /\ intent' \in [RunId -> Request \cup (Batch \X Requirement) \cup {None}]
      /\ ref' \in [RunId -> {"none", "base", "moved"}]
      /\ receipt' \in [RunId -> Bound]
  BY <1>2, <1>10 DEF TypeOK
<1>12. Stay(p, "import receipt") /\ pc[p] \in {"import"} \cup Importing
  BY <1>1, <1>4
<1> QED
  BY <1>1, <1>6, <1>7, <1>8, <1>9, <1>10, <1>11, <1>12, ImportStep

LEMMA ImportReceiptKeeps ==
    ASSUME IInv, NEW p \in Process, ImportReceipt(p)
    PROVE  IInv'
<1>1. pc[p] = "import receipt" /\ pc[p] \in Allocated \ {"reserve", "write reservation"}
      /\ pc[p] \in Importing /\ "import bind" \in Importing
  BY Places DEF ImportReceipt, At
<1> DEFINE i == RunOf(p)
<1>2. TypeOK /\ i \in RunId /\ ImportMeans(p)
  BY <1>1, BatchFacts
<1>3. ref[i] # "none" /\ i \in dirs /\ backup[batch[p]][Current(p)] = "whole" /\ ~ Pristine(i)
  BY <1>1, <1>2, Places DEF ImportMeans
<1>4. /\ receipt' = [receipt EXCEPT ![i] = IF @ = "bound" THEN @ ELSE "orphan"]
      /\ Stay(p, "import bind")
      /\ UNCHANGED <<locks, dirs, intent, ref, status, ids, mine, world, batches, completion>>
  BY DEF ImportReceipt
<1>5. pc'[p] = "import bind" /\ Current(p)' = Current(p) /\ i' = i /\ UNCHANGED batch
  BY <1>4, Staying DEF RunOf
<1> HIDE DEF i
<1>6. /\ receipt' \in [RunId -> Bound]
      /\ receipt[i] = "bound" => receipt'[i] = "bound"
      /\ \A j \in RunId \ {i} : receipt'[j] = receipt[j]
  BY <1>2, <1>4 DEF TypeOK, Bound
<1>7. Grows
  BY <1>4, <1>6 DEF Grows
<1>8. Disk'
  <2>1. RunsMean'
    BY <1>4 DEF IInv, RunsMean
  <2>2. UNCHANGED <<intent, ids, claim, claimed, status>>
    BY <1>4
  <2> QED
    BY <1>7, <2>1, <2>2, GrowingDisk DEF Pristine
<1>9. ImportMeans(p)'
  <2>1. UNCHANGED <<backup, dirs, ref, status>>
    BY <1>4
  <2> QED
    BY <1>3, <1>5, <2>1, Places DEF ImportMeans, i, Pristine
<1>10. /\ lock' = lock /\ dirs' = dirs /\ ref' = ref /\ intent' = intent /\ status' = status
       /\ UNCHANGED <<allocator, migrating, ids, mine, world, batches, completion>>
  BY <1>4
<1>11. /\ lock' \in [RunId -> Process \cup {None}] /\ dirs' \in SUBSET RunId
       /\ intent' \in [RunId -> Request \cup (Batch \X Requirement) \cup {None}]
       /\ ref' \in [RunId -> {"none", "base", "moved"}]
       /\ status' \in [RunId -> {"none", "CREATED", "INSTALLING", "PAUSED", "READ_ONLY",
                                 "DRIVEN"}]
  BY <1>2, <1>10 DEF TypeOK
<1>12. Stay(p, "import bind") /\ pc[p] \in {"import"} \cup Importing
  BY <1>1, <1>4
<1> QED
  BY <1>1, <1>6, <1>7, <1>8, <1>9, <1>10, <1>11, <1>12, ImportStep

LEMMA ImportBindKeeps ==
    ASSUME IInv, NEW p \in Process, ImportBind(p)
    PROVE  IInv'
<1>1. pc[p] = "import bind" /\ pc[p] \in Allocated \ {"reserve", "write reservation"}
      /\ pc[p] \in Importing
  BY Places DEF ImportBind, At
<1> DEFINE i == RunOf(p)
           b == batch[p]
           r == Current(p)
<1>2. /\ TypeOK /\ i \in RunId /\ ImportMeans(p) /\ LoopsMean(p) /\ pc[p] \in Migrating
      /\ b \in Batch /\ Selected(p) = DOMAIN b /\ r \in todo[p] /\ todo[p] \subseteq Selected(p)
      /\ i = reserved[b][r] /\ reservation[b] = "whole"
      /\ \A q \in Selected(p) : claim[q] # "absent" => claimed[q] = batch[p]
  BY <1>1, BatchFacts
<1>3. ref[i] # "none" /\ backup[b][r] = "whole" /\ ~ Pristine(i)
  BY <1>1, <1>2, Places DEF ImportMeans
<1>4. /\ \A q \in todo[p] \ {r} : staged[b][q] = "whole"
      /\ \A q \in Selected(p) \ todo[p] : Installed(b, q)
  BY <1>1, <1>2 DEF LoopsMean
<1>5. /\ receipt' = [receipt EXCEPT ![i] = "bound"] /\ lock' = [lock EXCEPT ![i] = None]
      /\ Advance(p, "install", "claim")
      /\ UNCHANGED <<allocator, migrating, dirs, intent, ref, status, ids, mine,
                     world, batches, completion>>
  BY DEF ImportBind
<1>6. /\ Frame(p) /\ allocator' = p /\ migrating' = p
      /\ pc' \in [Process -> {"idle", "execute", "drive", "answer"} \cup Creating \cup Migrating]
      /\ SelectionMeans(p)' /\ Selected(p)' = Selected(p)
      /\ todo' \in [Process -> SUBSET Requirement]
      /\ \/ /\ pc'[p] = "claim" /\ todo'[p] = Selected(p)
            /\ \A q \in Selected(p) : q \notin todo[p] \/ q = r
         \/ /\ pc'[p] = "install" /\ todo'[p] = todo[p] \ {r}
            /\ \A q \in Selected(p) : q \in todo'[p] \/ q \notin todo[p] \/ q = r
  BY <1>1, <1>2, <1>5, AdvanceStep, Places
<1> HIDE DEF i, b, r
<1>7. /\ receipt' \in [RunId -> Bound] /\ receipt'[i] = "bound"
      /\ \A j \in RunId \ {i} : receipt'[j] = receipt[j]
      /\ lock' \in [RunId -> Process \cup {None}]
  BY <1>2, <1>5 DEF TypeOK, Bound
<1>8. TypeOK'
  BY <1>2, <1>5, <1>6, <1>7 DEF TypeOK
<1>9. Grows
  BY <1>5, <1>7 DEF Grows
<1>10. Disk'
  <2>1. RunsMean'
    BY <1>5 DEF IInv, RunsMean
  <2>2. UNCHANGED <<intent, ids, claim, claimed, status>>
    BY <1>5
  <2> QED
    BY <1>9, <2>1, <2>2, GrowingDisk DEF Pristine
<1>11. UNCHANGED <<batch, staged, backup, reservation, reserved, status, ref>>
  BY <1>5
<1>12. \A q \in Selected(p) : q \notin todo[p] \/ q = r => Installed(b, q)'
  <2>1. \A q \in Selected(p) : Installed(b, q) => Installed(b, q)'
    BY <1>2, <1>9, <1>11, InstalledKept DEF b
  <2>2. ASSUME NEW q \in Selected(p), q = r  PROVE Installed(b, q)'
    BY <1>2, <1>3, <1>7, <1>11, <2>2 DEF Installed, Pristine, b
  <2> QED
    BY <1>4, <2>1, <2>2
<1>13. LoopsMean(p)'
  BY <1>2, <1>4, <1>6, <1>11, <1>12, Places DEF LoopsMean, b
<1>14. ImportMeans(p)'
  BY <1>6, Places DEF ImportMeans
<1>15. Own(p)'
  BY <1>6, <1>13, <1>14, MigratePlace, Places
<1> QED
  BY <1>6, <1>8, <1>9, <1>10, <1>15, StepKeeps

-----------------------------------------------------------------------------
(***************************************************************************)
(* Claims, completed.json, finalization.                                   *)
(***************************************************************************)
LEMMA ClaimKeeps ==
    ASSUME IInv, NEW p \in Process, Claim(p)
    PROVE  IInv'
<1>1. pc[p] = "claim" /\ pc[p] \in Allocated \ {"reserve", "write reservation"}
  BY Places DEF Claim, At
<1> DEFINE b == batch[p]
           r == Current(p)
<1>2. /\ TypeOK /\ LoopsMean(p) /\ pc[p] \in Migrating /\ Selected(p) \in SUBSET Requirement
      /\ b \in Batch /\ Selected(p) = DOMAIN b /\ r \in todo[p] /\ todo[p] \subseteq Selected(p)
      /\ \A q \in Selected(p) : claim[q] # "absent" => claimed[q] = batch[p]
  BY <1>1, BatchFacts
<1>3. /\ \A q \in Selected(p) : Installed(b, q)
      /\ \A q \in Selected(p) \ todo[p] : claim[q] = "whole"
  BY <1>1, <1>2 DEF LoopsMean
<1>4. UNCHANGED <<locks, runs, ids, mine, world, prepared, completed, staged,
                  backup, completion>>
  BY DEF Claim
<1>5. UNCHANGED <<batch, reservation, reserved, status, ref, receipt, backup, intent, completed>>
  BY <1>4
<1>6. \A q \in Selected(p) : Installed(b, q)'
  BY <1>3, <1>5 DEF Installed, Pristine
<1>7. CASE claim[r] = "whole"
  <2>1. Advance(p, "claim", "complete") /\ UNCHANGED <<claim, claimed>>
    BY <1>7 DEF Claim
  <2>2. /\ Frame(p) /\ allocator' = p /\ migrating' = p
        /\ pc' \in [Process -> {"idle", "execute", "drive", "answer"} \cup Creating \cup Migrating]
        /\ SelectionMeans(p)' /\ Selected(p)' = Selected(p)
        /\ todo' \in [Process -> SUBSET Requirement]
        /\ \/ /\ pc'[p] = "complete" /\ todo'[p] = Selected(p)
              /\ \A q \in Selected(p) : q \notin todo[p] \/ q = r
           \/ /\ pc'[p] = "claim" /\ todo'[p] = todo[p] \ {r}
              /\ \A q \in Selected(p) : q \in todo'[p] \/ q \notin todo[p] \/ q = r
    BY <1>1, <1>2, <1>4, <2>1, AdvanceStep, Places
  <2>3. TypeOK'
    BY <1>2, <1>4, <2>1, <2>2 DEF TypeOK
  <2>4. LoopsMean(p)' /\ ImportMeans(p)'
    BY <1>3, <1>5, <1>6, <1>7, <2>1, <2>2, Places DEF LoopsMean, ImportMeans
  <2>5. Own(p)'
    BY <2>2, <2>4, MigratePlace, Places
  <2>6. UNCHANGED diskVars
    BY <1>4, <2>1 DEF diskVars
  <2> QED
    BY <2>2, <2>3, <2>5, <2>6, QuietStep
<1>8. CASE claim[r] # "whole"
  <2>1. /\ claim' = [claim EXCEPT ![r] = "torn"] /\ claimed' = [claimed EXCEPT ![r] = b]
        /\ Stay(p, "write claim")
    BY <1>8 DEF Claim
  <2> HIDE DEF b, r
  <2>2. /\ claim' \in [Requirement -> FileState] /\ claim'[r] = "torn"
        /\ claimed' \in [Requirement -> Batch \cup {None}] /\ claimed'[r] = b
        /\ \A q \in Requirement \ {r} : claim'[q] = claim[q] /\ claimed'[q] = claimed[q]
    BY <1>2, <2>1 DEF TypeOK, FileState
  <2>3. \A q \in Selected(p) : claim'[q] # "absent" => claimed'[q] = batch[p]
    BY <1>2, <2>2 DEF b
  <2>4. /\ Frame(p) /\ allocator' = p /\ migrating' = p
        /\ pc' \in [Process -> {"idle", "execute", "drive", "answer"} \cup Creating \cup Migrating]
        /\ SelectionMeans(p)' /\ Selected(p)' = Selected(p) /\ Current(p)' = Current(p)
        /\ pc'[p] = "write claim" /\ todo' = todo /\ todo' \in [Process -> SUBSET Requirement]
    BY <1>1, <1>4, <2>1, <2>3, StayStep, Places
  <2>5. TypeOK'
    BY <1>2, <1>4, <2>2, <2>4 DEF TypeOK
  <2>6. Grows
    BY <1>4, <1>8, <2>2 DEF Grows
  <2>7. Disk'
    <3>1. RunsMean'
      BY <1>4 DEF IInv, RunsMean
    <3>2. OwnersMean'
      BY <1>4 DEF IInv, OwnersMean
    <3>3. OpenMeans'
      BY <1>4 DEF IInv, OpenMeans, Pristine
    <3>4. ClaimsMean'
      <4> SUFFICES ASSUME NEW q \in Requirement, claim'[q] # "absent"
                   PROVE  /\ claimed'[q] \in Batch /\ q \in DOMAIN claimed'[q]
                          /\ \A s \in DOMAIN claimed'[q] : Installed(claimed[q], s)'
        BY DEF ClaimsMean
      <4>1. CASE q = r
        <5>1. claimed'[q] = b /\ q \in Selected(p)
          BY <1>2, <2>2, <4>1
        <5> QED
          BY <1>2, <1>5, <1>6, <5>1 DEF b
      <4>2. CASE q # r
        <5>1. claimed'[q] = claimed[q] /\ claim[q] # "absent"
          BY <2>2, <4>2
        <5>2. /\ claimed[q] \in Batch /\ q \in DOMAIN claimed[q]
              /\ \A s \in DOMAIN claimed[q] : Installed(claimed[q], s)
          BY <5>1 DEF IInv, ClaimsMean
        <5> QED
          BY <1>5, <5>1, <5>2 DEF Installed, Pristine
      <4> QED
        BY <4>1, <4>2
    <3>5. FinalizedIsClaimed'
      <4> SUFFICES ASSUME NEW i \in RunId, NEW c \in Batch, NEW s \in DOMAIN c,
                          intent[i] = <<c, s>>, status[i] \notin {"none", "INSTALLING"}
                   PROVE  /\ completed[c] = "whole" /\ reserved[c][s] = i
                          /\ \A q \in DOMAIN c : /\ claim'[q] = "whole" /\ claimed'[q] = c
                                                 /\ backup[c][q] = "whole"
        BY <1>5 DEF FinalizedIsClaimed
      <4>1. /\ completed[c] = "whole" /\ reserved[c][s] = i
            /\ \A q \in DOMAIN c : /\ claim[q] = "whole" /\ claimed[q] = c
                                   /\ backup[c][q] = "whole"
        BY DEF IInv, FinalizedIsClaimed
      <4>2. \A q \in DOMAIN c : q \in Requirement /\ q # r
        BY <1>8, <4>1, BatchDomain
      <4> QED
        BY <2>2, <4>1, <4>2
    <3> QED
      BY <3>1, <3>2, <3>3, <3>4, <3>5 DEF Disk
  <2>8. LoopsMean(p)' /\ ImportMeans(p)'
    <3>1. \A q \in Selected(p) \ todo[p] : claim'[q] = "whole"
      BY <1>2, <1>3, <2>2
    <3>2. claim'[Current(p)] # "absent"
      BY <2>2 DEF r
    <3> QED
      BY <1>5, <1>6, <2>4, <3>1, <3>2, Places DEF LoopsMean, ImportMeans, b
  <2>9. Own(p)'
    BY <2>4, <2>8, MigratePlace, Places
  <2> QED
    BY <2>4, <2>5, <2>6, <2>7, <2>9, StepKeeps
<1> QED
  BY <1>7, <1>8

LEMMA WriteClaimKeeps ==
    ASSUME IInv, NEW p \in Process, WriteClaim(p)
    PROVE  IInv'
<1>1. pc[p] = "write claim" /\ pc[p] \in Allocated \ {"reserve", "write reservation"}
  BY Places DEF WriteClaim, At
<1> DEFINE b == batch[p]
           r == Current(p)
<1>2. /\ TypeOK /\ LoopsMean(p) /\ pc[p] \in Migrating /\ Selected(p) \in SUBSET Requirement
      /\ b \in Batch /\ Selected(p) = DOMAIN b /\ r \in todo[p] /\ todo[p] \subseteq Selected(p)
      /\ \A q \in Selected(p) : claim[q] # "absent" => claimed[q] = batch[p]
  BY <1>1, BatchFacts
<1>3. /\ \A q \in Selected(p) : Installed(b, q)
      /\ \A q \in Selected(p) \ todo[p] : claim[q] = "whole"
      /\ claim[r] # "absent"
  BY <1>1, <1>2 DEF LoopsMean
<1>4. /\ claim' = [claim EXCEPT ![r] = "whole"] /\ Advance(p, "claim", "complete")
      /\ UNCHANGED <<locks, runs, ids, mine, world, prepared, completed, staged,
                     backup, claimed, completion>>
  BY DEF WriteClaim
<1>5. UNCHANGED <<batch, reservation, reserved, status, ref, receipt, backup, intent, completed,
                  claimed>>
  BY <1>4
<1>6. \A q \in Selected(p) : Installed(b, q)'
  BY <1>3, <1>5 DEF Installed, Pristine
<1>7. /\ claim' \in [Requirement -> FileState] /\ claim'[r] = "whole"
      /\ \A q \in Requirement \ {r} : claim'[q] = claim[q]
  BY <1>2, <1>4 DEF TypeOK, FileState
<1>8. \A q \in Requirement : claim'[q] # "absent" <=> claim[q] # "absent"
  BY <1>3, <1>7
<1>9. /\ Frame(p) /\ allocator' = p /\ migrating' = p
      /\ pc' \in [Process -> {"idle", "execute", "drive", "answer"} \cup Creating \cup Migrating]
      /\ SelectionMeans(p)' /\ Selected(p)' = Selected(p)
      /\ todo' \in [Process -> SUBSET Requirement]
      /\ \/ /\ pc'[p] = "complete" /\ todo'[p] = Selected(p)
            /\ \A q \in Selected(p) : q \notin todo[p] \/ q = r
         \/ /\ pc'[p] = "claim" /\ todo'[p] = todo[p] \ {r}
            /\ \A q \in Selected(p) : q \in todo'[p] \/ q \notin todo[p] \/ q = r
  <2>1. \A q \in Selected(p) : claim'[q] # "absent" => claimed'[q] = batch[p]
    BY <1>2, <1>5, <1>8
  <2> QED
    BY <1>1, <1>4, <2>1, AdvanceStep, Places
<1>10. TypeOK'
  <2> HIDE DEF b, r
  <2> QED
    BY <1>2, <1>4, <1>7, <1>9 DEF TypeOK
<1>11. Grows
  BY <1>4, <1>7 DEF Grows
<1>12. Disk'
  <2>1. RunsMean'
    BY <1>4 DEF IInv, RunsMean
  <2>2. OwnersMean'
    BY <1>4 DEF IInv, OwnersMean
  <2>3. OpenMeans'
    BY <1>4 DEF IInv, OpenMeans, Pristine
  <2>4. ClaimsMean'
    BY <1>5, <1>8 DEF IInv, ClaimsMean, Installed, Pristine
  <2>5. FinalizedIsClaimed'
    <3>1. \A q \in Requirement : claim[q] = "whole" => claim'[q] = "whole"
      BY <1>7
    <3>2. \A c \in Batch : DOMAIN c \in SUBSET Requirement
      BY BatchDomain
    <3> QED
      BY <1>5, <3>1, <3>2 DEF IInv, FinalizedIsClaimed
  <2> QED
    BY <2>1, <2>2, <2>3, <2>4, <2>5 DEF Disk
<1>13. \A q \in Selected(p) : q \notin todo[p] \/ q = r => claim'[q] = "whole"
  BY <1>2, <1>3, <1>7
<1>14. LoopsMean(p)' /\ ImportMeans(p)'
  BY <1>5, <1>6, <1>9, <1>13, Places DEF LoopsMean, ImportMeans
<1>15. Own(p)'
  BY <1>9, <1>14, MigratePlace, Places
<1> QED
  BY <1>9, <1>10, <1>11, <1>12, <1>15, StepKeeps

LEMMA CompleteKeeps ==
    ASSUME IInv, NEW p \in Process, Complete(p) \/ WriteCompleted(p)
    PROVE  IInv'
<1>1. pc[p] \in {"complete", "write completed"}
      /\ pc[p] \in Allocated \ {"reserve", "write reservation"} /\ pc[p] \in Closing
  BY Places DEF Complete, WriteCompleted, At
<1> DEFINE b == batch[p]
<1>2. /\ TypeOK /\ LoopsMean(p) /\ b \in Batch /\ pc[p] \in Migrating
      /\ \A q \in Selected(p) : claim[q] # "absent" => claimed[q] = batch[p]
  BY <1>1, BatchFacts
<1>3. /\ \A q \in Selected(p) : Installed(b, q)
      /\ \A q \in Selected(p) : claim[q] = "whole"
  BY <1>1, <1>2, Places DEF LoopsMean
<1>4. UNCHANGED <<locks, runs, ids, mine, world, prepared, staged, backup,
                  claim, claimed, completion>>
  BY DEF Complete, WriteCompleted
<1>5. completed[b] \in FileState
  BY <1>2 DEF TypeOK
<1>6. PICK to \in {"write completed", "finalize"} :
        /\ Stay(p, to)
        /\ to = "finalize" => completed'[b] = "whole"
        /\ completed' \in [Batch -> FileState]
        /\ \A c \in Batch : completed[c] = "whole" => completed'[c] = "whole"
  <2>1. CASE WriteCompleted(p)
    BY <1>2, <2>1 DEF WriteCompleted, TypeOK, FileState
  <2>2. CASE Complete(p) /\ completed[b] = "absent"
    <3>1. completed' = [completed EXCEPT ![b] = "torn"] /\ Stay(p, "write completed")
      BY <2>2 DEF Complete
    <3> QED
      BY <1>2, <2>2, <3>1 DEF TypeOK, FileState
  <2>3. CASE Complete(p) /\ completed[b] = "whole"
    <3>1. completed' = completed /\ Stay(p, "finalize")
      BY <2>3 DEF Complete
    <3> QED
      BY <1>2, <2>3, <3>1 DEF TypeOK
  <2>4. Complete(p) => completed[b] \in {"absent", "whole"}
    BY DEF Complete
  <2> QED
    BY <2>1, <2>2, <2>3, <2>4
<1>7. Stay(p, to) /\ (to = "finalize" => completed'[b] = "whole")
  BY <1>6
<1>8. /\ Frame(p) /\ allocator' = p /\ migrating' = p
      /\ pc' \in [Process -> {"idle", "execute", "drive", "answer"} \cup Creating \cup Migrating]
      /\ SelectionMeans(p)' /\ Selected(p)' = Selected(p)
      /\ pc'[p] = to /\ todo' = todo /\ todo' \in [Process -> SUBSET Requirement]
  BY <1>1, <1>2, <1>4, <1>7, StayStep, Places
<1>9. TypeOK'
  <2> HIDE DEF b
  <2> QED
    BY <1>2, <1>4, <1>6, <1>8 DEF TypeOK
<1>10. Grows
  BY <1>4, <1>6 DEF Grows
<1>11. Disk'
  <2>1. RunsMean'
    BY <1>4 DEF IInv, RunsMean
  <2>2. UNCHANGED <<intent, ids, claim, claimed, status>>
    BY <1>4
  <2> QED
    BY <1>10, <2>1, <2>2, GrowingDisk DEF Pristine
<1>12. UNCHANGED <<batch, reservation, reserved, status, ref, receipt, backup, claim>>
  BY <1>4
<1>13. \A q \in Selected(p) : Installed(b, q)'
  BY <1>3, <1>12 DEF Installed, Pristine
<1>14. LoopsMean(p)' /\ ImportMeans(p)'
  BY <1>3, <1>7, <1>8, <1>12, <1>13, Places DEF LoopsMean, ImportMeans
<1>15. Own(p)'
  BY <1>8, <1>14, MigratePlace, Places
<1> QED
  BY <1>8, <1>9, <1>10, <1>11, <1>15, StepKeeps

LEMMA AlreadyFinalKeeps ==
    ASSUME IInv, NEW p \in Process, AlreadyFinal(p)
    PROVE  IInv'
<1>1. pc[p] = "finalize" /\ pc[p] \in Allocated \ {"reserve", "write reservation"}
      /\ pc[p] \in Closing
  BY Places DEF AlreadyFinal, At
<1>2. /\ TypeOK /\ LoopsMean(p)
      /\ \A q \in Selected(p) : claim[q] # "absent" => claimed[q] = batch[p]
  BY <1>1, BatchFacts
<1>3. /\ \A q \in Selected(p) : Installed(batch[p], q)
      /\ \A q \in Selected(p) : claim[q] = "whole"
      /\ completed[batch[p]] = "whole"
  BY <1>1, <1>2, Places DEF LoopsMean
<1>4. /\ Advance(p, "finalize", "verify")
      /\ UNCHANGED <<locks, runs, ids, mine, world, batches, completion>>
  BY DEF AlreadyFinal
<1>5. /\ Frame(p) /\ allocator' = p /\ migrating' = p
      /\ pc' \in [Process -> {"idle", "execute", "drive", "answer"} \cup Creating \cup Migrating]
      /\ SelectionMeans(p)' /\ Selected(p)' = Selected(p)
      /\ todo' \in [Process -> SUBSET Requirement] /\ pc'[p] \in {"finalize", "verify"}
  <2>1. "finalize" \in Looping /\ "verify" \in Allocated \ {"reserve", "write reservation"}
    BY Places
  <2>2. Advance(p, "finalize", "verify") /\ UNCHANGED <<mine, ids, allocator, migrating>>
    BY <1>4
  <2>3. \A q \in Selected(p) : claim'[q] # "absent" => claimed'[q] = batch[p]
    BY <1>2, <1>4
  <2> HIDE DEF mine, ids
  <2> QED
    BY <1>1, <2>1, <2>2, <2>3, AdvanceStep
<1>6. TypeOK'
  BY <1>2, <1>4, <1>5 DEF TypeOK
<1>7. UNCHANGED diskVars
  BY <1>4 DEF diskVars
<1>8. UNCHANGED <<batch, reservation, reserved, status, ref, receipt, backup, claim, completed>>
  BY <1>4
<1>9. \A q \in Selected(p) : Installed(batch[p], q)'
  BY <1>3, <1>8 DEF Installed, Pristine
<1>10. LoopsMean(p)' /\ ImportMeans(p)'
  BY <1>3, <1>5, <1>8, <1>9, Places DEF LoopsMean, ImportMeans
<1>11. Own(p)'
  BY <1>5, <1>10, MigratePlace, Places
<1> QED
  BY <1>5, <1>6, <1>7, <1>11, QuietStep

LEMMA FinalizeKeeps ==
    ASSUME IInv, NEW p \in Process, Finalize(p)
    PROVE  IInv'
<1>1. pc[p] = "finalize" /\ pc[p] \in Allocated \ {"reserve", "write reservation"}
      /\ pc[p] \in Closing
  BY Places DEF Finalize, At
<1>2. /\ TypeOK /\ LoopsMean(p) /\ RunOf(p) \in RunId
      /\ \A q \in Selected(p) : claim[q] # "absent" => claimed[q] = batch[p]
  BY <1>1, BatchFacts
<1>3. /\ \A q \in Selected(p) : Installed(batch[p], q)
      /\ \A q \in Selected(p) : claim[q] = "whole"
      /\ completed[batch[p]] = "whole"
  BY <1>1, <1>2, Places DEF LoopsMean
<1>4. /\ completion' = [completion EXCEPT ![RunOf(p)] = "orphan"]
      /\ lock' = [lock EXCEPT ![RunOf(p)] = p] /\ Stay(p, "map")
      /\ UNCHANGED <<allocator, migrating, runs, ids, mine, world, batches>>
  BY DEF Finalize
<1>5. /\ Frame(p) /\ allocator' = p /\ migrating' = p
      /\ pc' \in [Process -> {"idle", "execute", "drive", "answer"} \cup Creating \cup Migrating]
      /\ SelectionMeans(p)' /\ Selected(p)' = Selected(p)
      /\ pc'[p] = "map" /\ todo' \in [Process -> SUBSET Requirement]
  BY <1>1, <1>2, <1>4, StayStep, Places
<1>6. completion' \in [RunId -> Bound] /\ lock' \in [RunId -> Process \cup {None}]
  BY <1>2, <1>4 DEF TypeOK, Bound
<1>7. TypeOK'
  BY <1>2, <1>4, <1>5, <1>6 DEF TypeOK
<1>8. UNCHANGED diskVars
  BY <1>4 DEF diskVars
<1>9. UNCHANGED <<batch, reservation, reserved, status, ref, receipt, backup, claim, completed>>
  BY <1>4
<1>10. \A q \in Selected(p) : Installed(batch[p], q)'
  BY <1>3, <1>9 DEF Installed, Pristine
<1>11. LoopsMean(p)' /\ ImportMeans(p)'
  BY <1>3, <1>5, <1>9, <1>10, Places DEF LoopsMean, ImportMeans
<1>12. Own(p)'
  BY <1>5, <1>11, MigratePlace, Places
<1> QED
  BY <1>5, <1>7, <1>8, <1>12, QuietStep

LEMMA MapStatusKeeps ==
    ASSUME IInv, NEW p \in Process, MapStatus(p)
    PROVE  IInv'
<1>1. pc[p] = "map" /\ pc[p] \in Allocated \ {"reserve", "write reservation"}
      /\ pc[p] \in Closing
  BY Places DEF MapStatus, At
<1> DEFINE i == RunOf(p)
           b == batch[p]
           m == MappedStatus(Current(p))
<1>2. /\ TypeOK /\ i \in RunId /\ LoopsMean(p) /\ pc[p] \in Migrating
      /\ b \in Batch /\ Selected(p) = DOMAIN b /\ Current(p) \in Selected(p)
      /\ i = reserved[b][Current(p)]
      /\ \A q \in Selected(p) : claim[q] # "absent" => claimed[q] = batch[p]
  BY <1>1, BatchFacts
<1>3. /\ \A q \in Selected(p) : Installed(b, q)
      /\ \A q \in Selected(p) : claim[q] = "whole"
      /\ completed[b] = "whole"
  BY <1>1, <1>2, Places DEF LoopsMean
<1>4. intent[i] \in {None, <<b, Current(p)>>}
  BY <1>1, ImportOwner
<1>5. /\ completion' = [completion EXCEPT ![i] = "bound"]
      /\ status' = [status EXCEPT ![i] = m] /\ lock' = [lock EXCEPT ![i] = None]
      /\ Advance(p, "finalize", "verify")
      /\ UNCHANGED <<allocator, migrating, dirs, intent, ref, receipt, ids, mine,
                     world, batches>>
  BY DEF MapStatus
<1>6. /\ Frame(p) /\ allocator' = p /\ migrating' = p
      /\ pc' \in [Process -> {"idle", "execute", "drive", "answer"} \cup Creating \cup Migrating]
      /\ SelectionMeans(p)' /\ Selected(p)' = Selected(p)
      /\ todo' \in [Process -> SUBSET Requirement] /\ pc'[p] \in {"finalize", "verify"}
  <2>1. "finalize" \in Looping /\ "verify" \in Allocated \ {"reserve", "write reservation"}
    BY Places
  <2>2. Advance(p, "finalize", "verify") /\ UNCHANGED <<mine, ids, allocator, migrating>>
    BY <1>5
  <2>3. \A q \in Selected(p) : claim'[q] # "absent" => claimed'[q] = batch[p]
    BY <1>2, <1>5
  <2> HIDE DEF mine, ids
  <2> QED
    BY <1>1, <2>1, <2>2, <2>3, AdvanceStep
<1>7. m \in {"READ_ONLY", "PAUSED"}
  BY DEF MappedStatus
<1>8. Installed(b, Current(p))
  BY <1>2, <1>3
<1>9. ~ Pristine(i) /\ intent[i] # None /\ ref[i] # "none"
  BY <1>2, <1>8 DEF Installed, Pristine, IInv, RunsMean
<1> HIDE DEF m
<1>10. /\ completion' \in [RunId -> Bound] /\ lock' \in [RunId -> Process \cup {None}]
       /\ status' \in [RunId -> {"none", "CREATED", "INSTALLING", "PAUSED", "READ_ONLY",
                                 "DRIVEN"}]
       /\ status'[i] = m /\ \A j \in RunId \ {i} : status'[j] = status[j]
  BY <1>2, <1>5, <1>7 DEF TypeOK, Bound
<1>11. TypeOK'
  <2> HIDE DEF i, b
  <2> QED
    BY <1>2, <1>5, <1>6, <1>10 DEF TypeOK
<1>12. Grows
  <2> HIDE DEF i, b
  <2> QED
    BY <1>5, <1>7, <1>10 DEF Grows
<1>13. UNCHANGED <<batch, reservation, reserved, intent, ref, receipt, backup, claim, claimed,
                   completed, dirs>>
  BY <1>5
<1>14. Disk'
  <2>1. RunsMean'
    <3> HIDE DEF i, b
    <3> QED
      BY <1>7, <1>9, <1>10, <1>13 DEF IInv, RunsMean
  <2>2. OwnersMean'
    BY <1>13 DEF IInv, OwnersMean
  <2>3. OpenMeans'
    <3>1. \A j \in RunId : Pristine(j)' => Pristine(j)
      BY <1>7, <1>10 DEF Pristine
    <3> QED
      BY <1>13, <3>1 DEF IInv, OpenMeans
  <2>4. ClaimsMean'
    BY <1>12, <1>13, ClaimsKept
  <2>5. FinalizedIsClaimed'
    <3> SUFFICES ASSUME NEW j \in RunId, NEW c \in Batch, NEW r \in DOMAIN c,
                        intent[j] = <<c, r>>, status'[j] \notin {"none", "INSTALLING"}
                 PROVE  /\ completed[c] = "whole" /\ reserved[c][r] = j
                        /\ \A q \in DOMAIN c : /\ claim[q] = "whole" /\ claimed[q] = c
                                               /\ backup[c][q] = "whole"
      BY <1>13 DEF FinalizedIsClaimed
    <3>1. CASE j # i
      <4>1. status'[j] = status[j]
        BY <1>10, <3>1
      <4> QED
        BY <4>1 DEF IInv, FinalizedIsClaimed
    <3>2. CASE j = i
      <4>1. c = b /\ r = Current(p)
        BY <1>4, <1>9, <3>2
      <4>2. \A q \in DOMAIN b : claim[q] = "whole" /\ claimed[q] = b /\ backup[b][q] = "whole"
        BY <1>2, <1>3 DEF Installed
      <4> QED
        BY <1>2, <1>3, <3>2, <4>1, <4>2
    <3> QED
      BY <3>1, <3>2
  <2> QED
    BY <2>1, <2>2, <2>3, <2>4, <2>5 DEF Disk
<1>15. \A q \in Selected(p) : Installed(b, q)'
  BY <1>2, <1>3, <1>12, <1>13, InstalledKept
<1>16. LoopsMean(p)' /\ ImportMeans(p)'
  BY <1>3, <1>6, <1>13, <1>15, Places DEF LoopsMean, ImportMeans
<1>17. Own(p)'
  BY <1>6, <1>16, MigratePlace, Places
<1> QED
  BY <1>6, <1>11, <1>12, <1>14, <1>17, StepKeeps

-----------------------------------------------------------------------------
(***************************************************************************)
(* The invariant.                                                          *)
(***************************************************************************)
LEMMA InitMeans == MigrationInit => IInv
<1> SUFFICES ASSUME MigrationInit  PROVE IInv
  OBVIOUS
<1> USE DEF MigrationInit, Init
<1>1. TypeOK
  <2>1. /\ calls \in 0 .. MaxCalls /\ kills \in 0 .. MaxKills /\ edits \in 0 .. MaxEdits
    BY RunBoundsAssumption, MigrationAssumption
  <2>2. FirstVersion \in Version
    BY SelectionAssumption DEF FirstVersion
  <2>3. /\ reservation \in [Batch -> FileState] /\ prepared \in [Batch -> FileState]
        /\ completed \in [Batch -> FileState]
        /\ DOMAIN reserved = Batch /\ DOMAIN staged = Batch /\ DOMAIN backup = Batch
        /\ \A b \in Batch : /\ staged[b] \in [DOMAIN b -> FileState]
                            /\ backup[b] \in [DOMAIN b -> FileState]
                            /\ reservation[b] = "absent"
    BY DEF FileState
  <2>4. /\ source \in [Requirement -> Version] /\ claim \in [Requirement -> FileState]
        /\ claimed \in [Requirement -> Batch \cup {None}]
        /\ receipt \in [RunId -> Bound] /\ completion \in [RunId -> Bound]
    BY <2>2 DEF FileState, Bound
  <2> QED
    BY <2>1, <2>3, <2>4 DEF TypeOK
<1>2. \A p \in Process : pc[p] = "idle"
  OBVIOUS
<1>3. LocksMean /\ AnswerIsInstalled /\ AnswersMean
  BY <1>2, Places DEF LocksMean, AnswerIsInstalled, AnswersMean, At
<1>4. RunsMean /\ OwnersMean /\ ClaimsMean
  BY DEF RunsMean, OwnersMean, ClaimsMean
<1>5. OpenMeans
  BY NoRequestAssumption DEF OpenMeans
<1>6. FinalizedIsClaimed
  BY DEF FinalizedIsClaimed
<1>7. ASSUME NEW p \in Process
      PROVE  CreationMeans(p) /\ SelectionMeans(p) /\ LoopsMean(p) /\ ImportMeans(p)
  BY <1>2, Places DEF CreationMeans, SelectionMeans, LoopsMean, ImportMeans
<1> QED
  BY <1>1, <1>3, <1>4, <1>5, <1>6, <1>7 DEF IInv

LEMMA NextKeeps == IInv /\ [Next]_vars => IInv'
<1> SUFFICES ASSUME IInv, [Next]_vars  PROVE IInv'
  OBVIOUS
<1>1. ASSUME NEW p \in Process, RunStep(p), UNCHANGED mgVars  PROVE IInv'
  BY <1>1, ChooseRunKeeps, RefuseRunKeeps, EnterRunKeeps, PublishIntentKeeps, CreateRefKeeps,
     CreateStateKeeps, PublishReceiptKeeps, BindReceiptKeeps, ReturnRunKeeps, ExecuteKeeps,
     DriveKeeps DEF RunStep
<1>2. ASSUME NEW p \in Process, MigrateStep(p)  PROVE IInv'
  BY <1>2, ReplayKeeps, NoReplayKeeps, ValidateKeeps, LockAllocatorKeeps, ReserveKeeps,
     WriteReservationKeeps, ReuseReservationKeeps, StageKeeps, CopyTreeKeeps, PrepareKeeps,
     InstallKeeps, EnterImportKeeps, ImportRefKeeps, ImportIntentKeeps, ImportStateKeeps,
     ImportReceiptKeeps, ImportBindKeeps, ClaimKeeps, WriteClaimKeeps, CompleteKeeps,
     AlreadyFinalKeeps, FinalizeKeeps, MapStatusKeeps, VerifyKeeps, EndsKeep DEF MigrateStep
<1>3. ASSUME NEW p \in Process, Kill(p)  PROVE IInv'
  BY <1>3, EndsKeep
<1>4. ASSUME NEW p \in Process, NEW g \in Request, BeginRun(p, g), UNCHANGED mgVars  PROVE IInv'
  BY <1>4, BeginRunKeeps
<1>5. ASSUME NEW p \in Process, NEW S \in Selection, BeginMigrate(p, S)  PROVE IInv'
  BY <1>5, BeginMigrateKeeps
<1>6. ASSUME NEW p \in Process, NEW i \in RunId, Replan(p, i)  PROVE IInv'
  BY <1>6, ReplanKeeps
<1>7. ASSUME NEW r \in Requirement, NEW v \in Version, Edit(r, v)  PROVE IInv'
  BY <1>7, EditKeeps
<1>8. CASE UNCHANGED vars
  <2>1. UNCHANGED diskVars
    BY <1>8 DEF vars, diskVars
  <2>2. TypeOK'
    BY <1>8 DEF vars, IInv, TypeOK
  <2>3. Disk'
    BY <2>1, QuietDisk
  <2>4. ASSUME NEW p \in Process  PROVE Own(p)'
    <3>1. Own(p)
      BY Parts
    <3>2. AnswerMeans(p)' /\ CreationMeans(p)'
      BY <1>8, <3>1 DEF Own, vars, AnswerMeans, At, Selected, CreationMeans, Pristine
    <3>3. SelectionMeans(p)' /\ ImportMeans(p)'
      BY <1>8, <3>1 DEF Own, vars, SelectionMeans, Selected, ImportMeans, Current, RunOf, Pristine
    <3>4. LoopsMean(p)'
      BY <1>8, <3>1 DEF Own, vars, LoopsMean, Selected, Current, Installed, Pristine
    <3> QED
      BY <1>8, <3>1, <3>2, <3>3, <3>4 DEF Own, vars
  <2>5. (IInv <=> TypeOK /\ Disk /\ \A q \in Process : Own(q))'
    BY DEF IInv, Disk, Own, LocksMean, AnswerIsInstalled, AnswersMean, AnswerMeans
  <2> QED
    BY <2>2, <2>3, <2>4, <2>5
<1> QED
  BY <1>1, <1>2, <1>3, <1>4, <1>5, <1>6, <1>7, <1>8 DEF Next, Step

(* The inductive invariant holds throughout: any number of `vibe run`, `vibe migrate` and
   `vibe resume` invocations, killed and repeated at any point (Controller.create_run,
   migrate_schema3). *)
THEOREM MigrationInvariant == Spec => []IInv
BY InitMeans, NextKeeps, PTL DEF Spec

-----------------------------------------------------------------------------
(* A run ID has one owner: _allocate_run_ids gives no ID twice, and a run that was reserved
   for an import carries no other intent, whatever create_run allocates meanwhile. *)
THEOREM ReservedIdsAreKept == Spec => []ReservedIdIsKept
<1>1. IInv => ReservedIdIsKept
  BY DEF IInv, OwnersMean, ReservedIdIsKept
<1> QED
  BY <1>1, MigrationInvariant, PTL

(* The same request never has two unstarted runs, for any number of invocations killed
   between the intent, the ref, the state and the receipt (_matching_creation_runs). *)
THEOREM CreationsAreSingle == Spec => []OneOpenCreation
<1>1. IInv => OneOpenCreation
  <2> SUFFICES ASSUME IInv, NEW g \in Request
               PROVE  Cardinality({i \in Matches(g) : Pristine(i)}) <= 1
    BY DEF OneOpenCreation
  <2> DEFINE open == {i \in Matches(g) : Pristine(i)}
  <2>1. \A i, j \in open : i = j
    BY DEF IInv, OpenMeans, Matches
  <2> HIDE DEF open
  <2>2. CASE open = {}
    BY <2>2, FS_EmptySet DEF open
  <2>3. CASE open # {}
    <3>1. PICK i \in open : TRUE
      BY <2>3
    <3>2. open = {i}
      BY <2>1
    <3>3. Cardinality(open) = 1
      BY <3>2, FS_Singleton
    <3> QED
      BY <3>3 DEF open
  <2> QED
    BY <2>2, <2>3
<1> QED
  BY <1>1, MigrationInvariant, PTL

(* create_run returns a run of its request that is whole on disk, whoever wrote which part of
   it (Controller.create_run). *)
THEOREM ReturnedRunsAreWhole == Spec => []ReturnedRunIsWhole
<1>1. IInv => ReturnedRunIsWhole
  BY Places DEF IInv, CreationMeans, ReturnedRunIsWhole, At
<1> QED
  BY <1>1, MigrationInvariant, PTL

(* A usable import is the one its requirement's claim names, and its whole batch is claimed,
   backed up and completed (_finalize_imported_run). *)
THEOREM FinalizedRunsAreClaimed == Spec => []FinalizedIsClaimed
<1>1. IInv => FinalizedIsClaimed
  BY DEF IInv
<1> QED
  BY <1>1, MigrationInvariant, PTL

(* The runs that migrate_schema3 answers with are the claimed ones, installed and backed up,
   whether this invocation imported them or replays an earlier one. *)
THEOREM AnswersAreInstalled == Spec => []AnswerIsInstalled
<1>1. IInv => AnswerIsInstalled
  BY DEF IInv
<1> QED
  BY <1>1, MigrationInvariant, PTL

(* A run that is answered while it is still being installed belongs to a requirement that goes
   on as PAUSED, and the whole batch of its claim was imported (_verify_completed_entry). *)
THEOREM EarlyAnswersArePaused == Spec => []EarlyAnswerIsPaused
<1>1. ASSUME IInv, NEW p \in Process, At(p, "answer"), NEW r \in Selected(p)
      PROVE  /\ status[entries[p][r]] = "INSTALLING" => r \notin ReadOnly
             /\ \A q \in DOMAIN claimed[r] :
                  LET i == reserved[claimed[r]][q]
                  IN  /\ intent[i] = <<claimed[r], q>> /\ receipt[i] = "bound"
                      /\ backup[claimed[r]][q] = "whole"
  <2>1. SelectionMeans(p) /\ batch[p] \in Batch
    BY <1>1 DEF IInv, SelectionMeans, At
  <2>2. r \in Requirement /\ claim[r] = "whole"
    BY <1>1, <2>1, BatchDomain DEF IInv, AnswerIsInstalled, Selected
  <2>3. ASSUME NEW q \in DOMAIN claimed[r]
        PROVE  LET i == reserved[claimed[r]][q]
               IN  /\ intent[i] = <<claimed[r], q>> /\ receipt[i] = "bound"
                   /\ backup[claimed[r]][q] = "whole"
    <3>1. claimed[r] \in Batch /\ Installed(claimed[r], q)
      BY <1>1, <2>2 DEF IInv, ClaimsMean
    <3>2. reserved[claimed[r]][q] \in RunId
      <4>1. reservation[claimed[r]] # "absent"
        BY <3>1 DEF Installed
      <4>2. TypeOK
        BY <1>1 DEF IInv
      <4> QED
        BY <3>1, <4>1, <4>2 DEF TypeOK
    <3>3. intent[reserved[claimed[r]][q]] \in {None, <<claimed[r], q>>}
      BY <1>1, <3>1 DEF IInv, OwnersMean, Installed
    <3>4. intent[reserved[claimed[r]][q]] # None
      BY <1>1, <3>1, <3>2 DEF IInv, RunsMean, Installed, Pristine
    <3> QED
      BY <3>1, <3>3, <3>4 DEF Installed
  <2> QED
    BY <1>1, <2>3 DEF IInv, AnswersMean
<1>2. IInv => EarlyAnswerIsPaused
  BY <1>1 DEF EarlyAnswerIsPaused
<1> QED
  BY <1>2, MigrationInvariant, PTL

(* What migrate_schema3 answers with is installed and, where it is not finalized, PAUSED and
   part of a batch that was imported as a whole. *)
THEOREM AnswersAreSound == Spec => []AnswerIsSound
<1>1. AnswerIsInstalled /\ EarlyAnswerIsPaused => AnswerIsSound
  BY DEF AnswerIsSound
<1> QED
  BY <1>1, AnswersAreInstalled, EarlyAnswersArePaused, PTL
=============================================================================
