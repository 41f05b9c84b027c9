---------------------------- MODULE MCScheduler -----------------------------
(***************************************************************************)
(* The documents of the Planner for TLC: three families, each of which     *)
(* varies one part of a plan, for a first plan and for a repair plan.      *)
(***************************************************************************)
EXTENDS Scheduler

TaskId == 1 .. 3
Criteria == {"AC-001", "AC-002"}

File(p) == [path |-> p, directory |-> FALSE]
Dir(p)  == [path |-> p, directory |-> TRUE]

MCPaths == {<<"a">>, <<"a", "b">>, <<"b">>, <<".vibe-coding", "a">>}

\* The three forms of a scope, and some that normalize_scope refuses.
ScopeSets ==
    {{Root}, {Dir(<<"a">>)}, {File(<<"a">>)}, {File(<<"a", "b">>)}, {File(<<"b">>)},
     {File(<<"b">>), Dir(<<"a">>)}, {Root, File(<<"b">>)}, {},
     {File(<<"..", "b">>)}, {File(<<".git", "b">>)}}

Own(i) == CASE i = 1 -> {Dir(<<"a">>)} [] i = 2 -> {File(<<"b">>)} [] i = 3 -> {Root}

Task(i, deps, scope, covers) ==
    [id |-> i, depends_on |-> deps, path_scope |-> scope, covers |-> covers,
     exclusive_resources |-> IF i = 2 THEN {} ELSE {"database"},
     max_attempts |-> IF i = 1 THEN 2 ELSE 1]

Document(version, ts, criteria, commands) ==
    [plan_version |-> version, tasks |-> ts, acceptance_criteria |-> criteria,
     global_verification |-> commands]

\* Dependencies of every kind: known, unknown, cyclic, of an earlier plan.
Graphs ==
    {Document(v, {Task(i, f[i], Own(i), Criteria) : i \in DOMAIN f}, Criteria, <<>>) :
       v \in 1 .. 2, f \in UNION {[I -> SUBSET TaskId] : I \in SUBSET TaskId \ {{}}}}

\* Two tasks side by side, and one more.
Scopes ==
    {Document(1, {Task(1, {}, s[1], Criteria), Task(2, {}, s[2], Criteria)}, Criteria, <<>>) :
       s \in [1 .. 2 -> ScopeSets]}
    \cup {Document(2, {Task(3, d, s, Criteria)}, Criteria, <<>>) :
            d \in {{}, {2}}, s \in ScopeSets}

\* Coverage and commands: some twice, some unknown.
Commands == {<<>>, <<"lint">>, <<"tests", "lint">>, <<"lint", "lint">>, <<"rm">>}
Covers == SUBSET Criteria \ {{}}

Gates ==
    {Document(1, {Task(1, {}, Own(1), c[1]), Task(2, {}, Own(2), c[2])}, a, g) :
       c \in [1 .. 2 -> Covers], a \in Covers, g \in Commands}
    \cup {Document(2, {Task(3, {}, Own(3), c)}, a, g) :
            c \in Covers, a \in Covers, g \in Commands}

MCDocuments == Graphs \cup Scopes \cup Gates

MCCommands == <<"tests">>

=============================================================================
