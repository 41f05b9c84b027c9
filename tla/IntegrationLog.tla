--------------------------- MODULE IntegrationLog ---------------------------
(***************************************************************************)
(* What the integration pipeline promises: the run ref is the published    *)
(* end of a log of task patches.  A new entry is announced first, then     *)
(* published by swapping the ref, and only then recorded in the log.       *)
(* Other users of the repository may put the ref anywhere; the pipeline    *)
(* publishes nothing until the ref is back at the end of the log.          *)
(***************************************************************************)
EXTENDS Integers, Sequences

CONSTANT Task

VARIABLES
    log,     \* recorded entries
    intent,  \* the log with the announced entry, or the log itself
    ref,     \* where the run ref points
    seen     \* every value the ref had

Init == log = <<>> /\ intent = log /\ ref = log /\ seen = {log}

\* new is old and one entry of a task that old does not mention.
ExtendsByFreshTask(new, old) ==
    /\ Len(new) = Len(old) + 1
    /\ new[Len(new)].task \in Task
    /\ \A i \in 1 .. Len(old) :
          new[i] = old[i] /\ old[i].task # new[Len(new)].task

Announce ==
    /\ intent = log
    /\ ExtendsByFreshTask(intent', log)
    /\ UNCHANGED <<log, ref, seen>>

Publish ==
    /\ intent # log /\ ref = log
    /\ ref' = intent
    /\ seen' = seen \cup {intent}
    /\ UNCHANGED <<log, intent>>

Record ==
    /\ intent # log /\ intent \in seen
    /\ log' = intent
    /\ UNCHANGED <<intent, ref, seen>>

MoveRef ==
    /\ seen' = seen \cup {ref'}
    /\ UNCHANGED <<log, intent>>

Next == Announce \/ Publish \/ Record \/ MoveRef

Spec == Init /\ [][Next]_<<log, intent, ref, seen>>
=============================================================================
