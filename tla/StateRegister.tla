--------------------------- MODULE StateRegister ---------------------------
(***************************************************************************)
(* What StateStore promises the Controller: one register, whose value is   *)
(* replaced by its successor in one step.  Until a replacement is settled  *)
(* (fsync of the run directory) a power loss may undo it; a settled one    *)
(* stays.                                                                  *)
(***************************************************************************)
EXTENDS Integers

CONSTANTS Path, None, InitialState

VARIABLES
    current,  \* the state a reader finds
    possible  \* the states a power loss may leave behind

\* A successor has the next revision and keeps every artifact that was bound.
Successor(s, t) ==
    /\ t.revision = s.revision + 1
    /\ \A q \in Path : s.index[q] # None => t.index[q] = s.index[q]

Init == current = InitialState /\ possible = {InitialState}

Commit ==
    /\ Successor(current, current')
    /\ possible' = possible \cup {current'}

Settle == possible' = {current} /\ UNCHANGED current

PowerLoss == current' \in possible /\ possible' = {current'}

Next == Commit \/ Settle \/ PowerLoss

Spec == Init /\ [][Next]_<<current, possible>>
=============================================================================
