-------------------------- MODULE LifecycleClaims --------------------------
(***************************************************************************)
(* What the README says about a run.                                       *)
(***************************************************************************)
EXTENDS Lifecycle

\* README.md: "Foreground interruption [is] recoverable".  A run whose Controller
\* died once, with agents that do their work and survive, comes to its end when resumed.
InterruptionIsRecoverable ==
    (crashes > 0) ~> (status \in Terminal \/ \E o \in Owner : agent[o] \in {"failed", "lost"})
=============================================================================
