------------------------------ MODULE MCTurnBC ------------------------------
(* Instances of TurnBC for TLC. *)
EXTENDS TurnBC

MCRoles == {"orchestrator", "spec-agent", "holdout-agent"}

\* Two threads already interleave in every order without liveness events and
\* with one second; Turn C alone has both.
MCMaxPolls == [f \in FromTurns |-> IF f = "C" THEN 2 ELSE 0]
MCMaxTime == [f \in FromTurns |-> IF f = "C" THEN 2 ELSE 0]

=============================================================================
