----------------------------- MODULE BuildLoop -----------------------------
(***************************************************************************)
(* What a run of the pipeline promises its operator.  The build is tried a *)
(* bounded number of times, another time only after a judge has sent the   *)
(* last try back; the run is accepted only on a try that both judges have  *)
(* approved, or, when it begins with the evaluation of an earlier build,   *)
(* that the evaluator has approved.  Anything else that can happen to a    *)
(* run is that it is refused by a judge, or lost.                          *)
(***************************************************************************)
EXTENDS Naturals

CONSTANT Budget   \* how often a build is tried in a run

VARIABLES
  tries,      \* how often it was tried
  approvals,  \* the judges that approved the last try
  sentBack,   \* a judge sent it back
  outcome     \* of the run

vars == <<tries, approvals, sentBack, outcome>>

Judges == {"reviewer", "evaluator"}

Init ==
  /\ tries = 0 /\ approvals = {} /\ ~sentBack
  /\ outcome = "lost"

\* A run begins, whatever became of the one before.
Launch ==
  /\ outcome # "open"
  /\ tries' = 0 /\ approvals' = {} /\ sentBack' = FALSE
  /\ outcome' = "open"

\* The first try, or the next one.
Try ==
  /\ outcome = "open" /\ tries < Budget
  /\ tries = 0 \/ sentBack
  /\ tries' = tries + 1
  /\ approvals' = {} /\ sentBack' = FALSE
  /\ UNCHANGED outcome

Approve(j) ==
  /\ outcome = "open" /\ ~sentBack /\ j \notin approvals
  /\ approvals' = approvals \cup {j}
  /\ UNCHANGED <<tries, sentBack, outcome>>

SendBack ==
  /\ outcome = "open" /\ ~sentBack
  /\ sentBack' = TRUE
  /\ UNCHANGED <<tries, approvals, outcome>>

Accept ==
  /\ outcome = "open" /\ ~sentBack
  /\ approvals = IF tries = 0 THEN {"evaluator"} ELSE Judges
  /\ outcome' = "accepted"
  /\ UNCHANGED <<tries, approvals, sentBack>>

\* The judges have the last word.
Refuse ==
  /\ outcome = "open" /\ sentBack
  /\ outcome' = "refused"
  /\ UNCHANGED <<tries, approvals, sentBack>>

Lose ==
  /\ outcome = "open"
  /\ outcome' = "lost"
  /\ UNCHANGED <<tries, approvals, sentBack>>

Next == Launch \/ Try \/ (\E j \in Judges : Approve(j)) \/ SendBack \/ Accept \/ Refuse \/ Lose

Spec == Init /\ [][Next]_vars

=============================================================================
