------------------------------ MODULE RunState ------------------------------
(***************************************************************************)
(* sawmill.run_state: the event log of a run (events.jsonl) and when the   *)
(* projection accepts it.                                                  *)
(*                                                                         *)
(* A log is a sequence of events in the order of the file.  An event names *)
(* its causal parent by its place in the file (ids are uuid4 and unique),  *)
(* 0 for none.  "failed" says that its outcome is one of fail, failed,     *)
(* failure, error, timeout, or its failure_code is not "none".             *)
(***************************************************************************)
EXTENDS Integers, Sequences

CONSTANT Roles  \* the roles of ROLE_REGISTRY.yaml, and "orchestrator"

\* PARENT_RULES; its domain is EVENT_TYPES.
PARENT_RULES == [
  run_started |-> {},
  preflight_passed |-> {"run_started"},
  turn_started |-> {"run_started", "turn_completed", "retry_started"},
  prompt_rendered |-> {"turn_started"},
  agent_invoked |-> {"prompt_rendered"},
  agent_liveness_observed |-> {"agent_invoked"},
  agent_exited |-> {"agent_invoked"},
  output_verified |-> {"agent_exited"},
  review_verdict_recorded |-> {"agent_exited"},
  evaluation_verdict_recorded |-> {"agent_exited"},
  retry_started |-> {"review_verdict_recorded", "evaluation_verdict_recorded"},
  escalation_triggered |-> {"review_verdict_recorded", "evaluation_verdict_recorded"},
  timeout_triggered |-> {"agent_invoked"},
  manual_intervention_recorded |-> {"timeout_triggered", "agent_exited", "run_failed"},
  turn_completed |-> {"review_verdict_recorded", "evaluation_verdict_recorded"},
  run_completed |-> {"turn_completed"},
  run_failed |-> {"timeout_triggered", "agent_exited", "output_verified",
                  "review_verdict_recorded", "evaluation_verdict_recorded",
                  "prompt_rendered", "preflight_passed"}]

EVENT_TYPES == DOMAIN PARENT_RULES

\* The events after which apply_event() finds a terminal state.
TerminalTypes == {"run_failed", "escalation_triggered", "run_completed"}

Events == [type : EVENT_TYPES, role : Roles, failed : BOOLEAN, parent : Nat, ts : Nat]

\* The order of the projection: by timestamp, then by place in the file.
Before(log, i, j) ==
  \/ log[i].ts < log[j].ts
  \/ log[i].ts = log[j].ts /\ i < j

\* What validate_parent() asks of the parent p of event e, beyond its type.
ParentFits(e, p) ==
  /\ e.type = "run_failed" => p.type = "timeout_triggered" \/ p.failed
  /\ e.type = "review_verdict_recorded" => p.role = "reviewer"
  /\ e.type = "evaluation_verdict_recorded" => p.role = "evaluator"
  /\ e.type = "manual_intervention_recorded" =>
       p.failed \/ p.type \in {"timeout_triggered", "run_failed"}

\* validate_parent(): a parent is needed, and has to come earlier, unless the
\* rules name none.
validate_parent(log, i) ==
  LET e == log[i] IN
  IF PARENT_RULES[e.type] = {} THEN e.parent = 0
  ELSE /\ e.parent \in DOMAIN log
       /\ Before(log, e.parent, i)
       /\ log[e.parent].type \in PARENT_RULES[e.type]
       /\ ParentFits(e, log[e.parent])

\* apply_event() raises in a terminal state.
NotAfterTerminal(log, i) ==
  \A j \in DOMAIN log : Before(log, j, i) => log[j].type \notin TerminalTypes

\* project_status() returns, for this log, and does not raise.
Projectable(log) ==
  \A i \in DOMAIN log : validate_parent(log, i) /\ NotAfterTerminal(log, i)

=============================================================================
