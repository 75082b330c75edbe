------------------------------- MODULE TurnBC -------------------------------
(***************************************************************************)
(* Orchestrator.run_turn_bc(): Turn B (plan) and Turn C (holdouts) in two  *)
(* threads of a pool, each of which renders a prompt, invokes an agent     *)
(* (invoke_full() of agent/_core.py) and verifies its outputs, over one    *)
(* Orchestrator object, one event log and one status.json.                 *)
(*                                                                         *)
(* An emission is three steps: append the event, project the log (which    *)
(* raises when the log is illegal), write the projection to status.json.   *)
(* emit() holds event_lock around the three, invoke_full() and the         *)
(* liveness subprocess do not.  While stage[p] is not "idle" process p is  *)
(* inside an emission, and pc[p] is where it goes on afterwards.           *)
(*                                                                         *)
(* The log is held as RunState has it; status.json as the number of events *)
(* it is the projection of.  A run from Turn A gets here as one from Turn  *)
(* B does whose inputs exist.                                              *)
(***************************************************************************)
EXTENDS RunState

CONSTANTS
  FromTurns,  \* the values of --from-turn considered
  MaxPolls,   \* bound on the liveness events of an invocation, per --from-turn
  MaxTime     \* bound on the clock, which counts seconds, per --from-turn

ASSUME TurnBCAssumption ==
  /\ FromTurns \subseteq {"A", "B", "C"}
  /\ MaxPolls \in [FromTurns -> Nat]
  /\ MaxTime \in [FromTurns -> Nat]
  /\ {"orchestrator", "spec-agent", "holdout-agent"} \subseteq Roles

VARIABLES
  from,          \* --from-turn
  log,           \* events.jsonl
  status,        \* status.json: how many events of log it projects
  clock,
  pc,            \* where each process goes on: the two turns and "main"
  stage,         \* of the emission of a process
  pending,       \* the event a process is appending
  seen,          \* the number of events a process has projected
  polls,         \* liveness events appended for a turn
  result,        \* how the agent of a turn ended
  lastExit,      \* last_agent_exit_event_id
  lastFailure,   \* last_failure_event_id
  lastVerified   \* last_output_verified_event_id

emission == <<log, status, stage, pending, seen>>
shared == <<lastExit, lastFailure, lastVerified>>
vars == <<from, log, status, clock, pc, stage, pending, seen, polls, result,
          lastExit, lastFailure, lastVerified>>

Turns == {"B", "C"}
Processes == Turns \cup {"main"}

RoleOf(p) == IF p = "B" THEN "spec-agent" ELSE IF p = "C" THEN "holdout-agent" ELSE "orchestrator"

NoEvent == [type |-> "run_started", role |-> "orchestrator", failed |-> FALSE, parent |-> 0, ts |-> 0]

RunStarted == 1

Places ==
  {"unsubmitted", "dispatch", "refused", "invoke", "wait", "report", "report2", "check",
   "fail", "verify", "unverified", "verified", "done",
   "startB", "submitB", "startC", "submitC", "join", "audit", "passed",
   "aborting", "aborted", "crashing", "crashed"}

ThreadEnded == {"done", "aborted", "crashed"}
MainEnded == {"passed", "aborted", "crashed"}

Init ==
  /\ from \in FromTurns
  /\ log = <<NoEvent, [NoEvent EXCEPT !.type = "preflight_passed", !.parent = RunStarted]>>
  /\ status = 2
  /\ clock = 0
  /\ pc = [p \in Processes |-> IF p # "main" THEN "unsubmitted"
                               ELSE IF from = "C" THEN "startC" ELSE "startB"]
  /\ stage = [p \in Processes |-> "idle"]
  /\ pending = [p \in Processes |-> NoEvent]
  /\ seen = [p \in Processes |-> 0]
  /\ polls = [t \in Turns |-> 0]
  /\ result = [t \in Turns |-> "none"]
  /\ lastExit = 0
  /\ lastFailure = 0
  /\ lastVerified = 0

\* The event of this type of turn t; an invocation has at most one of each,
\* but for the liveness events.
Own(t, type) == CHOOSE i \in DOMAIN log : log[i].type = type /\ log[i].role = RoleOf(t)

----------------------------------------------------------------------------
(* Emissions *)

\* Mutant: outputs are verified outside of event_lock.
LockedMutant(e) ==
  e.type \notin {"agent_invoked", "agent_liveness_observed", "agent_exited", "timeout_triggered",
                 "output_verified"}

\* The types emit() appends, under event_lock.
Locked(e) ==
  e.type \notin {"agent_invoked", "agent_liveness_observed", "agent_exited", "timeout_triggered"}

LockFree == \A p \in Processes : stage[p] \in {"project", "write"} => ~Locked(pending[p])

\* Process p stands at "where", and in no emission.
At(p, where) == pc[p] = where /\ stage[p] = "idle"

\* Process p, at "at", builds an event and goes on at "next" once it is emitted.
Emit(p, at, event, next) ==
  /\ At(p, at)
  /\ pending' = [pending EXCEPT ![p] = event]
  /\ stage' = [stage EXCEPT ![p] = "append"]
  /\ pc' = [pc EXCEPT ![p] = next]
  /\ UNCHANGED <<from, log, status, clock, seen, shared>>

\* run_failed takes its role from current_event_role, which the thread that was
\* dispatched last has set; nothing reads it, and it is "orchestrator" here.
Event(type, role, failed, parent) ==
  [type |-> type, role |-> role, failed |-> failed, parent |-> parent, ts |-> clock]

AppendEvent(p) ==
  /\ stage[p] = "append"
  /\ Locked(pending[p]) => LockFree
  /\ log' = Append(log, pending[p])
  /\ stage' = [stage EXCEPT ![p] = "project"]
  /\ UNCHANGED <<from, status, clock, pc, pending, seen, polls, result, shared>>

\* Mutant: the log is not validated.
ProjectMutant(p) ==
  /\ stage[p] = "project"
  /\ seen' = [seen EXCEPT ![p] = Len(log)]
  /\ stage' = [stage EXCEPT ![p] = "write"]
  /\ UNCHANGED <<from, log, status, clock, pc, pending, polls, result, shared>>

Project(p) ==
  /\ stage[p] = "project"
  /\ Projectable(log)
  /\ seen' = [seen EXCEPT ![p] = Len(log)]
  /\ stage' = [stage EXCEPT ![p] = "write"]
  /\ UNCHANGED <<from, log, status, clock, pc, pending, polls, result, shared>>

\* Mutant: the exception leaves the emission, and event_lock, as they are.
ProjectRaisesMutant(p) ==
  /\ stage[p] = "project"
  /\ ~Projectable(log)
  /\ pc' = [pc EXCEPT ![p] = IF p = "main" THEN "crashing" ELSE "crashed"]
  /\ stage' = [stage EXCEPT ![p] = "write"]
  /\ UNCHANGED <<from, log, status, clock, pending, seen, polls, result, shared>>

\* The event stays in the log; the exception ends the thread, or the body of
\* run_turn_bc().  Out of the liveness subprocess it comes as CalledProcessError.
ProjectRaises(p) ==
  /\ stage[p] = "project"
  /\ ~Projectable(log)
  /\ pc' = [pc EXCEPT ![p] = IF p = "main" THEN "crashing" ELSE "crashed"]
  /\ stage' = [stage EXCEPT ![p] = "idle"]
  /\ pending' = [pending EXCEPT ![p] = NoEvent]
  /\ seen' = [seen EXCEPT ![p] = 0]
  /\ UNCHANGED <<from, log, status, clock, polls, result, shared>>

WriteStatus(p) ==
  /\ stage[p] = "write"
  /\ status' = seen[p]
  /\ stage' = [stage EXCEPT ![p] = "idle"]
  /\ pending' = [pending EXCEPT ![p] = NoEvent]
  /\ seen' = [seen EXCEPT ![p] = 0]
  /\ UNCHANGED <<from, log, clock, pc, polls, result, shared>>

\* emit-liveness appends every new record before it projects.
NextRecord(t) ==
  /\ stage[t] = "project" /\ pending[t].type = "agent_liveness_observed"
  /\ t \in Turns /\ polls[t] < MaxPolls[from]
  /\ polls' = [polls EXCEPT ![t] = @ + 1]
  /\ \E ts \in pending[t].ts .. clock : pending' = [pending EXCEPT ![t].ts = ts]
  /\ stage' = [stage EXCEPT ![t] = "append"]
  /\ UNCHANGED <<from, log, status, clock, pc, seen, result, shared>>

----------------------------------------------------------------------------
(* A thread: background_prompt() *)

RenderPrompt(t) ==
  /\ Emit(t, "dispatch", Event("prompt_rendered", RoleOf(t), FALSE, Own(t, "turn_started")), "invoke")
  /\ UNCHANGED <<polls, result>>

\* Wrong owner, missing input, or a prompt that does not render.
RefusePrompt(t) ==
  /\ Emit(t, "dispatch", Event("prompt_rendered", RoleOf(t), TRUE, Own(t, "turn_started")), "refused")
  /\ UNCHANGED <<polls, result>>

FailRefused(t) ==
  /\ Emit(t, "refused", Event("run_failed", "orchestrator", TRUE, Own(t, "prompt_rendered")), "aborted")
  /\ UNCHANGED <<polls, result>>

InvokeAgent(t) ==
  /\ Emit(t, "invoke", Event("agent_invoked", RoleOf(t), FALSE, Own(t, "prompt_rendered")), "wait")
  /\ UNCHANGED <<polls, result>>

\* emit-liveness passes on what the runner has recorded, with its time.
PollLiveness(t) ==
  /\ At(t, "wait") /\ polls[t] < MaxPolls[from]
  /\ polls' = [polls EXCEPT ![t] = @ + 1]
  /\ \E ts \in log[Own(t, "agent_invoked")].ts .. clock :
       Emit(t, "wait", [Event("agent_liveness_observed", RoleOf(t), FALSE, Own(t, "agent_invoked"))
                          EXCEPT !.ts = ts], "wait")
  /\ UNCHANGED result

AgentSucceeds(t) ==
  /\ Emit(t, "wait", Event("agent_exited", RoleOf(t), FALSE, Own(t, "agent_invoked")), "report")
  /\ result' = [result EXCEPT ![t] = "succeeded"]
  /\ UNCHANGED polls

\* A non-zero exit, or a runner that left no result.json.
AgentFails(t) ==
  /\ Emit(t, "wait", Event("agent_exited", RoleOf(t), TRUE, Own(t, "agent_invoked")), "report")
  /\ result' = [result EXCEPT ![t] = "failed"]
  /\ UNCHANGED polls

AgentTimesOut(t) ==
  /\ Emit(t, "wait", Event("timeout_triggered", RoleOf(t), TRUE, Own(t, "agent_invoked")), "report")
  /\ result' = [result EXCEPT ![t] = "timeout"]
  /\ UNCHANGED polls

\* A step of thread t outside of emissions.
Step(t, at, next) ==
  /\ At(t, at)
  /\ pc' = [pc EXCEPT ![t] = next]
  /\ UNCHANGED <<from, emission, clock, polls, result>>

ReportExit(t) ==
  /\ Step(t, "report", "report2")
  /\ lastExit' = IF result[t] = "timeout" THEN 0 ELSE Own(t, "agent_exited")
  /\ UNCHANGED <<lastFailure, lastVerified>>

\* Mutant: only the id of an exit is kept.
ReportFailureMutant(t) ==
  /\ Step(t, "report2", "check")
  /\ lastFailure' = 0
  /\ UNCHANGED <<lastExit, lastVerified>>

ReportFailure(t) ==
  /\ Step(t, "report2", "check")
  /\ lastFailure' = CASE result[t] = "succeeded" -> 0
                      [] result[t] = "failed" -> Own(t, "agent_exited")
                      [] result[t] = "timeout" -> Own(t, "timeout_triggered")
  /\ UNCHANGED <<lastExit, lastVerified>>

\* Mutant: a timeout is judged by the shared field, as a failure is.
CheckInvocationMutant(t) ==
  /\ Step(t, "check", IF lastFailure # 0 THEN "fail" ELSE "verify")
  /\ UNCHANGED shared

\* A timeout is known from the thread's own result, a failure from the field
\* both threads write.
CheckInvocation(t) ==
  /\ Step(t, "check", IF result[t] = "timeout" \/ lastFailure # 0 THEN "fail" ELSE "verify")
  /\ UNCHANGED shared

FailInvocation(t) ==
  /\ Emit(t, "fail", Event("run_failed", "orchestrator", TRUE,
                           IF lastFailure # 0 THEN lastFailure ELSE Own(t, "prompt_rendered")), "aborted")
  /\ UNCHANGED <<polls, result>>

OutputsVerified(t) ==
  /\ Emit(t, "verify", Event("output_verified", RoleOf(t), FALSE, lastExit), "verified")
  /\ UNCHANGED <<polls, result>>

OutputsRefused(t) ==
  /\ Emit(t, "verify", Event("output_verified", RoleOf(t), TRUE, lastExit), "unverified")
  /\ UNCHANGED <<polls, result>>

\* Mutant: the verification failure is not recorded as the end of the run.
FailUnverifiedMutant(t) ==
  /\ Step(t, "unverified", "aborted")
  /\ UNCHANGED shared

FailUnverified(t) ==
  /\ Emit(t, "unverified", Event("run_failed", "orchestrator", TRUE, Own(t, "output_verified")), "aborted")
  /\ UNCHANGED <<polls, result>>

RecordVerified(t) ==
  /\ Step(t, "verified", "done")
  /\ lastVerified' = Own(t, "output_verified")
  /\ UNCHANGED <<lastExit, lastFailure>>

----------------------------------------------------------------------------
(* The main thread: run_turn_bc() *)

Start(t) == IF t = "B" THEN "startB" ELSE "startC"
Submit(t) == IF t = "B" THEN "submitB" ELSE "submitC"

InputsMissing(t) ==
  /\ from = t
  /\ Emit("main", Start(t), Event("run_failed", "orchestrator", TRUE, RunStarted), "aborting")
  /\ UNCHANGED <<polls, result>>

StartTurn(t) ==
  /\ Emit("main", Start(t), Event("turn_started", RoleOf(t), FALSE, RunStarted), Submit(t))
  /\ UNCHANGED <<polls, result>>

SubmitTurn(t) ==
  /\ At("main", Submit(t))
  /\ pc' = [pc EXCEPT !["main"] = IF t = "B" THEN "startC" ELSE "join", ![t] = "dispatch"]
  /\ UNCHANGED <<from, emission, clock, polls, result, shared>>

\* Mutant: a thread that ended in an unexpected exception is waited for.
ThreadsEndedMutant ==
  \A t \in Turns : pc[t] \in {"done", "aborted", "unsubmitted"} /\ stage[t] = "idle"

\* future.result() of B, then of C, has returned or raised, and the pool has
\* waited for its threads.
ThreadsEnded ==
  \A t \in Turns : pc[t] \in ThreadEnded \cup {"unsubmitted"} /\ stage[t] = "idle"

\* How the exception of a thread ends main; future.result() is asked for B first.
Raised == IF pc["B"] \in {"aborted", "crashed"} THEN pc["B"] ELSE pc["C"]

Join ==
  /\ ThreadsEnded
  /\ Step("main", "join", IF Raised = "done" THEN "audit" ELSE Raised)
  /\ UNCHANGED shared

\* An exception leaves the with block once the threads have ended.
Unwind ==
  /\ ThreadsEnded
  /\ \E how \in {<<"aborting", "aborted">>, <<"crashing", "crashed">>} :
       Step("main", how[1], how[2])
  /\ UNCHANGED shared

AuditPasses ==
  /\ Step("main", "audit", "passed")
  /\ UNCHANGED shared

AuditFails ==
  /\ Emit("main", "audit", Event("run_failed", "orchestrator", TRUE,
                                 IF lastVerified # 0 THEN lastVerified ELSE RunStarted), "aborting")
  /\ UNCHANGED <<polls, result>>

----------------------------------------------------------------------------
Tick ==
  /\ clock < MaxTime[from]
  /\ clock' = clock + 1
  /\ UNCHANGED <<from, emission, pc, polls, result, shared>>

Emission(p) == AppendEvent(p) \/ Project(p) \/ ProjectRaises(p) \/ WriteStatus(p) \/ NextRecord(p)

Thread(t) ==
  \/ RenderPrompt(t) \/ RefusePrompt(t) \/ FailRefused(t) \/ InvokeAgent(t) \/ PollLiveness(t)
  \/ AgentSucceeds(t) \/ AgentFails(t) \/ AgentTimesOut(t)
  \/ ReportExit(t) \/ ReportFailure(t) \/ CheckInvocation(t) \/ FailInvocation(t)
  \/ OutputsVerified(t) \/ OutputsRefused(t) \/ FailUnverified(t) \/ RecordVerified(t)

Main ==
  \/ \E t \in Turns : InputsMissing(t) \/ StartTurn(t) \/ SubmitTurn(t)
  \/ Join \/ Unwind \/ AuditPasses \/ AuditFails

Next ==
  \/ \E p \in Processes : Emission(p)
  \/ \E t \in Turns : Thread(t)
  \/ Main
  \/ Tick

\* Every thread goes on, and an agent ends: the runner kills it at its timeout.
Fairness ==
  /\ \A p \in Processes : WF_vars(Emission(p))
  /\ \A t \in Turns : WF_vars(Thread(t))
  /\ WF_vars(Main)

Spec == Init /\ [][Next]_vars /\ Fairness

----------------------------------------------------------------------------
(* Properties *)

TypeOK ==
  /\ from \in FromTurns
  /\ log \in Seq(Events)
  /\ status \in 1 .. Len(log)
  /\ clock \in 0 .. MaxTime[from]
  /\ pc \in [Processes -> Places]
  /\ stage \in [Processes -> {"idle", "append", "project", "write"}]
  /\ pending \in [Processes -> Events]
  /\ seen \in [Processes -> 0 .. Len(log)]
  /\ polls \in [Turns -> 0 .. MaxPolls[from]]
  /\ result \in [Turns -> {"none", "succeeded", "failed", "timeout"}]
  /\ {lastExit, lastFailure, lastVerified} \subseteq 0 .. Len(log)

Submitted == {t \in Turns : pc[t] # "unsubmitted"}

\* status.json never shows the projection of a log that the projection
\* rejects, whichever of the unlocked writers wrote it last.
StatusProjectable == Projectable(SubSeq(log, 1, status))

\* The three ways run_turn_bc() ends.  It returns only with a legal log
\* without a recorded failure; PipelineAbort is never raised without run_failed
\* in the log; and an unexpected ValueError means that the log is illegal.
OutcomeExplained ==
  /\ pc["main"] = "passed" =>
       Projectable(log) /\ \A i \in DOMAIN log : log[i].type # "run_failed"
  /\ pc["main"] = "aborted" => \E i \in DOMAIN log : log[i].type = "run_failed"
  /\ pc["main"] = "crashed" => ~Projectable(log)

\* Turn B/C never passes when an agent was killed at its timeout, and passes only
\* if an agent succeeded - a turn that runs alone by its own success - although
\* the fields that tell may be overwritten by the other thread.
PassEarned ==
  pc["main"] = "passed" =>
    /\ \A t \in Submitted : result[t] # "timeout"
    /\ \E t \in Submitted : result[t] = "succeeded"

\* When run_turn_bc() has ended and the log can be projected, status.json is
\* its projection: the writers that do not take event_lock may put back an
\* older one for a while, but every thread ends with a locked emission.
StatusCurrent == pc["main"] \in MainEnded /\ Projectable(log) => status = Len(log)

\* run_turn_bc() ends, whatever fails in either thread: no exception leaves
\* event_lock taken or a thread that is waited for.
Finishes == <>(pc["main"] \in MainEnded)

\* Expected to fail.  Turn B/C passes only if both agents succeeded: the
\* outputs that output_verified reports are those of an agent that succeeded.
AgentsSucceeded ==
  pc["main"] = "passed" => \A t \in Submitted : result[t] = "succeeded"

\* Expected to fail.  When run_turn_bc() has ended, the log is one that
\* status.json can be derived from.
RunDerivable == pc["main"] \in MainEnded => Projectable(log)

=============================================================================
