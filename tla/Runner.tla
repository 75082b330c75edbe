------------------------------- MODULE Runner -------------------------------
(***************************************************************************)
(* One invocation of an agent: sawmill.agent.                              *)
(*                                                                         *)
(* Four processes take part.  invoke_full() of the orchestrator starts the *)
(* runner, and until it is gone has an emitter, a process of its own, copy *)
(* what the runner has observed from the liveness file to the events of    *)
(* the run.  The runner executes the agent, again when the transport       *)
(* failed, and stores the result.  The agent may leave processes behind    *)
(* that hold its pipe open.                                                *)
(***************************************************************************)
EXTENDS Naturals, Sequences

CONSTANTS
  MaxExecutions,  \* MAX_ATTEMPTS
  MaxLines        \* bound on the signs of life: lines of each execution beyond which there are none

ASSUME RunnerAssumption == MaxExecutions \in Nat \ {0} /\ MaxLines \in Nat

VARIABLES
  runner,     \* where the runner is
  execution,  \* how often it has executed the agent
  timed,      \* whether it has found that the time of this execution is over
  marked,     \* whether it has read a marker of a failed transport
  lines,      \* how many observations are in the liveness file
  result,     \* the outcome in result.json
  agent,      \* the process of the agent, or how it ended
  late,       \* whether the time of this execution is over
  pipe,       \* what there is to read from the agent
  touched,    \* whether its heartbeat file has changed since the runner looked
  leftover,   \* whether a process that the agent left holds the pipe
  invoker,    \* where invoke_full() and its emitter are
  final,      \* whether the runner is gone, and this emission the last
  next,       \* the line the emitter emits next
  upto,       \* how many lines it has read
  offset,     \* the state file of the emitter: how many lines it has emitted
  events,     \* the lines that have become events of the run
  outcome     \* of the event that ends the invocation

runnerState == <<runner, execution, timed, marked, lines, result>>
agentState == <<agent, late, pipe, touched, leftover>>
invokerState == <<invoker, final, next, upto, offset, events, outcome>>
runnerVars == <<runnerState, agentState, invokerState>>

\* Exit codes: transport codes are those of TRANSPORT_FAILURE_EXIT_CODES.
Codes == {"zero", "transport", "124", "other"}

RunnerInit ==
  /\ runner = "none" /\ execution = 0 /\ timed = FALSE /\ marked = FALSE
  /\ lines = 0 /\ result = "none"
  /\ agent = "none" /\ late = FALSE /\ pipe = "empty" /\ touched = FALSE /\ leftover = FALSE
  /\ invoker = "ready" /\ final = FALSE /\ next = 1 /\ upto = 0 /\ offset = 0
  /\ events = <<>> /\ outcome = "none"

----------------------------------------------------------------------------
(* The agent and what it leaves behind *)

External == UNCHANGED <<runnerState, invokerState>>

\* The bound on the signs of life.
Room == lines < MaxLines * execution

\* A marker is one of TRANSPORT_FAILURE_SUBSTRINGS, wherever in the output.
Write(text) ==
  /\ agent = "running" \/ leftover
  /\ Room
  /\ pipe' = IF pipe = "marked" THEN pipe ELSE text
  /\ External /\ UNCHANGED <<agent, late, touched, leftover>>

Touch ==
  /\ agent = "running" /\ Room
  /\ touched' = TRUE
  /\ External /\ UNCHANGED <<agent, late, pipe, leftover>>

Fork ==
  /\ agent = "running"
  /\ leftover' = TRUE
  /\ External /\ UNCHANGED <<agent, late, pipe, touched>>

LeftoverEnds ==
  /\ leftover /\ leftover' = FALSE
  /\ External /\ UNCHANGED <<agent, late, pipe, touched>>

Exit(code) ==
  /\ agent = "running"
  /\ agent' = code
  /\ External /\ UNCHANGED <<late, pipe, touched, leftover>>

\* timeout_seconds pass.
Elapse ==
  /\ runner = "watching" /\ late' = TRUE
  /\ External /\ UNCHANGED <<agent, pipe, touched, leftover>>

----------------------------------------------------------------------------
(* The runner *)

Observe(n) == lines' = lines + n

\* run_once(): the agent gets pipes of its own ...
StartExecution ==
  /\ runner = "starting" /\ runner' = "watching"
  /\ execution' = execution + 1
  /\ agent' = "running" /\ timed' = FALSE /\ marked' = FALSE
  /\ Observe(1)
  /\ UNCHANGED <<result, late, pipe, touched, leftover, invokerState>>

\* ... and when it returns nothing of this execution is looked at any more.
Closed == late' = FALSE /\ pipe' = "empty" /\ touched' = FALSE /\ leftover' = FALSE

\* The backend is unknown, or its program cannot be started: the runner ends by
\* an exception, without a result.
CannotStart ==
  /\ runner = "starting" /\ runner' = "raised"
  /\ UNCHANGED <<execution, timed, marked, lines, result, agentState, invokerState>>

\* Mutant: the clock is looked at only when the agent has given a sign of life.
TimeOutMutant ==
  /\ runner = "watching" /\ late /\ (touched \/ pipe # "empty")
  /\ runner' = "deciding" /\ timed' = TRUE
  /\ agent' = IF agent = "running" THEN "killed" ELSE agent
  /\ Observe(1) /\ Closed
  /\ UNCHANGED <<execution, marked, result, invokerState>>

\* Between two looks at the clock the agent may have ended by itself.
TimeOut ==
  /\ runner = "watching" /\ late
  /\ runner' = "deciding" /\ timed' = TRUE
  /\ agent' = IF agent = "running" THEN "killed" ELSE agent
  /\ Observe(1) /\ Closed
  /\ UNCHANGED <<execution, marked, result, invokerState>>

SeeAlive ==
  /\ runner = "watching" /\ Room
  /\ Observe(1)
  /\ UNCHANGED <<runner, execution, timed, marked, result, agentState, invokerState>>

SeeHeartbeat ==
  /\ runner = "watching" /\ touched /\ touched' = FALSE
  /\ Observe(2)
  /\ UNCHANGED <<runner, execution, timed, marked, result, agent, late, pipe, leftover, invokerState>>

\* Only standard output is a sign of life.
SeeOutput ==
  /\ runner = "watching" /\ pipe # "empty"
  /\ marked' = (marked \/ pipe = "marked") /\ pipe' = "empty"
  /\ \/ Observe(2)
     \/ UNCHANGED lines
  /\ UNCHANGED <<runner, execution, timed, result, agent, late, touched, leftover, invokerState>>

SeeExit ==
  /\ runner = "watching" /\ agent # "running"
  /\ runner' = "draining"
  /\ UNCHANGED <<execution, timed, marked, lines, result, agentState, invokerState>>

\* What is left is read to its end: when there is something to read, that is
\* when nobody holds the pipe any more.
Drain ==
  /\ runner = "draining" /\ (pipe = "empty" \/ ~leftover)
  /\ runner' = "deciding" /\ marked' = (marked \/ pipe = "marked")
  /\ Observe(1) /\ Closed
  /\ UNCHANGED <<execution, timed, result, agent, invokerState>>

ReturnCode == IF timed THEN "124" ELSE agent

\* is_transport_failure(): after a timeout too, when the output has a marker.
TransportFailed == ReturnCode = "transport" \/ marked
Again == ReturnCode # "zero" /\ TransportFailed /\ execution < MaxExecutions

\* main_runner()
Retry ==
  /\ runner = "deciding" /\ Again
  /\ runner' = "starting"
  /\ UNCHANGED <<execution, timed, marked, lines, result, agentState, invokerState>>

Report ==
  /\ runner = "deciding" /\ ~Again
  /\ runner' = "exited"
  /\ result' = CASE ReturnCode = "124" -> "timeout"
                 [] ReturnCode = "zero" -> "succeeded"
                 [] OTHER -> "failed"
  /\ UNCHANGED <<execution, timed, marked, lines, agentState, invokerState>>

Gone == runner \in {"exited", "raised"}

----------------------------------------------------------------------------
(* invoke_full() and its emitter *)

Invoke ==
  /\ invoker = "ready" /\ invoker' = "polling"
  /\ runner' = "starting"
  /\ UNCHANGED <<execution, timed, marked, lines, result, agentState, final, next, upto, offset, events, outcome>>

\* child.poll(), again after every emission.
PollChild ==
  /\ invoker = "polling" /\ invoker' = "reading"
  /\ final' = Gone
  /\ UNCHANGED <<runnerState, agentState, next, upto, offset, events, outcome>>

\* _emit_liveness(): the lines after the offset ...
ReadLines ==
  /\ invoker = "reading" /\ invoker' = "emitting"
  /\ next' = offset + 1 /\ upto' = lines
  /\ UNCHANGED <<runnerState, agentState, final, offset, events, outcome>>

\* ... become events one by one ...
EmitLine ==
  /\ invoker = "emitting" /\ next <= upto
  /\ events' = Append(events, next) /\ next' = next + 1
  /\ UNCHANGED <<runnerState, agentState, invoker, final, upto, offset, outcome>>

\* Mutant: the offset counts the lines there are, not those that were read.
SaveOffsetMutant ==
  /\ invoker = "emitting" /\ next > upto
  /\ offset' = lines
  /\ invoker' = IF final THEN "judging" ELSE "polling"
  /\ UNCHANGED <<runnerState, agentState, final, next, upto, events, outcome>>

\* ... and only then, after the status, the offset is saved.
SaveOffset ==
  /\ invoker = "emitting" /\ next > upto
  /\ offset' = upto
  /\ invoker' = IF final THEN "judging" ELSE "polling"
  /\ UNCHANGED <<runnerState, agentState, final, next, upto, events, outcome>>

\* The log cannot be projected, or a file not be written: invoke_full() raises,
\* and the runner goes on alone.
EmitterFails ==
  /\ invoker \in {"reading", "emitting", "judging"} /\ invoker' = "raised"
  /\ UNCHANGED <<runnerState, agentState, final, next, upto, offset, events, outcome>>

Judge ==
  /\ invoker = "judging" /\ invoker' = "done"
  /\ outcome' = IF result = "none" THEN "failed" ELSE result
  /\ UNCHANGED <<runnerState, agentState, final, next, upto, offset, events>>

----------------------------------------------------------------------------
AgentStep ==
  \/ \E text \in {"plain", "marked"} : Write(text)
  \/ \E code \in Codes : Exit(code)
  \/ Touch \/ Fork \/ LeftoverEnds

RunnerStep ==
  \/ StartExecution \/ CannotStart
  \/ TimeOut \/ SeeAlive \/ SeeHeartbeat \/ SeeOutput \/ SeeExit \/ Drain
  \/ Retry \/ Report

InvokerStep == PollChild \/ ReadLines \/ EmitLine \/ SaveOffset \/ Judge

RunnerNext == Invoke \/ AgentStep \/ Elapse \/ RunnerStep \/ InvokerStep \/ EmitterFails

\* Processes that can go on do, and time passes.  The runner looks at the clock
\* and for the end of the agent in every round, whatever else there is to see.
\* Agents and what they leave behind need not end.
RunnerFairness ==
  /\ WF_runnerVars(RunnerStep) /\ WF_runnerVars(TimeOut) /\ WF_runnerVars(SeeExit)
  /\ WF_runnerVars(InvokerStep) /\ WF_runnerVars(Elapse)

RunnerSpec == RunnerInit /\ [][RunnerNext]_runnerVars /\ RunnerFairness

----------------------------------------------------------------------------
(* Properties *)

RunnerTypes ==
  /\ runner \in {"none", "starting", "watching", "draining", "deciding", "exited", "raised"}
  /\ execution \in 0 .. MaxExecutions
  /\ timed \in BOOLEAN /\ marked \in BOOLEAN
  /\ result \in {"none", "succeeded", "failed", "timeout"}

AgentTypes ==
  /\ agent \in Codes \cup {"none", "running", "killed"}
  /\ pipe \in {"empty", "plain", "marked"}
  /\ late \in BOOLEAN /\ touched \in BOOLEAN /\ leftover \in BOOLEAN

LineTypes ==
  /\ lines \in Nat /\ upto \in 0 .. lines /\ offset \in 0 .. lines /\ next \in Nat \ {0}
  /\ events \in Seq(1 .. lines)

RunnerTypeOK ==
  /\ RunnerTypes /\ AgentTypes /\ LineTypes
  /\ invoker \in {"ready", "polling", "reading", "emitting", "judging", "done", "raised"}
  /\ final \in BOOLEAN
  /\ outcome \in {"none", "succeeded", "failed", "timeout"}

\* Every observation of the runner becomes one event, in its order, although
\* the runner writes while the emitter reads; only an emitter that failed may
\* leave some out.  An invocation that has an outcome has all of them, and no
\* agent: it succeeded when the last execution ended by itself with exit code
\* zero and within its time, and a failed transport was given every execution
\* there is.
OutcomeHonest ==
  /\ \A i \in DOMAIN events : events[i] = i
  /\ invoker = "done" =>
       /\ Len(events) = lines
       /\ agent # "running"
       /\ (outcome = "succeeded") <=> (runner = "exited" /\ agent = "zero" /\ ~timed)
       /\ outcome = "timeout" => timed \/ agent = "124"
       /\ runner = "exited" /\ outcome # "succeeded" /\ TransportFailed => execution = MaxExecutions

\* A process that the agent left behind holds up the runner.
HeldUp == runner = "draining" /\ leftover /\ pipe # "empty"

\* An invocation ends, whatever the agent does, after so many timeouts at most as
\* there are executions, unless it is held up for ever.
InvocationEnds == []<>(invoker \in {"ready", "done", "raised"} \/ HeldUp)

=============================================================================
