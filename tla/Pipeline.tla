------------------------------ MODULE Pipeline ------------------------------
(***************************************************************************)
(* sawmill.orchestrate: one run after another over the files of one        *)
(* framework.  A run is one process: preflight, invalidation of what it is *)
(* to make anew, Turns A, B/C, D (13Q gate, review, build) and E, with the *)
(* retry loop over D and E, the audits, convergence, and the status page.  *)
(*                                                                         *)
(* Agents, the human at a checkpoint and whoever kills the process are the *)
(* environment: an agent leaves any outputs, evidence and verdict.  An     *)
(* emission (append, project, write) is one step here.  Of the two threads *)
(* of Turn B/C there is what they leave behind: a passed turn, or the      *)
(* steps from the first failure until both have ended.  TurnBC has them in *)
(* detail.  All events carry the same timestamp, so that the order of the  *)
(* log is that of the file.                                                *)
(***************************************************************************)
EXTENDS RunState, FiniteSets

CONSTANTS
  Launches,     \* what operators may ask for: the --from-turn of each run
  Modes,        \* a subset of AllModes
  MaxAttempts   \* ctx.max_attempts

TurnNames == {"A", "B", "C", "D", "E"}

\* --interactive with and without a terminal, or neither.
AllModes == {"unattended", "terminal", "headless"}

PipelineRoles == {"orchestrator", "spec-agent", "holdout-agent", "builder", "reviewer", "evaluator"}

ASSUME PipelineAssumption ==
  /\ Launches \subseteq Seq(TurnNames)
  /\ Modes \subseteq AllModes
  /\ MaxAttempts \in Nat /\ MaxAttempts > 1
  /\ PipelineRoles \subseteq Roles

VARIABLES
  launches,   \* the runs asked for
  mode,
  files,      \* of each group of artifacts: Missing, Partial, or the run that wrote it last
  evidence,   \* of each judge or builder: the run and the attempt it is about
  verdicts,   \* the verdicts on the last lines of the two reports
  page,       \* the status page
  past,       \* what the earlier runs have left in their directories
  run,        \* the number of the run, 0 before the first
  lineage,    \* resumed_from_run_id and lineage_root_run_id
  log,        \* events.jsonl of the run
  status,     \* its status.json
  pc,
  prompt,     \* the prompt dispatched last
  attempt,
  passed,     \* build_passed
  ids,        \* the event ids the orchestrator keeps
  cause,      \* the event run_failed is to name as its parent
  fresh       \* every output is newer than the prompt's sentinel

shared == <<launches, mode>>
disk == <<files, evidence, verdicts>>
control == <<prompt, attempt, passed>>
vars == <<launches, mode, files, evidence, verdicts, page, past, run, lineage, log, status,
          pc, prompt, attempt, passed, ids, cause, fresh>>

----------------------------------------------------------------------------
(* The registries *)

Groups == {"spec", "plan", "holdout", "q13", "review", "build", "evaluation"}

StageOf == [spec |-> "A", plan |-> "B", holdout |-> "C", q13 |-> "D", review |-> "D",
            build |-> "D", evaluation |-> "E"]

Rank == [A |-> 1, B |-> 2, C |-> 3, D |-> 4, E |-> 5]

Prompts == {"turn_a_spec", "turn_d_13q", "turn_d_review", "turn_d_build", "turn_e_eval"}

RoleOf == [turn_a_spec |-> "spec-agent", turn_d_13q |-> "builder", turn_d_review |-> "reviewer",
           turn_d_build |-> "builder", turn_e_eval |-> "evaluator"]

\* required_artifacts; the task of Turn A is none of the groups.
Inputs == [turn_a_spec |-> {}, turn_d_13q |-> {"plan"}, turn_d_review |-> {"plan", "q13"},
           turn_d_build |-> {"plan", "q13", "review"}, turn_e_eval |-> {"holdout", "build"}]

\* expected_artifacts, all of them with freshness_policy "required".
Outputs == [turn_a_spec |-> "spec", turn_d_13q |-> "q13", turn_d_review |-> "review",
            turn_d_build |-> "build", turn_e_eval |-> "evaluation"]

\* The prompts that have to leave evidence, with the role it is named for.
Witnesses == {"reviewer", "builder", "evaluator"}
Judged == {"turn_d_review", "turn_d_build", "turn_e_eval"}

Missing == -2
Partial == -1
Complete(f) == {g \in Groups : f[g] >= 0}

\* No evidence; and evidence with a wrong attempt, hash or field.
NoEvidence == [run |-> 0, attempt |-> 0]
Evidence == [run : 0 .. Len(launches), attempt : 0 .. MaxAttempts]

----------------------------------------------------------------------------
(* The status page and the audits *)

\* Mutant: a stage is done when some of it exists.
DoneMutant(f) == {s \in TurnNames \ {"E"} : \A g \in Groups : StageOf[g] = s => f[g] # Missing}

\* The stages whose required artifacts all exist.
Done(f) == {s \in TurnNames \ {"E"} : \A g \in Groups : StageOf[g] = s => g \in Complete(f)}

\* A report without a verdict has the label UNKNOWN, none has PENDING.
Label(f, v) == IF "evaluation" \in Complete(f) THEN v.evaluation ELSE "PENDING"

\* update-status: a page without the marker on its first line is left alone.
Updated(f, v, st) ==
  IF ~page.managed THEN page
  ELSE [managed |-> TRUE, run |-> run, state |-> st.state, done |-> Done(f), label |-> Label(f, v)]

\* sawmill.audit stage, with the page p.
StageAudit(p) ==
  /\ \A s \in {"A", "B", "C"} :
       (\E g \in Groups : StageOf[g] = s /\ files[g] # Missing) => s \in Done(files) /\ p.managed
  /\ files["review"] # Missing => files["review"] # Partial /\ verdicts.review # "UNKNOWN"
  /\ (\E g \in {"q13", "review", "build"} : files[g] # Missing) => "D" \in Done(files) /\ "D" \in p.done
  /\ files["evaluation"] # Missing =>
       "evaluation" \in Complete(files) /\ p.label = Label(files, verdicts)
  /\ p.done \subseteq Done(files)
  /\ p.label \in {"PASS", "FAIL"} => p.label = Label(files, verdicts)

\* sawmill.audit convergence: evidence that exists has to be of this very run;
\* its attempt is taken from the evidence itself.
Converged(p) ==
  /\ \A w \in Witnesses : evidence[w] # NoEvidence => evidence[w].run = run /\ evidence[w].attempt > 0
  /\ p.run = run /\ p.state = status.state

----------------------------------------------------------------------------
(* The log and its projection *)

RunStarted == 1

\* A failed outcome or a failure code; the other fields nothing depends on.
Event(type, role, failed, parent, att) ==
  [type |-> type, role |-> role, failed |-> failed, parent |-> parent, ts |-> 0, attempt |-> att]

PipelineEvents ==
  [type : EVENT_TYPES, role : PipelineRoles, failed : BOOLEAN, parent : Nat, ts : {0}, attempt : Nat]

States == {"running", "retrying", "passed", "failed", "escalated", "interrupted"}
TerminalStates == {"passed", "failed", "escalated"}

StateAfter(state, e) ==
  CASE e.type = "run_completed" -> "passed"
    [] e.type = "run_failed" -> "failed"
    [] e.type = "escalation_triggered" -> "escalated"
    [] e.type = "retry_started" -> "retrying"
    [] state = "retrying" /\ e.type \in {"prompt_rendered", "agent_invoked", "agent_exited",
                                          "timeout_triggered", "output_verified"} -> "retrying"
    [] OTHER -> "running"

\* apply_event(); governed_path_intact stays true, as nothing here records a
\* manual intervention.
Applied(st, e) ==
  [state |-> StateAfter(st.state, e),
   attempt |-> e.attempt,
   worker |-> CASE e.type \in {"run_started", "retry_started"} -> "unknown"
                [] e.type = "agent_invoked" -> "alive"
                [] e.type \in {"agent_exited", "timeout_triggered"} -> "exited"
                [] OTHER -> st.worker]

NewStatus == [state |-> "running", attempt |-> 0, worker |-> "unknown"]

\* What the projection of the whole log says of the event just appended.
Accepted(l) == validate_parent(l, Len(l)) /\ NotAfterTerminal(l, Len(l))

\* Mutant: the exception is swallowed.
EmitMutant(e, next) ==
  /\ log' = Append(log, e)
  /\ status' = IF Accepted(log') THEN Applied(status, e) ELSE status
  /\ pc' = next

\* emit(): the event is in the log before the projection looks at it; a
\* ValueError is caught by nobody and ends the process.
Emit(e, next) ==
  /\ log' = Append(log, e)
  /\ IF Accepted(log')
     THEN status' = Applied(status, e) /\ pc' = next
     ELSE status' = status /\ pc' = "crashed"

\* The number the event that is emitted next will have.
NewId == Len(log) + 1

\* Mutant: an attempt is counted before it begins.
CurrentAttemptMutant == IF ids.turn = 0 THEN 0 ELSE attempt + 1

\* current_event_attempt, which invoke_prompt() sets: 0 before the first turn.
CurrentAttempt == IF ids.turn = 0 THEN 0 ELSE IF attempt = 0 THEN 1 ELSE attempt

IdNames == {"turn", "prompt", "invoked", "exit", "verified", "decision", "completed", "retry"}
NoIds == [n \in IdNames |-> 0]

----------------------------------------------------------------------------
(* Beginning and end of a run *)

Ended == {"ready", "completed", "aborted", "crashed", "killed"}
Going ==
  {"preflight", "prepare", "startA", "startBC", "inBC", "startD", "attempt", "startE", "hash",
   "dispatch", "invoke", "wait", "version", "evidence", "outputs", "verdict",
   "auditA", "auditBC", "auditD", "auditE", "checkpointA", "checkpointBC",
   "retryReview", "escalate", "retryEval", "converge", "failing"}

\* In "unwindBC" a thread of Turn B/C has failed, and main does not know yet.
Alive == Going \cup {"unwindBC"}

Init ==
  /\ launches \in Launches
  /\ mode \in Modes
  /\ \E earlier \in {Missing, Partial, 0} :
       files = [g \in Groups |-> IF Rank[StageOf[g]] < Rank[launches[1]] THEN earlier ELSE Missing]
  /\ evidence = [w \in Witnesses |-> NoEvidence]
  /\ verdicts = [review |-> "UNKNOWN", evaluation |-> "UNKNOWN"]
  /\ \E managed \in BOOLEAN :
       page = [managed |-> managed, run |-> 0, state |-> "running", done |-> {}, label |-> "PENDING"]
  /\ past = <<>>
  /\ run = 0
  /\ lineage = {}
  /\ log = <<>>
  /\ status = NewStatus
  /\ pc = "ready"
  /\ prompt = "none"
  /\ attempt = 0
  /\ passed = FALSE
  /\ ids = NoIds
  /\ cause = 0
  /\ fresh = FALSE

from == launches[run]

\* scan_interrupted_runs(): a run that has gone without a heartbeat for long is
\* marked, unless its log cannot be projected.
Scanned(runs, quiet) ==
  [i \in DOMAIN runs |->
     IF i \in quiet /\ runs[i].derivable /\ runs[i].state \in {"running", "retrying"}
     THEN [runs[i] EXCEPT !.state = "interrupted"] ELSE runs[i]]

\* resolved_resume_lineage(): the last interrupted run, or else the last one.
Resumed(runs) ==
  LET interrupted == {i \in DOMAIN runs : runs[i].state = "interrupted"} IN
  IF interrupted = {} THEN Len(runs) ELSE CHOOSE i \in interrupted : \A j \in interrupted : j <= i

Root(runs) == LET r == Resumed(runs) IN IF runs[r].root # 0 THEN runs[r].root ELSE r

RootOf == IF lineage = {} THEN 0 ELSE CHOOSE r \in lineage : \A i \in lineage : r <= i

\* project_status() looks at the log; after a failure in Turn B/C status.json may be older.
Projected == IF \E i \in DOMAIN log : log[i].type = "run_failed" THEN "failed" ELSE status.state

\* scan_interrupted_runs() and initialize_run_harness(), once the process of
\* the run before is gone.
Launch ==
  /\ pc \in Ended /\ run < Len(launches)
  /\ run' = run + 1
  /\ \E quiet \in SUBSET (1 .. run) :
       LET last == [state |-> Projected, derivable |-> Projectable(log), root |-> RootOf]
       IN past' = Scanned(IF run = 0 THEN past ELSE Append(past, last), quiet)
  /\ lineage' = IF launches[run'] = "A" \/ past' = <<>> THEN {} ELSE {Resumed(past'), Root(past')}
  /\ log' = <<Event("run_started", "orchestrator", FALSE, 0, 0)>>
  /\ status' = NewStatus
  /\ pc' = "preflight"
  /\ prompt' = "none" /\ attempt' = 0 /\ passed' = FALSE
  /\ ids' = NoIds /\ cause' = 0 /\ fresh' = FALSE
  /\ UNCHANGED <<shared, disk, page>>

\* What a step within a run leaves alone.
Same == UNCHANGED <<shared, past, run, lineage>>

PreflightPasses ==
  /\ pc = "preflight"
  /\ Emit(Event("preflight_passed", "orchestrator", FALSE, RunStarted, 0), "prepare")
  /\ UNCHANGED <<disk, page, control, ids, cause, fresh>> /\ Same

PreflightFails ==
  /\ pc = "preflight"
  /\ Emit(Event("preflight_passed", "orchestrator", TRUE, RunStarted, 0), "failing")
  /\ cause' = NewId
  /\ UNCHANGED <<disk, page, control, ids, fresh>> /\ Same

\* record_run_failed() and PipelineAbort.
FailRun ==
  /\ pc = "failing"
  /\ Emit(Event("run_failed", "orchestrator", TRUE, cause, CurrentAttempt), "aborted")
  /\ UNCHANGED <<disk, page, control, ids, cause, fresh>> /\ Same

\* The process is killed between two steps.
Kill ==
  /\ pc \in Alive
  /\ pc' = "killed"
  /\ UNCHANGED <<disk, page, log, status, control, ids, cause, fresh>> /\ Same

\* A step without an emission.
Go(at, next) ==
  /\ pc = at
  /\ pc' = next
  /\ UNCHANGED <<log, status>> /\ Same

\* Something is found missing before its turn begins; run_started is the parent.
MissingInput(at) ==
  /\ Go(at, "failing")
  /\ cause' = RunStarted
  /\ UNCHANGED <<disk, page, control, ids, fresh>>

\* invalidate_from
ToInvalidate == {g \in Groups : Rank[StageOf[g]] >= Rank[from]}

\* The group that has the evidence of a role.
GroupOf == [reviewer |-> "review", builder |-> "build", evaluator |-> "evaluation"]

\* invalidate_downstream_artifacts() and update_status_page().
Prepare ==
  /\ Go("prepare", CASE from = "A" -> "startA" [] from \in {"B", "C"} -> "startBC"
                      [] from = "D" -> "startD" [] from = "E" -> "startE")
  /\ files' = [g \in Groups |-> IF g \in ToInvalidate THEN Missing ELSE files[g]]
  /\ evidence' = [w \in Witnesses |-> IF GroupOf[w] \in ToInvalidate THEN NoEvidence ELSE evidence[w]]
  /\ verdicts' = [v \in DOMAIN verdicts |-> IF v \in ToInvalidate THEN "UNKNOWN" ELSE verdicts[v]]
  /\ page' = Updated(files', verdicts', status)
  /\ attempt' = IF from = "E" THEN 1 ELSE 0
  /\ UNCHANGED <<prompt, passed, ids, cause, fresh>>

----------------------------------------------------------------------------
(* A prompt: invoke_prompt() *)

Role == RoleOf[prompt]

\* Rendered once its inputs exist.
RenderPrompt ==
  /\ pc = "dispatch"
  /\ \A g \in Inputs[prompt] : files[g] # Missing
  /\ Emit(Event("prompt_rendered", Role, FALSE, ids.turn, CurrentAttempt), "invoke")
  /\ ids' = [ids EXCEPT !.prompt = NewId]
  /\ fresh' = FALSE
  /\ UNCHANGED <<disk, page, control, cause>> /\ Same

\* A missing input, or a prompt that does not render.
RefusePrompt ==
  /\ pc = "dispatch"
  /\ Emit(Event("prompt_rendered", Role, TRUE, ids.turn, CurrentAttempt), "failing")
  /\ cause' = NewId
  /\ UNCHANGED <<disk, page, control, ids, fresh>> /\ Same

InvokeAgent ==
  /\ pc = "invoke"
  /\ Emit(Event("agent_invoked", Role, FALSE, ids.prompt, CurrentAttempt), "wait")
  /\ ids' = [ids EXCEPT !.invoked = NewId]
  /\ UNCHANGED <<disk, page, control, cause, fresh>> /\ Same

\* The evidence an agent may leave: right, about a run this one resumes, or
\* about the attempt before, which stands for whatever is wrong in the first.
AgentEvidence ==
  {[run |-> r, attempt |-> attempt] : r \in {run} \cup lineage} \cup {[run |-> run, attempt |-> attempt - 1]}

Verdicts == [review |-> {"PASS", "RETRY", "ESCALATE", "UNKNOWN"}, evaluation |-> {"PASS", "FAIL", "UNKNOWN"}]

\* What an agent has done to its outputs when it ends: nothing, a part, or all.
AgentWrites(what) ==
  LET g == Outputs[prompt] IN
  /\ files' = [files EXCEPT ![g] = CASE what = "all" -> run
                                     [] what = "part" /\ @ = Missing -> Partial
                                     [] OTHER -> @]
  /\ fresh' = (what = "all")
  /\ IF prompt \in Judged /\ what # "nothing"
     THEN \E e \in AgentEvidence \cup (IF what = "all" THEN {} ELSE {evidence[Role]}) : evidence' = [evidence EXCEPT ![Role] = e]
     ELSE UNCHANGED evidence
  /\ IF g \in DOMAIN verdicts /\ what # "nothing"
     THEN \E v \in Verdicts[g] : verdicts' = [verdicts EXCEPT ![g] = v]
     ELSE UNCHANGED verdicts

\* Where the checks of a prompt begin.
Checks == CASE prompt = "turn_a_spec" -> "outputs"
            [] prompt \in {"turn_d_13q", "turn_d_review"} -> "version"
            [] OTHER -> "evidence"

AgentSucceeds ==
  /\ pc = "wait"
  /\ \E what \in {"nothing", "part", "all"} : AgentWrites(what)
  /\ Emit(Event("agent_exited", Role, FALSE, ids.invoked, CurrentAttempt), Checks)
  /\ ids' = [ids EXCEPT !.exit = NewId]
  /\ UNCHANGED <<page, control, cause>> /\ Same

\* A failure, or the timeout; the event is the cause of run_failed.
AgentFails ==
  /\ pc = "wait"
  /\ \E what \in {"nothing", "part", "all"} : AgentWrites(what)
  /\ \E type \in {"agent_exited", "timeout_triggered"} :
       Emit(Event(type, Role, TRUE, ids.invoked, CurrentAttempt), "failing")
  /\ cause' = NewId
  /\ UNCHANGED <<page, control, ids>> /\ Same

----------------------------------------------------------------------------
(* The checks of its results *)

\* A check failed: output_verified tells, and is the cause of run_failed.
Refuted(at) ==
  /\ pc = at
  /\ Emit(Event("output_verified", Role, TRUE, ids.exit, CurrentAttempt), "failing")
  /\ cause' = NewId
  /\ UNCHANGED <<disk, page, control, ids, fresh>> /\ Same

VersionMatches ==
  /\ Go("version", IF prompt = "turn_d_13q" THEN "outputs" ELSE "evidence")
  /\ files[Outputs[prompt]] # Missing
  /\ UNCHANGED <<disk, page, control, ids, cause, fresh>>

VersionDiffers == Refuted("version") /\ files[Outputs[prompt]] # Missing

\* extract_version_evidence() raises: no such file, no such line, or several.
VersionUnreadable ==
  /\ Go("version", "crashed")
  /\ UNCHANGED <<disk, page, control, ids, cause, fresh>>

\* Mutant: the attempt is not compared.
EvidenceValidMutant ==
  evidence[Role].run \in {run} \cup lineage /\ evidence[Role].attempt > 0

\* validate_common(), with the runs this one resumes.
EvidenceValid ==
  evidence[Role].run \in {run} \cup lineage /\ evidence[Role].attempt = attempt

EvidenceHolds ==
  /\ Go("evidence", "outputs") /\ EvidenceValid
  /\ UNCHANGED <<disk, page, control, ids, cause, fresh>>

EvidenceFails == Refuted("evidence") /\ ~EvidenceValid

\* verify_prompt_outputs()
OutputsGood == Outputs[prompt] \in Complete(files) /\ fresh

AfterOutputs == CASE prompt = "turn_a_spec" -> "auditA"
                  [] prompt = "turn_d_13q" -> "dispatch"
                  [] prompt = "turn_d_build" -> "auditD"
                  [] OTHER -> "verdict"

OutputsVerified ==
  /\ pc = "outputs" /\ OutputsGood
  /\ Emit(Event("output_verified", Role, FALSE, ids.exit, CurrentAttempt), AfterOutputs)
  /\ ids' = [ids EXCEPT !.verified = NewId]
  /\ prompt' = IF prompt = "turn_d_13q" THEN "turn_d_review" ELSE prompt
  /\ UNCHANGED <<disk, page, attempt, passed, cause, fresh>> /\ Same

OutputsRefused == Refuted("outputs") /\ ~OutputsGood

----------------------------------------------------------------------------
(* Turns A, B and C *)

StartA ==
  /\ pc = "startA"
  /\ Emit(Event("turn_started", "spec-agent", FALSE, RunStarted, 1), "dispatch")
  /\ attempt' = 1 /\ prompt' = "turn_a_spec"
  /\ ids' = [ids EXCEPT !.turn = NewId]
  /\ UNCHANGED <<disk, page, passed, cause, fresh>> /\ Same

\* checkpoint()
AfterCheckpoint(at, next) ==
  CASE mode = "unattended" -> next [] mode = "headless" -> "aborted" [] mode = "terminal" -> at

\* update_status_page() and run_stage_audit(); a failed audit gives run_failed
\* the parent "to".
Audit(at, next, to) ==
  /\ page' = Updated(files, verdicts, status)
  /\ Go(at, IF StageAudit(page') THEN next ELSE "failing")
  /\ cause' = IF StageAudit(page') THEN cause ELSE to
  /\ UNCHANGED <<disk, control, ids, fresh>>

AuditA == Audit("auditA", AfterCheckpoint("checkpointA", "startBC"), ids.verified)

HumanContinues ==
  /\ \/ Go("checkpointA", "startBC")
     \/ Go("checkpointBC", "startD")
  /\ UNCHANGED <<disk, page, control, ids, cause, fresh>>

\* A run from Turn A has just verified what B and C need.
InputsOfBC == from = "A" \/ (from = "B" /\ "spec" \in Complete(files)) \/ (from = "C" /\ files["spec"] # Missing)

BCInputMissing ==
  /\ MissingInput("startBC")
  /\ from # "A" /\ "spec" \notin Complete(files)

StartBC ==
  /\ pc = "startBC" /\ InputsOfBC
  /\ Emit(Event("turn_started", "holdout-agent", FALSE, RunStarted, 1), "inBC")
  /\ ids' = [ids EXCEPT !.turn = NewId]
  /\ UNCHANGED <<disk, page, control, cause, fresh>> /\ Same

\* self.attempt or 1
AttemptBC == IF attempt = 0 THEN 1 ELSE attempt
EventBC(type, failed, parent) == Event(type, "holdout-agent", failed, parent, AttemptBC)

\* An agent's events from its prompt to its verified outputs.
Chain ==
  <<EventBC("prompt_rendered", FALSE, ids.turn), EventBC("agent_invoked", FALSE, NewId),
    EventBC("agent_exited", FALSE, NewId + 1), EventBC("output_verified", FALSE, NewId + 2)>>

\* What the groups of Turn B/C are once both threads have verified their outputs.
MadeByBC == IF from = "C" THEN {"holdout"} ELSE {"plan", "holdout"}

TurnBCPasses ==
  /\ pc = "inBC"
  /\ log' = log \o Chain
  /\ status' = [state |-> "running", attempt |-> AttemptBC, worker |-> "exited"]
  /\ files' = [g \in Groups |-> IF g \in MadeByBC THEN run ELSE files[g]]
  /\ ids' = [ids EXCEPT !.verified = NewId + 3]
  /\ pc' = "auditBC"
  /\ UNCHANGED <<evidence, verdicts, page, control, cause, fresh>> /\ Same

\* What the agents leave when Turn B/C fails.
LeftByBC ==
  \E left \in [MadeByBC -> {Missing, Partial, run}] :
    files' = [g \in Groups |-> IF g \in MadeByBC THEN left[g] ELSE files[g]]

\* A thread fails while the other may still run.  It records run_failed; or, beside
\* another thread, names what that one has left in last_agent_exit_event_id, which the
\* projection rejects.
TurnBCFails ==
  /\ pc = "inBC" /\ pc' = "unwindBC"
  /\ \/ /\ log' = log \o <<EventBC("prompt_rendered", TRUE, ids.turn),
                            Event("run_failed", "orchestrator", TRUE, NewId, AttemptBC)>>
        /\ status' = [status EXCEPT !.state = "failed", !.attempt = AttemptBC]
     \/ /\ from # "C"
        /\ log' = Append(log, EventBC("output_verified", FALSE, 0)) /\ UNCHANGED status
  /\ LeftByBC
  /\ UNCHANGED <<evidence, verdicts, page, control, ids, cause, fresh>> /\ Same

\* The other thread goes on.  A projection that it made before the failure, and writes
\* without event_lock, replaces the newer one; its next event makes the log illegal, and
\* raises before anything is written.
TurnBCLingers ==
  /\ pc = "unwindBC" /\ from # "C" /\ Projectable(log)
  /\ \/ status.state = "failed" /\ status' = [status EXCEPT !.state = "running"] /\ UNCHANGED log
     \/ log' = Append(log, EventBC("prompt_rendered", FALSE, ids.turn)) /\ UNCHANGED status
  /\ LeftByBC
  /\ UNCHANGED <<pc, evidence, verdicts, page, control, ids, cause, fresh>> /\ Same

\* Both have ended, and main is told of either exception: PipelineAbort, or the
\* ValueError of the projection.  The last to write behind a legal log held event_lock.
TurnBCEnds ==
  /\ pc = "unwindBC"
  /\ Projectable(log) => status.state = "failed"
  /\ \/ (\E i \in DOMAIN log : log[i].type = "run_failed") /\ pc' = "aborted"
     \/ ~Projectable(log) /\ pc' = "crashed"
  /\ UNCHANGED <<disk, page, log, status, control, ids, cause, fresh>> /\ Same

AuditBC ==
  /\ Audit("auditBC", AfterCheckpoint("checkpointBC", "startD"), ids.verified)
  /\ "plan" \in Complete(files)

\* The plan is asked for only after the audit, which page and cause reflect.
PlanMissing ==
  /\ pc = "auditBC" /\ "plan" \notin Complete(files)
  /\ page' = Updated(files, verdicts, status)
  /\ pc' = "failing"
  /\ cause' = IF StageAudit(page') THEN RunStarted ELSE ids.verified
  /\ UNCHANGED <<disk, log, status, control, ids, fresh>> /\ Same

----------------------------------------------------------------------------
(* Turn D: run_turn_d() *)

DInputMissing ==
  /\ MissingInput("startD")
  /\ from = "D" /\ "plan" \notin Complete(files)

\* last_retry, or else last_turn_completed, or else run_started.
ParentOfD == IF ids.retry # 0 THEN ids.retry ELSE IF ids.completed # 0 THEN ids.completed ELSE RunStarted

StartD ==
  /\ pc = "startD" /\ files["plan"] # Missing
  /\ Emit(Event("turn_started", "builder", FALSE, ParentOfD, attempt + 1), "attempt")
  /\ ids' = [ids EXCEPT !.turn = NewId, !.retry = 0, !.decision = 0]
  /\ UNCHANGED <<disk, page, control, cause, fresh>> /\ Same

\* The loop of run_turn_d(): the next attempt begins with the 13Q gate.
BeginAttempt ==
  /\ Go("attempt", "dispatch")
  /\ attempt < MaxAttempts
  /\ attempt' = attempt + 1 /\ prompt' = "turn_d_13q"
  /\ UNCHANGED <<disk, page, passed, ids, cause, fresh>>

\* The verdict event of the judge, and the decision it is.
Decide(type, failed, next) ==
  /\ pc = "verdict"
  /\ Emit(Event(type, Role, failed, ids.exit, attempt), next)
  /\ ids' = [ids EXCEPT !.decision = NewId]
  /\ UNCHANGED <<disk, page, attempt, cause, fresh>> /\ Same

Approves(verdict) == verdict = "PASS"

ReviewPasses ==
  /\ prompt = "turn_d_review" /\ Approves(verdicts.review)
  /\ Decide("review_verdict_recorded", FALSE, "dispatch")
  /\ prompt' = "turn_d_build"
  /\ UNCHANGED passed

ReviewRetries ==
  /\ prompt = "turn_d_review" /\ verdicts.review = "RETRY"
  /\ Decide("review_verdict_recorded", TRUE, "retryReview")
  /\ UNCHANGED <<prompt, passed>>

ReviewEscalates ==
  /\ prompt = "turn_d_review" /\ verdicts.review = "ESCALATE"
  /\ Decide("review_verdict_recorded", TRUE, "escalate")
  /\ UNCHANGED <<prompt, passed>>

ReviewUnreadable ==
  /\ prompt = "turn_d_review" /\ verdicts.review = "UNKNOWN"
  /\ Refuted("verdict")

\* Mutant: the last attempt is given away.
EscalateMutant ==
  /\ \/ pc = "escalate"
     \/ pc = "retryReview" /\ attempt + 1 >= MaxAttempts
     \/ pc = "retryEval" /\ (from = "E" \/ attempt + 1 >= MaxAttempts)
  /\ Emit(Event("escalation_triggered", "orchestrator", TRUE, ids.decision, CurrentAttempt), "aborted")
  /\ UNCHANGED <<disk, page, control, ids, cause, fresh>> /\ Same

\* record_escalation() and PipelineAbort.
Escalate ==
  /\ \/ pc = "escalate"
     \/ pc = "retryReview" /\ attempt >= MaxAttempts
     \/ pc = "retryEval" /\ (from = "E" \/ attempt >= MaxAttempts)
  /\ Emit(Event("escalation_triggered", "orchestrator", TRUE, ids.decision, CurrentAttempt), "aborted")
  /\ UNCHANGED <<disk, page, control, ids, cause, fresh>> /\ Same

\* Mutant: the budget is not looked at.
RetryReviewMutant ==
  /\ pc = "retryReview"
  /\ Emit(Event("retry_started", "orchestrator", TRUE, ids.decision, attempt), "attempt")
  /\ UNCHANGED <<disk, page, control, ids, cause, fresh>> /\ Same

\* The same turn goes on; last_retry_event_id is not set.
RetryReview ==
  /\ pc = "retryReview" /\ attempt < MaxAttempts
  /\ Emit(Event("retry_started", "orchestrator", TRUE, ids.decision, attempt), "attempt")
  /\ UNCHANGED <<disk, page, control, ids, cause, fresh>> /\ Same

\* Page, audit, and turn_completed.
CompleteD ==
  /\ pc = "auditD"
  /\ page' = Updated(files, verdicts, status) /\ StageAudit(page')
  /\ Emit(Event("turn_completed", "builder", FALSE, ids.decision, attempt), "startE")
  /\ ids' = [ids EXCEPT !.completed = NewId]
  /\ UNCHANGED <<disk, control, cause, fresh>> /\ Same

AuditDFails ==
  /\ Audit("auditD", "startE", ids.verified)
  /\ ~StageAudit(Updated(files, verdicts, status))

----------------------------------------------------------------------------
(* Turn E: run_turn_e() *)

EInputMissing ==
  /\ MissingInput("startE")
  /\ from = "E" /\ {"holdout", "build"} \ Complete(files) # {}

\* Partly there is enough: D9 is one file, and of the build the directory and
\* RESULTS.md are asked for.
StartE ==
  /\ pc = "startE"
  /\ from = "E" => files["holdout"] # Missing /\ files["build"] # Missing
  /\ Emit(Event("turn_started", "evaluator", FALSE,
                 IF ids.completed # 0 THEN ids.completed ELSE RunStarted, attempt), "hash")
  /\ ids' = [ids EXCEPT !.turn = NewId]
  /\ prompt' = "turn_e_eval"
  /\ UNCHANGED <<disk, page, attempt, passed, cause, fresh>> /\ Same

\* export_evidence_hashes(): a run from Turn D has not asked for the holdouts;
\* the file that is not there raises.
HashInputs ==
  /\ Go("hash", IF files["holdout"] = Missing THEN "crashed" ELSE "dispatch")
  /\ UNCHANGED <<disk, page, control, ids, cause, fresh>>

\* Mutant: build_passed is set before the verdict is known.
EvaluationFailsMutant ==
  /\ prompt = "turn_e_eval" /\ ~Approves(verdicts.evaluation)
  /\ Decide("evaluation_verdict_recorded", TRUE, "auditE")
  /\ passed' = TRUE
  /\ UNCHANGED prompt

EvaluationPasses ==
  /\ prompt = "turn_e_eval" /\ Approves(verdicts.evaluation)
  /\ Decide("evaluation_verdict_recorded", FALSE, "auditE")
  /\ passed' = TRUE
  /\ UNCHANGED prompt

\* FAIL, or no verdict at all.
EvaluationFails ==
  /\ prompt = "turn_e_eval" /\ ~Approves(verdicts.evaluation)
  /\ Decide("evaluation_verdict_recorded", TRUE, "auditE")
  /\ UNCHANGED <<prompt, passed>>

CompleteE ==
  /\ pc = "auditE" /\ passed
  /\ page' = Updated(files, verdicts, status) /\ StageAudit(page')
  /\ Emit(Event("turn_completed", "evaluator", FALSE, ids.decision, attempt), "converge")
  /\ ids' = [ids EXCEPT !.completed = NewId]
  /\ UNCHANGED <<disk, control, cause, fresh>> /\ Same

\* The audit of a failed evaluation passes, or the audit fails.
AuditE ==
  /\ Audit("auditE", "retryEval", ids.verified)
  /\ ~passed \/ ~StageAudit(Updated(files, verdicts, status))

RetryEvaluation ==
  /\ pc = "retryEval" /\ from # "E" /\ attempt < MaxAttempts
  /\ Emit(Event("retry_started", "orchestrator", TRUE, ids.decision, attempt), "startD")
  /\ ids' = [ids EXCEPT !.retry = NewId]
  /\ UNCHANGED <<disk, page, control, cause, fresh>> /\ Same

\* complete_run(): the page is written before run_completed, and not again.
CompleteRun ==
  /\ pc = "converge"
  /\ page' = Updated(files, verdicts, status) /\ Converged(page')
  /\ Emit(Event("run_completed", "orchestrator", FALSE, ids.completed, attempt), "completed")
  /\ UNCHANGED <<disk, control, ids, cause, fresh>> /\ Same

\* run_failed is to name the PASS verdict as its parent.
NotConverged ==
  /\ Go("converge", "failing")
  /\ page' = Updated(files, verdicts, status) /\ ~Converged(page')
  /\ cause' = ids.decision
  /\ UNCHANGED <<disk, control, ids, fresh>>

----------------------------------------------------------------------------
Prompting ==
  \/ RenderPrompt \/ RefusePrompt \/ InvokeAgent \/ AgentSucceeds \/ AgentFails
  \/ VersionMatches \/ VersionDiffers \/ VersionUnreadable
  \/ EvidenceHolds \/ EvidenceFails \/ OutputsVerified \/ OutputsRefused

Specifying ==
  \/ StartA \/ AuditA \/ HumanContinues
  \/ BCInputMissing \/ StartBC \/ TurnBCPasses \/ TurnBCFails \/ TurnBCLingers \/ TurnBCEnds
  \/ AuditBC \/ PlanMissing

Building ==
  \/ DInputMissing \/ StartD \/ BeginAttempt
  \/ ReviewPasses \/ ReviewRetries \/ ReviewEscalates \/ ReviewUnreadable
  \/ Escalate \/ RetryReview \/ CompleteD \/ AuditDFails

Evaluating ==
  \/ EInputMissing \/ StartE \/ HashInputs \/ EvaluationPasses \/ EvaluationFails
  \/ CompleteE \/ AuditE \/ RetryEvaluation \/ CompleteRun \/ NotConverged

\* What the process does, its agents and the human at its terminal included.
Step ==
  \/ PreflightPasses \/ PreflightFails \/ FailRun \/ Prepare
  \/ Prompting \/ Specifying \/ Building \/ Evaluating

Next == Step \/ Launch \/ Kill

\* A process that is not killed goes on; agents end, by their timeout at the
\* latest, and a human who was asked for comes.
Spec == Init /\ [][Next]_vars /\ WF_vars(Step)

----------------------------------------------------------------------------
(* Properties *)

DiskTypes ==
  /\ files \in [Groups -> {Missing, Partial} \cup 0 .. run]
  /\ evidence \in [Witnesses -> [run : 0 .. run, attempt : 0 .. MaxAttempts]]
  /\ verdicts \in [review : Verdicts.review, evaluation : Verdicts.evaluation]

PageTypes ==
  page \in [managed : BOOLEAN, run : 0 .. run, state : States, done : SUBSET TurnNames,
            label : Verdicts.evaluation \cup {"PENDING"}]

RunTypes ==
  /\ launches \in Launches /\ mode \in Modes
  /\ past \in Seq([state : States, derivable : BOOLEAN, root : Nat])
  /\ run \in 0 .. Len(launches) /\ Len(past) = IF run = 0 THEN 0 ELSE run - 1
  /\ lineage \subseteq 1 .. Len(past)

LogTypes ==
  /\ log \in Seq(PipelineEvents) /\ (run > 0 => Len(log) > 0)
  /\ status \in [state : States, attempt : 0 .. MaxAttempts, worker : {"unknown", "alive", "exited"}]
  /\ ids \in [IdNames -> 0 .. Len(log)] /\ cause \in 0 .. Len(log)

ControlTypes ==
  /\ pc \in Ended \cup Alive
  /\ prompt \in Prompts \cup {"none"}
  /\ attempt \in 0 .. MaxAttempts
  /\ passed \in BOOLEAN /\ fresh \in BOOLEAN

TypeOK == DiskTypes /\ PageTypes /\ RunTypes /\ LogTypes /\ ControlTypes

\* A run ends for want of attempts only when it has had them all: three, but
\* two from Turn A, because run_turn_a() sets attempt to 1 and run_turn_d()
\* counts on from there.
BudgetSpent ==
  (pc = "aborted" /\ status.state = "escalated" /\ from # "E" /\ verdicts.review # "ESCALATE") =>
    Cardinality({log[i].attempt : i \in {j \in DOMAIN log : log[j].type = "review_verdict_recorded"}})
      = IF from = "A" THEN MaxAttempts - 1 ELSE MaxAttempts

\* The log is legal and without a terminal event, and status.json says so.
Ongoing ==
  /\ Projectable(log) /\ \A i \in DOMAIN log : log[i].type \notin TerminalTypes
  /\ status.state \in {"running", "retrying"}

\* What a failure in Turn B/C leaves, until its threads have ended or for good: a log
\* that has an end or is illegal, before any judge has spoken, and a status.json that
\* shows the failure or is older.
FailedInBC ==
  /\ (\E i \in DOMAIN log : log[i].type = "run_failed") \/ ~Projectable(log)
  /\ \A i \in DOMAIN log : log[i].type \notin {"review_verdict_recorded", "evaluation_verdict_recorded"}
  /\ status.state \in {"failed", "running", "retrying"}

\* How a run can end, and what its files then say.  The files of a process that lives
\* say that it does, unless one of the threads of Turn B/C has failed and the other has not
\* ended; and so do those of a process that was killed.  PipelineAbort means failed or
\* escalated, but for the checkpoint without a terminal, and for a failure in Turn B/C whose
\* log became illegal: status.json may then say "running" for good.  Any other exception
\* leaves a log that is illegal, or one that has no end.  An escalation for want of
\* attempts has used the budget up.
RunOutcome ==
  /\ pc \in Going => Ongoing
  /\ pc = "unwindBC" => FailedInBC
  /\ pc = "killed" => Ongoing \/ FailedInBC
  /\ pc = "completed" => Projectable(log) /\ status.state = "passed"
  /\ pc = "aborted" =>
       \/ status.state \in {"failed", "escalated"} \/ mode = "headless"
       \/ FailedInBC /\ ~Projectable(log)
  /\ pc = "crashed" /\ status.state \in TerminalStates => ~Projectable(log)
  /\ BudgetSpent

\* The verdict events of this role, for or against the current attempt.
Verdict(role, failed) ==
  {i \in DOMAIN log : /\ log[i].type \in {"review_verdict_recorded", "evaluation_verdict_recorded"}
                      /\ log[i].role = role /\ log[i].failed = failed /\ log[i].attempt = attempt}

\* A run that has passed has earned it: the evaluator approved its last
\* attempt, after the reviewer had if it was built in this run; nothing of the
\* stages it was to make is left over from another run; and every evidence
\* file is about this run and this attempt.
CompletionEarned ==
  pc = "completed" =>
    /\ Verdict("evaluator", FALSE) # {}
    /\ from # "E" => Verdict("reviewer", FALSE) # {}
    /\ verdicts.evaluation = "PASS"
    /\ \A g \in ToInvalidate : files[g] = run
    /\ \A w \in Witnesses : evidence[w] \in {NoEvidence, [run |-> run, attempt |-> attempt]}

\* What the page says of the run it names is true: every stage it calls done
\* is complete, and PASS is the verdict of the report.
PageTruthful ==
  run > 0 /\ page.run = run =>
    /\ \A g \in Groups : StageOf[g] \in page.done => g \in Complete(files)
    /\ page.label = "PASS" => verdicts.evaluation = "PASS"

\* A run ends, unless it is killed: every retry uses the budget up, and no
\* failure leaves it waiting.
RunEnds == pc \in Alive ~> pc \in Ended

\* The runs keep the promise of BuildLoop.
Tries == IF run = 0 \/ from = "E" THEN 0 ELSE IF from = "A" /\ attempt > 0 THEN attempt - 1 ELSE attempt
Approvals == {w \in {"reviewer", "evaluator"} : Verdict(w, FALSE) # {}}
SentBack == \E w \in {"reviewer", "evaluator"} : Verdict(w, TRUE) # {}
Outcome == CASE pc \in Alive -> "open"
             [] pc = "completed" -> "accepted"
             [] pc = "aborted" /\ status.state = "escalated" -> "refused"
             [] OTHER -> "lost"

Loop == INSTANCE BuildLoop WITH Budget <- MaxAttempts, tries <- Tries, approvals <- Approvals,
                                sentBack <- SentBack, outcome <- Outcome
KeepsLoop == Loop!Spec

=============================================================================
