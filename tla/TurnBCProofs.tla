---------------------------- MODULE TurnBCProofs ----------------------------
(***************************************************************************)
(* What holds of Turn B/C for every choice of bounds: types, what          *)
(* status.json may show, how the run can end, and which results pass.      *)
(***************************************************************************)
EXTENDS TurnBC, SequenceTheorems, TLAPS

----------------------------------------------------------------------------
(* The inductive invariant *)

\* An event of this type of turn t is in the log, or about to be.
Logged(t, type) == \E i \in DOMAIN log : log[i].type = type /\ log[i].role = RoleOf(t)

Appending(p, t, type) ==
  stage[p] = "append" /\ pending[p].type = type /\ pending[p].role = RoleOf(t)

Due(t, type) == Logged(t, type) \/ Appending(t, t, type)

\* Nothing refers to an event that is not in the log.
ParentsLogged ==
  /\ \A i \in DOMAIN log : log[i].parent <= Len(log)
  /\ \A p \in Processes : pending[p].parent <= Len(log)

\* Where a thread stands tells which of its events are in the log.
TrailOf(t) ==
  /\ pc["main"] = Submit(t) => Logged(t, "turn_started") \/ Appending("main", t, "turn_started")
  /\ pc[t] = "dispatch" => Logged(t, "turn_started")
  /\ pc[t] \in {"refused", "invoke", "wait", "report", "report2", "check", "fail"} =>
       Due(t, "prompt_rendered")
  /\ pc[t] = "wait" => Due(t, "agent_invoked")
  /\ pc[t] \in {"report", "report2"} =>
       /\ result[t] # "none"
       /\ Due(t, IF result[t] = "timeout" THEN "timeout_triggered" ELSE "agent_exited")
  /\ pc[t] \in {"verified", "unverified"} => Due(t, "output_verified")

Trail == \A t \in Turns : TrailOf(t)

\* A thread is submitted once, and emits nothing before.
Unsubmitted ==
  /\ \A t \in Turns : pc[t] = "unsubmitted" => stage[t] = "idle"
  /\ pc["main"] \in {"startB", "submitB"} => pc["B"] = "unsubmitted"
  /\ pc["main"] \in {"startB", "submitB", "startC", "submitC"} => pc["C"] = "unsubmitted"

\* An illegal log is known to a process that crashed, or will be to one that is
\* about to project it; such a one may append more before it does.
Legality ==
  /\ ~Projectable(log) => \E p \in Processes : stage[p] \in {"append", "project"} \/ pc[p] \in {"crashing", "crashed"}
  /\ \A p \in Processes : pc[p] \in {"crashing", "crashed"} => ~Projectable(log)

\* What is on its way to status.json.
Projections ==
  \A p \in Processes : stage[p] = "write" =>
    seen[p] \in 1 .. Len(log) /\ Projectable(SubSeq(log, 1, seen[p]))

FailureLogged == \E i \in DOMAIN log : log[i].type = "run_failed"

\* Only a process that gives up records run_failed.
Failures ==
  /\ \A p \in Processes :
       /\ pc[p] \in {"aborting", "aborted"} =>
            FailureLogged \/ (stage[p] = "append" /\ pending[p].type = "run_failed")
       /\ stage[p] = "append" /\ pending[p].type = "run_failed" => pc[p] \in {"aborting", "aborted"}
  /\ FailureLogged => \E p \in Processes : pc[p] \in {"aborting", "aborted", "crashing", "crashed"}

\* Past the join both threads are done, or Turn C alone.
Joined ==
  /\ pc["main"] \in {"audit", "passed"} =>
       /\ pc["B"] \in {"done", "unsubmitted"} /\ pc["C"] = "done"
       /\ \A p \in Processes : stage[p] = "idle"
  /\ pc["main"] \in {"aborted", "crashed"} => stage["main"] = "idle"

Success == \E t \in Turns : result[t] = "succeeded"

\* lastFailure is empty only if some agent succeeded, once a thread has
\* reported; a thread that timed out does not go on.
Judged ==
  \A t \in Turns :
    /\ result[t] = "timeout" => pc[t] \in {"report", "report2", "check", "fail", "aborted", "crashed"}
    /\ pc[t] \in {"unsubmitted", "dispatch", "invoke", "wait"} => result[t] = "none"
    /\ pc[t] = "check" => lastFailure # 0 \/ Success
    /\ pc[t] \in {"verify", "verified", "unverified", "done"} => Success

----------------------------------------------------------------------------
(* Types *)

\* The types of events named in this module are among EVENT_TYPES.
LEMMA TypeNames ==
  {"run_started", "preflight_passed", "turn_started", "prompt_rendered", "agent_invoked",
   "agent_liveness_observed", "agent_exited", "timeout_triggered", "output_verified",
   "run_failed"} \subseteq EVENT_TYPES
BY DEF EVENT_TYPES, PARENT_RULES

\* An event that is in the log is found there.
LEMMA OwnLogged ==
  ASSUME NEW t, NEW type, Logged(t, type)
  PROVE  /\ Own(t, type) \in DOMAIN log
         /\ log[Own(t, type)].type = type
BY DEF Own, Logged

\* A thread finds each event that it names as a parent.
LEMMA Found ==
  ASSUME TypeOK, NEW t, NEW type, Logged(t, type)
  PROVE  Own(t, type) \in 1 .. Len(log)
<1>1. DOMAIN log = 1 .. Len(log)
  BY LenProperties DEF TypeOK
<1> QED
  BY <1>1, OwnLogged

\* What Append does to the log.
LEMMA LogAppend ==
  ASSUME NEW l \in Seq(Events), NEW e \in Events
  PROVE  /\ Append(l, e) \in Seq(Events)
         /\ Len(l) \in Nat
         /\ DOMAIN l = 1 .. Len(l)
         /\ Len(Append(l, e)) = Len(l) + 1
         /\ DOMAIN Append(l, e) = 1 .. Len(l) + 1
         /\ \A i \in 1 .. Len(l) : Append(l, e)[i] = l[i]
         /\ Append(l, e)[Len(l) + 1] = e
BY AppendProperties, LenProperties

\* An event built by the code has the fields of an event.
LEMMA EventType ==
  ASSUME TypeOK, NEW p \in Processes, NEW type \in EVENT_TYPES, NEW failed \in BOOLEAN,
         NEW parent \in Nat
  PROVE  /\ RoleOf(p) \in Roles
         /\ "orchestrator" \in Roles
         /\ Event(type, RoleOf(p), failed, parent) \in Events
         /\ Event(type, "orchestrator", failed, parent) \in Events
<1>1. clock \in Nat
  BY TurnBCAssumption DEF TypeOK
<1>2. RoleOf(p) \in Roles /\ "orchestrator" \in Roles
  BY TurnBCAssumption DEF RoleOf
<1> QED
  BY <1>1, <1>2 DEF Event, Events

\* An emission keeps types and parents when its event and its caller do.
LEMMA EmitTypes ==
  ASSUME TypeOK, ParentsLogged,
         NEW p \in Processes, NEW at, NEW event \in Events, NEW next \in Places,
         event.parent <= Len(log),
         Emit(p, at, event, next),
         polls' \in [Turns -> 0 .. MaxPolls[from]],
         result' \in [Turns -> {"none", "succeeded", "failed", "timeout"}]
  PROVE  TypeOK' /\ ParentsLogged'
<1> USE DEF Emit, shared
<1>1. TypeOK'
  BY DEF TypeOK
<1>2. \A q \in Processes : pending'[q] = pending[q] \/ pending'[q] = event
  BY DEF TypeOK
<1>3. ParentsLogged'
  BY <1>2 DEF ParentsLogged
<1> QED
  BY <1>1, <1>3

\* The same of a step outside of emissions.
LEMMA StepTypes ==
  ASSUME TypeOK, ParentsLogged, NEW p \in Processes, NEW at, NEW next \in Places,
         Step(p, at, next),
         {lastExit', lastFailure', lastVerified'} \subseteq 0 .. Len(log)
  PROVE  TypeOK' /\ ParentsLogged'
<1> USE DEF Step, emission
<1>1. TypeOK'
  BY DEF TypeOK
<1>2. ParentsLogged'
  BY DEF ParentsLogged
<1> QED
  BY <1>1, <1>2

\* The initial state has the types.
LEMMA InitTypes ==
  ASSUME Init
  PROVE  TypeOK /\ ParentsLogged
<1>1. NoEvent \in Events
  BY TurnBCAssumption, TypeNames DEF NoEvent, Events
<1>2. [NoEvent EXCEPT !.type = "preflight_passed", !.parent = RunStarted] \in Events
  BY TurnBCAssumption, TypeNames DEF NoEvent, Events, RunStarted
<1>3. log \in Seq(Events) /\ Len(log) = 2
  BY <1>1, <1>2 DEF Init
<1>4. MaxTime[from] \in Nat /\ MaxPolls[from] \in Nat
  BY TurnBCAssumption DEF Init
<1>5. TypeOK
  <2>1. pc \in [Processes -> Places]
    <3> DEFINE f(p) == IF p # "main" THEN "unsubmitted"
                       ELSE IF from = "C" THEN "startC" ELSE "startB"
    <3>1. \A p : f(p) \in Places
      BY DEF Places
    <3>2. pc = [p \in Processes |-> f(p)]
      BY DEF Init
    <3> HIDE DEF f
    <3> QED
      BY <3>1, <3>2
  <2>2. /\ stage \in [Processes -> {"idle", "append", "project", "write"}]
        /\ pending \in [Processes -> Events]
        /\ seen \in [Processes -> 0 .. Len(log)]
        /\ polls \in [Turns -> 0 .. MaxPolls[from]]
        /\ result \in [Turns -> {"none", "succeeded", "failed", "timeout"}]
    BY <1>1, <1>3, <1>4 DEF Init
  <2>3. /\ from \in FromTurns /\ status \in 1 .. Len(log) /\ clock \in 0 .. MaxTime[from]
        /\ {lastExit, lastFailure, lastVerified} \subseteq 0 .. Len(log)
    BY <1>3, <1>4 DEF Init
  <2> QED
    BY <1>3, <2>1, <2>2, <2>3 DEF TypeOK
<1>6. ParentsLogged
  <2>1. DOMAIN log = 1 .. 2
    BY <1>3, LenProperties
  <2>2. log[1].parent = 0 /\ log[2].parent = 1
    BY DEF Init, NoEvent, RunStarted
  <2>3. \A p \in Processes : pending[p].parent = 0
    BY DEF Init, NoEvent
  <2> QED
    BY <1>3, <2>1, <2>2, <2>3 DEF ParentsLogged
<1> QED
  BY <1>5, <1>6

\* A further liveness event of a call goes the way of the first.
LEMMA RecordFrame ==
  ASSUME TypeOK, NEW p \in Processes, NextRecord(p)
  PROVE  /\ p \in Turns /\ stage[p] = "project" /\ stage'[p] = "append"
         /\ pending'[p] \in Events /\ pending'[p].parent = pending[p].parent
         /\ pending'[p].type = "agent_liveness_observed"
         /\ \A q \in Processes \ {p} : stage'[q] = stage[q] /\ pending'[q] = pending[q]
         /\ log' = log /\ status' = status /\ seen' = seen /\ pc' = pc /\ result' = result
         /\ UNCHANGED shared
         /\ TypeOK'
<1>0. clock \in Nat /\ p \in Turns
  BY TurnBCAssumption DEF TypeOK, NextRecord
<1>1. pending[p] \in Events /\ pending[p].type = "agent_liveness_observed"
  BY DEF TypeOK, NextRecord
<1>2. PICK ts \in pending[p].ts .. clock : pending' = [pending EXCEPT ![p].ts = ts]
  BY DEF NextRecord
<1>3. ts \in Nat
  BY <1>0, <1>1, <1>2 DEF Events
<1>4. [pending[p] EXCEPT !.ts = ts] \in Events
  BY <1>1, <1>3 DEF Events
<1>5. pending' = [pending EXCEPT ![p] = [pending[p] EXCEPT !.ts = ts]]
  BY <1>2 DEF TypeOK
<1>6. pending' \in [Processes -> Events]
  BY <1>4, <1>5 DEF TypeOK
<1>7. /\ pending'[p] = [pending[p] EXCEPT !.ts = ts]
      /\ \A q \in Processes \ {p} : pending'[q] = pending[q]
  BY <1>5 DEF TypeOK
<1>8. /\ pending'[p].parent = pending[p].parent
      /\ pending'[p].type = "agent_liveness_observed" /\ pending'[p] \in Events
  BY <1>1, <1>4, <1>7 DEF Events
<1>9. polls' \in [Turns -> 0 .. MaxPolls[from]]
  <2>1. MaxPolls[from] \in Nat
    BY TurnBCAssumption DEF TypeOK
  <2> QED
    BY <1>0, <2>1 DEF NextRecord, TypeOK
<1>10. /\ stage' = [stage EXCEPT ![p] = "append"] /\ stage[p] = "project"
       /\ log' = log /\ status' = status /\ seen' = seen /\ pc' = pc /\ result' = result
       /\ from' = from /\ clock' = clock
       /\ UNCHANGED shared
  BY DEF NextRecord
<1>11. TypeOK'
  BY <1>6, <1>9, <1>10 DEF TypeOK, shared
<1> QED
  BY <1>0, <1>7, <1>8, <1>10, <1>11 DEF TypeOK

\* The steps of an emission keep the types.
LEMMA EmissionTypes ==
  ASSUME TypeOK, ParentsLogged, Projections, NEW p \in Processes, Emission(p)
  PROVE  TypeOK' /\ ParentsLogged'
<1>0. /\ Len(log) \in Nat /\ DOMAIN log = 1 .. Len(log)
      /\ NoEvent \in Events /\ NoEvent.parent = 0
  BY TurnBCAssumption, TypeNames, LenProperties DEF NoEvent, Events, TypeOK
<1>1. CASE AppendEvent(p)
  <2> DEFINE e == pending[p]
  <2>1. e \in Events /\ e.parent <= Len(log) /\ e.parent \in Nat
    BY DEF TypeOK, ParentsLogged, Events
  <2>2. log' = Append(log, e)
    BY <1>1 DEF AppendEvent
  <2>3. /\ log' \in Seq(Events)
        /\ Len(log') = Len(log) + 1
        /\ DOMAIN log' = 1 .. Len(log) + 1
        /\ \A i \in 1 .. Len(log) : log'[i] = log[i]
        /\ log'[Len(log) + 1] = e
    BY <2>1, <2>2, LogAppend DEF TypeOK
  <2>4. TypeOK'
    BY <1>0, <1>1, <2>3 DEF AppendEvent, TypeOK, shared
  <2>5. ParentsLogged'
    <3>1. \A i \in DOMAIN log' : log'[i].parent <= Len(log')
      <4> SUFFICES ASSUME NEW i \in DOMAIN log' PROVE log'[i].parent <= Len(log')
        OBVIOUS
      <4>1. CASE i = Len(log) + 1
        BY <4>1, <1>0, <2>1, <2>3
      <4>2. CASE i \in 1 .. Len(log)
        <5>1. log[i] \in Events /\ log[i].parent <= Len(log)
          BY <4>2, <1>0 DEF TypeOK, ParentsLogged
        <5> QED
          BY <4>2, <5>1, <1>0, <2>3 DEF Events
      <4> QED
        BY <4>1, <4>2, <1>0, <2>3
    <3>2. \A q \in Processes : pending'[q].parent <= Len(log')
      <4> SUFFICES ASSUME NEW q \in Processes PROVE pending'[q].parent <= Len(log')
        OBVIOUS
      <4>1. pending'[q] = pending[q] /\ pending[q] \in Events /\ pending[q].parent <= Len(log)
        BY <1>1 DEF AppendEvent, TypeOK, ParentsLogged
      <4> QED
        BY <4>1, <1>0, <2>3 DEF Events
    <3> QED
      BY <3>1, <3>2 DEF ParentsLogged
  <2> QED
    BY <2>4, <2>5
<1>2. CASE Project(p)
  BY <1>0, <1>2 DEF Project, TypeOK, ParentsLogged, shared
<1>3. CASE ProjectRaises(p)
  <2> DEFINE next == IF p = "main" THEN "crashing" ELSE "crashed"
  <2>0. next \in Places /\ pc' = [pc EXCEPT ![p] = next]
    BY <1>3 DEF ProjectRaises, Places
  <2> HIDE DEF next
  <2>1. TypeOK'
    <3>1. pc' \in [Processes -> Places]
      BY <2>0 DEF TypeOK
    <3>2. /\ stage' \in [Processes -> {"idle", "append", "project", "write"}]
          /\ pending' \in [Processes -> Events]
          /\ seen' \in [Processes -> 0 .. Len(log)]
      BY <1>0, <1>3 DEF ProjectRaises, TypeOK
    <3> QED
      BY <1>3, <3>1, <3>2 DEF ProjectRaises, TypeOK, shared
  <2>2. ParentsLogged'
    BY <1>0, <1>3 DEF ProjectRaises, TypeOK, ParentsLogged
  <2> QED
    BY <2>1, <2>2
<1>4. CASE WriteStatus(p)
  <2>1. seen[p] \in 1 .. Len(log)
    BY <1>4 DEF WriteStatus, Projections
  <2>2. TypeOK'
    BY <1>0, <1>4, <2>1 DEF WriteStatus, TypeOK, shared
  <2>3. ParentsLogged'
    BY <1>0, <1>4 DEF WriteStatus, TypeOK, ParentsLogged
  <2> QED
    BY <2>2, <2>3
<1>5. CASE NextRecord(p)
  <2>1. /\ TypeOK' /\ log' = log /\ pending'[p].parent = pending[p].parent
        /\ \A q \in Processes \ {p} : pending'[q] = pending[q]
    BY <1>5, RecordFrame
  <2>2. ParentsLogged'
    BY <2>1 DEF ParentsLogged
  <2> QED
    BY <2>1, <2>2
<1> QED
  BY <1>1, <1>2, <1>3, <1>4, <1>5 DEF Emission

\* A thread refers to events that it has appended, and to the shared fields.
LEMMA ThreadTypes ==
  ASSUME TypeOK, ParentsLogged, Trail, NEW t \in Turns, Thread(t)
  PROVE  TypeOK' /\ ParentsLogged'
<1> USE DEF Trail, TrailOf
<1>0. t \in Processes /\ Len(log) \in Nat
  BY LenProperties DEF Processes, TypeOK
<1>1. ASSUME NEW type, stage[t] = "idle", Due(t, type)
      PROVE  Own(t, type) \in 1 .. Len(log)
  BY <1>1, Found DEF Due, Appending
<1>2. ASSUME NEW at, NEW next \in Places, NEW type \in EVENT_TYPES, NEW failed \in BOOLEAN,
             NEW parent \in 0 .. Len(log),
             Emit(t, at, Event(type, RoleOf(t), failed, parent), next),
             polls' \in [Turns -> 0 .. MaxPolls[from]],
             result' \in [Turns -> {"none", "succeeded", "failed", "timeout"}]
      PROVE  TypeOK' /\ ParentsLogged'
  <2> DEFINE e == Event(type, RoleOf(t), failed, parent)
  <2>1. e \in Events
    BY <1>0, <1>2, EventType
  <2>2. e.parent = parent
    BY DEF Event
  <2>3. e.parent <= Len(log)
    BY <2>2, <1>0, <1>2
  <2> QED
    BY <1>0, <1>2, <2>1, <2>3, EmitTypes
<1>f. ASSUME NEW at, NEW next \in Places, NEW parent \in 0 .. Len(log),
              Emit(t, at, Event("run_failed", "orchestrator", TRUE, parent), next),
              UNCHANGED <<polls, result>>
       PROVE  TypeOK' /\ ParentsLogged'
  <2> DEFINE e == Event("run_failed", "orchestrator", TRUE, parent)
  <2>0. "run_failed" \in EVENT_TYPES /\ TRUE \in BOOLEAN /\ parent \in Nat
    BY <1>0, TypeNames
  <2>1. e \in Events
    BY <1>0, <2>0, EventType
  <2>2. e.parent <= Len(log)
    BY <1>0 DEF Event
  <2>3. /\ polls' \in [Turns -> 0 .. MaxPolls[from]]
        /\ result' \in [Turns -> {"none", "succeeded", "failed", "timeout"}]
    BY <1>f DEF TypeOK
  <2> QED
    BY <1>0, <1>f, <2>1, <2>2, <2>3, EmitTypes
<1>3. ASSUME NEW r \in {"succeeded", "failed", "timeout"}, result' = [result EXCEPT ![t] = r]
      PROVE  result' \in [Turns -> {"none", "succeeded", "failed", "timeout"}]
  BY <1>3 DEF TypeOK
<1>4. /\ polls \in [Turns -> 0 .. MaxPolls[from]]
      /\ result \in [Turns -> {"none", "succeeded", "failed", "timeout"}]
      /\ {lastExit, lastFailure, lastVerified} \subseteq 0 .. Len(log)
  BY DEF TypeOK
<1>5. Own(t, "turn_started") \in 0 .. Len(log) \/ ~At(t, "dispatch")
  BY <1>1 DEF At, Due
<1>6. Own(t, "prompt_rendered") \in 0 .. Len(log)
      \/ ~(At(t, "refused") \/ At(t, "invoke") \/ At(t, "fail"))
  BY <1>1 DEF At
<1>7. Own(t, "agent_invoked") \in 1 .. Len(log) \/ ~At(t, "wait")
  BY <1>1 DEF At
<1>8. Own(t, "output_verified") \in 0 .. Len(log)
      \/ ~(At(t, "unverified") \/ At(t, "verified"))
  BY <1>1 DEF At
<1>9. CASE RenderPrompt(t)
  BY <1>2, <1>4, <1>5, <1>9, TypeNames DEF RenderPrompt, Places, Emit
<1>10. CASE RefusePrompt(t)
  BY <1>2, <1>4, <1>5, <1>10, TypeNames DEF RefusePrompt, Places, Emit
<1>11. CASE FailRefused(t)
  BY <1>f, <1>6, <1>11 DEF FailRefused, Places, Emit
<1>12. CASE InvokeAgent(t)
  BY <1>2, <1>4, <1>6, <1>12, TypeNames DEF InvokeAgent, Places, Emit
<1>13. CASE PollLiveness(t)
  <2> DEFINE e0 == Event("agent_liveness_observed", RoleOf(t), FALSE, Own(t, "agent_invoked"))
  <2>1. PICK ts \in log[Own(t, "agent_invoked")].ts .. clock :
          Emit(t, "wait", [e0 EXCEPT !.ts = ts], "wait")
    BY <1>13 DEF PollLiveness
  <2>2. Own(t, "agent_invoked") \in 1 .. Len(log)
    BY <1>7, <1>13 DEF PollLiveness
  <2>3. log[Own(t, "agent_invoked")].ts \in Nat
    <3>1. log[Own(t, "agent_invoked")] \in Events
      BY <2>2, LenProperties DEF TypeOK
    <3> QED
      BY <3>1 DEF Events
  <2>4. ts \in Nat
    BY <2>3, TurnBCAssumption DEF TypeOK
  <2>5. e0 \in Events /\ e0.parent = Own(t, "agent_invoked")
    <3>1. Own(t, "agent_invoked") \in Nat /\ "agent_liveness_observed" \in EVENT_TYPES
      BY <1>0, <2>2, TypeNames
    <3>2. e0 \in Events
      BY <1>0, <3>1, EventType
    <3> QED
      BY <3>2 DEF Event
  <2> DEFINE e == [e0 EXCEPT !.ts = ts]
  <2>6. e \in Events /\ e.parent <= Len(log)
    <3> HIDE DEF e0
    <3> QED
      BY <1>0, <2>2, <2>4, <2>5 DEF Events
  <2>7. polls' \in [Turns -> 0 .. MaxPolls[from]]
    <3>1. MaxPolls[from] \in Nat
      BY TurnBCAssumption DEF TypeOK
    <3> QED
      BY <1>4, <1>13, <3>1 DEF PollLiveness
  <2>8. result' = result
    BY <1>13 DEF PollLiveness
  <2>9. "wait" \in Places
    BY DEF Places
  <2> QED
    BY <1>0, <1>4, <2>1, <2>6, <2>7, <2>8, <2>9, EmitTypes
<1>14. CASE AgentSucceeds(t)
  <2>1. result' \in [Turns -> {"none", "succeeded", "failed", "timeout"}] /\ polls' = polls
    BY <1>3, <1>14 DEF AgentSucceeds
  <2>2. Own(t, "agent_invoked") \in 0 .. Len(log)
    BY <1>0, <1>7, <1>14 DEF AgentSucceeds, Emit
  <2> QED
    BY <1>2, <1>4, <1>14, <2>1, <2>2, TypeNames DEF AgentSucceeds, Places
<1>15. CASE AgentFails(t)
  <2>1. result' \in [Turns -> {"none", "succeeded", "failed", "timeout"}] /\ polls' = polls
    BY <1>3, <1>15 DEF AgentFails
  <2>2. Own(t, "agent_invoked") \in 0 .. Len(log)
    BY <1>0, <1>7, <1>15 DEF AgentFails, Emit
  <2> QED
    BY <1>2, <1>4, <1>15, <2>1, <2>2, TypeNames DEF AgentFails, Places
<1>16. CASE AgentTimesOut(t)
  <2>1. result' \in [Turns -> {"none", "succeeded", "failed", "timeout"}] /\ polls' = polls
    BY <1>3, <1>16 DEF AgentTimesOut
  <2>2. Own(t, "agent_invoked") \in 0 .. Len(log)
    BY <1>0, <1>7, <1>16 DEF AgentTimesOut, Emit
  <2> QED
    BY <1>2, <1>4, <1>16, <2>1, <2>2, TypeNames DEF AgentTimesOut, Places
<1>17. CASE ReportExit(t)
  <2>1. lastExit' \in 0 .. Len(log)
    BY <1>0, <1>1, <1>17 DEF ReportExit, Step, At
  <2> QED
    BY <1>0, <1>4, <1>17, <2>1, StepTypes DEF ReportExit, Places
<1>18. CASE ReportFailure(t)
  <2>1. lastFailure' \in 0 .. Len(log)
    <3>1. result[t] \in {"succeeded", "failed", "timeout"}
      BY <1>4, <1>18 DEF ReportFailure, Step, At
    <3> QED
      BY <1>0, <1>1, <1>18, <3>1 DEF ReportFailure, Step, At
  <2> QED
    BY <1>0, <1>4, <1>18, <2>1, StepTypes DEF ReportFailure, Places
<1>19. CASE CheckInvocation(t)
  BY <1>0, <1>4, <1>19, StepTypes DEF CheckInvocation, Places, shared
<1>20. CASE FailInvocation(t)
  <2> DEFINE parent == IF lastFailure # 0 THEN lastFailure ELSE Own(t, "prompt_rendered")
  <2>1. parent \in 0 .. Len(log)
    BY <1>4, <1>6, <1>20 DEF FailInvocation, Emit
  <2> HIDE DEF parent
  <2>2. Emit(t, "fail", Event("run_failed", "orchestrator", TRUE, parent), "aborted")
    BY <1>20 DEF FailInvocation, parent
  <2> QED
    BY <1>f, <1>20, <2>1, <2>2 DEF FailInvocation, Places
<1>21. CASE OutputsVerified(t)
  BY <1>2, <1>4, <1>21, TypeNames DEF OutputsVerified, Places
<1>22. CASE OutputsRefused(t)
  BY <1>2, <1>4, <1>22, TypeNames DEF OutputsRefused, Places
<1>23. CASE FailUnverified(t)
  BY <1>f, <1>8, <1>23 DEF FailUnverified, Places, Emit
<1>24. CASE RecordVerified(t)
  BY <1>0, <1>4, <1>8, <1>24, StepTypes DEF RecordVerified, Places, Step
<1> QED
  BY <1>9, <1>10, <1>11, <1>12, <1>13, <1>14, <1>15, <1>16, <1>17, <1>18, <1>19, <1>20,
     <1>21, <1>22, <1>23, <1>24 DEF Thread

\* The same of the main thread.
LEMMA MainTypes ==
  ASSUME TypeOK, ParentsLogged, Main
  PROVE  TypeOK' /\ ParentsLogged'
<1>0. /\ "main" \in Processes /\ Turns \subseteq Processes /\ Len(log) \in Nat
      /\ polls \in [Turns -> 0 .. MaxPolls[from]]
      /\ result \in [Turns -> {"none", "succeeded", "failed", "timeout"}]
      /\ {lastExit, lastFailure, lastVerified} \subseteq 0 .. Len(log)
      /\ RunStarted \in 0 .. Len(log)
  BY LenProperties DEF Processes, TypeOK, RunStarted
<1>1. ASSUME NEW at, NEW next \in Places, NEW type \in EVENT_TYPES, NEW failed \in BOOLEAN,
             NEW parent \in 0 .. Len(log), NEW p \in Processes,
             \/ Emit("main", at, Event(type, RoleOf(p), failed, parent), next)
             \/ Emit("main", at, Event(type, "orchestrator", failed, parent), next),
             polls' = polls, result' = result
      PROVE  TypeOK' /\ ParentsLogged'
  <2> DEFINE d == Event(type, RoleOf(p), failed, parent)
             e == Event(type, "orchestrator", failed, parent)
  <2>1. d \in Events /\ e \in Events
    BY <1>0, <1>1, EventType
  <2>2. d.parent = parent /\ e.parent = parent
    BY DEF Event
  <2>3. d.parent <= Len(log) /\ e.parent <= Len(log)
    BY <2>2, <1>0, <1>1
  <2> HIDE DEF d, e
  <2>4. Emit("main", at, d, next) \/ Emit("main", at, e, next)
    BY <1>1 DEF d, e
  <2> QED
    BY <1>0, <1>1, <2>1, <2>3, <2>4, EmitTypes
<1>2. ASSUME NEW at, NEW next \in Places, Step("main", at, next), UNCHANGED shared
      PROVE  TypeOK' /\ ParentsLogged'
  BY <1>0, <1>2, StepTypes DEF shared
<1>3. ASSUME NEW t \in Turns, InputsMissing(t)
      PROVE  TypeOK' /\ ParentsLogged'
  BY <1>0, <1>1, <1>3, TypeNames DEF InputsMissing, Places
<1>4. ASSUME NEW t \in Turns, StartTurn(t)
      PROVE  TypeOK' /\ ParentsLogged'
  <2>1. Submit(t) \in Places
    BY DEF Submit, Places
  <2> QED
    BY <1>0, <1>1, <1>4, <2>1, TypeNames DEF StartTurn
<1>5. ASSUME NEW t \in Turns, SubmitTurn(t)
      PROVE  TypeOK' /\ ParentsLogged'
  <2> DEFINE next == IF t = "B" THEN "startC" ELSE "join"
  <2>1. next \in Places /\ "dispatch" \in Places
    BY DEF Places
  <2>2. pc' = [pc EXCEPT !["main"] = next, ![t] = "dispatch"]
    BY <1>5 DEF SubmitTurn
  <2> HIDE DEF next
  <2>3. pc' \in [Processes -> Places]
    BY <2>1, <2>2 DEF TypeOK
  <2>4. TypeOK'
    BY <1>5, <2>3 DEF SubmitTurn, emission, shared, TypeOK
  <2>5. ParentsLogged'
    BY <1>5 DEF SubmitTurn, emission, ParentsLogged
  <2> QED
    BY <2>4, <2>5
<1>6. CASE Join
  <2> DEFINE next == IF Raised = "done" THEN "audit" ELSE Raised
  <2>1. next \in Places
    <3>1. Raised \in Places
      BY <1>0 DEF Raised, TypeOK, Turns
    <3> QED
      BY <3>1 DEF Places
  <2> HIDE DEF next
  <2>2. Step("main", "join", next) /\ UNCHANGED shared
    BY <1>6 DEF Join, next
  <2> QED
    BY <1>2, <2>1, <2>2
<1>7. CASE Unwind
  <2>1. \/ Step("main", "aborting", "aborted")
        \/ Step("main", "crashing", "crashed")
    BY <1>7 DEF Unwind
  <2> QED
    BY <1>2, <1>7, <2>1 DEF Unwind, Places
<1>8. CASE AuditPasses
  BY <1>2, <1>8 DEF AuditPasses, Places
<1>9. CASE AuditFails
  <2> DEFINE parent == IF lastVerified # 0 THEN lastVerified ELSE RunStarted
  <2>1. parent \in 0 .. Len(log)
    BY <1>0
  <2> HIDE DEF parent
  <2>2. Emit("main", "audit", Event("run_failed", "orchestrator", TRUE, parent), "aborting")
    BY <1>9 DEF AuditFails, parent
  <2> QED
    BY <1>0, <1>1, <1>9, <2>1, <2>2, TypeNames DEF AuditFails, Places
<1> QED
  BY <1>3, <1>4, <1>5, <1>6, <1>7, <1>8, <1>9 DEF Main

\* Every step keeps the types, and the parents in the log.
LEMMA NextTypes ==
  ASSUME TypeOK, ParentsLogged, Trail, Projections, [Next]_vars
  PROVE  TypeOK' /\ ParentsLogged'
<1>1. CASE Tick
  <2>1. MaxTime[from] \in Nat
    BY TurnBCAssumption DEF TypeOK
  <2>2. TypeOK'
    BY <1>1, <2>1 DEF Tick, emission, shared, TypeOK
  <2>3. ParentsLogged'
    BY <1>1 DEF Tick, emission, ParentsLogged
  <2> QED
    BY <2>2, <2>3
<1>2. CASE UNCHANGED vars
  <2>1. TypeOK'
    BY <1>2 DEF vars, TypeOK
  <2>2. ParentsLogged'
    BY <1>2 DEF vars, ParentsLogged
  <2> QED
    BY <2>1, <2>2
<1> QED
  BY <1>1, <1>2, EmissionTypes, ThreadTypes, MainTypes DEF Next

----------------------------------------------------------------------------
(* The trail of a thread *)

\* What is in the log stays there, and the appended event is in it.
LEMMA LoggedGrows ==
  ASSUME TypeOK, NEW p \in Processes, AppendEvent(p), NEW t, NEW type
  PROVE  /\ Logged(t, type) => Logged(t, type)'
         /\ Appending(p, t, type) => Logged(t, type)'
         /\ pending[p].type = type => \E i \in DOMAIN log' : log'[i].type = type
<1>1. log' = Append(log, pending[p]) /\ pending[p] \in Events
  BY DEF AppendEvent, TypeOK
<1>2. /\ Len(log) \in Nat
      /\ DOMAIN log = 1 .. Len(log)
      /\ DOMAIN log' = 1 .. Len(log) + 1
      /\ \A i \in 1 .. Len(log) : log'[i] = log[i]
      /\ log'[Len(log) + 1] = pending[p]
  BY <1>1, LogAppend DEF TypeOK
<1>3. RoleOf(t)' = RoleOf(t)
  BY DEF RoleOf
<1> QED
  BY <1>2, <1>3 DEF Logged, Appending

\* Only an append changes what is in the log.
LEMMA LoggedSame ==
  ASSUME log' = log, NEW t, NEW type
  PROVE  Logged(t, type)' <=> Logged(t, type)
BY DEF Logged, RoleOf

\* The trail survives the steps of emissions.
LEMMA EmissionTrail ==
  ASSUME TypeOK, Trail, NEW p \in Processes, Emission(p), NEW t \in Turns
  PROVE  TrailOf(t)'
<1>0. t \in Processes /\ "main" \in Processes /\ TrailOf(t)
  BY DEF Processes, Trail
<1>1. CASE AppendEvent(p)
  <2>1. /\ pc' = pc /\ pending' = pending /\ result' = result
        /\ stage' = [stage EXCEPT ![p] = "project"] /\ stage[p] = "append"
    BY <1>1 DEF AppendEvent
  <2>2. \A type : Due(t, type) => Due(t, type)'
    <3> SUFFICES ASSUME NEW type, Due(t, type) PROVE Due(t, type)'
      OBVIOUS
    <3>1. CASE Logged(t, type)
      BY <1>1, <3>1, LoggedGrows DEF Due
    <3>2. CASE Appending(t, t, type) /\ p = t
      BY <1>1, <3>2, LoggedGrows DEF Due
    <3>3. CASE Appending(t, t, type) /\ p # t
      BY <1>0, <2>1, <3>3 DEF Due, Appending, TypeOK, RoleOf
    <3> QED
      BY <3>1, <3>2, <3>3 DEF Due
  <2>3. Logged(t, "turn_started") => Logged(t, "turn_started")'
    BY <1>1, LoggedGrows
  <2>4. Appending("main", t, "turn_started") =>
          Logged(t, "turn_started")' \/ Appending("main", t, "turn_started")'
    <3>1. CASE p = "main"
      BY <1>1, <3>1, LoggedGrows
    <3>2. CASE p # "main"
      BY <1>0, <2>1, <3>2 DEF Appending, TypeOK, RoleOf
    <3> QED
      BY <3>1, <3>2
  <2>5. Submit(t)' = Submit(t)
    BY DEF Submit
  <2> QED
    BY <1>0, <2>1, <2>2, <2>3, <2>4, <2>5 DEF TrailOf
<1>2. CASE Project(p) \/ ProjectRaises(p) \/ WriteStatus(p)
  <2>1. /\ log' = log /\ result' = result
        /\ stage[p] # "append" /\ stage'[p] # "append"
        /\ \A q \in Processes \ {p} : pc'[q] = pc[q] /\ stage'[q] = stage[q] /\ pending'[q] = pending[q]
        /\ pc'[p] = pc[p] \/ pc'[p] \in {"crashing", "crashed"}
    BY <1>2 DEF Project, ProjectRaises, WriteStatus, TypeOK
  <2>2. \A type : Logged(t, type)' <=> Logged(t, type)
    BY <2>1, LoggedSame
  <2>3. \A q \in {t, "main"} : \A type : Appending(q, t, type)' <=> Appending(q, t, type)
    BY <1>0, <2>1 DEF Appending, RoleOf
  <2>4. Submit(t)' = Submit(t) /\ Submit(t) \notin {"crashing", "crashed"}
    BY DEF Submit
  <2> QED
    BY <1>0, <2>1, <2>2, <2>3, <2>4 DEF TrailOf, Due
<1>3. CASE NextRecord(p)
  <2>1. /\ log' = log /\ result' = result /\ pc' = pc
        /\ p \in Turns /\ stage[p] = "project"
        /\ \A q \in Processes \ {p} : stage'[q] = stage[q] /\ pending'[q] = pending[q]
    BY <1>3, RecordFrame
  <2>2. \A type : Logged(t, type)' <=> Logged(t, type)
    BY <2>1, LoggedSame
  <2>3. \A q \in {t, "main"} : \A type : Appending(q, t, type) => Appending(q, t, type)'
    BY <1>0, <2>1 DEF Appending, RoleOf
  <2>4. Submit(t)' = Submit(t)
    BY DEF Submit
  <2> QED
    BY <1>0, <2>1, <2>2, <2>3, <2>4 DEF TrailOf, Due
<1> QED
  BY <1>1, <1>2, <1>3 DEF Emission

\* A thread's own steps touch no log and nothing of another process, and are
\* taken outside of emissions.
LEMMA ThreadFrame ==
  ASSUME TypeOK, NEW t \in Turns, Thread(t)
  PROVE  /\ log' = log /\ status' = status /\ seen' = seen /\ stage[t] = "idle"
         /\ stage'[t] \in {"idle", "append"}
         /\ pc[t] \in {"dispatch", "refused", "invoke", "wait", "report", "report2", "check",
                       "fail", "verify", "unverified", "verified"}
         /\ \A q \in Processes \ {t} :
              pc'[q] = pc[q] /\ stage'[q] = stage[q] /\ pending'[q] = pending[q]
         /\ \A u \in Turns \ {t} : result'[u] = result[u]
<1> USE DEF TypeOK, Processes, At
<1>1. ASSUME NEW at, NEW event, NEW next, Emit(t, at, event, next)
      PROVE  /\ log' = log /\ status' = status /\ seen' = seen /\ stage[t] = "idle" /\ pc[t] = at
             /\ stage'[t] = "append"
             /\ \A q \in Processes \ {t} :
                  pc'[q] = pc[q] /\ stage'[q] = stage[q] /\ pending'[q] = pending[q]
  BY <1>1 DEF Emit
<1>2. ASSUME NEW at, NEW next, Step(t, at, next)
      PROVE  /\ log' = log /\ status' = status /\ seen' = seen /\ stage[t] = "idle" /\ pc[t] = at
             /\ stage'[t] = "idle" /\ result' = result
             /\ \A q \in Processes \ {t} :
                  pc'[q] = pc[q] /\ stage'[q] = stage[q] /\ pending'[q] = pending[q]
  BY <1>2 DEF Step, emission
<1>3. CASE RenderPrompt(t) \/ RefusePrompt(t) \/ FailRefused(t) \/ InvokeAgent(t)
  BY <1>1, <1>3 DEF RenderPrompt, RefusePrompt, FailRefused, InvokeAgent
<1>4. CASE PollLiveness(t)
  <2>1. PICK ts : Emit(t, "wait", [Event("agent_liveness_observed", RoleOf(t), FALSE, Own(t, "agent_invoked"))
                          EXCEPT !.ts = ts], "wait")
    BY <1>4 DEF PollLiveness
  <2> QED
    BY <1>1, <1>4, <2>1 DEF PollLiveness
<1>5. CASE AgentSucceeds(t) \/ AgentFails(t) \/ AgentTimesOut(t)
  BY <1>1, <1>5 DEF AgentSucceeds, AgentFails, AgentTimesOut
<1>6. CASE FailInvocation(t) \/ OutputsVerified(t) \/ OutputsRefused(t) \/ FailUnverified(t)
  BY <1>1, <1>6 DEF FailInvocation, OutputsVerified, OutputsRefused, FailUnverified
<1>7. CASE ReportExit(t) \/ ReportFailure(t) \/ CheckInvocation(t) \/ RecordVerified(t)
  BY <1>2, <1>7 DEF ReportExit, ReportFailure, CheckInvocation, RecordVerified
<1> QED
  BY <1>3, <1>4, <1>5, <1>6, <1>7 DEF Thread

\* The trail survives the steps of threads.
LEMMA ThreadTrail ==
  ASSUME TypeOK, Trail, NEW u \in Turns, Thread(u), NEW t \in Turns
  PROVE  TrailOf(t)'
<1>0. /\ t \in Processes /\ u \in Processes /\ "main" \in Processes \ {u} /\ TrailOf(t)
      /\ Submit(t)' = Submit(t)
  BY DEF Processes, Turns, Trail, Submit
<1>1. /\ log' = log /\ stage[u] = "idle"
      /\ \A q \in Processes \ {u} :
           pc'[q] = pc[q] /\ stage'[q] = stage[q] /\ pending'[q] = pending[q]
      /\ \A v \in Turns \ {u} : result'[v] = result[v]
  BY ThreadFrame
<1>2. \A type : Logged(t, type)' <=> Logged(t, type)
  BY <1>1, LoggedSame
<1>3. Appending("main", t, "turn_started")' <=> Appending("main", t, "turn_started")
  BY <1>0, <1>1 DEF Appending, RoleOf
<1>4. CASE t # u
  <2>1. \A type : Appending(t, t, type)' <=> Appending(t, t, type)
    BY <1>0, <1>1, <1>4 DEF Appending, RoleOf
  <2> QED
    BY <1>0, <1>1, <1>2, <1>3, <1>4, <2>1 DEF TrailOf, Due
<1>5. CASE t = u
  <2> USE <1>0, <1>1, <1>2, <1>3, <1>5
  <2>0. \A type : Due(t, type) <=> Logged(t, type)
    BY DEF Due, Appending
  <2>1. ASSUME NEW at, NEW event, NEW next, Emit(t, at, event, next)
        PROVE  /\ pc[t] = at /\ pc'[t] = next
               /\ \A type : Logged(t, type) => Due(t, type)'
               /\ pending'[t] = event /\ stage'[t] = "append"
    BY <2>1 DEF Emit, At, TypeOK, Due
  <2>2. ASSUME NEW at, NEW next, Step(t, at, next)
        PROVE  /\ pc[t] = at /\ pc'[t] = next /\ result' = result
               /\ \A type : Logged(t, type) => Due(t, type)'
    BY <2>2 DEF Step, At, TypeOK, Due
  <2>3. ASSUME NEW at, NEW type, NEW failed \in BOOLEAN, NEW parent, NEW next,
               Emit(t, at, Event(type, RoleOf(t), failed, parent), next)
        PROVE  /\ pc[t] = at /\ pc'[t] = next
               /\ \A ty : Logged(t, ty) => Due(t, ty)'
               /\ Due(t, type)'
    <3> DEFINE event == Event(type, RoleOf(t), failed, parent)
    <3>1. event.type = type /\ event.role = RoleOf(t)
      BY DEF Event
    <3> HIDE DEF event
    <3>2. Emit(t, at, event, next)
      BY <2>3 DEF event
    <3>3. /\ pc[t] = at /\ pc'[t] = next
          /\ \A ty : Logged(t, ty) => Due(t, ty)'
          /\ pending'[t] = event /\ stage'[t] = "append"
      BY <2>1, <3>2
    <3>4. RoleOf(t)' = RoleOf(t)
      BY DEF RoleOf
    <3> QED
      BY <3>1, <3>3, <3>4 DEF Due, Appending
  <2>4. CASE RenderPrompt(t)
    <3>1. /\ pc[t] = "dispatch" /\ pc'[t] = "invoke"
          /\ \A ty : Logged(t, ty) => Due(t, ty)'
          /\ Due(t, "prompt_rendered")'
      BY <2>3, <2>4 DEF RenderPrompt
    <3> QED
      BY <2>0, <3>1 DEF TrailOf
  <2>5. CASE RefusePrompt(t)
    <3>1. /\ pc[t] = "dispatch" /\ pc'[t] = "refused"
          /\ \A ty : Logged(t, ty) => Due(t, ty)'
          /\ Due(t, "prompt_rendered")'
      BY <2>3, <2>5 DEF RefusePrompt
    <3> QED
      BY <2>0, <3>1 DEF TrailOf
  <2>6. CASE FailRefused(t) \/ FailInvocation(t) \/ FailUnverified(t)
    <3>1. pc'[t] = "aborted"
      <4>1. CASE FailRefused(t)
        BY <4>1 DEF FailRefused, Emit, TypeOK
      <4>2. CASE FailInvocation(t)
        BY <4>2 DEF FailInvocation, Emit, TypeOK
      <4>3. CASE FailUnverified(t)
        BY <4>3 DEF FailUnverified, Emit, TypeOK
      <4> QED
        BY <2>6, <4>1, <4>2, <4>3
    <3> QED
      BY <3>1 DEF TrailOf
  <2>7. CASE InvokeAgent(t)
    <3>1. /\ pc[t] = "invoke" /\ pc'[t] = "wait"
          /\ \A ty : Logged(t, ty) => Due(t, ty)'
          /\ Due(t, "agent_invoked")'
      BY <2>3, <2>7 DEF InvokeAgent
    <3> QED
      BY <2>0, <3>1 DEF TrailOf
  <2>8. CASE PollLiveness(t)
    <3>1. PICK ts : Emit(t, "wait", [Event("agent_liveness_observed", RoleOf(t), FALSE, Own(t, "agent_invoked"))
                            EXCEPT !.ts = ts], "wait")
      BY <2>8 DEF PollLiveness
    <3> QED
      BY <2>0, <2>1, <3>1 DEF TrailOf
  <2>9. CASE AgentSucceeds(t)
    <3>1. result'[t] = "succeeded"
      BY <2>9 DEF AgentSucceeds, TypeOK
    <3>2. /\ pc[t] = "wait" /\ pc'[t] = "report"
          /\ \A ty : Logged(t, ty) => Due(t, ty)'
          /\ Due(t, "agent_exited")'
      BY <2>3, <2>9 DEF AgentSucceeds
    <3> QED
      BY <2>0, <3>1, <3>2 DEF TrailOf
  <2>10. CASE AgentFails(t)
    <3>1. result'[t] = "failed"
      BY <2>10 DEF AgentFails, TypeOK
    <3>2. /\ pc[t] = "wait" /\ pc'[t] = "report"
          /\ \A ty : Logged(t, ty) => Due(t, ty)'
          /\ Due(t, "agent_exited")'
      BY <2>3, <2>10 DEF AgentFails
    <3> QED
      BY <2>0, <3>1, <3>2 DEF TrailOf
  <2>11. CASE AgentTimesOut(t)
    <3>1. result'[t] = "timeout"
      BY <2>11 DEF AgentTimesOut, TypeOK
    <3>2. /\ pc[t] = "wait" /\ pc'[t] = "report"
          /\ \A ty : Logged(t, ty) => Due(t, ty)'
          /\ Due(t, "timeout_triggered")'
      BY <2>3, <2>11 DEF AgentTimesOut
    <3> QED
      BY <2>0, <3>1, <3>2 DEF TrailOf
  <2>12. CASE ReportExit(t)
    BY <2>0, <2>2, <2>12 DEF ReportExit, TrailOf
  <2>13. CASE ReportFailure(t)
    BY <2>0, <2>2, <2>13 DEF ReportFailure, TrailOf
  <2>14. CASE CheckInvocation(t)
    <3>1. PICK next \in {"fail", "verify"} : Step(t, "check", next)
      BY <2>14 DEF CheckInvocation
    <3> QED
      BY <2>0, <2>2, <3>1 DEF TrailOf
  <2>15. CASE OutputsVerified(t)
    <3>1. /\ pc[t] = "verify" /\ pc'[t] = "verified"
          /\ \A ty : Logged(t, ty) => Due(t, ty)'
          /\ Due(t, "output_verified")'
      BY <2>3, <2>15 DEF OutputsVerified
    <3> QED
      BY <2>0, <3>1 DEF TrailOf
  <2>16. CASE OutputsRefused(t)
    <3>1. /\ pc[t] = "verify" /\ pc'[t] = "unverified"
          /\ \A ty : Logged(t, ty) => Due(t, ty)'
          /\ Due(t, "output_verified")'
      BY <2>3, <2>16 DEF OutputsRefused
    <3> QED
      BY <2>0, <3>1 DEF TrailOf
  <2>17. CASE RecordVerified(t)
    BY <2>0, <2>2, <2>17 DEF RecordVerified, TrailOf
  <2> QED
    BY <2>4, <2>5, <2>6, <2>7, <2>8, <2>9, <2>10, <2>11, <2>12, <2>13, <2>14, <2>15,
       <2>16, <2>17 DEF Thread
<1> QED
  BY <1>4, <1>5

\* The main thread's own steps outside of its emissions touch no log, and of the
\* threads only the place of the one it submits.
LEMMA MainFrame ==
  ASSUME TypeOK, Main
  PROVE  /\ log' = log /\ status' = status /\ seen' = seen /\ result' = result
         /\ UNCHANGED shared
         /\ stage["main"] = "idle" /\ stage'["main"] \in {"idle", "append"}
         /\ \A t \in Turns : stage'[t] = stage[t] /\ pending'[t] = pending[t]
         /\ \A t \in Turns :
              \/ pc'[t] = pc[t]
              \/ SubmitTurn(t) /\ pc["main"] = Submit(t) /\ pc'[t] = "dispatch"
         /\ pc["main"] \in {"startB", "submitB", "startC", "submitC", "join", "audit",
                           "aborting", "crashing"}
         /\ pc'["main"] = "audit" => Join
<1> USE DEF TypeOK, Processes, Turns, At, emission
<1>1. ASSUME NEW at, NEW event, NEW next, Emit("main", at, event, next)
      PROVE  /\ log' = log /\ status' = status /\ seen' = seen /\ UNCHANGED shared
             /\ stage["main"] = "idle" /\ stage'["main"] = "append"
             /\ \A t \in Turns : stage'[t] = stage[t] /\ pending'[t] = pending[t] /\ pc'[t] = pc[t]
             /\ pc["main"] = at /\ pc'["main"] = next
  BY <1>1 DEF Emit
<1>2. ASSUME NEW at, NEW next, Step("main", at, next)
      PROVE  /\ log' = log /\ status' = status /\ seen' = seen /\ result' = result
             /\ stage["main"] = "idle" /\ stage'["main"] = "idle"
             /\ \A t \in Turns : stage'[t] = stage[t] /\ pending'[t] = pending[t] /\ pc'[t] = pc[t]
             /\ pc["main"] = at /\ pc'["main"] = next
  BY <1>2 DEF Step
<1>3. ASSUME NEW t \in Turns, InputsMissing(t)
      PROVE  /\ Emit("main", Start(t), Event("run_failed", "orchestrator", TRUE, RunStarted), "aborting")
             /\ result' = result /\ Start(t) \in {"startB", "startC"}
  BY <1>3 DEF InputsMissing, Start
<1>4. ASSUME NEW t \in Turns, StartTurn(t)
      PROVE  /\ Emit("main", Start(t), Event("turn_started", RoleOf(t), FALSE, RunStarted), Submit(t))
             /\ result' = result /\ Start(t) \in {"startB", "startC"} /\ Submit(t) # "audit"
  BY <1>4 DEF StartTurn, Start, Submit
<1>5. ASSUME NEW t \in Turns, SubmitTurn(t)
      PROVE  /\ log' = log /\ status' = status /\ seen' = seen /\ result' = result
             /\ UNCHANGED shared /\ stage' = stage /\ pending' = pending
             /\ stage["main"] = "idle"
             /\ pc'[t] = "dispatch" /\ \A u \in Turns \ {t} : pc'[u] = pc[u]
             /\ pc["main"] = Submit(t) /\ Submit(t) \in {"submitB", "submitC"}
             /\ pc'["main"] # "audit"
  BY <1>5 DEF SubmitTurn, Submit
<1>6. CASE \E t \in Turns : InputsMissing(t)
  <2>1. PICK t \in Turns : InputsMissing(t)
    BY <1>6
  <2>2. PICK event :
          /\ Emit("main", Start(t), event, "aborting")
          /\ result' = result /\ Start(t) \in {"startB", "startC"}
    BY <1>3, <2>1
  <2> QED
    BY <1>1, <2>2
<1>7. CASE \E t \in Turns : StartTurn(t)
  <2>1. PICK t \in Turns : StartTurn(t)
    BY <1>7
  <2>2. /\ Emit("main", Start(t), Event("turn_started", RoleOf(t), FALSE, RunStarted), Submit(t))
        /\ result' = result /\ Start(t) \in {"startB", "startC"} /\ Submit(t) # "audit"
    BY <1>4, <2>1
  <2> QED
    BY <1>1, <2>2
<1>8. CASE \E t \in Turns : SubmitTurn(t)
  BY <1>5, <1>8
<1>9. CASE Join
  BY <1>2, <1>9 DEF Join
<1>10. CASE Unwind
  <2>1. /\ UNCHANGED shared
        /\ \/ Step("main", "aborting", "aborted")
           \/ Step("main", "crashing", "crashed")
    BY <1>10 DEF Unwind
  <2> QED
    BY <1>2, <2>1
<1>11. CASE AuditPasses
  BY <1>2, <1>11 DEF AuditPasses
<1>12. CASE AuditFails
  <2>1. PICK event : Emit("main", "audit", event, "aborting") /\ result' = result
    BY <1>12 DEF AuditFails
  <2> QED
    BY <1>1, <2>1
<1> QED
  BY <1>6, <1>7, <1>8, <1>9, <1>10, <1>11, <1>12 DEF Main

\* The trail survives the steps of the main thread.
LEMMA MainTrail ==
  ASSUME TypeOK, Trail, Main, NEW t \in Turns
  PROVE  TrailOf(t)'
<1>0. t \in Processes /\ "main" \in Processes /\ t # "main" /\ TrailOf(t) /\ Submit(t)' = Submit(t)
  BY DEF Processes, Turns, Trail, Submit
<1>1. /\ log' = log /\ result' = result /\ stage["main"] = "idle"
      /\ stage'[t] = stage[t] /\ pending'[t] = pending[t]
      /\ \/ pc'[t] = pc[t]
         \/ SubmitTurn(t) /\ pc["main"] = Submit(t) /\ pc'[t] = "dispatch"
  BY MainFrame
<1>2. \A type : /\ Logged(t, type)' <=> Logged(t, type)
                /\ Due(t, type)' <=> Due(t, type)
  BY <1>0, <1>1, LoggedSame DEF Due, Appending, RoleOf
<1>3. pc'["main"] = Submit(t) => Appending("main", t, "turn_started")'
  <2> SUFFICES ASSUME pc'["main"] = Submit(t) PROVE Appending("main", t, "turn_started")'
    OBVIOUS
  <2>1. Submit(t) \in {"submitB", "submitC"}
    BY DEF Submit
  <2>2. CASE \E u \in Turns : StartTurn(u)
    <3>1. PICK u \in Turns : StartTurn(u)
      BY <2>2
    <3> DEFINE event == Event("turn_started", RoleOf(u), FALSE, RunStarted)
    <3>2. event.type = "turn_started" /\ event.role = RoleOf(u)
      BY DEF Event
    <3> HIDE DEF event
    <3>3. Emit("main", Start(u), event, Submit(u))
      BY <3>1 DEF StartTurn, event
    <3>4. pc'["main"] = Submit(u) /\ stage'["main"] = "append" /\ pending'["main"] = event
      BY <1>0, <3>3 DEF Emit, TypeOK
    <3>5. u = t
      BY <3>4 DEF Submit, Turns
    <3> QED
      BY <3>2, <3>4, <3>5 DEF Appending, RoleOf
  <2>3. CASE \E u \in Turns : InputsMissing(u)
    BY <1>0, <2>1, <2>3 DEF InputsMissing, Emit, TypeOK
  <2>4. CASE \E u \in Turns : SubmitTurn(u)
    BY <1>0, <2>1, <2>4 DEF SubmitTurn, TypeOK, Turns
  <2>5. CASE Unwind \/ AuditPasses
    BY <1>0, <2>1, <2>5 DEF Unwind, AuditPasses, Step, TypeOK
  <2>6. CASE AuditFails
    BY <1>0, <2>1, <2>6 DEF AuditFails, Emit, TypeOK
  <2>7. CASE Join
    <3>1. pc'["main"] = IF Raised = "done" THEN "audit" ELSE Raised
      BY <1>0, <2>7 DEF Join, Step, TypeOK
    <3>2. Raised \in {"done", "aborted", "crashed", "unsubmitted"}
      BY <2>7 DEF Join, ThreadsEnded, ThreadEnded, Raised, Turns
    <3> QED
      BY <2>1, <3>1, <3>2
  <2> QED
    BY <2>2, <2>3, <2>4, <2>5, <2>6, <2>7 DEF Main
<1>4. pc'[t] = "dispatch" => Logged(t, "turn_started")'
  BY <1>0, <1>1, <1>2 DEF TrailOf, Appending
<1> QED
  BY <1>0, <1>1, <1>2, <1>3, <1>4 DEF TrailOf

\* The trail is kept by every step.
LEMMA NextTrail ==
  ASSUME TypeOK, Trail, [Next]_vars
  PROVE  Trail'
<1> SUFFICES ASSUME NEW t \in Turns PROVE TrailOf(t)'
  BY DEF Trail
<1>1. CASE Tick \/ UNCHANGED vars
  <2>1. /\ log' = log /\ pc' = pc /\ stage' = stage /\ pending' = pending /\ result' = result
    BY <1>1 DEF Tick, vars, emission
  <2>2. \A type : Logged(t, type)' <=> Logged(t, type)
    BY <2>1, LoggedSame
  <2> QED
    BY <2>1, <2>2 DEF Trail, TrailOf, Due, Appending, RoleOf, Submit
<1> QED
  BY <1>1, EmissionTrail, ThreadTrail, MainTrail DEF Next

----------------------------------------------------------------------------
(* Legal logs, and what status.json shows *)

\* The projection of a log depends on its own events only, so a log that it
\* rejects is rejected for ever: appending cannot make it legal again.
LEMMA IllegalStays ==
  ASSUME NEW l \in Seq(Events), \A i \in DOMAIN l : l[i].parent <= Len(l),
         NEW e \in Events, Projectable(Append(l, e))
  PROVE  Projectable(l)
<1> DEFINE m == Append(l, e)
<1>1. /\ Len(l) \in Nat
      /\ DOMAIN l = 1 .. Len(l)
      /\ DOMAIN m = 1 .. Len(l) + 1
      /\ \A i \in DOMAIN l : m[i] = l[i]
      /\ DOMAIN l \subseteq DOMAIN m
  BY LogAppend
<1>2. \A i, j \in DOMAIN l : Before(m, i, j) <=> Before(l, i, j)
  BY <1>1 DEF Before
<1>3. \A i \in DOMAIN m : validate_parent(m, i) /\ NotAfterTerminal(m, i)
  BY DEF Projectable
<1> HIDE DEF m
<1> SUFFICES ASSUME NEW i \in DOMAIN l
             PROVE  validate_parent(l, i) /\ NotAfterTerminal(l, i)
  BY DEF Projectable
<1>4. l[i].parent <= Len(l) /\ l[i].parent \in Nat
  <2>1. l[i] \in Events
    BY <1>1
  <2> QED
    BY <2>1 DEF Events
<1>5. validate_parent(l, i)
  <2>1. CASE PARENT_RULES[l[i].type] = {}
    BY <1>1, <1>3, <2>1 DEF validate_parent
  <2>2. CASE PARENT_RULES[l[i].type] # {}
    <3>1. l[i].parent \in DOMAIN l
      <4>1. m[i].parent \in DOMAIN m
        BY <1>1, <1>3, <2>2 DEF validate_parent
      <4> QED
        BY <4>1, <1>1, <1>4
    <3> QED
      BY <1>1, <1>2, <1>3, <2>2, <3>1 DEF validate_parent
  <2> QED
    BY <2>1, <2>2
<1>6. NotAfterTerminal(l, i)
  BY <1>1, <1>2, <1>3 DEF NotAfterTerminal
<1> QED
  BY <1>5, <1>6

\* A thread's own step never puts it where an exception leads.
LEMMA ThreadGoesOn ==
  ASSUME TypeOK, NEW t \in Turns, Thread(t)
  PROVE  pc'[t] \notin {"crashing", "crashed", "aborting", "unsubmitted"}
<1> USE DEF TypeOK, Processes, Turns
<1>1. CASE ReportExit(t) \/ ReportFailure(t) \/ CheckInvocation(t) \/ RecordVerified(t)
  BY <1>1 DEF ReportExit, ReportFailure, CheckInvocation, RecordVerified, Step
<1>2. CASE RenderPrompt(t) \/ RefusePrompt(t) \/ FailRefused(t) \/ InvokeAgent(t) \/ PollLiveness(t)
  BY <1>2 DEF RenderPrompt, RefusePrompt, FailRefused, InvokeAgent, PollLiveness, Emit
<1>3. CASE AgentSucceeds(t) \/ AgentFails(t) \/ AgentTimesOut(t)
  BY <1>3 DEF AgentSucceeds, AgentFails, AgentTimesOut, Emit
<1>4. CASE FailInvocation(t) \/ OutputsVerified(t) \/ OutputsRefused(t) \/ FailUnverified(t)
  BY <1>4 DEF FailInvocation, OutputsVerified, OutputsRefused, FailUnverified, Emit
<1> QED
  BY <1>1, <1>2, <1>3, <1>4 DEF Thread

\* The exception of a thread, or the main thread's own, ends the main thread.
LEMMA MainExceptions ==
  ASSUME TypeOK, Main
  PROVE  /\ pc'["main"] \in {"crashing", "crashed"} =>
              \E p \in Processes : pc[p] \in {"crashing", "crashed"}
         /\ pc["main"] \in {"crashing", "crashed"} => pc'["main"] \in {"crashing", "crashed"}
         /\ pc["main"] \in {"aborting", "aborted"} => pc'["main"] \in {"aborting", "aborted"}
<1> USE DEF TypeOK, Processes, Turns, At
<1>1. CASE \E t \in Turns : InputsMissing(t) \/ StartTurn(t) \/ SubmitTurn(t)
  BY <1>1 DEF InputsMissing, StartTurn, SubmitTurn, Emit, Start, Submit
<1>2. CASE Join
  BY <1>2 DEF Join, Step, Raised
<1>3. CASE Unwind
  BY <1>3 DEF Unwind, Step
<1>4. CASE AuditPasses \/ AuditFails
  BY <1>4 DEF AuditPasses, AuditFails, Step, Emit
<1> QED
  BY <1>1, <1>2, <1>3, <1>4 DEF Main

\* The order in which the main thread submits the turns.
LEMMA MainOrder ==
  ASSUME TypeOK, Main
  PROVE  /\ pc'["main"] # "startB"
         /\ pc'["main"] = "submitB" => pc["main"] = "startB"
         /\ pc'["main"] = "startC" => pc["main"] = "submitB"
         /\ pc'["main"] = "submitC" => pc["main"] = "startC"
<1> USE DEF TypeOK, Processes, Turns, At
<1>1. ASSUME NEW t \in Turns, InputsMissing(t) PROVE pc'["main"] = "aborting"
  BY <1>1 DEF InputsMissing, Emit
<1>2. ASSUME NEW t \in Turns, StartTurn(t)
      PROVE  pc["main"] = Start(t) /\ pc'["main"] = Submit(t)
  BY <1>2 DEF StartTurn, Emit
<1>3. ASSUME NEW t \in Turns, SubmitTurn(t)
      PROVE  pc["main"] = Submit(t) /\ pc'["main"] = IF t = "B" THEN "startC" ELSE "join"
  BY <1>3 DEF SubmitTurn
<1>4. CASE Join
  BY <1>4 DEF Join, Step, Raised, ThreadsEnded, ThreadEnded
<1>5. CASE Unwind
  BY <1>5 DEF Unwind, Step
<1>6. CASE AuditPasses \/ AuditFails
  BY <1>6 DEF AuditPasses, AuditFails, Step, Emit
<1> QED
  BY <1>1, <1>2, <1>3, <1>4, <1>5, <1>6 DEF Main, Start, Submit

\* Every step keeps Unsubmitted.
LEMMA NextUnsubmitted ==
  ASSUME TypeOK, Unsubmitted, [Next]_vars
  PROVE  Unsubmitted'
<1> USE DEF Unsubmitted, TypeOK
<1>1. ASSUME NEW p \in Processes, AppendEvent(p) \/ Project(p) \/ WriteStatus(p) \/ NextRecord(p)
      PROVE  Unsubmitted'
  <2>1. /\ pc' = pc /\ stage[p] # "idle"
        /\ \A q \in Processes \ {p} : stage'[q] = stage[q]
    BY <1>1, RecordFrame DEF AppendEvent, Project, WriteStatus
  <2> QED
    BY <2>1 DEF Processes, Turns
<1>2. ASSUME NEW p \in Processes, ProjectRaises(p)
      PROVE  Unsubmitted'
  <2>1. /\ stage[p] # "idle"
        /\ pc'[p] \in {"crashing", "crashed"}
        /\ \A q \in Processes \ {p} : pc'[q] = pc[q] /\ stage'[q] = stage[q]
    BY <1>2 DEF ProjectRaises
  <2> QED
    BY <2>1 DEF Processes, Turns
<1>3. ASSUME NEW t \in Turns, Thread(t)
      PROVE  Unsubmitted'
  <2>1. /\ pc[t] # "unsubmitted"
        /\ pc'[t] # "unsubmitted"
        /\ \A q \in Processes \ {t} : pc'[q] = pc[q] /\ stage'[q] = stage[q]
    BY <1>3, ThreadFrame, ThreadGoesOn
  <2> QED
    BY <2>1 DEF Processes, Turns
<1>4. CASE Main
  <2>1. \A t \in Turns : stage'[t] = stage[t] /\ (pc'[t] = pc[t] \/ (pc["main"] = Submit(t) /\ pc'[t] = "dispatch"))
    BY <1>4, MainFrame
  <2>3. /\ pc'["main"] \in {"startB", "submitB"} => pc["main"] = "startB"
        /\ pc'["main"] \in {"startB", "submitB", "startC", "submitC"} =>
             pc["main"] \in {"startB", "submitB", "startC"}
    BY <1>4, MainOrder
  <2>4. /\ "B" \in Turns /\ "C" \in Turns
        /\ Submit("B") = "submitB" /\ Submit("C") = "submitC"
        /\ \A t \in Turns : t \in {"B", "C"}
    BY DEF Turns, Submit
  <2>5. pc'["main"] \in {"startB", "submitB"} => pc'["B"] = "unsubmitted"
    BY <2>1, <2>3, <2>4
  <2>6. pc'["main"] \in {"startB", "submitB", "startC", "submitC"} => pc'["C"] = "unsubmitted"
    BY <2>1, <2>3, <2>4
  <2> QED
    BY <2>1, <2>5, <2>6
<1>5. CASE Tick \/ UNCHANGED vars
  BY <1>5 DEF Tick, vars, emission
<1> QED
  BY <1>1, <1>2, <1>3, <1>4, <1>5 DEF Next, Emission

\* Every step keeps Legality.
LEMMA NextLegality ==
  ASSUME TypeOK, ParentsLogged, Unsubmitted, Legality, [Next]_vars
  PROVE  Legality'
<1> USE DEF Legality
<1>0. "main" \in Processes /\ Turns \subseteq Processes /\ Processes = Turns \cup {"main"}
  BY DEF Processes
<1>1. ASSUME NEW p \in Processes, AppendEvent(p)
      PROVE  Legality'
  <2>1. stage'[p] = "project" /\ pc' = pc
    BY <1>1 DEF AppendEvent, TypeOK
  <2>2. ~Projectable(log) => ~Projectable(log')
    <3>1. log' = Append(log, pending[p]) /\ pending[p] \in Events
      BY <1>1 DEF AppendEvent, TypeOK
    <3> QED
      BY <3>1, IllegalStays DEF TypeOK, ParentsLogged
  <2> QED
    BY <2>1, <2>2
<1>2. ASSUME log' = log PROVE Projectable(log') <=> Projectable(log)
  BY <1>2
<1>3. ASSUME NEW p \in Processes, Project(p) \/ ProjectRaises(p) \/ WriteStatus(p)
      PROVE  Legality'
  <2>1. CASE Project(p)
    BY <1>2, <2>1 DEF Project
  <2>2. CASE ProjectRaises(p)
    BY <1>2, <2>2 DEF ProjectRaises, TypeOK
  <2>3. CASE WriteStatus(p)
    BY <1>2, <2>3 DEF WriteStatus, TypeOK
  <2> QED
    BY <1>3, <2>1, <2>2, <2>3
<1>r. ASSUME NEW p \in Processes, NextRecord(p)
      PROVE  Legality'
  <2>1. /\ log' = log /\ pc' = pc /\ stage'[p] = "append"
        /\ \A q \in Processes \ {p} : stage'[q] = stage[q]
    BY <1>r, RecordFrame
  <2> QED
    BY <1>2, <2>1
<1>4. ASSUME NEW t \in Turns, Thread(t)
      PROVE  Legality'
  <2>1. /\ log' = log /\ stage[t] = "idle" /\ pc[t] \notin {"crashing", "crashed"}
        /\ pc'[t] \notin {"crashing", "crashed"}
        /\ \A q \in Processes \ {t} : pc'[q] = pc[q] /\ stage'[q] = stage[q]
    BY <1>4, ThreadFrame, ThreadGoesOn
  <2> QED
    BY <1>2, <2>1
<1>5. CASE Main
  <2>1. \A t \in Turns : stage'[t] = stage[t] /\ (pc'[t] = pc[t] \/ (pc["main"] = Submit(t) /\ pc'[t] = "dispatch"))
    BY <1>5, MainFrame
  <2>4. log' = log /\ stage["main"] = "idle"
    BY <1>5, MainFrame
  <2>2. \A t \in Turns : pc["main"] = Submit(t) => pc[t] = "unsubmitted"
    BY DEF Unsubmitted, Submit, Turns
  <2>3. /\ pc'["main"] \in {"crashing", "crashed"} => \E p \in Processes : pc[p] \in {"crashing", "crashed"}
        /\ pc["main"] \in {"crashing", "crashed"} => pc'["main"] \in {"crashing", "crashed"}
    BY <1>5, MainExceptions
  <2> QED
    BY <1>0, <1>2, <2>1, <2>2, <2>3, <2>4
<1>6. CASE Tick \/ UNCHANGED vars
  <2>1. log' = log /\ pc' = pc /\ stage' = stage
    BY <1>6 DEF Tick, vars, emission
  <2> QED
    BY <1>2, <2>1
<1> QED
  BY <1>1, <1>3, <1>4, <1>5, <1>6, <1>r DEF Next, Emission

\* A prefix of a log is a prefix of the longer one; the whole is its own.
LEMMA LogPrefix ==
  ASSUME NEW l \in Seq(Events), NEW e \in Events, NEW n \in 1 .. Len(l)
  PROVE  SubSeq(Append(l, e), 1, n) = SubSeq(l, 1, n)
<1>1. Append(l, e) = l \o <<e>>
  BY AppendIsConcat
<1>2. <<e>> \in Seq(Events) /\ Len(l) \in Nat
  BY LenProperties
<1> QED
  BY <1>1, <1>2, SubSeqOfConcat1

\* Every step keeps what is on its way to status.json, and what is there.
LEMMA NextProjections ==
  ASSUME TypeOK, Projections, StatusProjectable, [Next]_vars
  PROVE  Projections' /\ StatusProjectable'
<1> USE DEF Projections, StatusProjectable
<1>0. log \in Seq(Events) /\ Len(log) \in Nat /\ status \in 1 .. Len(log)
  BY LenProperties DEF TypeOK
<1>1. ASSUME NEW p \in Processes, AppendEvent(p)
      PROVE  Projections' /\ StatusProjectable'
  <2>1. log' = Append(log, pending[p]) /\ pending[p] \in Events
    BY <1>1 DEF AppendEvent, TypeOK
  <2>2. /\ Len(log') = Len(log) + 1
        /\ \A n \in 1 .. Len(log) : SubSeq(log', 1, n) = SubSeq(log, 1, n)
    BY <1>0, <2>1, LogPrefix, LogAppend
  <2>3. seen' = seen /\ status' = status /\ \A q \in Processes : stage'[q] = "write" => stage[q] = "write"
    BY <1>1 DEF AppendEvent, TypeOK
  <2>4. \A n \in 1 .. Len(log) : n \in 1 .. Len(log') /\ SubSeq(log', 1, n) = SubSeq(log, 1, n)
    BY <1>0, <2>2
  <2>5. Projections'
    BY <2>3, <2>4
  <2>6. StatusProjectable'
    BY <1>0, <2>3, <2>4
  <2> QED
    BY <2>5, <2>6
<1>2. ASSUME NEW p \in Processes, Project(p)
      PROVE  Projections' /\ StatusProjectable'
  <2>1. /\ log' = log /\ status' = status /\ Projectable(log) /\ seen'[p] = Len(log)
        /\ \A q \in Processes \ {p} : stage'[q] = stage[q] /\ seen'[q] = seen[q]
    BY <1>2 DEF Project, TypeOK
  <2>2. SubSeq(log, 1, Len(log)) = log /\ Len(log) \in 1 .. Len(log)
    BY <1>0, SubSeqFull
  <2> QED
    BY <1>0, <2>1, <2>2
<1>3. ASSUME NEW p \in Processes, ProjectRaises(p)
      PROVE  Projections' /\ StatusProjectable'
  <2>1. /\ log' = log /\ status' = status /\ stage'[p] = "idle"
        /\ \A q \in Processes \ {p} : stage'[q] = stage[q] /\ seen'[q] = seen[q]
    BY <1>3 DEF ProjectRaises, TypeOK
  <2> QED
    BY <2>1
<1>4. ASSUME NEW p \in Processes, WriteStatus(p)
      PROVE  Projections' /\ StatusProjectable'
  <2>1. /\ log' = log /\ status' = seen[p] /\ stage[p] = "write" /\ stage'[p] = "idle"
        /\ \A q \in Processes \ {p} : stage'[q] = stage[q] /\ seen'[q] = seen[q]
    BY <1>4 DEF WriteStatus, TypeOK
  <2> QED
    BY <2>1
<1>r. ASSUME NEW p \in Processes, NextRecord(p)
      PROVE  Projections' /\ StatusProjectable'
  <2>1. /\ log' = log /\ status' = status /\ seen' = seen /\ stage'[p] = "append"
        /\ \A q \in Processes \ {p} : stage'[q] = stage[q]
    BY <1>r, RecordFrame
  <2> QED
    BY <2>1
<1>5. ASSUME NEW t \in Turns, Thread(t)
      PROVE  Projections' /\ StatusProjectable'
  <2>1. /\ log' = log /\ status' = status /\ seen' = seen /\ stage'[t] \in {"idle", "append"}
        /\ \A q \in Processes \ {t} : stage'[q] = stage[q]
    BY <1>5, ThreadFrame
  <2> QED
    BY <2>1
<1>6. CASE Main
  <2>1. /\ log' = log /\ status' = status /\ seen' = seen /\ stage'["main"] \in {"idle", "append"}
        /\ \A q \in Processes \ {"main"} : stage'[q] = stage[q]
    BY <1>6, MainFrame DEF Processes
  <2> QED
    BY <2>1
<1>7. CASE Tick \/ UNCHANGED vars
  BY <1>7 DEF Tick, vars, emission
<1> QED
  BY <1>1, <1>2, <1>3, <1>4, <1>5, <1>6, <1>7, <1>r DEF Next, Emission

----------------------------------------------------------------------------
(* How the run ends *)

\* Every step keeps Joined: past the join no process is in an emission.
LEMMA NextJoined ==
  ASSUME TypeOK, Joined, [Next]_vars
  PROVE  Joined'
<1> USE DEF Joined
<1>0. "main" \in Processes /\ Turns \subseteq Processes /\ Turns = {"B", "C"} /\ Processes = Turns \cup {"main"}
  BY DEF Processes, Turns
<1>1. ASSUME NEW p \in Processes, AppendEvent(p) \/ Project(p) \/ WriteStatus(p) \/ NextRecord(p)
      PROVE  Joined'
  <2>1. stage[p] # "idle" /\ pc' = pc /\ \A q \in Processes \ {p} : stage'[q] = stage[q]
    BY <1>1, RecordFrame DEF AppendEvent, Project, WriteStatus, TypeOK
  <2> QED
    BY <1>0, <2>1
<1>2. ASSUME NEW p \in Processes, ProjectRaises(p)
      PROVE  Joined'
  <2>1. /\ stage[p] # "idle"
        /\ p = "main" => pc'[p] = "crashing"
        /\ \A q \in Processes \ {p} : pc'[q] = pc[q] /\ stage'[q] = stage[q]
    BY <1>2 DEF ProjectRaises, TypeOK
  <2>2. CASE p = "main"
    BY <2>1, <2>2
  <2>3. CASE p # "main"
    BY <1>0, <2>1, <2>3
  <2> QED
    BY <2>2, <2>3
<1>3. ASSUME NEW t \in Turns, Thread(t)
      PROVE  Joined'
  <2>1. /\ pc[t] \notin {"done", "unsubmitted"}
        /\ \A q \in Processes \ {t} : pc'[q] = pc[q] /\ stage'[q] = stage[q]
    BY <1>3, ThreadFrame
  <2> QED
    BY <1>0, <2>1
<1>4. CASE Main
  <2>1. CASE \E t \in Turns : InputsMissing(t) \/ StartTurn(t) \/ SubmitTurn(t)
    <3>1. pc'["main"] \notin {"audit", "passed", "aborted", "crashed"}
      <4>1. CASE \E t \in Turns : InputsMissing(t)
        BY <1>0, <4>1 DEF InputsMissing, Emit, TypeOK
      <4>2. CASE \E t \in Turns : StartTurn(t)
        BY <1>0, <4>2 DEF StartTurn, Emit, Submit, TypeOK
      <4>3. CASE \E t \in Turns : SubmitTurn(t)
        BY <1>0, <4>3 DEF SubmitTurn, TypeOK
      <4> QED
        BY <2>1, <4>1, <4>2, <4>3
    <3> QED
      BY <3>1
  <2>2. CASE Join
    <3>1. /\ pc'["main"] = IF Raised = "done" THEN "audit" ELSE Raised
          /\ stage["main"] = "idle" /\ stage' = stage
          /\ \A t \in Turns : pc'[t] = pc[t]
      BY <1>0, <2>2 DEF Join, Step, At, TypeOK, emission
    <3>2. \A t \in Turns : pc[t] \in {"done", "aborted", "crashed", "unsubmitted"} /\ stage[t] = "idle"
      BY <2>2 DEF Join, ThreadsEnded, ThreadEnded
    <3>3. Raised # "passed"
      BY <1>0, <3>2 DEF Raised
    <3>4. Raised = "done" => pc["B"] \in {"done", "unsubmitted"} /\ pc["C"] = "done"
      BY <1>0, <3>2 DEF Raised
    <3>5. Raised # "audit"
      BY <1>0, <3>2 DEF Raised
    <3> QED
      BY <1>0, <3>1, <3>2, <3>3, <3>4, <3>5
  <2>3. CASE Unwind
    BY <1>0, <2>3 DEF Unwind, Step, At, TypeOK, emission
  <2>4. CASE AuditPasses
    BY <1>0, <2>4 DEF AuditPasses, Step, At, TypeOK, emission
  <2>5. CASE AuditFails
    BY <1>0, <2>5 DEF AuditFails, Emit, TypeOK
  <2> QED
    BY <1>4, <2>1, <2>2, <2>3, <2>4, <2>5 DEF Main
<1>5. CASE Tick \/ UNCHANGED vars
  BY <1>5 DEF Tick, vars, emission
<1> QED
  BY <1>1, <1>2, <1>3, <1>4, <1>5 DEF Next, Emission

\* A thread gives up only with run_failed on its way to the log.
LEMMA ThreadGivesUp ==
  ASSUME TypeOK, NEW t \in Turns, Thread(t)
  PROVE  /\ pc'[t] = "aborted" => stage'[t] = "append" /\ pending'[t].type = "run_failed"
         /\ stage'[t] = "append" /\ pending'[t].type = "run_failed" => pc'[t] = "aborted"
<1>0. t \in Processes
  BY DEF Processes
<1>1. ASSUME NEW at, NEW event, NEW next, Emit(t, at, event, next)
      PROVE  pc'[t] = next /\ stage'[t] = "append" /\ pending'[t] = event
  BY <1>0, <1>1 DEF Emit, TypeOK
<1>2. ASSUME NEW at, NEW type, NEW role, NEW failed, NEW parent, NEW next,
             Emit(t, at, Event(type, role, failed, parent), next)
      PROVE  pc'[t] = next /\ stage'[t] = "append" /\ pending'[t].type = type
  BY <1>1, <1>2 DEF Event
<1>3. CASE FailRefused(t)
  <2>1. pc'[t] = "aborted" /\ stage'[t] = "append" /\ pending'[t].type = "run_failed"
    BY <1>2, <1>3 DEF FailRefused
  <2> QED
    BY <2>1
<1>4. CASE FailInvocation(t)
  <2>1. pc'[t] = "aborted" /\ stage'[t] = "append" /\ pending'[t].type = "run_failed"
    BY <1>2, <1>4 DEF FailInvocation
  <2> QED
    BY <2>1
<1>5. CASE FailUnverified(t)
  <2>1. pc'[t] = "aborted" /\ stage'[t] = "append" /\ pending'[t].type = "run_failed"
    BY <1>2, <1>5 DEF FailUnverified
  <2> QED
    BY <2>1
<1>6. CASE RenderPrompt(t)
  <2>1. pc'[t] = "invoke" /\ stage'[t] = "append" /\ pending'[t].type = "prompt_rendered"
    BY <1>2, <1>6 DEF RenderPrompt
  <2> QED
    BY <2>1
<1>7. CASE RefusePrompt(t)
  <2>1. pc'[t] = "refused" /\ stage'[t] = "append" /\ pending'[t].type = "prompt_rendered"
    BY <1>2, <1>7 DEF RefusePrompt
  <2> QED
    BY <2>1
<1>8. CASE InvokeAgent(t)
  <2>1. pc'[t] = "wait" /\ stage'[t] = "append" /\ pending'[t].type = "agent_invoked"
    BY <1>2, <1>8 DEF InvokeAgent
  <2> QED
    BY <2>1
<1>9. CASE PollLiveness(t)
  <2>1. PICK ts : Emit(t, "wait", [Event("agent_liveness_observed", RoleOf(t), FALSE, Own(t, "agent_invoked"))
                                     EXCEPT !.ts = ts], "wait")
    BY <1>9 DEF PollLiveness
  <2>2. PICK event : event.type = "agent_liveness_observed" /\ Emit(t, "wait", event, "wait")
    BY <2>1 DEF Event
  <2>3. pc'[t] = "wait" /\ stage'[t] = "append" /\ pending'[t].type = "agent_liveness_observed"
    BY <1>1, <2>2
  <2> QED
    BY <2>3
<1>10. CASE AgentSucceeds(t)
  <2>1. pc'[t] = "report" /\ stage'[t] = "append" /\ pending'[t].type = "agent_exited"
    BY <1>2, <1>10 DEF AgentSucceeds
  <2> QED
    BY <2>1
<1>11. CASE AgentFails(t)
  <2>1. pc'[t] = "report" /\ stage'[t] = "append" /\ pending'[t].type = "agent_exited"
    BY <1>2, <1>11 DEF AgentFails
  <2> QED
    BY <2>1
<1>12. CASE AgentTimesOut(t)
  <2>1. pc'[t] = "report" /\ stage'[t] = "append" /\ pending'[t].type = "timeout_triggered"
    BY <1>2, <1>12 DEF AgentTimesOut
  <2> QED
    BY <2>1
<1>13. CASE OutputsVerified(t)
  <2>1. pc'[t] = "verified" /\ stage'[t] = "append" /\ pending'[t].type = "output_verified"
    BY <1>2, <1>13 DEF OutputsVerified
  <2> QED
    BY <2>1
<1>14. CASE OutputsRefused(t)
  <2>1. pc'[t] = "unverified" /\ stage'[t] = "append" /\ pending'[t].type = "output_verified"
    BY <1>2, <1>14 DEF OutputsRefused
  <2> QED
    BY <2>1
<1>15. CASE ReportExit(t) \/ ReportFailure(t) \/ CheckInvocation(t) \/ RecordVerified(t)
  BY <1>0, <1>15 DEF ReportExit, ReportFailure, CheckInvocation, RecordVerified, Step, At, TypeOK, emission
<1> QED
  BY <1>3, <1>4, <1>5, <1>6, <1>7, <1>8, <1>9, <1>10, <1>11, <1>12, <1>13, <1>14, <1>15 DEF Thread

\* So does the main thread, of itself; or it ends as a thread did.
LEMMA MainGivesUp ==
  ASSUME TypeOK, Main
  PROVE  /\ pc'["main"] \in {"aborting", "aborted"} =>
              \/ stage'["main"] = "append" /\ pending'["main"].type = "run_failed"
              \/ pc["main"] \in {"aborting", "aborted"}
              \/ \E t \in Turns : pc[t] = "aborted" /\ stage[t] = "idle"
         /\ stage'["main"] = "append" /\ pending'["main"].type = "run_failed" =>
              pc'["main"] = "aborting"
<1>0. "main" \in Processes
  BY DEF Processes
<1>1. ASSUME NEW at, NEW event, NEW next, Emit("main", at, event, next)
      PROVE  pc'["main"] = next /\ stage'["main"] = "append" /\ pending'["main"] = event
  BY <1>0, <1>1 DEF Emit, TypeOK
<1>2. ASSUME NEW at, NEW type, NEW role, NEW failed, NEW parent, NEW next,
             Emit("main", at, Event(type, role, failed, parent), next)
      PROVE  pc'["main"] = next /\ stage'["main"] = "append" /\ pending'["main"].type = type
  BY <1>1, <1>2 DEF Event
<1>3. CASE \E t \in Turns : InputsMissing(t)
  <2>1. pc'["main"] = "aborting" /\ stage'["main"] = "append" /\ pending'["main"].type = "run_failed"
    BY <1>2, <1>3 DEF InputsMissing
  <2> QED
    BY <2>1
<1>4. CASE \E t \in Turns : StartTurn(t)
  <2>1. PICK t \in Turns : StartTurn(t)
    BY <1>4
  <2>2. pc'["main"] = Submit(t) /\ stage'["main"] = "append" /\ pending'["main"].type = "turn_started"
    BY <1>2, <2>1 DEF StartTurn
  <2> QED
    BY <2>2 DEF Submit
<1>5. CASE \E t \in Turns : SubmitTurn(t)
  BY <1>0, <1>5 DEF SubmitTurn, At, TypeOK, emission, Turns
<1>6. CASE Join
  <2>1. /\ pc'["main"] = IF Raised = "done" THEN "audit" ELSE Raised
        /\ stage'["main"] = "idle"
    BY <1>0, <1>6 DEF Join, Step, At, TypeOK, emission
  <2>2. \A t \in Turns : pc[t] \in {"done", "aborted", "crashed", "unsubmitted"} /\ stage[t] = "idle"
    BY <1>6 DEF Join, ThreadsEnded, ThreadEnded
  <2>3. Raised \in {"aborting", "aborted"} => \E t \in Turns : pc[t] = "aborted"
    BY <2>2 DEF Raised, Turns
  <2> QED
    BY <2>1, <2>2, <2>3
<1>7. CASE Unwind
  BY <1>0, <1>7 DEF Unwind, Step, At, TypeOK, emission
<1>8. CASE AuditPasses
  BY <1>0, <1>8 DEF AuditPasses, Step, At, TypeOK, emission
<1>9. CASE AuditFails
  <2>1. pc'["main"] = "aborting" /\ stage'["main"] = "append" /\ pending'["main"].type = "run_failed"
    BY <1>2, <1>9 DEF AuditFails
  <2> QED
    BY <2>1
<1> QED
  BY <1>3, <1>4, <1>5, <1>6, <1>7, <1>8, <1>9 DEF Main

\* What AppendEvent does to the recorded failures.
LEMMA FailureAppended ==
  ASSUME TypeOK, NEW p \in Processes, AppendEvent(p)
  PROVE  /\ FailureLogged => FailureLogged'
         /\ pending[p].type = "run_failed" => FailureLogged'
         /\ FailureLogged' => FailureLogged \/ pending[p].type = "run_failed"
<1>1. log' = Append(log, pending[p]) /\ pending[p] \in Events /\ log \in Seq(Events)
  BY DEF AppendEvent, TypeOK
<1>2. /\ Len(log) \in Nat
      /\ DOMAIN log = 1 .. Len(log)
      /\ DOMAIN log' = 1 .. Len(log) + 1
      /\ \A i \in 1 .. Len(log) : log'[i] = log[i]
      /\ log'[Len(log) + 1] = pending[p]
  BY <1>1, LogAppend
<1>3. \A i \in DOMAIN log : i \in DOMAIN log' /\ log'[i] = log[i]
  BY <1>2
<1>4. \A i \in DOMAIN log' : i \in DOMAIN log \/ log'[i] = pending[p]
  BY <1>2
<1>5. Len(log) + 1 \in DOMAIN log'
  BY <1>2
<1> QED
  BY <1>2, <1>3, <1>4, <1>5 DEF FailureLogged

\* Every step keeps Failures.
LEMMA NextFailures ==
  ASSUME TypeOK, Unsubmitted, Failures, [Next]_vars
  PROVE  Failures'
<1> USE DEF Failures
<1>0. "main" \in Processes /\ Turns \subseteq Processes /\ Processes = Turns \cup {"main"} /\ "main" \notin Turns
  BY DEF Processes, Turns
<1>1. ASSUME NEW p \in Processes, AppendEvent(p)
      PROVE  Failures'
  <2>1. /\ pc' = pc /\ pending' = pending /\ stage[p] = "append" /\ stage'[p] = "project"
        /\ \A q \in Processes \ {p} : stage'[q] = stage[q]
    BY <1>1 DEF AppendEvent, TypeOK
  <2>2. /\ FailureLogged => FailureLogged'
        /\ pending[p].type = "run_failed" => FailureLogged'
        /\ FailureLogged' => FailureLogged \/ pending[p].type = "run_failed"
    BY <1>1, FailureAppended
  <2> QED
    BY <2>1, <2>2
<1>2. log' = log => (FailureLogged' <=> FailureLogged)
  BY DEF FailureLogged
<1>3. ASSUME NEW p \in Processes, Project(p) \/ WriteStatus(p)
      PROVE  Failures'
  <2>1. /\ pc' = pc /\ log' = log /\ stage[p] # "append" /\ stage'[p] # "append"
        /\ \A q \in Processes \ {p} : stage'[q] = stage[q] /\ pending'[q] = pending[q]
    BY <1>3 DEF Project, WriteStatus, TypeOK
  <2> QED
    BY <1>2, <2>1
<1>4. ASSUME NEW p \in Processes, ProjectRaises(p)
      PROVE  Failures'
  <2>1. /\ log' = log /\ stage[p] # "append" /\ stage'[p] # "append"
        /\ pc'[p] \in {"crashing", "crashed"}
        /\ \A q \in Processes \ {p} : stage'[q] = stage[q] /\ pending'[q] = pending[q] /\ pc'[q] = pc[q]
    BY <1>4 DEF ProjectRaises, TypeOK
  <2> QED
    BY <1>2, <2>1
<1>r. ASSUME NEW p \in Processes, NextRecord(p)
      PROVE  Failures'
  <2>1. /\ pc' = pc /\ log' = log /\ stage[p] = "project"
        /\ pending'[p].type = "agent_liveness_observed"
        /\ \A q \in Processes \ {p} : stage'[q] = stage[q] /\ pending'[q] = pending[q]
    BY <1>r, RecordFrame
  <2> QED
    BY <1>2, <2>1
<1>5. ASSUME NEW t \in Turns, Thread(t)
      PROVE  Failures'
  <2>1. /\ log' = log /\ pc[t] \notin {"aborting", "aborted", "crashing", "crashed"}
        /\ \A q \in Processes \ {t} :
             pc'[q] = pc[q] /\ stage'[q] = stage[q] /\ pending'[q] = pending[q]
    BY <1>5, ThreadFrame
  <2>2. /\ pc'[t] = "aborted" => stage'[t] = "append" /\ pending'[t].type = "run_failed"
        /\ stage'[t] = "append" /\ pending'[t].type = "run_failed" => pc'[t] = "aborted"
        /\ pc'[t] # "aborting"
    BY <1>5, ThreadGivesUp, ThreadGoesOn
  <2> QED
    BY <1>2, <2>1, <2>2
<1>6. CASE Main
  <2>1. /\ log' = log /\ stage["main"] = "idle"
        /\ \A t \in Turns : stage'[t] = stage[t] /\ pending'[t] = pending[t]
    BY <1>6, MainFrame
  <2>2. \A t \in Turns : pc'[t] = pc[t] \/ (pc["main"] = Submit(t) /\ pc'[t] = "dispatch")
    BY <1>6, MainFrame
  <2>3. \A t \in Turns : pc["main"] = Submit(t) => pc[t] = "unsubmitted" /\ stage[t] = "idle"
    BY DEF Unsubmitted, Submit, Turns
  <2>4. /\ pc'["main"] \in {"aborting", "aborted"} =>
             \/ stage'["main"] = "append" /\ pending'["main"].type = "run_failed"
             \/ pc["main"] \in {"aborting", "aborted"}
             \/ \E t \in Turns : pc[t] = "aborted" /\ stage[t] = "idle"
        /\ stage'["main"] = "append" /\ pending'["main"].type = "run_failed" =>
             pc'["main"] = "aborting"
    BY <1>6, MainGivesUp
  <2>5. /\ pc["main"] \in {"crashing", "crashed"} => pc'["main"] \in {"crashing", "crashed"}
        /\ pc["main"] \in {"aborting", "aborted"} => pc'["main"] \in {"aborting", "aborted"}
    BY <1>6, MainExceptions
  <2>6. \A t \in Turns :
          /\ pc'[t] \in {"aborting", "aborted", "crashing", "crashed"} => pc'[t] = pc[t]
          /\ pc[t] \in {"aborting", "aborted", "crashing", "crashed"} => pc'[t] = pc[t]
          /\ stage[t] = "append" => pc'[t] = pc[t]
    BY <2>2, <2>3
  <2>7. pc'["main"] \in {"aborting", "aborted"} =>
          FailureLogged \/ (stage'["main"] = "append" /\ pending'["main"].type = "run_failed")
    BY <1>0, <2>1, <2>4
  <2>8. \A p \in Processes :
          /\ pc'[p] \in {"aborting", "aborted"} =>
               FailureLogged \/ (stage'[p] = "append" /\ pending'[p].type = "run_failed")
          /\ stage'[p] = "append" /\ pending'[p].type = "run_failed" => pc'[p] \in {"aborting", "aborted"}
    BY <1>0, <2>1, <2>4, <2>6, <2>7
  <2>9. FailureLogged => \E p \in Processes : pc'[p] \in {"aborting", "aborted", "crashing", "crashed"}
    BY <1>0, <2>5, <2>6
  <2> QED
    BY <1>2, <2>1, <2>8, <2>9
<1>7. CASE Tick \/ UNCHANGED vars
  BY <1>2, <1>7 DEF Tick, vars, emission
<1> QED
  BY <1>1, <1>3, <1>4, <1>5, <1>6, <1>7, <1>r DEF Next, Emission

\* A thread's own step, by what it does to its result and to lastFailure: it
\* ends the agent, clears or sets the field, or judges by it.
LEMMA ThreadJudges ==
  ASSUME TypeOK, Trail, Judged, NEW t \in Turns, Thread(t)
  PROVE  /\ Success => Success'
         /\ lastFailure' = 0 => lastFailure = 0 \/ Success'
         /\ result'[t] = "timeout" =>
              pc'[t] \in {"report", "report2", "check", "fail", "aborted", "crashed"}
         /\ pc'[t] \in {"unsubmitted", "dispatch", "invoke", "wait"} => result'[t] = "none"
         /\ pc'[t] = "check" => lastFailure' # 0 \/ Success'
         /\ pc'[t] \in {"verify", "verified", "unverified", "done"} => Success'
<1> USE DEF Judged
<1>0. t \in Processes /\ TrailOf(t)
  BY DEF Processes, Trail
<1>1. ASSUME NEW at, NEW event, NEW next, Emit(t, at, event, next)
      PROVE  pc[t] = at /\ pc'[t] = next /\ lastFailure' = lastFailure
  BY <1>0, <1>1 DEF Emit, At, TypeOK, shared
<1>2. ASSUME NEW at, NEW next, Step(t, at, next)
      PROVE  pc[t] = at /\ stage[t] = "idle" /\ pc'[t] = next /\ result' = result
  BY <1>0, <1>2 DEF Step, At, TypeOK
<1>3. result' = result => (Success' <=> Success)
  BY DEF Success
<1>4. ASSUME NEW r \in {"succeeded", "failed", "timeout"}, result[t] = "none",
             result' = [result EXCEPT ![t] = r]
      PROVE  (Success => Success') /\ result'[t] = r
  BY <1>4 DEF Success, TypeOK
<1>5. CASE RenderPrompt(t)
  <2>1. pc[t] = "dispatch" /\ pc'[t] = "invoke" /\ lastFailure' = lastFailure /\ result' = result
    BY <1>1, <1>5 DEF RenderPrompt
  <2> QED
    BY <1>3, <2>1
<1>6. CASE RefusePrompt(t)
  <2>1. pc[t] = "dispatch" /\ pc'[t] = "refused" /\ lastFailure' = lastFailure /\ result' = result
    BY <1>1, <1>6 DEF RefusePrompt
  <2> QED
    BY <1>3, <2>1
<1>7. CASE FailRefused(t)
  <2>1. pc[t] = "refused" /\ pc'[t] = "aborted" /\ lastFailure' = lastFailure /\ result' = result
    BY <1>1, <1>7 DEF FailRefused
  <2> QED
    BY <1>3, <2>1
<1>8. CASE InvokeAgent(t)
  <2>1. pc[t] = "invoke" /\ pc'[t] = "wait" /\ lastFailure' = lastFailure /\ result' = result
    BY <1>1, <1>8 DEF InvokeAgent
  <2> QED
    BY <1>3, <2>1
<1>9. CASE PollLiveness(t)
  <2>1. PICK event : Emit(t, "wait", event, "wait") /\ result' = result
    BY <1>9 DEF PollLiveness
  <2>2. pc[t] = "wait" /\ pc'[t] = "wait" /\ lastFailure' = lastFailure
    BY <1>1, <2>1
  <2> QED
    BY <1>3, <2>1, <2>2
<1>10. CASE AgentSucceeds(t) \/ AgentFails(t) \/ AgentTimesOut(t)
  <2>1. pc[t] = "wait" /\ pc'[t] = "report" /\ lastFailure' = lastFailure
    BY <1>1, <1>10 DEF AgentSucceeds, AgentFails, AgentTimesOut
  <2>2. PICK r \in {"succeeded", "failed", "timeout"} : result' = [result EXCEPT ![t] = r]
    BY <1>10 DEF AgentSucceeds, AgentFails, AgentTimesOut
  <2>3. (Success => Success') /\ result'[t] = r
    BY <1>4, <2>1, <2>2
  <2> QED
    BY <2>1, <2>3
<1>11. CASE ReportExit(t)
  <2>1. pc[t] = "report" /\ pc'[t] = "report2" /\ lastFailure' = lastFailure /\ result' = result
    BY <1>2, <1>11 DEF ReportExit
  <2> QED
    BY <1>3, <2>1
<1>12. CASE ReportFailure(t)
  <2>1. pc[t] = "report2" /\ stage[t] = "idle" /\ pc'[t] = "check" /\ result' = result
    BY <1>2, <1>12 DEF ReportFailure
  <2>2. result[t] \in {"succeeded", "failed", "timeout"}
    BY <1>0, <2>1 DEF TrailOf, TypeOK
  <2>3. CASE result[t] = "succeeded"
    BY <1>3, <2>1, <2>3 DEF Success
  <2>4. CASE result[t] = "failed"
    <3>1. Own(t, "agent_exited") # 0
      BY <1>0, <2>1, <2>4, Found, LenProperties DEF TrailOf, Due, Appending, TypeOK
    <3>2. lastFailure' = Own(t, "agent_exited")
      BY <1>12, <2>4 DEF ReportFailure
    <3> QED
      BY <1>3, <2>1, <2>4, <3>1, <3>2
  <2>5. CASE result[t] = "timeout"
    <3>1. Own(t, "timeout_triggered") # 0
      BY <1>0, <2>1, <2>5, Found, LenProperties DEF TrailOf, Due, Appending, TypeOK
    <3>2. lastFailure' = Own(t, "timeout_triggered")
      BY <1>12, <2>5 DEF ReportFailure
    <3> QED
      BY <1>3, <2>1, <2>5, <3>1, <3>2
  <2> QED
    BY <2>2, <2>3, <2>4, <2>5
<1>13. CASE CheckInvocation(t)
  <2>1. /\ pc[t] = "check" /\ result' = result /\ lastFailure' = lastFailure
        /\ pc'[t] = IF result[t] = "timeout" \/ lastFailure # 0 THEN "fail" ELSE "verify"
    BY <1>2, <1>13 DEF CheckInvocation, shared
  <2> QED
    BY <1>3, <2>1
<1>14. CASE FailInvocation(t)
  <2>1. pc[t] = "fail" /\ pc'[t] = "aborted" /\ lastFailure' = lastFailure /\ result' = result
    BY <1>1, <1>14 DEF FailInvocation
  <2> QED
    BY <1>3, <2>1
<1>15. CASE OutputsVerified(t)
  <2>1. pc[t] = "verify" /\ pc'[t] = "verified" /\ lastFailure' = lastFailure /\ result' = result
    BY <1>1, <1>15 DEF OutputsVerified
  <2> QED
    BY <1>3, <2>1
<1>16. CASE OutputsRefused(t)
  <2>1. pc[t] = "verify" /\ pc'[t] = "unverified" /\ lastFailure' = lastFailure /\ result' = result
    BY <1>1, <1>16 DEF OutputsRefused
  <2> QED
    BY <1>3, <2>1
<1>17. CASE FailUnverified(t)
  <2>1. pc[t] = "unverified" /\ pc'[t] = "aborted" /\ lastFailure' = lastFailure /\ result' = result
    BY <1>1, <1>17 DEF FailUnverified
  <2> QED
    BY <1>3, <2>1
<1>18. CASE RecordVerified(t)
  <2>1. pc[t] = "verified" /\ pc'[t] = "done" /\ lastFailure' = lastFailure /\ result' = result
    BY <1>2, <1>18 DEF RecordVerified
  <2> QED
    BY <1>3, <2>1
<1> QED
  BY <1>5, <1>6, <1>7, <1>8, <1>9, <1>10, <1>11, <1>12, <1>13, <1>14, <1>15, <1>16, <1>17,
     <1>18 DEF Thread

\* Every step keeps Judged.
LEMMA NextJudged ==
  ASSUME TypeOK, Trail, Unsubmitted, Judged, [Next]_vars
  PROVE  Judged'
<1> USE DEF Judged
<1>0. "main" \in Processes /\ Turns \subseteq Processes /\ "main" \notin Turns
  BY DEF Processes, Turns
<1>1. result' = result => (Success' <=> Success)
  BY DEF Success
<1>2. ASSUME NEW p \in Processes, Emission(p)
      PROVE  Judged'
  <2>1. /\ result' = result /\ lastFailure' = lastFailure
        /\ \A t \in Turns : pc'[t] = pc[t] \/ pc'[t] = "crashed"
    <3>1. CASE AppendEvent(p)
      BY <3>1 DEF AppendEvent, shared
    <3>2. CASE Project(p)
      BY <3>2 DEF Project, shared
    <3>3. CASE ProjectRaises(p)
      BY <1>0, <3>3 DEF ProjectRaises, shared, TypeOK
    <3>4. CASE WriteStatus(p)
      BY <3>4 DEF WriteStatus, shared
    <3>5. CASE NextRecord(p)
      BY <3>5, RecordFrame DEF shared
    <3> QED
      BY <1>2, <3>1, <3>2, <3>3, <3>4, <3>5 DEF Emission
  <2> QED
    BY <1>1, <2>1
<1>3. ASSUME NEW t \in Turns, Thread(t)
      PROVE  Judged'
  <2>1. \A u \in Turns \ {t} : pc'[u] = pc[u] /\ result'[u] = result[u]
    BY <1>0, <1>3, ThreadFrame
  <2>2. /\ Success => Success'
        /\ lastFailure' = 0 => lastFailure = 0 \/ Success'
        /\ result'[t] = "timeout" =>
             pc'[t] \in {"report", "report2", "check", "fail", "aborted", "crashed"}
        /\ pc'[t] \in {"unsubmitted", "dispatch", "invoke", "wait"} => result'[t] = "none"
        /\ pc'[t] = "check" => lastFailure' # 0 \/ Success'
        /\ pc'[t] \in {"verify", "verified", "unverified", "done"} => Success'
    BY <1>3, ThreadJudges
  <2>3. \A u \in Turns \ {t} :
          /\ result'[u] = "timeout" =>
               pc'[u] \in {"report", "report2", "check", "fail", "aborted", "crashed"}
          /\ pc'[u] \in {"unsubmitted", "dispatch", "invoke", "wait"} => result'[u] = "none"
          /\ pc'[u] = "check" => lastFailure' # 0 \/ Success'
          /\ pc'[u] \in {"verify", "verified", "unverified", "done"} => Success'
    BY <2>1, <2>2
  <2> QED
    BY <2>2, <2>3
<1>4. CASE Main
  <2>1. result' = result /\ lastFailure' = lastFailure
    BY <1>4, MainFrame DEF shared
  <2>2. \A t \in Turns : pc'[t] = pc[t] \/ (pc["main"] = Submit(t) /\ pc'[t] = "dispatch")
    BY <1>4, MainFrame
  <2>3. \A t \in Turns : pc["main"] = Submit(t) => pc[t] = "unsubmitted"
    BY DEF Unsubmitted, Submit, Turns
  <2> QED
    BY <1>1, <2>1, <2>2, <2>3
<1>5. CASE Tick \/ UNCHANGED vars
  <2>1. result' = result /\ lastFailure' = lastFailure /\ pc' = pc
    BY <1>5 DEF Tick, vars, shared
  <2> QED
    BY <1>1, <2>1
<1> QED
  BY <1>2, <1>3, <1>4, <1>5 DEF Next

----------------------------------------------------------------------------
(* Who writes status.json last *)

\* Only a thread whose agent runs, or has just ended, emits without event_lock.
Unlocked ==
  \A p \in Processes : stage[p] # "idle" /\ ~Locked(pending[p]) => pc[p] \in {"wait", "report"}

\* From here a process has an emission under event_lock still to begin.
Owing(p) ==
  pc[p] \in {"dispatch", "refused", "invoke", "wait", "report", "report2", "check", "fail", "verify",
             "unverified", "startB", "submitB", "startC", "submitC"}

\* A process that will still write the projection of the whole log, unless the
\* log grows again.
Owes(p) ==
  Owing(p) \/ stage[p] \in {"append", "project"} \/ (stage[p] = "write" /\ seen[p] = Len(log))

\* While the log is legal and status.json behind it, somebody will write it again.
Catching == Projectable(log) => status = Len(log) \/ \E p \in Processes : Owes(p)

\* If the one who holds event_lock is about to write an old projection, it is because
\* of another, who has an emission under event_lock still to begin, or to append.
Outpaced ==
  Projectable(log) =>
    \A p \in Processes : stage[p] = "write" /\ Locked(pending[p]) /\ seen[p] # Len(log) =>
      \E q \in Processes \ {p} : Owing(q) \/ stage[q] = "append"

\* Main ends when the threads have ended.
Ended == pc["main"] \in MainEnded => ThreadsEnded /\ stage["main"] = "idle"

\* What a thread emits without event_lock, and that it does not stop short of its
\* emission under it.
LEMMA ThreadOwes ==
  ASSUME TypeOK, NEW t \in Turns, Thread(t)
  PROVE  /\ Owing(t) => Owing(t)' \/ stage'[t] = "append"
         /\ stage'[t] # "idle" /\ ~Locked(pending'[t]) => pc'[t] \in {"wait", "report"}
<1> USE DEF TypeOK, Processes, At
<1>1. ASSUME NEW at, NEW event, NEW next, Emit(t, at, event, next)
      PROVE  stage'[t] = "append" /\ pending'[t] = event /\ pc'[t] = next
  BY <1>1 DEF Emit
<1>2. ASSUME NEW at, NEW next, Step(t, at, next)
      PROVE  stage'[t] = "idle" /\ pc[t] = at /\ pc'[t] = next
  BY <1>2 DEF Step, emission
<1>3. CASE RenderPrompt(t) \/ RefusePrompt(t) \/ FailRefused(t)
  <2>1. stage'[t] = "append" /\ pending'[t].type \in {"prompt_rendered", "run_failed"}
    BY <1>1, <1>3 DEF RenderPrompt, RefusePrompt, FailRefused, Event
  <2> QED
    BY <2>1 DEF Locked
<1>4. CASE InvokeAgent(t)
  BY <1>1, <1>4 DEF InvokeAgent
<1>5. CASE PollLiveness(t)
  <2>1. PICK ts : Emit(t, "wait", [Event("agent_liveness_observed", RoleOf(t), FALSE, Own(t, "agent_invoked"))
                          EXCEPT !.ts = ts], "wait")
    BY <1>5 DEF PollLiveness
  <2> QED
    BY <1>1, <2>1
<1>6. CASE AgentSucceeds(t) \/ AgentFails(t) \/ AgentTimesOut(t)
  BY <1>1, <1>6 DEF AgentSucceeds, AgentFails, AgentTimesOut
<1>7. CASE FailInvocation(t) \/ OutputsVerified(t) \/ OutputsRefused(t) \/ FailUnverified(t)
  <2>1. stage'[t] = "append" /\ pending'[t].type \in {"output_verified", "run_failed"}
    BY <1>1, <1>7 DEF FailInvocation, OutputsVerified, OutputsRefused, FailUnverified, Event
  <2> QED
    BY <2>1 DEF Locked
<1>8. CASE ReportExit(t) \/ ReportFailure(t) \/ CheckInvocation(t) \/ RecordVerified(t)
  <2>1. stage'[t] = "idle" /\ (pc[t] = "verified" \/ pc'[t] \in {"report2", "check", "fail", "verify"})
    BY <1>2, <1>8 DEF ReportExit, ReportFailure, CheckInvocation, RecordVerified
  <2> QED
    BY <2>1 DEF Owing
<1> QED
  BY <1>3, <1>4, <1>5, <1>6, <1>7, <1>8 DEF Thread

\* The same of the main thread, which hands over to the threads it submits.
LEMMA MainOwes ==
  ASSUME TypeOK, Main
  PROVE  /\ Owing("main") => \/ Owing("main")' \/ stage'["main"] = "append"
                             \/ \E t \in Turns : pc["main"] = Submit(t) /\ pc'[t] = "dispatch"
         /\ stage'["main"] # "idle" => Locked(pending'["main"])
<1> USE DEF TypeOK, Processes, At
<1>1. ASSUME NEW at, NEW event, NEW next, Emit("main", at, event, next)
      PROVE  stage'["main"] = "append" /\ pending'["main"] = event /\ pc'["main"] = next
  BY <1>1 DEF Emit
<1>2. ASSUME NEW at, NEW next, Step("main", at, next)
      PROVE  stage'["main"] = "idle" /\ pc["main"] = at /\ pc'["main"] = next
  BY <1>2 DEF Step, emission
<1>3. ASSUME NEW t \in Turns, InputsMissing(t) \/ StartTurn(t) PROVE
        stage'["main"] = "append" /\ Locked(pending'["main"])
  BY <1>1, <1>3 DEF InputsMissing, StartTurn, Locked, Event
<1>4. ASSUME NEW t \in Turns, SubmitTurn(t)
      PROVE  pc["main"] = Submit(t) /\ pc'[t] = "dispatch" /\ stage'["main"] = "idle"
  BY <1>4 DEF SubmitTurn, emission, Turns
<1>5. CASE Join \/ Unwind \/ AuditPasses
  BY <1>2, <1>5 DEF Join, Unwind, AuditPasses, Owing
<1>6. CASE AuditFails
  BY <1>1, <1>6 DEF AuditFails, Locked, Event
<1> QED
  BY <1>3, <1>4, <1>5, <1>6 DEF Main

\* A thread that is submitted was in no emission.
LEMMA SubmitFrame ==
  ASSUME TypeOK, Unsubmitted, NEW t \in Turns, SubmitTurn(t)
  PROVE  stage[t] = "idle" /\ pc'[t] = "dispatch"
BY DEF SubmitTurn, At, Unsubmitted, Submit, Turns, Processes, TypeOK

\* Every step keeps Unlocked.
LEMMA NextUnlocked ==
  ASSUME TypeOK, Unsubmitted, Unlocked, [Next]_vars
  PROVE  Unlocked'
<1> USE DEF Unlocked
<1>0. Turns \subseteq Processes /\ Processes = Turns \cup {"main"}
  BY DEF Processes
<1>1. ASSUME NEW p \in Processes, AppendEvent(p) \/ Project(p) \/ WriteStatus(p) \/ ProjectRaises(p)
      PROVE  Unlocked'
  <2>1. /\ stage[p] # "idle" /\ (stage'[p] = "idle" \/ (pending'[p] = pending[p] /\ pc'[p] = pc[p]))
        /\ \A q \in Processes \ {p} : pc'[q] = pc[q] /\ stage'[q] = stage[q] /\ pending'[q] = pending[q]
    BY <1>1 DEF AppendEvent, Project, WriteStatus, ProjectRaises, TypeOK
  <2> QED
    BY <2>1 DEF Locked
<1>2. ASSUME NEW p \in Processes, NextRecord(p) PROVE Unlocked'
  <2>1. /\ stage[p] # "idle" /\ pc' = pc /\ pending[p].type = "agent_liveness_observed"
        /\ \A q \in Processes \ {p} : stage'[q] = stage[q] /\ pending'[q] = pending[q]
    BY <1>2, RecordFrame DEF NextRecord
  <2>2. pc'[p] \in {"wait", "report"}
    BY <2>1 DEF Locked
  <2> QED
    BY <2>1, <2>2 DEF Locked
<1>3. ASSUME NEW t \in Turns, Thread(t) PROVE Unlocked'
  <2>1. \A q \in Processes \ {t} : pc'[q] = pc[q] /\ stage'[q] = stage[q] /\ pending'[q] = pending[q]
    BY <1>3, ThreadFrame
  <2> QED
    BY <1>3, <2>1, ThreadOwes DEF Locked
<1>4. CASE Main
  <2>1. \A t \in Turns : /\ stage'[t] = stage[t] /\ pending'[t] = pending[t]
                         /\ pc'[t] = pc[t] \/ SubmitTurn(t)
    BY <1>4, MainFrame
  <2>2. ASSUME NEW t \in Turns, SubmitTurn(t) PROVE stage'[t] = "idle"
    BY <2>1, <2>2, SubmitFrame
  <2> QED
    BY <1>0, <1>4, <2>1, <2>2, MainOwes DEF Locked
<1>5. CASE Tick \/ UNCHANGED vars
  BY <1>5 DEF Tick, vars, emission, Locked
<1> QED
  BY <1>1, <1>2, <1>3, <1>4, <1>5 DEF Next, Emission

\* Every step keeps Ended.
LEMMA NextEnded ==
  ASSUME TypeOK, Joined, Ended, [Next]_vars
  PROVE  Ended'
<1> USE DEF Ended, MainEnded
<1>0. "main" \in Processes /\ Turns \subseteq Processes /\ Processes = Turns \cup {"main"} /\ "main" \notin Turns
  BY DEF Processes, Turns
<1>1. ASSUME NEW p \in Processes, AppendEvent(p) \/ Project(p) \/ WriteStatus(p) \/ ProjectRaises(p) \/ NextRecord(p)
      PROVE  Ended'
  <2>1. /\ stage[p] # "idle" /\ (pc'[p] = pc[p] \/ pc'[p] = IF p = "main" THEN "crashing" ELSE "crashed")
        /\ \A q \in Processes \ {p} : pc'[q] = pc[q] /\ stage'[q] = stage[q]
    BY <1>1, RecordFrame DEF AppendEvent, Project, WriteStatus, ProjectRaises, TypeOK
  <2>2. pc["main"] \notin MainEnded
    BY <1>0, <2>1 DEF ThreadsEnded
  <2> QED
    BY <1>0, <2>1, <2>2
<1>2. ASSUME NEW t \in Turns, Thread(t) PROVE Ended'
  <2>1. /\ pc[t] \notin ThreadEnded \cup {"unsubmitted"}
        /\ \A q \in Processes \ {t} : pc'[q] = pc[q] /\ stage'[q] = stage[q]
    BY <1>2, ThreadFrame DEF ThreadEnded
  <2> QED
    BY <1>0, <2>1 DEF ThreadsEnded
<1>3. CASE Main
  <2>1. pc["main"] \notin MainEnded
    BY <1>3, MainFrame
  <2>2. CASE \E t \in Turns : InputsMissing(t) \/ StartTurn(t) \/ SubmitTurn(t)
    <3>1. pc'["main"] \notin {"passed", "aborted", "crashed"}
      <4>1. CASE \E t \in Turns : InputsMissing(t)
        BY <1>0, <4>1 DEF InputsMissing, Emit, TypeOK
      <4>2. CASE \E t \in Turns : StartTurn(t)
        BY <1>0, <4>2 DEF StartTurn, Emit, Submit, TypeOK
      <4>3. CASE \E t \in Turns : SubmitTurn(t)
        BY <1>0, <4>3 DEF SubmitTurn, TypeOK
      <4> QED
        BY <2>2, <4>1, <4>2, <4>3
    <3> QED
      BY <3>1
  <2>3. CASE Join \/ Unwind
    <3>1. ThreadsEnded /\ stage["main"] = "idle" /\ stage' = stage /\ \A t \in Turns : pc'[t] = pc[t]
      BY <1>0, <2>3 DEF Join, Unwind, Step, At, TypeOK, emission
    <3> QED
      BY <3>1 DEF ThreadsEnded
  <2>4. CASE AuditPasses
    <3>1. /\ pc["B"] \in {"done", "unsubmitted"} /\ pc["C"] = "done" /\ \A p \in Processes : stage[p] = "idle"
          /\ stage' = stage /\ \A t \in Turns : pc'[t] = pc[t]
      BY <1>0, <2>4 DEF AuditPasses, Step, At, Joined, emission, TypeOK
    <3> QED
      BY <1>0, <3>1 DEF ThreadsEnded, ThreadEnded, Turns
  <2>5. CASE AuditFails
    BY <1>0, <2>5 DEF AuditFails, Emit, TypeOK
  <2> QED
    BY <1>3, <2>2, <2>3, <2>4, <2>5 DEF Main
<1>4. CASE Tick \/ UNCHANGED vars
  BY <1>4 DEF Tick, vars, emission, ThreadsEnded
<1> QED
  BY <1>1, <1>2, <1>3, <1>4 DEF Next, Emission

\* Every step keeps Catching and Outpaced: who appends owes a projection, who writes
\* an old one has an emission to begin or leaves that to another, and a thread that
\* runs on, or hands over, does not stop before its emission.
LEMMA NextCatching ==
  ASSUME TypeOK, ParentsLogged, Unsubmitted, Unlocked, Catching, Outpaced, [Next]_vars
  PROVE  Catching' /\ Outpaced'
<1> USE DEF Owes
<1>0. "main" \in Processes /\ Turns \subseteq Processes /\ Processes = Turns \cup {"main"} /\ "main" \notin Turns
  BY DEF Processes, Turns
<1>1. ASSUME NEW p \in Processes, AppendEvent(p) PROVE Catching' /\ Outpaced'
  <2>1. /\ stage'[p] = "project" /\ pc' = pc /\ pending' = pending /\ seen' = seen
        /\ \A q \in Processes \ {p} : stage'[q] = stage[q]
        /\ stage[p] = "append" /\ (Locked(pending[p]) => LockFree)
    BY <1>1 DEF AppendEvent, TypeOK
  <2>2. Catching'
    BY <2>1 DEF Catching
  <2>3. ASSUME NEW q \in Processes, stage'[q] = "write", Locked(pending'[q])
        PROVE  q # p /\ Owing(p)'
    <3>1. q # p /\ stage[q] = "write" /\ Locked(pending[q])
      BY <2>1, <2>3
    <3>2. ~Locked(pending[p])
      BY <2>1, <3>1 DEF LockFree
    <3>3. pc[p] \in {"wait", "report"}
      BY <2>1, <3>2 DEF Unlocked
    <3> QED
      BY <2>1, <3>1, <3>3 DEF Owing
  <2> QED
    BY <2>2, <2>3 DEF Outpaced, Locked
<1>2. ASSUME NEW p \in Processes, Project(p) PROVE Catching' /\ Outpaced'
  <2>1. /\ stage'[p] = "write" /\ seen'[p] = Len(log') /\ log' = log /\ status' = status
        /\ pc' = pc /\ pending' = pending /\ stage[p] = "project"
        /\ \A q \in Processes \ {p} : stage'[q] = stage[q] /\ seen'[q] = seen[q]
    BY <1>2 DEF Project, TypeOK
  <2>2. Catching'
    BY <2>1 DEF Catching
  <2> QED
    BY <2>1, <2>2 DEF Outpaced, Owing, Locked
<1>3. ASSUME NEW p \in Processes, ProjectRaises(p) PROVE Catching' /\ Outpaced'
  <2>1. log' = log /\ ~Projectable(log)
    BY <1>3 DEF ProjectRaises
  <2> QED
    BY <2>1 DEF Catching, Outpaced
<1>4. ASSUME NEW p \in Processes, WriteStatus(p) PROVE Catching' /\ Outpaced'
  <2>1. /\ stage'[p] = "idle" /\ status' = seen[p] /\ log' = log /\ pc' = pc /\ stage[p] = "write"
        /\ \A q \in Processes \ {p} :
             stage'[q] = stage[q] /\ seen'[q] = seen[q] /\ pending'[q] = pending[q]
    BY <1>4 DEF WriteStatus, TypeOK
  <2>2. \A q \in Processes : Owing(q)' <=> Owing(q)
    BY <2>1 DEF Owing
  <2>3. Outpaced'
    BY <2>1, <2>2 DEF Outpaced, Locked
  <2>4. ASSUME Projectable(log), seen[p] # Len(log) PROVE \E q \in Processes : Owes(q)'
    <3>1. CASE ~Locked(pending[p])
      <4>1. Owing(p)
        BY <2>1, <3>1 DEF Unlocked, Owing
      <4> QED
        BY <2>2, <4>1
    <3>2. CASE Locked(pending[p])
      <4>1. PICK q \in Processes \ {p} : Owing(q) \/ stage[q] = "append"
        BY <2>1, <2>4, <3>2 DEF Outpaced
      <4> QED
        BY <2>1, <2>2, <4>1
    <3> QED
      BY <3>1, <3>2
  <2>5. Catching'
    BY <2>1, <2>4 DEF Catching
  <2> QED
    BY <2>3, <2>5
<1>5. ASSUME NEW p \in Processes, NextRecord(p) PROVE Catching' /\ Outpaced'
  <2>1. /\ stage[p] = "project" /\ stage'[p] = "append" /\ pc' = pc /\ log' = log /\ seen' = seen
        /\ \A q \in Processes \ {p} : stage'[q] = stage[q] /\ pending'[q] = pending[q]
    BY <1>5, RecordFrame DEF NextRecord
  <2>2. Catching'
    BY <2>1 DEF Catching
  <2> QED
    BY <2>1, <2>2 DEF Outpaced, Owing, Locked
<1>6. ASSUME NEW t \in Turns, Thread(t) PROVE Catching' /\ Outpaced'
  <2>1. /\ log' = log /\ status' = status /\ seen' = seen
        /\ stage[t] = "idle" /\ stage'[t] \in {"idle", "append"}
        /\ \A q \in Processes \ {t} : pc'[q] = pc[q] /\ stage'[q] = stage[q] /\ pending'[q] = pending[q]
    BY <1>6, ThreadFrame
  <2>2. Owing(t) => Owing(t)' \/ stage'[t] = "append"
    BY <1>6, ThreadOwes
  <2>3. \A q \in Processes \ {t} : Owing(q)' <=> Owing(q)
    BY <2>1 DEF Owing
  <2>4. \A q \in Processes : Owing(q) \/ stage[q] = "append" => Owing(q)' \/ stage'[q] = "append"
    BY <2>1, <2>2, <2>3
  <2>5. \A q \in Processes : Owes(q) => Owes(q)'
    BY <2>1, <2>2, <2>3
  <2>6. Catching'
    BY <2>1, <2>5 DEF Catching
  <2>7. Outpaced'
    BY <2>1, <2>4 DEF Outpaced, Locked
  <2> QED
    BY <2>6, <2>7
<1>7. CASE Main
  <2>1. /\ log' = log /\ status' = status /\ seen' = seen
        /\ stage["main"] = "idle" /\ stage'["main"] \in {"idle", "append"}
        /\ \A t \in Turns : /\ stage'[t] = stage[t] /\ pending'[t] = pending[t]
                            /\ pc'[t] = pc[t] \/ SubmitTurn(t)
    BY <1>7, MainFrame
  <2>2. \A t \in Turns : pc'[t] = pc[t] \/ (pc'[t] = "dispatch" /\ stage[t] = "idle")
    BY <2>1, SubmitFrame
  <2>3. \A t \in Turns : Owing(t) => Owing(t)'
    BY <2>2 DEF Owing
  <2>4. \/ Owing("main") => Owing("main")' \/ stage'["main"] = "append"
        \/ \E t \in Turns : Owing(t)' /\ stage[t] = "idle"
    <3>1. ASSUME NEW t \in Turns, pc["main"] = Submit(t), pc'[t] = "dispatch"
          PROVE  Owing(t)' /\ stage[t] = "idle"
      <4>1. pc[t] = "unsubmitted" /\ stage[t] = "idle"
        BY <3>1 DEF Unsubmitted, Submit, Turns
      <4> QED
        BY <3>1, <4>1 DEF Owing
    <3> QED
      BY <1>7, <3>1, MainOwes
  <2>5. Catching'
    <3>1. CASE \E t \in Turns : Owing(t)'
      BY <1>0, <3>1 DEF Catching
    <3>2. CASE Owing("main") => Owing("main")' \/ stage'["main"] = "append"
      <4>1. \A q \in Processes : Owes(q) => Owes(q)'
        BY <1>0, <2>1, <2>3, <3>2
      <4> QED
        BY <2>1, <4>1 DEF Catching
    <3> QED
      BY <2>4, <3>1, <3>2
  <2>6. Outpaced'
    <3> SUFFICES ASSUME Projectable(log'), NEW p \in Processes,
                        stage'[p] = "write", Locked(pending'[p]), seen'[p] # Len(log')
                 PROVE  \E q \in Processes \ {p} : Owing(q)' \/ stage'[q] = "append"
      BY DEF Outpaced, Locked
    <3>1. p \in Turns /\ stage[p] = "write" /\ Locked(pending[p]) /\ seen[p] # Len(log)
      BY <1>0, <2>1
    <3>2. PICK q \in Processes \ {p} : Owing(q) \/ stage[q] = "append"
      BY <2>1, <3>1 DEF Outpaced
    <3>3. CASE q = "main"
      BY <1>0, <2>1, <2>4, <3>1, <3>2, <3>3
    <3>4. CASE q \in Turns
      BY <2>1, <2>3, <3>2, <3>4
    <3> QED
      BY <1>0, <3>3, <3>4
  <2> QED
    BY <2>5, <2>6
<1>8. CASE Tick \/ UNCHANGED vars
  <2>1. log' = log /\ status' = status /\ seen' = seen /\ stage' = stage /\ pending' = pending /\ pc' = pc
    BY <1>8 DEF Tick, vars, emission
  <2> QED
    BY <2>1 DEF Catching, Outpaced, Owing, Locked
<1> QED
  BY <1>1, <1>2, <1>3, <1>4, <1>5, <1>6, <1>7, <1>8 DEF Next, Emission

----------------------------------------------------------------------------
(* The inductive invariant, and the theorems *)

IInv ==
  /\ TypeOK /\ ParentsLogged /\ Trail
  /\ Unsubmitted /\ Legality /\ Projections /\ StatusProjectable
  /\ Failures /\ Joined /\ Judged
  /\ Unlocked /\ Catching /\ Outpaced /\ Ended

\* The run starts with a legal log: run_started and preflight_passed.
LEMMA InitProjectable ==
  ASSUME Init
  PROVE  Projectable(log)
<1> DEFINE e == [NoEvent EXCEPT !.type = "preflight_passed", !.parent = RunStarted]
<1>1. /\ e.type = "preflight_passed" /\ e.parent = 1 /\ e.ts = 0
      /\ NoEvent.type = "run_started" /\ NoEvent.parent = 0 /\ NoEvent.ts = 0
  BY DEF NoEvent, RunStarted
<1>2. PARENT_RULES["run_started"] = {} /\ PARENT_RULES["preflight_passed"] = {"run_started"}
  BY DEF PARENT_RULES
<1> HIDE DEF e
<1>3. DOMAIN log = {1, 2} /\ log[1] = NoEvent /\ log[2] = e
  BY DEF Init, e
<1>4. \A i, j \in DOMAIN log : log[j].type \notin TerminalTypes
  BY <1>1, <1>3 DEF TerminalTypes
<1>5. \A i \in DOMAIN log : NotAfterTerminal(log, i)
  BY <1>4 DEF NotAfterTerminal
<1>6. validate_parent(log, 1)
  BY <1>1, <1>2, <1>3 DEF validate_parent
<1>7. validate_parent(log, 2)
  <2>1. Before(log, 1, 2)
    BY <1>1, <1>3 DEF Before
  <2>2. ParentFits(e, NoEvent)
    BY <1>1 DEF ParentFits
  <2> QED
    BY <1>1, <1>2, <1>3, <2>1, <2>2 DEF validate_parent
<1> QED
  BY <1>3, <1>5, <1>6, <1>7 DEF Projectable

\* A run that has just started satisfies the invariant.
LEMMA InitIInv ==
  ASSUME Init
  PROVE  IInv
<1>1. TypeOK /\ ParentsLogged
  BY InitTypes
<1>2. Projectable(log)
  BY InitProjectable
<1>3. /\ \A p \in Processes : stage[p] = "idle"
      /\ \A t \in Turns : pc[t] = "unsubmitted" /\ result[t] = "none"
      /\ pc["main"] \in {"startB", "startC"}
      /\ "main" \in Processes /\ Turns \subseteq Processes /\ Turns = {"B", "C"}
      /\ Processes = Turns \cup {"main"}
  BY DEF Init, Processes, Turns
<1>4. Trail
  BY <1>3 DEF Trail, TrailOf, Submit
<1>5. Unsubmitted /\ Projections /\ Joined
  BY <1>3 DEF Unsubmitted, Projections, Joined
<1>6. Legality
  BY <1>2, <1>3 DEF Legality
<1>7. StatusProjectable
  <2>1. status = Len(log) /\ log \in Seq(Events)
    BY <1>1 DEF Init, TypeOK
  <2> QED
    BY <1>2, <2>1, SubSeqFull DEF StatusProjectable
<1>8. Failures
  <2>1. ~FailureLogged
    <3> DEFINE e == [NoEvent EXCEPT !.type = "preflight_passed", !.parent = RunStarted]
    <3>1. e.type = "preflight_passed" /\ NoEvent.type = "run_started"
      BY DEF NoEvent
    <3> HIDE DEF e
    <3>2. DOMAIN log = {1, 2} /\ log[1] = NoEvent /\ log[2] = e
      BY DEF Init, e
    <3> QED
      BY <3>1, <3>2 DEF FailureLogged
  <2>2. \A p \in Processes : pc[p] \notin {"aborting", "aborted"}
    BY <1>3
  <2> QED
    BY <1>3, <2>1, <2>2 DEF Failures
<1>9. Judged
  BY <1>3 DEF Judged
<1>10. Unlocked /\ Outpaced /\ Ended
  BY <1>3 DEF Unlocked, Outpaced, Ended, MainEnded
<1>11. Catching
  <2>1. status = Len(log)
    BY DEF Init
  <2> QED
    BY <2>1 DEF Catching
<1> QED
  BY <1>1, <1>4, <1>5, <1>6, <1>7, <1>8, <1>9, <1>10, <1>11 DEF IInv

\* No step leaves the invariant.
LEMMA NextIInv ==
  ASSUME IInv, [Next]_vars
  PROVE  IInv'
<1> USE DEF IInv
<1>1. TypeOK' /\ ParentsLogged'
  BY NextTypes
<1>2. Trail'
  BY NextTrail
<1>3. Unsubmitted' /\ Legality'
  BY NextUnsubmitted, NextLegality
<1>4. Projections' /\ StatusProjectable'
  BY NextProjections
<1>5. Failures' /\ Joined' /\ Judged'
  BY NextFailures, NextJoined, NextJudged
<1>6. Unlocked' /\ Catching' /\ Outpaced' /\ Ended'
  BY NextUnlocked, NextCatching, NextEnded
<1> QED
  BY <1>1, <1>2, <1>3, <1>4, <1>5, <1>6

\* IInv holds in every state that run_turn_bc() reaches.
LEMMA Invariance == Spec => []IInv
<1>1. Init => IInv
  BY InitIInv
<1>2. IInv /\ [Next]_vars => IInv'
  BY NextIInv
<1> QED
  BY <1>1, <1>2, PTL DEF Spec

\* Every field keeps its type, and every event id that a thread or the main
\* thread holds is that of an event in the log, for every bound.
THEOREM TypeCorrect == Spec => []TypeOK
<1>1. IInv => TypeOK
  BY DEF IInv
<1> QED
  BY <1>1, Invariance, PTL

\* However the three writers' projections interleave, status.json is always the
\* projection of a prefix of events.jsonl that the projection accepts.
THEOREM StatusCorrect == Spec => []StatusProjectable
<1>1. IInv => StatusProjectable
  BY DEF IInv
<1> QED
  BY <1>1, Invariance, PTL

\* run_turn_bc() returns only with a legal log without run_failed, aborts only
\* with run_failed in the log, and crashes only on an illegal log.
THEOREM OutcomeCorrect == Spec => []OutcomeExplained
<1>1. IInv => OutcomeExplained
  <2> SUFFICES ASSUME IInv PROVE OutcomeExplained
    OBVIOUS
  <2> USE DEF IInv
  <2>0. "main" \in Processes /\ Processes = {"B", "C", "main"}
    BY DEF Processes, Turns
  <2>1. ASSUME pc["main"] = "passed"
        PROVE  Projectable(log) /\ ~FailureLogged
    <3>1. \A p \in Processes :
            stage[p] = "idle" /\ pc[p] \notin {"aborting", "aborted", "crashing", "crashed"}
      <4>1. pc["B"] \in {"done", "unsubmitted"} /\ pc["C"] = "done" /\ \A p \in Processes : stage[p] = "idle"
        BY <2>1 DEF Joined
      <4> QED
        BY <2>0, <2>1, <4>1
    <3> QED
      BY <3>1 DEF Legality, Failures
  <2>2. pc["main"] = "aborted" => FailureLogged
    BY <2>0 DEF Failures, Joined
  <2>3. pc["main"] = "crashed" => ~Projectable(log)
    BY <2>0 DEF Legality
  <2> QED
    BY <2>1, <2>2, <2>3 DEF OutcomeExplained, FailureLogged
<1> QED
  BY <1>1, Invariance, PTL

\* Past a timeout there is no way to pass, and none without a success, although
\* the shared fields that record them can be overwritten.
THEOREM PassCorrect == Spec => []PassEarned
<1>1. IInv => PassEarned
  BY DEF IInv, PassEarned, Joined, Judged, Success, Submitted, Turns
<1> QED
  BY <1>1, Invariance, PTL

\* A run that ended with a legal log leaves in status.json the projection of all of
\* it, although two of the three writers of status.json take no lock.
THEOREM CurrentCorrect == Spec => []StatusCurrent
<1>1. IInv => StatusCurrent
  <2> SUFFICES ASSUME IInv, pc["main"] \in MainEnded, Projectable(log) PROVE status = Len(log)
    BY DEF StatusCurrent
  <2>1. ThreadsEnded /\ stage["main"] = "idle"
    BY DEF IInv, Ended
  <2>2. \A p \in Processes : stage[p] = "idle" /\ pc[p] \in ThreadEnded \cup {"unsubmitted", "passed"}
    BY <2>1 DEF ThreadsEnded, ThreadEnded, MainEnded, Processes
  <2>3. \A p \in Processes : ~Owes(p)
    BY <2>2 DEF Owes, Owing, ThreadEnded
  <2> QED
    BY <2>3 DEF IInv, Catching
<1> QED
  BY <1>1, Invariance, PTL

=============================================================================
