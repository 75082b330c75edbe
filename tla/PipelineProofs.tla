--------------------------- MODULE PipelineProofs ---------------------------
(***************************************************************************)
(* Theorems about Pipeline, for any launches, modes and number of         *)
(* attempts: its types; that a run which has passed has earned it; that    *)
(* the status page tells the truth about the run it names; how a run ends, *)
(* and that it is tried no more often than it may; and that Pipeline       *)
(* implements BuildLoop.                                                   *)
(***************************************************************************)
EXTENDS Pipeline, SequenceTheorems, FiniteSetTheorems, WellFoundedInduction, TLAPS

----------------------------------------------------------------------------
(* Where a run is *)

Prompted == {"dispatch", "invoke", "wait", "version", "evidence", "outputs", "verdict"}

At(p, places) == prompt = p /\ pc \in places

\* Past its preparations, and not on its way to run_failed.
Working == pc \in Going \ {"preflight", "prepare", "failing"}

\* From which point on something has been done, in this attempt or for good.
Scored == pc \in {"auditE", "converge"} \/ At("turn_e_eval", {"verdict"})
InTurnE == pc \in {"startE", "hash", "auditE", "converge"} \/ At("turn_e_eval", Prompted)
Built == pc = "auditD" \/ InTurnE
Approved == Built \/ At("turn_d_build", Prompted)
Reviewed == Approved \/ At("turn_d_review", {"verdict"})
Gated == Approved \/ At("turn_d_review", Prompted)
Planned ==
  \/ pc \in {"auditBC", "checkpointBC", "startD", "attempt", "retryReview", "escalate", "retryEval"}
  \/ Gated \/ At("turn_d_13q", Prompted)
BeforeBC == pc \in {"startA", "auditA", "checkpointA", "startBC", "inBC"} \/ At("turn_a_spec", Prompted)
Specified == pc \in {"auditA", "checkpointA", "startBC", "inBC"} \/ Planned

Early == BeforeBC \/ pc \in {"auditBC", "checkpointBC"}

Places ==
  /\ run = 0 <=> pc = "ready"
  /\ pc \in Prompted => prompt \in Prompts
  /\ pc \in {"hash", "auditE"} => prompt = "turn_e_eval"
  /\ pc \in {"version", "evidence", "verdict"} => prompt # "turn_a_spec"
  /\ pc \in {"evidence", "verdict"} => prompt # "turn_d_13q"
  /\ pc = "verdict" => prompt # "turn_d_build"
  /\ pc = "auditD" => prompt = "turn_d_build"

Attempts ==
  /\ pc \in Prompted \cup {"auditA", "auditD", "startE", "hash", "auditE", "converge"} => attempt > 0
  /\ Early => attempt <= 1
  /\ pc = "startD" => attempt < MaxAttempts

Lineages ==
  /\ lineage \subseteq 1 .. run
  /\ \A i \in DOMAIN past : past[i].root < i

TypeInv == TypeOK /\ Places /\ Attempts /\ Lineages

----------------------------------------------------------------------------
(* Types *)

\* What is assumed of the constants.
LEMMA Constants ==
  /\ MaxAttempts \in Nat /\ MaxAttempts > 1
  /\ \A l \in Launches : l \in Seq(TurnNames)
BY PipelineAssumption

StatusTypes == [state : States, attempt : 0 .. MaxAttempts, worker : {"unknown", "alive", "exited"}]

\* An event that the orchestrator emits is an event.
LEMMA EventTypes ==
  ASSUME NEW type \in EVENT_TYPES, NEW role \in PipelineRoles, NEW failed \in BOOLEAN, NEW parent \in Nat, NEW att \in Nat
  PROVE  /\ Event(type, role, failed, parent, att) \in PipelineEvents
         /\ Event(type, role, failed, parent, att).type = type
         /\ Event(type, role, failed, parent, att).attempt = att
BY DEF Event, PipelineEvents

\* The event types that the actions use are among those of the log.
LEMMA EventNames ==
  {"run_started", "preflight_passed", "turn_started", "prompt_rendered", "agent_invoked", "agent_exited",
   "timeout_triggered", "output_verified", "review_verdict_recorded", "evaluation_verdict_recorded",
   "retry_started", "escalation_triggered", "turn_completed", "run_completed", "run_failed"} \subseteq EVENT_TYPES
BY DEF EVENT_TYPES, PARENT_RULES

\* The roles that the actions use are the roles.
LEMMA RoleNames ==
  {"orchestrator", "spec-agent", "holdout-agent", "builder", "reviewer", "evaluator"} = PipelineRoles
BY DEF PipelineRoles

\* An event makes a status of a status (project_status()).
LEMMA AppliedTypes ==
  ASSUME NEW st \in StatusTypes, NEW e \in PipelineEvents, e.attempt \in 0 .. MaxAttempts
  PROVE  Applied(st, e) \in StatusTypes
<1>1. StateAfter(st.state, e) \in States
  BY DEF StateAfter, States, StatusTypes
<1> QED
  BY <1>1 DEF Applied, StatusTypes

\* What emit() does to the log: one event more, and perhaps the end of the process.
LEMMA EmitLog ==
  ASSUME LogTypes, NEW e \in PipelineEvents, e.attempt \in 0 .. MaxAttempts, NEW next, Emit(e, next)
  PROVE  /\ log' = Append(log, e)
         /\ log' \in Seq(PipelineEvents)
         /\ Len(log) \in Nat /\ Len(log') = Len(log) + 1
         /\ status' \in StatusTypes
         /\ pc' = next \/ pc' = "crashed"
<1>2. log' = Append(log, e) /\ (status' = status \/ status' = Applied(status, e)) /\ (pc' = next \/ pc' = "crashed")
  BY DEF Emit
<1>3. log \in Seq(PipelineEvents) /\ status \in StatusTypes
  BY DEF LogTypes, StatusTypes
<1>4. Applied(status, e) \in StatusTypes
  BY <1>3, AppliedTypes
<1>5. Append(log, e) \in Seq(PipelineEvents) /\ Len(log) \in Nat /\ Len(Append(log, e)) = Len(log) + 1
  BY <1>3, AppendProperties, LenProperties
<1> QED
  BY <1>2, <1>3, <1>4, <1>5

\* The roles that are named, the types, and the attempt an emission carries.
LEMMA Named ==
  /\ \A p \in Prompts : RoleOf[p] \in PipelineRoles /\ Outputs[p] \in Groups
  /\ \A p \in Judged : p \in Prompts /\ RoleOf[p] \in Witnesses
BY DEF Prompts, RoleOf, PipelineRoles, Outputs, Groups, Judged, Witnesses

\* The attempt of the projection is within the budget.
LEMMA CurrentAttemptType == TypeOK => CurrentAttempt \in 0 .. MaxAttempts
BY Constants DEF TypeOK, ControlTypes, CurrentAttempt

\* Before the first run the types hold.
LEMMA InitTypes == Init => TypeInv
<1> SUFFICES ASSUME Init PROVE TypeInv
  OBVIOUS
<1>1. DiskTypes
  <2>1. files \in [Groups -> {Missing, Partial, 0}]
    BY DEF Init
  <2>2. NoEvidence \in [run : 0 .. 0, attempt : 0 .. MaxAttempts]
    BY Constants DEF NoEvidence
  <2>3. evidence \in [Witnesses -> [run : 0 .. 0, attempt : 0 .. MaxAttempts]]
    BY <2>2 DEF Init
  <2>4. verdicts \in [review : Verdicts.review, evaluation : Verdicts.evaluation]
    BY DEF Init, Verdicts
  <2>5. run = 0
    BY DEF Init
  <2> QED
    BY <2>1, <2>3, <2>4, <2>5 DEF DiskTypes
<1>2. PageTypes
  BY DEF Init, PageTypes, States, Verdicts
<1>3. RunTypes
  <2>1. launches \in Seq(TurnNames) /\ Len(launches) \in Nat
    BY Constants, LenProperties DEF Init
  <2> QED
    BY <2>1 DEF Init, RunTypes
<1>4. LogTypes
  <2>1. log \in Seq(PipelineEvents) /\ Len(log) = 0
    BY DEF Init
  <2>2. status = [state |-> "running", attempt |-> 0, worker |-> "unknown"] /\ "running" \in States /\ 0 \in 0 .. MaxAttempts
    BY Constants DEF Init, NewStatus, States
  <2>3. ids \in [IdNames -> 0 .. Len(log)] /\ cause \in 0 .. Len(log)
    BY <2>1 DEF Init, NoIds
  <2> QED
    BY <2>1, <2>2, <2>3 DEF LogTypes, Init
<1>5. ControlTypes
  <2>1. pc = "ready" /\ prompt = "none" /\ attempt = 0
    BY DEF Init
  <2>2. passed \in BOOLEAN /\ fresh \in BOOLEAN
    BY DEF Init
  <2>3. 0 \in 0 .. MaxAttempts /\ "ready" \in Ended
    BY Constants DEF Ended
  <2> QED
    BY <2>1, <2>2, <2>3 DEF ControlTypes
<1>6. Places /\ Attempts /\ Lineages
  BY Constants DEF Init, Places, Attempts, Lineages, Prompted, Early, BeforeBC, At
<1> QED
  BY <1>1, <1>2, <1>3, <1>4, <1>5, <1>6 DEF TypeInv, TypeOK

\* A nonempty set of numbers has a least one, and, up to a bound, a greatest.
LEMMA LeastOf ==
  ASSUME NEW S \in SUBSET Nat, S # {}
  PROVE  \E n \in S : \A k \in S : n <= k
<1> DEFINE Less == OpToRel(<, Nat)
<1>1. IsWellFoundedOn(Less, Nat)
  BY NatLessThanWellFounded
<1>2. \A k, n \in Nat : k < n => <<k, n>> \in Less
  BY DEF OpToRel
<1> HIDE DEF Less
<1>3. PICK n \in S : \A m \in S : <<m, n>> \notin Less
  BY <1>1, WFMin
<1>4. n \in Nat /\ \A m \in S : m \in Nat /\ ~(m < n)
  BY <1>2, <1>3
<1> QED
  BY <1>4

\* A set of numbers with a bound has a greatest.
LEMMA GreatestOf ==
  ASSUME NEW S \in SUBSET Nat, S # {}, NEW b \in Nat, \A k \in S : k <= b
  PROVE  \E n \in S : \A k \in S : k <= n
<1> DEFINE Below == {b - k : k \in S}
<1>1. Below \in SUBSET Nat /\ Below # {}
  <2>1. \A k \in S : b - k \in Nat
    OBVIOUS
  <2>2. PICK k \in S : TRUE
    OBVIOUS
  <2>3. b - k \in Below
    BY <2>2
  <2> QED
    BY <2>1, <2>3
<1>2. PICK d \in Below : \A m \in Below : d <= m
  <2> HIDE DEF Below
  <2> QED
    BY <1>1, LeastOf
<1>3. PICK n \in S : d = b - n
  BY <1>2
<1>4. \A k \in S : b - n <= b - k
  BY <1>2, <1>3
<1> QED
  BY <1>3, <1>4

Pasts == Seq([state : States, derivable : BOOLEAN, root : Nat])

\* Every run that is resumed, and its root, is an earlier one.
LEMMA ResumedIsEarlier ==
  ASSUME NEW runs \in Pasts, runs # <<>>, \A i \in DOMAIN runs : runs[i].root < i
  PROVE  Resumed(runs) \in 1 .. Len(runs) /\ Root(runs) \in 1 .. Len(runs)
<1> DEFINE interrupted == {i \in DOMAIN runs : runs[i].state = "interrupted"}
<1>1. Len(runs) \in Nat /\ DOMAIN runs = 1 .. Len(runs) /\ Len(runs) # 0
  BY LenProperties, EmptySeq DEF Pasts
<1>2. \A i \in DOMAIN runs : runs[i].root \in Nat
  <2>1. \A i \in 1 .. Len(runs) : runs[i] \in [state : States, derivable : BOOLEAN, root : Nat]
    BY ElementOfSeq DEF Pasts
  <2> QED
    BY <1>1, <2>1
<1>3. Resumed(runs) \in 1 .. Len(runs)
  <2>1. CASE interrupted = {}
    BY <1>1, <2>1 DEF Resumed
  <2>2. CASE interrupted # {}
    <3>1. \E i \in interrupted : \A j \in interrupted : j <= i
      <4>1. interrupted \in SUBSET Nat /\ \A i \in interrupted : i <= Len(runs)
        BY <1>1
      <4> HIDE DEF interrupted
      <4> QED
        BY <1>1, <2>2, <4>1, GreatestOf
    <3>2. (CHOOSE i \in interrupted : \A j \in interrupted : j <= i) \in interrupted
      BY <3>1
    <3> QED
      BY <1>1, <2>2, <3>2 DEF Resumed
  <2> QED
    BY <2>1, <2>2
<1>4. Root(runs) \in 1 .. Len(runs)
  <2>1. runs[Resumed(runs)].root \in Nat /\ runs[Resumed(runs)].root < Resumed(runs)
    BY <1>1, <1>2, <1>3
  <2> QED
    BY <1>1, <1>3, <2>1 DEF Root
<1> QED
  BY <1>3, <1>4

\* The root of a lineage is an earlier run.
LEMMA RootIsEarlier ==
  ASSUME NEW n \in Nat, lineage \subseteq 1 .. n
  PROVE  RootOf \in 0 .. n
<1>1. CASE lineage = {}
  BY <1>1 DEF RootOf
<1>2. CASE lineage # {}
  <2>1. \E r \in lineage : \A i \in lineage : r <= i
    BY <1>2, LeastOf
  <2>2. RootOf \in lineage
    BY <1>2, <2>1 DEF RootOf
  <2> QED
    BY <2>2
<1> QED
  BY <1>1, <1>2

\* A new run, over what the runs before it have left.
LEMMA LaunchTypes == TypeInv /\ Launch => TypeInv'
<1> SUFFICES ASSUME TypeInv, Launch PROVE TypeInv'
  OBVIOUS
<1>1. /\ run' = run + 1 /\ run < Len(launches) /\ pc' = "preflight"
      /\ prompt' = "none" /\ attempt' = 0 /\ passed' = FALSE /\ ids' = NoIds /\ cause' = 0 /\ fresh' = FALSE
      /\ UNCHANGED <<launches, mode, files, evidence, verdicts, page>>
  BY DEF Launch, shared, disk
<1>2. run \in 0 .. Len(launches) /\ Len(launches) \in Nat /\ run \in Nat /\ run' \in 0 .. Len(launches)
  <2>1. launches \in Seq(TurnNames)
    BY Constants DEF TypeInv, TypeOK, RunTypes
  <2> QED
    BY <1>1, <2>1, LenProperties DEF TypeInv, TypeOK, RunTypes
<1>3. DiskTypes' /\ PageTypes'
  <2>1. 0 .. run \subseteq 0 .. run'
    BY <1>1, <1>2
  <2> QED
    BY <1>1, <2>1 DEF TypeInv, TypeOK, DiskTypes, PageTypes
<1>4. LogTypes'
  <2> DEFINE e == Event("run_started", "orchestrator", FALSE, 0, 0)
  <2>1. e \in PipelineEvents
    BY EventNames, RoleNames DEF Event, PipelineEvents
  <2>2. log' \in Seq(PipelineEvents) /\ Len(log') \in Nat /\ Len(log') > 0
    <3>1. log' = <<e>>
      BY DEF Launch
    <3> HIDE DEF e
    <3>2. log' \in Seq(PipelineEvents)
      BY <2>1, <3>1
    <3>3. Len(log') = 1
      BY <3>1
    <3> QED
      BY <3>2, <3>3
  <2>3. status' \in StatusTypes
    BY Constants DEF Launch, NewStatus, StatusTypes, States
  <2> QED
    BY <1>1, <2>2, <2>3 DEF LogTypes, StatusTypes, NoIds
<1>5. ControlTypes'
  <2>1. passed' \in BOOLEAN /\ fresh' \in BOOLEAN
    BY <1>1
  <2>2. 0 \in 0 .. MaxAttempts /\ pc' \in Alive
    BY <1>1, Constants DEF Alive, Going
  <2> QED
    BY <1>1, <2>1, <2>2 DEF ControlTypes
<1>6. /\ past' \in Pasts /\ Len(past') = run
      /\ \A i \in DOMAIN past' : past'[i].root < i
  <2> DEFINE last == [state |-> Projected, derivable |-> Projectable(log), root |-> RootOf]
             before == IF run = 0 THEN past ELSE Append(past, last)
             Row == [state : States, derivable : BOOLEAN, root : Nat]
  <2>1. past \in Seq(Row) /\ Len(past) \in Nat /\ (Len(past) = IF run = 0 THEN 0 ELSE run - 1)
    BY LenProperties DEF TypeInv, TypeOK, RunTypes
  <2>2. RootOf \in 0 .. Len(past)
    BY <2>1, RootIsEarlier DEF TypeInv, TypeOK, RunTypes
  <2>3. last \in Row /\ last.root = RootOf
    <3>1. Projected \in States
      BY DEF TypeInv, TypeOK, LogTypes, Projected, States
    <3>2. Projectable(log) \in BOOLEAN
      BY DEF Projectable
    <3>3. RootOf \in Nat
      BY <2>1, <2>2
    <3> QED
      BY <3>1, <3>2, <3>3
  <2>4. before \in Seq(Row) /\ Len(before) = run /\ \A i \in 1 .. run : before[i].root < i
    <3> HIDE DEF last, Row
    <3>1. \A i \in DOMAIN past : past[i].root < i
      BY DEF TypeInv, Lineages
    <3>2. DOMAIN past = 1 .. Len(past)
      BY <2>1, LenProperties
    <3>3. CASE run = 0
      BY <2>1, <3>1, <3>2, <3>3
    <3>4. CASE run # 0
      <4>1. /\ before = Append(past, last) /\ before \in Seq(Row) /\ Len(before) = Len(past) + 1
            /\ \A i \in 1 .. Len(past) : before[i] = past[i]
            /\ before[Len(past) + 1] = last
        BY <2>1, <2>3, <3>4, AppendProperties
      <4>2. last.root < Len(past) + 1
        BY <2>1, <2>2, <2>3
      <4>3. ASSUME NEW i \in 1 .. run PROVE before[i].root < i
        <5>1. CASE i \in 1 .. Len(past)
          BY <3>1, <3>2, <4>1, <5>1
        <5>2. CASE i = Len(past) + 1
          BY <4>1, <4>2, <5>2
        <5> QED
          BY <1>2, <2>1, <3>4, <5>1, <5>2
      <4> HIDE DEF before
      <4> QED
        BY <1>2, <2>1, <3>4, <4>1, <4>3
    <3> QED
      BY <3>3, <3>4
  <2>5. PICK quiet \in SUBSET (1 .. run) : past' = Scanned(before, quiet)
    BY DEF Launch
  <2> HIDE DEF before, last
  <2>6. DOMAIN before = 1 .. run
    BY <2>4, LenProperties
  <2>7. \A i \in 1 .. run : before[i] \in Row
    BY <2>4, ElementOfSeq
  <2>8. /\ past' = [i \in 1 .. run |-> past'[i]]
        /\ \A i \in 1 .. run : past'[i] \in Row /\ past'[i].root < i
    BY <2>4, <2>5, <2>6, <2>7 DEF Scanned, States
  <2>9. past' \in Seq(Row) /\ Len(past') = run /\ DOMAIN past' = 1 .. run
    <3>1. past' \in [1 .. run -> Row]
      BY <2>8
    <3>2. past' \in Seq(Row)
      <4> HIDE DEF Row
      <4>1. Seq(Row) = UNION {[1 .. n -> Row] : n \in Nat}
        BY SeqDef
      <4> QED
        BY <1>2, <3>1, <4>1
    <3>3. Len(past') \in Nat /\ 1 .. Len(past') = 1 .. run
      BY <3>1, <3>2, LenProperties
    <3>4. Len(past') = run
      BY <1>2, <3>3
    <3> QED
      BY <3>1, <3>2, <3>4
  <2> QED
    BY <2>8, <2>9 DEF Pasts
<1>7. lineage' \subseteq 1 .. run
  <2>1. CASE past' # <<>>
    <3>1. Resumed(past') \in 1 .. run /\ Root(past') \in 1 .. run
      BY <1>6, <2>1, ResumedIsEarlier
    <3> QED
      BY <3>1 DEF Launch
  <2>2. CASE past' = <<>>
    BY <2>2 DEF Launch
  <2> QED
    BY <2>1, <2>2
<1>8. RunTypes'
  BY <1>1, <1>2, <1>6, <1>7 DEF RunTypes, Pasts, TypeInv, TypeOK
<1>9. Places' /\ Attempts' /\ Lineages'
  BY <1>1, <1>2, <1>6, <1>7, Constants DEF Places, Attempts, Lineages, Prompted, Early, BeforeBC, At
<1> QED
  BY <1>3, <1>4, <1>5, <1>8, <1>9 DEF TypeInv, TypeOK

\* The types of the log after an emission.
LEMMA EmitTypes ==
  ASSUME TypeInv,
         NEW type \in EVENT_TYPES, NEW role \in PipelineRoles, NEW failed \in BOOLEAN,
         NEW parent \in Nat, NEW att \in 0 .. MaxAttempts, NEW next,
         Emit(Event(type, role, failed, parent, att), next),
         ids' \in [IdNames -> 0 .. NewId], cause' \in 0 .. NewId
  PROVE  LogTypes' /\ (pc' = next \/ pc' = "crashed")
<1> DEFINE e == Event(type, role, failed, parent, att)
<1>1. log \in Seq(PipelineEvents) /\ Len(log) \in Nat
  BY LenProperties DEF TypeInv, TypeOK, LogTypes
<1>2. e \in PipelineEvents /\ e.attempt \in 0 .. MaxAttempts
  BY <1>1, EventTypes, Constants
<1>3. /\ log' \in Seq(PipelineEvents) /\ Len(log') = NewId /\ Len(log') > 0
      /\ status' \in StatusTypes
      /\ pc' = next \/ pc' = "crashed"
  <2> HIDE DEF e
  <2> QED
    BY <1>2, EmitLog DEF TypeInv, TypeOK, NewId, e
<1> QED
  BY <1>3 DEF LogTypes, StatusTypes

\* The ids that a run keeps name events of its log.
LEMMA IdTypes ==
  ASSUME TypeInv
  PROVE  /\ Len(log) \in Nat /\ RunStarted \in Nat /\ RunStarted \in 0 .. NewId /\ NewId \in 0 .. NewId
         /\ ids \in [IdNames -> 0 .. NewId] /\ cause \in 0 .. NewId
         /\ \A n \in IdNames : ids[n] \in Nat /\ ids[n] \in 0 .. Len(log) /\ [ids EXCEPT ![n] = NewId] \in [IdNames -> 0 .. NewId]
         /\ cause \in 0 .. Len(log) /\ cause \in Nat
<1>1. Len(log) \in Nat
  BY LenProperties DEF TypeInv, TypeOK, LogTypes
<1>2. NewId \in Nat /\ NewId = Len(log) + 1
  BY <1>1 DEF NewId
<1> QED
  BY <1>1, <1>2 DEF TypeInv, TypeOK, LogTypes, RunStarted

\* A step that leaves the files and the page alone.
LEMMA QuietTypes ==
  ASSUME TypeInv, Same, UNCHANGED <<disk, page>>, LogTypes', ControlTypes', Places', Attempts'
  PROVE  TypeInv'
BY DEF TypeInv, TypeOK, Same, shared, disk, DiskTypes, PageTypes, RunTypes, Lineages

\* A step that leaves the files alone and may write the page.
LEMMA PageTypesKept ==
  ASSUME TypeInv, run > 0, NEW f \in [Groups -> {Missing, Partial} \cup 0 .. run],
         NEW v \in [review : Verdicts.review, evaluation : Verdicts.evaluation], NEW st \in StatusTypes
  PROVE  Updated(f, v, st) \in [managed : BOOLEAN, run : 0 .. run, state : States, done : SUBSET TurnNames,
                                label : Verdicts.evaluation \cup {"PENDING"}]
<1>1. run \in 0 .. run /\ st.state \in States /\ Done(f) \in SUBSET TurnNames
  BY DEF TypeInv, TypeOK, RunTypes, StatusTypes, Done
<1>2. Label(f, v) \in Verdicts.evaluation \cup {"PENDING"}
  BY DEF Label
<1>3. page \in [managed : BOOLEAN, run : 0 .. run, state : States, done : SUBSET TurnNames,
                label : Verdicts.evaluation \cup {"PENDING"}]
  BY DEF TypeInv, TypeOK, PageTypes
<1> QED
  BY <1>1, <1>2, <1>3 DEF Updated

\* Types, where the page is rewritten from files that stay.
LEMMA WritingTypes ==
  ASSUME TypeInv, Same, run > 0, UNCHANGED disk, page' = Updated(files, verdicts, status),
         LogTypes', ControlTypes', Places', Attempts'
  PROVE  TypeInv'
<1>1. PageTypes'
  BY PageTypesKept DEF TypeInv, TypeOK, DiskTypes, LogTypes, StatusTypes, PageTypes, Same
<1> QED
  BY <1>1 DEF TypeInv, TypeOK, Same, shared, disk, DiskTypes, RunTypes, Lineages

\* There is a run, once one has been launched.
LEMMA RunPositive == TypeInv /\ pc # "ready" => run \in Nat /\ run > 0
BY DEF TypeInv, TypeOK, RunTypes, Places

\* A step that emits nothing leaves the log as it is; run_started is always in it.
LEMMA SilentTypes ==
  ASSUME TypeInv, pc # "ready", UNCHANGED <<log, status, run>>,
         ids' = ids, cause' \in {cause, RunStarted} \cup {ids[n] : n \in IdNames}
  PROVE  LogTypes'
<1>1. Len(log) \in Nat /\ Len(log) > 0
  BY RunPositive, LenProperties DEF TypeInv, TypeOK, LogTypes
<1>2. cause' \in 0 .. Len(log)
  BY <1>1, IdTypes DEF RunStarted
<1> QED
  BY <1>1, <1>2 DEF TypeInv, TypeOK, LogTypes

\* Where a step has led, and what it has made of prompt and attempt.
LEMMA ControlKept ==
  ASSUME TypeInv, pc # "ready", UNCHANGED <<run, control>>, fresh' \in BOOLEAN,
         pc' \in (Ended \cup Alive) \ {"ready"}
  PROVE  ControlTypes'
BY DEF TypeInv, TypeOK, ControlTypes, control

\* PreflightPasses (preflight()) keeps the types.
LEMMA PreflightPassesTypes == TypeInv /\ PreflightPasses => TypeInv'
<1> SUFFICES ASSUME TypeInv, PreflightPasses PROVE TypeInv'
  OBVIOUS
<1>1. /\ RunStarted \in Nat /\ 0 \in 0 .. MaxAttempts
      /\ ids' \in [IdNames -> 0 .. NewId] /\ cause' \in 0 .. NewId
  BY IdTypes, Named, CurrentAttemptType, Constants DEF PreflightPasses, IdNames, TypeInv, TypeOK, ControlTypes, Places, Attempts, Prompted
<1>2. LogTypes' /\ (pc' = "prepare" \/ pc' = "crashed")
  <2>1. Emit(Event("preflight_passed", "orchestrator", FALSE, RunStarted, 0), "prepare")
    BY DEF PreflightPasses
  <2> QED
    BY <1>1, <2>1, EmitTypes, EventNames, RoleNames
<1>3. ControlTypes' /\ Places' /\ Attempts' /\ run > 0
  BY <1>1, <1>2, RunPositive, Constants DEF PreflightPasses, Same, control, TypeInv, TypeOK, ControlTypes, Places, Attempts, Ended, Alive, Going, Prompted, Early, BeforeBC, At
<1> QED
  BY <1>2, <1>3, QuietTypes DEF PreflightPasses

\* PreflightFails (fail_preflight()) keeps the types.
LEMMA PreflightFailsTypes == TypeInv /\ PreflightFails => TypeInv'
<1> SUFFICES ASSUME TypeInv, PreflightFails PROVE TypeInv'
  OBVIOUS
<1>1. /\ RunStarted \in Nat /\ 0 \in 0 .. MaxAttempts
      /\ ids' \in [IdNames -> 0 .. NewId] /\ cause' \in 0 .. NewId
  BY IdTypes, Named, CurrentAttemptType, Constants DEF PreflightFails, IdNames, TypeInv, TypeOK, ControlTypes, Places, Attempts, Prompted
<1>2. LogTypes' /\ (pc' = "failing" \/ pc' = "crashed")
  <2>1. Emit(Event("preflight_passed", "orchestrator", TRUE, RunStarted, 0), "failing")
    BY DEF PreflightFails
  <2> QED
    BY <1>1, <2>1, EmitTypes, EventNames, RoleNames
<1>3. ControlTypes' /\ Places' /\ Attempts' /\ run > 0
  BY <1>1, <1>2, RunPositive, Constants DEF PreflightFails, Same, control, TypeInv, TypeOK, ControlTypes, Places, Attempts, Ended, Alive, Going, Prompted, Early, BeforeBC, At
<1> QED
  BY <1>2, <1>3, QuietTypes DEF PreflightFails

\* FailRun (record_run_failed()) keeps the types.
LEMMA FailRunTypes == TypeInv /\ FailRun => TypeInv'
<1> SUFFICES ASSUME TypeInv, FailRun PROVE TypeInv'
  OBVIOUS
<1>1. /\ cause \in Nat /\ CurrentAttempt \in 0 .. MaxAttempts
      /\ ids' \in [IdNames -> 0 .. NewId] /\ cause' \in 0 .. NewId
  BY IdTypes, Named, CurrentAttemptType, Constants DEF FailRun, IdNames, TypeInv, TypeOK, ControlTypes, Places, Attempts, Prompted
<1>2. LogTypes' /\ (pc' = "aborted" \/ pc' = "crashed")
  <2>1. Emit(Event("run_failed", "orchestrator", TRUE, cause, CurrentAttempt), "aborted")
    BY DEF FailRun
  <2> QED
    BY <1>1, <2>1, EmitTypes, EventNames, RoleNames
<1>3. ControlTypes' /\ Places' /\ Attempts' /\ run > 0
  BY <1>1, <1>2, RunPositive, Constants DEF FailRun, Same, control, TypeInv, TypeOK, ControlTypes, Places, Attempts, Ended, Alive, Going, Prompted, Early, BeforeBC, At
<1> QED
  BY <1>2, <1>3, QuietTypes DEF FailRun

\* RenderPrompt (invoke_prompt()) keeps the types.
LEMMA RenderPromptTypes == TypeInv /\ RenderPrompt => TypeInv'
<1> SUFFICES ASSUME TypeInv, RenderPrompt PROVE TypeInv'
  OBVIOUS
<1>1. /\ prompt \in Prompts /\ Role \in PipelineRoles
      /\ ids.turn \in Nat /\ CurrentAttempt \in 0 .. MaxAttempts
      /\ ids' \in [IdNames -> 0 .. NewId] /\ cause' \in 0 .. NewId
  BY IdTypes, Named, CurrentAttemptType, Constants DEF RenderPrompt, IdNames, TypeInv, TypeOK, ControlTypes, Places, Attempts, Prompted, Role
<1>2. LogTypes' /\ (pc' = "invoke" \/ pc' = "crashed")
  <2>1. Emit(Event("prompt_rendered", Role, FALSE, ids.turn, CurrentAttempt), "invoke")
    BY DEF RenderPrompt
  <2> QED
    BY <1>1, <2>1, EmitTypes, EventNames, RoleNames
<1>3. ControlTypes' /\ Places' /\ Attempts' /\ run > 0
  BY <1>1, <1>2, RunPositive, Constants DEF RenderPrompt, Same, control, TypeInv, TypeOK, ControlTypes, Places, Attempts, Ended, Alive, Going, Prompted, Early, BeforeBC, At
<1> QED
  BY <1>2, <1>3, QuietTypes DEF RenderPrompt

\* RefusePrompt (invoke_prompt()) keeps the types.
LEMMA RefusePromptTypes == TypeInv /\ RefusePrompt => TypeInv'
<1> SUFFICES ASSUME TypeInv, RefusePrompt PROVE TypeInv'
  OBVIOUS
<1>1. /\ prompt \in Prompts /\ Role \in PipelineRoles
      /\ ids.turn \in Nat /\ CurrentAttempt \in 0 .. MaxAttempts
      /\ ids' \in [IdNames -> 0 .. NewId] /\ cause' \in 0 .. NewId
  BY IdTypes, Named, CurrentAttemptType, Constants DEF RefusePrompt, IdNames, TypeInv, TypeOK, ControlTypes, Places, Attempts, Prompted, Role
<1>2. LogTypes' /\ (pc' = "failing" \/ pc' = "crashed")
  <2>1. Emit(Event("prompt_rendered", Role, TRUE, ids.turn, CurrentAttempt), "failing")
    BY DEF RefusePrompt
  <2> QED
    BY <1>1, <2>1, EmitTypes, EventNames, RoleNames
<1>3. ControlTypes' /\ Places' /\ Attempts' /\ run > 0
  BY <1>1, <1>2, RunPositive, Constants DEF RefusePrompt, Same, control, TypeInv, TypeOK, ControlTypes, Places, Attempts, Ended, Alive, Going, Prompted, Early, BeforeBC, At
<1> QED
  BY <1>2, <1>3, QuietTypes DEF RefusePrompt

\* InvokeAgent (invoke_agent()) keeps the types.
LEMMA InvokeAgentTypes == TypeInv /\ InvokeAgent => TypeInv'
<1> SUFFICES ASSUME TypeInv, InvokeAgent PROVE TypeInv'
  OBVIOUS
<1>1. /\ prompt \in Prompts /\ Role \in PipelineRoles
      /\ ids.prompt \in Nat /\ CurrentAttempt \in 0 .. MaxAttempts
      /\ ids' \in [IdNames -> 0 .. NewId] /\ cause' \in 0 .. NewId
  BY IdTypes, Named, CurrentAttemptType, Constants DEF InvokeAgent, IdNames, TypeInv, TypeOK, ControlTypes, Places, Attempts, Prompted, Role
<1>2. LogTypes' /\ (pc' = "wait" \/ pc' = "crashed")
  <2>1. Emit(Event("agent_invoked", Role, FALSE, ids.prompt, CurrentAttempt), "wait")
    BY DEF InvokeAgent
  <2> QED
    BY <1>1, <2>1, EmitTypes, EventNames, RoleNames
<1>3. ControlTypes' /\ Places' /\ Attempts' /\ run > 0
  BY <1>1, <1>2, RunPositive, Constants DEF InvokeAgent, Same, control, TypeInv, TypeOK, ControlTypes, Places, Attempts, Ended, Alive, Going, Prompted, Early, BeforeBC, At
<1> QED
  BY <1>2, <1>3, QuietTypes DEF InvokeAgent

\* OutputsVerified (validate_prompt_step_success()) keeps the types.
LEMMA OutputsVerifiedTypes == TypeInv /\ OutputsVerified => TypeInv'
<1> SUFFICES ASSUME TypeInv, OutputsVerified PROVE TypeInv'
  OBVIOUS
<1>1. /\ prompt \in Prompts /\ Role \in PipelineRoles
      /\ ids.exit \in Nat /\ CurrentAttempt \in 0 .. MaxAttempts
      /\ ids' \in [IdNames -> 0 .. NewId] /\ cause' \in 0 .. NewId
  BY IdTypes, Named, CurrentAttemptType, Constants DEF OutputsVerified, IdNames, TypeInv, TypeOK, ControlTypes, Places, Attempts, Prompted, Role
<1>2. LogTypes' /\ (pc' = AfterOutputs \/ pc' = "crashed")
  <2>1. Emit(Event("output_verified", Role, FALSE, ids.exit, CurrentAttempt), AfterOutputs)
    BY DEF OutputsVerified
  <2> QED
    BY <1>1, <2>1, EmitTypes, EventNames, RoleNames
<1>3. /\ pc' # "ready" /\ run > 0
      /\ ControlTypes'
  <2>1. passed' \in BOOLEAN /\ fresh' \in BOOLEAN
    BY DEF OutputsVerified, Same, control, TypeInv, TypeOK, ControlTypes
  <2>2. prompt' \in Prompts \cup {"none"} /\ attempt' \in 0 .. MaxAttempts
    BY <1>1, Constants DEF OutputsVerified, Same, control, TypeInv, TypeOK, ControlTypes, Prompts
  <2>3. pc' \in Alive \cup {"crashed"}
    BY <1>2 DEF Alive, Going, AfterOutputs
  <2>4. pc # "ready"
    BY DEF OutputsVerified
  <2> QED
    BY <2>1, <2>2, <2>3, <2>4, RunPositive DEF ControlTypes, Ended, Alive, Going
<1>4. Places' /\ Attempts'
  <2>1. Places'
    BY <1>2, <1>3 DEF OutputsVerified, Same, control, TypeInv, Places, Prompted, Prompts, AfterOutputs
  <2>2. Attempts'
    BY <1>1, <1>2, Constants DEF OutputsVerified, Same, control, TypeInv, TypeOK, ControlTypes, Places, Attempts, Prompted, Prompts, Early, BeforeBC, At, AfterOutputs
  <2> QED
    BY <2>1, <2>2
<1> QED
  BY <1>2, <1>3, <1>4, QuietTypes DEF OutputsVerified

\* StartA (run_turn_a()) keeps the types.
LEMMA StartATypes == TypeInv /\ StartA => TypeInv'
<1> SUFFICES ASSUME TypeInv, StartA PROVE TypeInv'
  OBVIOUS
<1>1. /\ RunStarted \in Nat /\ 1 \in 0 .. MaxAttempts
      /\ ids' \in [IdNames -> 0 .. NewId] /\ cause' \in 0 .. NewId
  BY IdTypes, Named, CurrentAttemptType, Constants DEF StartA, IdNames, TypeInv, TypeOK, ControlTypes, Places, Attempts, Prompted
<1>2. LogTypes' /\ (pc' = "dispatch" \/ pc' = "crashed")
  <2>1. Emit(Event("turn_started", "spec-agent", FALSE, RunStarted, 1), "dispatch")
    BY DEF StartA
  <2> QED
    BY <1>1, <2>1, EmitTypes, EventNames, RoleNames
<1>3. /\ pc' # "ready" /\ run > 0
      /\ ControlTypes'
  <2>1. passed' \in BOOLEAN /\ fresh' \in BOOLEAN
    BY DEF StartA, Same, control, TypeInv, TypeOK, ControlTypes
  <2>2. prompt' \in Prompts \cup {"none"} /\ attempt' \in 0 .. MaxAttempts
    BY <1>1, Constants DEF StartA, Same, control, TypeInv, TypeOK, ControlTypes, Prompts
  <2>3. pc' \in Alive \cup {"crashed"}
    BY <1>2 DEF Alive, Going
  <2>4. pc # "ready"
    BY DEF StartA
  <2> QED
    BY <2>1, <2>2, <2>3, <2>4, RunPositive DEF ControlTypes, Ended, Alive, Going
<1>4. Places' /\ Attempts'
  <2>1. Places'
    BY <1>2, <1>3 DEF StartA, Same, control, TypeInv, Places, Prompted, Prompts
  <2>2. Attempts'
    BY <1>1, <1>2, Constants DEF StartA, Same, control, TypeInv, TypeOK, ControlTypes, Places, Attempts, Prompted, Prompts, Early, BeforeBC, At
  <2> QED
    BY <2>1, <2>2
<1> QED
  BY <1>2, <1>3, <1>4, QuietTypes DEF StartA

\* StartBC (run_turn_bc()) keeps the types.
LEMMA StartBCTypes == TypeInv /\ StartBC => TypeInv'
<1> SUFFICES ASSUME TypeInv, StartBC PROVE TypeInv'
  OBVIOUS
<1>1. /\ RunStarted \in Nat /\ 1 \in 0 .. MaxAttempts
      /\ ids' \in [IdNames -> 0 .. NewId] /\ cause' \in 0 .. NewId
  BY IdTypes, Named, CurrentAttemptType, Constants DEF StartBC, IdNames, TypeInv, TypeOK, ControlTypes, Places, Attempts, Prompted
<1>2. LogTypes' /\ (pc' = "inBC" \/ pc' = "crashed")
  <2>1. Emit(Event("turn_started", "holdout-agent", FALSE, RunStarted, 1), "inBC")
    BY DEF StartBC
  <2> QED
    BY <1>1, <2>1, EmitTypes, EventNames, RoleNames
<1>3. /\ pc' # "ready" /\ run > 0
      /\ ControlTypes'
  <2>1. passed' \in BOOLEAN /\ fresh' \in BOOLEAN
    BY DEF StartBC, Same, control, TypeInv, TypeOK, ControlTypes
  <2>2. prompt' \in Prompts \cup {"none"} /\ attempt' \in 0 .. MaxAttempts
    BY <1>1, Constants DEF StartBC, Same, control, TypeInv, TypeOK, ControlTypes, Prompts
  <2>3. pc' \in Alive \cup {"crashed"}
    BY <1>2 DEF Alive, Going
  <2>4. pc # "ready"
    BY DEF StartBC
  <2> QED
    BY <2>1, <2>2, <2>3, <2>4, RunPositive DEF ControlTypes, Ended, Alive, Going
<1>4. Places' /\ Attempts'
  <2>1. Places'
    BY <1>2, <1>3 DEF StartBC, Same, control, TypeInv, Places, Prompted, Prompts
  <2>2. Attempts'
    <3>1. attempt' = attempt /\ attempt <= 1
      BY DEF StartBC, control, TypeInv, Attempts, Early, BeforeBC
    <3> QED
      BY <1>2, <3>1 DEF Attempts, Prompted
  <2> QED
    BY <2>1, <2>2
<1> QED
  BY <1>2, <1>3, <1>4, QuietTypes DEF StartBC

\* StartD (run_turn_d()) keeps the types.
LEMMA StartDTypes == TypeInv /\ StartD => TypeInv'
<1> SUFFICES ASSUME TypeInv, StartD PROVE TypeInv'
  OBVIOUS
<1>1. /\ ParentOfD \in Nat /\ attempt + 1 \in 0 .. MaxAttempts
      /\ ids' \in [IdNames -> 0 .. NewId] /\ cause' \in 0 .. NewId
  <2>1. ParentOfD \in Nat
    BY IdTypes DEF ParentOfD, IdNames
  <2>2. attempt + 1 \in 0 .. MaxAttempts
    BY Constants DEF StartD, TypeInv, TypeOK, ControlTypes, Attempts
  <2>3. ids' \in [IdNames -> 0 .. NewId] /\ cause' \in 0 .. NewId
    <3>1. 0 \in 0 .. NewId /\ NewId \in 0 .. NewId /\ ids \in [IdNames -> 0 .. NewId] /\ cause \in 0 .. NewId
      BY IdTypes DEF NewId
    <3>2. ids' = [ids EXCEPT !.turn = NewId, !.retry = 0, !.decision = 0] /\ cause' = cause
      BY DEF StartD
    <3> HIDE DEF NewId
    <3> QED
      BY <3>1, <3>2
  <2> QED
    BY <2>1, <2>2, <2>3
<1>2. LogTypes' /\ (pc' = "attempt" \/ pc' = "crashed")
  <2>1. Emit(Event("turn_started", "builder", FALSE, ParentOfD, attempt + 1), "attempt")
    BY DEF StartD
  <2> QED
    BY <1>1, <2>1, EmitTypes, EventNames, RoleNames
<1>3. ControlTypes' /\ Places' /\ Attempts' /\ run > 0
  BY <1>1, <1>2, RunPositive, Constants DEF StartD, Same, control, TypeInv, TypeOK, ControlTypes, Places, Attempts, Ended, Alive, Going, Prompted, Early, BeforeBC, At
<1> QED
  BY <1>2, <1>3, QuietTypes DEF StartD

\* ReviewPasses (run_turn_d()) keeps the types.
LEMMA ReviewPassesTypes == TypeInv /\ ReviewPasses => TypeInv'
<1> SUFFICES ASSUME TypeInv, ReviewPasses PROVE TypeInv'
  OBVIOUS
<1>1. /\ prompt \in Prompts /\ Role \in PipelineRoles
      /\ ids.exit \in Nat /\ attempt \in 0 .. MaxAttempts
      /\ ids' \in [IdNames -> 0 .. NewId] /\ cause' \in 0 .. NewId
  BY IdTypes, Named, CurrentAttemptType, Constants DEF ReviewPasses, Decide, IdNames, TypeInv, TypeOK, ControlTypes, Places, Attempts, Prompted, Role
<1>2. LogTypes' /\ (pc' = "dispatch" \/ pc' = "crashed")
  <2>1. Emit(Event("review_verdict_recorded", Role, FALSE, ids.exit, attempt), "dispatch")
    BY DEF ReviewPasses, Decide
  <2> QED
    BY <1>1, <2>1, EmitTypes, EventNames, RoleNames
<1>3. /\ pc' # "ready" /\ run > 0
      /\ ControlTypes'
  <2>1. passed' \in BOOLEAN /\ fresh' \in BOOLEAN
    BY DEF ReviewPasses, Decide, Same, control, TypeInv, TypeOK, ControlTypes
  <2>2. prompt' \in Prompts \cup {"none"} /\ attempt' \in 0 .. MaxAttempts
    BY <1>1, Constants DEF ReviewPasses, Decide, Same, control, TypeInv, TypeOK, ControlTypes, Prompts
  <2>3. pc' \in Alive \cup {"crashed"}
    BY <1>2 DEF Alive, Going
  <2>4. pc # "ready"
    BY DEF ReviewPasses, Decide
  <2> QED
    BY <2>1, <2>2, <2>3, <2>4, RunPositive DEF ControlTypes, Ended, Alive, Going
<1>4. Places' /\ Attempts'
  <2>1. Places'
    BY <1>2, <1>3 DEF ReviewPasses, Decide, Same, control, TypeInv, Places, Prompted, Prompts
  <2>2. Attempts'
    BY <1>1, <1>2, Constants DEF ReviewPasses, Decide, Same, control, TypeInv, TypeOK, ControlTypes, Places, Attempts, Prompted, Prompts, Early, BeforeBC, At
  <2> QED
    BY <2>1, <2>2
<1> QED
  BY <1>2, <1>3, <1>4, QuietTypes DEF ReviewPasses, Decide

\* ReviewRetries (run_turn_d()) keeps the types.
LEMMA ReviewRetriesTypes == TypeInv /\ ReviewRetries => TypeInv'
<1> SUFFICES ASSUME TypeInv, ReviewRetries PROVE TypeInv'
  OBVIOUS
<1>1. /\ prompt \in Prompts /\ Role \in PipelineRoles
      /\ ids.exit \in Nat /\ attempt \in 0 .. MaxAttempts
      /\ ids' \in [IdNames -> 0 .. NewId] /\ cause' \in 0 .. NewId
  BY IdTypes, Named, CurrentAttemptType, Constants DEF ReviewRetries, Decide, IdNames, TypeInv, TypeOK, ControlTypes, Places, Attempts, Prompted, Role
<1>2. LogTypes' /\ (pc' = "retryReview" \/ pc' = "crashed")
  <2>1. Emit(Event("review_verdict_recorded", Role, TRUE, ids.exit, attempt), "retryReview")
    BY DEF ReviewRetries, Decide
  <2> QED
    BY <1>1, <2>1, EmitTypes, EventNames, RoleNames
<1>3. ControlTypes' /\ Places' /\ Attempts' /\ run > 0
  BY <1>1, <1>2, RunPositive, Constants DEF ReviewRetries, Decide, Same, control, TypeInv, TypeOK, ControlTypes, Places, Attempts, Ended, Alive, Going, Prompted, Early, BeforeBC, At
<1> QED
  BY <1>2, <1>3, QuietTypes DEF ReviewRetries, Decide

\* ReviewEscalates (run_turn_d()) keeps the types.
LEMMA ReviewEscalatesTypes == TypeInv /\ ReviewEscalates => TypeInv'
<1> SUFFICES ASSUME TypeInv, ReviewEscalates PROVE TypeInv'
  OBVIOUS
<1>1. /\ prompt \in Prompts /\ Role \in PipelineRoles
      /\ ids.exit \in Nat /\ attempt \in 0 .. MaxAttempts
      /\ ids' \in [IdNames -> 0 .. NewId] /\ cause' \in 0 .. NewId
  BY IdTypes, Named, CurrentAttemptType, Constants DEF ReviewEscalates, Decide, IdNames, TypeInv, TypeOK, ControlTypes, Places, Attempts, Prompted, Role
<1>2. LogTypes' /\ (pc' = "escalate" \/ pc' = "crashed")
  <2>1. Emit(Event("review_verdict_recorded", Role, TRUE, ids.exit, attempt), "escalate")
    BY DEF ReviewEscalates, Decide
  <2> QED
    BY <1>1, <2>1, EmitTypes, EventNames, RoleNames
<1>3. ControlTypes' /\ Places' /\ Attempts' /\ run > 0
  BY <1>1, <1>2, RunPositive, Constants DEF ReviewEscalates, Decide, Same, control, TypeInv, TypeOK, ControlTypes, Places, Attempts, Ended, Alive, Going, Prompted, Early, BeforeBC, At
<1> QED
  BY <1>2, <1>3, QuietTypes DEF ReviewEscalates, Decide

\* Escalate (record_escalation()) keeps the types.
LEMMA EscalateTypes == TypeInv /\ Escalate => TypeInv'
<1> SUFFICES ASSUME TypeInv, Escalate PROVE TypeInv'
  OBVIOUS
<1>1. /\ ids.decision \in Nat /\ CurrentAttempt \in 0 .. MaxAttempts
      /\ ids' \in [IdNames -> 0 .. NewId] /\ cause' \in 0 .. NewId
  BY IdTypes, Named, CurrentAttemptType, Constants DEF Escalate, IdNames, TypeInv, TypeOK, ControlTypes, Places, Attempts, Prompted
<1>2. LogTypes' /\ (pc' = "aborted" \/ pc' = "crashed")
  <2>1. Emit(Event("escalation_triggered", "orchestrator", TRUE, ids.decision, CurrentAttempt), "aborted")
    BY DEF Escalate
  <2> QED
    BY <1>1, <2>1, EmitTypes, EventNames, RoleNames
<1>3. ControlTypes' /\ Places' /\ Attempts' /\ run > 0
  BY <1>1, <1>2, RunPositive, Constants DEF Escalate, Same, control, TypeInv, TypeOK, ControlTypes, Places, Attempts, Ended, Alive, Going, Prompted, Early, BeforeBC, At
<1> QED
  BY <1>2, <1>3, QuietTypes DEF Escalate

\* RetryReview (run_turn_d()) keeps the types.
LEMMA RetryReviewTypes == TypeInv /\ RetryReview => TypeInv'
<1> SUFFICES ASSUME TypeInv, RetryReview PROVE TypeInv'
  OBVIOUS
<1>1. /\ ids.decision \in Nat /\ attempt \in 0 .. MaxAttempts
      /\ ids' \in [IdNames -> 0 .. NewId] /\ cause' \in 0 .. NewId
  BY IdTypes, Named, CurrentAttemptType, Constants DEF RetryReview, IdNames, TypeInv, TypeOK, ControlTypes, Places, Attempts, Prompted
<1>2. LogTypes' /\ (pc' = "attempt" \/ pc' = "crashed")
  <2>1. Emit(Event("retry_started", "orchestrator", TRUE, ids.decision, attempt), "attempt")
    BY DEF RetryReview
  <2> QED
    BY <1>1, <2>1, EmitTypes, EventNames, RoleNames
<1>3. ControlTypes' /\ Places' /\ Attempts' /\ run > 0
  BY <1>1, <1>2, RunPositive, Constants DEF RetryReview, Same, control, TypeInv, TypeOK, ControlTypes, Places, Attempts, Ended, Alive, Going, Prompted, Early, BeforeBC, At
<1> QED
  BY <1>2, <1>3, QuietTypes DEF RetryReview

\* CompleteD (run_turn_d()) keeps the types.
LEMMA CompleteDTypes == TypeInv /\ CompleteD => TypeInv'
<1> SUFFICES ASSUME TypeInv, CompleteD PROVE TypeInv'
  OBVIOUS
<1>1. /\ ids.decision \in Nat /\ attempt \in 0 .. MaxAttempts
      /\ ids' \in [IdNames -> 0 .. NewId] /\ cause' \in 0 .. NewId
  BY IdTypes, Named, CurrentAttemptType, Constants DEF CompleteD, IdNames, TypeInv, TypeOK, ControlTypes, Places, Attempts, Prompted
<1>2. LogTypes' /\ (pc' = "startE" \/ pc' = "crashed")
  <2>1. Emit(Event("turn_completed", "builder", FALSE, ids.decision, attempt), "startE")
    BY DEF CompleteD
  <2> QED
    BY <1>1, <2>1, EmitTypes, EventNames, RoleNames
<1>3. ControlTypes' /\ Places' /\ Attempts' /\ run > 0
  BY <1>1, <1>2, RunPositive, Constants DEF CompleteD, Same, control, TypeInv, TypeOK, ControlTypes, Places, Attempts, Ended, Alive, Going, Prompted, Early, BeforeBC, At
<1> QED
  BY <1>2, <1>3, WritingTypes DEF CompleteD

\* StartE (run_turn_e()) keeps the types.
LEMMA StartETypes == TypeInv /\ StartE => TypeInv'
<1> SUFFICES ASSUME TypeInv, StartE PROVE TypeInv'
  OBVIOUS
<1>1. /\ (IF ids.completed # 0 THEN ids.completed ELSE RunStarted) \in Nat /\ attempt \in 0 .. MaxAttempts
      /\ ids' \in [IdNames -> 0 .. NewId] /\ cause' \in 0 .. NewId
  BY IdTypes, Named, CurrentAttemptType, Constants DEF StartE, IdNames, TypeInv, TypeOK, ControlTypes, Places, Attempts, Prompted
<1>2. LogTypes' /\ (pc' = "hash" \/ pc' = "crashed")
  <2>1. Emit(Event("turn_started", "evaluator", FALSE, IF ids.completed # 0 THEN ids.completed ELSE RunStarted, attempt), "hash")
    BY DEF StartE
  <2> QED
    BY <1>1, <2>1, EmitTypes, EventNames, RoleNames
<1>3. /\ pc' # "ready" /\ run > 0
      /\ ControlTypes'
  <2>1. passed' \in BOOLEAN /\ fresh' \in BOOLEAN
    BY DEF StartE, Same, control, TypeInv, TypeOK, ControlTypes
  <2>2. prompt' \in Prompts \cup {"none"} /\ attempt' \in 0 .. MaxAttempts
    BY <1>1, Constants DEF StartE, Same, control, TypeInv, TypeOK, ControlTypes, Prompts
  <2>3. pc' \in Alive \cup {"crashed"}
    BY <1>2 DEF Alive, Going
  <2>4. pc # "ready"
    BY DEF StartE
  <2> QED
    BY <2>1, <2>2, <2>3, <2>4, RunPositive DEF ControlTypes, Ended, Alive, Going
<1>4. Places' /\ Attempts'
  <2>1. Places'
    BY <1>2, <1>3 DEF StartE, Same, control, TypeInv, Places, Prompted, Prompts
  <2>2. Attempts'
    BY <1>1, <1>2, Constants DEF StartE, Same, control, TypeInv, TypeOK, ControlTypes, Places, Attempts, Prompted, Prompts, Early, BeforeBC, At
  <2> QED
    BY <2>1, <2>2
<1> QED
  BY <1>2, <1>3, <1>4, QuietTypes DEF StartE

\* EvaluationPasses (run_turn_e()) keeps the types.
LEMMA EvaluationPassesTypes == TypeInv /\ EvaluationPasses => TypeInv'
<1> SUFFICES ASSUME TypeInv, EvaluationPasses PROVE TypeInv'
  OBVIOUS
<1>1. /\ prompt \in Prompts /\ Role \in PipelineRoles
      /\ ids.exit \in Nat /\ attempt \in 0 .. MaxAttempts
      /\ ids' \in [IdNames -> 0 .. NewId] /\ cause' \in 0 .. NewId
  BY IdTypes, Named, CurrentAttemptType, Constants DEF EvaluationPasses, Decide, IdNames, TypeInv, TypeOK, ControlTypes, Places, Attempts, Prompted, Role
<1>2. LogTypes' /\ (pc' = "auditE" \/ pc' = "crashed")
  <2>1. Emit(Event("evaluation_verdict_recorded", Role, FALSE, ids.exit, attempt), "auditE")
    BY DEF EvaluationPasses, Decide
  <2> QED
    BY <1>1, <2>1, EmitTypes, EventNames, RoleNames
<1>3. ControlTypes' /\ Places' /\ Attempts' /\ run > 0
  BY <1>1, <1>2, RunPositive, Constants DEF EvaluationPasses, Decide, Same, control, TypeInv, TypeOK, ControlTypes, Places, Attempts, Ended, Alive, Going, Prompted, Early, BeforeBC, At
<1> QED
  BY <1>2, <1>3, QuietTypes DEF EvaluationPasses, Decide

\* EvaluationFails (run_turn_e()) keeps the types.
LEMMA EvaluationFailsTypes == TypeInv /\ EvaluationFails => TypeInv'
<1> SUFFICES ASSUME TypeInv, EvaluationFails PROVE TypeInv'
  OBVIOUS
<1>1. /\ prompt \in Prompts /\ Role \in PipelineRoles
      /\ ids.exit \in Nat /\ attempt \in 0 .. MaxAttempts
      /\ ids' \in [IdNames -> 0 .. NewId] /\ cause' \in 0 .. NewId
  BY IdTypes, Named, CurrentAttemptType, Constants DEF EvaluationFails, Decide, IdNames, TypeInv, TypeOK, ControlTypes, Places, Attempts, Prompted, Role
<1>2. LogTypes' /\ (pc' = "auditE" \/ pc' = "crashed")
  <2>1. Emit(Event("evaluation_verdict_recorded", Role, TRUE, ids.exit, attempt), "auditE")
    BY DEF EvaluationFails, Decide
  <2> QED
    BY <1>1, <2>1, EmitTypes, EventNames, RoleNames
<1>3. ControlTypes' /\ Places' /\ Attempts' /\ run > 0
  BY <1>1, <1>2, RunPositive, Constants DEF EvaluationFails, Decide, Same, control, TypeInv, TypeOK, ControlTypes, Places, Attempts, Ended, Alive, Going, Prompted, Early, BeforeBC, At
<1> QED
  BY <1>2, <1>3, QuietTypes DEF EvaluationFails, Decide

\* CompleteE (run_turn_e()) keeps the types.
LEMMA CompleteETypes == TypeInv /\ CompleteE => TypeInv'
<1> SUFFICES ASSUME TypeInv, CompleteE PROVE TypeInv'
  OBVIOUS
<1>1. /\ ids.decision \in Nat /\ attempt \in 0 .. MaxAttempts
      /\ ids' \in [IdNames -> 0 .. NewId] /\ cause' \in 0 .. NewId
  BY IdTypes, Named, CurrentAttemptType, Constants DEF CompleteE, IdNames, TypeInv, TypeOK, ControlTypes, Places, Attempts, Prompted
<1>2. LogTypes' /\ (pc' = "converge" \/ pc' = "crashed")
  <2>1. Emit(Event("turn_completed", "evaluator", FALSE, ids.decision, attempt), "converge")
    BY DEF CompleteE
  <2> QED
    BY <1>1, <2>1, EmitTypes, EventNames, RoleNames
<1>3. ControlTypes' /\ Places' /\ Attempts' /\ run > 0
  BY <1>1, <1>2, RunPositive, Constants DEF CompleteE, Same, control, TypeInv, TypeOK, ControlTypes, Places, Attempts, Ended, Alive, Going, Prompted, Early, BeforeBC, At
<1> QED
  BY <1>2, <1>3, WritingTypes DEF CompleteE

\* RetryEvaluation (run_turn_e()) keeps the types.
LEMMA RetryEvaluationTypes == TypeInv /\ RetryEvaluation => TypeInv'
<1> SUFFICES ASSUME TypeInv, RetryEvaluation PROVE TypeInv'
  OBVIOUS
<1>1. /\ ids.decision \in Nat /\ attempt \in 0 .. MaxAttempts
      /\ ids' \in [IdNames -> 0 .. NewId] /\ cause' \in 0 .. NewId
  BY IdTypes, Named, CurrentAttemptType, Constants DEF RetryEvaluation, IdNames, TypeInv, TypeOK, ControlTypes, Places, Attempts, Prompted
<1>2. LogTypes' /\ (pc' = "startD" \/ pc' = "crashed")
  <2>1. Emit(Event("retry_started", "orchestrator", TRUE, ids.decision, attempt), "startD")
    BY DEF RetryEvaluation
  <2> QED
    BY <1>1, <2>1, EmitTypes, EventNames, RoleNames
<1>3. ControlTypes' /\ Places' /\ Attempts' /\ run > 0
  BY <1>1, <1>2, RunPositive, Constants DEF RetryEvaluation, Same, control, TypeInv, TypeOK, ControlTypes, Places, Attempts, Ended, Alive, Going, Prompted, Early, BeforeBC, At
<1> QED
  BY <1>2, <1>3, QuietTypes DEF RetryEvaluation

\* CompleteRun (complete_run()) keeps the types.
LEMMA CompleteRunTypes == TypeInv /\ CompleteRun => TypeInv'
<1> SUFFICES ASSUME TypeInv, CompleteRun PROVE TypeInv'
  OBVIOUS
<1>1. /\ ids.completed \in Nat /\ attempt \in 0 .. MaxAttempts
      /\ ids' \in [IdNames -> 0 .. NewId] /\ cause' \in 0 .. NewId
  BY IdTypes, Named, CurrentAttemptType, Constants DEF CompleteRun, IdNames, TypeInv, TypeOK, ControlTypes, Places, Attempts, Prompted
<1>2. LogTypes' /\ (pc' = "completed" \/ pc' = "crashed")
  <2>1. Emit(Event("run_completed", "orchestrator", FALSE, ids.completed, attempt), "completed")
    BY DEF CompleteRun
  <2> QED
    BY <1>1, <2>1, EmitTypes, EventNames, RoleNames
<1>3. ControlTypes' /\ Places' /\ Attempts' /\ run > 0
  BY <1>1, <1>2, RunPositive, Constants DEF CompleteRun, Same, control, TypeInv, TypeOK, ControlTypes, Places, Attempts, Ended, Alive, Going, Prompted, Early, BeforeBC, At
<1> QED
  BY <1>2, <1>3, WritingTypes DEF CompleteRun

\* A check that fails.
LEMMA RefutedTypes ==
  ASSUME TypeInv, NEW at \in {"version", "evidence", "outputs", "verdict"}, Refuted(at) PROVE TypeInv'
<1>1. /\ prompt \in Prompts /\ Role \in PipelineRoles
      /\ ids.exit \in Nat /\ CurrentAttempt \in 0 .. MaxAttempts
      /\ ids' \in [IdNames -> 0 .. NewId] /\ cause' \in 0 .. NewId
  BY IdTypes, Named, CurrentAttemptType, Constants DEF Refuted, IdNames, TypeInv, TypeOK, Places, Prompted, Role
<1>2. LogTypes' /\ (pc' = "failing" \/ pc' = "crashed")
  <2>1. Emit(Event("output_verified", Role, TRUE, ids.exit, CurrentAttempt), "failing")
    BY DEF Refuted
  <2> QED
    BY <1>1, <2>1, EmitTypes, EventNames, RoleNames
<1>3. ControlTypes' /\ Places' /\ Attempts' /\ run > 0
  BY <1>1, <1>2, RunPositive, Constants DEF Refuted, Same, control, TypeInv, TypeOK, ControlTypes, Places, Attempts, Ended, Alive, Going, Prompted, Early, BeforeBC, At
<1> QED
  BY <1>2, <1>3, QuietTypes DEF Refuted

\* Steps that emit nothing and leave files and page alone.
LEMMA SilentStepTypes ==
  ASSUME TypeInv, pc # "ready", Same, UNCHANGED <<disk, page, log, status, control, ids, fresh>>,
         cause' \in {cause, RunStarted}, pc' \in (Ended \cup Alive) \ {"ready"}, Places', Attempts'
  PROVE  TypeInv'
<1>1. LogTypes'
  BY SilentTypes DEF Same
<1>2. ControlTypes'
  BY ControlKept DEF TypeInv, TypeOK, ControlTypes, Same
<1> QED
  BY <1>1, <1>2, QuietTypes

\* Kill (the process is killed) keeps the types.
LEMMA KillTypes == TypeInv /\ Kill => TypeInv'
<1> SUFFICES ASSUME TypeInv, Kill PROVE TypeInv'
  OBVIOUS
<1>1. /\ pc # "ready" /\ pc' = "killed" /\ pc' \in (Ended \cup Alive) \ {"ready"}
      /\ Same /\ UNCHANGED <<disk, page, log, status, control, ids, fresh>> /\ cause' \in {cause, RunStarted}
  BY DEF Kill, Ended, Alive, Going
<1>2. Places' /\ Attempts'
  BY <1>1, Constants DEF Kill, Same, control, TypeInv, TypeOK, ControlTypes, Places, Attempts, Prompted, Early, BeforeBC, At
<1> QED
  BY <1>1, <1>2, SilentStepTypes

\* VersionMatches (extract_version_evidence()) keeps the types.
LEMMA VersionMatchesTypes == TypeInv /\ VersionMatches => TypeInv'
<1> SUFFICES ASSUME TypeInv, VersionMatches PROVE TypeInv'
  OBVIOUS
<1>1. /\ pc # "ready" /\ pc' = (IF prompt = "turn_d_13q" THEN "outputs" ELSE "evidence") /\ pc' \in (Ended \cup Alive) \ {"ready"}
      /\ Same /\ UNCHANGED <<disk, page, log, status, control, ids, fresh>> /\ cause' \in {cause, RunStarted}
  BY DEF VersionMatches, Go, Ended, Alive, Going
<1>2. Places' /\ Attempts'
  BY <1>1, Constants DEF VersionMatches, Go, Same, control, TypeInv, TypeOK, ControlTypes, Places, Attempts, Prompted, Early, BeforeBC, At
<1> QED
  BY <1>1, <1>2, SilentStepTypes

\* VersionUnreadable (extract_version_evidence()) keeps the types.
LEMMA VersionUnreadableTypes == TypeInv /\ VersionUnreadable => TypeInv'
<1> SUFFICES ASSUME TypeInv, VersionUnreadable PROVE TypeInv'
  OBVIOUS
<1>1. /\ pc # "ready" /\ pc' = "crashed" /\ pc' \in (Ended \cup Alive) \ {"ready"}
      /\ Same /\ UNCHANGED <<disk, page, log, status, control, ids, fresh>> /\ cause' \in {cause, RunStarted}
  BY DEF VersionUnreadable, Go, Ended, Alive, Going
<1>2. Places' /\ Attempts'
  BY <1>1, Constants DEF VersionUnreadable, Go, Same, control, TypeInv, TypeOK, ControlTypes, Places, Attempts, Prompted, Early, BeforeBC, At
<1> QED
  BY <1>1, <1>2, SilentStepTypes

\* EvidenceHolds (Orchestrator.validate_builder_evidence,
\* validate_reviewer_evidence, validate_evaluator_evidence) keeps the types.
LEMMA EvidenceHoldsTypes == TypeInv /\ EvidenceHolds => TypeInv'
<1> SUFFICES ASSUME TypeInv, EvidenceHolds PROVE TypeInv'
  OBVIOUS
<1>1. /\ pc # "ready" /\ pc' = "outputs" /\ pc' \in (Ended \cup Alive) \ {"ready"}
      /\ Same /\ UNCHANGED <<disk, page, log, status, control, ids, fresh>> /\ cause' \in {cause, RunStarted}
  BY DEF EvidenceHolds, Go, Ended, Alive, Going
<1>2. Places' /\ Attempts'
  BY <1>1, Constants DEF EvidenceHolds, Go, Same, control, TypeInv, TypeOK, ControlTypes, Places, Attempts, Prompted, Early, BeforeBC, At
<1> QED
  BY <1>1, <1>2, SilentStepTypes

\* HumanContinues (checkpoint()) keeps the types.
LEMMA HumanContinuesTypes == TypeInv /\ HumanContinues => TypeInv'
<1> SUFFICES ASSUME TypeInv, HumanContinues PROVE TypeInv'
  OBVIOUS
<1>1. /\ pc # "ready" /\ pc' \in {"startBC", "startD"} /\ pc' \in (Ended \cup Alive) \ {"ready"}
      /\ Same /\ UNCHANGED <<disk, page, log, status, control, ids, fresh>> /\ cause' \in {cause, RunStarted}
  BY DEF HumanContinues, Go, Ended, Alive, Going
<1>2. Places' /\ Attempts'
  BY <1>1, Constants DEF HumanContinues, Go, Same, control, TypeInv, TypeOK, ControlTypes, Places, Attempts, Prompted, Early, BeforeBC, At
<1> QED
  BY <1>1, <1>2, SilentStepTypes

\* HashInputs (export_evidence_hashes()) keeps the types.
LEMMA HashInputsTypes == TypeInv /\ HashInputs => TypeInv'
<1> SUFFICES ASSUME TypeInv, HashInputs PROVE TypeInv'
  OBVIOUS
<1>1. /\ pc # "ready" /\ pc' \in {"dispatch", "crashed"} /\ pc' \in (Ended \cup Alive) \ {"ready"}
      /\ Same /\ UNCHANGED <<disk, page, log, status, control, ids, fresh>> /\ cause' \in {cause, RunStarted}
  BY DEF HashInputs, Go, Ended, Alive, Going
<1>2. Places' /\ Attempts'
  BY <1>1, Constants DEF HashInputs, Go, Same, control, TypeInv, TypeOK, ControlTypes, Places, Attempts, Prompted, Early, BeforeBC, At
<1> QED
  BY <1>1, <1>2, SilentStepTypes

\* BCInputMissing (run_turn_bc()) keeps the types.
LEMMA BCInputMissingTypes == TypeInv /\ BCInputMissing => TypeInv'
<1> SUFFICES ASSUME TypeInv, BCInputMissing PROVE TypeInv'
  OBVIOUS
<1>1. /\ pc # "ready" /\ pc' = "failing" /\ pc' \in (Ended \cup Alive) \ {"ready"}
      /\ Same /\ UNCHANGED <<disk, page, log, status, control, ids, fresh>> /\ cause' \in {cause, RunStarted}
  BY DEF BCInputMissing, MissingInput, Go, Ended, Alive, Going
<1>2. Places' /\ Attempts'
  BY <1>1, Constants DEF BCInputMissing, MissingInput, Go, Same, control, TypeInv, TypeOK, ControlTypes, Places, Attempts, Prompted, Early, BeforeBC, At
<1> QED
  BY <1>1, <1>2, SilentStepTypes

\* DInputMissing (run()) keeps the types.
LEMMA DInputMissingTypes == TypeInv /\ DInputMissing => TypeInv'
<1> SUFFICES ASSUME TypeInv, DInputMissing PROVE TypeInv'
  OBVIOUS
<1>1. /\ pc # "ready" /\ pc' = "failing" /\ pc' \in (Ended \cup Alive) \ {"ready"}
      /\ Same /\ UNCHANGED <<disk, page, log, status, control, ids, fresh>> /\ cause' \in {cause, RunStarted}
  BY DEF DInputMissing, MissingInput, Go, Ended, Alive, Going
<1>2. Places' /\ Attempts'
  BY <1>1, Constants DEF DInputMissing, MissingInput, Go, Same, control, TypeInv, TypeOK, ControlTypes, Places, Attempts, Prompted, Early, BeforeBC, At
<1> QED
  BY <1>1, <1>2, SilentStepTypes

\* EInputMissing (run_turn_e()) keeps the types.
LEMMA EInputMissingTypes == TypeInv /\ EInputMissing => TypeInv'
<1> SUFFICES ASSUME TypeInv, EInputMissing PROVE TypeInv'
  OBVIOUS
<1>1. /\ pc # "ready" /\ pc' = "failing" /\ pc' \in (Ended \cup Alive) \ {"ready"}
      /\ Same /\ UNCHANGED <<disk, page, log, status, control, ids, fresh>> /\ cause' \in {cause, RunStarted}
  BY DEF EInputMissing, MissingInput, Go, Ended, Alive, Going
<1>2. Places' /\ Attempts'
  BY <1>1, Constants DEF EInputMissing, MissingInput, Go, Same, control, TypeInv, TypeOK, ControlTypes, Places, Attempts, Prompted, Early, BeforeBC, At
<1> QED
  BY <1>1, <1>2, SilentStepTypes

\* BeginAttempt (run_turn_d()) keeps the types.
LEMMA BeginAttemptTypes == TypeInv /\ BeginAttempt => TypeInv'
<1> SUFFICES ASSUME TypeInv, BeginAttempt PROVE TypeInv'
  OBVIOUS
<1>1. pc = "attempt" /\ pc' = "dispatch" /\ prompt' = "turn_d_13q" /\ attempt' = attempt + 1 /\ attempt' \in 0 .. MaxAttempts /\ attempt' > 0
  BY Constants DEF BeginAttempt, Go, TypeInv, TypeOK, ControlTypes
<1>2. LogTypes'
  BY <1>1, SilentTypes DEF BeginAttempt, Go, Same
<1>3. ControlTypes'
  <2>1. passed' \in BOOLEAN /\ fresh' \in BOOLEAN
    BY DEF BeginAttempt, TypeInv, TypeOK, ControlTypes
  <2> QED
    BY <1>1, <2>1 DEF ControlTypes, Alive, Going, Prompts
<1>4. Places' /\ Attempts'
  BY <1>1, RunPositive DEF BeginAttempt, Go, Same, TypeInv, Places, Attempts, Prompted, Prompts, Early, BeforeBC, At
<1> QED
  BY <1>2, <1>3, <1>4, QuietTypes DEF BeginAttempt, Go

\* update_status_page() and an audit.
LEMMA WritingStepTypes ==
  ASSUME TypeInv, pc # "ready", Same, page' = Updated(files, verdicts, status),
         UNCHANGED <<disk, log, status, control, ids, fresh>>,
         cause' \in {cause, RunStarted} \cup {ids[n] : n \in IdNames},
         pc' \in (Ended \cup Alive) \ {"ready"}, Places', Attempts'
  PROVE  TypeInv'
<1>1. LogTypes'
  BY SilentTypes DEF Same
<1>2. ControlTypes'
  BY ControlKept DEF TypeInv, TypeOK, ControlTypes, Same
<1> QED
  BY <1>1, <1>2, RunPositive, WritingTypes

\* Types, where an audit passes or fails (run_audit()).
LEMMA AuditTypes ==
  ASSUME TypeInv, NEW at \in Alive, NEW next, NEW n \in IdNames, Audit(at, next, ids[n]),
         next \in (Ended \cup Alive) \ {"ready"}, Places', Attempts'
  PROVE  TypeInv'
<1>1. /\ pc # "ready" /\ Same /\ page' = Updated(files, verdicts, status)
      /\ UNCHANGED <<disk, log, status, control, ids, fresh>>
      /\ cause' \in {cause, RunStarted} \cup {ids[m] : m \in IdNames}
  BY DEF Audit, Go, Alive, Going
<1>2. pc' \in (Ended \cup Alive) \ {"ready"}
  BY DEF Audit, Go, Alive, Going, Ended
<1> QED
  BY <1>1, <1>2, WritingStepTypes

\* AuditA (run_turn_a()) keeps the types.
LEMMA AuditATypes == TypeInv /\ AuditA => TypeInv'
<1> SUFFICES ASSUME TypeInv, AuditA PROVE TypeInv'
  OBVIOUS
<1>1. /\ Audit("auditA", AfterCheckpoint("checkpointA", "startBC"), ids["verified"]) /\ "verified" \in IdNames /\ "auditA" \in Alive
      /\ AfterCheckpoint("checkpointA", "startBC") \in (Ended \cup Alive) \ {"ready"}
  BY PipelineAssumption DEF AuditA, IdNames, Alive, Going, Ended, AfterCheckpoint, AllModes, TypeInv, TypeOK, RunTypes
<1>2. pc = "auditA" /\ pc' \in {AfterCheckpoint("checkpointA", "startBC"), "failing"} /\ Same /\ UNCHANGED control
  BY <1>1 DEF Audit, Go
<1>3. Places' /\ Attempts'
  BY <1>1, <1>2, RunPositive, PipelineAssumption, Constants
  DEF AfterCheckpoint, AllModes, Same, control, TypeInv, TypeOK, RunTypes, ControlTypes, Places, Attempts, Prompted, Early, BeforeBC, At
<1> QED
  BY <1>1, <1>3, AuditTypes

\* AuditBC (run_turn_bc()) keeps the types.
LEMMA AuditBCTypes == TypeInv /\ AuditBC => TypeInv'
<1> SUFFICES ASSUME TypeInv, AuditBC PROVE TypeInv'
  OBVIOUS
<1>1. /\ Audit("auditBC", AfterCheckpoint("checkpointBC", "startD"), ids["verified"]) /\ "verified" \in IdNames /\ "auditBC" \in Alive
      /\ AfterCheckpoint("checkpointBC", "startD") \in (Ended \cup Alive) \ {"ready"}
  BY PipelineAssumption DEF AuditBC, IdNames, Alive, Going, Ended, AfterCheckpoint, AllModes, TypeInv, TypeOK, RunTypes
<1>2. pc = "auditBC" /\ pc' \in {AfterCheckpoint("checkpointBC", "startD"), "failing"} /\ Same /\ UNCHANGED control
  BY <1>1 DEF Audit, Go
<1>3. pc' \in {"checkpointBC", "startD", "aborted", "failing"}
  BY <1>2, PipelineAssumption DEF AfterCheckpoint, AllModes, TypeInv, TypeOK, RunTypes
<1>4. Places'
  BY <1>2, <1>3, RunPositive DEF Same, control, TypeInv, Places, Prompted
<1>5. Attempts'
  <2>1. attempt' = attempt /\ attempt \in Nat /\ attempt <= 1
    BY <1>2, Constants DEF control, TypeInv, TypeOK, ControlTypes, Attempts, Early
  <2> QED
    BY <1>3, <2>1, Constants DEF Attempts, Prompted
<1> QED
  BY <1>1, <1>4, <1>5, AuditTypes

\* AuditDFails (run_turn_d()) keeps the types.
LEMMA AuditDFailsTypes == TypeInv /\ AuditDFails => TypeInv'
<1> SUFFICES ASSUME TypeInv, AuditDFails PROVE TypeInv'
  OBVIOUS
<1>1. /\ Audit("auditD", "startE", ids["verified"]) /\ "verified" \in IdNames /\ "auditD" \in Alive
      /\ "startE" \in (Ended \cup Alive) \ {"ready"}
  BY PipelineAssumption DEF AuditDFails, IdNames, Alive, Going, Ended, AfterCheckpoint, AllModes, TypeInv, TypeOK, RunTypes
<1>2. pc = "auditD" /\ pc' \in {"startE", "failing"} /\ Same /\ UNCHANGED control
  BY <1>1 DEF Audit, Go
<1>3. Places' /\ Attempts'
  BY <1>1, <1>2, RunPositive, PipelineAssumption, Constants
  DEF AfterCheckpoint, AllModes, Same, control, TypeInv, TypeOK, RunTypes, ControlTypes, Places, Attempts, Prompted, Early, BeforeBC, At
<1> QED
  BY <1>1, <1>3, AuditTypes

\* AuditE (run_turn_e()) keeps the types.
LEMMA AuditETypes == TypeInv /\ AuditE => TypeInv'
<1> SUFFICES ASSUME TypeInv, AuditE PROVE TypeInv'
  OBVIOUS
<1>1. /\ Audit("auditE", "retryEval", ids["verified"]) /\ "verified" \in IdNames /\ "auditE" \in Alive
      /\ "retryEval" \in (Ended \cup Alive) \ {"ready"}
  BY PipelineAssumption DEF AuditE, IdNames, Alive, Going, Ended, AfterCheckpoint, AllModes, TypeInv, TypeOK, RunTypes
<1>2. pc = "auditE" /\ pc' \in {"retryEval", "failing"} /\ Same /\ UNCHANGED control
  BY <1>1 DEF Audit, Go
<1>3. Places' /\ Attempts'
  BY <1>1, <1>2, RunPositive, PipelineAssumption, Constants
  DEF AfterCheckpoint, AllModes, Same, control, TypeInv, TypeOK, RunTypes, ControlTypes, Places, Attempts, Prompted, Early, BeforeBC, At
<1> QED
  BY <1>1, <1>3, AuditTypes

\* PlanMissing (run()) keeps the types.
LEMMA PlanMissingTypes == TypeInv /\ PlanMissing => TypeInv'
<1> SUFFICES ASSUME TypeInv, PlanMissing PROVE TypeInv'
  OBVIOUS
<1>1. /\ pc = "auditBC" /\ pc' = "failing" /\ Same /\ page' = Updated(files, verdicts, status)
      /\ UNCHANGED <<disk, log, status, control, ids, fresh>>
      /\ cause' \in {cause, RunStarted} \cup {ids[m] : m \in IdNames} /\ pc' \in (Ended \cup Alive) \ {"ready"}
  BY DEF PlanMissing, Go, IdNames, Alive, Going, Ended
<1>2. Places' /\ Attempts'
  BY <1>1, RunPositive DEF Same, control, TypeInv, Places, Attempts, Prompted, Early, BeforeBC, At
<1> QED
  BY <1>1, <1>2, WritingStepTypes

\* NotConverged (Orchestrator.validate_convergence, complete_run) keeps the
\* types.
LEMMA NotConvergedTypes == TypeInv /\ NotConverged => TypeInv'
<1> SUFFICES ASSUME TypeInv, NotConverged PROVE TypeInv'
  OBVIOUS
<1>1. /\ pc = "converge" /\ pc' = "failing" /\ Same /\ page' = Updated(files, verdicts, status)
      /\ UNCHANGED <<disk, log, status, control, ids, fresh>>
      /\ cause' \in {cause, RunStarted} \cup {ids[m] : m \in IdNames} /\ pc' \in (Ended \cup Alive) \ {"ready"}
  BY DEF NotConverged, Go, IdNames, Alive, Going, Ended
<1>2. Places' /\ Attempts'
  BY <1>1, RunPositive DEF Same, control, TypeInv, Places, Attempts, Prompted, Early, BeforeBC, At
<1> QED
  BY <1>1, <1>2, WritingStepTypes

\* A step that writes files.
LEMMA FileTypes ==
  ASSUME TypeInv, Same, DiskTypes', PageTypes', LogTypes', ControlTypes', Places', Attempts'
  PROVE  TypeInv'
BY DEF TypeInv, TypeOK, Same, shared, RunTypes, Lineages

\* Prepare (Orchestrator.invalidate_artifact, invalidate_downstream_artifacts)
\* keeps the types.
LEMMA PrepareTypes == TypeInv /\ Prepare => TypeInv'
<1> SUFFICES ASSUME TypeInv, Prepare PROVE TypeInv'
  OBVIOUS
<1>1. /\ pc = "prepare" /\ Same /\ UNCHANGED <<log, status, prompt, passed, ids, cause, fresh>>
      /\ attempt' = (IF from = "E" THEN 1 ELSE 0) /\ page' = Updated(files', verdicts', status)
  BY DEF Prepare, Go
<1>2. run \in Nat /\ run > 0 /\ from \in TurnNames
  <2>1. launches \in Seq(TurnNames) /\ Len(launches) \in Nat /\ run \in 1 .. Len(launches)
    <3>1. launches \in Seq(TurnNames)
      BY Constants DEF TypeInv, TypeOK, RunTypes
    <3> QED
      BY <1>1, <3>1, RunPositive, LenProperties DEF TypeInv, TypeOK, RunTypes
  <2> QED
    BY <1>1, <2>1, ElementOfSeq, RunPositive DEF from
<1>3. pc' \in {"startA", "startBC", "startD", "startE"} /\ (pc' = "startE" => from = "E")
  BY <1>2 DEF Prepare, Go, TurnNames
<1>4. DiskTypes'
  <2>1. files' \in [Groups -> {Missing, Partial} \cup 0 .. run]
    BY DEF Prepare, TypeInv, TypeOK, DiskTypes
  <2>2. evidence' \in [Witnesses -> [run : 0 .. run, attempt : 0 .. MaxAttempts]]
    <3>1. NoEvidence \in [run : 0 .. run, attempt : 0 .. MaxAttempts]
      BY <1>2, Constants DEF NoEvidence
    <3> QED
      BY <3>1 DEF Prepare, TypeInv, TypeOK, DiskTypes
  <2>3. verdicts' \in [review : Verdicts.review, evaluation : Verdicts.evaluation]
    <3>1. /\ DOMAIN verdicts = {"review", "evaluation"}
          /\ verdicts.review \in Verdicts.review /\ verdicts.evaluation \in Verdicts.evaluation
      BY DEF TypeInv, TypeOK, DiskTypes
    <3>2. "UNKNOWN" \in Verdicts.review /\ "UNKNOWN" \in Verdicts.evaluation
      BY DEF Verdicts
    <3>3. verdicts' = [v \in {"review", "evaluation"} |-> IF v \in ToInvalidate THEN "UNKNOWN" ELSE verdicts[v]]
      BY <3>1 DEF Prepare
    <3>4. verdicts' = [review |-> verdicts'.review, evaluation |-> verdicts'.evaluation]
      BY <3>3
    <3>5. verdicts'.review \in Verdicts.review /\ verdicts'.evaluation \in Verdicts.evaluation
      BY <3>1, <3>2, <3>3
    <3> QED
      BY <3>4, <3>5
  <2> QED
    BY <1>1, <2>1, <2>2, <2>3 DEF DiskTypes, Same, Verdicts
<1>5. PageTypes'
  BY <1>1, <1>2, <1>4, PageTypesKept DEF TypeInv, TypeOK, DiskTypes, LogTypes, StatusTypes, PageTypes, Same, Verdicts
<1>6. LogTypes'
  BY <1>1, SilentTypes DEF Same
<1>7. ControlTypes'
  <2>1. passed' \in BOOLEAN /\ fresh' \in BOOLEAN
    BY <1>1 DEF TypeInv, TypeOK, ControlTypes
  <2> QED
    BY <1>1, <1>3, <2>1, Constants DEF TypeInv, TypeOK, ControlTypes, Alive, Going
<1>8. Places' /\ Attempts'
  <2>1. Places'
    BY <1>1, <1>2, <1>3 DEF Same, TypeInv, Places, Prompted
  <2>2. Attempts'
    BY <1>1, <1>3, Constants DEF Attempts, Prompted
  <2> QED
    BY <2>1, <2>2
<1> QED
  BY <1>1, <1>4, <1>5, <1>6, <1>7, <1>8, FileTypes

\* An agent leaves files, evidence and verdicts of their types.
LEMMA AgentWritesTypes ==
  ASSUME TypeInv, pc = "wait", Same, NEW what \in {"nothing", "part", "all"}, AgentWrites(what)
  PROVE  DiskTypes' /\ fresh' \in BOOLEAN
<1>1. run \in Nat /\ run > 0 /\ attempt \in 0 .. MaxAttempts /\ attempt > 0 /\ lineage \subseteq 1 .. run
  BY RunPositive DEF TypeInv, TypeOK, ControlTypes, Attempts, Prompted, Lineages
<1>2. prompt \in Prompts /\ Outputs[prompt] \in Groups /\ (prompt \in Judged => Role \in Witnesses)
  BY Named DEF TypeInv, Places, Prompted, Role
<1> DEFINE E == [run : 0 .. run, attempt : 0 .. MaxAttempts]
<1>3. AgentEvidence \subseteq E
  BY <1>1, Constants DEF AgentEvidence
<1>4. files' \in [Groups -> {Missing, Partial} \cup 0 .. run]
  BY <1>1, <1>2 DEF AgentWrites, TypeInv, TypeOK, DiskTypes
<1>5. evidence' \in [Witnesses -> E]
  <2>0. evidence \in [Witnesses -> E]
    BY DEF TypeInv, TypeOK, DiskTypes
  <2>1. CASE prompt \in Judged /\ what # "nothing"
    <3>1. PICK e \in AgentEvidence \cup (IF what = "all" THEN {} ELSE {evidence[Role]}) :
            evidence' = [evidence EXCEPT ![Role] = e]
      BY <2>1 DEF AgentWrites
    <3>2. e \in E
      BY <1>2, <1>3, <2>0, <2>1, <3>1
    <3> HIDE DEF E
    <3> QED
      BY <2>0, <3>1, <3>2
  <2>2. CASE ~(prompt \in Judged /\ what # "nothing")
    BY <2>0, <2>2 DEF AgentWrites
  <2> QED
    BY <2>1, <2>2
<1>6. verdicts' \in [review : Verdicts.review, evaluation : Verdicts.evaluation]
  <2>1. verdicts \in [review : Verdicts.review, evaluation : Verdicts.evaluation]
    BY DEF TypeInv, TypeOK, DiskTypes
  <2>2. CASE Outputs[prompt] \in DOMAIN verdicts /\ what # "nothing"
    <3>1. PICK v \in Verdicts[Outputs[prompt]] : verdicts' = [verdicts EXCEPT ![Outputs[prompt]] = v]
      BY <2>2 DEF AgentWrites
    <3>2. Outputs[prompt] \in {"review", "evaluation"}
      BY <2>1, <2>2
    <3> QED
      BY <2>1, <3>1, <3>2 DEF Verdicts
  <2>3. CASE ~(Outputs[prompt] \in DOMAIN verdicts /\ what # "nothing")
    BY <2>1, <2>3 DEF AgentWrites
  <2> QED
    BY <2>2, <2>3
<1>7. fresh' \in BOOLEAN
  BY DEF AgentWrites
<1> QED
  BY <1>4, <1>5, <1>6, <1>7 DEF DiskTypes, Same, Verdicts

\* AgentSucceeds (invoke_agent()) keeps the types.
LEMMA AgentSucceedsTypes == TypeInv /\ AgentSucceeds => TypeInv'
<1> SUFFICES ASSUME TypeInv, AgentSucceeds PROVE TypeInv'
  OBVIOUS
<1>1. /\ pc = "wait" /\ prompt \in Prompts /\ Role \in PipelineRoles
      /\ ids.invoked \in Nat /\ CurrentAttempt \in 0 .. MaxAttempts
      /\ ids' \in [IdNames -> 0 .. NewId] /\ cause' \in 0 .. NewId
  BY IdTypes, Named, CurrentAttemptType, Constants DEF AgentSucceeds, IdNames, TypeInv, TypeOK, Places, Prompted, Role
<1>2. LogTypes' /\ (pc' = Checks \/ pc' = "crashed")
  <2>1. PICK type \in {"agent_exited", "timeout_triggered"} : Emit(Event(type, Role, FALSE, ids.invoked, CurrentAttempt), Checks)
    BY DEF AgentSucceeds
  <2>2. type \in EVENT_TYPES
    BY EventNames
  <2> QED
    BY <1>1, <2>1, <2>2, EmitTypes
<1>3. DiskTypes' /\ fresh' \in BOOLEAN
  BY <1>1, AgentWritesTypes DEF AgentSucceeds
<1>4. /\ PageTypes'
      /\ UNCHANGED <<control, run>> /\ Same
  BY DEF AgentSucceeds, Same, TypeInv, TypeOK, PageTypes
<1>5. pc' \in {"failing", "outputs", "version", "evidence", "crashed"} /\ (pc' \in {"version", "evidence"} => prompt # "turn_a_spec") /\ (pc' = "evidence" => prompt # "turn_d_13q")
  BY <1>1, <1>2 DEF Checks, Prompts
<1>6. ControlTypes'
  BY <1>1, <1>3, <1>4, <1>5, ControlKept DEF Ended, Alive, Going
<1>7. Places' /\ Attempts'
  <2>1. Places'
    BY <1>1, <1>4, <1>5, RunPositive DEF control, TypeInv, Places, Prompted
  <2>2. attempt' = attempt /\ attempt > 0 /\ prompt' = prompt
    BY <1>1, <1>4 DEF control, TypeInv, Attempts, Prompted
  <2>3. BeforeBC' => Early
    BY <1>1, <1>5, <2>2 DEF Early, BeforeBC, At, Prompted
  <2>4. Attempts'
    BY <1>5, <2>2, <2>3 DEF TypeInv, Attempts, Early, Prompted
  <2> QED
    BY <2>1, <2>4
<1> QED
  BY <1>2, <1>3, <1>4, <1>6, <1>7, FileTypes

\* AgentFails (invoke_prompt()) keeps the types.
LEMMA AgentFailsTypes == TypeInv /\ AgentFails => TypeInv'
<1> SUFFICES ASSUME TypeInv, AgentFails PROVE TypeInv'
  OBVIOUS
<1>1. /\ pc = "wait" /\ prompt \in Prompts /\ Role \in PipelineRoles
      /\ ids.invoked \in Nat /\ CurrentAttempt \in 0 .. MaxAttempts
      /\ ids' \in [IdNames -> 0 .. NewId] /\ cause' \in 0 .. NewId
  BY IdTypes, Named, CurrentAttemptType, Constants DEF AgentFails, IdNames, TypeInv, TypeOK, Places, Prompted, Role
<1>2. LogTypes' /\ (pc' = "failing" \/ pc' = "crashed")
  <2>1. PICK type \in {"agent_exited", "timeout_triggered"} : Emit(Event(type, Role, TRUE, ids.invoked, CurrentAttempt), "failing")
    BY DEF AgentFails
  <2>2. type \in EVENT_TYPES
    BY EventNames
  <2> QED
    BY <1>1, <2>1, <2>2, EmitTypes
<1>3. DiskTypes' /\ fresh' \in BOOLEAN
  BY <1>1, AgentWritesTypes DEF AgentFails
<1>4. /\ PageTypes'
      /\ UNCHANGED <<control, run>> /\ Same
  BY DEF AgentFails, Same, TypeInv, TypeOK, PageTypes
<1>5. pc' \in {"failing", "outputs", "version", "evidence", "crashed"} /\ (pc' \in {"version", "evidence"} => prompt # "turn_a_spec") /\ (pc' = "evidence" => prompt # "turn_d_13q")
  BY <1>1, <1>2 DEF Checks, Prompts
<1>6. ControlTypes'
  BY <1>1, <1>3, <1>4, <1>5, ControlKept DEF Ended, Alive, Going
<1>7. Places' /\ Attempts'
  <2>1. Places'
    BY <1>1, <1>4, <1>5, RunPositive DEF control, TypeInv, Places, Prompted
  <2>2. attempt' = attempt /\ attempt > 0 /\ prompt' = prompt
    BY <1>1, <1>4 DEF control, TypeInv, Attempts, Prompted
  <2>3. BeforeBC' => Early
    BY <1>1, <1>5, <2>2 DEF Early, BeforeBC, At, Prompted
  <2>4. Attempts'
    BY <1>5, <2>2, <2>3 DEF TypeInv, Attempts, Early, Prompted
  <2> QED
    BY <2>1, <2>4
<1> QED
  BY <1>2, <1>3, <1>4, <1>6, <1>7, FileTypes

\* The length of a log that several events are added to.
LEMMA Concatenated ==
  ASSUME NEW S, NEW a \in Seq(S), NEW b \in Seq(S)
  PROVE  /\ a \o b \in Seq(S)
         /\ Len(a \o b) = Len(a) + Len(b)
         /\ Len(a) \in Nat /\ Len(b) \in Nat
BY ConcatProperties, LenProperties

\* An event of a thread of Turn B/C.
LEMMA EventBCTypes ==
  ASSUME TypeInv
  PROVE  /\ AttemptBC \in 0 .. MaxAttempts /\ AttemptBC \in Nat /\ ids.turn \in Nat /\ NewId \in Nat
         /\ \A type \in EVENT_TYPES, failed \in BOOLEAN, parent \in Nat :
              EventBC(type, failed, parent) \in PipelineEvents
<1>1. AttemptBC \in 0 .. MaxAttempts /\ AttemptBC \in Nat
  BY Constants DEF TypeInv, TypeOK, ControlTypes, AttemptBC
<1>2. ids.turn \in Nat /\ NewId \in Nat
  BY IdTypes DEF IdNames
<1>3. ASSUME NEW type \in EVENT_TYPES, NEW failed \in BOOLEAN, NEW parent \in Nat
      PROVE  EventBC(type, failed, parent) \in PipelineEvents
  BY <1>1, EventTypes, RoleNames DEF EventBC
<1> QED
  BY <1>1, <1>2, <1>3

\* A thread of Turn B/C adds four events.
LEMMA ChainTypes ==
  ASSUME TypeInv
  PROVE  Chain \in Seq(PipelineEvents) /\ Len(Chain) = 4
<1> DEFINE E(type, parent) == EventBC(type, FALSE, parent)
<1>1. NewId \in Nat /\ NewId + 1 \in Nat /\ NewId + 2 \in Nat
  BY EventBCTypes
<1>2. /\ E("prompt_rendered", ids.turn) \in PipelineEvents /\ E("agent_invoked", NewId) \in PipelineEvents
      /\ E("agent_exited", NewId + 1) \in PipelineEvents /\ E("output_verified", NewId + 2) \in PipelineEvents
  BY <1>1, EventBCTypes, EventNames
<1>3. Chain = <<E("prompt_rendered", ids.turn), E("agent_invoked", NewId), E("agent_exited", NewId + 1),
                E("output_verified", NewId + 2)>>
  BY DEF Chain
<1> HIDE DEF E
<1> QED
  BY <1>2, <1>3

\* TurnBCPasses (run_turn_bc()) keeps the types.
LEMMA TurnBCPassesTypes == TypeInv /\ TurnBCPasses => TypeInv'
<1> SUFFICES ASSUME TypeInv, TurnBCPasses PROVE TypeInv'
  OBVIOUS
<1>1. /\ pc = "inBC" /\ pc' = "auditBC" /\ Same
      /\ UNCHANGED <<evidence, verdicts, page, control, cause, fresh>>
      /\ log' = log \o Chain /\ ids' = [ids EXCEPT !.verified = NewId + 3]
  BY DEF TurnBCPasses
<1>2. LogTypes'
  <2>1. log \in Seq(PipelineEvents) /\ Len(log) \in Nat /\ NewId = Len(log) + 1
    BY LenProperties DEF TypeInv, TypeOK, LogTypes, NewId
  <2>2. Chain \in Seq(PipelineEvents) /\ Len(Chain) = 4
    BY ChainTypes
  <2>3. log' \in Seq(PipelineEvents) /\ Len(log') = Len(log) + 4
    BY <1>1, <2>1, <2>2, Concatenated
  <2>4. ids' \in [IdNames -> 0 .. Len(log')] /\ cause' \in 0 .. Len(log')
    <3>1. NewId + 3 \in 0 .. Len(log') /\ 0 .. Len(log) \subseteq 0 .. Len(log')
      BY <2>1, <2>3
    <3>2. ids \in [IdNames -> 0 .. Len(log)] /\ cause \in 0 .. Len(log)
      BY DEF TypeInv, TypeOK, LogTypes
    <3> QED
      BY <1>1, <3>1, <3>2
  <2>5. status' \in StatusTypes
    BY EventBCTypes DEF TurnBCPasses, StatusTypes, States
  <2> QED
    BY <2>1, <2>3, <2>4, <2>5 DEF LogTypes, StatusTypes
<1>3. DiskTypes' /\ PageTypes'
  <2>1. run \in Nat
    BY <1>1, RunPositive
  <2>2. files' \in [Groups -> {Missing, Partial} \cup 0 .. run]
    BY <2>1 DEF TurnBCPasses, TypeInv, TypeOK, DiskTypes
  <2> QED
    BY <1>1, <2>2 DEF DiskTypes, PageTypes, Same, TypeInv, TypeOK, Verdicts
<1>4. ControlTypes'
  BY <1>1, ControlKept DEF Same, TypeInv, TypeOK, ControlTypes, Ended, Alive, Going
<1>5. Places' /\ Attempts'
  BY <1>1, RunPositive DEF Same, control, TypeInv, Places, Attempts, Prompted, Early, BeforeBC
<1> QED
  BY <1>1, <1>2, <1>3, <1>4, <1>5, FileTypes

\* A step with which Turn B/C fails, or goes on failing.
LEMMA FailingBCTypes ==
  ASSUME TypeInv, pc \in {"inBC", "unwindBC"}, pc' = "unwindBC", Same, LeftByBC,
         UNCHANGED <<evidence, verdicts, page, control, ids, cause, fresh>>,
         log' \in Seq(PipelineEvents), Len(log') >= Len(log), status' \in StatusTypes
  PROVE  TypeInv'
<1>1. LogTypes'
  <2>1. ids \in [IdNames -> 0 .. Len(log)] /\ cause \in 0 .. Len(log) /\ Len(log) \in Nat /\ Len(log') \in Nat
    BY LenProperties DEF TypeInv, TypeOK, LogTypes
  <2>2. 0 .. Len(log) \subseteq 0 .. Len(log') /\ (Len(log) > 0 => Len(log') > 0)
    BY <2>1
  <2>3. ids' \in [IdNames -> 0 .. Len(log')] /\ cause' \in 0 .. Len(log')
    BY <2>1, <2>2
  <2>4. run' = run /\ (run > 0 => Len(log) > 0)
    BY DEF Same, TypeInv, TypeOK, LogTypes
  <2> QED
    BY <2>2, <2>3, <2>4 DEF LogTypes, StatusTypes
<1>2. DiskTypes' /\ PageTypes'
  <2>1. run \in Nat
    BY RunPositive
  <2>2. files' \in [Groups -> {Missing, Partial} \cup 0 .. run]
    <3>1. PICK left \in [MadeByBC -> {Missing, Partial, run}] :
            files' = [g \in Groups |-> IF g \in MadeByBC THEN left[g] ELSE files[g]]
      BY DEF LeftByBC
    <3> QED
      BY <2>1, <3>1 DEF TypeInv, TypeOK, DiskTypes
  <2> QED
    BY <2>2 DEF DiskTypes, PageTypes, Same, TypeInv, TypeOK, Verdicts
<1>3. ControlTypes'
  BY ControlKept DEF Same, TypeInv, TypeOK, ControlTypes, Ended, Alive, Going
<1>4. Places' /\ Attempts'
  BY RunPositive DEF Same, control, TypeInv, Places, Attempts, Prompted, Early, BeforeBC, At
<1> QED
  BY <1>1, <1>2, <1>3, <1>4, FileTypes

\* TurnBCFails (run_turn_bc(), record_run_failed()) keeps the types.
LEMMA TurnBCFailsTypes == TypeInv /\ TurnBCFails => TypeInv'
<1> SUFFICES ASSUME TypeInv, TurnBCFails PROVE TypeInv'
  OBVIOUS
<1>1. log \in Seq(PipelineEvents) /\ Len(log) \in Nat /\ status \in StatusTypes
  BY LenProperties DEF TypeInv, TypeOK, LogTypes, StatusTypes
<1>2. ASSUME log' = log \o <<EventBC("prompt_rendered", TRUE, ids.turn),
                            Event("run_failed", "orchestrator", TRUE, NewId, AttemptBC)>>,
             status' = [status EXCEPT !.state = "failed", !.attempt = AttemptBC]
      PROVE  log' \in Seq(PipelineEvents) /\ Len(log') >= Len(log) /\ status' \in StatusTypes
  <2> DEFINE rendered == EventBC("prompt_rendered", TRUE, ids.turn)
             failed == Event("run_failed", "orchestrator", TRUE, NewId, AttemptBC)
             ends == <<rendered, failed>>
  <2>1. rendered \in PipelineEvents /\ failed \in PipelineEvents
    BY EventBCTypes, EventTypes, EventNames, RoleNames
  <2>2. log' = log \o ends
    BY <1>2
  <2> HIDE DEF rendered, failed
  <2>3. ends \in Seq(PipelineEvents) /\ Len(ends) = 2
    BY <2>1
  <2> HIDE DEF ends
  <2>4. log' \in Seq(PipelineEvents) /\ Len(log') >= Len(log)
    BY <1>1, <2>2, <2>3, Concatenated
  <2>5. status' = [state |-> "failed", attempt |-> AttemptBC, worker |-> status.worker]
    BY <1>1, <1>2 DEF StatusTypes
  <2>6. status' \in StatusTypes
    BY <1>1, <2>5, EventBCTypes DEF StatusTypes, States
  <2> QED
    BY <2>4, <2>6
<1>3. ASSUME log' = Append(log, EventBC("output_verified", FALSE, 0)), status' = status
      PROVE  log' \in Seq(PipelineEvents) /\ Len(log') >= Len(log) /\ status' \in StatusTypes
  <2> DEFINE e == EventBC("output_verified", FALSE, 0)
  <2>1. e \in PipelineEvents
    BY EventBCTypes, EventNames
  <2>2. log' = Append(log, e)
    BY <1>3
  <2> HIDE DEF e
  <2> DEFINE longer == Append(log, e)
  <2>3. longer \in Seq(PipelineEvents) /\ Len(longer) = Len(log) + 1 /\ log' = longer
    BY <1>1, <2>1, <2>2, AppendProperties
  <2> HIDE DEF longer
  <2>4. status' \in StatusTypes /\ Len(log) \in Nat
    BY <1>1, <1>3
  <2> QED
    BY <2>3, <2>4
<1>4. log' \in Seq(PipelineEvents) /\ Len(log') >= Len(log) /\ status' \in StatusTypes
  BY <1>2, <1>3 DEF TurnBCFails
<1> QED
  BY <1>4, FailingBCTypes DEF TurnBCFails

\* TurnBCLingers (background_prompt(), write_status()) keeps the types.
LEMMA TurnBCLingersTypes == TypeInv /\ TurnBCLingers => TypeInv'
<1> SUFFICES ASSUME TypeInv, TurnBCLingers PROVE TypeInv'
  OBVIOUS
<1>1. log \in Seq(PipelineEvents) /\ Len(log) \in Nat /\ status \in StatusTypes
  BY LenProperties DEF TypeInv, TypeOK, LogTypes, StatusTypes
<1>2. ASSUME status' = [status EXCEPT !.state = "running"], log' = log
      PROVE  log' \in Seq(PipelineEvents) /\ Len(log') >= Len(log) /\ status' \in StatusTypes
  BY <1>1, <1>2 DEF StatusTypes, States
<1>3. ASSUME log' = Append(log, EventBC("prompt_rendered", FALSE, ids.turn)), status' = status
      PROVE  log' \in Seq(PipelineEvents) /\ Len(log') >= Len(log) /\ status' \in StatusTypes
  <2> DEFINE e == EventBC("prompt_rendered", FALSE, ids.turn)
  <2>1. e \in PipelineEvents
    BY EventBCTypes, EventNames
  <2>2. log' = Append(log, e)
    BY <1>3
  <2> HIDE DEF e
  <2> DEFINE longer == Append(log, e)
  <2>3. longer \in Seq(PipelineEvents) /\ Len(longer) = Len(log) + 1 /\ log' = longer
    BY <1>1, <2>1, <2>2, AppendProperties
  <2> HIDE DEF longer
  <2>4. status' \in StatusTypes /\ Len(log) \in Nat
    BY <1>1, <1>3
  <2> QED
    BY <2>3, <2>4
<1>4. log' \in Seq(PipelineEvents) /\ Len(log') >= Len(log) /\ status' \in StatusTypes
  BY <1>2, <1>3 DEF TurnBCLingers
<1> QED
  BY <1>4, FailingBCTypes DEF TurnBCLingers

\* TurnBCEnds (run_turn_bc()) keeps the types.
LEMMA TurnBCEndsTypes == TypeInv /\ TurnBCEnds => TypeInv'
<1> SUFFICES ASSUME TypeInv, TurnBCEnds PROVE TypeInv'
  OBVIOUS
<1>1. /\ pc = "unwindBC" /\ pc' \in {"aborted", "crashed"} /\ Same
      /\ UNCHANGED <<disk, page, log, status, control, ids, cause, fresh>> /\ cause' \in {cause, RunStarted}
  BY DEF TurnBCEnds
<1>2. Places' /\ Attempts'
  BY <1>1, RunPositive DEF Same, control, TypeInv, Places, Attempts, Prompted, Early, BeforeBC, At
<1> QED
  BY <1>1, <1>2, SilentStepTypes DEF Ended, Alive

\* Every step of the specification keeps the types.
LEMMA NextTypes == TypeInv /\ [Next]_vars => TypeInv'
<1> SUFFICES ASSUME TypeInv, [Next]_vars PROVE TypeInv'
  OBVIOUS
<1>1. CASE UNCHANGED vars
  BY <1>1 DEF vars, TypeInv, TypeOK, DiskTypes, PageTypes, RunTypes, LogTypes, ControlTypes, Places, Attempts, Lineages, Early, BeforeBC, At
<1>2. CASE Launch \/ Kill
  BY <1>2, LaunchTypes, KillTypes
<1>3. CASE PreflightPasses \/ PreflightFails \/ FailRun \/ Prepare
  BY <1>3, PreflightPassesTypes, PreflightFailsTypes, FailRunTypes, PrepareTypes
<1>4. CASE Prompting
  <2>1. VersionDiffers \/ EvidenceFails \/ OutputsRefused => TypeInv'
    BY RefutedTypes DEF VersionDiffers, EvidenceFails, OutputsRefused
  <2> QED
    BY <1>4, <2>1, RenderPromptTypes, RefusePromptTypes, InvokeAgentTypes, AgentSucceedsTypes, AgentFailsTypes,
       VersionMatchesTypes, VersionUnreadableTypes, EvidenceHoldsTypes, OutputsVerifiedTypes
    DEF Prompting
<1>5. CASE Specifying
  BY <1>5, StartATypes, AuditATypes, HumanContinuesTypes, BCInputMissingTypes, StartBCTypes,
     TurnBCPassesTypes, TurnBCFailsTypes, TurnBCLingersTypes, TurnBCEndsTypes, AuditBCTypes, PlanMissingTypes
  DEF Specifying
<1>6. CASE Building
  <2>1. ReviewUnreadable => TypeInv'
    BY RefutedTypes DEF ReviewUnreadable
  <2> QED
    BY <1>6, <2>1, DInputMissingTypes, StartDTypes, BeginAttemptTypes, ReviewPassesTypes, ReviewRetriesTypes,
       ReviewEscalatesTypes, EscalateTypes, RetryReviewTypes, CompleteDTypes, AuditDFailsTypes
    DEF Building
<1>7. CASE Evaluating
  BY <1>7, EInputMissingTypes, StartETypes, HashInputsTypes, EvaluationPassesTypes, EvaluationFailsTypes,
     CompleteETypes, AuditETypes, RetryEvaluationTypes, CompleteRunTypes, NotConvergedTypes
  DEF Evaluating
<1> QED
  BY <1>1, <1>2, <1>3, <1>4, <1>5, <1>6, <1>7 DEF Next, Step

\* Every variable keeps its type: the counters stay within the budget, the ids
\* name events of the log, and no file or page is of a run to come.
THEOREM TypeCorrect == Spec => []TypeOK
<1>1. TypeInv => TypeOK
  BY DEF TypeInv
<1> QED
  BY InitTypes, NextTypes, <1>1, PTL DEF Spec

----------------------------------------------------------------------------
(* What a run has done when it gets somewhere *)

\* What is left of the groups of a stage at each point of the run that makes it.
Reached(g) ==
  /\ g = "spec" => Specified
  /\ g \in {"plan", "holdout"} => Planned
  /\ g = "q13" => Gated
  /\ g = "review" => Reviewed
  /\ g = "build" => Built
  /\ g = "evaluation" => Scored

\* The judge's or builder's evidence for this attempt has been verified.
Seen(w) ==
  /\ w = "reviewer" => Approved \/ At("turn_d_review", {"outputs", "verdict"})
  /\ w = "builder" => Built \/ At("turn_d_build", {"outputs"})
  /\ w = "evaluator" => Scored \/ At("turn_e_eval", {"outputs"})

\* The log has a verdict of this judge for the current attempt.
ApprovedBy(role) ==
  \E i \in DOMAIN log : /\ log[i].type \in {"review_verdict_recorded", "evaluation_verdict_recorded"}
                        /\ log[i].role = role /\ log[i].failed = FALSE /\ log[i].attempt = attempt

\* A run from Turn E stays there.
Where ==
  from = "E" /\ Working => (InTurnE \/ pc = "retryEval") /\ (pc = "startE" \/ prompt = "turn_e_eval")

\* What the run is to make is gone, begun, or its own; and its own once the
\* run is past making it.
Made ==
  Working => \A g \in ToInvalidate : files[g] \in {Missing, Partial, run} /\ (Reached(g) => files[g] = run)

\* Outputs that are newer than the prompt are those of this run.
Renewed == pc \in {"version", "evidence", "outputs"} /\ fresh => files[Outputs[prompt]] = run

\* Evidence that was verified is about this attempt; evidence of an earlier
\* stage than the run began at is of an earlier run.
Attested ==
  \A w \in Witnesses :
    /\ GroupOf[w] \in ToInvalidate /\ Seen(w) => evidence[w].attempt = attempt
    /\ GroupOf[w] \notin ToInvalidate => evidence[w].run < run

\* The judges whose approval the run went on with have given it.
Endorsed ==
  /\ from # "E" /\ Approved => ApprovedBy("reviewer")
  /\ passed /\ Working => ApprovedBy("evaluator")

\* PASS is in the report only from when the evaluator left it there until its
\* verdict is acted upon.
Passing ==
  /\ passed /\ pc \in Going => pc \in {"auditE", "converge", "failing"}
  /\ passed /\ Working => verdicts.evaluation = "PASS"
  /\ pc = "converge" => passed
  /\ Working /\ ~passed /\ ~At("turn_e_eval", {"version", "evidence", "outputs", "verdict"})
       => verdicts.evaluation # "PASS"

\* The page is of an earlier run until this one writes it; it does not say
\* PASS before convergence, nor that B and C are done before they are.
Paged ==
  /\ ~page.managed => page.run = 0
  /\ pc \in {"preflight", "prepare"} => page.run < run
  /\ Working /\ pc # "converge" /\ page.run = run => page.label # "PASS"
  /\ BeforeBC => \A g \in MadeByBC : files[g] = Missing
  /\ BeforeBC \/ pc = "unwindBC" =>
       from \in {"A", "B", "C"} /\ \A g \in MadeByBC : page.run = run => StageOf[g] \notin page.done

RunInv == Where /\ Made /\ Renewed /\ Attested /\ Endorsed /\ Passing /\ Paged /\ CompletionEarned /\ PageTruthful

IInv == TypeInv /\ (run > 0 => RunInv)

\* Every region is one in which the run works.
LEMMA Regions ==
  /\ Approved \/ BeforeBC => Working
  /\ \A w \in Witnesses : Seen(w) => Working
BY DEF Seen, Approved, Built, InTurnE, Scored, BeforeBC, At, Prompted, Working, Alive, Going, Witnesses

\* What a step within a run cannot change.
LEMMA SameRun ==
  Same => /\ from' = from /\ run' = run /\ lineage' = lineage /\ mode' = mode
          /\ ToInvalidate' = ToInvalidate /\ MadeByBC' = MadeByBC
BY DEF Same, shared, from, ToInvalidate, MadeByBC

\* The page that is written tells of the files it is written from.
LEMMA UpdatedTells ==
  ASSUME NEW f, NEW v, NEW st, page.managed, NEW p, p = Updated(f, v, st)
  PROVE  /\ p.managed /\ p.run = run /\ p.label = Label(f, v) /\ p.done = Done(f) /\ p.state = st.state
         /\ \A g \in Groups : StageOf[g] \in p.done => g \in Complete(f)
         /\ p.label = "PASS" => v.evaluation = "PASS"
<1>1. p = [managed |-> TRUE, run |-> run, state |-> st.state, done |-> Done(f), label |-> Label(f, v)]
  BY DEF Updated
<1>2. \A g \in Groups : StageOf[g] \in Done(f) => g \in Complete(f)
  BY DEF Done
<1>3. Label(f, v) = "PASS" => v.evaluation = "PASS"
  BY DEF Label
<1> QED
  BY <1>1, <1>2, <1>3

\* The page tells the truth when it stays, or is written from the files as
\* they are.
LEMMA PageTells ==
  ASSUME RunInv, run \in Nat, run > 0, Same, UNCHANGED disk, page' \in {page, Updated(files, verdicts, status)}
  PROVE  PageTruthful' /\ (~page'.managed => page'.run = 0)
<1>1. files' = files /\ verdicts' = verdicts /\ run' = run /\ Complete(files') = Complete(files)
  BY DEF disk, Same
<1>2. PageTruthful /\ (~page.managed => page.run = 0)
  BY DEF RunInv, Paged
<1>3. CASE page' = page
  BY <1>1, <1>2, <1>3 DEF PageTruthful
<1>4. CASE page' = Updated(files, verdicts, status) /\ page.managed
  <2>1. /\ page'.managed
        /\ \A g \in Groups : StageOf[g] \in page'.done => g \in Complete(files)
        /\ page'.label = "PASS" => verdicts.evaluation = "PASS"
    BY <1>4, UpdatedTells
  <2> QED
    BY <1>1, <2>1 DEF PageTruthful
<1>5. CASE page' = Updated(files, verdicts, status) /\ ~page.managed
  BY <1>3, <1>5 DEF Updated
<1> QED
  BY <1>3, <1>4, <1>5

\* A step that leaves the run without more to do than to fail, if that.
LEMMA QuitKeeps ==
  ASSUME RunInv, run \in Nat, run > 0, Same, UNCHANGED disk,
         pc' \in {"failing", "aborted", "crashed", "killed"},
         page' \in {page, Updated(files, verdicts, status)}
  PROVE  RunInv'
<1>1. ~Working' /\ pc' \notin {"version", "evidence", "outputs", "preflight", "prepare", "completed", "converge"}
  BY DEF Working, Alive, Going
<1>2. ~Approved' /\ ~BeforeBC' /\ \A w \in Witnesses : ~Seen(w)'
  BY <1>1 DEF Seen, Approved, Built, InTurnE, Scored, BeforeBC, At, Prompted, Witnesses
<1>3. Where' /\ Made' /\ Renewed' /\ Endorsed' /\ CompletionEarned'
  BY <1>1, <1>2 DEF Where, Made, Renewed, Endorsed, CompletionEarned
<1>4. Attested'
  BY <1>2, SameRun DEF Attested, RunInv, disk
<1>5. Passing'
  BY <1>1 DEF Passing, Alive, Going
<1>6. Paged' /\ PageTruthful'
  BY <1>1, <1>2, PageTells DEF Paged
<1> QED
  BY <1>3, <1>4, <1>5, <1>6 DEF RunInv

\* A step from one stage of the run to the next, or within one.
LEMMA OnwardKeeps ==
  ASSUME RunInv, run \in Nat, run > 0, Same, UNCHANGED disk, Working, Working', pc # "converge",
         page' \in {page, Updated(files, verdicts, status)}, pc' = "converge" \/ verdicts.evaluation # "PASS" \/ page' = page,
         BeforeBC' => BeforeBC, Where', Renewed', Endorsed', Passing',
         \A g \in ToInvalidate : Reached(g)' => Reached(g) \/ files[g] = run,
         \A w \in Witnesses : Seen(w)' => (Seen(w) /\ attempt' = attempt) \/ evidence[w].attempt = attempt'
  PROVE  RunInv'
<1>1. /\ run' = run /\ from' = from /\ ToInvalidate' = ToInvalidate /\ MadeByBC' = MadeByBC
      /\ files' = files /\ evidence' = evidence /\ verdicts' = verdicts
  BY SameRun DEF disk
<1>2. pc' \notin {"preflight", "prepare", "completed", "unwindBC"}
  BY DEF Working, Going
<1>3. Made'
  <2>1. \A g \in ToInvalidate : files[g] \in {Missing, Partial, run} /\ (Reached(g) => files[g] = run)
    BY DEF RunInv, Made
  <2> QED
    BY <1>1, <2>1 DEF Made
<1>4. Attested'
  BY <1>1 DEF Attested, RunInv
<1>5. Paged' /\ PageTruthful'
  <2>1. PageTruthful' /\ (~page'.managed => page'.run = 0)
    BY PageTells
  <2>2. CASE page' = page
    BY <1>1, <1>2, <2>1, <2>2 DEF Paged, RunInv
  <2>3. CASE page' = Updated(files, verdicts, status) /\ page.managed
    <3>1. page'.label = "PASS" => verdicts.evaluation = "PASS"
      BY <2>3, UpdatedTells
    <3>2. \A g \in Groups : files[g] = Missing => StageOf[g] \notin page'.done
      BY <2>3, UpdatedTells DEF Complete, Missing
    <3>3. BeforeBC' => from \in {"A", "B", "C"} /\ \A g \in MadeByBC : g \in Groups /\ files[g] = Missing
      BY DEF Paged, RunInv, MadeByBC, Groups
    <3>4. Working' /\ pc' # "converge" /\ page'.run = run => page'.label # "PASS"
      <4>1. CASE page' = page
        BY <1>1, <4>1 DEF Paged, RunInv
      <4> QED
        BY <3>1, <4>1
    <3> QED
      BY <1>1, <1>2, <2>1, <3>2, <3>3, <3>4 DEF Paged
  <2>4. CASE page' = Updated(files, verdicts, status) /\ ~page.managed
    BY <2>2, <2>4 DEF Updated
  <2> QED
    BY <2>2, <2>3, <2>4
<1>6. CompletionEarned'
  BY <1>2 DEF CompletionEarned
<1> QED
  BY <1>3, <1>4, <1>5, <1>6 DEF RunInv

\* An emission keeps what is in the log.
LEMMA Appended ==
  ASSUME TypeInv, NEW e, NEW next, Emit(e, next)
  PROVE  /\ \A i \in DOMAIN log : i \in DOMAIN log' /\ log'[i] = log[i]
         /\ NewId \in DOMAIN log' /\ log'[NewId] = e
<1> DEFINE S == PipelineEvents \cup {e}
<1>1. log \in Seq(PipelineEvents) /\ Len(log) \in Nat /\ DOMAIN log = 1 .. Len(log)
  BY LenProperties DEF TypeInv, TypeOK, LogTypes
<1>2. log \in Seq(S) /\ e \in S
  <2>1. \A i \in 1 .. Len(log) : log[i] \in S
    BY <1>1, ElementOfSeq
  <2>2. log \in [1 .. Len(log) -> S]
    BY <1>1, <2>1, LenProperties
  <2>3. Seq(S) = UNION {[1 .. n -> S] : n \in Nat}
    BY SeqDef
  <2> QED
    BY <1>1, <2>2, <2>3
<1>3. log' = Append(log, e)
  BY DEF Emit
<1> HIDE DEF S
<1>4. /\ Append(log, e) \in Seq(S) /\ Len(Append(log, e)) = Len(log) + 1
      /\ \A i \in 1 .. Len(log) : Append(log, e)[i] = log[i]
      /\ Append(log, e)[Len(log) + 1] = e
  BY <1>2, AppendProperties
<1>5. DOMAIN Append(log, e) = 1 .. Len(log) + 1
  BY <1>4, LenProperties
<1> QED
  BY <1>1, <1>3, <1>4, <1>5 DEF NewId

\* An approval in the log stays there.
LEMMA ApprovalKept ==
  ASSUME TypeInv, attempt' = attempt, NEW e, NEW next, log' = log \/ Emit(e, next)
  PROVE  \A role : ApprovedBy(role) => ApprovedBy(role)'
<1>1. CASE log' = log
  BY <1>1 DEF ApprovedBy
<1>2. CASE Emit(e, next)
  BY <1>2, Appended DEF ApprovedBy
<1> QED
  BY <1>1, <1>2

\* Most steps within a run: nothing decided, nothing written.
LEMMA MoveKeeps ==
  ASSUME TypeInv, RunInv, run \in Nat, run > 0, Same, UNCHANGED <<disk, page, attempt, passed>>, Working, Working',
         NEW e, NEW next, log' = log \/ Emit(e, next),
         pc \notin {"auditE", "converge"}, pc' # "converge",
         BeforeBC' => BeforeBC, Where', Renewed',
         \A g \in ToInvalidate : Reached(g)' => Reached(g) \/ files[g] = run,
         \A w \in Witnesses : Seen(w)' => Seen(w) \/ evidence[w].attempt = attempt,
         from # "E" /\ Approved' => Approved,
         At("turn_e_eval", {"version", "evidence", "outputs", "verdict"})
           => At("turn_e_eval", {"version", "evidence", "outputs", "verdict"})' \/ verdicts.evaluation # "PASS"
  PROVE  RunInv'
<1>1. ~passed /\ ~passed'
  BY DEF RunInv, Passing, Working
<1>2. Endorsed'
  <2>1. ApprovedBy("reviewer") => ApprovedBy("reviewer")'
    BY ApprovalKept
  <2>2. from' = from
    BY SameRun
  <2> QED
    BY <1>1, <2>1, <2>2 DEF Endorsed, RunInv
<1>3. Passing'
  BY <1>1 DEF Passing, RunInv, disk
<1> QED
  BY <1>2, <1>3, OnwardKeeps

\* An emission goes on or crashes.
LEMMA Emitted ==
  ASSUME NEW e, NEW next, Emit(e, next) PROVE pc' \in {next, "crashed"}
BY DEF Emit

\* A move that comes no further than before in any of this.
LEMMA MoveBackKeeps ==
  ASSUME TypeInv, RunInv, run \in Nat, run > 0, Same, UNCHANGED <<disk, page, attempt, passed>>, Working, Working',
         NEW e, NEW next, log' = log \/ Emit(e, next),
         pc \notin {"auditE", "converge"}, pc' # "converge", Where', Renewed',
         BeforeBC' => BeforeBC, Specified' => Specified, Planned' => Planned, Gated' => Gated, Reviewed' => Reviewed,
         Approved' => Approved, Built' => Built, Scored' => Scored,
         At("turn_d_review", {"outputs", "verdict"})' => At("turn_d_review", {"outputs", "verdict"}),
         At("turn_d_build", {"outputs"})' => At("turn_d_build", {"outputs"}),
         At("turn_e_eval", {"outputs"})' => At("turn_e_eval", {"outputs"}),
         At("turn_e_eval", {"version", "evidence", "outputs", "verdict"})
           => At("turn_e_eval", {"version", "evidence", "outputs", "verdict"})' \/ verdicts.evaluation # "PASS"
  PROVE  RunInv'
<1>1. \A g \in ToInvalidate : Reached(g)' => Reached(g)
  BY DEF Reached
<1>2. \A w \in Witnesses : Seen(w)' => Seen(w)
  BY DEF Seen
<1> QED
  BY <1>1, <1>2, MoveKeeps

\* RenderPrompt (invoke_prompt()) keeps what the run has earned.
LEMMA RenderPromptKeeps == TypeInv /\ run > 0 /\ RunInv /\ RenderPrompt => RunInv'
<1> SUFFICES ASSUME TypeInv, run > 0, RunInv, RenderPrompt PROVE RunInv'
  OBVIOUS
<1>1. /\ run \in Nat /\ pc = "dispatch" /\ prompt' = prompt
      /\ Same /\ UNCHANGED <<disk, page, attempt, passed>>
  BY RunPositive DEF RenderPrompt, control
<1>2. PICK e, next : (log' = log \/ Emit(e, next)) /\ pc' \in {"invoke", "crashed"}
  BY Emitted DEF RenderPrompt
<1>3. CASE pc' = "crashed"
  BY <1>1, <1>3, QuitKeeps
<1>4. CASE pc' = "invoke"
  <2>1. prompt \in Prompts \/ pc \notin Prompted
    BY DEF TypeInv, Places
  <2>2. Working /\ Working' /\ pc \notin {"auditE", "converge"} /\ pc' # "converge"
    BY <1>1, <1>4 DEF Working, Alive, Going
  <2>3. Where' /\ Renewed'
    BY <1>1, <1>4, <2>1, <2>2, SameRun DEF RenderPrompt, Where, Renewed, RunInv, disk, InTurnE, At, Prompted, Prompts
  <2>4. /\ BeforeBC' => BeforeBC
        /\ Specified' => Specified
        /\ Planned' => Planned
        /\ Gated' => Gated
        /\ Reviewed' => Reviewed
        /\ Approved' => Approved
        /\ Built' => Built
        /\ Scored' => Scored
    BY <1>1, <1>4, <2>1 DEF Specified, Planned, Gated, Reviewed, Approved, Built, InTurnE, Scored, BeforeBC, At, Prompted, Prompts
  <2>5. /\ At("turn_d_review", {"outputs", "verdict"})' => At("turn_d_review", {"outputs", "verdict"})
        /\ At("turn_d_build", {"outputs"})' => At("turn_d_build", {"outputs"})
        /\ At("turn_e_eval", {"outputs"})' => At("turn_e_eval", {"outputs"})
        /\ At("turn_e_eval", {"version", "evidence", "outputs", "verdict"})
             => At("turn_e_eval", {"version", "evidence", "outputs", "verdict"})' \/ verdicts.evaluation # "PASS"
    BY <1>1, <1>4, <2>1 DEF At, Prompts
  <2> QED
    BY <1>1, <1>2, <2>2, <2>3, <2>4, <2>5, MoveBackKeeps
<1> QED
  BY <1>2, <1>3, <1>4

\* InvokeAgent (invoke_agent()) keeps what the run has earned.
LEMMA InvokeAgentKeeps == TypeInv /\ run > 0 /\ RunInv /\ InvokeAgent => RunInv'
<1> SUFFICES ASSUME TypeInv, run > 0, RunInv, InvokeAgent PROVE RunInv'
  OBVIOUS
<1>1. /\ run \in Nat /\ pc = "invoke" /\ prompt' = prompt
      /\ Same /\ UNCHANGED <<disk, page, attempt, passed>>
  BY RunPositive DEF InvokeAgent, control
<1>2. PICK e, next : (log' = log \/ Emit(e, next)) /\ pc' \in {"wait", "crashed"}
  BY Emitted DEF InvokeAgent
<1>3. CASE pc' = "crashed"
  BY <1>1, <1>3, QuitKeeps
<1>4. CASE pc' = "wait"
  <2>1. prompt \in Prompts \/ pc \notin Prompted
    BY DEF TypeInv, Places
  <2>2. Working /\ Working' /\ pc \notin {"auditE", "converge"} /\ pc' # "converge"
    BY <1>1, <1>4 DEF Working, Alive, Going
  <2>3. Where' /\ Renewed'
    BY <1>1, <1>4, <2>1, <2>2, SameRun DEF InvokeAgent, Where, Renewed, RunInv, disk, InTurnE, At, Prompted, Prompts
  <2>4. /\ BeforeBC' => BeforeBC
        /\ Specified' => Specified
        /\ Planned' => Planned
        /\ Gated' => Gated
        /\ Reviewed' => Reviewed
        /\ Approved' => Approved
        /\ Built' => Built
        /\ Scored' => Scored
    BY <1>1, <1>4, <2>1 DEF Specified, Planned, Gated, Reviewed, Approved, Built, InTurnE, Scored, BeforeBC, At, Prompted, Prompts
  <2>5. /\ At("turn_d_review", {"outputs", "verdict"})' => At("turn_d_review", {"outputs", "verdict"})
        /\ At("turn_d_build", {"outputs"})' => At("turn_d_build", {"outputs"})
        /\ At("turn_e_eval", {"outputs"})' => At("turn_e_eval", {"outputs"})
        /\ At("turn_e_eval", {"version", "evidence", "outputs", "verdict"})
             => At("turn_e_eval", {"version", "evidence", "outputs", "verdict"})' \/ verdicts.evaluation # "PASS"
    BY <1>1, <1>4, <2>1 DEF At, Prompts
  <2> QED
    BY <1>1, <1>2, <2>2, <2>3, <2>4, <2>5, MoveBackKeeps
<1> QED
  BY <1>2, <1>3, <1>4

\* VersionMatches (extract_version_evidence()) keeps what the run has earned.
LEMMA VersionMatchesKeeps == TypeInv /\ run > 0 /\ RunInv /\ VersionMatches => RunInv'
<1> SUFFICES ASSUME TypeInv, run > 0, RunInv, VersionMatches PROVE RunInv'
  OBVIOUS
<1>1. /\ run \in Nat /\ pc = "version" /\ prompt' = prompt
      /\ Same /\ UNCHANGED <<disk, page, attempt, passed>>
  BY RunPositive DEF VersionMatches, Go, control
<1>2. PICK e, next : (log' = log \/ Emit(e, next)) /\ pc' \in {(IF prompt = "turn_d_13q" THEN "outputs" ELSE "evidence"), "crashed"}
  BY Emitted DEF VersionMatches, Go
<1>3. CASE pc' = "crashed"
  BY <1>1, <1>3, QuitKeeps
<1>4. CASE pc' = (IF prompt = "turn_d_13q" THEN "outputs" ELSE "evidence")
  <2>1. prompt \in Prompts \/ pc \notin Prompted
    BY DEF TypeInv, Places
  <2>2. Working /\ Working' /\ pc \notin {"auditE", "converge"} /\ pc' # "converge"
    BY <1>1, <1>4 DEF Working, Alive, Going
  <2>3. Where' /\ Renewed'
    BY <1>1, <1>4, <2>1, <2>2, SameRun DEF VersionMatches, Go, Where, Renewed, RunInv, disk, InTurnE, At, Prompted, Prompts
  <2>4. /\ BeforeBC' => BeforeBC
        /\ Specified' => Specified
        /\ Planned' => Planned
        /\ Gated' => Gated
        /\ Reviewed' => Reviewed
        /\ Approved' => Approved
        /\ Built' => Built
        /\ Scored' => Scored
    BY <1>1, <1>4, <2>1 DEF Specified, Planned, Gated, Reviewed, Approved, Built, InTurnE, Scored, BeforeBC, At, Prompted, Prompts
  <2>5. /\ At("turn_d_review", {"outputs", "verdict"})' => At("turn_d_review", {"outputs", "verdict"})
        /\ At("turn_d_build", {"outputs"})' => At("turn_d_build", {"outputs"})
        /\ At("turn_e_eval", {"outputs"})' => At("turn_e_eval", {"outputs"})
        /\ At("turn_e_eval", {"version", "evidence", "outputs", "verdict"})
             => At("turn_e_eval", {"version", "evidence", "outputs", "verdict"})' \/ verdicts.evaluation # "PASS"
    BY <1>1, <1>4, <2>1 DEF At, Prompts
  <2> QED
    BY <1>1, <1>2, <2>2, <2>3, <2>4, <2>5, MoveBackKeeps
<1> QED
  BY <1>2, <1>3, <1>4

\* StartBC (run_turn_bc()) keeps what the run has earned.
LEMMA StartBCKeeps == TypeInv /\ run > 0 /\ RunInv /\ StartBC => RunInv'
<1> SUFFICES ASSUME TypeInv, run > 0, RunInv, StartBC PROVE RunInv'
  OBVIOUS
<1>1. /\ run \in Nat /\ pc = "startBC" /\ prompt' = prompt
      /\ Same /\ UNCHANGED <<disk, page, attempt, passed>>
  BY RunPositive DEF StartBC, control
<1>2. PICK e, next : (log' = log \/ Emit(e, next)) /\ pc' \in {"inBC", "crashed"}
  BY Emitted DEF StartBC
<1>3. CASE pc' = "crashed"
  BY <1>1, <1>3, QuitKeeps
<1>4. CASE pc' = "inBC"
  <2>1. prompt \in Prompts \/ pc \notin Prompted
    BY DEF TypeInv, Places
  <2>2. Working /\ Working' /\ pc \notin {"auditE", "converge"} /\ pc' # "converge"
    BY <1>1, <1>4 DEF Working, Alive, Going
  <2>3. Where' /\ Renewed'
    BY <1>1, <1>4, <2>1, <2>2, SameRun DEF StartBC, Where, Renewed, RunInv, disk, InTurnE, At, Prompted, Prompts
  <2>4. /\ BeforeBC' => BeforeBC
        /\ Specified' => Specified
        /\ Planned' => Planned
        /\ Gated' => Gated
        /\ Reviewed' => Reviewed
        /\ Approved' => Approved
        /\ Built' => Built
        /\ Scored' => Scored
    BY <1>1, <1>4, <2>1 DEF Specified, Planned, Gated, Reviewed, Approved, Built, InTurnE, Scored, BeforeBC, At, Prompted, Prompts
  <2>5. /\ At("turn_d_review", {"outputs", "verdict"})' => At("turn_d_review", {"outputs", "verdict"})
        /\ At("turn_d_build", {"outputs"})' => At("turn_d_build", {"outputs"})
        /\ At("turn_e_eval", {"outputs"})' => At("turn_e_eval", {"outputs"})
        /\ At("turn_e_eval", {"version", "evidence", "outputs", "verdict"})
             => At("turn_e_eval", {"version", "evidence", "outputs", "verdict"})' \/ verdicts.evaluation # "PASS"
    BY <1>1, <1>4, <2>1 DEF At, Prompts
  <2> QED
    BY <1>1, <1>2, <2>2, <2>3, <2>4, <2>5, MoveBackKeeps
<1> QED
  BY <1>2, <1>3, <1>4

\* StartD (run_turn_d()) keeps what the run has earned.
LEMMA StartDKeeps == TypeInv /\ run > 0 /\ RunInv /\ StartD => RunInv'
<1> SUFFICES ASSUME TypeInv, run > 0, RunInv, StartD PROVE RunInv'
  OBVIOUS
<1>1. /\ run \in Nat /\ pc = "startD" /\ prompt' = prompt
      /\ Same /\ UNCHANGED <<disk, page, attempt, passed>>
  BY RunPositive DEF StartD, control
<1>2. PICK e, next : (log' = log \/ Emit(e, next)) /\ pc' \in {"attempt", "crashed"}
  BY Emitted DEF StartD
<1>3. CASE pc' = "crashed"
  BY <1>1, <1>3, QuitKeeps
<1>4. CASE pc' = "attempt"
  <2>1. prompt \in Prompts \/ pc \notin Prompted
    BY DEF TypeInv, Places
  <2>2. Working /\ Working' /\ pc \notin {"auditE", "converge"} /\ pc' # "converge"
    BY <1>1, <1>4 DEF Working, Alive, Going
  <2>3. Where' /\ Renewed'
    BY <1>1, <1>4, <2>1, <2>2, SameRun DEF StartD, Where, Renewed, RunInv, disk, InTurnE, At, Prompted, Prompts
  <2>4. /\ BeforeBC' => BeforeBC
        /\ Specified' => Specified
        /\ Planned' => Planned
        /\ Gated' => Gated
        /\ Reviewed' => Reviewed
        /\ Approved' => Approved
        /\ Built' => Built
        /\ Scored' => Scored
    BY <1>1, <1>4, <2>1 DEF Specified, Planned, Gated, Reviewed, Approved, Built, InTurnE, Scored, BeforeBC, At, Prompted, Prompts
  <2>5. /\ At("turn_d_review", {"outputs", "verdict"})' => At("turn_d_review", {"outputs", "verdict"})
        /\ At("turn_d_build", {"outputs"})' => At("turn_d_build", {"outputs"})
        /\ At("turn_e_eval", {"outputs"})' => At("turn_e_eval", {"outputs"})
        /\ At("turn_e_eval", {"version", "evidence", "outputs", "verdict"})
             => At("turn_e_eval", {"version", "evidence", "outputs", "verdict"})' \/ verdicts.evaluation # "PASS"
    BY <1>1, <1>4, <2>1 DEF At, Prompts
  <2> QED
    BY <1>1, <1>2, <2>2, <2>3, <2>4, <2>5, MoveBackKeeps
<1> QED
  BY <1>2, <1>3, <1>4

\* ReviewRetries (run_turn_d()) keeps what the run has earned.
LEMMA ReviewRetriesKeeps == TypeInv /\ run > 0 /\ RunInv /\ ReviewRetries => RunInv'
<1> SUFFICES ASSUME TypeInv, run > 0, RunInv, ReviewRetries PROVE RunInv'
  OBVIOUS
<1>1. /\ run \in Nat /\ pc = "verdict" /\ prompt = "turn_d_review" /\ prompt' = prompt
      /\ Same /\ UNCHANGED <<disk, page, attempt, passed>>
  BY RunPositive DEF ReviewRetries, Decide, control
<1>2. PICK e, next : (log' = log \/ Emit(e, next)) /\ pc' \in {"retryReview", "crashed"}
  BY Emitted DEF ReviewRetries, Decide
<1>3. CASE pc' = "crashed"
  BY <1>1, <1>3, QuitKeeps
<1>4. CASE pc' = "retryReview"
  <2>1. prompt \in Prompts \/ pc \notin Prompted
    BY DEF TypeInv, Places
  <2>2. Working /\ Working' /\ pc \notin {"auditE", "converge"} /\ pc' # "converge"
    BY <1>1, <1>4 DEF Working, Alive, Going
  <2>3. Where' /\ Renewed'
    BY <1>1, <1>4, <2>1, <2>2, SameRun DEF ReviewRetries, Decide, Where, Renewed, RunInv, disk, InTurnE, At, Prompted, Prompts
  <2>4. /\ BeforeBC' => BeforeBC
        /\ Specified' => Specified
        /\ Planned' => Planned
        /\ Gated' => Gated
        /\ Reviewed' => Reviewed
        /\ Approved' => Approved
        /\ Built' => Built
        /\ Scored' => Scored
    BY <1>1, <1>4, <2>1 DEF Specified, Planned, Gated, Reviewed, Approved, Built, InTurnE, Scored, BeforeBC, At, Prompted, Prompts
  <2>5. /\ At("turn_d_review", {"outputs", "verdict"})' => At("turn_d_review", {"outputs", "verdict"})
        /\ At("turn_d_build", {"outputs"})' => At("turn_d_build", {"outputs"})
        /\ At("turn_e_eval", {"outputs"})' => At("turn_e_eval", {"outputs"})
        /\ At("turn_e_eval", {"version", "evidence", "outputs", "verdict"})
             => At("turn_e_eval", {"version", "evidence", "outputs", "verdict"})' \/ verdicts.evaluation # "PASS"
    BY <1>1, <1>4, <2>1 DEF At, Prompts
  <2> QED
    BY <1>1, <1>2, <2>2, <2>3, <2>4, <2>5, MoveBackKeeps
<1> QED
  BY <1>2, <1>3, <1>4

\* ReviewEscalates (run_turn_d()) keeps what the run has earned.
LEMMA ReviewEscalatesKeeps == TypeInv /\ run > 0 /\ RunInv /\ ReviewEscalates => RunInv'
<1> SUFFICES ASSUME TypeInv, run > 0, RunInv, ReviewEscalates PROVE RunInv'
  OBVIOUS
<1>1. /\ run \in Nat /\ pc = "verdict" /\ prompt = "turn_d_review" /\ prompt' = prompt
      /\ Same /\ UNCHANGED <<disk, page, attempt, passed>>
  BY RunPositive DEF ReviewEscalates, Decide, control
<1>2. PICK e, next : (log' = log \/ Emit(e, next)) /\ pc' \in {"escalate", "crashed"}
  BY Emitted DEF ReviewEscalates, Decide
<1>3. CASE pc' = "crashed"
  BY <1>1, <1>3, QuitKeeps
<1>4. CASE pc' = "escalate"
  <2>1. prompt \in Prompts \/ pc \notin Prompted
    BY DEF TypeInv, Places
  <2>2. Working /\ Working' /\ pc \notin {"auditE", "converge"} /\ pc' # "converge"
    BY <1>1, <1>4 DEF Working, Alive, Going
  <2>3. Where' /\ Renewed'
    BY <1>1, <1>4, <2>1, <2>2, SameRun DEF ReviewEscalates, Decide, Where, Renewed, RunInv, disk, InTurnE, At, Prompted, Prompts
  <2>4. /\ BeforeBC' => BeforeBC
        /\ Specified' => Specified
        /\ Planned' => Planned
        /\ Gated' => Gated
        /\ Reviewed' => Reviewed
        /\ Approved' => Approved
        /\ Built' => Built
        /\ Scored' => Scored
    BY <1>1, <1>4, <2>1 DEF Specified, Planned, Gated, Reviewed, Approved, Built, InTurnE, Scored, BeforeBC, At, Prompted, Prompts
  <2>5. /\ At("turn_d_review", {"outputs", "verdict"})' => At("turn_d_review", {"outputs", "verdict"})
        /\ At("turn_d_build", {"outputs"})' => At("turn_d_build", {"outputs"})
        /\ At("turn_e_eval", {"outputs"})' => At("turn_e_eval", {"outputs"})
        /\ At("turn_e_eval", {"version", "evidence", "outputs", "verdict"})
             => At("turn_e_eval", {"version", "evidence", "outputs", "verdict"})' \/ verdicts.evaluation # "PASS"
    BY <1>1, <1>4, <2>1 DEF At, Prompts
  <2> QED
    BY <1>1, <1>2, <2>2, <2>3, <2>4, <2>5, MoveBackKeeps
<1> QED
  BY <1>2, <1>3, <1>4

\* RetryReview (run_turn_d()) keeps what the run has earned.
LEMMA RetryReviewKeeps == TypeInv /\ run > 0 /\ RunInv /\ RetryReview => RunInv'
<1> SUFFICES ASSUME TypeInv, run > 0, RunInv, RetryReview PROVE RunInv'
  OBVIOUS
<1>1. /\ run \in Nat /\ pc = "retryReview" /\ prompt' = prompt
      /\ Same /\ UNCHANGED <<disk, page, attempt, passed>>
  BY RunPositive DEF RetryReview, control
<1>2. PICK e, next : (log' = log \/ Emit(e, next)) /\ pc' \in {"attempt", "crashed"}
  BY Emitted DEF RetryReview
<1>3. CASE pc' = "crashed"
  BY <1>1, <1>3, QuitKeeps
<1>4. CASE pc' = "attempt"
  <2>1. prompt \in Prompts \/ pc \notin Prompted
    BY DEF TypeInv, Places
  <2>2. Working /\ Working' /\ pc \notin {"auditE", "converge"} /\ pc' # "converge"
    BY <1>1, <1>4 DEF Working, Alive, Going
  <2>3. Where' /\ Renewed'
    BY <1>1, <1>4, <2>1, <2>2, SameRun DEF RetryReview, Where, Renewed, RunInv, disk, InTurnE, At, Prompted, Prompts
  <2>4. /\ BeforeBC' => BeforeBC
        /\ Specified' => Specified
        /\ Planned' => Planned
        /\ Gated' => Gated
        /\ Reviewed' => Reviewed
        /\ Approved' => Approved
        /\ Built' => Built
        /\ Scored' => Scored
    BY <1>1, <1>4, <2>1 DEF Specified, Planned, Gated, Reviewed, Approved, Built, InTurnE, Scored, BeforeBC, At, Prompted, Prompts
  <2>5. /\ At("turn_d_review", {"outputs", "verdict"})' => At("turn_d_review", {"outputs", "verdict"})
        /\ At("turn_d_build", {"outputs"})' => At("turn_d_build", {"outputs"})
        /\ At("turn_e_eval", {"outputs"})' => At("turn_e_eval", {"outputs"})
        /\ At("turn_e_eval", {"version", "evidence", "outputs", "verdict"})
             => At("turn_e_eval", {"version", "evidence", "outputs", "verdict"})' \/ verdicts.evaluation # "PASS"
    BY <1>1, <1>4, <2>1 DEF At, Prompts
  <2> QED
    BY <1>1, <1>2, <2>2, <2>3, <2>4, <2>5, MoveBackKeeps
<1> QED
  BY <1>2, <1>3, <1>4

\* StartE (run_turn_e()) keeps what the run has earned.
LEMMA StartEKeeps == TypeInv /\ run > 0 /\ RunInv /\ StartE => RunInv'
<1> SUFFICES ASSUME TypeInv, run > 0, RunInv, StartE PROVE RunInv'
  OBVIOUS
<1>1. /\ run \in Nat /\ pc = "startE" /\ prompt' = "turn_e_eval"
      /\ Same /\ UNCHANGED <<disk, page, attempt, passed>>
  BY RunPositive DEF StartE, control
<1>2. PICK e, next : (log' = log \/ Emit(e, next)) /\ pc' \in {"hash", "crashed"}
  BY Emitted DEF StartE
<1>3. CASE pc' = "crashed"
  BY <1>1, <1>3, QuitKeeps
<1>4. CASE pc' = "hash"
  <2>1. prompt \in Prompts \/ pc \notin Prompted
    BY DEF TypeInv, Places
  <2>2. Working /\ Working' /\ pc \notin {"auditE", "converge"} /\ pc' # "converge"
    BY <1>1, <1>4 DEF Working, Alive, Going
  <2>3. Where' /\ Renewed'
    BY <1>1, <1>4, <2>1, <2>2, SameRun DEF StartE, Where, Renewed, RunInv, disk, InTurnE, At, Prompted, Prompts
  <2>4. /\ BeforeBC' => BeforeBC
        /\ Specified' => Specified
        /\ Planned' => Planned
        /\ Gated' => Gated
        /\ Reviewed' => Reviewed
        /\ Approved' => Approved
        /\ Built' => Built
        /\ Scored' => Scored
    BY <1>1, <1>4, <2>1 DEF Specified, Planned, Gated, Reviewed, Approved, Built, InTurnE, Scored, BeforeBC, At, Prompted, Prompts
  <2>5. /\ At("turn_d_review", {"outputs", "verdict"})' => At("turn_d_review", {"outputs", "verdict"})
        /\ At("turn_d_build", {"outputs"})' => At("turn_d_build", {"outputs"})
        /\ At("turn_e_eval", {"outputs"})' => At("turn_e_eval", {"outputs"})
        /\ At("turn_e_eval", {"version", "evidence", "outputs", "verdict"})
             => At("turn_e_eval", {"version", "evidence", "outputs", "verdict"})' \/ verdicts.evaluation # "PASS"
    BY <1>1, <1>4, <2>1 DEF At, Prompts
  <2> QED
    BY <1>1, <1>2, <2>2, <2>3, <2>4, <2>5, MoveBackKeeps
<1> QED
  BY <1>2, <1>3, <1>4

\* EvaluationFails (run_turn_e()) keeps what the run has earned.
LEMMA EvaluationFailsKeeps == TypeInv /\ run > 0 /\ RunInv /\ EvaluationFails => RunInv'
<1> SUFFICES ASSUME TypeInv, run > 0, RunInv, EvaluationFails PROVE RunInv'
  OBVIOUS
<1>1. /\ run \in Nat /\ pc = "verdict" /\ prompt = "turn_e_eval" /\ verdicts.evaluation # "PASS" /\ prompt' = prompt
      /\ Same /\ UNCHANGED <<disk, page, attempt, passed>>
  BY RunPositive DEF EvaluationFails, Decide, Approves, control
<1>2. PICK e, next : (log' = log \/ Emit(e, next)) /\ pc' \in {"auditE", "crashed"}
  BY Emitted DEF EvaluationFails, Decide, Approves
<1>3. CASE pc' = "crashed"
  BY <1>1, <1>3, QuitKeeps
<1>4. CASE pc' = "auditE"
  <2>1. prompt \in Prompts \/ pc \notin Prompted
    BY DEF TypeInv, Places
  <2>2. Working /\ Working' /\ pc \notin {"auditE", "converge"} /\ pc' # "converge"
    BY <1>1, <1>4 DEF Working, Alive, Going
  <2>3. Where' /\ Renewed'
    BY <1>1, <1>4, <2>1, <2>2, SameRun DEF EvaluationFails, Decide, Approves, Where, Renewed, RunInv, disk, InTurnE, At, Prompted, Prompts
  <2>4. /\ BeforeBC' => BeforeBC
        /\ Specified' => Specified
        /\ Planned' => Planned
        /\ Gated' => Gated
        /\ Reviewed' => Reviewed
        /\ Approved' => Approved
        /\ Built' => Built
        /\ Scored' => Scored
    BY <1>1, <1>4, <2>1 DEF Specified, Planned, Gated, Reviewed, Approved, Built, InTurnE, Scored, BeforeBC, At, Prompted, Prompts
  <2>5. /\ At("turn_d_review", {"outputs", "verdict"})' => At("turn_d_review", {"outputs", "verdict"})
        /\ At("turn_d_build", {"outputs"})' => At("turn_d_build", {"outputs"})
        /\ At("turn_e_eval", {"outputs"})' => At("turn_e_eval", {"outputs"})
        /\ At("turn_e_eval", {"version", "evidence", "outputs", "verdict"})
             => At("turn_e_eval", {"version", "evidence", "outputs", "verdict"})' \/ verdicts.evaluation # "PASS"
    BY <1>1, <1>4, <2>1 DEF At, Prompts
  <2> QED
    BY <1>1, <1>2, <2>2, <2>3, <2>4, <2>5, MoveBackKeeps
<1> QED
  BY <1>2, <1>3, <1>4

\* RetryEvaluation (run_turn_e()) keeps what the run has earned.
LEMMA RetryEvaluationKeeps == TypeInv /\ run > 0 /\ RunInv /\ RetryEvaluation => RunInv'
<1> SUFFICES ASSUME TypeInv, run > 0, RunInv, RetryEvaluation PROVE RunInv'
  OBVIOUS
<1>1. /\ run \in Nat /\ pc = "retryEval" /\ from # "E" /\ prompt' = prompt
      /\ Same /\ UNCHANGED <<disk, page, attempt, passed>>
  BY RunPositive DEF RetryEvaluation, control
<1>2. PICK e, next : (log' = log \/ Emit(e, next)) /\ pc' \in {"startD", "crashed"}
  BY Emitted DEF RetryEvaluation
<1>3. CASE pc' = "crashed"
  BY <1>1, <1>3, QuitKeeps
<1>4. CASE pc' = "startD"
  <2>1. prompt \in Prompts \/ pc \notin Prompted
    BY DEF TypeInv, Places
  <2>2. Working /\ Working' /\ pc \notin {"auditE", "converge"} /\ pc' # "converge"
    BY <1>1, <1>4 DEF Working, Alive, Going
  <2>3. Where' /\ Renewed'
    BY <1>1, <1>4, <2>1, <2>2, SameRun DEF RetryEvaluation, Where, Renewed, RunInv, disk, InTurnE, At, Prompted, Prompts
  <2>4. /\ BeforeBC' => BeforeBC
        /\ Specified' => Specified
        /\ Planned' => Planned
        /\ Gated' => Gated
        /\ Reviewed' => Reviewed
        /\ Approved' => Approved
        /\ Built' => Built
        /\ Scored' => Scored
    BY <1>1, <1>4, <2>1 DEF Specified, Planned, Gated, Reviewed, Approved, Built, InTurnE, Scored, BeforeBC, At, Prompted, Prompts
  <2>5. /\ At("turn_d_review", {"outputs", "verdict"})' => At("turn_d_review", {"outputs", "verdict"})
        /\ At("turn_d_build", {"outputs"})' => At("turn_d_build", {"outputs"})
        /\ At("turn_e_eval", {"outputs"})' => At("turn_e_eval", {"outputs"})
        /\ At("turn_e_eval", {"version", "evidence", "outputs", "verdict"})
             => At("turn_e_eval", {"version", "evidence", "outputs", "verdict"})' \/ verdicts.evaluation # "PASS"
    BY <1>1, <1>4, <2>1 DEF At, Prompts
  <2> QED
    BY <1>1, <1>2, <2>2, <2>3, <2>4, <2>5, MoveBackKeeps
<1> QED
  BY <1>2, <1>3, <1>4

\* HumanContinues (checkpoint()) keeps what the run has earned.
LEMMA HumanContinuesKeeps == TypeInv /\ run > 0 /\ RunInv /\ HumanContinues => RunInv'
<1> SUFFICES ASSUME TypeInv, run > 0, RunInv, HumanContinues PROVE RunInv'
  OBVIOUS
<1>1. /\ run \in Nat /\ prompt' = prompt /\ log' = log
      /\ Same /\ UNCHANGED <<disk, page, attempt, passed>>
      /\ \/ pc = "checkpointA" /\ pc' = "startBC"
         \/ pc = "checkpointBC" /\ pc' = "startD"
  BY RunPositive DEF HumanContinues, Go, control
<1>2. Working /\ Working' /\ pc \notin {"auditE", "converge"} /\ pc' # "converge"
  BY <1>1 DEF Working, Alive, Going
<1>3. Where' /\ Renewed'
  BY <1>1, <1>2, SameRun DEF Where, Renewed, RunInv, InTurnE, At, Prompted
<1>4. /\ BeforeBC' => BeforeBC
      /\ Specified' => Specified
      /\ Planned' => Planned
      /\ ~Gated' /\ ~Reviewed' /\ ~Approved' /\ ~Built' /\ ~Scored'
  BY <1>1 DEF Specified, Planned, Gated, Reviewed, Approved, Built, InTurnE, Scored, BeforeBC, At, Prompted, Prompts
<1>5. \A p, places : places \subseteq Prompted => ~At(p, places) /\ ~At(p, places)'
  BY <1>1 DEF At, Prompted
<1>6. /\ At("turn_d_review", {"outputs", "verdict"})' => At("turn_d_review", {"outputs", "verdict"})
      /\ At("turn_d_build", {"outputs"})' => At("turn_d_build", {"outputs"})
      /\ At("turn_e_eval", {"outputs"})' => At("turn_e_eval", {"outputs"})
      /\ At("turn_e_eval", {"version", "evidence", "outputs", "verdict"})
           => At("turn_e_eval", {"version", "evidence", "outputs", "verdict"})' \/ verdicts.evaluation # "PASS"
  BY <1>5 DEF Prompted
<1> QED
  BY <1>1, <1>2, <1>3, <1>4, <1>6, MoveBackKeeps

\* HashInputs (export_evidence_hashes()) keeps what the run has earned.
LEMMA HashInputsKeeps == TypeInv /\ run > 0 /\ RunInv /\ HashInputs => RunInv'
<1> SUFFICES ASSUME TypeInv, run > 0, RunInv, HashInputs PROVE RunInv'
  OBVIOUS
<1>1. /\ run \in Nat /\ prompt' = prompt /\ log' = log /\ prompt = "turn_e_eval" /\ pc = "hash"
      /\ Same /\ UNCHANGED <<disk, page, attempt, passed>> /\ pc' \in {"crashed", "dispatch"}
  BY RunPositive DEF HashInputs, Go, control, TypeInv, Places
<1>2. CASE pc' = "crashed"
  BY <1>1, <1>2, QuitKeeps
<1>3. CASE pc' = "dispatch"
  <2>1. Working /\ Working' /\ pc \notin {"auditE", "converge"} /\ pc' # "converge"
    BY <1>1, <1>3 DEF Working, Alive, Going
  <2>2. Where' /\ Renewed'
    BY <1>1, <1>3, <2>1, SameRun DEF Where, Renewed, RunInv, InTurnE, At, Prompted
  <2>3. /\ BeforeBC' => BeforeBC
        /\ Specified /\ Planned /\ Gated /\ Reviewed /\ Approved /\ Built
        /\ ~Scored'
    BY <1>1, <1>3 DEF Specified, Planned, Gated, Reviewed, Approved, Built, InTurnE, Scored, BeforeBC, At, Prompted, Prompts
  <2>4. /\ At("turn_d_review", {"outputs", "verdict"})' => At("turn_d_review", {"outputs", "verdict"})
        /\ At("turn_d_build", {"outputs"})' => At("turn_d_build", {"outputs"})
        /\ At("turn_e_eval", {"outputs"})' => At("turn_e_eval", {"outputs"})
        /\ At("turn_e_eval", {"version", "evidence", "outputs", "verdict"})
             => At("turn_e_eval", {"version", "evidence", "outputs", "verdict"})' \/ verdicts.evaluation # "PASS"
    BY <1>1, <1>3 DEF At
  <2> QED
    BY <1>1, <2>1, <2>2, <2>3, <2>4, MoveBackKeeps
<1> QED
  BY <1>1, <1>2, <1>3

\* EvidenceHolds (Orchestrator.validate_builder_evidence,
\* validate_reviewer_evidence, validate_evaluator_evidence) keeps what the run
\* has earned.
LEMMA EvidenceHoldsKeeps == TypeInv /\ run > 0 /\ RunInv /\ EvidenceHolds => RunInv'
<1> SUFFICES ASSUME TypeInv, run > 0, RunInv, EvidenceHolds PROVE RunInv'
  OBVIOUS
<1>1. /\ run \in Nat /\ prompt' = prompt /\ log' = log /\ pc = "evidence" /\ pc' = "outputs"
      /\ Same /\ UNCHANGED <<disk, page, attempt, passed, fresh>>
      /\ evidence[Role].attempt = attempt
      /\ prompt \in {"turn_d_review", "turn_d_build", "turn_e_eval"}
  BY RunPositive DEF EvidenceHolds, EvidenceValid, Go, control, TypeInv, Places, Prompted, Prompts
<1>2. Working /\ Working' /\ pc \notin {"auditE", "converge"} /\ pc' # "converge"
  BY <1>1 DEF Working, Alive, Going
<1>3. Where' /\ Renewed'
  BY <1>1, <1>2, SameRun DEF Where, Renewed, RunInv, InTurnE, At, Prompted, disk
<1>4. /\ BeforeBC' => BeforeBC
      /\ \A g \in ToInvalidate : Reached(g)' => Reached(g)
      /\ Approved' => Approved
  BY <1>1 DEF Reached, Specified, Planned, Gated, Reviewed, Approved, Built, InTurnE, Scored, BeforeBC, At, Prompted, Prompts
<1>5. \A w \in Witnesses : Seen(w)' => Seen(w) \/ evidence[w].attempt = attempt
  <2>1. \A w \in Witnesses : Seen(w)' => Seen(w) \/ w = Role
    BY <1>1 DEF Seen, Role, RoleOf, Witnesses, Specified, Planned, Gated, Reviewed, Approved, Built, InTurnE, Scored, BeforeBC, At, Prompted, Prompts
  <2> QED
    BY <1>1, <2>1
<1>6. At("turn_e_eval", {"version", "evidence", "outputs", "verdict"})
        => At("turn_e_eval", {"version", "evidence", "outputs", "verdict"})' \/ verdicts.evaluation # "PASS"
  BY <1>1 DEF At
<1> QED
  BY <1>1, <1>2, <1>3, <1>4, <1>5, <1>6, MoveKeeps

\* OutputsVerified (validate_prompt_step_success()) keeps what the run has
\* earned.
LEMMA OutputsVerifiedKeeps == TypeInv /\ run > 0 /\ RunInv /\ OutputsVerified => RunInv'
<1> SUFFICES ASSUME TypeInv, run > 0, RunInv, OutputsVerified PROVE RunInv'
  OBVIOUS
<1>1. /\ run \in Nat /\ pc = "outputs" /\ prompt \in Prompts /\ fresh
      /\ prompt' = IF prompt = "turn_d_13q" THEN "turn_d_review" ELSE prompt
      /\ Same /\ UNCHANGED <<disk, page, attempt, passed>>
  BY RunPositive DEF OutputsVerified, OutputsGood, TypeInv, Places, Prompted
<1>2. PICK e, next : Emit(e, next) /\ pc' \in {AfterOutputs, "crashed"}
  BY Emitted DEF OutputsVerified
<1>3. files[Outputs[prompt]] = run
  BY <1>1 DEF RunInv, Renewed
<1>4. CASE pc' = "crashed"
  BY <1>1, <1>4, QuitKeeps
<1>5. CASE pc' = AfterOutputs
  <2>1. /\ prompt = "turn_a_spec" => pc' = "auditA"
        /\ prompt = "turn_d_13q" => pc' = "dispatch"
        /\ prompt = "turn_d_review" => pc' = "verdict"
        /\ prompt = "turn_d_build" => pc' = "auditD"
        /\ prompt = "turn_e_eval" => pc' = "verdict"
    BY <1>5 DEF AfterOutputs
  <2>2. Working /\ Working' /\ pc \notin {"auditE", "converge"} /\ pc' # "converge"
    BY <1>1, <2>1 DEF Working, Alive, Going, Prompts
  <2>3. Where' /\ Renewed'
    BY <1>1, <2>1, <2>2, SameRun DEF Where, Renewed, RunInv, InTurnE, At, Prompted, Prompts
  <2>4. /\ BeforeBC' => BeforeBC
        /\ Approved' => Approved
        /\ Specified' => Specified \/ prompt = "turn_a_spec"
        /\ Planned' => Planned
        /\ Gated' => Gated \/ prompt = "turn_d_13q"
        /\ Reviewed' => Reviewed \/ prompt = "turn_d_review"
        /\ Built' => Built \/ prompt = "turn_d_build"
        /\ Scored' => Scored \/ prompt = "turn_e_eval"
    BY <1>1, <2>1 DEF Specified, Planned, Gated, Reviewed, Approved, Built, InTurnE, Scored, BeforeBC, At, Prompted, Prompts
  <2>5. \A g \in ToInvalidate : Reached(g)' => Reached(g) \/ files[g] = run
    BY <1>3, <2>4 DEF Reached, Outputs
  <2>6. \A w \in Witnesses : Seen(w)' => Seen(w)
    BY <1>1, <2>1 DEF Seen, Witnesses, Specified, Planned, Gated, Reviewed, Approved, Built, InTurnE, Scored, BeforeBC, At, Prompted, Prompts
  <2>7. At("turn_e_eval", {"version", "evidence", "outputs", "verdict"})
          => At("turn_e_eval", {"version", "evidence", "outputs", "verdict"})' \/ verdicts.evaluation # "PASS"
    BY <1>1, <2>1 DEF At
  <2> QED
    BY <1>1, <1>2, <2>2, <2>3, <2>4, <2>5, <2>6, <2>7, MoveKeeps
<1> QED
  BY <1>2, <1>4, <1>5

\* The verdict of a judge, once it is in the log.
LEMMA Decided ==
  ASSUME TypeInv, NEW type \in {"review_verdict_recorded", "evaluation_verdict_recorded"},
         NEW role, NEW parent, NEW next, Emit(Event(type, role, FALSE, parent, attempt), next), attempt' = attempt
  PROVE  ApprovedBy(role)'
<1> DEFINE e == Event(type, role, FALSE, parent, attempt)
<1>1. e.type = type /\ e.role = role /\ e.failed = FALSE /\ e.attempt = attempt
  BY DEF Event
<1>2. NewId \in DOMAIN log' /\ log'[NewId] = e
  <2> HIDE DEF e
  <2>1. Emit(e, next)
    BY DEF e
  <2> QED
    BY <2>1, Appended
<1> HIDE DEF e
<1> QED
  BY <1>1, <1>2 DEF ApprovedBy

\* ReviewPasses (run_turn_d()) keeps what the run has earned.
LEMMA ReviewPassesKeeps == TypeInv /\ run > 0 /\ RunInv /\ ReviewPasses => RunInv'
<1> SUFFICES ASSUME TypeInv, run > 0, RunInv, ReviewPasses PROVE RunInv'
  OBVIOUS
<1>1. /\ run \in Nat /\ pc = "verdict" /\ prompt = "turn_d_review" /\ prompt' = "turn_d_build"
      /\ Same /\ UNCHANGED <<disk, page, attempt, passed>>
      /\ Emit(Event("review_verdict_recorded", "reviewer", FALSE, ids.exit, attempt), "dispatch")
  BY RunPositive DEF ReviewPasses, Decide, Role, RoleOf
<1>2. pc' \in {"dispatch", "crashed"}
  BY <1>1, Emitted
<1>3. CASE pc' = "crashed"
  BY <1>1, <1>3, QuitKeeps
<1>4. CASE pc' = "dispatch"
  <2>1. Working /\ Working' /\ pc # "converge"
    BY <1>1, <1>4 DEF Working, Alive, Going
  <2>2. ~passed /\ verdicts.evaluation # "PASS" /\ from # "E"
    BY <1>1, <2>1 DEF RunInv, Passing, Where, Working, At
  <2>3. Where' /\ Renewed' /\ ~BeforeBC'
    BY <1>1, <1>4, <2>2, SameRun DEF Where, Renewed, BeforeBC, At
  <2>4. Endorsed'
    BY <1>1, <2>2, Decided DEF Endorsed
  <2>5. Passing'
    BY <1>1, <1>4, <2>2 DEF Passing, disk
  <2>6. \A g \in ToInvalidate : Reached(g)' => Reached(g)
    BY <1>1, <1>4 DEF Reached, Specified, Planned, Gated, Reviewed, Approved, Built, InTurnE, Scored, BeforeBC, At, Prompted, Prompts
  <2>7. \A w \in Witnesses : Seen(w)' => Seen(w)
    BY <1>1, <1>4 DEF Seen, Witnesses, Specified, Planned, Gated, Reviewed, Approved, Built, InTurnE, Scored, BeforeBC, At, Prompted, Prompts
  <2> QED
    BY <1>1, <2>1, <2>3, <2>4, <2>5, <2>6, <2>7, OnwardKeeps
<1> QED
  BY <1>2, <1>3, <1>4

\* EvaluationPasses (run_turn_e()) keeps what the run has earned.
LEMMA EvaluationPassesKeeps == TypeInv /\ run > 0 /\ RunInv /\ EvaluationPasses => RunInv'
<1> SUFFICES ASSUME TypeInv, run > 0, RunInv, EvaluationPasses PROVE RunInv'
  OBVIOUS
<1> DEFINE e == Event("evaluation_verdict_recorded", "evaluator", FALSE, ids.exit, attempt)
<1>1. /\ run \in Nat /\ pc = "verdict" /\ prompt = "turn_e_eval" /\ prompt' = prompt /\ verdicts.evaluation = "PASS"
      /\ Same /\ UNCHANGED <<disk, page, attempt>>
      /\ Emit(e, "auditE")
  BY RunPositive DEF EvaluationPasses, Decide, Role, RoleOf, Approves
<1>2. pc' \in {"auditE", "crashed"}
  BY <1>1, Emitted
<1>3. CASE pc' = "crashed"
  BY <1>1, <1>3, QuitKeeps
<1>4. CASE pc' = "auditE"
  <2>1. Working /\ Working' /\ pc # "converge"
    BY <1>1, <1>4 DEF Working, Alive, Going
  <2>2. Where' /\ Renewed' /\ ~BeforeBC'
    BY <1>1, <1>4, SameRun DEF Where, Renewed, BeforeBC, At, InTurnE
  <2>3. Endorsed'
    <3>1. ApprovedBy("evaluator")'
      BY <1>1, Decided
    <3>2. from' = from /\ (from # "E" => ApprovedBy("reviewer"))
      BY <1>1, SameRun DEF Endorsed, RunInv, Approved, Built, InTurnE, At, Prompted
    <3>3. ApprovedBy("reviewer") => ApprovedBy("reviewer")'
      <4> HIDE DEF e
      <4> QED
        BY <1>1, ApprovalKept
    <3> QED
      BY <3>1, <3>2, <3>3 DEF Endorsed
  <2>4. Passing'
    BY <1>1, <1>4 DEF Passing, disk, EvaluationPasses
  <2>5. \A g \in ToInvalidate : Reached(g)' => Reached(g)
    BY <1>1, <1>4 DEF Reached, Specified, Planned, Gated, Reviewed, Approved, Built, InTurnE, Scored, BeforeBC, At, Prompted, Prompts
  <2>6. \A w \in Witnesses : Seen(w)' => Seen(w)
    BY <1>1, <1>4 DEF Seen, Witnesses, Specified, Planned, Gated, Reviewed, Approved, Built, InTurnE, Scored, BeforeBC, At, Prompted, Prompts
  <2> QED
    BY <1>1, <2>1, <2>2, <2>3, <2>4, <2>5, <2>6, OnwardKeeps
<1> QED
  BY <1>2, <1>3, <1>4

\* CompleteD (run_turn_d()) keeps what the run has earned.
LEMMA CompleteDKeeps == TypeInv /\ run > 0 /\ RunInv /\ CompleteD => RunInv'
<1> SUFFICES ASSUME TypeInv, run > 0, RunInv, CompleteD PROVE RunInv'
  OBVIOUS
<1>1. /\ run \in Nat /\ pc = "auditD" /\ prompt' = prompt
      /\ Same /\ UNCHANGED <<disk, attempt, passed>> /\ page' = Updated(files, verdicts, status)
  BY RunPositive DEF CompleteD, control
<1>2. PICK e, next : Emit(e, next) /\ pc' \in {"startE", "crashed"}
  BY Emitted DEF CompleteD
<1>3. CASE pc' = "crashed"
  BY <1>1, <1>3, QuitKeeps
<1>4. CASE pc' = "startE"
  <2>1. Working /\ Working' /\ pc # "converge"
    BY <1>1, <1>4 DEF Working, Alive, Going
  <2>2. ~passed /\ verdicts.evaluation # "PASS" /\ from # "E"
    BY <1>1, <2>1 DEF RunInv, Passing, Where, Working, At, InTurnE, Prompted
  <2>3. Where' /\ Renewed' /\ ~BeforeBC'
    BY <1>1, <1>4, <2>2, SameRun DEF Where, Renewed, BeforeBC, At, Prompted
  <2>4. Endorsed'
    <3>1. from' = from /\ Approved
      BY <1>1, SameRun DEF Approved, Built
    <3>2. ApprovedBy("reviewer") => ApprovedBy("reviewer")'
      BY <1>1, <1>2, ApprovalKept
    <3> QED
      BY <1>1, <2>2, <3>1, <3>2 DEF Endorsed, RunInv
  <2>5. Passing'
    BY <1>1, <1>4, <2>2 DEF Passing, disk
  <2>6. \A g \in ToInvalidate : Reached(g)' => Reached(g)
    BY <1>1, <1>4 DEF Reached, Specified, Planned, Gated, Reviewed, Approved, Built, InTurnE, Scored, BeforeBC, At, Prompted, Prompts
  <2>7. \A w \in Witnesses : Seen(w)' => Seen(w)
    BY <1>1, <1>4 DEF Seen, Witnesses, Specified, Planned, Gated, Reviewed, Approved, Built, InTurnE, Scored, BeforeBC, At, Prompted, Prompts
  <2> QED
    BY <1>1, <2>1, <2>2, <2>3, <2>4, <2>5, <2>6, <2>7, OnwardKeeps
<1> QED
  BY <1>2, <1>3, <1>4

\* CompleteE (run_turn_e()) keeps what the run has earned.
LEMMA CompleteEKeeps == TypeInv /\ run > 0 /\ RunInv /\ CompleteE => RunInv'
<1> SUFFICES ASSUME TypeInv, run > 0, RunInv, CompleteE PROVE RunInv'
  OBVIOUS
<1>1. /\ run \in Nat /\ pc = "auditE" /\ passed /\ prompt' = prompt
      /\ Same /\ UNCHANGED <<disk, attempt, passed>> /\ page' = Updated(files, verdicts, status)
  BY RunPositive DEF CompleteE, control
<1>2. PICK e, next : Emit(e, next) /\ pc' \in {"converge", "crashed"}
  BY Emitted DEF CompleteE
<1>3. CASE pc' = "crashed"
  BY <1>1, <1>3, QuitKeeps
<1>4. CASE pc' = "converge"
  <2>1. Working /\ Working' /\ pc # "converge"
    BY <1>1, <1>4 DEF Working, Alive, Going
  <2>2. verdicts.evaluation = "PASS" /\ (from = "E" => prompt = "turn_e_eval")
    BY <1>1, <2>1 DEF RunInv, Passing, Where
  <2>3. Where' /\ Renewed' /\ ~BeforeBC'
    BY <1>1, <1>4, <2>2, SameRun DEF Where, Renewed, BeforeBC, At, InTurnE, Prompted
  <2>4. Endorsed'
    <3>1. from' = from /\ Approved
      BY <1>1, SameRun DEF Approved, Built, InTurnE
    <3>2. \A role : ApprovedBy(role) => ApprovedBy(role)'
      BY <1>1, <1>2, ApprovalKept
    <3> QED
      BY <1>1, <2>1, <3>1, <3>2 DEF Endorsed, RunInv
  <2>5. Passing'
    BY <1>1, <1>4, <2>2 DEF Passing, disk
  <2>6. \A g \in ToInvalidate : Reached(g)' => Reached(g)
    BY <1>1, <1>4 DEF Reached, Specified, Planned, Gated, Reviewed, Approved, Built, InTurnE, Scored, BeforeBC, At, Prompted, Prompts
  <2>7. \A w \in Witnesses : Seen(w)' => Seen(w)
    BY <1>1, <1>4 DEF Seen, Witnesses, Specified, Planned, Gated, Reviewed, Approved, Built, InTurnE, Scored, BeforeBC, At, Prompted, Prompts
  <2> QED
    BY <1>1, <1>4, <2>1, <2>3, <2>4, <2>5, <2>6, <2>7, OnwardKeeps
<1> QED
  BY <1>2, <1>3, <1>4

\* AuditA (run_turn_a()) keeps what the run has earned.
LEMMA AuditAKeeps == TypeInv /\ run > 0 /\ RunInv /\ AuditA => RunInv'
<1> SUFFICES ASSUME TypeInv, run > 0, RunInv, AuditA PROVE RunInv'
  OBVIOUS
<1>1. /\ run \in Nat /\ pc = "auditA" /\ prompt' = prompt /\ log' = log
      /\ Same /\ UNCHANGED <<disk, attempt, passed>> /\ page' = Updated(files, verdicts, status)
  BY RunPositive DEF AuditA, Audit, Go, control
<1>2. pc' \in {"checkpointA", "startBC", "aborted", "failing"}
  BY PipelineAssumption DEF AuditA, Audit, Go, AfterCheckpoint, AllModes, TypeInv, TypeOK, RunTypes
<1>3. CASE pc' \in {"aborted", "failing"}
  BY <1>1, <1>3, QuitKeeps
<1>4. CASE pc' \in {"checkpointA", "startBC"}
  <2>1. Working /\ Working' /\ pc # "converge"
    BY <1>1, <1>4 DEF Working, Alive, Going
  <2>2. ~passed /\ verdicts.evaluation # "PASS" /\ (from = "E" => pc = "auditE" /\ prompt = "turn_e_eval")
    BY <1>1, <1>2, <1>4, <2>1 DEF RunInv, Passing, Where, Working, At, InTurnE, Prompted
  <2>3. Where' /\ Renewed' /\ (BeforeBC' => BeforeBC)
    BY <1>1, <1>4, <2>2, SameRun DEF Where, Renewed, BeforeBC, At, Prompted
  <2>4. Endorsed'
    <3>1. ~Approved'
      BY <1>4 DEF Approved, Built, InTurnE, At, Prompted
    <3> QED
      BY <1>1, <2>2, <3>1 DEF Endorsed
  <2>5. Passing'
    BY <1>1, <1>4, <2>2 DEF Passing, disk
  <2>6. \A g \in ToInvalidate : Reached(g)' => Reached(g)
    BY <1>1, <1>4 DEF Reached, Specified, Planned, Gated, Reviewed, Approved, Built, InTurnE, Scored, BeforeBC, At, Prompted, Prompts
  <2>7. \A w \in Witnesses : ~Seen(w)'
    BY <1>4 DEF Seen, Witnesses, Specified, Planned, Gated, Reviewed, Approved, Built, InTurnE, Scored, BeforeBC, At, Prompted, Prompts
  <2> QED
    BY <1>1, <2>1, <2>2, <2>3, <2>4, <2>5, <2>6, <2>7, OnwardKeeps
<1> QED
  BY <1>2, <1>3, <1>4

\* AuditBC (run_turn_bc()) keeps what the run has earned.
LEMMA AuditBCKeeps == TypeInv /\ run > 0 /\ RunInv /\ AuditBC => RunInv'
<1> SUFFICES ASSUME TypeInv, run > 0, RunInv, AuditBC PROVE RunInv'
  OBVIOUS
<1>1. /\ run \in Nat /\ pc = "auditBC" /\ prompt' = prompt /\ log' = log
      /\ Same /\ UNCHANGED <<disk, attempt, passed>> /\ page' = Updated(files, verdicts, status)
  BY RunPositive DEF AuditBC, Audit, Go, control
<1>2. pc' \in {"checkpointBC", "startD", "aborted", "failing"}
  BY PipelineAssumption DEF AuditBC, Audit, Go, AfterCheckpoint, AllModes, TypeInv, TypeOK, RunTypes
<1>3. CASE pc' \in {"aborted", "failing"}
  BY <1>1, <1>3, QuitKeeps
<1>4. CASE pc' \in {"checkpointBC", "startD"}
  <2>1. Working /\ Working' /\ pc # "converge"
    BY <1>1, <1>4 DEF Working, Alive, Going
  <2>2. ~passed /\ verdicts.evaluation # "PASS" /\ (from = "E" => pc = "auditE" /\ prompt = "turn_e_eval")
    BY <1>1, <1>2, <1>4, <2>1 DEF RunInv, Passing, Where, Working, At, InTurnE, Prompted
  <2>3. Where' /\ Renewed' /\ (BeforeBC' => BeforeBC)
    BY <1>1, <1>4, <2>2, SameRun DEF Where, Renewed, BeforeBC, At, Prompted
  <2>4. Endorsed'
    <3>1. ~Approved'
      BY <1>4 DEF Approved, Built, InTurnE, At, Prompted
    <3> QED
      BY <1>1, <2>2, <3>1 DEF Endorsed
  <2>5. Passing'
    BY <1>1, <1>4, <2>2 DEF Passing, disk
  <2>6. \A g \in ToInvalidate : Reached(g)' => Reached(g)
    BY <1>1, <1>4 DEF Reached, Specified, Planned, Gated, Reviewed, Approved, Built, InTurnE, Scored, BeforeBC, At, Prompted, Prompts
  <2>7. \A w \in Witnesses : ~Seen(w)'
    BY <1>4 DEF Seen, Witnesses, Specified, Planned, Gated, Reviewed, Approved, Built, InTurnE, Scored, BeforeBC, At, Prompted, Prompts
  <2> QED
    BY <1>1, <2>1, <2>2, <2>3, <2>4, <2>5, <2>6, <2>7, OnwardKeeps
<1> QED
  BY <1>2, <1>3, <1>4

\* AuditE (run_turn_e()) keeps what the run has earned.
LEMMA AuditEKeeps == TypeInv /\ run > 0 /\ RunInv /\ AuditE => RunInv'
<1> SUFFICES ASSUME TypeInv, run > 0, RunInv, AuditE PROVE RunInv'
  OBVIOUS
<1>1. /\ run \in Nat /\ pc = "auditE" /\ prompt' = prompt /\ log' = log
      /\ Same /\ UNCHANGED <<disk, attempt, passed>> /\ page' = Updated(files, verdicts, status)
  BY RunPositive DEF AuditE, Audit, Go, control
<1>2. pc' \in {"retryEval", "aborted", "failing"} /\ (passed => pc' = "failing")
  BY PipelineAssumption DEF AuditE, Audit, Go, AfterCheckpoint, AllModes, TypeInv, TypeOK, RunTypes
<1>3. CASE pc' \in {"aborted", "failing"}
  BY <1>1, <1>3, QuitKeeps
<1>4. CASE pc' \in {"retryEval"}
  <2>1. Working /\ Working' /\ pc # "converge"
    BY <1>1, <1>4 DEF Working, Alive, Going
  <2>2. ~passed /\ verdicts.evaluation # "PASS" /\ (from = "E" => pc = "auditE" /\ prompt = "turn_e_eval")
    BY <1>1, <1>2, <1>4, <2>1 DEF RunInv, Passing, Where, Working, At, InTurnE, Prompted
  <2>3. Where' /\ Renewed' /\ (BeforeBC' => BeforeBC)
    BY <1>1, <1>4, <2>2, SameRun DEF Where, Renewed, BeforeBC, At, Prompted
  <2>4. Endorsed'
    <3>1. ~Approved'
      BY <1>4 DEF Approved, Built, InTurnE, At, Prompted
    <3> QED
      BY <1>1, <2>2, <3>1 DEF Endorsed
  <2>5. Passing'
    BY <1>1, <1>4, <2>2 DEF Passing, disk
  <2>6. \A g \in ToInvalidate : Reached(g)' => Reached(g)
    BY <1>1, <1>4 DEF Reached, Specified, Planned, Gated, Reviewed, Approved, Built, InTurnE, Scored, BeforeBC, At, Prompted, Prompts
  <2>7. \A w \in Witnesses : ~Seen(w)'
    BY <1>4 DEF Seen, Witnesses, Specified, Planned, Gated, Reviewed, Approved, Built, InTurnE, Scored, BeforeBC, At, Prompted, Prompts
  <2> QED
    BY <1>1, <2>1, <2>2, <2>3, <2>4, <2>5, <2>6, <2>7, OnwardKeeps
<1> QED
  BY <1>2, <1>3, <1>4

\* AuditDFails (run_turn_d()) keeps what the run has earned.
LEMMA AuditDFailsKeeps == TypeInv /\ run > 0 /\ RunInv /\ AuditDFails => RunInv'
<1> SUFFICES ASSUME TypeInv, run > 0, RunInv, AuditDFails PROVE RunInv'
  OBVIOUS
<1>1. run \in Nat /\ Same /\ UNCHANGED disk /\ page' = Updated(files, verdicts, status) /\ pc' = "failing"
  BY RunPositive DEF AuditDFails, Audit, Go
<1> QED
  BY <1>1, QuitKeeps

\* StartA (run_turn_a()) keeps what the run has earned.
LEMMA StartAKeeps == TypeInv /\ run > 0 /\ RunInv /\ StartA => RunInv'
<1> SUFFICES ASSUME TypeInv, run > 0, RunInv, StartA PROVE RunInv'
  OBVIOUS
<1>1. /\ run \in Nat /\ pc = "startA" /\ prompt' = "turn_a_spec" /\ attempt' = 1
      /\ Same /\ UNCHANGED <<disk, page, passed>>
  BY RunPositive DEF StartA
<1>2. pc' \in {"dispatch", "crashed"}
  BY Emitted DEF StartA
<1>3. CASE pc' = "crashed"
  BY <1>1, <1>3, QuitKeeps
<1>4. CASE pc' = "dispatch"
  <2>1. Working /\ Working' /\ BeforeBC
    BY <1>1, <1>4 DEF Working, Alive, Going, BeforeBC
  <2>2. ~passed /\ verdicts.evaluation # "PASS" /\ from # "E"
    BY <1>1, <2>1 DEF RunInv, Passing, Paged, Working, At
  <2>3. Where' /\ Renewed'
    BY <1>1, <1>4, <2>2, SameRun DEF Where, Renewed
  <2>4. ~Approved' /\ (\A g \in Groups : ~Reached(g)') /\ \A w \in Witnesses : ~Seen(w)'
    BY <1>1, <1>4 DEF Reached, Seen, Groups, Witnesses, Specified, Planned, Gated, Reviewed, Approved, Built, InTurnE, Scored, BeforeBC, At, Prompted, Prompts
  <2>5. Endorsed' /\ Passing'
    BY <1>1, <1>4, <2>2, <2>4 DEF Endorsed, Passing, disk
  <2> QED
    BY <1>1, <1>4, <2>1, <2>3, <2>4, <2>5, OnwardKeeps DEF ToInvalidate
<1> QED
  BY <1>2, <1>3, <1>4

\* BeginAttempt (run_turn_d()) keeps what the run has earned.
LEMMA BeginAttemptKeeps == TypeInv /\ run > 0 /\ RunInv /\ BeginAttempt => RunInv'
<1> SUFFICES ASSUME TypeInv, run > 0, RunInv, BeginAttempt PROVE RunInv'
  OBVIOUS
<1>1. /\ run \in Nat /\ pc = "attempt" /\ pc' = "dispatch" /\ prompt' = "turn_d_13q"
      /\ Same /\ UNCHANGED <<disk, page, passed>>
  BY RunPositive DEF BeginAttempt, Go
<1>2. Working /\ Working'
  BY <1>1 DEF Working, Alive, Going
<1>3. ~passed /\ verdicts.evaluation # "PASS" /\ from # "E"
  BY <1>1, <1>2 DEF RunInv, Passing, Where, Working, At, InTurnE, Prompted
<1>4. Where' /\ Renewed' /\ ~BeforeBC'
  BY <1>1, <1>3, SameRun DEF Where, Renewed, BeforeBC, At
<1>5. ~Approved' /\ (\A g \in ToInvalidate : Reached(g)' => Reached(g)) /\ \A w \in Witnesses : ~Seen(w)'
  BY <1>1 DEF Reached, Seen, Witnesses, Specified, Planned, Gated, Reviewed, Approved, Built, InTurnE, Scored, BeforeBC, At, Prompted, Prompts
<1>6. Endorsed' /\ Passing'
  BY <1>1, <1>3, <1>5 DEF Endorsed, Passing, disk
<1> QED
  BY <1>1, <1>2, <1>4, <1>5, <1>6, OnwardKeeps

\* The steps after which the run only fails, or has ended without passing.
LEMMA QuitStepsKeep ==
  TypeInv /\ run > 0 /\ RunInv
    /\ \/ PreflightFails \/ FailRun \/ Kill \/ RefusePrompt \/ VersionUnreadable
       \/ VersionDiffers \/ EvidenceFails \/ OutputsRefused \/ ReviewUnreadable
       \/ BCInputMissing \/ DInputMissing \/ EInputMissing \/ PlanMissing \/ Escalate \/ NotConverged \/ TurnBCEnds
  => RunInv'
<1> SUFFICES ASSUME TypeInv, run > 0, RunInv,
                    \/ PreflightFails \/ FailRun \/ Kill \/ RefusePrompt \/ VersionUnreadable
                    \/ VersionDiffers \/ EvidenceFails \/ OutputsRefused \/ ReviewUnreadable
                    \/ BCInputMissing \/ DInputMissing \/ EInputMissing \/ PlanMissing \/ Escalate \/ NotConverged \/ TurnBCEnds
             PROVE  RunInv'
  OBVIOUS
<1>1. run \in Nat
  <2>1. pc # "ready"
    BY DEF TypeInv, Places
  <2> QED
    BY <2>1, RunPositive
<1>2. CASE PreflightFails \/ FailRun \/ RefusePrompt \/ Escalate
  <2>1. Same /\ UNCHANGED <<disk, page>> /\ pc' \in {"failing", "aborted", "crashed"}
    BY <1>2, Emitted DEF PreflightFails, FailRun, RefusePrompt, Escalate
  <2> QED
    BY <1>1, <2>1, QuitKeeps
<1>3. CASE VersionDiffers \/ EvidenceFails \/ OutputsRefused \/ ReviewUnreadable
  <2>1. Same /\ UNCHANGED <<disk, page>> /\ pc' \in {"failing", "crashed"}
    BY <1>3, Emitted DEF VersionDiffers, EvidenceFails, OutputsRefused, ReviewUnreadable, Refuted
  <2> QED
    BY <1>1, <2>1, QuitKeeps
<1>4. CASE Kill \/ VersionUnreadable \/ BCInputMissing \/ DInputMissing \/ EInputMissing \/ TurnBCEnds
  <2>1. Same /\ UNCHANGED <<disk, page>> /\ pc' \in {"failing", "aborted", "crashed", "killed"}
    BY <1>4 DEF Kill, TurnBCEnds, VersionUnreadable, BCInputMissing, DInputMissing, EInputMissing, MissingInput, Go
  <2> QED
    BY <1>1, <2>1, QuitKeeps
<1>5. CASE PlanMissing \/ NotConverged
  <2>1. Same /\ UNCHANGED disk /\ page' = Updated(files, verdicts, status) /\ pc' = "failing"
    BY <1>5 DEF PlanMissing, NotConverged, Go
  <2> QED
    BY <1>1, <2>1, QuitKeeps
<1> QED
  BY <1>2, <1>3, <1>4, <1>5

\* PreflightPasses (preflight()) keeps what the run has earned.
LEMMA PreflightPassesKeeps == TypeInv /\ run > 0 /\ RunInv /\ PreflightPasses => RunInv'
<1> SUFFICES ASSUME TypeInv, run > 0, RunInv, PreflightPasses PROVE RunInv'
  OBVIOUS
<1>1. run \in Nat /\ pc = "preflight" /\ Same /\ UNCHANGED <<disk, page, passed>>
  BY RunPositive DEF PreflightPasses, control
<1>2. pc' \in {"prepare", "crashed"}
  BY Emitted DEF PreflightPasses
<1>3. CASE pc' = "crashed"
  BY <1>1, <1>3, QuitKeeps
<1>4. CASE pc' = "prepare"
  <2>1. ~Working' /\ ~Approved' /\ ~BeforeBC' /\ \A w \in Witnesses : ~Seen(w)'
    BY <1>4 DEF Working, Seen, Witnesses, Specified, Planned, Gated, Reviewed, Approved, Built, InTurnE, Scored, BeforeBC, At, Prompted, Prompts
  <2>2. Where' /\ Made' /\ Renewed' /\ Endorsed' /\ CompletionEarned'
    BY <1>4, <2>1 DEF Where, Made, Renewed, Endorsed, CompletionEarned
  <2>3. Attested'
    BY <1>1, <2>1, SameRun DEF Attested, RunInv, disk
  <2>4. Passing'
    BY <1>1, <1>4, <2>1 DEF Passing, RunInv, Alive, Going
  <2>5. Paged' /\ PageTruthful'
    <3>1. page.run < run /\ run' = run /\ page' = page /\ (~page.managed => page.run = 0) /\ page.run \in Nat
      BY <1>1, SameRun DEF RunInv, Paged, TypeInv, TypeOK, PageTypes
    <3> QED
      BY <1>1, <1>4, <2>1, <3>1 DEF Paged, PageTruthful
  <2> QED
    BY <2>2, <2>3, <2>4, <2>5 DEF RunInv
<1> QED
  BY <1>2, <1>3, <1>4

\* Launch (Orchestrator.initialize_run_harness, resolved_resume_lineage,
\* scan_interrupted_runs) keeps what the run has earned.
LEMMA LaunchKeeps == TypeInv /\ (run > 0 => RunInv) /\ Launch => RunInv'
<1> SUFFICES ASSUME TypeInv, run > 0 => RunInv, Launch PROVE RunInv'
  OBVIOUS
<1>1. /\ run' = run + 1 /\ pc' = "preflight" /\ passed' = FALSE /\ UNCHANGED <<disk, page>>
  BY DEF Launch
<1>2. run \in Nat
  <2>1. launches \in Seq(TurnNames)
    BY Constants DEF TypeInv, TypeOK, RunTypes
  <2> QED
    BY <2>1, LenProperties DEF TypeInv, TypeOK, RunTypes
<1>3. ~Working' /\ ~Approved' /\ ~BeforeBC' /\ \A w \in Witnesses : ~Seen(w)'
  BY <1>1 DEF Working, Seen, Witnesses, Specified, Planned, Gated, Reviewed, Approved, Built, InTurnE, Scored, BeforeBC, At, Prompted, Prompts
<1>4. Where' /\ Made' /\ Renewed' /\ Endorsed' /\ CompletionEarned' /\ Passing'
  BY <1>1, <1>3 DEF Where, Made, Renewed, Endorsed, CompletionEarned, Passing
<1>5. Attested'
  <2>1. \A w \in Witnesses : evidence[w].run \in 0 .. run
    BY DEF TypeInv, TypeOK, DiskTypes
  <2> QED
    BY <1>1, <1>2, <1>3, <2>1 DEF Attested, disk
<1>6. Paged' /\ PageTruthful'
  <2>1. page.run \in 0 .. run
    BY DEF TypeInv, TypeOK, PageTypes
  <2>2. ~page.managed => page.run = 0
    BY <1>2, <2>1 DEF RunInv, Paged
  <2> QED
    BY <1>1, <1>2, <1>3, <2>1, <2>2 DEF Paged, PageTruthful
<1> QED
  BY <1>4, <1>5, <1>6 DEF RunInv

\* CompleteRun (complete_run()) keeps what the run has earned.
LEMMA CompleteRunKeeps == TypeInv /\ run > 0 /\ RunInv /\ CompleteRun => RunInv'
<1> SUFFICES ASSUME TypeInv, run > 0, RunInv, CompleteRun PROVE RunInv'
  OBVIOUS
<1>1. /\ run \in Nat /\ pc = "converge" /\ prompt' = prompt
      /\ Same /\ UNCHANGED <<disk, attempt, passed>> /\ page' = Updated(files, verdicts, status) /\ Converged(page')
  BY RunPositive DEF CompleteRun, control
<1>2. PICK e, next : Emit(e, next) /\ pc' \in {"completed", "crashed"}
  BY Emitted DEF CompleteRun
<1>3. CASE pc' = "crashed"
  BY <1>1, <1>3, QuitKeeps
<1>4. CASE pc' = "completed"
  <2>1. /\ ~Working' /\ ~Approved' /\ ~BeforeBC' /\ (\A w \in Witnesses : ~Seen(w)')
        /\ Working /\ Approved /\ (\A w \in Witnesses : Seen(w)) /\ \A g \in Groups : Reached(g)
    BY <1>1, <1>4 DEF Working, Alive, Going, Seen, Reached, Witnesses, Groups, Specified, Planned, Gated, Reviewed, Approved, Built, InTurnE, Scored, BeforeBC, At, Prompted, Prompts
  <2>2. Where' /\ Made' /\ Renewed' /\ Endorsed'
    BY <1>4, <2>1 DEF Where, Made, Renewed, Endorsed
  <2>3. Attested'
    BY <1>1, <2>1, SameRun DEF Attested, RunInv, disk
  <2>4. Passing'
    BY <1>1, <1>4, <2>1 DEF Passing, RunInv, Alive, Going
  <2>5. Paged' /\ PageTruthful'
    <3>1. PageTruthful' /\ (~page'.managed => page'.run = 0)
      BY <1>1, PageTells
    <3> QED
      BY <1>4, <2>1, <3>1 DEF Paged
  <2>6. CompletionEarned'
    <3>1. run' = run /\ from' = from /\ ToInvalidate' = ToInvalidate /\ files' = files /\ evidence' = evidence /\ verdicts' = verdicts
      BY <1>1, SameRun DEF disk
    <3>2. passed /\ verdicts.evaluation = "PASS"
      BY <1>1, <2>1 DEF RunInv, Passing
    <3>3. Verdict("evaluator", FALSE)' # {} /\ (from # "E" => Verdict("reviewer", FALSE)' # {})
      <4>1. ApprovedBy("evaluator") /\ (from # "E" => ApprovedBy("reviewer"))
        BY <2>1, <3>2 DEF RunInv, Endorsed
      <4>2. \A role : ApprovedBy(role) => ApprovedBy(role)'
        BY <1>1, <1>2, ApprovalKept
      <4>3. \A role : ApprovedBy(role)' => Verdict(role, FALSE)' # {}
        BY DEF ApprovedBy, Verdict
      <4> QED
        BY <4>1, <4>2, <4>3
    <3>4. \A g \in ToInvalidate : files[g] = run
      BY <2>1 DEF RunInv, Made, ToInvalidate
    <3>5. ASSUME NEW w \in Witnesses PROVE evidence[w] \in {NoEvidence, [run |-> run, attempt |-> attempt]}
      <4>1. evidence[w] \in [run : 0 .. run, attempt : 0 .. MaxAttempts]
        BY DEF TypeInv, TypeOK, DiskTypes
      <4>2. CASE evidence[w] # NoEvidence
        <5>1. evidence[w].run = run
          BY <1>1, <4>2 DEF Converged
        <5>2. evidence[w].attempt = attempt
          BY <1>1, <2>1, <5>1 DEF RunInv, Attested
        <5>3. evidence[w] = [run |-> evidence[w].run, attempt |-> evidence[w].attempt]
          BY <4>1
        <5> QED
          BY <5>1, <5>2, <5>3
      <4> QED
        BY <4>2
    <3> QED
      BY <1>1, <3>1, <3>2, <3>3, <3>4, <3>5 DEF CompletionEarned
  <2> QED
    BY <2>2, <2>3, <2>4, <2>5, <2>6 DEF RunInv
<1> QED
  BY <1>2, <1>3, <1>4

\* What a run begins with: nothing is left of what it is to make.
LEMMA PrepareKeeps == TypeInv /\ run > 0 /\ RunInv /\ Prepare => RunInv'
<1> SUFFICES ASSUME TypeInv, run > 0, RunInv, Prepare PROVE RunInv'
  OBVIOUS
<1>1. /\ run \in Nat /\ pc = "prepare" /\ Same /\ UNCHANGED <<log, prompt, passed>>
      /\ page' = Updated(files', verdicts', status)
  BY RunPositive DEF Prepare, Go
<1>2. from \in TurnNames
  <2>1. launches \in Seq(TurnNames) /\ Len(launches) \in Nat /\ run \in 1 .. Len(launches)
    <3>1. launches \in Seq(TurnNames)
      BY Constants DEF TypeInv, TypeOK, RunTypes
    <3> QED
      BY <1>1, <3>1, LenProperties DEF TypeInv, TypeOK, RunTypes
  <2> QED
    BY <2>1, ElementOfSeq DEF from
<1>3. /\ run' = run /\ from' = from /\ ToInvalidate' = ToInvalidate /\ MadeByBC' = MadeByBC
  BY <1>1, SameRun
<1>4. /\ from = "A" => pc' = "startA"
      /\ from \in {"B", "C"} => pc' = "startBC"
      /\ from = "D" => pc' = "startD"
      /\ from = "E" => pc' = "startE"
  BY DEF Prepare, Go
<1>5. /\ ToInvalidate \subseteq Groups /\ "evaluation" \in ToInvalidate
      /\ from # "A" => "spec" \notin ToInvalidate
      /\ from = "D" => {"plan", "holdout"} \cap ToInvalidate = {}
      /\ from = "E" => ToInvalidate = {"evaluation"}
      /\ from \in {"A", "B", "C"} => MadeByBC \subseteq ToInvalidate
  BY <1>2 DEF ToInvalidate, Groups, StageOf, Rank, TurnNames, MadeByBC
<1>6. /\ \A g \in ToInvalidate : files'[g] = Missing
      /\ \A w \in Witnesses : GroupOf[w] \notin ToInvalidate => evidence'[w] = evidence[w]
      /\ verdicts'.evaluation = "UNKNOWN"
  BY <1>5 DEF Prepare, TypeInv, TypeOK, DiskTypes
<1>7. ~passed /\ page.run < run /\ page.run \in Nat /\ (~page.managed => page.run = 0)
  BY <1>1 DEF RunInv, Passing, Paged, Alive, Going, TypeInv, TypeOK, PageTypes
<1>8. /\ pc' \in {"startA", "startBC", "startD", "startE"}
      /\ Working' /\ (from # "E" => ~Approved')
  BY <1>2, <1>4 DEF TurnNames, Working, Alive, Going, Approved, Built, InTurnE, At, Prompted
<1>9. Where' /\ Renewed' /\ Endorsed' /\ CompletionEarned'
  BY <1>1, <1>2, <1>3, <1>4, <1>7, <1>8 DEF Where, InTurnE, Renewed, Endorsed, CompletionEarned
<1>10. Made'
  <2>1. \A g \in ToInvalidate : ~Reached(g)'
    BY <1>2, <1>4, <1>5 DEF TurnNames, Groups, Reached, Specified, Planned, Gated, Reviewed, Approved, Built, InTurnE, Scored, At, Prompted
  <2> QED
    BY <1>3, <1>6, <2>1 DEF Made
<1>11. Attested'
  <2>1. \A w \in Witnesses : GroupOf[w] \in ToInvalidate => ~Seen(w)'
    BY <1>2, <1>4, <1>5 DEF TurnNames, Witnesses, GroupOf, Seen, Approved, Built, InTurnE, Scored, At, Prompted
  <2>2. \A w \in Witnesses : GroupOf[w] \notin ToInvalidate => evidence[w].run < run
    BY DEF RunInv, Attested
  <2> QED
    BY <1>3, <1>6, <2>1, <2>2 DEF Attested
<1>12. Passing'
  BY <1>1, <1>6, <1>7, <1>8 DEF Passing
<1>13. Paged' /\ PageTruthful'
  <2>1. \A g \in Groups : files'[g] = Missing => g \notin Complete(files')
    BY DEF Complete, Missing
  <2>2. BeforeBC' => from \in {"A", "B", "C"}
    BY <1>2, <1>4 DEF TurnNames, BeforeBC, At, Prompted
  <2>3. from \in {"A", "B", "C"} => \A g \in MadeByBC : g \in Groups /\ files'[g] = Missing
    BY <1>5, <1>6
  <2>4. CASE page.managed
    <3>1. /\ page'.managed /\ page'.label = Label(files', verdicts')
          /\ \A g \in Groups : StageOf[g] \in page'.done => g \in Complete(files')
      BY <1>1, <2>4, UpdatedTells
    <3>2. page'.label # "PASS"
      BY <1>5, <1>6, <2>1, <3>1 DEF Label
    <3> QED
      BY <1>3, <1>8, <2>1, <2>2, <2>3, <3>1, <3>2 DEF Paged, PageTruthful
  <2>5. CASE ~page.managed
    <3>1. page' = page /\ page'.run # run
      BY <1>1, <1>7, <2>5 DEF Updated
    <3> QED
      BY <1>3, <1>7, <1>8, <2>2, <2>3, <3>1 DEF Paged, PageTruthful
  <2> QED
    BY <2>4, <2>5
<1> QED
  BY <1>9, <1>10, <1>11, <1>12, <1>13 DEF RunInv

\* What an agent that has ended has left, and what it has not touched.
LEMMA AgentLeaves ==
  ASSUME TypeInv, pc = "wait", run \in Nat, NEW what \in {"nothing", "part", "all"}, AgentWrites(what)
  PROVE  /\ \A h \in Groups \ {Outputs[prompt]} : files'[h] = files[h]
         /\ files'[Outputs[prompt]] \in {files[Outputs[prompt]], Partial, run}
         /\ fresh' => files'[Outputs[prompt]] = run
         /\ Complete(files) \subseteq Complete(files')
         /\ \A w \in Witnesses : evidence'[w] # evidence[w] => prompt \in Judged /\ w = Role
         /\ prompt # "turn_e_eval" => verdicts'.evaluation = verdicts.evaluation
<1>1. prompt \in Prompts /\ Outputs[prompt] \in Groups
  BY Named DEF TypeInv, Places, Prompted
<1>2. /\ files \in [Groups -> {Missing, Partial} \cup 0 .. run] /\ DOMAIN evidence = Witnesses
      /\ verdicts \in [review : Verdicts.review, evaluation : Verdicts.evaluation]
  BY DEF TypeInv, TypeOK, DiskTypes
<1>3. /\ \A h \in Groups \ {Outputs[prompt]} : files'[h] = files[h]
      /\ \/ what = "all" /\ files'[Outputs[prompt]] = run
         \/ files[Outputs[prompt]] = Missing /\ files'[Outputs[prompt]] = Partial
         \/ files'[Outputs[prompt]] = files[Outputs[prompt]]
      /\ what = "all" => files'[Outputs[prompt]] = run
  BY <1>1, <1>2 DEF AgentWrites
<1>4. Complete(files) \subseteq Complete(files')
  BY <1>1, <1>3 DEF Complete, Missing, Partial
<1>5. \A w \in Witnesses : evidence'[w] # evidence[w] => prompt \in Judged /\ w = Role
  BY <1>2 DEF AgentWrites
<1>6. prompt # "turn_e_eval" => verdicts'.evaluation = verdicts.evaluation
  <2>1. prompt # "turn_e_eval" => Outputs[prompt] # "evaluation"
    BY <1>1 DEF Prompts, Outputs
  <2> QED
    BY <1>2, <2>1 DEF AgentWrites
<1> QED
  BY <1>3, <1>4, <1>5, <1>6 DEF AgentWrites

\* However an agent ends: its results are still to be checked.
LEMMA AgentKeeps ==
  ASSUME TypeInv, RunInv, run \in Nat, run > 0, pc = "wait", Same, UNCHANGED <<page, control>>,
         NEW what \in {"nothing", "part", "all"}, AgentWrites(what),
         NEW e, NEW next, Emit(e, next), next \in {Checks, "failing"}
  PROVE  RunInv'
<1>1. /\ run' = run /\ from' = from /\ ToInvalidate' = ToInvalidate /\ MadeByBC' = MadeByBC
      /\ page' = page /\ prompt' = prompt /\ attempt' = attempt /\ passed' = passed
  BY SameRun DEF control
<1>2. prompt \in Prompts /\ Working
  BY DEF TypeInv, Places, Prompted, Working, Alive, Going
<1>3. /\ pc' \in {"outputs", "version", "evidence", "failing", "crashed"}
      /\ pc' = "outputs" => prompt \notin Judged
  BY <1>2, Emitted DEF Checks, Prompts, Judged
<1>4. /\ \A h \in Groups \ {Outputs[prompt]} : files'[h] = files[h]
      /\ files'[Outputs[prompt]] \in {files[Outputs[prompt]], Partial, run}
      /\ fresh' => files'[Outputs[prompt]] = run
      /\ Complete(files) \subseteq Complete(files')
      /\ \A w \in Witnesses : evidence'[w] # evidence[w] => prompt \in Judged /\ w = Role
      /\ prompt # "turn_e_eval" => verdicts'.evaluation = verdicts.evaluation
  BY AgentLeaves
<1>5. /\ ~passed /\ verdicts.evaluation # "PASS"
      /\ page.run = run => page.label # "PASS"
      /\ from = "E" => prompt = "turn_e_eval"
  BY <1>2 DEF RunInv, Passing, Paged, Where, At, Alive, Going
<1>6. Working' => pc' \in {"outputs", "version", "evidence"}
  BY <1>3 DEF Working, Alive, Going
<1>7. /\ \A g \in Groups : Working' /\ Reached(g)' => Reached(g) /\ g # Outputs[prompt]
      /\ \A w \in Witnesses : Seen(w)' => Seen(w) /\ ~(prompt \in Judged /\ w = Role)
      /\ Approved' => Approved
      /\ BeforeBC' => BeforeBC /\ prompt = "turn_a_spec"
  <2>1. CASE ~Working'
    <3>1. ~Approved' /\ ~BeforeBC' /\ \A w \in Witnesses : ~Seen(w)'
      BY <1>3, <2>1 DEF Witnesses, Seen, Approved, Built, InTurnE, Scored, BeforeBC, At, Prompted, Working, Alive, Going
    <3> QED
      BY <2>1, <3>1
  <2>2. CASE Working'
    <3>1. \A g \in Groups : Reached(g)' => Reached(g) /\ g # Outputs[prompt]
      BY <1>1, <1>2, <1>3, <1>6, <2>2 DEF Groups, Outputs, Reached, Specified, Planned, Gated, Reviewed, Approved, Built, InTurnE, Scored, BeforeBC, At, Prompted, Prompts
    <3>2. \A w \in Witnesses : Seen(w)' => Seen(w) /\ ~(prompt \in Judged /\ w = Role)
      BY <1>1, <1>2, <1>3, <1>6, <2>2 DEF Witnesses, Judged, Role, RoleOf, Seen, Approved, Built, InTurnE, Scored, At, Prompted, Prompts
    <3>3. (Approved' => Approved) /\ (BeforeBC' => BeforeBC /\ prompt = "turn_a_spec")
      BY <1>1, <1>2, <1>6, <2>2 DEF Approved, Built, InTurnE, BeforeBC, At, Prompted, Prompts
    <3> QED
      BY <3>1, <3>2, <3>3
  <2> QED
    BY <2>1, <2>2
<1>8. Where' /\ Renewed' /\ CompletionEarned'
  BY <1>1, <1>3, <1>4, <1>5, <1>6 DEF Where, InTurnE, At, Prompted, Renewed, CompletionEarned
<1>9. Made'
  <2>1. ASSUME NEW g \in ToInvalidate, Working'
        PROVE  files'[g] \in {Missing, Partial, run} /\ (Reached(g)' => files'[g] = run)
    <3>1. g \in Groups /\ files[g] \in {Missing, Partial, run} /\ (Reached(g) => files[g] = run)
      BY <1>2 DEF RunInv, Made, ToInvalidate
    <3> QED
      BY <1>4, <1>7, <2>1, <3>1
  <2> QED
    BY <1>1, <2>1 DEF Made
<1>10. Attested'
  <2>1. ASSUME prompt \in Judged PROVE GroupOf[Role] \in ToInvalidate
    <3>1. from \in TurnNames
      <4>1. launches \in Seq(TurnNames) /\ Len(launches) \in Nat /\ run \in 1 .. Len(launches)
        <5>1. launches \in Seq(TurnNames)
          BY Constants DEF TypeInv, TypeOK, RunTypes
        <5> QED
          BY <5>1, LenProperties DEF TypeInv, TypeOK, RunTypes
      <4> QED
        BY <4>1, ElementOfSeq DEF from
    <3>2. CASE prompt = "turn_e_eval"
      BY <3>1, <3>2 DEF Role, RoleOf, GroupOf, ToInvalidate, Groups, StageOf, Rank, TurnNames
    <3>3. CASE prompt \in {"turn_d_review", "turn_d_build"}
      BY <1>5, <3>1, <3>3 DEF Role, RoleOf, GroupOf, ToInvalidate, Groups, StageOf, Rank, TurnNames
    <3> QED
      BY <2>1, <3>2, <3>3 DEF Judged
  <2>2. \A w \in Witnesses : Seen(w)' => Seen(w) /\ evidence'[w] = evidence[w]
    BY <1>4, <1>7
  <2>3. \A w \in Witnesses : GroupOf[w] \notin ToInvalidate => evidence'[w] = evidence[w]
    BY <1>4, <2>1
  <2> QED
    BY <1>1, <2>2, <2>3 DEF RunInv, Attested
<1>11. Endorsed'
  <2>1. ApprovedBy("reviewer") => ApprovedBy("reviewer")'
    BY <1>1, ApprovalKept
  <2> QED
    BY <1>1, <1>5, <1>7, <2>1 DEF RunInv, Endorsed
<1>12. Passing'
  <2>1. prompt = "turn_e_eval" /\ Working' => pc' = "evidence" \/ pc' = "version"
    BY <1>3, <1>6 DEF Judged
  <2> QED
    BY <1>1, <1>3, <1>4, <1>5, <2>1 DEF Passing, At
<1>13. Paged' /\ PageTruthful'
  <2>1. PageTruthful'
    BY <1>1, <1>4, <1>5 DEF RunInv, PageTruthful
  <2>2. ASSUME BeforeBC'
        PROVE  from \in {"A", "B", "C"} /\ \A g \in MadeByBC : files'[g] = Missing /\ (page.run = run => StageOf[g] \notin page.done)
    <3>1. /\ from \in {"A", "B", "C"}
          /\ \A g \in MadeByBC : files[g] = Missing /\ (page.run = run => StageOf[g] \notin page.done)
      BY <1>7, <2>2 DEF RunInv, Paged
    <3>2. \A g \in MadeByBC : g \in Groups /\ g # Outputs[prompt]
      BY <1>7, <2>2 DEF MadeByBC, Groups, Outputs
    <3> QED
      BY <1>4, <3>1, <3>2
  <2>3. ~page.managed => page.run = 0
    BY DEF RunInv, Paged
  <2> QED
    BY <1>1, <1>3, <1>5, <2>1, <2>2, <2>3 DEF Paged
<1> QED
  BY <1>8, <1>9, <1>10, <1>11, <1>12, <1>13 DEF RunInv

\* AgentSucceeds (invoke_agent()) keeps what the run has earned.
LEMMA AgentSucceedsKeeps == TypeInv /\ run > 0 /\ RunInv /\ AgentSucceeds => RunInv'
BY RunPositive, AgentKeeps DEF AgentSucceeds

\* AgentFails (invoke_prompt()) keeps what the run has earned.
LEMMA AgentFailsKeeps == TypeInv /\ run > 0 /\ RunInv /\ AgentFails => RunInv'
BY RunPositive, AgentKeeps DEF AgentFails

\* Both threads have made their files.
LEMMA TurnBCPassesKeeps == TypeInv /\ run > 0 /\ RunInv /\ TurnBCPasses => RunInv'
<1> SUFFICES ASSUME TypeInv, run > 0, RunInv, TurnBCPasses PROVE RunInv'
  OBVIOUS
<1>1. /\ run \in Nat /\ pc = "inBC" /\ pc' = "auditBC" /\ Same
      /\ evidence' = evidence /\ verdicts' = verdicts /\ page' = page /\ attempt' = attempt /\ passed' = passed
      /\ files' = [g \in Groups |-> IF g \in MadeByBC THEN run ELSE files[g]]
  BY RunPositive DEF TurnBCPasses, control
<1>2. /\ run' = run /\ from' = from /\ ToInvalidate' = ToInvalidate /\ MadeByBC' = MadeByBC
  BY <1>1, SameRun
<1>3. BeforeBC /\ Working /\ Working'
  BY <1>1 DEF BeforeBC, Working, Alive, Going
<1>4. /\ from \in {"A", "B", "C"} /\ ~passed /\ verdicts.evaluation # "PASS"
      /\ page.run = run => page.label # "PASS"
  BY <1>1, <1>3 DEF RunInv, Passing, Paged, Working, At
<1>5. ~Approved' /\ ~BeforeBC' /\ (\A w \in Witnesses : ~Seen(w)')
  BY <1>1 DEF Witnesses, Seen, Approved, Built, InTurnE, Scored, BeforeBC, At, Prompted
<1>6. Where' /\ Renewed' /\ Endorsed' /\ CompletionEarned' /\ Passing'
  BY <1>1, <1>2, <1>3, <1>4, <1>5 DEF Where, Renewed, Endorsed, CompletionEarned, Passing
<1>7. Made'
  <2>1. ASSUME NEW g \in ToInvalidate PROVE files'[g] \in {Missing, Partial, run} /\ (Reached(g)' => files'[g] = run)
    <3>1. g \in Groups /\ files[g] \in {Missing, Partial, run} /\ (Reached(g) => files[g] = run)
      BY <1>3 DEF RunInv, Made, ToInvalidate
    <3>2. CASE g \in MadeByBC
      BY <1>1, <3>1, <3>2
    <3>3. CASE g \notin MadeByBC
      <4>1. g # "plan" /\ g # "holdout"
        BY <1>4, <3>3 DEF MadeByBC, ToInvalidate, StageOf, Rank, Groups
      <4>2. Reached(g)' => Reached(g)
        BY <1>1, <3>1, <4>1 DEF Groups, Reached, Specified, Planned, Gated, Reviewed, Approved, Built, InTurnE, Scored, At, Prompted
      <4> QED
        BY <1>1, <3>1, <3>3, <4>2
    <3> QED
      BY <3>2, <3>3
  <2> QED
    BY <1>2, <2>1 DEF Made
<1>8. Attested'
  BY <1>1, <1>2, <1>5 DEF RunInv, Attested
<1>9. Paged' /\ PageTruthful'
  <2>1. Complete(files) \subseteq Complete(files')
    BY <1>1 DEF Complete
  <2>2. PageTruthful'
    BY <1>1, <1>2, <2>1 DEF RunInv, PageTruthful
  <2>3. ~page.managed => page.run = 0
    BY DEF RunInv, Paged
  <2> QED
    BY <1>1, <1>2, <1>4, <1>5, <2>2, <2>3 DEF Paged
<1> QED
  BY <1>6, <1>7, <1>8, <1>9 DEF RunInv

\* What either thread has left; the page has not called its stage done.
LEMMA FailingBCKeeps ==
  TypeInv /\ run > 0 /\ RunInv /\ (TurnBCFails \/ TurnBCLingers) => RunInv'
<1> SUFFICES ASSUME TypeInv, run > 0, RunInv, TurnBCFails \/ TurnBCLingers PROVE RunInv'
  OBVIOUS
<1>1. /\ run \in Nat /\ pc \in {"inBC", "unwindBC"} /\ pc' = "unwindBC" /\ Same
      /\ evidence' = evidence /\ verdicts' = verdicts /\ page' = page /\ attempt' = attempt /\ passed' = passed
  BY RunPositive DEF TurnBCFails, TurnBCLingers, control
<1>2. \A g \in Groups \ MadeByBC : files'[g] = files[g]
  BY DEF TurnBCFails, TurnBCLingers, LeftByBC
<1>3. /\ run' = run /\ from' = from /\ ToInvalidate' = ToInvalidate /\ MadeByBC' = MadeByBC
  BY <1>1, SameRun
<1>4. ~Working' /\ ~Approved' /\ ~BeforeBC' /\ (\A w \in Witnesses : ~Seen(w)')
  BY <1>1 DEF Witnesses, Seen, Approved, Built, InTurnE, Scored, BeforeBC, At, Prompted, Working, Going
<1>5. Where' /\ Made' /\ Renewed' /\ Endorsed' /\ CompletionEarned' /\ Passing'
  BY <1>1, <1>4 DEF Where, Made, Renewed, Endorsed, CompletionEarned, Passing, Going
<1>6. Attested'
  BY <1>1, <1>3, <1>4 DEF RunInv, Attested
<1>7. Paged' /\ PageTruthful'
  <2>1. /\ from \in {"A", "B", "C"}
        /\ \A g \in MadeByBC : page.run = run => StageOf[g] \notin page.done
        /\ ~page.managed => page.run = 0
    BY <1>1 DEF RunInv, Paged, BeforeBC
  <2>2. PageTruthful'
    <3>1. \A g \in Groups \ MadeByBC : g \in Complete(files) => g \in Complete(files')
      BY <1>2 DEF Complete
    <3> QED
      BY <1>1, <1>3, <2>1, <3>1 DEF RunInv, PageTruthful
  <2> QED
    BY <1>1, <1>3, <1>4, <2>1, <2>2 DEF Paged
<1> QED
  BY <1>5, <1>6, <1>7 DEF RunInv

\* Nothing is lost when nothing happens.
LEMMA Stutter == TypeInv /\ run > 0 /\ RunInv /\ UNCHANGED vars => RunInv'
<1> SUFFICES ASSUME RunInv, UNCHANGED vars PROVE RunInv'
  OBVIOUS
<1>1. Working' = Working /\ Approved' = Approved /\ BeforeBC' = BeforeBC /\ ToInvalidate' = ToInvalidate /\ from' = from
  BY DEF vars, Working, Approved, Built, InTurnE, BeforeBC, At, ToInvalidate, from
<1>2. (\A g : Reached(g)' = Reached(g)) /\ \A w : Seen(w)' = Seen(w)
  BY DEF vars, Reached, Specified, Planned, Gated, Reviewed, Approved, Built, InTurnE, Scored, Seen, At
<1>3. Where' /\ Made' /\ Renewed' /\ Attested' /\ PageTruthful'
  BY <1>1, <1>2 DEF vars, RunInv, Where, InTurnE, At, Made, Renewed, Attested, PageTruthful
<1>4. Endorsed' /\ CompletionEarned'
  BY <1>1 DEF vars, RunInv, Endorsed, ApprovedBy, CompletionEarned, Verdict
<1>5. Passing' /\ Paged'
  BY <1>1 DEF vars, RunInv, Passing, At, Paged, MadeByBC
<1> QED
  BY <1>3, <1>4, <1>5 DEF RunInv

\* A step of a run is taken only once there is one.
LEMMA Launched == TypeInv /\ (Step \/ Kill) => run > 0
<1> SUFFICES ASSUME TypeInv, Step \/ Kill PROVE run > 0
  OBVIOUS
<1>1. PreflightPasses \/ PreflightFails \/ FailRun \/ Prepare \/ Kill => pc # "ready"
  BY DEF PreflightPasses, PreflightFails, FailRun, Prepare, Go, Kill, Alive, Going
<1>2. Prompting => pc # "ready"
  BY DEF Prompting, RenderPrompt, RefusePrompt, InvokeAgent, AgentSucceeds, AgentFails, VersionMatches, VersionDiffers,
         VersionUnreadable, EvidenceHolds, EvidenceFails, OutputsVerified, OutputsRefused, Go, Refuted
<1>3. Specifying => pc # "ready"
  BY DEF Specifying, StartA, AuditA, HumanContinues, BCInputMissing, StartBC, TurnBCPasses, TurnBCFails,
         TurnBCLingers, TurnBCEnds, AuditBC, PlanMissing, Go, Audit, MissingInput
<1>4. Building => pc # "ready"
  BY DEF Building, DInputMissing, StartD, BeginAttempt, ReviewPasses, ReviewRetries, ReviewEscalates, ReviewUnreadable,
         Escalate, RetryReview, CompleteD, AuditDFails, Go, Audit, MissingInput, Refuted, Decide
<1>5. Evaluating => pc # "ready"
  BY DEF Evaluating, EInputMissing, StartE, HashInputs, EvaluationPasses, EvaluationFails, CompleteE, AuditE,
         RetryEvaluation, CompleteRun, NotConverged, Go, Audit, MissingInput, Decide
<1> QED
  BY <1>1, <1>2, <1>3, <1>4, <1>5, RunPositive DEF Step

\* Every step of the specification keeps what a run has earned so far.
LEMMA NextKeeps == IInv /\ [Next]_vars => IInv'
<1> SUFFICES ASSUME TypeInv, run > 0 => RunInv, [Next]_vars PROVE IInv'
  BY DEF IInv
<1>1. TypeInv'
  BY NextTypes
<1>2. CASE Launch
  BY <1>1, <1>2, LaunchKeeps DEF IInv
<1>3. CASE UNCHANGED vars
  BY <1>1, <1>3, Stutter DEF IInv, vars
<1>4. ASSUME Step \/ Kill PROVE run > 0 /\ RunInv
  BY <1>4, Launched
<1>5. CASE Step \/ Kill
  <2>1. run > 0 /\ RunInv
    BY <1>4, <1>5
  <2>2. CASE Kill \/ PreflightPasses \/ PreflightFails \/ FailRun \/ Prepare
    BY <1>1, <2>1, <2>2, QuitStepsKeep, PreflightPassesKeeps, PrepareKeeps DEF IInv
  <2>3. CASE Prompting
    BY <1>1, <2>1, <2>3, QuitStepsKeep, RenderPromptKeeps, InvokeAgentKeeps, AgentSucceedsKeeps, AgentFailsKeeps,
       VersionMatchesKeeps, EvidenceHoldsKeeps, OutputsVerifiedKeeps
    DEF IInv, Prompting
  <2>4. CASE Specifying
    BY <1>1, <2>1, <2>4, QuitStepsKeep, StartAKeeps, AuditAKeeps, HumanContinuesKeeps, StartBCKeeps,
       TurnBCPassesKeeps, FailingBCKeeps, AuditBCKeeps
    DEF IInv, Specifying
  <2>5. CASE Building
    BY <1>1, <2>1, <2>5, QuitStepsKeep, StartDKeeps, BeginAttemptKeeps, ReviewPassesKeeps, ReviewRetriesKeeps,
       ReviewEscalatesKeeps, RetryReviewKeeps, CompleteDKeeps, AuditDFailsKeeps
    DEF IInv, Building
  <2>6. CASE Evaluating
    BY <1>1, <2>1, <2>6, QuitStepsKeep, StartEKeeps, HashInputsKeeps, EvaluationPassesKeeps, EvaluationFailsKeeps,
       CompleteEKeeps, AuditEKeeps, RetryEvaluationKeeps, CompleteRunKeeps
    DEF IInv, Evaluating
  <2> QED
    BY <1>5, <2>2, <2>3, <2>4, <2>5, <2>6 DEF Step
<1> QED
  BY <1>2, <1>3, <1>5 DEF Next

\* Before the first run nothing is to be kept.
LEMMA InitKeeps == Init => IInv
<1>1. Init => ~(run > 0)
  BY DEF Init
<1> QED
  BY <1>1, InitTypes DEF IInv

\* The invariant holds in every reachable state.
LEMMA Earned == Spec => []IInv
BY InitKeeps, NextKeeps, PTL DEF Spec

\* A run that has passed has the evaluator's approval of its last attempt, and
\* the reviewer's if it was built in this run, files that are its own, and no
\* evidence of another run or attempt: complete_run() takes none of it from a
\* run before.
THEOREM CompletionCorrect == Spec => []CompletionEarned
<1>1. IInv => CompletionEarned
  <2> SUFFICES ASSUME IInv, pc = "completed" PROVE CompletionEarned
    BY DEF CompletionEarned
  <2>1. run > 0
    BY RunPositive DEF IInv
  <2> QED
    BY <2>1 DEF IInv, RunInv
<1> QED
  BY Earned, <1>1, PTL

\* Wherever a run is, or was killed, the status page that names it calls no
\* stage done whose files are not all there, and says PASS only with the
\* report: what update_status_page() wrote earlier in the run is still true.
THEOREM PageCorrect == Spec => []PageTruthful
<1>1. IInv => PageTruthful
  BY DEF IInv, RunInv, PageTruthful
<1> QED
  BY Earned, <1>1, PTL

----------------------------------------------------------------------------
(* How a run ends, and how often it was tried *)

\* The judges have the log rule on an attempt, for or against it.
VerdictTypes == {"review_verdict_recorded", "evaluation_verdict_recorded"}
Judges == {"reviewer", "evaluator"}

RuledOn(w, failed, n) ==
  \E i \in DOMAIN log : log[i].type \in VerdictTypes /\ log[i].role = w /\ log[i].failed = failed /\ log[i].attempt = n

ReviewedOn(n) == \E i \in DOMAIN log : log[i].type = "review_verdict_recorded" /\ log[i].attempt = n

\* The attempt that run_turn_d() counts on from.
Base == IF from = "A" THEN 1 ELSE 0

\* The part of the retry loop in which a run is.
Phase ==
  CASE pc \in {"preflight", "prepare", "startA"} -> "begun"
    [] pc \in {"startBC", "inBC", "auditA", "auditBC", "checkpointA", "checkpointBC"} \/ At("turn_a_spec", Prompted) -> "early"
    [] pc \in {"startD", "attempt"} -> "between"
    [] At("turn_d_13q", Prompted) \/ At("turn_d_review", Prompted) -> "judging"
    [] pc \in {"auditD", "startE", "hash"} \/ At("turn_d_build", Prompted) \/ At("turn_e_eval", Prompted) -> "building"
    [] pc \in {"auditE", "converge"} -> "judged"
    [] pc \in {"retryReview", "escalate", "retryEval"} -> "sentBack"
    [] OTHER -> "off"

\* What a process that lives knows of its log: it is legal and has no end.
Open == \A i \in DOMAIN log : log[i].type \notin TerminalTypes
Sound == pc \in Going => Projectable(log) /\ Open /\ status.state \in {"running", "retrying"}

\* The events the process goes on from are in the log.
Rooted ==
  /\ pc = "inBC" => ids.turn \in DOMAIN log /\ log[ids.turn].type = "turn_started"
  /\ pc \in {"version", "evidence", "outputs", "verdict"} =>
       ids.exit \in DOMAIN log /\ log[ids.exit].type = "agent_exited" /\ log[ids.exit].role = RoleOf[prompt]

\* Which attempts there have been.
Counted ==
  /\ Phase = "begun" => attempt = 0 /\ (pc = "startA" => from = "A")
  /\ Phase = "early" => attempt = Base
  /\ Phase \in {"early", "between", "judging"} => from # "E"
  /\ Phase = "between" => attempt = Base \/ (attempt > Base /\ SentBack)
  /\ Phase \in {"judging", "building", "judged", "sentBack"} /\ from # "E" => attempt > Base

\* What the judges have said of the current attempt, and that of later ones they have
\* said nothing.
Ruled ==
  /\ Phase \in {"begun", "early"} => \A w, f, n : ~RuledOn(w, f, n)
  /\ Phase = "judging" => \A w \in Judges, f \in BOOLEAN : ~RuledOn(w, f, attempt)
  /\ Phase \in {"building", "judged"} =>
       (RuledOn("reviewer", FALSE, attempt) <=> from # "E") /\ ~RuledOn("reviewer", TRUE, attempt)
  /\ Phase = "building" => \A f \in BOOLEAN : ~RuledOn("evaluator", f, attempt)
  /\ Phase = "judged" =>
       (RuledOn("evaluator", FALSE, attempt) <=> passed) /\ (RuledOn("evaluator", TRUE, attempt) <=> ~passed)
  /\ Phase = "sentBack" => SentBack
  /\ Phase # "off" => \A w \in Judges, f \in BOOLEAN, n \in Nat : RuledOn(w, f, n) => n <= attempt

\* Every attempt of this run has been reviewed once it is past its review.
Spent ==
  /\ Phase # "off" /\ from # "E" =>
       \A n \in Nat : ReviewedOn(n) <=> n > Base /\ n <= attempt /\ (Phase = "judging" => n # attempt)
  /\ pc = "escalate" => verdicts.review = "ESCALATE"

OutRun == Sound /\ Rooted /\ Counted /\ Ruled /\ Spent /\ RunOutcome

OutInv == TypeInv /\ (run > 0 => RunInv /\ OutRun)

\* What a living process knows is what RunOutcome says of it.
LEMMA OngoingIs ==
  /\ Projectable(log) /\ Open /\ status.state \in {"running", "retrying"} => Ongoing
  /\ Projectable(log') /\ Open' /\ status'.state \in {"running", "retrying"} => Ongoing'
BY DEF Ongoing, Open

\* Two logs that differ only in the judges' words are alike to the retry loop.
Quiet ==
  /\ \A w, f, n : RuledOn(w, f, n)' <=> RuledOn(w, f, n)
  /\ \A n : ReviewedOn(n)' <=> ReviewedOn(n)

\* An emission, event by event.
LEMMA Grown ==
  ASSUME TypeInv, NEW e, NEW next, Emit(e, next)
  PROVE  /\ Len(log) \in Nat /\ DOMAIN log = 1 .. Len(log) /\ NewId = Len(log) + 1
         /\ DOMAIN log' = 1 .. NewId /\ Len(log') = NewId
         /\ \A i \in DOMAIN log : log'[i] = log[i] /\ log[i].ts = 0
         /\ log'[NewId] = e
<1> DEFINE S == PipelineEvents \cup {e}
<1>1. log \in Seq(PipelineEvents) /\ Len(log) \in Nat /\ DOMAIN log = 1 .. Len(log)
  BY LenProperties DEF TypeInv, TypeOK, LogTypes
<1>2. \A i \in 1 .. Len(log) : log[i] \in PipelineEvents
  BY <1>1, ElementOfSeq
<1>3. log \in Seq(S) /\ e \in S
  <2>1. log \in [1 .. Len(log) -> S]
    BY <1>1, <1>2, LenProperties
  <2>2. Seq(S) = UNION {[1 .. n -> S] : n \in Nat}
    BY SeqDef
  <2> QED
    BY <1>1, <2>1, <2>2
<1>4. log' = Append(log, e)
  BY DEF Emit
<1> HIDE DEF S
<1>5. /\ Append(log, e) \in Seq(S) /\ Len(Append(log, e)) = Len(log) + 1
      /\ \A i \in 1 .. Len(log) : Append(log, e)[i] = log[i]
      /\ Append(log, e)[Len(log) + 1] = e
  BY <1>3, AppendProperties
<1>6. DOMAIN Append(log, e) = 1 .. Len(log) + 1
  BY <1>5, LenProperties
<1>7. \A i \in DOMAIN log : log[i].ts = 0
  BY <1>1, <1>2 DEF PipelineEvents
<1> QED
  BY <1>1, <1>4, <1>5, <1>6, <1>7 DEF NewId

\* The events of a legal log stay legal when the log grows, as all have the same time.
LEMMA PrefixLegal ==
  ASSUME NEW l, NEW m, NEW a \in Nat, NEW b \in Nat, a <= b, DOMAIN l = 1 .. a, DOMAIN m = 1 .. b,
         \A i \in 1 .. a : m[i] = l[i], \A i \in 1 .. b : m[i].ts = 0, Projectable(l)
  PROVE  \A i \in 1 .. a : validate_parent(m, i) /\ NotAfterTerminal(m, i)
<1> SUFFICES ASSUME NEW i \in 1 .. a PROVE validate_parent(m, i) /\ NotAfterTerminal(m, i)
  OBVIOUS
<1>1. validate_parent(l, i) /\ NotAfterTerminal(l, i) /\ m[i] = l[i] /\ i \in 1 .. b
  BY DEF Projectable
<1>2. \A j \in 1 .. b : Before(m, j, i) <=> j < i
  BY <1>1 DEF Before
<1>3. \A j \in 1 .. a : Before(l, j, i) <=> j < i
  <2>1. \A j \in 1 .. a : l[j].ts = 0
    <3>1. \A j \in 1 .. a : j \in 1 .. b
      OBVIOUS
    <3> QED
      BY <3>1
  <2> QED
    BY <2>1 DEF Before
<1>4. validate_parent(m, i)
  <2>1. CASE PARENT_RULES[l[i].type] = {}
    BY <1>1, <2>1 DEF validate_parent
  <2>2. CASE PARENT_RULES[l[i].type] # {}
    <3>1. /\ l[i].parent \in 1 .. a /\ Before(l, l[i].parent, i)
          /\ l[l[i].parent].type \in PARENT_RULES[l[i].type] /\ ParentFits(l[i], l[l[i].parent])
      BY <1>1, <2>2 DEF validate_parent
    <3>2. l[i].parent \in 1 .. b /\ Before(m, l[i].parent, i) /\ m[l[i].parent] = l[l[i].parent]
      BY <1>2, <1>3, <3>1
    <3> QED
      BY <1>1, <2>2, <3>1, <3>2 DEF validate_parent
  <2> QED
    BY <2>1, <2>2
<1>5. NotAfterTerminal(m, i)
  <2> SUFFICES ASSUME NEW j \in 1 .. b, Before(m, j, i) PROVE m[j].type \notin TerminalTypes
    BY DEF NotAfterTerminal
  <2>1. j \in 1 .. a /\ m[j] = l[j] /\ Before(l, j, i)
    BY <1>2, <1>3
  <2> QED
    BY <1>1, <2>1 DEF NotAfterTerminal
<1> QED
  BY <1>4, <1>5

\* An event whose parent comes earlier and is of the right kind is legal in a log
\* without an end.
LEMMA Fits ==
  ASSUME NEW m, NEW b \in Nat, DOMAIN m = 1 .. b, \A j \in 1 .. b : m[j].ts = 0, NEW i \in 1 .. b,
         m[i].parent \in 1 .. i - 1, m[m[i].parent].type \in PARENT_RULES[m[i].type],
         ParentFits(m[i], m[m[i].parent]), \A j \in 1 .. b : j < i => m[j].type \notin TerminalTypes
  PROVE  validate_parent(m, i) /\ NotAfterTerminal(m, i)
<1>1. m[i].parent \in 1 .. b /\ m[i].parent < i /\ PARENT_RULES[m[i].type] # {}
  OBVIOUS
<1>2. \A j \in 1 .. b : Before(m, j, i) <=> j < i
  BY DEF Before
<1>3. validate_parent(m, i)
  BY <1>1, <1>2 DEF validate_parent
<1> QED
  BY <1>2, <1>3 DEF NotAfterTerminal

\* An emission by a process that lives: the event is accepted and is in a legal log,
\* or it ends the process, whose status.json still says that it runs.
LEMMA EmitSound ==
  ASSUME TypeInv, Sound, pc \in Going, NEW type, NEW role, NEW failed, NEW parent, NEW att, NEW next,
         Emit(Event(type, role, failed, parent, att), next)
  PROVE  \/ pc' = "crashed" /\ status' = status
         \/ /\ pc' = next /\ Projectable(log')
            /\ type \notin TerminalTypes => Open' /\ status'.state \in {"running", "retrying"}
            /\ type = "run_failed" => status'.state = "failed"
            /\ type = "escalation_triggered" => status'.state = "escalated"
            /\ type = "run_completed" => status'.state = "passed"
<1> DEFINE e == Event(type, role, failed, parent, att)
<1>1. e.type = type /\ e.ts = 0
  BY DEF Event
<1>2. Emit(e, next)
  OBVIOUS
<1> HIDE DEF e
<1>3. /\ Len(log) \in Nat /\ DOMAIN log = 1 .. Len(log) /\ NewId = Len(log) + 1
      /\ DOMAIN log' = 1 .. NewId /\ Len(log') = NewId
      /\ \A i \in DOMAIN log : log'[i] = log[i] /\ log[i].ts = 0
      /\ log'[NewId] = e
  BY <1>2, Grown
<1>4. Projectable(log) /\ Open /\ status.state \in {"running", "retrying"}
  BY DEF Sound
<1>5. CASE ~Accepted(log')
  BY <1>2, <1>5 DEF Emit
<1>6. CASE Accepted(log')
  <2>1. pc' = next /\ status' = Applied(status, e)
    BY <1>2, <1>6 DEF Emit
  <2>2. Projectable(log')
    <3>1. \A i \in 1 .. NewId : log'[i].ts = 0
      BY <1>1, <1>3
    <3>2. \A i \in 1 .. Len(log) : validate_parent(log', i) /\ NotAfterTerminal(log', i)
      BY <1>3, <1>4, <3>1, PrefixLegal
    <3>3. validate_parent(log', NewId) /\ NotAfterTerminal(log', NewId)
      BY <1>3, <1>6 DEF Accepted
    <3> QED
      BY <1>3, <3>2, <3>3 DEF Projectable
  <2>3. type \notin TerminalTypes => Open'
    BY <1>1, <1>3, <1>4 DEF Open
  <2>4. status'.state = StateAfter(status.state, e)
    BY <2>1 DEF Applied
  <2>5. /\ type \notin TerminalTypes => StateAfter(status.state, e) \in {"running", "retrying"}
        /\ type = "run_failed" => StateAfter(status.state, e) = "failed"
        /\ type = "escalation_triggered" => StateAfter(status.state, e) = "escalated"
        /\ type = "run_completed" => StateAfter(status.state, e) = "passed"
    BY <1>1 DEF StateAfter, TerminalTypes
  <2> QED
    BY <2>1, <2>2, <2>3, <2>4, <2>5
<1> QED
  BY <1>5, <1>6

\* What an emission adds to what the judges have said.
LEMMA Said ==
  ASSUME TypeInv, NEW type, NEW role, NEW failed, NEW parent, NEW att, NEW next,
         Emit(Event(type, role, failed, parent, att), next)
  PROVE  /\ type \notin VerdictTypes => Quiet
         /\ type \in VerdictTypes =>
              \A w, f, n : RuledOn(w, f, n)' <=> RuledOn(w, f, n) \/ (w = role /\ f = failed /\ n = att)
         /\ type # "review_verdict_recorded" => \A n : ReviewedOn(n)' <=> ReviewedOn(n)
         /\ type = "review_verdict_recorded" => \A n : ReviewedOn(n)' <=> ReviewedOn(n) \/ n = att
<1> DEFINE e == Event(type, role, failed, parent, att)
<1>1. e.type = type /\ e.role = role /\ e.failed = failed /\ e.attempt = att
  BY DEF Event
<1>2. Emit(e, next)
  OBVIOUS
<1> HIDE DEF e
<1>3. /\ DOMAIN log' = DOMAIN log \cup {NewId}
      /\ \A i \in DOMAIN log : log'[i] = log[i]
      /\ log'[NewId] = e
  <2>1. Len(log) \in Nat /\ DOMAIN log = 1 .. Len(log) /\ NewId = Len(log) + 1 /\ DOMAIN log' = 1 .. NewId
    BY <1>2, Grown
  <2>2. DOMAIN log' = DOMAIN log \cup {NewId}
    BY <2>1
  <2> QED
    BY <1>2, <2>2, Grown
<1>4. \A w, f, n : RuledOn(w, f, n)' <=>
        RuledOn(w, f, n) \/ (type \in VerdictTypes /\ w = role /\ f = failed /\ n = att)
  BY <1>1, <1>3 DEF RuledOn
<1>5. \A n : ReviewedOn(n)' <=> ReviewedOn(n) \/ (type = "review_verdict_recorded" /\ n = att)
  BY <1>1, <1>3 DEF ReviewedOn
<1>6. type \notin VerdictTypes => type # "review_verdict_recorded"
  BY DEF VerdictTypes
<1> QED
  BY <1>4, <1>5, <1>6 DEF Quiet

\* What the judges have said of the current attempt, as the promise of BuildLoop has it.
LEMMA JudgedNow ==
  /\ \A w, f : Verdict(w, f) # {} <=> RuledOn(w, f, attempt)
  /\ SentBack <=> RuledOn("reviewer", TRUE, attempt) \/ RuledOn("evaluator", TRUE, attempt)
  /\ Approvals = {w \in Judges : RuledOn(w, FALSE, attempt)}
<1>1. \A w, f : Verdict(w, f) # {} <=> RuledOn(w, f, attempt)
  BY DEF Verdict, RuledOn, VerdictTypes
<1> QED
  BY <1>1 DEF SentBack, Approvals, Judges

\* The same after a step.
LEMMA JudgedNext ==
  /\ \A w, f, n : n = attempt' => (RuledOn(w, f, attempt)' <=> RuledOn(w, f, n)')
  /\ SentBack' <=> RuledOn("reviewer", TRUE, attempt)' \/ RuledOn("evaluator", TRUE, attempt)'
  /\ Approvals' = {w \in Judges : RuledOn(w, FALSE, attempt)'}
<1>1. \A w, f : Verdict(w, f)' # {} <=> RuledOn(w, f, attempt)'
  BY DEF Verdict, RuledOn, VerdictTypes
<1>2. \A w, f, n : n = attempt' => (RuledOn(w, f, attempt)' <=> RuledOn(w, f, n)')
  BY DEF RuledOn
<1> QED
  BY <1>1, <1>2 DEF SentBack, Approvals, Judges

\* Within a run the count that it started from stays.
LEMMA BaseKept ==
  /\ Base \in {0, 1}
  /\ Same => Base' = Base /\ from' = from
BY SameRun DEF Base

\* As long as nothing is said, the judges' words and the loop stay as they are.
LEMMA QuietKeeps ==
  ASSUME Quiet, attempt' = attempt
  PROVE  /\ \A w, f : RuledOn(w, f, attempt)' <=> RuledOn(w, f, attempt)
         /\ SentBack' = SentBack /\ Approvals' = Approvals
<1>1. \A w, f : RuledOn(w, f, attempt)' <=> RuledOn(w, f, attempt)
  BY JudgedNext DEF Quiet
<1>2. SentBack' <=> SentBack
  BY <1>1, JudgedNext, JudgedNow
<1>3. Approvals' = Approvals
  BY <1>1, JudgedNext, JudgedNow
<1>4. SentBack \in BOOLEAN /\ SentBack' \in BOOLEAN
  BY DEF SentBack
<1> QED
  BY <1>1, <1>2, <1>3, <1>4

\* A step within a part of the loop.
LEMMA StayKeeps ==
  ASSUME Counted, Ruled, Spent, Same, Quiet, UNCHANGED <<attempt, passed>>, Phase' = Phase,
         pc' # "escalate", pc' = "startA" => pc = "startA"
  PROVE  Counted' /\ Ruled' /\ Spent'
<1>1. /\ \A w, f : RuledOn(w, f, attempt)' <=> RuledOn(w, f, attempt)
      /\ SentBack' = SentBack
  BY QuietKeeps
<1>2. Base' = Base /\ from' = from
  BY BaseKept
<1>3. Counted'
  <2>1. Counted
    OBVIOUS
  <2> QED
    BY <1>1, <1>2, <2>1, Zenon DEF Counted
<1>4. Ruled'
  <2>1. Ruled
    OBVIOUS
  <2>2. \A w, f, n : RuledOn(w, f, n)' <=> RuledOn(w, f, n)
    BY DEF Quiet
  <2> QED
    BY <1>1, <1>2, <2>1, <2>2, Zenon DEF Ruled
<1>5. Spent'
  BY <1>2 DEF Spent, Quiet
<1> QED
  BY <1>3, <1>4, <1>5

\* A step out of the loop.
LEMMA OffKeeps ==
  ASSUME Phase' = "off", pc' # "escalate", pc' # "startA"
  PROVE  Counted' /\ Ruled' /\ Spent'
BY DEF Counted, Ruled, Spent

\* A run that only fails, or has ended, is past the retry loop.
LEMMA OffPlaces ==
  \A p \in Ended \cup {"failing"} : pc = p => Phase = "off"
BY DEF Ended, Phase, At, Prompted

\* The tries of a run, by its attempt.
LEMMA TriesAre ==
  ASSUME TypeInv, run > 0
  PROVE  /\ from = "E" \/ attempt = 0 \/ attempt = Base => Tries = 0
         /\ from # "E" /\ attempt > Base => Tries = attempt - Base
         /\ Tries \in Nat
<1>1. attempt \in Nat /\ run \in Nat
  BY Constants DEF TypeInv, TypeOK, ControlTypes, RunTypes
<1> QED
  BY <1>1 DEF Tries, Base

\* What is shown of each step: what is known of a run stays true, and BuildLoop can do it.
OutKept == OutRun' /\ [Loop!Next]_(Loop!vars)

\* A run that is alive has no outcome.
LEMMA Running ==
  ASSUME pc \in Going
  PROVE  /\ Outcome = "open" /\ pc \notin Ended
         /\ pc \notin {"completed", "aborted", "crashed", "killed"}
BY DEF Outcome, Alive, Going, Ended

\* A run that goes on has no outcome yet.
LEMMA RunningNext ==
  ASSUME pc' \in Going
  PROVE  Outcome' = "open" /\ pc' \notin {"completed", "aborted", "crashed", "killed", "unwindBC"}
BY DEF Outcome, Alive, Going

\* As long as nothing is said and no attempt begins, the loop stands still.
LEMMA LoopStands ==
  ASSUME Same, Quiet, attempt' = attempt
  PROVE  Tries' = Tries /\ Approvals' = Approvals /\ SentBack' = SentBack
<1>1. run' = run /\ from' = from
  BY SameRun
<1> QED
  BY <1>1, QuietKeeps DEF Tries

\* A step within a part of the loop.
LEMMA StaysIn ==
  ASSUME OutRun, Same, Quiet, UNCHANGED <<attempt, passed>>,
         pc \in Going, pc' \in Going, Phase' = Phase, pc' # "escalate", pc' # "startA",
         Projectable(log'), Open', status'.state \in {"running", "retrying"}, Rooted'
  PROVE  OutKept
<1>1. Sound'
  BY DEF Sound
<1>2. Counted' /\ Ruled' /\ Spent'
  BY StayKeeps DEF OutRun
<1>3. pc' \notin {"completed", "aborted", "crashed", "killed", "unwindBC"} /\ Outcome = "open" /\ Outcome' = "open"
  BY Running, RunningNext
<1>4. RunOutcome'
  BY <1>3, OngoingIs DEF RunOutcome, BudgetSpent
<1>5. UNCHANGED Loop!vars
  BY <1>3, LoopStands DEF Loop!vars
<1> QED
  BY <1>1, <1>2, <1>4, <1>5 DEF OutKept, OutRun

\* A step out of the loop, to fail or because the process ends.
LEMMA Exits ==
  ASSUME OutRun, Same, Tries' = Tries, Approvals' = Approvals, SentBack' = SentBack, pc \in Going, pc' \in {"failing", "killed", "aborted", "crashed"},
         pc' \in {"failing", "killed"} => Projectable(log') /\ Open' /\ status'.state \in {"running", "retrying"},
         pc' = "aborted" =>
           status'.state = "failed" \/ (mode = "headless" /\ status'.state \in {"running", "retrying"}),
         pc' = "crashed" => status'.state \in {"running", "retrying"} \/ ~Projectable(log')
  PROVE  OutKept
<1>1. /\ pc' = "failing" \/ pc' \in Ended
      /\ pc' \notin {"escalate", "startA", "inBC", "version", "evidence", "outputs", "verdict", "completed", "unwindBC"}
      /\ pc' \in Going => pc' = "failing"
  BY DEF Ended, Alive, Going
<1>2. Phase' = "off"
  BY <1>1 DEF Ended, Phase, At, Prompted
<1>3. Sound' /\ Rooted'
  BY <1>1 DEF Sound, Rooted
<1>4. Counted' /\ Ruled' /\ Spent'
  BY <1>1, <1>2, OffKeeps
<1>5. RunOutcome'
  <2>1. pc' = "aborted" => status'.state # "escalated"
    OBVIOUS
  <2>2. BudgetSpent'
    BY <2>1 DEF BudgetSpent
  <2>3. mode' = mode
    BY SameRun
  <2>4. "running" \notin TerminalStates /\ "retrying" \notin TerminalStates
    BY DEF TerminalStates
  <2>5. pc' \in {"failing", "killed"} => Ongoing'
    BY OngoingIs
  <2> QED
    BY <1>1, <2>2, <2>3, <2>4, <2>5 DEF RunOutcome
<1>6. [Loop!Next]_(Loop!vars)
  <2>1. Outcome = "open"
    BY Running
  <2>2. CASE pc' = "failing"
    <3>1. Outcome' = "open"
      BY <2>2 DEF Outcome, Alive, Going
    <3> QED
      BY <2>1, <3>1 DEF Loop!vars
  <2>3. CASE pc' # "failing"
    <3>1. Outcome' = "lost"
      BY <2>3 DEF Outcome, Alive, Going
    <3>2. Loop!Lose
      BY <2>1, <3>1 DEF Loop!Lose
    <3> QED
      BY <3>2 DEF Loop!Next
  <2> QED
    BY <2>2, <2>3
<1> QED
  BY <1>3, <1>4, <1>5, <1>6 DEF OutKept, OutRun

\* A step by which a run leaves the loop without a verdict or a terminal
\* event: the run is lost, and its files say so.
LEMMA Leaves ==
  ASSUME OutRun, Same, Quiet, attempt' = attempt, pc \in Going, pc' \in {"failing", "killed", "aborted", "crashed"},
         pc' \in {"failing", "killed"} => Projectable(log') /\ Open' /\ status'.state \in {"running", "retrying"},
         pc' = "aborted" =>
           status'.state = "failed" \/ (mode = "headless" /\ status'.state \in {"running", "retrying"}),
         pc' = "crashed" => status'.state \in {"running", "retrying"} \/ ~Projectable(log')
  PROVE  OutKept
BY LoopStands, Exits

\* The same of steps that emit an event the judges have no part in.
LEMMA EmitStays ==
  ASSUME TypeInv, OutRun, Same, UNCHANGED <<attempt, passed>>, pc \in Going,
         NEW type, NEW role, NEW failed, NEW parent, NEW att, NEW next,
         Emit(Event(type, role, failed, parent, att), next),
         type \notin VerdictTypes \cup TerminalTypes, next \in Going \ {"escalate", "startA"},
         pc' = next => Phase' = Phase /\ Rooted'
  PROVE  OutKept
<1>1. \/ pc' = "crashed" /\ status' = status
      \/ pc' = next /\ Projectable(log') /\ Open' /\ status'.state \in {"running", "retrying"}
  BY EmitSound DEF OutRun
<1>2. Quiet
  BY Said
<1>3. status.state \in {"running", "retrying"}
  BY DEF OutRun, Sound
<1>4. CASE pc' = "crashed"
  BY <1>1, <1>2, <1>3, <1>4, Leaves DEF Alive, Going
<1>5. CASE pc' # "crashed"
  BY <1>1, <1>2, <1>5, StaysIn
<1> QED
  BY <1>4, <1>5

\* An emission on the way out of the loop.
LEMMA EmitLeaves ==
  ASSUME TypeInv, OutRun, Same, attempt' = attempt, pc \in Going,
         NEW type, NEW role, NEW failed, NEW parent, NEW att,
         Emit(Event(type, role, failed, parent, att), "failing"),
         type \notin VerdictTypes \cup TerminalTypes
  PROVE  OutKept
<1>1. \/ pc' = "crashed" /\ status' = status
      \/ pc' = "failing" /\ Projectable(log') /\ Open' /\ status'.state \in {"running", "retrying"}
  BY EmitSound DEF OutRun
<1>2. Quiet
  BY Said
<1>3. status.state \in {"running", "retrying"}
  BY DEF OutRun, Sound
<1> QED
  BY <1>1, <1>2, <1>3, Leaves

\* The same of steps that emit nothing.
LEMMA SilentFacts ==
  ASSUME OutRun, UNCHANGED <<log, status>>, pc \in Going
  PROVE  Quiet /\ Projectable(log') /\ Open' /\ status'.state \in {"running", "retrying"}
BY DEF OutRun, Sound, Open, Quiet, RuledOn, ReviewedOn

\* A step that writes no event and stays in its phase.
LEMMA SilentStays ==
  ASSUME OutRun, Same, UNCHANGED <<log, status, attempt, passed>>, pc \in Going,
         pc' \in Going \ {"escalate", "startA"}, Phase' = Phase, Rooted'
  PROVE  OutKept
BY SilentFacts, StaysIn

\* A step that writes no event and leaves the loop.
LEMMA SilentLeaves ==
  ASSUME OutRun, Same, UNCHANGED <<log, status, attempt>>, pc \in Going,
         pc' \in {"failing", "killed", "crashed"} \/ (pc' = "aborted" /\ mode = "headless")
  PROVE  OutKept
BY SilentFacts, Leaves

----------------------------------------------------------------------------
(* The steps of a run *)

\* The steps of a prompt that go well stay within the part of the loop it belongs to.
LEMMA PromptingKeeps ==
  TypeInv /\ OutRun /\ (RenderPrompt \/ InvokeAgent \/ AgentSucceeds \/ OutputsVerified) => OutKept
<1> SUFFICES ASSUME TypeInv, OutRun PROVE
      RenderPrompt \/ InvokeAgent \/ AgentSucceeds \/ OutputsVerified => OutKept
  OBVIOUS
<1> USE DEF Alive, Going, VerdictTypes, TerminalTypes
<1>1. pc \in Prompted => prompt \in Prompts
  BY DEF TypeInv, Places
<1>2. ASSUME RenderPrompt PROVE OutKept
  <2>1. /\ Emit(Event("prompt_rendered", Role, FALSE, ids.turn, CurrentAttempt), "invoke")
        /\ Same /\ UNCHANGED <<attempt, passed>> /\ pc = "dispatch" /\ prompt' = prompt
    BY <1>2 DEF RenderPrompt, control
  <2>2. pc' = "invoke" => Phase' = Phase /\ Rooted'
    BY <1>1, <2>1 DEF Phase, At, Prompted, Prompts, Rooted
  <2> QED
    BY <2>1, <2>2, EmitStays
<1>3. ASSUME InvokeAgent PROVE OutKept
  <2>1. /\ Emit(Event("agent_invoked", Role, FALSE, ids.prompt, CurrentAttempt), "wait")
        /\ Same /\ UNCHANGED <<attempt, passed>> /\ pc = "invoke" /\ prompt' = prompt
    BY <1>3 DEF InvokeAgent, control
  <2>2. pc' = "wait" => Phase' = Phase /\ Rooted'
    BY <1>1, <2>1 DEF Phase, At, Prompted, Prompts, Rooted
  <2> QED
    BY <2>1, <2>2, EmitStays
<1>4. ASSUME AgentSucceeds PROVE OutKept
  <2>1. /\ Emit(Event("agent_exited", Role, FALSE, ids.invoked, CurrentAttempt), Checks)
        /\ Same /\ UNCHANGED <<attempt, passed>> /\ pc = "wait" /\ prompt' = prompt
        /\ ids' = [ids EXCEPT !.exit = NewId]
    BY <1>4 DEF AgentSucceeds, control
  <2>2. Checks \in {"outputs", "version", "evidence"}
    BY DEF Checks
  <2>3. ids'.exit \in DOMAIN log' /\ log'[ids'.exit].type = "agent_exited" /\ log'[ids'.exit].role = RoleOf[prompt]
    <3> DEFINE e == Event("agent_exited", Role, FALSE, ids.invoked, CurrentAttempt)
    <3>1. e.type = "agent_exited" /\ e.role = RoleOf[prompt]
      BY DEF Event, Role
    <3>2. Emit(e, Checks)
      BY <2>1
    <3> HIDE DEF e
    <3>3. NewId \in DOMAIN log' /\ log'[NewId] = e
      BY <3>2, Appended
    <3>4. ids'.exit = NewId
      BY <2>1, IdTypes DEF IdNames
    <3> QED
      BY <3>1, <3>3, <3>4
  <2>4. pc' = Checks => Phase' = Phase /\ Rooted'
    BY <1>1, <2>1, <2>2, <2>3 DEF Phase, At, Prompted, Prompts, Rooted
  <2> QED
    BY <2>1, <2>2, <2>4, EmitStays
<1>5. ASSUME OutputsVerified PROVE OutKept
  <2>1. /\ Emit(Event("output_verified", Role, FALSE, ids.exit, CurrentAttempt), AfterOutputs)
        /\ Same /\ UNCHANGED <<attempt, passed>> /\ pc = "outputs"
        /\ ids' = [ids EXCEPT !.verified = NewId]
        /\ prompt' = IF prompt = "turn_d_13q" THEN "turn_d_review" ELSE prompt
    BY <1>5 DEF OutputsVerified
  <2>2. /\ AfterOutputs \in {"auditA", "dispatch", "auditD", "verdict"}
        /\ prompt = "turn_d_13q" => AfterOutputs = "dispatch"
        /\ prompt = "turn_a_spec" => AfterOutputs = "auditA"
        /\ prompt = "turn_d_build" => AfterOutputs = "auditD"
        /\ prompt \in {"turn_d_review", "turn_e_eval"} => AfterOutputs = "verdict"
    BY <1>1, <2>1 DEF AfterOutputs, Prompts, Prompted
  <2>3. ids'.exit \in DOMAIN log' /\ log'[ids'.exit].type = "agent_exited" /\ log'[ids'.exit].role = RoleOf[prompt]
    <3>1. ids'.exit = ids.exit
      BY <2>1, IdTypes DEF IdNames
    <3>2. ids.exit \in DOMAIN log /\ log[ids.exit].type = "agent_exited" /\ log[ids.exit].role = RoleOf[prompt]
      BY <2>1 DEF OutRun, Rooted
    <3> QED
      BY <2>1, <3>1, <3>2, Appended
  <2>4. pc' = AfterOutputs => Phase' = Phase
    BY <1>1, <2>1, <2>2 DEF Phase, At, Prompted, Prompts
  <2>5. pc' = AfterOutputs => Rooted'
    BY <1>1, <2>1, <2>2, <2>3 DEF Prompted, Prompts, Rooted
  <2> QED
    BY <2>1, <2>2, <2>4, <2>5, EmitStays
<1> QED
  BY <1>2, <1>3, <1>4, <1>5

\* The checks that go well emit nothing.
LEMMA ChecksKeep ==
  TypeInv /\ OutRun /\ (VersionMatches \/ EvidenceHolds) => OutKept
<1> SUFFICES ASSUME TypeInv, OutRun, VersionMatches \/ EvidenceHolds PROVE OutKept
  OBVIOUS
<1>1. /\ Same /\ UNCHANGED <<log, status, ids, prompt, attempt, passed>>
      /\ pc \in {"version", "evidence"} /\ pc' \in {"outputs", "evidence"}
  BY DEF VersionMatches, EvidenceHolds, Go, control
<1>2. prompt \in Prompts
  BY <1>1 DEF TypeInv, Places, Prompted
<1>3. Phase' = Phase
  BY <1>1, <1>2 DEF Phase, At, Prompted, Prompts
<1>4. Rooted'
  BY <1>1 DEF OutRun, Rooted
<1> QED
  BY <1>1, <1>3, <1>4, SilentStays DEF Alive, Going

\* The steps after which the run has only to record that it failed, or has ended.
LEMMA FailingKeeps ==
  TypeInv /\ OutRun
    /\ \/ PreflightFails \/ RefusePrompt \/ AgentFails
       \/ VersionDiffers \/ EvidenceFails \/ OutputsRefused \/ ReviewUnreadable
  => OutKept
<1> SUFFICES ASSUME TypeInv, OutRun PROVE
      PreflightFails \/ RefusePrompt \/ AgentFails \/ VersionDiffers \/ EvidenceFails \/ OutputsRefused \/ ReviewUnreadable
        => OutKept
  OBVIOUS
<1> USE DEF VerdictTypes, TerminalTypes, Alive, Going
<1>1. ASSUME PreflightFails PROVE OutKept
  <2>1. /\ Emit(Event("preflight_passed", "orchestrator", TRUE, RunStarted, 0), "failing")
        /\ Same /\ attempt' = attempt /\ pc = "preflight"
    BY <1>1 DEF PreflightFails, control
  <2> QED
    BY <2>1, EmitLeaves
<1>2. ASSUME RefusePrompt PROVE OutKept
  <2>1. /\ Emit(Event("prompt_rendered", Role, TRUE, ids.turn, CurrentAttempt), "failing")
        /\ Same /\ attempt' = attempt /\ pc = "dispatch"
    BY <1>2 DEF RefusePrompt, control
  <2> QED
    BY <2>1, EmitLeaves
<1>3. ASSUME AgentFails PROVE OutKept
  <2>1. PICK type \in {"agent_exited", "timeout_triggered"} :
          Emit(Event(type, Role, TRUE, ids.invoked, CurrentAttempt), "failing")
    BY <1>3 DEF AgentFails
  <2>2. Same /\ attempt' = attempt /\ pc = "wait"
    BY <1>3 DEF AgentFails, control
  <2> QED
    BY <2>1, <2>2, EmitLeaves
<1>4. ASSUME VersionDiffers \/ EvidenceFails \/ OutputsRefused \/ ReviewUnreadable PROVE OutKept
  <2>1. PICK at \in {"version", "evidence", "outputs", "verdict"} : Refuted(at)
    BY <1>4 DEF VersionDiffers, EvidenceFails, OutputsRefused, ReviewUnreadable
  <2>2. /\ Emit(Event("output_verified", Role, TRUE, ids.exit, CurrentAttempt), "failing")
        /\ Same /\ attempt' = attempt /\ pc = at
    BY <2>1 DEF Refuted, control
  <2> QED
    BY <2>2, EmitLeaves
<1> QED
  BY <1>1, <1>2, <1>3, <1>4

\* The steps after which a run only fails, or is dead.
LEMMA QuitsKeep ==
  TypeInv /\ OutRun
    /\ \/ Kill /\ pc \in Going
       \/ VersionUnreadable \/ BCInputMissing \/ DInputMissing \/ EInputMissing
       \/ PlanMissing \/ NotConverged \/ AuditDFails
  => OutKept
<1> SUFFICES ASSUME TypeInv, OutRun,
                    \/ Kill /\ pc \in Going
                    \/ VersionUnreadable \/ BCInputMissing \/ DInputMissing \/ EInputMissing
                    \/ PlanMissing \/ NotConverged \/ AuditDFails
             PROVE  OutKept
  OBVIOUS
<1>1. CASE (Kill /\ pc \in Going) \/ VersionUnreadable \/ BCInputMissing \/ DInputMissing \/ EInputMissing
  <2>1. Same /\ UNCHANGED <<log, status, attempt>> /\ pc \in Going /\ pc' \in {"failing", "killed", "crashed"}
    BY <1>1 DEF Kill, VersionUnreadable, BCInputMissing, DInputMissing, EInputMissing, MissingInput, Go, control, Alive, Going
  <2> QED
    BY <2>1, SilentLeaves
<1>2. CASE PlanMissing \/ NotConverged
  <2>1. Same /\ UNCHANGED <<log, status, attempt>> /\ pc \in Going /\ pc' = "failing"
    BY <1>2 DEF PlanMissing, NotConverged, Go, control, Alive, Going
  <2> QED
    BY <2>1, SilentLeaves
<1>3. CASE AuditDFails
  <2>1. Same /\ UNCHANGED <<log, status, attempt>> /\ pc \in Going /\ pc' = "failing"
    BY <1>3 DEF AuditDFails, Audit, Go, control, Alive, Going
  <2> QED
    BY <2>1, SilentLeaves
<1> QED
  BY <1>1, <1>2, <1>3

\* The turns begin and end within the part of the loop they are in.
LEMMA TurnsKeep ==
  TypeInv /\ RunInv /\ OutRun
    /\ (PreflightPasses \/ StartBC \/ StartD \/ CompleteD \/ StartE \/ CompleteE \/ HashInputs \/ AuditA)
  => OutKept
<1> SUFFICES ASSUME TypeInv, RunInv, OutRun PROVE
      PreflightPasses \/ StartBC \/ StartD \/ CompleteD \/ StartE \/ CompleteE \/ HashInputs \/ AuditA => OutKept
  OBVIOUS
<1> USE DEF VerdictTypes, TerminalTypes, Alive, Going
<1>1. ASSUME PreflightPasses PROVE OutKept
  <2>1. /\ Emit(Event("preflight_passed", "orchestrator", FALSE, RunStarted, 0), "prepare")
        /\ Same /\ UNCHANGED <<attempt, passed>> /\ pc = "preflight"
    BY <1>1 DEF PreflightPasses, control
  <2>2. pc' = "prepare" => Phase' = Phase /\ Rooted'
    BY <2>1 DEF Phase, At, Prompted, Rooted
  <2> QED
    BY <2>1, <2>2, EmitStays
<1>2. ASSUME StartBC PROVE OutKept
  <2>1. /\ Emit(Event("turn_started", "holdout-agent", FALSE, RunStarted, 1), "inBC")
        /\ Same /\ UNCHANGED <<attempt, passed>> /\ pc = "startBC" /\ ids' = [ids EXCEPT !.turn = NewId]
    BY <1>2 DEF StartBC, control
  <2>2. ids'.turn \in DOMAIN log' /\ log'[ids'.turn].type = "turn_started"
    <3> DEFINE e == Event("turn_started", "holdout-agent", FALSE, RunStarted, 1)
    <3>1. e.type = "turn_started" /\ Emit(e, "inBC")
      BY <2>1 DEF Event
    <3> HIDE DEF e
    <3>2. NewId \in DOMAIN log' /\ log'[NewId] = e /\ ids'.turn = NewId
      BY <2>1, <3>1, Appended, IdTypes DEF IdNames
    <3> QED
      BY <3>1, <3>2
  <2>3. pc' = "inBC" => Phase' = Phase /\ Rooted'
    BY <2>1, <2>2 DEF Phase, At, Prompted, Rooted
  <2> QED
    BY <2>1, <2>3, EmitStays
<1>3. ASSUME StartD PROVE OutKept
  <2>1. /\ Emit(Event("turn_started", "builder", FALSE, ParentOfD, attempt + 1), "attempt")
        /\ Same /\ UNCHANGED <<attempt, passed>> /\ pc = "startD"
    BY <1>3 DEF StartD, control
  <2>2. pc' = "attempt" => Phase' = Phase /\ Rooted'
    BY <2>1 DEF Phase, At, Prompted, Rooted
  <2> QED
    BY <2>1, <2>2, EmitStays
<1>4. ASSUME CompleteD PROVE OutKept
  <2>1. /\ Emit(Event("turn_completed", "builder", FALSE, ids.decision, attempt), "startE")
        /\ Same /\ UNCHANGED <<attempt, passed>> /\ pc = "auditD"
    BY <1>4 DEF CompleteD, control
  <2>2. pc' = "startE" => Phase' = Phase /\ Rooted'
    BY <2>1 DEF Phase, At, Prompted, Rooted
  <2> QED
    BY <2>1, <2>2, EmitStays
<1>5. ASSUME StartE PROVE OutKept
  <2>1. PICK p : Emit(Event("turn_started", "evaluator", FALSE, p, attempt), "hash")
    BY <1>5 DEF StartE
  <2>2. Same /\ UNCHANGED <<attempt, passed>> /\ pc = "startE"
    BY <1>5 DEF StartE
  <2>3. pc' = "hash" => Phase' = Phase /\ Rooted'
    BY <2>2 DEF Phase, At, Prompted, Rooted
  <2>4. "turn_started" \notin VerdictTypes \cup TerminalTypes /\ "hash" \in Going \ {"escalate", "startA"} /\ pc \in Going
    BY <2>2
  <2> HIDE DEF VerdictTypes, TerminalTypes, Alive, Going
  <2> QED
    BY <2>1, <2>2, <2>3, <2>4, EmitStays
<1>6. ASSUME CompleteE PROVE OutKept
  <2>1. /\ Emit(Event("turn_completed", "evaluator", FALSE, ids.decision, attempt), "converge")
        /\ Same /\ UNCHANGED <<attempt, passed>> /\ pc = "auditE"
    BY <1>6 DEF CompleteE, control
  <2>2. pc' = "converge" => Phase' = Phase /\ Rooted'
    BY <2>1 DEF Phase, At, Prompted, Rooted
  <2> QED
    BY <2>1, <2>2, EmitStays
<1>7. ASSUME HashInputs PROVE OutKept
  <2>1. /\ Same /\ UNCHANGED <<log, status, attempt, passed, prompt>> /\ pc = "hash" /\ pc' \in {"crashed", "dispatch"}
        /\ prompt = "turn_e_eval"
    BY <1>7 DEF HashInputs, Go, control, TypeInv, Places
  <2>2. pc' = "dispatch" => Phase' = Phase /\ Rooted'
    BY <2>1 DEF Phase, At, Prompted, Rooted
  <2> QED
    BY <2>1, <2>2, SilentStays, SilentLeaves
<1>8. ASSUME AuditA PROVE OutKept
  <2>1. /\ Same /\ UNCHANGED <<log, status, attempt, passed, prompt>> /\ pc = "auditA"
        /\ pc' \in {"startBC", "checkpointA", "failing"} \/ (pc' = "aborted" /\ mode = "headless")
    <3>1. mode \in AllModes
      BY PipelineAssumption DEF TypeInv, TypeOK, RunTypes
    <3> QED
      BY <1>8, <3>1 DEF AuditA, Audit, AfterCheckpoint, Go, control, AllModes
  <2>2. pc' \in {"startBC", "checkpointA"} => Phase' = Phase /\ Rooted'
    BY <2>1 DEF Phase, At, Prompted, Rooted
  <2> QED
    BY <2>1, <2>2, SilentStays, SilentLeaves
<1> QED
  BY <1>1, <1>2, <1>3, <1>4, <1>5, <1>6, <1>7, <1>8

\* A step that begins no attempt and says nothing, to a part of the loop that
\* knows no more than the one before.
LEMMA MovesOn ==
  ASSUME TypeInv, OutRun, Same, Quiet, attempt' = attempt, pc \in Going,
         pc' \in Going \ {"escalate", "startA", "inBC", "version", "evidence", "outputs", "verdict"},
         Projectable(log'), Open', status'.state \in {"running", "retrying"}, Counted', Ruled', Spent'
  PROVE  OutKept
<1>1. Sound' /\ Rooted'
  BY DEF Sound, Rooted
<1>2. pc' \notin {"completed", "aborted", "crashed", "killed", "unwindBC"} /\ Outcome = "open" /\ Outcome' = "open"
  BY Running, RunningNext
<1>3. RunOutcome'
  BY <1>2, OngoingIs DEF RunOutcome, BudgetSpent
<1>4. UNCHANGED Loop!vars
  BY <1>2, LoopStands DEF Loop!vars
<1> QED
  BY <1>1, <1>3, <1>4 DEF OutKept, OutRun

\* From what precedes Turn D into the loop.
LEMMA EnterKeeps ==
  ASSUME TypeInv, OutRun, Same, UNCHANGED <<log, status, attempt, passed>>, Phase = "early", pc \in Going, pc' = "startD"
  PROVE  OutKept
<1>1. Quiet /\ Projectable(log') /\ Open' /\ status'.state \in {"running", "retrying"}
  BY SilentFacts
<1>2. Phase' = "between" /\ pc' \in Going
  BY DEF Phase, At, Prompted, Alive, Going
<1>3. /\ attempt = Base /\ from # "E" /\ Base' = Base /\ from' = from /\ Base \in Nat
  BY BaseKept DEF OutRun, Counted
<1>4. Counted'
  BY <1>2, <1>3 DEF Counted
<1>5. Ruled'
  <2>1. \A w, f, n : ~RuledOn(w, f, n)
    BY DEF OutRun, Ruled
  <2> QED
    BY <1>1, <1>2, <2>1 DEF Ruled, Quiet
<1>6. Spent'
  <2>1. \A n \in Nat : ReviewedOn(n) <=> n > Base /\ n <= attempt
    BY <1>3 DEF OutRun, Spent
  <2> QED
    BY <1>1, <1>2, <1>3, <2>1 DEF Spent, Quiet
<1> QED
  BY <1>1, <1>2, <1>4, <1>5, <1>6, MovesOn

\* The checkpoints, passed by a human or not.
LEMMA CheckpointsKeep ==
  TypeInv /\ RunInv /\ OutRun /\ (HumanContinues \/ AuditBC) => OutKept
<1> SUFFICES ASSUME TypeInv, OutRun, HumanContinues \/ AuditBC PROVE OutKept
  OBVIOUS
<1>1. /\ Same /\ UNCHANGED <<log, status, attempt, passed, prompt>> /\ pc \in {"checkpointA", "checkpointBC", "auditBC"}
      /\ \/ pc' \in {"startBC", "checkpointBC", "startD", "failing"}
         \/ pc' = "aborted" /\ mode = "headless"
  <2>1. mode \in AllModes
    BY PipelineAssumption DEF TypeInv, TypeOK, RunTypes
  <2> QED
    BY <2>1 DEF HumanContinues, AuditBC, Audit, AfterCheckpoint, Go, control, AllModes
<1>2. pc \in Going /\ Phase = "early"
  BY <1>1 DEF Alive, Going, Phase, At, Prompted
<1>3. pc' \in {"startBC", "checkpointBC"} => Phase' = Phase /\ Rooted'
  BY <1>1 DEF Phase, At, Prompted, Rooted
<1> QED
  BY <1>1, <1>2, <1>3, SilentStays, SilentLeaves, EnterKeeps DEF Alive, Going

\* Turn B/C, of whose events none is a judge's.
LEMMA TurnBCKeeps ==
  TypeInv /\ OutRun /\ TurnBCPasses => OutKept
<1> SUFFICES ASSUME TypeInv, OutRun, TurnBCPasses PROVE OutKept
  OBVIOUS
<1> DEFINE n == Len(log)
           c == Chain
<1>1. /\ pc = "inBC" /\ pc' = "auditBC" /\ Same /\ UNCHANGED <<attempt, passed, prompt>>
      /\ log' = log \o c /\ status'.state = "running"
  BY DEF TurnBCPasses, control
<1>2. /\ Projectable(log) /\ Open /\ ids.turn \in DOMAIN log /\ log[ids.turn].type = "turn_started"
      /\ log \in Seq(PipelineEvents) /\ n \in Nat /\ DOMAIN log = 1 .. n
      /\ \A i \in 1 .. n : log[i] \in PipelineEvents
  <2>1. log \in Seq(PipelineEvents)
    BY DEF TypeInv, TypeOK, LogTypes
  <2>2. Projectable(log) /\ Open /\ ids.turn \in DOMAIN log /\ log[ids.turn].type = "turn_started"
    BY <1>1 DEF OutRun, Sound, Rooted, Alive, Going
  <2> QED
    BY <2>1, <2>2, LenProperties, ElementOfSeq
<1>3. /\ c[1].type = "prompt_rendered" /\ c[2].type = "agent_invoked"
      /\ c[3].type = "agent_exited" /\ c[4].type = "output_verified"
      /\ c[1].parent = ids.turn /\ c[2].parent = n + 1 /\ c[3].parent = n + 2 /\ c[4].parent = n + 3
      /\ c[1].ts = 0 /\ c[2].ts = 0 /\ c[3].ts = 0 /\ c[4].ts = 0
  BY <1>2 DEF Chain, EventBC, Event, NewId
<1>4. c \in Seq(PipelineEvents) /\ Len(c) = 4
  BY ChainTypes
<1> HIDE DEF n, c
<1>5. /\ log \o c \in Seq(PipelineEvents) /\ Len(log \o c) = n + 4
      /\ \A i \in 1 .. n + 4 : (log \o c)[i] = IF i <= n THEN log[i] ELSE c[i - n]
  <2>1. log \in Seq(PipelineEvents)
    BY <1>2
  <2>2. /\ log \o c \in Seq(PipelineEvents) /\ Len(log \o c) = Len(log) + Len(c)
        /\ \A i \in 1 .. Len(log) + Len(c) : (log \o c)[i] = IF i <= Len(log) THEN log[i] ELSE c[i - Len(log)]
    BY <1>4, <2>1, ConcatProperties
  <2>3. Len(log) = n /\ Len(c) = 4
    BY <1>4 DEF n
  <2> QED
    BY <2>2, <2>3
<1>6. DOMAIN log' = 1 .. n + 4 /\ Len(log') = n + 4
  BY <1>1, <1>2, <1>5, LenProperties
<1>7. \A i \in 1 .. n : log'[i] = log[i] /\ log[i].ts = 0
  BY <1>1, <1>2, <1>5 DEF PipelineEvents
<1>8. log'[n + 1] = c[1] /\ log'[n + 2] = c[2] /\ log'[n + 3] = c[3] /\ log'[n + 4] = c[4]
  <2>1. \A k \in 1 .. 4 : log'[n + k] = c[k]
    <3> SUFFICES ASSUME NEW k \in 1 .. 4 PROVE log'[n + k] = c[k]
      OBVIOUS
    <3> DEFINE m == n + k
    <3>1. m \in 1 .. n + 4 /\ ~(m <= n) /\ m - n = k
      BY <1>2
    <3> HIDE DEF m
    <3>2. log'[m] = c[m - n]
      BY <1>1, <1>5, <3>1
    <3> QED
      BY <3>1, <3>2 DEF m
  <2> QED
    BY <2>1
<1>9. \A i \in 1 .. n + 4 : i \in 1 .. n \/ i \in {n + 1, n + 2, n + 3, n + 4}
  BY <1>2
<1>10. /\ \A i \in 1 .. n + 4 : log'[i].ts = 0
       /\ \A i \in 1 .. n + 4 : log'[i].type \notin TerminalTypes
       /\ \A i \in {n + 1, n + 2, n + 3, n + 4} : log'[i].type \notin VerdictTypes
  BY <1>2, <1>3, <1>7, <1>8, <1>9 DEF Open, TerminalTypes, VerdictTypes
<1>11. Projectable(log')
  <2>1. \A i \in 1 .. n : validate_parent(log', i) /\ NotAfterTerminal(log', i)
    BY <1>2, <1>6, <1>7, <1>10, PrefixLegal
  <2>2. ASSUME NEW i \in {n + 1, n + 2, n + 3, n + 4} PROVE validate_parent(log', i) /\ NotAfterTerminal(log', i)
    <3>1. i \in 1 .. n + 4 /\ n + 4 \in Nat
      BY <1>2
    <3>2. /\ log'[i].parent \in 1 .. i - 1
          /\ log'[log'[i].parent].type \in PARENT_RULES[log'[i].type]
          /\ log'[i].type \in {"prompt_rendered", "agent_invoked", "agent_exited", "output_verified"}
      <4>1. /\ "turn_started" \in PARENT_RULES["prompt_rendered"] /\ "prompt_rendered" \in PARENT_RULES["agent_invoked"]
            /\ "agent_invoked" \in PARENT_RULES["agent_exited"] /\ "agent_exited" \in PARENT_RULES["output_verified"]
        BY DEF PARENT_RULES
      <4>2. log'[ids.turn].type = "turn_started" /\ ids.turn \in 1 .. n
        BY <1>2, <1>7
      <4>3. CASE i = n + 1
        BY <1>2, <1>3, <1>8, <4>1, <4>2, <4>3
      <4>4. CASE i = n + 2
        BY <1>2, <1>3, <1>8, <4>1, <4>4
      <4>5. CASE i = n + 3
        BY <1>2, <1>3, <1>8, <4>1, <4>5
      <4>6. CASE i = n + 4
        BY <1>2, <1>3, <1>8, <4>1, <4>6
      <4> QED
        BY <4>3, <4>4, <4>5, <4>6
    <3>3. ParentFits(log'[i], log'[log'[i].parent])
      BY <3>2 DEF ParentFits
    <3>4. \A j \in 1 .. n + 4 : j < i => log'[j].type \notin TerminalTypes
      BY <1>10
    <3> QED
      BY <1>6, <1>10, <3>1, <3>2, <3>3, <3>4, Fits
  <2> QED
    BY <1>6, <1>9, <2>1, <2>2 DEF Projectable
<1>12. Open'
  BY <1>6, <1>10 DEF Open
<1>13. Quiet
  <2>1. \A i : i \in DOMAIN log' /\ log'[i].type \in VerdictTypes <=> i \in DOMAIN log /\ log[i].type \in VerdictTypes
    BY <1>2, <1>6, <1>7, <1>9, <1>10
  <2>2. "review_verdict_recorded" \in VerdictTypes
    BY DEF VerdictTypes
  <2>3. \A i \in DOMAIN log : log'[i] = log[i]
    BY <1>2, <1>7
  <2>4. \A w, f, m : RuledOn(w, f, m)' <=> RuledOn(w, f, m)
    BY <2>1, <2>3 DEF RuledOn
  <2>5. \A m : ReviewedOn(m)' <=> ReviewedOn(m)
    BY <2>1, <2>2, <2>3 DEF ReviewedOn
  <2> QED
    BY <2>4, <2>5 DEF Quiet
<1>14. pc \in Going /\ pc' \in Going /\ Phase' = Phase /\ Rooted'
  BY <1>1 DEF Alive, Going, Phase, At, Prompted, Rooted
<1>15. pc' # "escalate" /\ pc' # "startA" /\ status'.state \in {"running", "retrying"}
  BY <1>1
<1> QED
  BY <1>1, <1>11, <1>12, <1>13, <1>14, <1>15, StaysIn

\* The elements of two sequences put together.
LEMMA Joined ==
  ASSUME NEW S, NEW a \in Seq(S), NEW b \in Seq(S)
  PROVE  /\ DOMAIN (a \o b) = 1 .. Len(a) + Len(b)
         /\ \A i \in 1 .. Len(a) : (a \o b)[i] = a[i]
         /\ \A i \in 1 .. Len(b) : (a \o b)[Len(a) + i] = b[i]
<1>1. /\ a \o b \in Seq(S) /\ Len(a \o b) = Len(a) + Len(b) /\ Len(a) \in Nat /\ Len(b) \in Nat
      /\ \A i \in 1 .. Len(a) + Len(b) : (a \o b)[i] = IF i <= Len(a) THEN a[i] ELSE b[i - Len(a)]
  BY ConcatProperties, LenProperties
<1>2. DOMAIN (a \o b) = 1 .. Len(a) + Len(b)
  BY <1>1, LenProperties
<1>3. ASSUME NEW i \in 1 .. Len(b) PROVE (a \o b)[Len(a) + i] = b[i]
  <2> DEFINE m == Len(a) + i
  <2>1. m \in 1 .. Len(a) + Len(b) /\ ~(m <= Len(a)) /\ m - Len(a) = i
    BY <1>1
  <2> HIDE DEF m
  <2>2. (a \o b)[m] = b[m - Len(a)]
    BY <1>1, <2>1
  <2> QED
    BY <2>1, <2>2 DEF m
<1> QED
  BY <1>1, <1>2, <1>3

\* What a failing Turn B/C adds to a log says nothing of a judge's.
LEMMA StillQuiet ==
  ASSUME DOMAIN log \subseteq DOMAIN log', \A i \in DOMAIN log : log'[i] = log[i],
         \A i \in DOMAIN log' : i \in DOMAIN log \/ log'[i].type \notin VerdictTypes
  PROVE  Quiet
<1>1. "review_verdict_recorded" \in VerdictTypes
  BY DEF VerdictTypes
<1>2. \A w, f, m : RuledOn(w, f, m)' <=> RuledOn(w, f, m)
  BY DEF RuledOn
<1>3. \A m : ReviewedOn(m)' <=> ReviewedOn(m)
  BY <1>1 DEF ReviewedOn
<1> QED
  BY <1>2, <1>3 DEF Quiet

\* A step with which Turn B/C fails, or goes on failing, leaves the loop where it is.
LEMMA Unwinds ==
  ASSUME pc \in {"inBC", "unwindBC"}, pc' = "unwindBC", Same, UNCHANGED control, Quiet, FailedInBC'
  PROVE  OutKept
<1>1. Phase' = "off" /\ pc' \notin Going /\ pc' \in Alive /\ pc \in Alive
  BY DEF Phase, At, Prompted, Going, Alive
<1>2. Sound' /\ Rooted'
  BY <1>1 DEF Sound, Rooted
<1>3. Counted' /\ Ruled' /\ Spent'
  BY <1>1, OffKeeps
<1>4. RunOutcome'
  BY <1>1 DEF RunOutcome, BudgetSpent
<1>5. UNCHANGED Loop!vars
  <2>1. Outcome = "open" /\ Outcome' = "open"
    BY <1>1 DEF Outcome
  <2> QED
    BY <2>1, LoopStands DEF Loop!vars, control
<1> QED
  BY <1>2, <1>3, <1>4, <1>5 DEF OutKept, OutRun

\* The event that stands for each way in which a log gets longer.
LEMMA Longer ==
  ASSUME TypeInv, NEW e \in PipelineEvents, log' = Append(log, e)
  PROVE  /\ DOMAIN log \subseteq DOMAIN log' /\ \A i \in DOMAIN log : log'[i] = log[i]
         /\ NewId \in DOMAIN log' /\ 0 \notin DOMAIN log' /\ log'[NewId] = e
         /\ \A i \in DOMAIN log' : i \in DOMAIN log \/ log'[i] = e
<1> DEFINE longer == Append(log, e)
<1>1. log \in Seq(PipelineEvents) /\ Len(log) \in Nat /\ DOMAIN log = 1 .. Len(log)
  BY LenProperties DEF TypeInv, TypeOK, LogTypes
<1>2. /\ longer \in Seq(PipelineEvents) /\ Len(longer) = Len(log) + 1
      /\ \A i \in 1 .. Len(log) : longer[i] = log[i]
      /\ longer[Len(log) + 1] = e
  BY <1>1, AppendProperties
<1>3. log' = longer
  OBVIOUS
<1> HIDE DEF longer
<1>4. DOMAIN longer = 1 .. Len(log) + 1
  BY <1>2, LenProperties
<1> QED
  BY <1>1, <1>2, <1>3, <1>4 DEF NewId

\* Turn B/C fails before any judge has spoken: with the end of the run in the log, or with
\* an event in it that has no parent.
LEMMA TurnBCFailsOut ==
  TypeInv /\ OutRun /\ TurnBCFails => OutKept
<1> SUFFICES ASSUME TypeInv, OutRun, TurnBCFails PROVE OutKept
  OBVIOUS
<1>1. pc = "inBC" /\ pc' = "unwindBC" /\ Same /\ UNCHANGED control
  BY DEF TurnBCFails
<1>2. status.state \in {"running", "retrying"} /\ \A i \in DOMAIN log : log[i].type \notin VerdictTypes
  <2>1. Phase = "early" /\ pc \in Going
    BY <1>1 DEF Phase, At, Prompted, Going
  <2>2. \A w, f, n : ~RuledOn(w, f, n)
    BY <2>1 DEF OutRun, Ruled
  <2> QED
    BY <2>1, <2>2 DEF OutRun, Sound, RuledOn
<1>3. CASE /\ log' = log \o <<EventBC("prompt_rendered", TRUE, ids.turn),
                              Event("run_failed", "orchestrator", TRUE, NewId, AttemptBC)>>
           /\ status' = [status EXCEPT !.state = "failed", !.attempt = AttemptBC]
  <2> DEFINE rendered == EventBC("prompt_rendered", TRUE, ids.turn)
             failed == Event("run_failed", "orchestrator", TRUE, NewId, AttemptBC)
             ends == <<rendered, failed>>
  <2>1. rendered \in PipelineEvents /\ failed \in PipelineEvents
    BY EventBCTypes, EventTypes, EventNames, RoleNames
  <2>2. rendered.type = "prompt_rendered" /\ failed.type = "run_failed"
    BY DEF EventBC, Event
  <2>3. log' = log \o ends
    BY <1>3
  <2> HIDE DEF rendered, failed
  <2>4. ends \in Seq(PipelineEvents) /\ Len(ends) = 2 /\ ends[1] = rendered /\ ends[2] = failed
    BY <2>1
  <2> HIDE DEF ends
  <2>5. log \in Seq(PipelineEvents) /\ Len(log) \in Nat /\ DOMAIN log = 1 .. Len(log)
    BY LenProperties DEF TypeInv, TypeOK, LogTypes
  <2>6. /\ DOMAIN log' = 1 .. Len(log) + 2
        /\ \A i \in 1 .. Len(log) : log'[i] = log[i]
        /\ \A i \in 1 .. 2 : log'[Len(log) + i] = ends[i]
    <3> DEFINE longer == log \o ends
    <3>1. log \in Seq(PipelineEvents) /\ ends \in Seq(PipelineEvents)
      BY <2>4, <2>5
    <3>2. /\ DOMAIN longer = 1 .. Len(log) + Len(ends)
          /\ \A i \in 1 .. Len(log) : longer[i] = log[i]
          /\ \A i \in 1 .. Len(ends) : longer[Len(log) + i] = ends[i]
      BY <3>1, Joined
    <3>3. log' = longer /\ Len(ends) = 2
      BY <2>3, <2>4
    <3> HIDE DEF longer
    <3> QED
      BY <3>2, <3>3
  <2>7. log'[Len(log) + 1] = rendered /\ log'[Len(log) + 2] = failed
    <3>1. 1 \in 1 .. 2 /\ 2 \in 1 .. 2
      OBVIOUS
    <3> QED
      BY <2>4, <2>6, <3>1
  <2>8. /\ DOMAIN log \subseteq DOMAIN log' /\ \A i \in DOMAIN log : log'[i] = log[i]
        /\ \A i \in DOMAIN log' : i \in DOMAIN log \/ log'[i] \in {rendered, failed}
        /\ \E i \in DOMAIN log' : log'[i] = failed
    BY <2>5, <2>6, <2>7
  <2>9. \A i \in DOMAIN log' : i \in DOMAIN log \/ log'[i].type \notin VerdictTypes
    BY <2>2, <2>8 DEF VerdictTypes
  <2>10. Quiet
    BY <2>8, <2>9, StillQuiet
  <2>11. status'.state = "failed"
    BY <1>3 DEF TypeInv, TypeOK, LogTypes
  <2>12. \A i \in DOMAIN log' : log'[i].type \notin VerdictTypes
    BY <1>2, <2>8, <2>9
  <2>13. FailedInBC'
    BY <2>2, <2>8, <2>11, <2>12 DEF FailedInBC, VerdictTypes
  <2> QED
    BY <1>1, <2>10, <2>13, Unwinds
<1>4. CASE log' = Append(log, EventBC("output_verified", FALSE, 0)) /\ status' = status
  <2> DEFINE stray == EventBC("output_verified", FALSE, 0)
  <2>1. stray \in PipelineEvents /\ stray.type = "output_verified" /\ stray.parent = 0
    <3>1. stray \in PipelineEvents
      BY EventBCTypes, EventNames
    <3> QED
      BY <3>1 DEF EventBC, Event
  <2>2. log' = Append(log, stray)
    BY <1>4
  <2> HIDE DEF stray
  <2>3. /\ DOMAIN log \subseteq DOMAIN log' /\ \A i \in DOMAIN log : log'[i] = log[i]
        /\ NewId \in DOMAIN log' /\ log'[NewId] = stray
        /\ \A i \in DOMAIN log' : i \in DOMAIN log \/ log'[i] = stray
    BY <2>1, <2>2, Longer
  <2>4. \A i \in DOMAIN log' : i \in DOMAIN log \/ log'[i].type \notin VerdictTypes
    BY <2>1, <2>3 DEF VerdictTypes
  <2>5. Quiet
    BY <2>3, <2>4, StillQuiet
  <2>6. 0 \notin DOMAIN log'
    BY <2>1, <2>2, Longer
  <2>7. ~Projectable(log')
    <3>1. PARENT_RULES["output_verified"] # {}
      BY DEF PARENT_RULES
    <3>2. ~validate_parent(log', NewId)
      BY <2>1, <2>3, <2>6, <3>1 DEF validate_parent
    <3> QED
      BY <2>3, <3>2 DEF Projectable
  <2>8. \A i \in DOMAIN log' : log'[i].type \notin VerdictTypes
    BY <1>2, <2>3, <2>4
  <2>9. FailedInBC'
    BY <1>2, <1>4, <2>7, <2>8 DEF FailedInBC, VerdictTypes
  <2> QED
    BY <1>1, <2>5, <2>9, Unwinds
<1> QED
  BY <1>3, <1>4 DEF TurnBCFails

\* The other thread puts an older status back, or an event behind the end.
LEMMA TurnBCLingersOut ==
  TypeInv /\ OutRun /\ TurnBCLingers => OutKept
<1> SUFFICES ASSUME TypeInv, OutRun, TurnBCLingers PROVE OutKept
  OBVIOUS
<1>1. pc = "unwindBC" /\ pc' = "unwindBC" /\ Same /\ UNCHANGED control /\ Projectable(log)
  BY DEF TurnBCLingers
<1>2. /\ \E i \in DOMAIN log : log[i].type = "run_failed"
      /\ \A i \in DOMAIN log : log[i].type \notin VerdictTypes
      /\ status.state \in {"failed", "running", "retrying"}
  BY <1>1 DEF OutRun, RunOutcome, FailedInBC, VerdictTypes
<1>3. CASE status' = [status EXCEPT !.state = "running"] /\ log' = log
  <2>1. status'.state = "running"
    BY <1>3 DEF TypeInv, TypeOK, LogTypes
  <2>2. FailedInBC'
    BY <1>2, <1>3, <2>1 DEF FailedInBC, VerdictTypes
  <2>3. Quiet
    BY <1>3, StillQuiet
  <2> QED
    BY <1>1, <2>2, <2>3, Unwinds
<1>4. CASE log' = Append(log, EventBC("prompt_rendered", FALSE, ids.turn)) /\ status' = status
  <2> DEFINE late == EventBC("prompt_rendered", FALSE, ids.turn)
  <2>1. late \in PipelineEvents /\ late.type = "prompt_rendered"
    <3>1. late \in PipelineEvents
      BY EventBCTypes, EventNames
    <3> QED
      BY <3>1 DEF EventBC, Event
  <2>2. log' = Append(log, late)
    BY <1>4
  <2> HIDE DEF late
  <2>3. /\ DOMAIN log \subseteq DOMAIN log' /\ \A i \in DOMAIN log : log'[i] = log[i]
        /\ \A i \in DOMAIN log' : i \in DOMAIN log \/ log'[i] = late
    BY <2>1, <2>2, Longer
  <2>4. \A i \in DOMAIN log' : i \in DOMAIN log \/ log'[i].type \notin VerdictTypes
    BY <2>1, <2>3 DEF VerdictTypes
  <2>5. Quiet
    BY <2>3, <2>4, StillQuiet
  <2>6. \E i \in DOMAIN log' : log'[i].type = "run_failed"
    BY <1>2, <2>3
  <2>7. \A i \in DOMAIN log' : log'[i].type \notin VerdictTypes
    BY <1>2, <2>3, <2>4
  <2>8. FailedInBC'
    BY <1>2, <1>4, <2>6, <2>7 DEF FailedInBC, VerdictTypes
  <2> QED
    BY <1>1, <2>5, <2>8, Unwinds
<1> QED
  BY <1>3, <1>4 DEF TurnBCLingers

\* Main is told of the failure, or the process is killed before that.
LEMMA TurnBCEndsOut ==
  OutRun /\ (TurnBCEnds \/ (Kill /\ pc = "unwindBC")) => OutKept
<1> SUFFICES ASSUME OutRun, TurnBCEnds \/ (Kill /\ pc = "unwindBC") PROVE OutKept
  OBVIOUS
<1>1. /\ pc = "unwindBC" /\ pc' \in {"aborted", "crashed", "killed"} /\ Same
      /\ UNCHANGED <<log, status, control>>
      /\ pc' = "aborted" /\ Projectable(log) => status.state = "failed"
      /\ pc' = "crashed" => ~Projectable(log)
  BY DEF TurnBCEnds, Kill
<1>2. FailedInBC
  BY <1>1 DEF OutRun, RunOutcome
<1>3. FailedInBC' /\ status'.state \in {"failed", "running", "retrying"} /\ (Projectable(log') <=> Projectable(log))
  BY <1>1, <1>2 DEF FailedInBC
<1>4. Phase' = "off" /\ pc' \notin Going /\ pc' \notin Alive /\ pc \in Alive
  BY <1>1 DEF Phase, At, Prompted, Going, Alive
<1>5. Sound' /\ Rooted'
  BY <1>1, <1>4 DEF Sound, Rooted
<1>6. Counted' /\ Ruled' /\ Spent'
  BY <1>1, <1>4, OffKeeps
<1>7. RunOutcome'
  BY <1>1, <1>3, <1>4 DEF RunOutcome, BudgetSpent
<1>8. Loop!Lose
  <2>1. Outcome = "open" /\ Outcome' = "lost"
    BY <1>1, <1>3, <1>4 DEF Outcome
  <2>2. Quiet
    BY <1>1, StillQuiet
  <2> QED
    BY <1>1, <2>1, <2>2, LoopStands DEF Loop!Lose, control
<1> QED
  BY <1>5, <1>6, <1>7, <1>8 DEF OutKept, OutRun, Loop!Next

\* record_run_failed(): the run fails, or crashes while recording it.
LEMMA FailRunOut ==
  TypeInv /\ OutRun /\ FailRun => OutKept
<1> SUFFICES ASSUME TypeInv, OutRun, FailRun PROVE OutKept
  OBVIOUS
<1>1. /\ Emit(Event("run_failed", "orchestrator", TRUE, cause, CurrentAttempt), "aborted")
      /\ Same /\ attempt' = attempt /\ pc = "failing"
  BY DEF FailRun, control
<1>2. pc \in Going
  BY <1>1 DEF Alive, Going
<1>3. \/ pc' = "crashed" /\ status' = status
      \/ pc' = "aborted" /\ status'.state = "failed"
  BY <1>1, <1>2, EmitSound DEF OutRun
<1>4. "run_failed" \notin VerdictTypes /\ status.state \in {"running", "retrying"}
  BY <1>1, <1>2 DEF VerdictTypes, OutRun, Sound
<1>5. Quiet
  BY <1>1, <1>4, Said
<1> QED
  BY <1>1, <1>2, <1>3, <1>4, <1>5, Leaves

\* complete_run(): all judges there are have approved the last try.
LEMMA CompleteRunOut ==
  TypeInv /\ RunInv /\ OutRun /\ CompleteRun => OutKept
<1> SUFFICES ASSUME TypeInv, RunInv, OutRun, CompleteRun PROVE OutKept
  OBVIOUS
<1>1. /\ Emit(Event("run_completed", "orchestrator", FALSE, ids.completed, attempt), "completed")
      /\ Same /\ attempt' = attempt /\ pc = "converge" /\ pc \in Going
  BY DEF CompleteRun, control, Alive, Going
<1>2. \/ pc' = "crashed" /\ status' = status
      \/ pc' = "completed" /\ Projectable(log') /\ status'.state = "passed"
  BY <1>1, EmitSound DEF OutRun
<1>3. "run_completed" \notin VerdictTypes /\ status.state \in {"running", "retrying"}
  BY <1>1 DEF VerdictTypes, OutRun, Sound
<1>4. Quiet
  BY <1>1, <1>3, Said
<1>5. CASE pc' = "crashed"
  BY <1>1, <1>2, <1>3, <1>4, <1>5, Leaves
<1>6. CASE pc' # "crashed"
  <2>1. Phase = "judged" /\ passed /\ run > 0
    BY <1>1, RunPositive DEF Phase, At, Prompted, RunInv, Passing
  <2>2. /\ RuledOn("reviewer", FALSE, attempt) <=> from # "E"
        /\ RuledOn("evaluator", FALSE, attempt)
        /\ ~RuledOn("reviewer", TRUE, attempt) /\ ~RuledOn("evaluator", TRUE, attempt)
    BY <2>1 DEF OutRun, Ruled
  <2>3. ~SentBack /\ Approvals = IF from # "E" THEN Judges ELSE {"evaluator"}
    BY <2>2, JudgedNow DEF Judges
  <2>4. Tries = 0 <=> from = "E"
    <3>1. from # "E" => attempt > Base
      BY <2>1 DEF OutRun, Counted
    <3>2. attempt \in Nat /\ Base \in Nat
      BY Constants, BaseKept DEF TypeInv, TypeOK, ControlTypes
    <3> QED
      BY <2>1, <3>1, <3>2, TriesAre
  <2>5. Tries' = Tries /\ Approvals' = Approvals /\ SentBack' = SentBack
    BY <1>1, <1>4, LoopStands
  <2>6. Outcome = "open" /\ Outcome' = "accepted"
    BY <1>1, <1>2, <1>6, Running DEF Outcome, Alive, Going
  <2>7. Loop!Accept
    BY <2>3, <2>4, <2>5, <2>6 DEF Loop!Accept, Loop!Judges, Judges
  <2>8. Sound' /\ Rooted' /\ RunOutcome'
    BY <1>2, <1>6 DEF Sound, Rooted, RunOutcome, BudgetSpent, Alive, Going
  <2>9. Counted' /\ Ruled' /\ Spent'
    <3>1. Phase' = "off"
      BY <1>2, <1>6 DEF Phase, At, Prompted
    <3> QED
      BY <1>2, <1>6, <3>1, OffKeeps
  <2> QED
    BY <2>7, <2>8, <2>9 DEF OutKept, OutRun, Loop!Next
<1> QED
  BY <1>5, <1>6

\* The attempts that were reviewed, counted.
LEMMA Budget ==
  ASSUME NEW l \in Seq(PipelineEvents), NEW b \in Nat, NEW a \in Nat, b <= a,
         \A n \in Nat : (\E i \in DOMAIN l : l[i].type = "review_verdict_recorded" /\ l[i].attempt = n) <=> n > b /\ n <= a
  PROVE  Cardinality({l[i].attempt : i \in {j \in DOMAIN l : l[j].type = "review_verdict_recorded"}}) = a - b
<1> DEFINE reviewed == {l[i].attempt : i \in {j \in DOMAIN l : l[j].type = "review_verdict_recorded"}}
<1>1. \A i \in DOMAIN l : l[i].attempt \in Nat
  <2>1. \A i \in DOMAIN l : l[i] \in PipelineEvents
    BY LenProperties, ElementOfSeq
  <2> QED
    BY <2>1 DEF PipelineEvents
<1>2. \A n : n \in reviewed <=> \E i \in DOMAIN l : l[i].type = "review_verdict_recorded" /\ l[i].attempt = n
  OBVIOUS
<1>3. \A n : n \in reviewed => n \in Nat
  BY <1>1
<1> HIDE DEF reviewed
<1>4. reviewed = b + 1 .. a
  <2>1. \A n \in Nat : n \in reviewed <=> n > b /\ n <= a
    BY <1>2
  <2>2. \A n : n \in b + 1 .. a <=> n \in Nat /\ n > b /\ n <= a
    OBVIOUS
  <2>3. \A n : n \in reviewed <=> n \in b + 1 .. a
    BY <1>3, <2>1, <2>2
  <2> QED
    BY <2>3
<1>5. Cardinality(b + 1 .. a) = IF b + 1 > a THEN 0 ELSE a - (b + 1) + 1
  BY FS_Interval
<1>6. (IF b + 1 > a THEN 0 ELSE a - (b + 1) + 1) = a - b
  OBVIOUS
<1> QED
  BY <1>4, <1>5, <1>6 DEF reviewed

\* record_escalation(): a judge has sent the build back, and it was the last one or
\* the budget is spent.
LEMMA EscalateOut ==
  TypeInv /\ TypeInv' /\ RunInv /\ OutRun /\ Escalate => OutKept
<1> SUFFICES ASSUME TypeInv, TypeInv', RunInv, OutRun, Escalate PROVE OutKept
  OBVIOUS
<1>1. /\ Emit(Event("escalation_triggered", "orchestrator", TRUE, ids.decision, CurrentAttempt), "aborted")
      /\ Same /\ attempt' = attempt /\ verdicts' = verdicts /\ pc \in {"escalate", "retryReview", "retryEval"} /\ pc \in Going
      /\ pc = "escalate" \/ from = "E" \/ attempt >= MaxAttempts
  BY DEF Escalate, control, disk, Alive, Going
<1>2. \/ pc' = "crashed" /\ status' = status
      \/ pc' = "aborted" /\ status'.state = "escalated"
  BY <1>1, EmitSound DEF OutRun
<1>3. "escalation_triggered" \notin VerdictTypes /\ status.state \in {"running", "retrying"}
  BY <1>1 DEF VerdictTypes, OutRun, Sound
<1>4. Quiet
  BY <1>1, <1>3, Said
<1>5. CASE pc' = "crashed"
  BY <1>1, <1>2, <1>3, <1>4, <1>5, Leaves
<1>6. CASE pc' # "crashed"
  <2>1. Phase = "sentBack" /\ SentBack
    BY <1>1 DEF Phase, At, Prompted, OutRun, Ruled
  <2>2. Loop!Refuse
    <3>1. Tries' = Tries /\ Approvals' = Approvals /\ SentBack' = SentBack
      BY <1>1, <1>4, LoopStands
    <3>2. Outcome = "open" /\ Outcome' = "refused"
      BY <1>1, <1>2, <1>6, Running DEF Outcome, Alive, Going
    <3> QED
      BY <2>1, <3>1, <3>2 DEF Loop!Refuse
  <2>3. BudgetSpent'
    <3> SUFFICES ASSUME from' # "E", verdicts'.review # "ESCALATE"
                 PROVE  Cardinality({log'[i].attempt : i \in {j \in DOMAIN log' : log'[j].type = "review_verdict_recorded"}})
                          = IF from' = "A" THEN MaxAttempts - 1 ELSE MaxAttempts
      BY DEF BudgetSpent
    <3>1. from' = from /\ Base' = Base /\ Base \in {0, 1} /\ Base = IF from = "A" THEN 1 ELSE 0
      BY <1>1, BaseKept DEF Base
    <3>2. pc # "escalate"
      BY <1>1 DEF OutRun, Spent
    <3>3. attempt = MaxAttempts /\ MaxAttempts \in Nat /\ MaxAttempts > 1
      BY <1>1, <3>1, <3>2, Constants DEF TypeInv, TypeOK, ControlTypes
    <3>4. \A n \in Nat : ReviewedOn(n) <=> n > Base /\ n <= attempt
      BY <2>1, <3>1 DEF OutRun, Spent
    <3>5. \A n \in Nat : ReviewedOn(n)' <=> n > Base /\ n <= MaxAttempts
      BY <1>4, <3>3, <3>4 DEF Quiet
    <3>6. Cardinality({log'[i].attempt : i \in {j \in DOMAIN log' : log'[j].type = "review_verdict_recorded"}})
            = MaxAttempts - Base
      <4>1. log' \in Seq(PipelineEvents)
        BY DEF TypeInv, TypeOK, LogTypes
      <4>2. \A n \in Nat : (\E i \in DOMAIN log' : log'[i].type = "review_verdict_recorded" /\ log'[i].attempt = n)
                            <=> n > Base /\ n <= MaxAttempts
        BY <3>5 DEF ReviewedOn
      <4>3. Base \in Nat /\ Base <= MaxAttempts
        BY <3>1, <3>3
      <4> QED
        BY <3>3, <4>1, <4>2, <4>3, Budget
    <3> QED
      BY <3>1, <3>3, <3>6
  <2>4. Sound' /\ Rooted' /\ RunOutcome'
    BY <1>2, <1>6, <2>3 DEF Sound, Rooted, RunOutcome, Alive, Going
  <2>5. Counted' /\ Ruled' /\ Spent'
    <3>1. Phase' = "off"
      BY <1>2, <1>6 DEF Phase, At, Prompted
    <3> QED
      BY <1>2, <1>6, <3>1, OffKeeps
  <2> QED
    BY <2>2, <2>4, <2>5 DEF OutKept, OutRun, Loop!Next
<1> QED
  BY <1>5, <1>6

\* A step from one part of the loop to another, or within it.
LEMMA GoesOn ==
  ASSUME OutRun, [Loop!Next]_(Loop!vars), pc' \in Going, Projectable(log'), Open', status'.state \in {"running", "retrying"},
         pc' \notin {"inBC", "version", "evidence", "outputs", "verdict"}, Counted', Ruled', Spent'
  PROVE  OutKept
<1>1. Sound' /\ Rooted'
  BY DEF Sound, Rooted
<1>2. pc' \notin {"completed", "aborted", "crashed", "killed", "unwindBC"}
  BY RunningNext
<1>3. RunOutcome'
  BY <1>2, OngoingIs DEF RunOutcome, BudgetSpent
<1> QED
  BY <1>1, <1>3 DEF OutKept, OutRun

\* As long as no judge has ruled on any attempt, it does not matter which is the current one.
LEMMA Unsaid ==
  ASSUME Quiet, \A w, f, n : ~RuledOn(w, f, n), attempt \in Nat, attempt' \in Nat
  PROVE  /\ Approvals = {} /\ Approvals' = Approvals /\ SentBack = FALSE /\ SentBack' = SentBack
         /\ \A w, f, n : ~RuledOn(w, f, n)'
<1>1. \A w, f, n : ~RuledOn(w, f, n)'
  BY DEF Quiet
<1>2. \A w \in Judges, f \in BOOLEAN : ~RuledOn(w, f, attempt)
  OBVIOUS
<1>3. \A w \in Judges, f \in BOOLEAN : ~RuledOn(w, f, attempt)'
  BY <1>1, JudgedNext
<1>4. Approvals = {} /\ ~SentBack
  BY <1>2, JudgedNow DEF Judges
<1>5. Approvals' = {} /\ ~SentBack'
  BY <1>3, JudgedNext DEF Judges
<1>6. SentBack \in BOOLEAN /\ SentBack' \in BOOLEAN
  BY DEF SentBack
<1> QED
  BY <1>1, <1>4, <1>5, <1>6

\* The counters are numbers within the budget.
LEMMA AttemptTypes ==
  ASSUME TypeInv
  PROVE  attempt \in Nat /\ attempt <= MaxAttempts /\ Base \in {0, 1} /\ Base \in Nat
BY Constants, BaseKept DEF TypeInv, TypeOK, ControlTypes

\* The run's preparation, to the turn it begins at.
LEMMA PrepareOut ==
  TypeInv /\ TypeInv' /\ OutRun /\ Prepare => OutKept
<1> SUFFICES ASSUME TypeInv, TypeInv', OutRun, Prepare PROVE OutKept
  OBVIOUS
<1>1. /\ pc = "prepare" /\ pc \in Going /\ Same /\ UNCHANGED <<log, status, passed>>
      /\ attempt' = IF from = "E" THEN 1 ELSE 0
  BY DEF Prepare, Go, Alive, Going
<1>2. run \in Nat /\ run > 0 /\ from \in TurnNames
  <2>1. launches \in Seq(TurnNames) /\ Len(launches) \in Nat /\ run \in 1 .. Len(launches)
    <3>1. launches \in Seq(TurnNames)
      BY Constants DEF TypeInv, TypeOK, RunTypes
    <3> QED
      BY <1>1, <3>1, RunPositive, LenProperties DEF TypeInv, TypeOK, RunTypes
  <2> QED
    BY <1>1, <2>1, ElementOfSeq, RunPositive DEF from
<1>3. /\ from = "A" => pc' = "startA"
      /\ from \in {"B", "C"} => pc' = "startBC"
      /\ from = "D" => pc' = "startD"
      /\ from = "E" => pc' = "startE"
  BY DEF Prepare, Go
<1>4. /\ Phase = "begun"
      /\ from = "A" => Phase' = "begun" /\ pc' \in Going
      /\ from \in {"B", "C"} => Phase' = "early" /\ pc' \in Going
      /\ from = "D" => Phase' = "between" /\ pc' \in Going
      /\ from = "E" => Phase' = "building" /\ pc' \in Going
  BY <1>1, <1>3 DEF Phase, At, Prompted, Alive, Going
<1>5. Quiet /\ Projectable(log') /\ Open' /\ status'.state \in {"running", "retrying"}
  BY <1>1, SilentFacts
<1>6. /\ attempt = 0 /\ attempt \in Nat /\ attempt' \in Nat /\ from' = from /\ run' = run /\ Base' = Base
      /\ Base = (IF from = "A" THEN 1 ELSE 0)
  BY <1>1, <1>4, BaseKept, SameRun DEF Base, OutRun, Counted
<1>7. \A w, f, n : ~RuledOn(w, f, n)
  BY <1>4 DEF OutRun, Ruled
<1>8. /\ Approvals' = Approvals /\ SentBack' = SentBack
      /\ \A w, f, n : ~RuledOn(w, f, n)'
  BY <1>5, <1>6, <1>7, Unsaid
<1>9. [Loop!Next]_(Loop!vars)
  <2>1. Tries' = Tries
    BY <1>1, <1>6 DEF Tries
  <2>2. Outcome = "open" /\ Outcome' = "open"
    BY <1>1, <1>2, <1>4, Running, RunningNext DEF TurnNames
  <2> QED
    BY <1>8, <2>1, <2>2 DEF Loop!vars
<1>10. Counted'
  BY <1>1, <1>2, <1>3, <1>4, <1>6 DEF Counted, TurnNames
<1>11. Ruled'
  <2>1. Phase' \in {"begun", "early", "between", "building"} /\ (Phase' = "building" => from' = "E")
    BY <1>2, <1>4, <1>6 DEF TurnNames
  <2>2. \A w \in Judges, f \in BOOLEAN : ~RuledOn(w, f, attempt)'
    BY <1>6, <1>8, JudgedNext
  <2> QED
    BY <1>8, <2>1, <2>2 DEF Ruled, Judges
<1>12. Spent'
  <2>1. from # "E" => \A n \in Nat : ~ReviewedOn(n)
    <3> SUFFICES ASSUME from # "E", NEW n \in Nat PROVE ~ReviewedOn(n)
      OBVIOUS
    <3>1. ReviewedOn(n) <=> n > Base /\ n <= attempt /\ (Phase = "judging" => n # attempt)
      BY <1>4 DEF OutRun, Spent
    <3>2. ~(n > Base /\ n <= attempt)
      BY <1>6
    <3> QED
      BY <3>1, <3>2
  <2>2. from # "E" => \A n \in Nat : ~ReviewedOn(n)'
    BY <1>5, <2>1 DEF Quiet
  <2>3. from # "E" => attempt' = 0 /\ Phase' # "judging"
    BY <1>1, <1>2, <1>4 DEF TurnNames
  <2>4. \A n \in Nat : from # "E" => ~(n > Base' /\ n <= attempt')
    BY <1>6, <2>3
  <2>5. pc' # "escalate"
    BY <1>2, <1>3 DEF TurnNames
  <2> QED
    BY <1>6, <2>2, <2>3, <2>4, <2>5 DEF Spent
<1>13. pc' \notin {"inBC", "version", "evidence", "outputs", "verdict"} /\ pc' \in Going
  BY <1>2, <1>3, <1>4 DEF TurnNames
<1> QED
  BY <1>5, <1>9, <1>10, <1>11, <1>12, <1>13, GoesOn

\* Turn A, which counts as the first attempt but builds nothing.
LEMMA StartAOut ==
  TypeInv /\ TypeInv' /\ OutRun /\ StartA => OutKept
<1> SUFFICES ASSUME TypeInv, TypeInv', OutRun, StartA PROVE OutKept
  OBVIOUS
<1>1. /\ Emit(Event("turn_started", "spec-agent", FALSE, RunStarted, 1), "dispatch")
      /\ attempt' = 1 /\ prompt' = "turn_a_spec" /\ pc = "startA" /\ pc \in Going /\ Same
  BY DEF StartA, Alive, Going
<1>2. \/ pc' = "crashed" /\ status' = status
      \/ pc' = "dispatch" /\ Projectable(log') /\ Open' /\ status'.state \in {"running", "retrying"}
  <2>1. "turn_started" \notin TerminalTypes
    BY DEF TerminalTypes
  <2> QED
    BY <1>1, <2>1, EmitSound DEF OutRun
<1>3. Quiet /\ status.state \in {"running", "retrying"}
  <2>1. "turn_started" \notin VerdictTypes
    BY DEF VerdictTypes
  <2> QED
    BY <1>1, <2>1, Said DEF OutRun, Sound
<1>4. /\ Phase = "begun" /\ attempt = 0 /\ from = "A" /\ Base = 1 /\ run \in Nat /\ run > 0
      /\ from' = from /\ run' = run /\ Base' = Base
  BY <1>1, RunPositive, BaseKept, SameRun DEF Phase, At, Prompted, OutRun, Counted, Base
<1>5. \A w, f, n : ~RuledOn(w, f, n)
  BY <1>4 DEF OutRun, Ruled
<1>6. /\ Approvals' = Approvals /\ SentBack' = SentBack
      /\ \A w, f, n : ~RuledOn(w, f, n)'
  BY <1>1, <1>3, <1>4, <1>5, Unsaid
<1>7. Tries' = Tries
  BY <1>1, <1>4 DEF Tries
<1>8. CASE pc' = "crashed"
  BY <1>1, <1>2, <1>3, <1>6, <1>7, <1>8, Exits
<1>9. CASE pc' # "crashed"
  <2>1. pc' \in Going /\ Phase' = "early"
    BY <1>1, <1>2, <1>9 DEF Alive, Going, Phase, At, Prompted
  <2>2. [Loop!Next]_(Loop!vars)
    BY <1>1, <1>6, <1>7, <2>1, Running, RunningNext DEF Loop!vars
  <2>3. Counted'
    BY <1>1, <1>4, <2>1 DEF Counted
  <2>4. Ruled'
    BY <1>6, <2>1 DEF Ruled
  <2>5. Spent'
    <3> SUFFICES \A n \in Nat : ~ReviewedOn(n)'
      BY <1>1, <1>2, <1>4, <1>9, <2>1 DEF Spent
    <3> TAKE n \in Nat
    <3>1. ReviewedOn(n) <=> n > Base /\ n <= attempt
      BY <1>4 DEF OutRun, Spent
    <3> QED
      BY <1>3, <1>4, <3>1 DEF Quiet
  <2>6. pc' \notin {"inBC", "version", "evidence", "outputs", "verdict"}
    BY <1>2, <1>9
  <2> QED
    BY <1>2, <1>9, <2>1, <2>2, <2>3, <2>4, <2>5, <2>6, GoesOn
<1> QED
  BY <1>8, <1>9

\* The next attempt: the first, or one after a judge has sent the last one back.
LEMMA BeginAttemptOut ==
  TypeInv /\ TypeInv' /\ OutRun /\ BeginAttempt => OutKept
<1> SUFFICES ASSUME TypeInv, TypeInv', OutRun, BeginAttempt PROVE OutKept
  OBVIOUS
<1>1. /\ pc = "attempt" /\ pc' = "dispatch" /\ pc \in Going /\ pc' \in Going /\ Same /\ UNCHANGED <<log, status>>
      /\ attempt < MaxAttempts /\ attempt' = attempt + 1 /\ prompt' = "turn_d_13q"
  BY DEF BeginAttempt, Go, Alive, Going
<1>2. /\ Phase = "between" /\ Phase' = "judging" /\ run \in Nat /\ run > 0
      /\ from' = from /\ run' = run /\ Base' = Base
  BY <1>1, RunPositive, BaseKept, SameRun DEF Phase, At, Prompted
<1>3. Quiet /\ Projectable(log') /\ Open' /\ status'.state \in {"running", "retrying"}
  BY <1>1, SilentFacts
<1>4. /\ attempt \in Nat /\ attempt' \in Nat /\ attempt' > attempt /\ Base \in Nat /\ MaxAttempts \in Nat
      /\ from # "E" /\ (attempt = Base \/ (attempt > Base /\ SentBack))
  BY <1>1, <1>2, AttemptTypes, Constants DEF OutRun, Counted
<1>5. \A w \in Judges, f \in BOOLEAN, n \in Nat : RuledOn(w, f, n)' => n <= attempt
  BY <1>2, <1>3 DEF OutRun, Ruled, Quiet
<1>6. \A w \in Judges, f \in BOOLEAN : ~RuledOn(w, f, attempt)'
  <2>1. ~(attempt' <= attempt)
    BY <1>4
  <2>2. \A w \in Judges, f \in BOOLEAN, n \in Nat : n = attempt' => ~RuledOn(w, f, n)'
    BY <1>5, <2>1
  <2> QED
    BY <1>4, <2>2, JudgedNext
<1>7. Loop!Try
  <2>1. Approvals' = {} /\ SentBack' = FALSE
    <3>1. SentBack' \in BOOLEAN
      BY DEF SentBack
    <3> QED
      BY <1>6, <3>1, JudgedNext DEF Judges
  <2>2. Tries < MaxAttempts /\ Tries' = Tries + 1 /\ (Tries = 0 \/ SentBack)
    BY <1>1, <1>2, <1>4 DEF Tries, Base
  <2>3. Outcome = "open" /\ Outcome' = "open"
    BY <1>1, Running, RunningNext
  <2> QED
    BY <2>1, <2>2, <2>3 DEF Loop!Try
<1>8. Counted'
  BY <1>1, <1>2, <1>4 DEF Counted
<1>9. Ruled'
  <2>1. \A w \in Judges, f \in BOOLEAN, n \in Nat : RuledOn(w, f, n)' => n <= attempt'
    BY <1>4, <1>5
  <2> QED
    BY <1>2, <1>6, <2>1 DEF Ruled
<1>10. Spent'
  <2>1. \A n \in Nat : ReviewedOn(n)' <=> n > Base /\ n <= attempt
    BY <1>2, <1>3, <1>4 DEF OutRun, Spent, Quiet
  <2>2. \A n \in Nat : n > Base /\ n <= attempt <=> n > Base /\ n <= attempt' /\ n # attempt'
    BY <1>1, <1>4
  <2> QED
    BY <1>1, <1>2, <2>1, <2>2 DEF Spent
<1> QED
  BY <1>1, <1>3, <1>7, <1>8, <1>9, <1>10, GoesOn DEF Loop!Next

\* A verdict is always accepted: the judge's agent_exited, with its role, is in the log.
LEMMA DecisionLands ==
  ASSUME TypeInv, OutRun, NEW type, NEW failed, NEW next, Decide(type, failed, next), next # "crashed",
         \/ type = "review_verdict_recorded" /\ prompt = "turn_d_review"
         \/ type = "evaluation_verdict_recorded" /\ prompt = "turn_e_eval"
  PROVE  /\ pc = "verdict" /\ pc' = next /\ Same /\ attempt' = attempt /\ verdicts' = verdicts
         /\ Projectable(log') /\ Open' /\ status'.state \in {"running", "retrying"}
         /\ \A w, f, n : RuledOn(w, f, n)' <=> RuledOn(w, f, n) \/ (w = Role /\ f = failed /\ n = attempt)
         /\ type # "review_verdict_recorded" => \A n : ReviewedOn(n)' <=> ReviewedOn(n)
         /\ type = "review_verdict_recorded" => \A n : ReviewedOn(n)' <=> ReviewedOn(n) \/ n = attempt
<1>1. /\ Emit(Event(type, Role, failed, ids.exit, attempt), next)
      /\ pc = "verdict" /\ pc \in Going /\ Same /\ attempt' = attempt /\ verdicts' = verdicts
  BY DEF Decide, disk, Alive, Going
<1> DEFINE e == Event(type, Role, failed, ids.exit, attempt)
<1>2. e.type = type /\ e.parent = ids.exit /\ e.ts = 0
  BY DEF Event
<1>3. Emit(e, next)
  BY <1>1
<1>4. type \in VerdictTypes /\ type \notin TerminalTypes
  BY DEF VerdictTypes, TerminalTypes
<1>5. /\ type = "review_verdict_recorded" => RoleOf[prompt] = "reviewer"
      /\ type = "evaluation_verdict_recorded" => RoleOf[prompt] = "evaluator"
  BY DEF RoleOf
<1> HIDE DEF e
<1>6. ids.exit \in DOMAIN log /\ log[ids.exit].type = "agent_exited" /\ log[ids.exit].role = RoleOf[prompt] /\ Open
  BY <1>1 DEF OutRun, Rooted, Sound
<1>7. /\ Len(log) \in Nat /\ DOMAIN log = 1 .. Len(log) /\ NewId = Len(log) + 1
      /\ DOMAIN log' = 1 .. NewId /\ Len(log') = NewId
      /\ \A i \in DOMAIN log : log'[i] = log[i] /\ log[i].ts = 0
      /\ log'[NewId] = e
  BY <1>3, Grown
<1>8. Accepted(log')
  <2>1. /\ NewId \in Nat /\ NewId \in 1 .. NewId /\ \A j \in 1 .. NewId : log'[j].ts = 0
    BY <1>2, <1>7
  <2>2. log'[NewId].parent \in 1 .. NewId - 1 /\ log'[log'[NewId].parent] = log[ids.exit]
    BY <1>2, <1>6, <1>7
  <2>3. log'[log'[NewId].parent].type \in PARENT_RULES[log'[NewId].type]
    BY <1>2, <1>6, <1>7, <2>2 DEF PARENT_RULES
  <2>4. ParentFits(log'[NewId], log'[log'[NewId].parent])
    BY <1>2, <1>5, <1>6, <1>7, <2>2 DEF ParentFits
  <2>5. \A j \in 1 .. NewId : j < NewId => log'[j].type \notin TerminalTypes
    BY <1>6, <1>7 DEF Open
  <2>6. validate_parent(log', NewId) /\ NotAfterTerminal(log', NewId)
    BY <1>7, <2>1, <2>2, <2>3, <2>4, <2>5, Fits
  <2> QED
    BY <1>7, <2>6 DEF Accepted
<1>9. pc' = next
  BY <1>3, <1>8 DEF Emit
<1>10. Projectable(log') /\ Open' /\ status'.state \in {"running", "retrying"}
  BY <1>1, <1>4, <1>9, EmitSound DEF OutRun
<1>11. /\ \A w, f, n : RuledOn(w, f, n)' <=> RuledOn(w, f, n) \/ (w = Role /\ f = failed /\ n = attempt)
       /\ type # "review_verdict_recorded" => \A n : ReviewedOn(n)' <=> ReviewedOn(n)
       /\ type = "review_verdict_recorded" => \A n : ReviewedOn(n)' <=> ReviewedOn(n) \/ n = attempt
  BY <1>1, <1>4, Said
<1> QED
  BY <1>1, <1>9, <1>10, <1>11

\* The reviewer approves: the build of this attempt may begin.
LEMMA ReviewPassesOut ==
  TypeInv /\ TypeInv' /\ OutRun /\ ReviewPasses => OutKept
<1> SUFFICES ASSUME TypeInv, TypeInv', OutRun, ReviewPasses PROVE OutKept
  OBVIOUS
<1>1. Decide("review_verdict_recorded", FALSE, "dispatch") /\ prompt = "turn_d_review" /\ prompt' = "turn_d_build"
  BY DEF ReviewPasses
<1>2. /\ pc = "verdict" /\ pc' = "dispatch" /\ Same /\ attempt' = attempt
      /\ Projectable(log') /\ Open' /\ status'.state \in {"running", "retrying"}
      /\ \A w, f, n : RuledOn(w, f, n)' <=> RuledOn(w, f, n) \/ (w = Role /\ f = FALSE /\ n = attempt)
      /\ \A n : ReviewedOn(n)' <=> ReviewedOn(n) \/ n = attempt
  BY <1>1, DecisionLands
<1>3. /\ Role = "reviewer" /\ pc \in Going /\ pc' \in Going /\ Phase = "judging" /\ Phase' = "building"
      /\ from' = from /\ run' = run /\ Base' = Base /\ attempt \in Nat /\ Base \in Nat
  BY <1>1, <1>2, AttemptTypes, BaseKept, SameRun DEF Role, RoleOf, Alive, Going, Phase, At, Prompted
<1>4. from # "E" /\ attempt > Base /\ \A w \in Judges, f \in BOOLEAN : ~RuledOn(w, f, attempt)
  BY <1>3 DEF OutRun, Counted, Ruled
<1>5. \A w \in Judges, f \in BOOLEAN : RuledOn(w, f, attempt)' <=> w = "reviewer" /\ f = FALSE
  <2>1. \A w \in Judges, f \in BOOLEAN : RuledOn(w, f, attempt)' <=> RuledOn(w, f, attempt) \/ (w = "reviewer" /\ f = FALSE)
    BY <1>2, <1>3, JudgedNext
  <2> QED
    BY <1>4, <2>1
<1>6. Loop!Approve("reviewer")
  <2>1. Approvals = {} /\ ~SentBack /\ Approvals' = {"reviewer"} /\ ~SentBack'
    BY <1>4, <1>5, JudgedNow, JudgedNext DEF Judges
  <2>2. SentBack' = SentBack
    BY <2>1 DEF SentBack
  <2>3. Tries' = Tries /\ Outcome = "open" /\ Outcome' = "open"
    BY <1>2, <1>3, Running, RunningNext DEF Tries
  <2> QED
    BY <2>1, <2>2, <2>3 DEF Loop!Approve
<1>7. Counted'
  BY <1>2, <1>3, <1>4 DEF Counted
<1>8. Ruled'
  <2>1. \A w \in Judges, f \in BOOLEAN, n \in Nat : RuledOn(w, f, n)' => n <= attempt
    BY <1>2, <1>3 DEF OutRun, Ruled
  <2> QED
    BY <1>2, <1>3, <1>4, <1>5, <2>1 DEF Ruled, Judges
<1>9. Spent'
  <2>1. \A n \in Nat : ReviewedOn(n) <=> n > Base /\ n <= attempt /\ n # attempt
    BY <1>3, <1>4 DEF OutRun, Spent
  <2>2. \A n \in Nat : ReviewedOn(n)' <=> n > Base /\ n <= attempt
    BY <1>2, <1>3, <1>4, <2>1
  <2> QED
    BY <1>2, <1>3, <2>2 DEF Spent
<1>10. [Loop!Next]_(Loop!vars)
  BY <1>6 DEF Loop!Next, Loop!Judges
<1> QED
  BY <1>2, <1>3, <1>7, <1>8, <1>9, <1>10, GoesOn

\* The reviewer sends the questions back, or gives up on them.
LEMMA ReviewSendsBackOut ==
  TypeInv /\ TypeInv' /\ OutRun /\ (ReviewRetries \/ ReviewEscalates) => OutKept
<1> SUFFICES ASSUME TypeInv, TypeInv', OutRun, ReviewRetries \/ ReviewEscalates PROVE OutKept
  OBVIOUS
<1>1. /\ prompt = "turn_d_review" /\ prompt' = prompt
      /\ \/ Decide("review_verdict_recorded", TRUE, "retryReview")
         \/ Decide("review_verdict_recorded", TRUE, "escalate") /\ verdicts.review = "ESCALATE"
  BY DEF ReviewRetries, ReviewEscalates
<1>2. /\ pc = "verdict" /\ Same /\ attempt' = attempt
      /\ pc' \in {"retryReview", "escalate"} /\ (pc' = "escalate" => verdicts'.review = "ESCALATE")
      /\ Projectable(log') /\ Open' /\ status'.state \in {"running", "retrying"}
      /\ \A w, f, n : RuledOn(w, f, n)' <=> RuledOn(w, f, n) \/ (w = Role /\ f = TRUE /\ n = attempt)
      /\ \A n : ReviewedOn(n)' <=> ReviewedOn(n) \/ n = attempt
  <2>1. CASE Decide("review_verdict_recorded", TRUE, "retryReview")
    <3>1. prompt = "turn_d_review" /\ "retryReview" # "crashed"
      BY <1>1
    <3>2. /\ pc = "verdict" /\ pc' = "retryReview" /\ Same /\ attempt' = attempt
          /\ Projectable(log') /\ Open' /\ status'.state \in {"running", "retrying"}
      BY <2>1, <3>1, DecisionLands
    <3>3. \A w, f, n : RuledOn(w, f, n)' <=> RuledOn(w, f, n) \/ (w = Role /\ f = TRUE /\ n = attempt)
      BY <2>1, <3>1, DecisionLands
    <3>4. \A n : ReviewedOn(n)' <=> ReviewedOn(n) \/ n = attempt
      BY <2>1, <3>1, DecisionLands
    <3> QED
      BY <3>2, <3>3, <3>4
  <2>2. CASE Decide("review_verdict_recorded", TRUE, "escalate") /\ verdicts.review = "ESCALATE"
    BY <1>1, <2>2, DecisionLands
  <2> QED
    BY <1>1, <2>1, <2>2
<1>3. /\ Role = "reviewer" /\ pc \in Going /\ pc' \in Going /\ Phase = "judging" /\ Phase' = "sentBack"
      /\ from' = from /\ run' = run /\ Base' = Base /\ attempt \in Nat /\ Base \in Nat
  BY <1>1, <1>2, AttemptTypes, BaseKept, SameRun DEF Role, RoleOf, Alive, Going, Phase, At, Prompted
<1>4. from # "E" /\ attempt > Base /\ \A w \in Judges, f \in BOOLEAN : ~RuledOn(w, f, attempt)
  BY <1>3 DEF OutRun, Counted, Ruled
<1>5. \A w \in Judges, f \in BOOLEAN : RuledOn(w, f, attempt)' <=> w = "reviewer" /\ f = TRUE
  <2>1. \A w \in Judges, f \in BOOLEAN : RuledOn(w, f, attempt)' <=> RuledOn(w, f, attempt) \/ (w = "reviewer" /\ f = TRUE)
    BY <1>2, <1>3, JudgedNext
  <2> QED
    BY <1>4, <2>1
<1>6. Loop!SendBack /\ SentBack'
  <2>1. Approvals = {} /\ ~SentBack /\ Approvals' = {} /\ SentBack'
    BY <1>4, <1>5, JudgedNow, JudgedNext DEF Judges
  <2>2. SentBack' = TRUE
    BY <2>1 DEF SentBack
  <2>3. Tries' = Tries /\ Outcome = "open" /\ Outcome' = "open"
    BY <1>2, <1>3, Running, RunningNext DEF Tries
  <2> QED
    BY <2>1, <2>2, <2>3 DEF Loop!SendBack
<1>7. Counted'
  BY <1>2, <1>3, <1>4 DEF Counted
<1>8. Ruled'
  <2>1. \A w \in Judges, f \in BOOLEAN, n \in Nat : RuledOn(w, f, n)' => n <= attempt
    BY <1>2, <1>3 DEF OutRun, Ruled
  <2> QED
    BY <1>2, <1>3, <1>6, <2>1 DEF Ruled
<1>9. Spent'
  <2>1. \A n \in Nat : ReviewedOn(n) <=> n > Base /\ n <= attempt /\ n # attempt
    BY <1>3, <1>4 DEF OutRun, Spent
  <2>2. \A n \in Nat : ReviewedOn(n)' <=> n > Base /\ n <= attempt
    BY <1>2, <1>3, <1>4, <2>1
  <2> QED
    BY <1>2, <1>3, <2>2 DEF Spent
<1>10. [Loop!Next]_(Loop!vars)
  BY <1>6 DEF Loop!Next
<1> QED
  BY <1>2, <1>3, <1>7, <1>8, <1>9, <1>10, GoesOn

\* What is known of the judges when the evaluator is about to speak.
LEMMA BeforeEvaluation ==
  ASSUME TypeInv, RunInv, OutRun, prompt = "turn_e_eval", pc = "verdict"
  PROVE  /\ Role = "evaluator" /\ pc \in Going /\ Phase = "building" /\ passed = FALSE
         /\ attempt \in Nat /\ Base \in Nat /\ (from # "E" => attempt > Base)
         /\ RuledOn("reviewer", FALSE, attempt) <=> from # "E"
         /\ ~RuledOn("reviewer", TRUE, attempt)
         /\ ~RuledOn("evaluator", FALSE, attempt) /\ ~RuledOn("evaluator", TRUE, attempt)
         /\ \A w \in Judges, f \in BOOLEAN, n \in Nat : RuledOn(w, f, n) => n <= attempt
         /\ from # "E" => \A n \in Nat : ReviewedOn(n) <=> n > Base /\ n <= attempt
<1>1. /\ Role = "evaluator" /\ pc \in Going /\ Phase = "building"
      /\ attempt \in Nat /\ Base \in Nat
  BY AttemptTypes DEF Role, RoleOf, Alive, Going, Phase, At, Prompted
<1>2. passed = FALSE
  BY <1>1 DEF RunInv, Passing, TypeInv, TypeOK, ControlTypes
<1>3. /\ from # "E" => attempt > Base
      /\ RuledOn("reviewer", FALSE, attempt) <=> from # "E"
      /\ ~RuledOn("reviewer", TRUE, attempt)
      /\ ~RuledOn("evaluator", FALSE, attempt) /\ ~RuledOn("evaluator", TRUE, attempt)
  BY <1>1 DEF OutRun, Counted, Ruled
<1>4. \A w \in Judges, f \in BOOLEAN, n \in Nat : RuledOn(w, f, n) => n <= attempt
  BY <1>1 DEF OutRun, Ruled
<1>5. from # "E" => \A n \in Nat : ReviewedOn(n) <=> n > Base /\ n <= attempt
  BY <1>1 DEF OutRun, Spent
<1> QED
  BY <1>1, <1>2, <1>3, <1>4, <1>5

\* EvaluationPasses (run_turn_e()) is a step of the loop that BuildLoop
\* allows, and keeps what the log says of it.
LEMMA EvaluationPassesOut ==
  TypeInv /\ TypeInv' /\ RunInv /\ OutRun /\ EvaluationPasses => OutKept
<1> SUFFICES ASSUME TypeInv, TypeInv', RunInv, OutRun, EvaluationPasses PROVE OutKept
  OBVIOUS
<1>1. Decide("evaluation_verdict_recorded", FALSE, "auditE") /\ prompt = "turn_e_eval" /\ passed' = TRUE
  BY DEF EvaluationPasses
<1>2. /\ pc = "verdict" /\ pc' = "auditE" /\ Same /\ attempt' = attempt
      /\ Projectable(log') /\ Open' /\ status'.state \in {"running", "retrying"}
      /\ \A w, f, n : RuledOn(w, f, n)' <=> RuledOn(w, f, n) \/ (w = Role /\ f = FALSE /\ n = attempt)
      /\ \A n : ReviewedOn(n)' <=> ReviewedOn(n)
  <2>1. "evaluation_verdict_recorded" # "review_verdict_recorded"
    OBVIOUS
  <2> QED
    BY <1>1, <2>1, DecisionLands
<1>3. /\ Role = "evaluator" /\ pc \in Going /\ attempt \in Nat /\ Base \in Nat /\ (from # "E" => attempt > Base)
      /\ RuledOn("reviewer", FALSE, attempt) <=> from # "E"
      /\ ~RuledOn("reviewer", TRUE, attempt)
      /\ ~RuledOn("evaluator", FALSE, attempt) /\ ~RuledOn("evaluator", TRUE, attempt)
      /\ \A w \in Judges, f \in BOOLEAN, n \in Nat : RuledOn(w, f, n) => n <= attempt
      /\ from # "E" => \A n \in Nat : ReviewedOn(n) <=> n > Base /\ n <= attempt
  BY <1>1, <1>2, BeforeEvaluation
<1>4. pc' \in Going /\ Phase' = "judged" /\ from' = from /\ run' = run /\ Base' = Base
  BY <1>2, BaseKept, SameRun DEF Alive, Going, Phase, At, Prompted
<1>5. /\ RuledOn("reviewer", FALSE, attempt)' <=> from # "E"
      /\ ~RuledOn("reviewer", TRUE, attempt)'
      /\ RuledOn("evaluator", FALSE, attempt)' /\ ~RuledOn("evaluator", TRUE, attempt)'
  <2>1. \A w, f : RuledOn(w, f, attempt)' <=> RuledOn(w, f, attempt) \/ (w = "evaluator" /\ f = FALSE)
    BY <1>2, <1>3, JudgedNext
  <2> QED
    BY <1>3, <2>1
<1>6. Loop!Approve("evaluator")
  <2>1. /\ Approvals = IF from # "E" THEN {"reviewer"} ELSE {}
        /\ ~SentBack /\ ~SentBack'
        /\ Approvals' = IF from # "E" THEN {"reviewer", "evaluator"} ELSE {"evaluator"}
    BY <1>3, <1>5, JudgedNow, JudgedNext DEF Judges
  <2>2. SentBack' = SentBack
    BY <2>1 DEF SentBack
  <2>3. Tries' = Tries /\ Outcome = "open" /\ Outcome' = "open"
    BY <1>2, <1>3, <1>4, Running, RunningNext DEF Tries
  <2>4. "evaluator" \notin Approvals /\ Approvals' = Approvals \cup {"evaluator"}
    BY <2>1
  <2> QED
    BY <2>1, <2>2, <2>3, <2>4 DEF Loop!Approve
<1>7. Counted'
  BY <1>2, <1>3, <1>4 DEF Counted
<1>8. Ruled'
  <2>1. \A w \in Judges, f \in BOOLEAN, n \in Nat : RuledOn(w, f, n)' => n <= attempt
    BY <1>2, <1>3
  <2> QED
    BY <1>1, <1>2, <1>4, <1>5, <2>1 DEF Ruled
<1>9. Spent'
  BY <1>2, <1>3, <1>4 DEF Spent
<1>10. [Loop!Next]_(Loop!vars)
  BY <1>6 DEF Loop!Next, Loop!Judges
<1> QED
  BY <1>2, <1>4, <1>7, <1>8, <1>9, <1>10, GoesOn

\* EvaluationFails (run_turn_e()) is a step of the loop that BuildLoop allows,
\* and keeps what the log says of it.
LEMMA EvaluationFailsOut ==
  TypeInv /\ TypeInv' /\ RunInv /\ OutRun /\ EvaluationFails => OutKept
<1> SUFFICES ASSUME TypeInv, TypeInv', RunInv, OutRun, EvaluationFails PROVE OutKept
  OBVIOUS
<1>1. Decide("evaluation_verdict_recorded", TRUE, "auditE") /\ prompt = "turn_e_eval" /\ passed' = passed
  BY DEF EvaluationFails
<1>2. /\ pc = "verdict" /\ pc' = "auditE" /\ Same /\ attempt' = attempt
      /\ Projectable(log') /\ Open' /\ status'.state \in {"running", "retrying"}
      /\ \A w, f, n : RuledOn(w, f, n)' <=> RuledOn(w, f, n) \/ (w = Role /\ f = TRUE /\ n = attempt)
      /\ \A n : ReviewedOn(n)' <=> ReviewedOn(n)
  <2>1. "evaluation_verdict_recorded" # "review_verdict_recorded"
    OBVIOUS
  <2> QED
    BY <1>1, <2>1, DecisionLands
<1>3. /\ Role = "evaluator" /\ pc \in Going /\ attempt \in Nat /\ Base \in Nat /\ (from # "E" => attempt > Base)
      /\ RuledOn("reviewer", FALSE, attempt) <=> from # "E"
      /\ ~RuledOn("reviewer", TRUE, attempt)
      /\ ~RuledOn("evaluator", FALSE, attempt) /\ ~RuledOn("evaluator", TRUE, attempt) /\ passed = FALSE
      /\ \A w \in Judges, f \in BOOLEAN, n \in Nat : RuledOn(w, f, n) => n <= attempt
      /\ from # "E" => \A n \in Nat : ReviewedOn(n) <=> n > Base /\ n <= attempt
  BY <1>1, <1>2, BeforeEvaluation
<1>4. pc' \in Going /\ Phase' = "judged" /\ from' = from /\ run' = run /\ Base' = Base
  BY <1>2, BaseKept, SameRun DEF Alive, Going, Phase, At, Prompted
<1>5. /\ RuledOn("reviewer", FALSE, attempt)' <=> from # "E"
      /\ ~RuledOn("reviewer", TRUE, attempt)'
      /\ ~RuledOn("evaluator", FALSE, attempt)' /\ RuledOn("evaluator", TRUE, attempt)'
  <2>1. \A w, f : RuledOn(w, f, attempt)' <=> RuledOn(w, f, attempt) \/ (w = "evaluator" /\ f = TRUE)
    BY <1>2, <1>3, JudgedNext
  <2> QED
    BY <1>3, <2>1
<1>6. Loop!SendBack
  <2>1. Approvals' = Approvals /\ ~SentBack /\ SentBack'
    BY <1>3, <1>5, JudgedNow, JudgedNext DEF Judges
  <2>2. SentBack' = TRUE
    BY <2>1 DEF SentBack
  <2>3. Tries' = Tries /\ Outcome = "open" /\ Outcome' = "open"
    BY <1>2, <1>3, <1>4, Running, RunningNext DEF Tries
  <2> QED
    BY <2>1, <2>2, <2>3 DEF Loop!SendBack
<1>7. Counted'
  BY <1>2, <1>3, <1>4 DEF Counted
<1>8. Ruled'
  <2>1. \A w \in Judges, f \in BOOLEAN, n \in Nat : RuledOn(w, f, n)' => n <= attempt
    BY <1>2, <1>3
  <2> QED
    BY <1>1, <1>2, <1>3, <1>4, <1>5, <2>1 DEF Ruled
<1>9. Spent'
  BY <1>2, <1>3, <1>4 DEF Spent
<1>10. [Loop!Next]_(Loop!vars)
  BY <1>6 DEF Loop!Next
<1> QED
  BY <1>2, <1>4, <1>7, <1>8, <1>9, <1>10, GoesOn

\* The audit of an evaluation that failed.
LEMMA AuditEOut ==
  TypeInv /\ TypeInv' /\ OutRun /\ AuditE => OutKept
<1> SUFFICES ASSUME TypeInv, TypeInv', OutRun, AuditE PROVE OutKept
  OBVIOUS
<1>1. /\ pc = "auditE" /\ pc \in Going /\ Same /\ UNCHANGED <<log, status, attempt, passed>>
      /\ pc' = "failing" \/ (pc' = "retryEval" /\ ~passed)
  BY DEF AuditE, Audit, Go, control, Alive, Going
<1>2. CASE pc' = "failing"
  BY <1>1, <1>2, SilentLeaves
<1>3. CASE pc' = "retryEval"
  <2>1. Quiet /\ Projectable(log') /\ Open' /\ status'.state \in {"running", "retrying"}
    BY <1>1, SilentFacts
  <2>2. Phase = "judged" /\ Phase' = "sentBack" /\ pc' \in Going /\ from' = from /\ Base' = Base
    BY <1>1, <1>3, BaseKept DEF Phase, At, Prompted, Alive, Going
  <2>3. SentBack
    BY <1>1, <1>3, <2>2, JudgedNow DEF OutRun, Ruled
  <2>4. SentBack'
    BY <1>1, <2>1, <2>3, QuietKeeps
  <2>5. Counted'
    BY <1>1, <1>3, <2>2 DEF OutRun, Counted
  <2>6. Ruled'
    <3>1. \A w \in Judges, f \in BOOLEAN, n \in Nat : RuledOn(w, f, n)' => n <= attempt
      BY <2>1, <2>2 DEF OutRun, Ruled, Quiet
    <3> QED
      BY <1>1, <2>2, <2>4, <3>1 DEF Ruled
  <2>7. Spent'
    BY <1>1, <1>3, <2>1, <2>2 DEF OutRun, Spent, Quiet
  <2> QED
    BY <1>1, <1>3, <2>1, <2>2, <2>5, <2>6, <2>7, MovesOn
<1> QED
  BY <1>1, <1>2, <1>3

\* A retry: the judge that sent the build back is the reason for it.
LEMMA RetriesOut ==
  TypeInv /\ TypeInv' /\ RunInv /\ OutRun /\ (RetryReview \/ RetryEvaluation) => OutKept
<1> SUFFICES ASSUME TypeInv, TypeInv', RunInv, OutRun, RetryReview \/ RetryEvaluation PROVE OutKept
  OBVIOUS
<1>1. /\ Same /\ attempt' = attempt /\ pc \in {"retryReview", "retryEval"} /\ pc \in Going
      /\ \/ Emit(Event("retry_started", "orchestrator", TRUE, ids.decision, attempt), "attempt")
         \/ Emit(Event("retry_started", "orchestrator", TRUE, ids.decision, attempt), "startD")
      /\ pc = "retryEval" => from # "E"
  BY DEF RetryReview, RetryEvaluation, control, Alive, Going
<1>2. from # "E"
  BY <1>1 DEF RunInv, Where, Working, Alive, Going, InTurnE, At, Prompted
<1>3. "retry_started" \notin VerdictTypes \cup TerminalTypes
  BY DEF VerdictTypes, TerminalTypes
<1>4. \/ pc' = "crashed" /\ status' = status
      \/ pc' \in {"attempt", "startD"} /\ Projectable(log') /\ Open' /\ status'.state \in {"running", "retrying"}
  BY <1>1, <1>3, EmitSound DEF OutRun
<1>5. Quiet
  BY <1>1, <1>3, Said
<1>6. status.state \in {"running", "retrying"}
  BY <1>1 DEF OutRun, Sound
<1>7. CASE pc' = "crashed"
  BY <1>1, <1>4, <1>5, <1>6, <1>7, Leaves
<1>8. CASE pc' # "crashed"
  <2>1. Phase = "sentBack" /\ Phase' = "between" /\ pc' \in Going /\ from' = from /\ Base' = Base
    BY <1>1, <1>4, <1>8, BaseKept DEF Phase, At, Prompted, Alive, Going
  <2>2. SentBack'
    BY <1>1, <1>5, <2>1, QuietKeeps DEF OutRun, Ruled
  <2>3. Counted'
    BY <1>1, <1>2, <1>4, <1>8, <2>1, <2>2 DEF OutRun, Counted
  <2>4. Ruled'
    <3>1. \A w \in Judges, f \in BOOLEAN, n \in Nat : RuledOn(w, f, n)' => n <= attempt
      BY <1>5, <2>1 DEF OutRun, Ruled, Quiet
    <3> QED
      BY <1>1, <2>1, <3>1 DEF Ruled
  <2>5. Spent'
    BY <1>1, <1>4, <1>5, <1>8, <2>1 DEF OutRun, Spent, Quiet
  <2> QED
    BY <1>1, <1>4, <1>5, <1>8, <2>1, <2>3, <2>4, <2>5, MovesOn
<1> QED
  BY <1>7, <1>8

\* A new run has nothing behind it.
LEMMA LaunchOut ==
  TypeInv /\ TypeInv' /\ Launch => OutKept
<1> SUFFICES ASSUME TypeInv, TypeInv', Launch PROVE OutKept
  OBVIOUS
<1> DEFINE e == Event("run_started", "orchestrator", FALSE, 0, 0)
<1>1. /\ pc \in Ended /\ run \in Nat /\ run' = run + 1 /\ log' = <<e>> /\ status' = NewStatus /\ pc' = "preflight"
      /\ attempt' = 0 /\ passed' = FALSE
  BY LenProperties DEF Launch, TypeInv, TypeOK, RunTypes
<1>2. e.type = "run_started" /\ e.parent = 0
  BY DEF Event
<1> HIDE DEF e
<1>3. DOMAIN log' = {1} /\ log'[1] = e
  BY <1>1
<1>4. Projectable(log') /\ Open'
  <2>1. PARENT_RULES["run_started"] = {}
    BY DEF PARENT_RULES
  <2>2. validate_parent(log', 1)
    BY <1>2, <1>3, <2>1 DEF validate_parent
  <2>3. NotAfterTerminal(log', 1)
    BY <1>2, <1>3 DEF NotAfterTerminal, TerminalTypes
  <2>4. Open'
    BY <1>2, <1>3 DEF Open, TerminalTypes
  <2> QED
    BY <1>3, <2>2, <2>3, <2>4 DEF Projectable
<1>5. pc' \in Going /\ Phase' = "begun" /\ status'.state = "running"
  BY <1>1 DEF Alive, Going, Phase, At, Prompted, NewStatus
<1>6. (\A w, f, n : ~RuledOn(w, f, n)') /\ (\A n : ~ReviewedOn(n)') /\ \A w, f : ~RuledOn(w, f, attempt)'
  <2>1. log'[1].type \notin VerdictTypes /\ log'[1].type # "review_verdict_recorded"
    BY <1>2, <1>3 DEF VerdictTypes
  <2>2. (\A w, f, n : ~RuledOn(w, f, n)') /\ (\A n : ~ReviewedOn(n)')
    BY <1>3, <2>1 DEF RuledOn, ReviewedOn
  <2> QED
    BY <2>2, JudgedNext
<1>7. Sound' /\ Rooted'
  BY <1>1, <1>4, <1>5 DEF Sound, Rooted
<1>8. Counted' /\ Ruled' /\ Spent'
  <2>1. Counted'
    BY <1>1, <1>5 DEF Counted
  <2>2. Ruled'
    BY <1>5, <1>6 DEF Ruled
  <2>3. \A n \in Nat : ~(n > Base' /\ n <= attempt')
    BY <1>1 DEF Base
  <2>4. Spent'
    BY <1>1, <1>5, <1>6, <2>3 DEF Spent
  <2> QED
    BY <2>1, <2>2, <2>4
<1>9. RunOutcome'
  BY <1>1, <1>4, <1>5, OngoingIs DEF RunOutcome, BudgetSpent
<1>10. Loop!Launch
  <2>1. Outcome # "open" /\ Outcome' = "open"
    BY <1>1, <1>5 DEF Outcome, Ended, Alive, Going
  <2>2. Tries' = 0
    BY <1>1 DEF Tries
  <2>3. Approvals' = {} /\ SentBack' = FALSE
    <3>1. SentBack' \in BOOLEAN
      BY DEF SentBack
    <3> QED
      BY <1>6, <3>1, JudgedNext
  <2> QED
    BY <2>1, <2>2, <2>3 DEF Loop!Launch
<1> QED
  BY <1>7, <1>8, <1>9, <1>10 DEF OutKept, OutRun, Loop!Next

\* Nothing happens to the loop when nothing happens.
LEMMA StutterOut ==
  UNCHANGED vars => (run > 0 /\ OutRun => OutRun') /\ UNCHANGED Loop!vars
<1> SUFFICES ASSUME UNCHANGED vars PROVE (run > 0 /\ OutRun => OutRun') /\ UNCHANGED Loop!vars
  OBVIOUS
<1>1. /\ Same /\ UNCHANGED <<log, status, pc, prompt, attempt, passed, ids, verdicts>>
      /\ Phase' = Phase /\ from' = from /\ Base' = Base
  BY DEF vars, Same, shared, Phase, At, from, Base
<1>2. Quiet
  BY <1>1 DEF Quiet, RuledOn, ReviewedOn
<1>3. Tries' = Tries /\ Approvals' = Approvals /\ SentBack' = SentBack /\ Outcome' = Outcome
  BY <1>1, <1>2, LoopStands DEF Outcome
<1>4. OutRun => Sound' /\ Rooted' /\ RunOutcome'
  BY <1>1, SameRun DEF OutRun, Sound, Open, Rooted, RunOutcome, Ongoing, FailedInBC, BudgetSpent
<1>5. OutRun => Counted' /\ Ruled' /\ Spent'
  <2> SUFFICES ASSUME OutRun PROVE Counted' /\ Ruled' /\ Spent'
    OBVIOUS
  <2>1. \A w, f : RuledOn(w, f, attempt)' <=> RuledOn(w, f, attempt)
    BY <1>1, <1>2, QuietKeeps
  <2>2. Counted /\ Ruled /\ Spent
    BY DEF OutRun
  <2>3. Counted'
    BY <1>1, <1>3, <2>2, Zenon DEF Counted
  <2>4. Ruled'
    BY <1>1, <1>2, <1>3, <2>1, <2>2, Zenon DEF Ruled, Quiet
  <2>5. Spent'
    BY <1>1, <1>2, <2>2 DEF Spent, Quiet
  <2> QED
    BY <2>3, <2>4, <2>5
<1> QED
  BY <1>3, <1>4, <1>5 DEF OutRun, Loop!vars

----------------------------------------------------------------------------
(* The run as a whole *)

\* Every step of the specification keeps what is known of a run, and is one of BuildLoop.
LEMMA NextOut == OutInv /\ [Next]_vars => OutInv' /\ [Loop!Next]_(Loop!vars)
<1> SUFFICES ASSUME TypeInv, run > 0 => RunInv /\ OutRun, [Next]_vars PROVE OutInv' /\ [Loop!Next]_(Loop!vars)
  BY DEF OutInv
<1>1. TypeInv' /\ (run' > 0 => RunInv')
  BY NextKeeps DEF IInv
<1>2. CASE Launch
  BY <1>1, <1>2, LaunchOut DEF OutInv, OutKept
<1>3. CASE UNCHANGED vars
  <2>1. run' = run
    BY <1>3 DEF vars
  <2> QED
    BY <1>1, <1>3, <2>1, StutterOut DEF OutInv
<1>4. ASSUME Step \/ Kill PROVE OutKept
  <2>1. run > 0 /\ RunInv /\ OutRun
    BY <1>4, Launched
  <2>2. CASE Kill \/ PreflightPasses \/ PreflightFails \/ FailRun \/ Prepare
    <3>1. Kill => pc \in Going \/ pc = "unwindBC"
      BY DEF Kill, Alive
    <3> QED
      BY <1>1, <2>1, <2>2, <3>1, QuitsKeep, TurnBCEndsOut, TurnsKeep, FailingKeeps, FailRunOut, PrepareOut
  <2>3. CASE Prompting
    BY <2>1, <2>3, PromptingKeeps, ChecksKeep, FailingKeeps, QuitsKeep DEF Prompting
  <2>4. CASE Specifying
    BY <1>1, <2>1, <2>4, StartAOut, TurnsKeep, CheckpointsKeep, QuitsKeep, TurnBCKeeps, TurnBCFailsOut,
       TurnBCLingersOut, TurnBCEndsOut
    DEF Specifying
  <2>5. CASE Building
    BY <1>1, <2>1, <2>5, QuitsKeep, TurnsKeep, BeginAttemptOut, ReviewPassesOut, ReviewSendsBackOut, FailingKeeps,
       EscalateOut, RetriesOut
    DEF Building
  <2>6. CASE Evaluating
    BY <1>1, <2>1, <2>6, QuitsKeep, TurnsKeep, EvaluationPassesOut, EvaluationFailsOut, AuditEOut, RetriesOut,
       CompleteRunOut
    DEF Evaluating
  <2> QED
    BY <1>4, <2>2, <2>3, <2>4, <2>5, <2>6 DEF Step
<1> QED
  BY <1>1, <1>2, <1>3, <1>4 DEF Next, OutInv, OutKept

\* Before the first run the invariant holds, and the loop is as BuildLoop
\* starts.
LEMMA InitOut == Init => OutInv /\ Loop!Init
<1> SUFFICES ASSUME Init PROVE OutInv /\ Loop!Init
  OBVIOUS
<1>1. run = 0 /\ log = <<>> /\ pc = "ready"
  BY DEF Init
<1>2. \A w, f : Verdict(w, f) = {}
  BY <1>1 DEF Verdict
<1>3. Tries = 0 /\ Approvals = {} /\ ~SentBack /\ Outcome = "lost"
  BY <1>1, <1>2 DEF Tries, Approvals, SentBack, Outcome, Alive, Going
<1> QED
  BY <1>1, <1>3, InitTypes DEF OutInv, Loop!Init

\* The invariant holds in every reachable state.
LEMMA Ends == Spec => []OutInv
BY InitOut, NextOut, PTL DEF Spec

\* However a run ends, its files say how: while the process lives its log is legal and
\* has no end, but for the time between a failure of one thread of Turn B/C and the end of
\* the other; PipelineAbort means failed or escalated, but for a checkpoint without a
\* terminal and for a failed Turn B/C whose log became illegal; a crash leaves a log that is
\* illegal or has no end; and a run that is escalated for want of attempts has had every one
\* of them reviewed.
THEOREM OutcomeCorrect == Spec => []RunOutcome
<1>1. OutInv => RunOutcome
  <2> SUFFICES ASSUME OutInv, ~(run > 0) PROVE RunOutcome
    BY DEF OutInv, OutRun
  <2>1. pc = "ready"
    BY RunPositive DEF OutInv
  <2> QED
    BY <2>1 DEF RunOutcome, BudgetSpent, Alive, Going
<1> QED
  BY Ends, <1>1, PTL

\* The orchestrator is a BuildLoop: it builds again only after a judge has sent the
\* last try back and within the budget, completes a run only with the approvals it
\* needs on its last try, escalates only with a judge's refusal of it, and otherwise
\* the run is lost.
THEOREM LoopCorrect == Spec => KeepsLoop
<1>1. Init => Loop!Init
  BY InitOut
<1>2. OutInv /\ [Next]_vars => [Loop!Next]_(Loop!vars)
  BY NextOut
<1> QED
  BY Ends, <1>1, <1>2, PTL DEF Spec, KeepsLoop, Loop!Spec

=============================================================================
