------------------------------- MODULE Watch -------------------------------
(***************************************************************************)
(* The runs of one framework as others see them: orchestrators leave       *)
(* events, status.json and heartbeats in the directories of their runs;    *)
(* from these the pages of the shell, the tools of the portal and the next *)
(* orchestrator tell which runs are alive, and the shell whether it may    *)
(* launch another one.                                                     *)
(*                                                                         *)
(* Time passes in units of which an orchestrator that waits for an agent   *)
(* lets at most one pass between two heartbeats; the limits are multiples  *)
(* of the unit.                                                            *)
(***************************************************************************)
EXTENDS Naturals, FiniteSets, FiniteSetsExt

CONSTANTS
  MaxRuns,           \* bound on the runs
  InterruptedAfter,  \* INTERRUPTED_ORCHESTRATOR_STALE_SECONDS
  ActiveAfter        \* ACTIVE_HEARTBEAT_SECONDS

ASSUME WatchAssumption ==
  MaxRuns \in Nat /\ InterruptedAfter \in Nat \ {0} /\ ActiveAfter \in Nat /\ InterruptedAfter <= ActiveAfter

Runs == 1 .. MaxRuns
Never == ActiveAfter + 2
Ages == 0 .. ActiveAfter + 1

VARIABLES
  process,   \* of each run: where its orchestrator is
  cursor,    \* the directory its scan has come to
  logged,    \* the state that the events of the run give
  written,   \* the state in status.json, "none" if there is no file
  orch,      \* how old the latest heartbeat of the orchestrator is, or Never
  worker,    \* and the latest heartbeat of a worker
  excused    \* history variable: what the limits are not made for has happened

watchVars == <<process, cursor, logged, written, orch, worker, excused>>

WatchInit ==
  /\ process = [r \in Runs |-> "none"] /\ cursor = [r \in Runs |-> 1]
  /\ logged = [r \in Runs |-> "none"] /\ written = [r \in Runs |-> "none"]
  /\ orch = [r \in Runs |-> Never] /\ worker = [r \in Runs |-> Never]
  /\ excused = FALSE

Living(r) == process[r] \in {"scanning", "marking", "new", "working", "quiet"}

----------------------------------------------------------------------------
(* What others see *)

\* heartbeat_is_stale(): a heartbeat that there is not is not stale.
Stale(age, limit) == age # Never /\ age > limit

\* project_status(): a run without an end whose orchestrator is silent is
\* interrupted.
Projected(r) ==
  IF logged[r] = "running" /\ Stale(orch[r], InterruptedAfter) THEN "interrupted" ELSE logged[r]

\* run_dirs()
Visible(r) == written[r] # "none"

\* Mutant: only workers count.
YoungestBeatMutant(r) == worker[r]

\* heartbeat_age_seconds(), of whichever source.
YoungestBeat(r) == Min({orch[r], worker[r]})

\* effective_run_status(): status.json as it is when the events cannot be
\* projected, and no activity without a heartbeat, of whatever age.
Shown(r) ==
  LET state == IF logged[r] = "illegal" THEN written[r] ELSE Projected(r) IN
  IF state = "running" /\ (YoungestBeat(r) = Never \/ YoungestBeat(r) > ActiveAfter) THEN "interrupted" ELSE state

\* list_pipeline_runs(): status.json as it is.
ListedAs(r) == IF Visible(r) THEN written[r] ELSE "unknown"

\* framework_has_active_run()
HasActivity(r) == Visible(r) /\ Shown(r) = "running" /\ YoungestBeat(r) # Never /\ YoungestBeat(r) <= ActiveAfter

----------------------------------------------------------------------------
(* Launching *)

LaunchRun(r, excuse) ==
  /\ process[r] = "none" /\ \A q \in 1 .. r - 1 : process[q] # "none"
  /\ process' = [process EXCEPT ![r] = "scanning"]
  /\ excused' = (excused \/ excuse)
  /\ UNCHANGED <<cursor, logged, written, orch, worker>>

\* api_run_launch(): the shell does not wait for the run, so that it launches
\* another one before it can see the first.
ApiRunLaunch(r) ==
  /\ \A q \in Runs : ~HasActivity(q)
  /\ LaunchRun(r, \E q \in Runs : Living(q) /\ orch[q] = Never)

\* run.sh at a terminal looks at nothing.
LaunchByHand(r) == LaunchRun(r, \E q \in Runs : Living(q))

\* scan_interrupted_runs() looks at one directory after the other ...
ScanNext(r) ==
  LET q == cursor[r] IN
  /\ process[r] = "scanning" /\ q <= MaxRuns
  /\ IF Visible(q) /\ Projected(q) = "interrupted"
     THEN process' = [process EXCEPT ![r] = "marking"] /\ UNCHANGED cursor
     ELSE cursor' = [cursor EXCEPT ![r] = q + 1] /\ UNCHANGED process
  /\ UNCHANGED <<logged, written, orch, worker, excused>>

\* ... and then writes what it has found.
MarkInterrupted(r) ==
  /\ process[r] = "marking"
  /\ written' = [written EXCEPT ![cursor[r]] = "interrupted"]
  /\ process' = [process EXCEPT ![r] = "scanning"]
  /\ cursor' = [cursor EXCEPT ![r] = @ + 1]
  /\ UNCHANGED <<logged, orch, worker, excused>>

\* initialize_run_harness(): run.json, status.json and the first event.
InitializeRun(r) ==
  /\ process[r] = "scanning" /\ cursor[r] > MaxRuns
  /\ process' = [process EXCEPT ![r] = "new"]
  /\ logged' = [logged EXCEPT ![r] = "running"] /\ written' = [written EXCEPT ![r] = "running"]
  /\ UNCHANGED <<cursor, orch, worker, excused>>

----------------------------------------------------------------------------
(* Working *)

\* Orchestrator.heartbeat(), and the one of invoke_full() every 30 seconds: the
\* first one when the preflight begins.
Beat(r) ==
  /\ process[r] \in {"new", "working", "quiet"}
  /\ process' = [process EXCEPT ![r] = "working"]
  /\ orch' = [orch EXCEPT ![r] = 0]
  /\ UNCHANGED <<cursor, logged, written, worker, excused>>

\* The emitter of invoke_full() passes a sign of life of the agent on, as a
\* heartbeat and as an event.
ObserveWorker(r) ==
  /\ process[r] = "working"
  /\ worker' = [worker EXCEPT ![r] = 0]
  /\ written' = [written EXCEPT ![r] = Projected(r)]
  /\ UNCHANGED <<process, cursor, logged, orch, excused>>

\* Any event: status.json becomes the projection of this moment.
EmitEvent(r) ==
  /\ process[r] \in {"working", "quiet"}
  /\ written' = [written EXCEPT ![r] = Projected(r)]
  /\ UNCHANGED <<process, cursor, logged, orch, worker, excused>>

\* Work without heartbeats: a human is asked for, or a command runs.
FallSilent(r) ==
  /\ process[r] = "working"
  /\ process' = [process EXCEPT ![r] = "quiet"]
  /\ UNCHANGED <<cursor, logged, written, orch, worker, excused>>

\* The event that ends the run.
FinishRun(r) ==
  /\ process[r] \in {"working", "quiet"}
  /\ process' = [process EXCEPT ![r] = "gone"]
  /\ logged' = [logged EXCEPT ![r] = "ended"] /\ written' = [written EXCEPT ![r] = "ended"]
  /\ UNCHANGED <<cursor, orch, worker, excused>>

\* An event that the projection refuses: it stays in the log, and the exception
\* ends the process.
BreakRun(r) ==
  /\ process[r] \in {"working", "quiet"}
  /\ process' = [process EXCEPT ![r] = "gone"]
  /\ logged' = [logged EXCEPT ![r] = "illegal"]
  /\ UNCHANGED <<cursor, written, orch, worker, excused>>

KillRun(r) ==
  /\ Living(r)
  /\ process' = [process EXCEPT ![r] = "gone"]
  /\ UNCHANGED <<cursor, logged, written, orch, worker, excused>>

----------------------------------------------------------------------------
OneOlder(age) == IF age \in {Never, ActiveAfter + 1} THEN age ELSE age + 1

\* Time passes, but not without the heartbeats of those that give them.
Tick ==
  /\ \A r \in Runs : process[r] = "working" => orch[r] = 0
  /\ orch' = [r \in Runs |-> OneOlder(orch[r])] /\ worker' = [r \in Runs |-> OneOlder(worker[r])]
  /\ excused' = (excused \/ \E r \in Runs : process[r] = "quiet" /\ Stale(orch'[r], InterruptedAfter))
  /\ UNCHANGED <<process, cursor, logged, written>>

WatchNext ==
  \/ \E r \in Runs :
       \/ ApiRunLaunch(r) \/ LaunchByHand(r) \/ ScanNext(r) \/ MarkInterrupted(r) \/ InitializeRun(r)
       \/ Beat(r) \/ ObserveWorker(r) \/ EmitEvent(r) \/ FallSilent(r)
       \/ FinishRun(r) \/ BreakRun(r) \/ KillRun(r)
  \/ Tick

WatchSpec == WatchInit /\ [][WatchNext]_watchVars

----------------------------------------------------------------------------
(* Properties *)

WatchTypeOK ==
  /\ process \in [Runs -> {"none", "scanning", "marking", "new", "working", "quiet", "gone"}]
  /\ cursor \in [Runs -> 1 .. MaxRuns + 1]
  /\ logged \in [Runs -> {"none", "running", "illegal", "ended"}]
  /\ written \in [Runs -> {"none", "running", "interrupted", "ended"}]
  /\ orch \in [Runs -> Ages \cup {Never}] /\ worker \in [Runs -> Ages \cup {Never}]
  /\ excused \in BOOLEAN

\* As long as nobody launches a run by hand beside another, or before the last
\* one has given its first heartbeat, and no orchestrator that waits for a human
\* or a command is silent beyond the limit: the shell lets one orchestrator work
\* at a framework at a time, a run that is alive is called interrupted neither on
\* the pages nor in its status.json, and a run that has ended remains so, however
\* old its heartbeats become and whoever scans it.
RunsTold ==
  ~excused =>
    /\ Cardinality({r \in Runs : Living(r)}) <= 1
    /\ \A r \in Runs : Living(r) /\ orch[r] # Never => Shown(r) = "running" /\ ListedAs(r) = "running"
    /\ \A r \in Runs : logged[r] = "ended" => Shown(r) = "ended" /\ ListedAs(r) = "ended"

=============================================================================
